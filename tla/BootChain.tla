----------------------------- MODULE BootChain -----------------------------
(***************************************************************************)
(* From the boot of a Linux guest to its campaign: init starts loader.sh,  *)
(* which fetches agent.sh with `vmcall hget' and runs it; agent.sh is a    *)
(* list of vmcall commands, most of them about a file, that ends with the  *)
(* harness; and when it returns, loader.sh tells the host.                 *)
(*                                                                         *)
(* How a file is transferred, piece by piece, is modelled in FileTransfer, *)
(* and what a harness does in ForkServer and FsFuzzer.                     *)
(***************************************************************************)
EXTENDS Naturals, Sequences

CONSTANTS
  Scripts,    \* the agent.sh to consider
  OwnScript,  \* one that a user has written
  Files,      \* the files that a script asks the host for
  Faults      \* what may fail: "creat", "write", "push", "read", "range", "fs", "harness"

ASSUME BootAssumption ==
  /\ Scripts \subseteq {"forkserver", "fs_fuzzer", "dvkm", "vmcall", "test_agent", "own"}
  /\ OwnScript \in Seq([op : STRING, files : Seq(Files)])
  /\ {"forkserver.so", "dvkm.ko", "fuzz_dvkm", "foo", "enoexist"} \subseteq Files

VARIABLES
  cpu,     \* nyx_cpu_type: "v1" with PT, "v2" without, "none"
  magic,   \* whether the host answers GET_HOST_CONFIG as nyx_api.h says
  image,   \* what bless_loader() of gen_initrd.sh has found in the root file system
  share,   \* the files that the host has, other than agent.sh
  script,  \* the agent.sh that the host has
  at,      \* how far the guest has come
  len,     \* how many commands the agent.sh of the guest has
  pc,      \* the command of agent.sh that is next
  arg,     \* the argument of that command that is next
  files,   \* what hget has left of each file
  module   \* whether dvkm.ko is in the kernel

config == <<cpu, magic, image, share, script>>
vars == <<config, at, len, pc, arg, files, module>>

Stages == {"init", "fetch", "agent", "campaign", "return", "abort", "shell", "off"}

---------------------------------------------------------------------------
\* The scripts.
Vmcall(op) == [op |-> op, files |-> <<>>]
Hget(f) == [op |-> "hget", files |-> <<f>>]
Uses(op, f) == [op |-> op, files |-> <<f>>]

ForkserverScript == <<Vmcall("hpush"), Hget("forkserver.so"), Uses("harness", "forkserver.so")>>

FsFuzzerScript == <<Vmcall("hrange"), Vmcall("hpush"), Vmcall("fs_harness")>>

DvkmScript ==
  <<Vmcall("echo"), Vmcall("check"), Hget("dvkm.ko"), Hget("fuzz_dvkm"),
    Uses("insmod", "dvkm.ko"), Vmcall("hpush"), Uses("harness", "fuzz_dvkm")>>

VmcallScript == <<Vmcall("echo"), Vmcall("check"), Vmcall("echo"), Vmcall("hpush")>>

TestScript ==
  <<Vmcall("echo"), Hget("foo"), Hget("enoexist"), Uses("hcat", "foo"), Uses("hpush", "foo"),
    Uses("hpush", "enoexist"), Vmcall("hpush"), Vmcall("hrange"), Vmcall("hlock")>>

Text == CASE script = "forkserver" -> ForkserverScript
          [] script = "fs_fuzzer"  -> FsFuzzerScript
          [] script = "dvkm"       -> DvkmScript
          [] script = "vmcall"     -> VmcallScript
          [] script = "test_agent" -> TestScript
          [] OTHER                 -> OwnScript

\* `set -e': the script ends with the first command that fails.
\* Variant: without it.
Strict_Never == FALSE
Strict == script = "dvkm"

---------------------------------------------------------------------------
\* bless_loader(): loader.sh becomes a script of /etc/init.d or /etc/rcS, unless
\* the image has an rcS of its own.
Blessed == image \in {"sysv", "plain"}

Init ==
  /\ cpu \in {"v1", "v2", "none"} /\ magic \in BOOLEAN
  /\ image \in {"sysv", "plain", "rcS"}
  /\ share \in SUBSET (Files \ {"enoexist"}) /\ script \in Scripts \union {"missing"}
  /\ at = "init" /\ len = 0 /\ pc = 1 /\ arg = 1
  /\ files = [f \in Files |-> "none"]
  /\ module = FALSE

\* init: the autostart hooks, or the shell behind them.
Boot ==
  /\ at = "init"
  /\ at' = IF Blessed THEN "fetch" ELSE "shell"
  /\ UNCHANGED <<config, len, pc, arg, files, module>>

\* hypercall(): only a Nyx CPU with PT gets to the host.
Gated == cpu = "v1"

\* hget of agent.sh, whose result loader.sh does not look at: of a file that is
\* not there, or was not fetched whole, it runs what there is.  If the file cannot
\* be created, that may be the one that inject_files() has put into the image.
FetchAgent ==
  /\ at = "fetch"
  /\ at' = "agent"
  /\ len' \in {IF Gated /\ script # "missing" THEN Len(Text) ELSE 0}
       \union (IF "creat" \in Faults THEN {0, Len(Text)} ELSE {})
       \union (IF "write" \in Faults /\ Gated /\ script # "missing" THEN 0..Len(Text) ELSE {})
  /\ UNCHANGED <<config, pc, arg, files, module>>

---------------------------------------------------------------------------
\* The commands of agent.sh.

Command(op) == at = "agent" /\ pc <= len /\ Text[pc].op = op
Argument == Text[pc].files[arg]

\* A command has ended with a status; and the same if it has touched no file.
\* Variant: the next one begins with a later argument.
Ends_ArgKept(ok) ==
  /\ IF ok \/ ~ Strict THEN pc' = pc + 1 /\ UNCHANGED at
                       ELSE at' = "return" /\ UNCHANGED pc
  /\ UNCHANGED <<config, len, arg>>
Ends(ok) ==
  /\ IF ok \/ ~ Strict THEN pc' = pc + 1 /\ UNCHANGED at
                       ELSE at' = "return" /\ UNCHANGED pc
  /\ arg' = 1
  /\ UNCHANGED <<config, len>>
Returns(ok) == Ends(ok) /\ UNCHANGED <<files, module>>

\* USER_ABORT or PANIC outside of an execution.
PowersOff == at' = "off" /\ UNCHANGED <<config, len, pc, arg, files, module>>

\* A hypercall that may power the VM off, or is skipped.
DoHabort == Command("habort") /\ IF Gated THEN PowersOff ELSE Returns(TRUE)
DoHpanic == Command("hpanic") /\ IF Gated THEN PowersOff ELSE Returns(TRUE)

DoHlock == Command("hlock") /\ Returns(TRUE)

\* The arguments of hrange may be refused.
DoHrange ==
  /\ Command("hrange")
  /\ \E ok \in {TRUE} \union (IF "range" \in Faults THEN {FALSE} ELSE {}) : Returns(ok)

\* A command that vmcall does not know: cmd_vmcall() prints its usage, and 0.
DoUnknown == Command("unknown") /\ Returns(TRUE)

\* `echo ... | vmcall hcat'
DoEcho == Command("echo") /\ Returns(TRUE)

\* hcat of a file: 0 if something was written, or if it cannot be opened.
DoHcat == Command("hcat") /\ Returns(files[Argument] # "empty")

\* `vmcall check | vmcall hcat': hcat fails on the nothing that check prints without
\* a Nyx CPU; on one without PT check sees no host, but its habort is skipped.
DoCheck ==
  /\ Command("check")
  /\ IF Gated /\ ~ magic THEN PowersOff ELSE Returns(cpu # "none")

\* What hget_file() may leave of a file: the path of success, and the errors.
Fetched(f) ==
  (IF ~ Gated THEN {<<"empty", TRUE>>}
   ELSE IF f \in share THEN {<<"whole", TRUE>>} ELSE {<<"empty", FALSE>>})
    \union (IF "creat" \in Faults THEN {<<files[f], FALSE>>} ELSE {})
    \union (IF "write" \in Faults /\ Gated /\ f \in share
            THEN {<<"part", FALSE>>} ELSE {})

\* cmd_hget(), one turn of its loop: the first file that fails ends it.
DoHget ==
  /\ Command("hget")
  /\ \E r \in Fetched(Argument) :
       /\ files' = [files EXCEPT ![Argument] = r[1]]
       /\ IF r[2] /\ arg < Len(Text[pc].files)
          THEN arg' = arg + 1 /\ UNCHANGED <<config, at, len, pc>>
          ELSE Ends(r[2])
  /\ UNCHANGED module

\* hpush of a file that may not be there, or whose buffer cannot be allocated.  Its
\* hypercalls are not gated: without a Nyx host they may trap.  If it cannot be read,
\* the VM is aborted.
DoHpush ==
  /\ Command("hpush")
  /\ LET there == Text[pc].files # <<>> => files[Argument] # "none" IN
       \/ there /\ Returns(TRUE)
       \/ (~ there \/ ~ Gated \/ "push" \in Faults) /\ Returns(FALSE)
       \/ there /\ Gated /\ "read" \in Faults /\ PowersOff

\* insmod takes a module that is there, and whole.
DoInsmod ==
  /\ Command("insmod")
  /\ LET ok == files[Argument] = "whole" IN
       /\ module' = (module \/ ok)
       /\ Ends(ok)
  /\ UNCHANGED files

\* The harness finds its host, and does not come back while there are payloads; a
\* host of another version it answers with habort.  Without a Nyx CPU it traps, and
\* what was not fetched whole is no harness: ld.so goes on without a library to
\* preload, and the target runs with nobody to feed it.
HarnessThere ==
  \/ Command("fs_harness")
  \/ Command("harness") /\ files[Argument] = "whole"

StartCampaign ==
  /\ Gated /\ HarnessThere
  /\ at' = IF magic THEN "campaign" ELSE "off"
  /\ UNCHANGED <<config, len, pc, arg, files, module>>

NoCampaign ==
  /\ Command("harness") \/ Command("fs_harness")
  /\ Gated /\ HarnessThere => Command("fs_harness") /\ "fs" \in Faults
  /\ \E ok \in BOOLEAN : Returns(ok)

\* The harness dies, as forkserver.c does when it cannot fork.
HarnessDies ==
  /\ at = "campaign" /\ "harness" \in Faults
  /\ at' = "agent" /\ pc' = pc + 1
  /\ UNCHANGED <<config, len, arg, files, module>>

---------------------------------------------------------------------------
\* The rest of loader.sh.

\* Variant: an empty agent.sh is waited for.
AgentReturns_NotEmpty ==
  /\ at = "agent" /\ pc > len /\ len > 0
  /\ at' = "return"
  /\ UNCHANGED <<config, len, pc, arg, files, module>>
AgentReturns ==
  /\ at = "agent" /\ pc > len
  /\ at' = "return"
  /\ UNCHANGED <<config, len, pc, arg, files, module>>

\* The log is pushed; whether that works is not looked at.
PushLog ==
  /\ at = "return"
  /\ at' = "abort"
  /\ UNCHANGED <<config, len, pc, arg, files, module>>

\* `vmcall habort', which returns if it was skipped; then rcS returns to init.
LoaderAborts ==
  /\ at = "abort"
  /\ at' = IF Gated THEN "off" ELSE "shell"
  /\ UNCHANGED <<config, len, pc, arg, files, module>>

\* The fuzzer ends the campaign.
HostStops ==
  /\ at = "campaign"
  /\ at' = "off"
  /\ UNCHANGED <<config, len, pc, arg, files, module>>

Ended == at \in {"shell", "off"} /\ UNCHANGED vars

Commands == DoHabort \/ DoHpanic \/ DoHlock \/ DoHrange \/ DoUnknown \/ DoEcho \/ DoHcat
              \/ DoCheck \/ DoHget \/ DoHpush \/ DoInsmod \/ StartCampaign \/ NoCampaign
Loader == Boot \/ FetchAgent \/ AgentReturns \/ PushLog \/ LoaderAborts

Next == Loader \/ Commands \/ HarnessDies \/ HostStops \/ Ended

\* Shell and commands run on; a campaign may last for ever.
Spec == Init /\ [][Next]_vars /\ WF_vars(Loader \/ Commands)

---------------------------------------------------------------------------
\* Properties.

\* Every variable has a value the guest can give it; a command begins with its
\* first argument.
TypeOK ==
  /\ cpu \in {"v1", "v2", "none"} /\ magic \in BOOLEAN /\ image \in {"sysv", "plain", "rcS"}
  /\ share \subseteq Files /\ script \in Scripts \union {"missing"}
  /\ at \in Stages /\ len \in 0..Len(Text) /\ pc \in 1..len + 1
  /\ arg \in Nat /\ (arg > 1 => Command("hget") /\ arg <= Len(Text[pc].files)) /\ module \in BOOLEAN
  /\ files \in [Files -> {"none", "empty", "part", "whole"}]

\* A campaign with dvkm has its module in the kernel, although the harness is a file
\* of its own, fetched after it: `set -e' stops at the first command that fails.
CampaignHasItsModule == at = "campaign" /\ script = "dvkm" => module

\* A guest that loader.sh is started in comes to a campaign or is switched off: no
\* script, of whatever length and with whatever failures, leaves the host waiting.
HostIsTold == Gated /\ Blessed ~> at \in {"campaign", "off"}

============================================================================
