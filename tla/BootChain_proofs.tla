------------------------- MODULE BootChain_proofs -------------------------
(***************************************************************************)
(* Proofs about BootChain, for any script of a user, any files and any     *)
(* calls that fail.                                                        *)
(***************************************************************************)
EXTENDS BootChain, TLAPS

---------------------------------------------------------------------------
\* The scripts.

\* A list of commands, each with a list of files.
IsScript(s) == Len(s) \in Nat /\ \A i \in 1..Len(s) : Len(s[i].files) \in Nat

\* Every agent.sh is such a list.
LEMMA TextType == IsScript(Text)
<1>1. IsScript(ForkserverScript)
  BY DEF IsScript, ForkserverScript, Vmcall, Hget, Uses
<1>2. IsScript(FsFuzzerScript)
  BY DEF IsScript, FsFuzzerScript, Vmcall
<1>3. IsScript(DvkmScript)
  BY DEF IsScript, DvkmScript, Vmcall, Hget, Uses
<1>4. IsScript(VmcallScript)
  BY DEF IsScript, VmcallScript, Vmcall
<1>5. IsScript(TestScript)
  BY DEF IsScript, TestScript, Vmcall, Hget, Uses
<1>6. IsScript(OwnScript)
  BY BootAssumption DEF IsScript
<1> QED BY <1>1, <1>2, <1>3, <1>4, <1>5, <1>6 DEF Text

\* The module of dvkm is inserted before its harness is started.
LEMMA DvkmOrder ==
  ASSUME script = "dvkm"
  PROVE  /\ Len(Text) = 7 /\ Text[5].op = "insmod"
         /\ \A i \in 1..Len(Text) : Text[i].op \in {"harness", "fs_harness"} => i = 7
BY DEF Text, DvkmScript, Vmcall, Hget, Uses

---------------------------------------------------------------------------
\* Types.

\* The host, the CPU and the scripts stay as they are.
LEMMA ConfigStays == [Next]_vars => UNCHANGED config /\ UNCHANGED Text
<1>1. [Next]_vars => UNCHANGED config
  BY DEF Next, Loader, Commands, Boot, FetchAgent, AgentReturns, PushLog, LoaderAborts, DoHabort,
         DoHpanic, DoHlock, DoHrange, DoUnknown, DoEcho, DoHcat, DoCheck, DoHget, DoHpush,
         DoInsmod, StartCampaign, NoCampaign, HarnessDies, HostStops, Ended, PowersOff, Returns,
         Ends, config, vars
<1> QED BY <1>1 DEF config, Text

\* The states that a file may be in.
Contents == {"none", "empty", "part", "whole"}

\* agent.sh begins with its first command, and the harness is one of its commands.
Placed ==
  /\ at \in {"init", "fetch"} => pc = 1
  /\ at = "campaign" => pc <= len

\* A command that ends leaves the next one with its first argument.
LEMMA EndsType ==
  ASSUME TypeOK, NEW ok \in BOOLEAN, Ends(ok), at = "agent", pc <= len
  PROVE  at' \in {"agent", "return"} /\ len' = len /\ pc' \in 1..len + 1 /\ arg' = 1
BY TextType DEF TypeOK, IsScript, Ends

\* The types hold at the start.
LEMMA TypeInit == Init => TypeOK
<1> SUFFICES ASSUME Init PROVE TypeOK
  OBVIOUS
<1>1. /\ cpu \in {"v1", "v2", "none"} /\ magic \in BOOLEAN /\ image \in {"sysv", "plain", "rcS"}
      /\ share \subseteq Files /\ script \in Scripts \union {"missing"} /\ module \in BOOLEAN
  BY DEF Init
<1>2. at \in Stages /\ len \in 0..Len(Text) /\ pc \in 1..len + 1 /\ arg \in Nat /\ ~ (arg > 1)
  BY TextType DEF Init, Stages, IsScript
<1>3. files \in [Files -> {"none", "empty", "part", "whole"}]
  BY DEF Init
<1> QED BY <1>1, <1>2, <1>3 DEF TypeOK

\* The types are kept by every step.
LEMMA TypeStep == TypeOK /\ Placed /\ [Next]_vars => TypeOK'
<1> SUFFICES ASSUME TypeOK, Placed, [Next]_vars PROVE TypeOK'
  OBVIOUS
<1>t. IsScript(Text) /\ at \in Stages /\ len \in 0..Len(Text) /\ pc \in 1..len + 1 /\ arg \in Nat
      /\ files \in [Files -> Contents] /\ module \in BOOLEAN
  BY TextType DEF TypeOK, Contents
<1>a. arg > 1 => Command("hget") /\ arg <= Len(Text[pc].files)
  BY DEF TypeOK
<1>h. at # "agent" \/ ~ (pc <= len) \/ Text[pc].op # "hget" => ~ (arg > 1)
  BY <1>a DEF Command
<1>c. UNCHANGED <<cpu, magic, image, share, script>> /\ UNCHANGED Text
  BY ConfigStays DEF config
<1> SUFFICES /\ at' \in Stages /\ len' \in 0..Len(Text) /\ pc' \in 1..len' + 1 /\ arg' \in Nat
             /\ arg' > 1 => /\ at' = "agent" /\ pc' <= len' /\ Text[pc'].op = "hget"
                            /\ arg' <= Len(Text[pc'].files)
             /\ module' \in BOOLEAN /\ files' \in [Files -> Contents]
  BY <1>c DEF TypeOK, Command, Contents
<1>1. CASE Boot
  BY <1>1, <1>t, <1>a DEF Boot, Stages, Command, config
<1>2. CASE FetchAgent
  <2>1. len' \in 0..Len(Text) /\ pc = 1
    BY <1>2, <1>t DEF FetchAgent, IsScript, Placed
  <2>2. ~ (arg > 1) /\ UNCHANGED <<pc, arg, files, module>> /\ at' = "agent"
    BY <1>2, <1>h DEF FetchAgent
  <2>3. Len(Text) \in Nat
    BY <1>t DEF IsScript
  <2>4. PICK n \in 0..Len(Text) : len' = n
    BY <2>1
  <2>5. pc' = 1 /\ pc' \in 1..len' + 1
    BY <2>1, <2>2, <2>3, <2>4
  <2> QED BY <2>1, <2>2, <2>4, <2>5, <1>t DEF Stages
<1>3. CASE AgentReturns \/ PushLog \/ LoaderAborts \/ HostStops
  BY <1>3, <1>t, <1>a DEF AgentReturns, PushLog, LoaderAborts, HostStops, Stages,
                         Command, config
<1>4. CASE DoHabort \/ DoHpanic \/ StartCampaign
  <2>1. at = "agent" /\ pc <= len /\ Text[pc].op # "hget"
    BY <1>4 DEF DoHabort, DoHpanic, StartCampaign, HarnessThere, Command
  <2>2. \/ PowersOff
        \/ \E ok \in BOOLEAN : Returns(ok)
        \/ at' \in {"off", "campaign"} /\ UNCHANGED <<len, pc, arg, files, module>>
    BY <1>4 DEF DoHabort, DoHpanic, StartCampaign
  <2>3. CASE \E ok \in BOOLEAN : Returns(ok)
    BY <2>1, <2>3, <1>t, EndsType DEF Returns, Stages
  <2>4. CASE at' \in {"off", "campaign"} /\ UNCHANGED <<len, pc, arg, files, module>>
    BY <2>1, <2>4, <1>t, <1>h DEF Stages
  <2> QED BY <2>2, <2>3, <2>4 DEF PowersOff
<1>5. CASE DoHlock \/ DoHrange \/ DoUnknown \/ DoEcho \/ DoHcat \/ NoCampaign
  <2>1. PICK ok \in BOOLEAN : Returns(ok)
    BY <1>5 DEF DoHlock, DoHrange, DoUnknown, DoEcho, DoHcat, NoCampaign
  <2>2. at = "agent" /\ pc <= len
    BY <1>5 DEF DoHlock, DoHrange, DoUnknown, DoEcho, DoHcat, NoCampaign, Command
  <2> QED BY <2>1, <2>2, <1>t, EndsType DEF Returns, Stages
<1>6. CASE DoCheck \/ DoHpush
  <2>1. at = "agent" /\ pc <= len /\ ~ (arg > 1)
    BY <1>6, <1>h DEF DoCheck, DoHpush, Command
  <2>2. PowersOff \/ \E ok \in BOOLEAN : Returns(ok)
    <3>1. CASE DoCheck
      <4>1. (cpu # "none") \in BOOLEAN /\ (PowersOff \/ Returns(cpu # "none"))
        BY <3>1 DEF DoCheck
      <4> QED BY <4>1
    <3>2. CASE DoHpush
      BY <3>2 DEF DoHpush
    <3> QED BY <1>6, <3>1, <3>2
  <2>3. CASE PowersOff
    BY <2>1, <2>3, <1>t DEF PowersOff, Stages, config
  <2>4. CASE \E ok \in BOOLEAN : Returns(ok)
    BY <2>1, <2>4, <1>t, EndsType DEF Returns, Stages
  <2> QED BY <2>2, <2>3, <2>4
<1>7. CASE DoHget
  <2>1. PICK r \in Fetched(Argument) :
           /\ files' = [files EXCEPT ![Argument] = r[1]]
           /\ IF r[2] /\ arg < Len(Text[pc].files)
              THEN arg' = arg + 1 /\ UNCHANGED <<config, at, len, pc>>
              ELSE Ends(r[2])
    BY <1>7 DEF DoHget
  <2>2. r[2] \in BOOLEAN /\ (Argument \in Files => r[1] \in Contents)
    <3>1. CASE r = <<"empty", TRUE>>
      BY <3>1 DEF Contents
    <3>2. CASE r = <<"whole", TRUE>>
      BY <3>2 DEF Contents
    <3>3. CASE r = <<"empty", FALSE>>
      BY <3>3 DEF Contents
    <3>4. CASE r = <<"part", FALSE>>
      BY <3>4 DEF Contents
    <3>5. CASE r = <<files[Argument], FALSE>>
      BY <3>5, <1>t
    <3> QED BY <2>1, <3>1, <3>2, <3>3, <3>4, <3>5 DEF Fetched
  <2>3. files' \in [Files -> Contents]
    BY <2>1, <2>2, <1>t
  <2>4. Command("hget") /\ UNCHANGED module
    BY <1>7 DEF DoHget
  <2>5. CASE arg' = arg + 1 /\ arg < Len(Text[pc].files) /\ UNCHANGED <<at, len, pc>>
    <3>1. Len(Text[pc].files) \in Nat
      BY <2>4, <1>t DEF IsScript, Command
    <3> QED BY <2>3, <2>4, <2>5, <3>1, <1>t DEF Command
  <2>6. CASE Ends(r[2])
    BY <2>2, <2>3, <2>4, <2>6, <1>t, EndsType DEF Command, Stages
  <2> QED BY <2>1, <2>5, <2>6
<1>8. CASE DoInsmod
  <2>1. PICK ok \in BOOLEAN : Ends(ok) /\ module' = (module \/ ok)
    BY <1>8 DEF DoInsmod
  <2>2. at = "agent" /\ pc <= len /\ UNCHANGED files
    BY <1>8 DEF DoInsmod, Command
  <2> QED BY <2>1, <2>2, <1>t, EndsType DEF Stages
<1>9. CASE HarnessDies
  <2>1. ~ (arg > 1) /\ pc <= len
    BY <1>9, <1>h DEF HarnessDies, Placed
  <2> QED BY <2>1, <1>9, <1>t DEF HarnessDies, Stages, config
<1>10. CASE UNCHANGED vars
  BY <1>10, <1>t, <1>a DEF vars, config, Command
<1> QED BY <1>1, <1>2, <1>3, <1>4, <1>5, <1>6, <1>7, <1>8, <1>9, <1>10
        DEF Next, Loader, Commands, Ended

\* The place of a guest in its scripts is kept.
LEMMA PlacedStep == TypeOK /\ Placed /\ [Next]_vars => Placed'
<1> SUFFICES ASSUME TypeOK, Placed, [Next]_vars PROVE Placed'
  OBVIOUS
<1>1. CASE Boot
  BY <1>1 DEF Boot, Placed
<1>2. CASE Commands
  <2>1. at = "agent" /\ pc <= len
    BY <1>2 DEF Commands, DoHabort, DoHpanic, DoHlock, DoHrange, DoUnknown, DoEcho, DoHcat, DoCheck,
             DoHget, DoHpush, DoInsmod, StartCampaign, NoCampaign, HarnessThere, Command
  <2>2. CASE StartCampaign
    BY <2>1, <2>2 DEF StartCampaign, Placed
  <2>3. CASE ~ StartCampaign
    <3>1. at' \in {"agent", "return", "off"}
      BY <1>2, <2>1, <2>3 DEF Commands, DoHabort, DoHpanic, DoHlock, DoHrange, DoUnknown, DoEcho,
             DoHcat, DoCheck, DoHget, DoHpush, DoInsmod, NoCampaign, PowersOff, Returns, Ends
    <3> QED BY <3>1 DEF Placed
  <2> QED BY <2>2, <2>3
<1>3. CASE FetchAgent \/ AgentReturns \/ PushLog \/ LoaderAborts \/ HarnessDies \/ HostStops
  <2>1. at' \in {"agent", "return", "abort", "off", "shell"}
    BY <1>3 DEF FetchAgent, AgentReturns, PushLog, LoaderAborts, HarnessDies, HostStops
  <2> QED BY <2>1 DEF Placed
<1>4. CASE UNCHANGED vars
  BY <1>4 DEF vars, Placed
<1> QED BY <1>1, <1>2, <1>3, <1>4 DEF Next, Loader, Ended

---------------------------------------------------------------------------
\* The module of dvkm.

\* Behind its fifth command, and while it fuzzes, a guest with the script of dvkm has its
\* module in the kernel.
ModuleInv ==
  script = "dvkm" =>
    /\ at = "agent" /\ pc > 5 => module
    /\ at = "campaign" => module

\* `set -e' ends the script at an insmod that fails; nothing takes the module out again.
LEMMA ModuleStep == TypeOK /\ Placed /\ ModuleInv /\ [Next]_vars => ModuleInv'
<1> SUFFICES ASSUME TypeOK, Placed, ModuleInv, [Next]_vars, script = "dvkm" PROVE ModuleInv'
  BY ConfigStays DEF ModuleInv, config
<1>t. /\ IsScript(Text) /\ len \in 0..Len(Text) /\ pc \in 1..len + 1 /\ module \in BOOLEAN
      /\ script' = "dvkm" /\ Len(Text) \in Nat
  BY TextType, ConfigStays DEF TypeOK, config, IsScript
<1>1. CASE Commands /\ ~ DoInsmod /\ ~ StartCampaign
  <2>1. at = "agent" /\ pc <= len /\ Text[pc].op # "insmod"
    BY <1>1 DEF Commands, DoHabort, DoHpanic, DoHlock, DoHrange, DoUnknown, DoEcho, DoHcat, DoCheck,
             DoHget, DoHpush, NoCampaign, HarnessThere, Command
  <2>2. pc # 5
    BY <2>1, DvkmOrder
  <2>3. /\ at' \in {"agent", "return", "off"} /\ module' = module
        /\ pc' = pc \/ pc' = pc + 1
    BY <1>1, <2>1 DEF Commands, DoHabort, DoHpanic, DoHlock, DoHrange, DoUnknown, DoEcho,
             DoHcat, DoCheck, DoHget, DoHpush, NoCampaign, PowersOff, Returns, Ends
  <2>4. at' = "agent" /\ pc' > 5 => pc > 5
    BY <2>2, <2>3, <1>t
  <2> QED BY <2>1, <2>3, <2>4 DEF ModuleInv
<1>2. CASE DoInsmod
  <2>1. PICK ok \in BOOLEAN : Ends(ok) /\ module' = (module \/ ok)
    BY <1>2 DEF DoInsmod
  <2>2. CASE ok
    BY <2>1, <2>2 DEF ModuleInv
  <2>3. CASE ~ ok
    BY <2>1, <2>3 DEF Ends, Strict, ModuleInv
  <2> QED BY <2>2, <2>3
<1>3. CASE StartCampaign
  <2>1. /\ at = "agent" /\ pc <= len /\ Text[pc].op \in {"harness", "fs_harness"}
        /\ UNCHANGED <<pc, module>> /\ at' \in {"campaign", "off"}
    BY <1>3 DEF StartCampaign, HarnessThere, Command
  <2>2. pc \in 1..Len(Text)
    BY <2>1, <1>t
  <2>3. pc = 7
    BY <2>1, <2>2, DvkmOrder
  <2> QED BY <2>1, <2>3 DEF ModuleInv
<1>4. CASE Boot \/ AgentReturns \/ PushLog \/ LoaderAborts \/ HostStops
  <2>1. at' \notin {"agent", "campaign"}
    BY <1>4 DEF Boot, AgentReturns, PushLog, LoaderAborts, HostStops
  <2> QED BY <2>1 DEF ModuleInv
<1>5. CASE FetchAgent
  BY <1>5 DEF FetchAgent, Placed, ModuleInv
<1>6. CASE HarnessDies
  BY <1>6 DEF HarnessDies, ModuleInv
<1>7. CASE UNCHANGED vars
  BY <1>7 DEF vars, config, ModuleInv
<1> QED BY <1>1, <1>2, <1>3, <1>4, <1>5, <1>6, <1>7 DEF Next, Loader, Ended

---------------------------------------------------------------------------
\* The theorems.

\* The parts of the invariant together.
IInv == TypeOK /\ Placed /\ ModuleInv

\* The invariant holds always.
LEMMA Inductive == Spec => []IInv
<1>1. Init => IInv
  BY TypeInit DEF Init, IInv, Placed, ModuleInv
<1>2. IInv /\ [Next]_vars => IInv'
  BY TypeStep, PlacedStep, ModuleStep DEF IInv
<1> QED BY <1>1, <1>2, PTL DEF Spec

\* No command of a script, and no failure of one, leaves the types; a command begins with
\* its first argument.
THEOREM TypeCorrect == Spec => []TypeOK
<1>1. IInv => TypeOK
  BY DEF IInv
<1> QED BY <1>1, Inductive, PTL

\* dvkm is never fuzzed without its module, whatever was fetched of agent.sh and of the
\* files it asks for.
THEOREM CampaignsHaveTheirModule == Spec => []CampaignHasItsModule
<1>1. IInv => CampaignHasItsModule
  BY DEF IInv, ModuleInv, CampaignHasItsModule
<1> QED BY <1>1, Inductive, PTL

---------------------------------------------------------------------------
\* Progress.  HostIsTold needs the fairness of the shell and is left to TLC; that a boot
\* cannot go in circles needs none.

\* How far loader.sh is, the script and its harness being one stretch of it.
Depth(x) ==
  CASE x = "init" -> 0
    [] x = "fetch" -> 1
    [] x \in {"agent", "campaign"} -> 2
    [] x = "return" -> 3
    [] x = "abort" -> 4
    [] OTHER -> 5

\* The next argument of a command, its campaign, or a later command of the script that
\* was fetched.
Further ==
  /\ at \in {"agent", "campaign"} /\ at' \in {"agent", "campaign"} /\ len' = len
  /\ \/ pc' > pc /\ pc' <= len + 1
     \/ pc' = pc /\ at = "agent" /\ at' = "campaign"
     \/ pc' = pc /\ at = "agent" /\ at' = "agent" /\ arg' > arg /\ arg' <= Len(Text[pc].files)

\* A step of the guest, whatever fails in it, comes further in loader.sh or in agent.sh:
\* nothing is fetched, run or told twice, so that the boot ends, or stays in a campaign.
OnlyForward == [][Depth(at') > Depth(at) \/ Further]_vars

\* A command that has ended.
LEMMA EndsForward ==
  ASSUME TypeOK, NEW ok, Ends(ok), at = "agent", pc <= len
  PROVE  Depth(at') > Depth(at) \/ Further
<1>1. len \in Nat /\ pc \in Nat
  BY TextType DEF TypeOK, IsScript
<1>2. CASE at' = "return"
  BY <1>2 DEF Depth
<1>3. CASE at' = at /\ pc' = pc + 1 /\ len' = len
  BY <1>1, <1>3 DEF Further
<1> QED BY <1>2, <1>3 DEF Ends

\* Every step.
LEMMA StepForward ==
  ASSUME TypeOK, Placed, Next, ~ UNCHANGED vars
  PROVE  Depth(at') > Depth(at) \/ Further
<1>1. CASE Loader
  BY <1>1 DEF Loader, Boot, FetchAgent, AgentReturns, PushLog, LoaderAborts, Depth
<1>2. CASE HostStops
  BY <1>2 DEF HostStops, Depth
<1>3. CASE HarnessDies
  <2>1. len \in Nat /\ pc \in Nat /\ pc <= len
    BY <1>3, TextType DEF TypeOK, IsScript, Placed, HarnessDies
  <2> QED BY <1>3, <2>1 DEF HarnessDies, Further, config
<1>4. CASE StartCampaign
  <2>1. at = "agent"
    BY <1>4 DEF StartCampaign, HarnessThere, Command
  <2> QED BY <1>4, <2>1 DEF StartCampaign, Further, Depth
<1>5. CASE DoHget
  <2>1. Command("hget")
    BY <1>5 DEF DoHget
  <2>2. PICK r \in Fetched(Argument) :
          IF r[2] /\ arg < Len(Text[pc].files)
          THEN arg' = arg + 1 /\ UNCHANGED <<config, at, len, pc>>
          ELSE Ends(r[2])
    BY <1>5 DEF DoHget
  <2>3. CASE arg < Len(Text[pc].files) /\ arg' = arg + 1 /\ UNCHANGED <<config, at, len, pc>>
    <3>1. arg \in Nat /\ Len(Text[pc].files) \in Nat /\ at = "agent"
      BY <2>1, TextType DEF TypeOK, IsScript, Command
    <3> QED BY <2>3, <3>1 DEF Further
  <2> QED BY <2>1, <2>2, <2>3, EndsForward DEF Command
<1>6. CASE Commands /\ ~ StartCampaign /\ ~ DoHget
  <2>1. PowersOff \/ \E ok : Ends(ok)
    BY <1>6 DEF Commands, DoHabort, DoHpanic, DoHlock, DoHrange, DoUnknown, DoEcho, DoHcat, DoCheck,
       DoHpush, DoInsmod, NoCampaign, Returns
  <2>2. at = "agent" /\ pc <= len
    BY <1>6 DEF Commands, DoHabort, DoHpanic, DoHlock, DoHrange, DoUnknown, DoEcho, DoHcat, DoCheck,
       DoHpush, DoInsmod, NoCampaign, Command
  <2>3. PowersOff => Depth(at') > Depth(at)
    BY <2>2 DEF PowersOff, Depth
  <2> QED BY <2>1, <2>2, <2>3, EndsForward
<1> QED BY <1>1, <1>2, <1>3, <1>4, <1>5, <1>6 DEF Next, Ended

\* For any scripts, and whichever commands fail, the guest goes forward only.
THEOREM BootsForward == Spec => OnlyForward
<1>1. IInv /\ [Next]_vars => [Depth(at') > Depth(at) \/ Further]_vars
  BY StepForward DEF IInv
<1> QED BY <1>1, Inductive, PTL DEF Spec, OnlyForward

============================================================================
