-------------------------- MODULE AgentLoop_proofs --------------------------
(***************************************************************************)
(* Theorems about AgentLoop, for all values of its constants.              *)
(*                                                                         *)
(* The first part says of the texts of the agents, each of which is a      *)
(* sequence of operations, at which place each operation stands in them.   *)
(* The invariant then says what phase the host is in at each place, and    *)
(* the actions are shown to keep it without looking at a text again.       *)
(***************************************************************************)
EXTENDS AgentLoop, TLAPS

All == Legacy \union {"zephyr", "uefi_app", "uefi_dxe", "vuln_test", "selffuzz"}

\* The agents that begin an execution with one hypercall.
Fast == {"gdiplus", "loadfont"}

\* Where the loop begins, where the target is called and where the text ends.
StartOf(a) == CASE a = "uefi_dxe"              -> 6
                [] a \in {"zephyr", "uefi_app"} -> 7
                [] a \in Fast                  -> 8
                [] a = "macos"                 -> 11
                [] OTHER                       -> 11
TargetOf(a) == IF a = "loadfont" THEN StartOf(a) + 1 ELSE StartOf(a) + 2
LastOf(a) == IF a = "macos" THEN TargetOf(a) + 4 ELSE TargetOf(a) + 2

\* Where the payload buffer is registered, and where the host is checked, if it is.
BufferAt(a) == CASE a \in {"uefi_app", "uefi_dxe"} -> 5
                 [] a \in {"zephyr", "selffuzz"}   -> 6
                 [] a \in Fast                     -> 4
                 [] a = "macos"                    -> 9
                 [] OTHER                          -> 9
Checkers == {"zephyr", "uefi_app", "uefi_dxe", "vuln_test"}
CheckAt(a) == CASE a \in {"uefi_app", "uefi_dxe"} -> 3
                [] a = "zephyr"                   -> 4
                [] OTHER                          -> 5

\* What is needed of those numbers.
LEMMA Numbers ==
  ASSUME NEW a \in All
  PROVE  /\ StartOf(a) \in Nat /\ TargetOf(a) \in Nat /\ LastOf(a) \in Nat
         /\ BufferAt(a) \in Nat /\ CheckAt(a) \in Nat
         /\ 1 < BufferAt(a) /\ BufferAt(a) < StartOf(a)
         /\ a \in Checkers => 0 < CheckAt(a) /\ CheckAt(a) < BufferAt(a)
         /\ TargetOf(a) = IF a = "loadfont" THEN StartOf(a) + 1 ELSE StartOf(a) + 2
         /\ LastOf(a) = IF a = "macos" THEN TargetOf(a) + 4 ELSE TargetOf(a) + 2
         /\ a = "macos" => StartOf(a) = 11 /\ TargetOf(a) = 13 /\ LastOf(a) = 17
         /\ a = "macos" => BufferAt(a) = 9
BY DEF All, Legacy, Fast, Checkers, StartOf, TargetOf, LastOf, BufferAt, CheckAt

\* What an operation of agent a at place i says of the place.
OpAt(a, i, op) ==
  /\ op \in Asks <=> i = StartOf(a)
  /\ i = StartOf(a) => op = IF a \in Fast THEN "fast_acquire" ELSE "next"
  /\ op = "target" <=> i = TargetOf(a)
  /\ op = "write_file" <=> a = "gdiplus" /\ i = StartOf(a) + 1
  /\ op = "release" => i = TargetOf(a) + 1 \/ (i < StartOf(a) /\ (a = "macos" => i < 8))
  /\ op = "acquire" => \/ a \notin Fast /\ i = StartOf(a) + 1
                       \/ i < StartOf(a) /\ (a = "macos" => i < 8)
  /\ op = "loop" <=> i = TargetOf(a) + 2 /\ a \notin {"vuln_test", "selffuzz"}
  /\ op = "return" <=> i = TargetOf(a) + 2 /\ a \in {"vuln_test", "selffuzz"}
  /\ op = "reap" <=> a = "macos" /\ i = 16
  /\ op = "spin" <=> a = "macos" /\ i = 17
  /\ op = "fork" <=> a = "macos" /\ i = 8
  /\ op = "load" <=> a = "macos" /\ i = 7
  /\ op = "get_payload" <=> i = BufferAt(a)
  /\ op = "check" <=> a \in Checkers /\ i = CheckAt(a)
  /\ op = "offer_persistent" => i < StartOf(a) /\ a \in Checkers
  /\ op = "no_persistent" => i < StartOf(a) /\ a = "selffuzz"
  /\ op = "resolve" => i < StartOf(a) /\ a \in Resolvers /\ (a = "macos" => i < 8)
  /\ op \in {"inform", "require", "handler"} => i < StartOf(a)
  /\ op \in {"require", "handler"} => a # "macos"

---------------------------------------------------------------------------
\* The texts.

\* agent_init() and agent_run() of Zephyr.
LEMMA ZephyrText ==
  /\ Len(Zephyr) = 11
  /\ \A i \in 1..11 : OpAt("zephyr", i, Zephyr[i])
<1>1. Len(Zephyr) = 11
  BY DEF Zephyr, Handshake, Execution, LegacySetup
<1>2. /\ Zephyr[1] = "acquire" /\ Zephyr[2] = "release" /\ Zephyr[3] = "inform"
      /\ Zephyr[4] = "check" /\ Zephyr[5] = "offer_persistent" /\ Zephyr[6] = "get_payload"
      /\ Zephyr[7] = "next" /\ Zephyr[8] = "acquire" /\ Zephyr[9] = "target"
      /\ Zephyr[10] = "release" /\ Zephyr[11] = "loop"
  BY DEF Zephyr, Handshake, Execution, LegacySetup
<1>3. SUFFICES ASSUME NEW i \in 1..11 PROVE OpAt("zephyr", i, Zephyr[i])
  BY <1>1
<1>4. i = 1 \/ i = 2 \/ i = 3 \/ i = 4 \/ i = 5 \/ i = 6 \/ i = 7 \/ i = 8
      \/ i = 9 \/ i = 10 \/ i = 11
  OBVIOUS
<1> QED BY <1>2, <1>4 DEF OpAt, Asks, StartOf, TargetOf, BufferAt, CheckAt, Fast, Checkers

\* agent_init() and agent_run() of kAFLAgentLib.
LEMMA UefiAppText ==
  /\ Len(UefiApp) = 11
  /\ \A i \in 1..11 : OpAt("uefi_app", i, UefiApp[i])
<1>1. Len(UefiApp) = 11
  BY DEF UefiApp, Handshake, Execution, LegacySetup
<1>2. /\ UefiApp[1] = "acquire" /\ UefiApp[2] = "release" /\ UefiApp[3] = "check"
      /\ UefiApp[4] = "offer_persistent" /\ UefiApp[5] = "get_payload" /\ UefiApp[6] = "inform"
      /\ UefiApp[7] = "next" /\ UefiApp[8] = "acquire" /\ UefiApp[9] = "target"
      /\ UefiApp[10] = "release" /\ UefiApp[11] = "loop"
  BY DEF UefiApp, Handshake, Execution, LegacySetup
<1>3. SUFFICES ASSUME NEW i \in 1..11 PROVE OpAt("uefi_app", i, UefiApp[i])
  BY <1>1
<1>4. i = 1 \/ i = 2 \/ i = 3 \/ i = 4 \/ i = 5 \/ i = 6 \/ i = 7 \/ i = 8
      \/ i = 9 \/ i = 10 \/ i = 11
  OBVIOUS
<1> QED BY <1>2, <1>4 DEF OpAt, Asks, StartOf, TargetOf, BufferAt, CheckAt, Fast, Checkers

\* HarnessInit() and HarnessRun() of the DXE driver.
LEMMA UefiDxeText ==
  /\ Len(UefiDxe) = 10
  /\ \A i \in 1..10 : OpAt("uefi_dxe", i, UefiDxe[i])
<1>1. Len(UefiDxe) = 10
  BY DEF UefiDxe, Handshake, Execution, LegacySetup
<1>2. /\ UefiDxe[1] = "acquire" /\ UefiDxe[2] = "release" /\ UefiDxe[3] = "check"
      /\ UefiDxe[4] = "offer_persistent" /\ UefiDxe[5] = "get_payload" /\ UefiDxe[6] = "next"
      /\ UefiDxe[7] = "acquire" /\ UefiDxe[8] = "target" /\ UefiDxe[9] = "release"
      /\ UefiDxe[10] = "loop"
  BY DEF UefiDxe, Handshake, Execution, LegacySetup
<1>3. SUFFICES ASSUME NEW i \in 1..10 PROVE OpAt("uefi_dxe", i, UefiDxe[i])
  BY <1>1
<1>4. i = 1 \/ i = 2 \/ i = 3 \/ i = 4 \/ i = 5 \/ i = 6 \/ i = 7 \/ i = 8
      \/ i = 9 \/ i = 10
  OBVIOUS
<1> QED BY <1>2, <1>4 DEF OpAt, Asks, StartOf, TargetOf, BufferAt, CheckAt, Fast, Checkers

\* main() of vuln_test.c.
LEMMA VulnTestText ==
  /\ Len(VulnTest) = 15
  /\ \A i \in 1..15 : OpAt("vuln_test", i, VulnTest[i])
<1>1. Len(VulnTest) = 15
  BY DEF VulnTest, Handshake, Execution, LegacySetup
<1>2. /\ VulnTest[1] = "require" /\ VulnTest[2] = "acquire" /\ VulnTest[3] = "release"
      /\ VulnTest[4] = "inform" /\ VulnTest[5] = "check" /\ VulnTest[6] = "offer_persistent"
      /\ VulnTest[7] = "resolve" /\ VulnTest[8] = "inform" /\ VulnTest[9] = "get_payload"
      /\ VulnTest[10] = "require" /\ VulnTest[11] = "next" /\ VulnTest[12] = "acquire"
      /\ VulnTest[13] = "target" /\ VulnTest[14] = "release" /\ VulnTest[15] = "return"
  BY DEF VulnTest, Handshake, Execution, LegacySetup
<1>3. SUFFICES ASSUME NEW i \in 1..15 PROVE OpAt("vuln_test", i, VulnTest[i])
  BY <1>1
<1>4. i = 1 \/ i = 2 \/ i = 3 \/ i = 4 \/ i = 5 \/ i = 6 \/ i = 7 \/ i = 8
      \/ i = 9 \/ i = 10 \/ i = 11 \/ i = 12 \/ i = 13 \/ i = 14 \/ i = 15
  OBVIOUS
<1> QED BY <1>2, <1>4 DEF OpAt, Asks, StartOf, TargetOf, BufferAt, CheckAt, Fast, Checkers,
           Resolvers

\* main() of selffuzz_test.c.
LEMMA SelfFuzzText ==
  /\ Len(SelfFuzz) = 15
  /\ \A i \in 1..15 : OpAt("selffuzz", i, SelfFuzz[i])
<1>1. Len(SelfFuzz) = 15
  BY DEF SelfFuzz, Handshake, Execution, LegacySetup
<1>2. /\ SelfFuzz[1] = "inform" /\ SelfFuzz[2] = "acquire" /\ SelfFuzz[3] = "release"
      /\ SelfFuzz[4] = "inform" /\ SelfFuzz[5] = "require" /\ SelfFuzz[6] = "get_payload"
      /\ SelfFuzz[7] = "inform" /\ SelfFuzz[8] = "no_persistent" /\ SelfFuzz[9] = "inform"
      /\ SelfFuzz[10] = "require" /\ SelfFuzz[11] = "next" /\ SelfFuzz[12] = "acquire"
      /\ SelfFuzz[13] = "target" /\ SelfFuzz[14] = "release" /\ SelfFuzz[15] = "return"
  BY DEF SelfFuzz, Handshake, Execution, LegacySetup
<1>3. SUFFICES ASSUME NEW i \in 1..15 PROVE OpAt("selffuzz", i, SelfFuzz[i])
  BY <1>1
<1>4. i = 1 \/ i = 2 \/ i = 3 \/ i = 4 \/ i = 5 \/ i = 6 \/ i = 7 \/ i = 8
      \/ i = 9 \/ i = 10 \/ i = 11 \/ i = 12 \/ i = 13 \/ i = 14 \/ i = 15
  OBVIOUS
<1> QED BY <1>2, <1>4 DEF OpAt, Asks, StartOf, TargetOf, BufferAt, CheckAt, Fast, Checkers

\* main() of gdiplus.cpp.
LEMMA GdiplusText ==
  /\ Len(Gdiplus) = 12
  /\ \A i \in 1..12 : OpAt("gdiplus", i, Gdiplus[i])
<1>1. Len(Gdiplus) = 12
  BY DEF Gdiplus, Handshake, Execution, LegacySetup
<1>2. /\ Gdiplus[1] = "inform" /\ Gdiplus[2] = "handler" /\ Gdiplus[3] = "require"
      /\ Gdiplus[4] = "get_payload" /\ Gdiplus[5] = "inform" /\ Gdiplus[6] = "require"
      /\ Gdiplus[7] = "inform" /\ Gdiplus[8] = "fast_acquire" /\ Gdiplus[9] = "write_file"
      /\ Gdiplus[10] = "target" /\ Gdiplus[11] = "release" /\ Gdiplus[12] = "loop"
  BY DEF Gdiplus, Handshake, Execution, LegacySetup
<1>3. SUFFICES ASSUME NEW i \in 1..12 PROVE OpAt("gdiplus", i, Gdiplus[i])
  BY <1>1
<1>4. i = 1 \/ i = 2 \/ i = 3 \/ i = 4 \/ i = 5 \/ i = 6 \/ i = 7 \/ i = 8
      \/ i = 9 \/ i = 10 \/ i = 11 \/ i = 12
  OBVIOUS
<1> QED BY <1>2, <1>4 DEF OpAt, Asks, StartOf, TargetOf, BufferAt, CheckAt, Fast, Checkers

\* main() of gdiplus_loadfont.cpp.
LEMMA LoadFontText ==
  /\ Len(LoadFont) = 11
  /\ \A i \in 1..11 : OpAt("loadfont", i, LoadFont[i])
<1>1. Len(LoadFont) = 11
  BY DEF LoadFont, Handshake, Execution, LegacySetup
<1>2. /\ LoadFont[1] = "inform" /\ LoadFont[2] = "handler" /\ LoadFont[3] = "require"
      /\ LoadFont[4] = "get_payload" /\ LoadFont[5] = "inform" /\ LoadFont[6] = "require"
      /\ LoadFont[7] = "inform" /\ LoadFont[8] = "fast_acquire" /\ LoadFont[9] = "target"
      /\ LoadFont[10] = "release" /\ LoadFont[11] = "loop"
  BY DEF LoadFont, Handshake, Execution, LegacySetup
<1>3. SUFFICES ASSUME NEW i \in 1..11 PROVE OpAt("loadfont", i, LoadFont[i])
  BY <1>1
<1>4. i = 1 \/ i = 2 \/ i = 3 \/ i = 4 \/ i = 5 \/ i = 6 \/ i = 7 \/ i = 8
      \/ i = 9 \/ i = 10 \/ i = 11
  OBVIOUS
<1> QED BY <1>2, <1>4 DEF OpAt, Asks, StartOf, TargetOf, BufferAt, CheckAt, Fast, Checkers

\* main() of the macOS loader and of the program it executes.
LEMMA MacOSText ==
  /\ Len(MacOS) = 17
  /\ \A i \in 1..17 : OpAt("macos", i, MacOS[i])
<1>1. Len(MacOS) = 17
  BY DEF MacOS, Handshake, Execution, LegacySetup
<1>2. /\ MacOS[1] = "resolve" /\ MacOS[2] = "inform" /\ MacOS[3] = "acquire"
      /\ MacOS[4] = "release" /\ MacOS[5] = "inform" /\ MacOS[6] = "inform"
      /\ MacOS[7] = "load" /\ MacOS[8] = "fork" /\ MacOS[9] = "get_payload"
      /\ MacOS[10] = "inform" /\ MacOS[11] = "next" /\ MacOS[12] = "acquire"
      /\ MacOS[13] = "target" /\ MacOS[14] = "release" /\ MacOS[15] = "loop"
      /\ MacOS[16] = "reap" /\ MacOS[17] = "spin"
  BY DEF MacOS, Handshake, Execution, LegacySetup
<1>3. SUFFICES ASSUME NEW i \in 1..17 PROVE OpAt("macos", i, MacOS[i])
  BY <1>1
<1>4. i = 1 \/ i = 2 \/ i = 3 \/ i = 4 \/ i = 5 \/ i = 6 \/ i = 7 \/ i = 8
      \/ i = 9 \/ i = 10 \/ i = 11 \/ i = 12 \/ i = 13 \/ i = 14 \/ i = 15 \/ i = 16
      \/ i = 17
  OBVIOUS
<1> QED BY <1>2, <1>4 DEF OpAt, Asks, StartOf, TargetOf, BufferAt, CheckAt, Fast, Checkers,
           Resolvers

---------------------------------------------------------------------------
\* The text of this agent, and where its jumps lead.

\* Whichever agent it is.
LEMMA Text ==
  ASSUME agent \in Agents
  PROVE  /\ agent \in All
         /\ Len(Program) = LastOf(agent)
         /\ \A i \in 1..LastOf(agent) : OpAt(agent, i, Program[i])
<1>1. agent \in All
  BY AgentAssumption DEF All
<1>2. CASE agent = "zephyr"
  BY <1>1, <1>2, ZephyrText DEF Program, LastOf, TargetOf, StartOf, Fast
<1>3. CASE agent = "uefi_app"
  BY <1>1, <1>3, UefiAppText DEF Program, LastOf, TargetOf, StartOf, Fast
<1>4. CASE agent = "uefi_dxe"
  BY <1>1, <1>4, UefiDxeText DEF Program, LastOf, TargetOf, StartOf, Fast
<1>5. CASE agent = "vuln_test"
  BY <1>1, <1>5, VulnTestText DEF Program, LastOf, TargetOf, StartOf, Fast
<1>6. CASE agent = "selffuzz"
  BY <1>1, <1>6, SelfFuzzText DEF Program, LastOf, TargetOf, StartOf, Fast
<1>7. CASE agent = "gdiplus"
  BY <1>1, <1>7, GdiplusText DEF Program, LastOf, TargetOf, StartOf, Fast
<1>8. CASE agent = "loadfont"
  BY <1>1, <1>8, LoadFontText DEF Program, LastOf, TargetOf, StartOf, Fast
<1>9. CASE agent = "macos"
  BY <1>1, <1>9, MacOSText DEF Program, LastOf, TargetOf, StartOf, Fast
<1> QED BY <1>1, <1>2, <1>3, <1>4, <1>5, <1>6, <1>7, <1>8, <1>9 DEF All, Legacy

\* What is known at a place in the text.
LEMMA Place ==
  ASSUME agent \in Agents, guest.pc \in 0..LastOf(agent), NEW op, At(op)
  PROVE  guest.pc \in 1..LastOf(agent) /\ OpAt(agent, guest.pc, op) /\ PoweredOn
<1>1. guest.pc \in 1..LastOf(agent) /\ Program[guest.pc] = op /\ PoweredOn
  BY Text, Numbers DEF At
<1> QED BY <1>1, Text

\* The jumps.
LEMMA Jumps ==
  ASSUME agent \in Agents
  PROVE  /\ LoopStart = StartOf(agent)
         /\ agent = "macos" => PcOf("fork") = 8 /\ PcOf("reap") = 16 /\ PcOf("spin") = 17
<1>1. /\ agent \in All /\ Len(Program) = LastOf(agent)
      /\ \A i \in 1..LastOf(agent) : OpAt(agent, i, Program[i])
  BY Text
<1>2. /\ StartOf(agent) \in 1..LastOf(agent)
      /\ agent = "macos" => LastOf(agent) = 17
  BY <1>1, Numbers
<1>3. \A i \in 1..LastOf(agent) : Program[i] \in Asks <=> i = StartOf(agent)
  BY <1>1 DEF OpAt
<1>4. ASSUME agent = "macos"
      PROVE  \A i \in 1..17 : /\ (Program[i] = "fork") <=> (i = 8)
                              /\ (Program[i] = "reap") <=> (i = 16)
                              /\ (Program[i] = "spin") <=> (i = 17)
  BY <1>1, <1>2, <1>4 DEF OpAt
<1>5. LoopStart = StartOf(agent)
  BY <1>1, <1>2, <1>3 DEF LoopStart
<1>6. ASSUME agent = "macos"
      PROVE  PcOf("fork") = 8 /\ PcOf("reap") = 16 /\ PcOf("spin") = 17
  <2>1. Len(Program) = 17
    BY <1>1, <1>2, <1>6
  <2>2. PcOf("fork") = 8
    BY <1>4, <1>6, <2>1 DEF PcOf
  <2>3. PcOf("reap") = 16
    BY <1>4, <1>6, <2>1 DEF PcOf
  <2>4. PcOf("spin") = 17
    BY <1>4, <1>6, <2>1 DEF PcOf
  <2> QED BY <2>2, <2>3, <2>4
<1> QED BY <1>5, <1>6

---------------------------------------------------------------------------
\* The invariant.

Reasons == Outcomes \union {"running"}
Callers == {"agent", "loader", "host"}
Entries == [id : Nat, verdict : Verdicts, why : Reasons, by : Callers]
Guests(a) == [pc : 0..LastOf(a), out : Reasons, handler : BOOLEAN, file : Seq(Nat)]

Zeros(f) == \A i \in 1..Len(f) : f[i] = 0

\* Where agent a is in which phase of the host; l is what has been lost.
Where(a, l, g, p) ==
  IF p \in {"done", "aborted"}
  THEN g.pc > 0
  ELSE /\ g.pc \in 1..StartOf(a) - 1 =>
             p = "boot" \/ (a = "macos" /\ g.pc >= 8 /\ p \in {"idle", "ready"} /\ l > 0)
       /\ g.pc = StartOf(a) =>
             p \in {"boot", "idle"} \/ (a = "macos" /\ p = "ready" /\ l > 0)
       /\ g.pc = StartOf(a) + 1 => p = IF a \in Fast THEN "exec" ELSE "ready"
       /\ g.pc \in {TargetOf(a), TargetOf(a) + 1} => p = "exec"
       /\ g.pc = TargetOf(a) + 2 => p = "idle"
       /\ g.pc = TargetOf(a) + 3 => l > 0
       /\ g.pc = TargetOf(a) + 4 => p = "boot"
       /\ g.pc = 0 => \/ p = "exec"
                       \/ (a \in Resolvers /\ p = "boot")
                       \/ (a = "vuln_test" /\ p = "idle")

\* What is then known of the outcome.
Known(a, g, p) ==
  /\ g.pc > StartOf(a) /\ g.pc < TargetOf(a) => g.out = "running"
  /\ g.pc = TargetOf(a) => g.out \in {"running", "oops", "fault", "other"}
  /\ g.pc = TargetOf(a) /\ a = "macos" => g.out \in {"running", "fault"}
  /\ g.pc \in {TargetOf(a) + 1, TargetOf(a) + 2} => g.out = "return"
  /\ g.pc = TargetOf(a) + 3 /\ p = "exec" => g.out \in {"return", "died"}
  /\ g.pc = 0 /\ p = "exec" => g.out \in {"fault", "other"}

GuestOK(a, l, g, p) == g \in Guests(a) /\ Where(a, l, g, p) /\ Known(a, g, p)

\* The buffer b that has been registered, and a host c that has been accepted.
BufferFor(a) == IF a = "selffuzz" THEN "exact" ELSE "array"
Prepared(a, g, b, c) ==
  /\ g.pc \in BufferAt(a) + 1 .. StartOf(a) => b = BufferFor(a)
  /\ a \in Checkers /\ g.pc \in CheckAt(a) + 1 .. StartOf(a) => c.size <= PayloadMax

\* The payload file of GDI+ in reload mode: nobody has written to it, or nobody but
\* this execution.
FromPayload(f, in) ==
  /\ SubSeq(f, 1, in.size) = Blocks(in)
  /\ \A i \in 1..Len(f) : f[i] \in {0, in.id}
FileOK(a, m, g, in, sn) ==
  a = "gdiplus" /\ m = "reload" =>
    /\ g.pc \in 1..StartOf(a) => Zeros(g.file)
    /\ g.pc = StartOf(a) + 1 => \E s \in sn : g.file = s.guest.file
    /\ g.pc = TargetOf(a) => (\E s \in sn : g.file = s.guest.file) \/ FromPayload(g.file, in)

\* A snapshot that may be restored.
SnapOK(a, m, s) ==
  /\ s.phase = IF a \in Fast THEN "exec" ELSE "ready"
  /\ s.guest \in Guests(a) /\ s.guest.pc = StartOf(a) + 1 /\ s.guest.out = "running"
  /\ a = "gdiplus" /\ m = "reload" => Zeros(s.guest.file)
Snapshots == [guest : Guests(agent), phase : {"ready", "exec"}]
Saved == snap \subseteq Snapshots /\ \A s \in snap : SnapOK(agent, mode, s)

HostTypes ==
  /\ agent \in Agents /\ lost \in 0..MaxLost
  /\ conf \in HostConfigs /\ phase \in Phases /\ mode \in Modes /\ stray \in BOOLEAN
  /\ buffer \in {"none", "array", "exact"}
  /\ input \in [id : Nat, size : Nat]
  /\ log \in Seq(Entries)

\* What the host has come to.
HostOK ==
  /\ HostTypes
  /\ phase = "boot" => snap = {} /\ log = <<>> /\ input.id = 0
  /\ snap = {} => phase \in {"boot", "aborted"}
  /\ phase = "idle" => mode = "persistent" /\ input.id = Len(log)
  /\ phase \in {"ready", "exec"} => input.id = Len(log) + 1 /\ input.size <= conf.size
  /\ snap # {} => buffer = BufferFor(agent) /\ (agent # "selffuzz" => conf.size <= PayloadMax)
  /\ agent = "selffuzz" => mode = "reload"
  /\ agent \in Legacy => conf.size = PayloadMax
  /\ stray => lost > 0
  /\ VerdictFits

IInv ==
  /\ HostOK /\ Saved
  /\ GuestOK(agent, lost, guest, phase)
  /\ Prepared(agent, guest, buffer, conf)
  /\ FileOK(agent, mode, guest, input, snap)

---------------------------------------------------------------------------
\* The host calls.

\* A call that returns; it may be out of place once something has been lost.
LEMMA ReturnHolds ==
  ASSUME IInv, agent' = agent, lost' \in 0..MaxLost, lost' >= lost, NEW g,
         GuestOK(agent, lost', g, phase), Prepared(agent, g, buffer, conf),
         FileOK(agent, mode, g, input, snap),
         Inform(g) \/ (lost' > 0 /\ Misplaced(g))
  PROVE  IInv'
<1>1. /\ guest' = g /\ UNCHANGED <<conf, phase, mode, buffer, snap, input, log>>
      /\ stray' \in BOOLEAN /\ (stray' => lost' > 0)
  <2>1. /\ lost \in Nat /\ lost' \in Nat /\ lost' >= lost
        /\ stray \in BOOLEAN /\ (stray => lost > 0)
    BY AgentAssumption DEF IInv, HostOK, HostTypes
  <2>2. stray => lost' > 0
    BY <2>1
  <2>3. CASE Inform(g)
    BY <2>1, <2>2, <2>3 DEF Inform, hostVars
  <2>4. CASE lost' > 0 /\ Misplaced(g)
    BY <2>4 DEF Misplaced
  <2> QED BY <2>3, <2>4
<1>2. HostOK'
  BY <1>1 DEF IInv, HostOK, HostTypes, VerdictFits
<1>3. Saved'
  BY <1>1 DEF IInv, Saved, Snapshots
<1>4. /\ GuestOK(agent, lost, guest, phase)' /\ Prepared(agent, guest, buffer, conf)'
      /\ FileOK(agent, mode, guest, input, snap)'
  BY <1>1
<1> QED BY <1>2, <1>3, <1>4 DEF IInv

\* habort().
LEMMA AbortHolds ==
  ASSUME IInv, UNCHANGED <<agent, lost>>, UserAbort, guest.pc > 0
  PROVE  IInv'
<1>1. phase' = "aborted" /\ UNCHANGED <<guest, conf, mode, buffer, snap, input, log, stray>>
  BY DEF UserAbort
<1>2. HostOK'
  BY <1>1 DEF IInv, HostOK, HostTypes, VerdictFits, Phases
<1>3. Saved'
  BY <1>1 DEF IInv, Saved, Snapshots
<1>4. GuestOK(agent, lost, guest, phase)'
  BY <1>1 DEF IInv, GuestOK, Where, Known
<1>5. Prepared(agent, guest, buffer, conf)' /\ FileOK(agent, mode, guest, input, snap)'
  BY <1>1 DEF IInv
<1> QED BY <1>2, <1>3, <1>4, <1>5 DEF IInv

\* A payload is delivered to a sound snapshot.
LEMMA DeliverHolds ==
  ASSUME IInv, UNCHANGED <<agent, lost, conf, mode>>, NEW k \in Nat,
         NEW s \in snap', SnapOK(agent, mode, s), Deliver(k, s.phase, s.guest)
  PROVE  /\ input' \in [id : Nat, size : Nat]
         /\ phase' \in {"ready", "exec", "done"}
         /\ phase' # "done" => input'.id = k + 1 /\ input'.size <= conf.size
         /\ GuestOK(agent, lost, guest, phase)'
         /\ Prepared(agent, guest, buffer, conf)'
         /\ FileOK(agent, mode, guest, input, snap)'
<1>1. guest' = s.guest /\ phase' \in {s.phase, "done"}
  BY DEF Deliver
<1>2. /\ agent \in All /\ s.guest \in Guests(agent)
      /\ s.guest.pc = StartOf(agent) + 1 /\ s.guest.out = "running"
      /\ s.phase = IF agent \in Fast THEN "exec" ELSE "ready"
  BY Text DEF SnapOK, IInv, HostOK, HostTypes
<1>3. input' \in [id : Nat, size : Nat]
      /\ (phase' # "done" => input'.id = k + 1 /\ input'.size <= conf.size)
  <2>1. CASE k < MaxPayloads
    <3>1. PICK n \in Sizes : n <= conf.size /\ input' = [id |-> k + 1, size |-> n]
      BY <2>1 DEF Deliver
    <3> QED BY <3>1, HostAssumption
  <2>2. CASE ~ (k < MaxPayloads)
    BY <2>2 DEF Deliver, IInv, HostOK, HostTypes
  <2> QED BY <2>1, <2>2
<1>4. GuestOK(agent, lost, s.guest, phase')
  <2>1. Where(agent, lost, s.guest, phase')
    BY <1>1, <1>2, Numbers DEF Where, Fast
  <2>2. Known(agent, s.guest, phase')
    BY <1>1, <1>2, Numbers DEF Known
  <2> QED BY <1>2, <2>1, <2>2 DEF GuestOK
<1>5. Prepared(agent, s.guest, buffer', conf)
  BY <1>2, Numbers DEF Prepared
<1>6. FileOK(agent, mode, s.guest, input', snap')
  <2>1. SUFFICES ASSUME agent = "gdiplus", mode = "reload"
                 PROVE  FileOK(agent, mode, s.guest, input', snap')
    BY DEF FileOK
  <2>2. TargetOf(agent) = StartOf(agent) + 2 /\ StartOf(agent) \in Nat
    BY <1>2, <2>1, Numbers
  <2> QED BY <1>2, <2>2 DEF FileOK
<1>7. phase' \in {"ready", "exec", "done"}
  BY <1>1, <1>2
<1> QED BY <1>1, <1>3, <1>4, <1>5, <1>6, <1>7

\* A fitting verdict restores the snapshot, or the guest goes on.
LEMMA JudgeHolds ==
  ASSUME IInv, UNCHANGED <<agent, lost>>, phase = "exec",
         NEW g, NEW v \in Verdicts, NEW why \in Reasons, NEW by \in Callers,
         <<v, why>> \in Fitting, Judge(v, why, by, g),
         mode = "persistent" /\ v = "ok" =>
           GuestOK(agent, lost, g, "idle") /\ Prepared(agent, g, buffer, conf)
  PROVE  IInv'
<1> DEFINE e == [id |-> input.id, verdict |-> v, why |-> why, by |-> by]
<1>1. UNCHANGED <<conf, mode, buffer, snap, stray>> /\ log' = Append(log, e)
  BY DEF Judge
<1>2. e \in Entries /\ e.verdict = v /\ e.why = why
  BY DEF IInv, HostOK, HostTypes, Entries
<1> HIDE DEF e
<1>3. /\ log \in Seq(Entries) /\ log' \in Seq(Entries) /\ Len(log) \in Nat
      /\ Len(log') = Len(log) + 1
  BY <1>1, <1>2 DEF IInv, HostOK, HostTypes
<1>4. VerdictFits'
  <2>1. SUFFICES ASSUME NEW i \in 1..Len(log')
                 PROVE  <<log'[i].verdict, log'[i].why>> \in Fitting
    BY DEF VerdictFits
  <2>2. CASE i = Len(log) + 1
    BY <1>1, <1>2, <1>3, <2>2
  <2>3. CASE i \in 1..Len(log)
    <3>1. log'[i] = log[i]
      BY <1>1, <1>3, <2>3
    <3> QED BY <2>3, <3>1 DEF IInv, HostOK, VerdictFits
  <2> QED BY <1>3, <2>2, <2>3
<1>5. Saved' /\ snap # {}
  BY <1>1 DEF IInv, Saved, Snapshots, HostOK
<1>6. CASE mode = "persistent" /\ v = "ok"
  <2>1. phase' = "idle" /\ guest' = g /\ input' = input
    BY <1>6 DEF Judge
  <2>2. HostOK'
    BY <1>1, <1>3, <1>4, <1>5, <1>6, <2>1 DEF IInv, HostOK, HostTypes, Phases
  <2>3. GuestOK(agent, lost, guest, phase)' /\ Prepared(agent, guest, buffer, conf)'
    BY <1>1, <1>6, <2>1
  <2>4. FileOK(agent, mode, guest, input, snap)'
    BY <1>1, <1>6 DEF FileOK
  <2> QED BY <1>5, <2>2, <2>3, <2>4 DEF IInv
<1>7. CASE ~ (mode = "persistent" /\ v = "ok")
  <2>1. PICK s \in snap : Deliver(Len(log) + 1, s.phase, s.guest)
    BY <1>7 DEF Judge
  <2>2. s \in snap' /\ SnapOK(agent, mode, s) /\ Len(log) + 1 \in Nat
    BY <1>1, <1>3 DEF IInv, Saved
  <2>3. /\ input' \in [id : Nat, size : Nat]
        /\ phase' \in {"ready", "exec", "done"}
        /\ phase' # "done" => input'.id = Len(log) + 1 + 1 /\ input'.size <= conf.size
        /\ GuestOK(agent, lost, guest, phase)'
        /\ Prepared(agent, guest, buffer, conf)'
        /\ FileOK(agent, mode, guest, input, snap)'
    BY <1>1, <2>1, <2>2, DeliverHolds
  <2>4. HostOK'
    BY <1>1, <1>3, <1>4, <1>5, <2>3 DEF IInv, HostOK, HostTypes, Phases
  <2> QED BY <1>5, <2>3, <2>4 DEF IInv
<1> QED BY <1>6, <1>7

\* The first payload takes the snapshot; a later one finds it there.
LEMMA FetchHolds ==
  ASSUME IInv, UNCHANGED <<agent, lost>>, phase \in {"boot", "idle"},
         guest.pc = StartOf(agent), NEW g \in Guests(agent),
         g.pc = StartOf(agent) + 1, g.out = "running", g.file = guest.file,
         Fetch(IF agent \in Fast THEN "exec" ELSE "ready", g)
  PROVE  IInv'
<1> DEFINE p == IF agent \in Fast THEN "exec" ELSE "ready"
           s == [guest |-> g, phase |-> p]
<1>1. /\ snap' = IF snap = {} THEN {s} ELSE snap
      /\ Deliver(Len(log), p, g)
      /\ UNCHANGED <<conf, mode, buffer, log, stray>>
  BY DEF Fetch
<1>2. /\ s.guest = g /\ s.phase = p /\ s \in Snapshots /\ Len(log) \in Nat
      /\ agent \in All
  BY Text DEF Snapshots, IInv, HostOK, HostTypes
<1>3. buffer = BufferFor(agent) /\ (agent # "selffuzz" => conf.size <= PayloadMax)
  <2>1. StartOf(agent) \in BufferAt(agent) + 1 .. StartOf(agent)
        /\ (agent \in Checkers => StartOf(agent) \in CheckAt(agent) + 1 .. StartOf(agent))
    BY <1>2, Numbers
  <2>2. /\ buffer = BufferFor(agent)
        /\ agent \in Checkers => conf.size <= PayloadMax
    BY <2>1 DEF IInv, Prepared
  <2>3. agent \in Legacy => conf.size <= PayloadMax
    BY AgentAssumption DEF IInv, HostOK
  <2> QED BY <1>2, <2>2, <2>3 DEF All, Checkers
<1>4. phase = "idle" => mode = "persistent" /\ snap # {}
  BY DEF IInv, HostOK
<1>5. agent = "gdiplus" /\ mode = "reload" => Zeros(guest.file)
  BY <1>2, Numbers DEF IInv, FileOK
<1>6. SnapOK(agent, mode, s)
  BY <1>2, <1>5 DEF SnapOK
<1>7. CASE snap = {}
  <2>1. snap' = {s} /\ s \in snap' /\ Deliver(Len(log), s.phase, s.guest)
    BY <1>1, <1>2, <1>7
  <2> HIDE DEF s
  <2>2. /\ input' \in [id : Nat, size : Nat]
        /\ phase' \in {"ready", "exec", "done"}
        /\ phase' # "done" => input'.id = Len(log) + 1 /\ input'.size <= conf.size
        /\ GuestOK(agent, lost, guest, phase)'
        /\ Prepared(agent, guest, buffer, conf)'
        /\ FileOK(agent, mode, guest, input, snap)'
    BY <1>1, <1>2, <1>6, <2>1, DeliverHolds
  <2>3. HostOK'
    BY <1>1, <1>3, <2>1, <2>2 DEF IInv, HostOK, HostTypes, Phases, VerdictFits
  <2>4. Saved'
    BY <1>1, <1>2, <1>6, <2>1 DEF Saved, Snapshots
  <2> QED BY <2>2, <2>3, <2>4 DEF IInv
<1>8. CASE snap # {}
  <2>1. snap' = snap /\ mode = "persistent"
    BY <1>1, <1>4, <1>8 DEF IInv, HostOK
  <2>2. /\ guest' = g /\ phase' \in {p, "done"}
        /\ input' \in [id : Nat, size : Nat]
        /\ phase' # "done" => input'.id = Len(log) + 1 /\ input'.size <= conf.size
    <3>1. CASE Len(log) < MaxPayloads
      <4>1. PICK n \in Sizes : n <= conf.size /\ input' = [id |-> Len(log) + 1, size |-> n]
        BY <1>1, <3>1 DEF Deliver
      <4> QED BY <1>1, <1>2, <3>1, <4>1, HostAssumption DEF Deliver
    <3>2. CASE ~ (Len(log) < MaxPayloads)
      BY <1>1, <3>2 DEF Deliver, IInv, HostOK, HostTypes
    <3> QED BY <3>1, <3>2
  <2>3. HostOK'
    BY <1>1, <1>3, <1>8, <2>1, <2>2 DEF IInv, HostOK, HostTypes, Phases, VerdictFits
  <2>4. Saved'
    BY <1>1, <2>1 DEF IInv, Saved, Snapshots
  <2>5. Where(agent, lost, g, phase')
    <3>1. phase' = "done" \/ phase' = IF agent \in Fast THEN "exec" ELSE "ready"
      BY <2>2
    <3> QED BY <1>2, <3>1, Numbers DEF Where, Fast
  <2>6. Known(agent, g, phase')
    BY <1>2, Numbers DEF Known
  <2>7. GuestOK(agent, lost, guest, phase)'
    BY <2>2, <2>5, <2>6 DEF GuestOK
  <2>8. Prepared(agent, guest, buffer, conf)' /\ FileOK(agent, mode, guest, input, snap)'
    BY <1>1, <1>2, <2>1, <2>2, Numbers DEF Prepared, FileOK
  <2> QED BY <2>3, <2>4, <2>7, <2>8 DEF IInv
<1> QED BY <1>7, <1>8

---------------------------------------------------------------------------
\* The setup, up to where the first payload is asked for.

\* The fields of a guest that goes on.
LEMMA GoingFields ==
  ASSUME guest \in Guests(agent), agent \in Agents, guest.pc < LastOf(agent)
  PROVE  /\ Going \in Guests(agent) /\ Going.pc = guest.pc + 1
         /\ Going.out = guest.out /\ Going.file = guest.file
<1>1. guest.pc + 1 \in 0..LastOf(agent)
  BY Text, Numbers DEF Guests
<1> DEFINE n == guest.pc + 1
<1>2. Going = [guest EXCEPT !.pc = n]
  BY DEF Going, Guests
<1> HIDE DEF n
<1>3. [guest EXCEPT !.pc = n] \in Guests(agent)
  BY <1>1 DEF n, Guests
<1>4. [guest EXCEPT !.pc = n].pc = n
  BY DEF Guests
<1> QED BY <1>2, <1>3, <1>4 DEF n, Guests

\* One element of the setup further.
LEMMA Onward ==
  ASSUME IInv, PoweredOn, guest.pc \in 1..StartOf(agent) - 1,
         NEW g \in Guests(agent), g.pc = guest.pc + 1, g.file = guest.file, NEW b,
         b = IF guest.pc = BufferAt(agent) THEN BufferFor(agent) ELSE buffer,
         agent \in Checkers /\ guest.pc = CheckAt(agent) => conf.size <= PayloadMax
  PROVE  /\ GuestOK(agent, lost, g, phase) /\ Prepared(agent, g, b, conf)
         /\ FileOK(agent, mode, g, input, snap)
<1>1. /\ agent \in All /\ guest.pc \in Nat /\ StartOf(agent) \in Nat
      /\ phase \in Phases /\ phase \notin {"done", "aborted"}
  BY Text, Numbers DEF IInv, HostOK, HostTypes, GuestOK, Guests, PoweredOn
<1>2. Where(agent, lost, guest, phase)
  BY DEF IInv, GuestOK
<1>3. Where(agent, lost, g, phase)
  <2>1. /\ TargetOf(agent) > StartOf(agent) /\ TargetOf(agent) \in Nat
        /\ g.pc > 1 /\ g.pc <= StartOf(agent)
    BY <1>1, Numbers
  <2>2. phase = "boot" \/ (agent = "macos" /\ guest.pc >= 8 /\ phase \in {"idle", "ready"} /\ lost > 0)
    BY <1>1, <1>2 DEF Where
  <2> QED BY <1>1, <2>1, <2>2 DEF Where
<1>4. Known(agent, g, phase)
  BY <1>1, Numbers DEF Known
<1>5. Prepared(agent, g, b, conf)
  <2>1. BufferAt(agent) \in Nat /\ CheckAt(agent) \in Nat
        /\ (g.pc \in BufferAt(agent) + 1 .. StartOf(agent)
              => guest.pc = BufferAt(agent) \/ guest.pc \in BufferAt(agent) + 1 .. StartOf(agent))
        /\ (g.pc \in CheckAt(agent) + 1 .. StartOf(agent)
              => guest.pc = CheckAt(agent) \/ guest.pc \in CheckAt(agent) + 1 .. StartOf(agent))
    BY <1>1, Numbers
  <2> QED BY <1>1, <2>1, Numbers DEF Prepared, IInv
<1>6. FileOK(agent, mode, g, input, snap)
  BY <1>1, Numbers DEF FileOK, IInv
<1> QED BY <1>3, <1>4, <1>5, <1>6 DEF GuestOK

\* The calls of the setup.
LEMMA SetupHolds ==
  ASSUME IInv, UNCHANGED <<agent, lost>>, guest.pc < StartOf(agent),
         \/ DoInform \/ DoAcquire \/ DoRelease \/ DoCheck \/ DoOfferPersistent
         \/ DoNoPersistent \/ DoRequire \/ DoResolve \/ DoGetPayload \/ DoInstallHandler
         \/ DoLoad \/ DoFork
  PROVE  IInv'
<1>1. /\ agent \in Agents /\ agent \in All /\ guest \in Guests(agent)
      /\ guest.pc \in 0..LastOf(agent) /\ lost \in 0..MaxLost /\ lost \in Nat
      /\ Where(agent, lost, guest, phase) /\ phase \in Phases
  BY Text, AgentAssumption DEF IInv, HostOK, HostTypes, GuestOK, Guests
<1>2. /\ PoweredOn /\ guest.pc \in 1..StartOf(agent) - 1
      /\ StartOf(agent) \in Nat /\ LastOf(agent) \in Nat /\ StartOf(agent) < LastOf(agent)
      /\ BufferAt(agent) < StartOf(agent)
  <2>1. PoweredOn /\ guest.pc > 0
    BY DEF At, DoInform, DoAcquire, DoRelease, DoCheck, DoOfferPersistent, DoNoPersistent,
           DoRequire, DoResolve, DoGetPayload, DoInstallHandler, DoLoad, DoFork
  <2> QED BY <1>1, <2>1, Numbers
<1>3. /\ Going \in Guests(agent) /\ Going.pc = guest.pc + 1
      /\ Going.out = guest.out /\ Going.file = guest.file
  BY <1>1, <1>2, GoingFields
<1>4. (agent # "macos" \/ guest.pc < 8) => phase = "boot"
  BY <1>1, <1>2 DEF Where, PoweredOn
<1> HIDE DEF Going
<1>5. ASSUME Inform(Going), guest.pc # BufferAt(agent),
             agent \in Checkers /\ guest.pc = CheckAt(agent) => conf.size <= PayloadMax
      PROVE  IInv'
  <2>1. /\ GuestOK(agent, lost, Going, phase) /\ Prepared(agent, Going, buffer, conf)
        /\ FileOK(agent, mode, Going, input, snap)
    BY <1>2, <1>3, <1>5, Onward
  <2> QED BY <1>1, <1>5, <2>1, ReturnHolds
<1>6. CASE DoInform
  <2>1. OpAt(agent, guest.pc, "inform") /\ Inform(Going)
    BY <1>1, <1>6, Place DEF DoInform
  <2>2. guest.pc # BufferAt(agent) /\ ~ (agent \in Checkers /\ guest.pc = CheckAt(agent))
    BY <2>1 DEF OpAt
  <2> QED BY <1>5, <2>1, <2>2
<1>7. CASE DoAcquire
  <2>1. OpAt(agent, guest.pc, "acquire") /\ Acquire(Going)
    BY <1>1, <1>7, Place DEF DoAcquire
  <2>2. /\ guest.pc # BufferAt(agent) /\ ~ (agent \in Checkers /\ guest.pc = CheckAt(agent))
        /\ agent # "macos" \/ guest.pc < 8
    BY <1>2, <2>1 DEF OpAt
  <2>3. Inform(Going)
    BY <1>4, <2>1, <2>2 DEF Acquire
  <2> QED BY <1>5, <2>2, <2>3
<1>8. CASE DoRelease
  <2>1. OpAt(agent, guest.pc, "release") /\ Release(guest.out, "agent", Going)
    BY <1>1, <1>8, Place DEF DoRelease
  <2>2. /\ guest.pc # BufferAt(agent) /\ ~ (agent \in Checkers /\ guest.pc = CheckAt(agent))
        /\ agent # "macos" \/ guest.pc < 8
    BY <1>1, <1>2, <2>1, Numbers DEF OpAt
  <2>3. Inform(Going)
    BY <1>4, <2>1, <2>2 DEF Release
  <2> QED BY <1>5, <2>2, <2>3
<1>9. CASE DoCheck
  <2>1. OpAt(agent, guest.pc, "check")
    BY <1>1, <1>9, Place DEF DoCheck
  <2>2. guest.pc # BufferAt(agent)
    BY <2>1 DEF OpAt
  <2>3. CASE HostAccepted
    BY <1>5, <1>9, <2>2, <2>3 DEF DoCheck, HostAccepted
  <2>4. CASE ~ HostAccepted
    BY <1>2, <1>9, <2>4, AbortHolds DEF DoCheck
  <2> QED BY <2>3, <2>4
<1>10. ASSUME NEW b \in BOOLEAN, SetAgentConfig(b, Going), guest.pc # BufferAt(agent),
              agent \in Checkers \/ (agent = "selffuzz" /\ ~ b),
              ~ (agent \in Checkers /\ guest.pc = CheckAt(agent))
       PROVE  IInv'
  <2>1. /\ guest' = Going /\ mode' \in Modes /\ (~ b => mode' = "reload")
        /\ UNCHANGED <<conf, phase, buffer, snap, input, log, stray>>
    BY <1>10 DEF SetAgentConfig, Modes
  <2>2. agent # "macos" /\ agent # "gdiplus" /\ agent \notin Legacy
    BY <1>10 DEF Checkers, Legacy
  <2>3. phase = "boot" /\ snap = {}
    BY <1>4, <2>2 DEF IInv, HostOK
  <2>4. HostOK'
    BY <1>10, <2>1, <2>2, <2>3 DEF IInv, HostOK, HostTypes, VerdictFits, Checkers
  <2>5. GuestOK(agent, lost, Going, phase) /\ Prepared(agent, Going, buffer, conf)
    BY <1>2, <1>3, <1>10, Onward
  <2>6. Saved' /\ FileOK(agent, mode, guest, input, snap)'
    BY <2>1, <2>2, <2>3 DEF Saved, FileOK
  <2>7. GuestOK(agent, lost, guest, phase)' /\ Prepared(agent, guest, buffer, conf)'
    BY <2>1, <2>5
  <2> QED BY <2>4, <2>6, <2>7 DEF IInv
<1>11. CASE DoOfferPersistent
  <2>1. OpAt(agent, guest.pc, "offer_persistent") /\ SetAgentConfig(TRUE, Going)
    BY <1>1, <1>11, Place DEF DoOfferPersistent
  <2>2. /\ guest.pc # BufferAt(agent) /\ agent \in Checkers
        /\ ~ (agent \in Checkers /\ guest.pc = CheckAt(agent))
    BY <2>1 DEF OpAt
  <2> QED BY <1>10, <2>1, <2>2
<1>12. CASE DoNoPersistent
  <2>1. OpAt(agent, guest.pc, "no_persistent") /\ SetAgentConfig(FALSE, Going)
    BY <1>1, <1>12, Place DEF DoNoPersistent
  <2>2. /\ guest.pc # BufferAt(agent) /\ agent = "selffuzz"
        /\ ~ (agent \in Checkers /\ guest.pc = CheckAt(agent))
    BY <1>2, <2>1 DEF OpAt
  <2> QED BY <1>10, <2>1, <2>2
<1>13. CASE DoRequire
  <2>1. OpAt(agent, guest.pc, "require")
    BY <1>1, <1>13, Place DEF DoRequire
  <2>2. guest.pc # BufferAt(agent) /\ ~ (agent \in Checkers /\ guest.pc = CheckAt(agent))
    BY <2>1 DEF OpAt
  <2> QED BY <1>2, <1>5, <1>13, <2>2, AbortHolds DEF DoRequire
<1>14. CASE DoResolve
  <2>1. OpAt(agent, guest.pc, "resolve")
    BY <1>1, <1>14, Place DEF DoResolve
  <2>2. /\ guest.pc # BufferAt(agent) /\ ~ (agent \in Checkers /\ guest.pc = CheckAt(agent))
        /\ agent \in Resolvers /\ (agent = "macos" => guest.pc < 8)
    BY <2>1 DEF OpAt
  <2> DEFINE g == [guest EXCEPT !.pc = 0]
             h == [Going EXCEPT !.handler = TRUE]
  <2>3. g \in Guests(agent) /\ g.pc = 0
    BY <1>1, <1>2 DEF Guests
  <2>9. /\ h \in Guests(agent) /\ h.pc = guest.pc + 1
        /\ h.out = guest.out /\ h.file = guest.file
    BY <1>3 DEF Guests
  <2> HIDE DEF g, h
  <2>4. phase = "boot"
    BY <1>4, <2>2
  <2>5. GuestOK(agent, lost, g, phase)
    BY <1>1, <2>2, <2>3, <2>4, Numbers DEF GuestOK, Where, Known
  <2>6. Prepared(agent, g, buffer, conf) /\ FileOK(agent, mode, g, input, snap)
    BY <1>1, <2>2, <2>3, Numbers DEF Prepared, FileOK
  <2>7. Inform(Going) \/ Inform(g) \/ Inform(h)
    BY <1>14 DEF DoResolve, g, h
  <2>8. CASE Inform(g)
    BY <1>1, <2>5, <2>6, <2>8, ReturnHolds
  <2>10. CASE Inform(h)
    <3>1. /\ GuestOK(agent, lost, h, phase) /\ Prepared(agent, h, buffer, conf)
          /\ FileOK(agent, mode, h, input, snap)
      BY <1>2, <2>2, <2>9, Onward
    <3> QED BY <1>1, <2>10, <3>1, ReturnHolds
  <2> QED BY <1>5, <2>2, <2>7, <2>8, <2>10
<1>15. CASE DoGetPayload
  <2>1. OpAt(agent, guest.pc, "get_payload")
    BY <1>1, <1>15, Place DEF DoGetPayload
  <2>2. guest.pc = BufferAt(agent)
    BY <2>1 DEF OpAt
  <2>3. /\ guest' = Going /\ buffer' = BufferFor(agent)
        /\ UNCHANGED <<conf, phase, mode, snap, input, log, stray>>
    BY <1>15 DEF DoGetPayload, GetPayload, BufferOf, BufferFor
  <2>4. ~ (agent \in Checkers /\ guest.pc = CheckAt(agent))
    BY <1>1, <2>2, Numbers
  <2>5. /\ GuestOK(agent, lost, Going, phase)
        /\ Prepared(agent, Going, BufferFor(agent), conf)
        /\ FileOK(agent, mode, Going, input, snap)
    BY <1>2, <1>3, <2>2, <2>4, Onward
  <2>6. HostOK'
    <3>1. BufferFor(agent) \in {"none", "array", "exact"}
      BY DEF BufferFor
    <3> QED BY <2>3, <3>1 DEF IInv, HostOK, HostTypes, VerdictFits
  <2>7. Saved'
    BY <2>3 DEF IInv, Saved, Snapshots
  <2>8. /\ GuestOK(agent, lost, guest, phase)' /\ Prepared(agent, guest, buffer, conf)'
        /\ FileOK(agent, mode, guest, input, snap)'
    BY <2>3, <2>5
  <2> QED BY <2>6, <2>7, <2>8 DEF IInv
<1>16. CASE DoInstallHandler
  <2>1. OpAt(agent, guest.pc, "handler")
    BY <1>1, <1>16, Place DEF DoInstallHandler
  <2>2. guest.pc # BufferAt(agent) /\ ~ (agent \in Checkers /\ guest.pc = CheckAt(agent))
    BY <2>1 DEF OpAt
  <2> DEFINE g == [Going EXCEPT !.handler = TRUE]
  <2>3. g \in Guests(agent) /\ g.pc = guest.pc + 1 /\ g.file = guest.file
    BY <1>3 DEF Guests
  <2> HIDE DEF g
  <2>4. /\ GuestOK(agent, lost, g, phase) /\ Prepared(agent, g, buffer, conf)
        /\ FileOK(agent, mode, g, input, snap)
    BY <1>2, <2>2, <2>3, Onward
  <2>5. Inform(Going) \/ Inform(g)
    BY <1>16 DEF DoInstallHandler, g
  <2>6. CASE Inform(g)
    BY <1>1, <2>4, <2>6, ReturnHolds
  <2> QED BY <1>5, <2>2, <2>5, <2>6
<1>17. CASE DoLoad
  <2>1. OpAt(agent, guest.pc, "load")
    BY <1>1, <1>17, Place DEF DoLoad
  <2>2. agent = "macos" /\ guest.pc = 7
    BY <2>1 DEF OpAt
  <2>3. /\ BufferAt(agent) = 9 /\ StartOf(agent) = 11 /\ TargetOf(agent) = 13
        /\ LastOf(agent) = 17 /\ agent \notin Checkers /\ PcOf("spin") = 17
    BY <1>1, <2>2, Numbers, Jumps DEF Checkers
  <2> DEFINE g == [guest EXCEPT !.pc = 17]
  <2>4. g \in Guests(agent) /\ g.pc = 17
    BY <1>1, <2>3 DEF Guests
  <2> HIDE DEF g
  <2>5. phase = "boot"
    BY <1>4, <2>2
  <2>6. /\ GuestOK(agent, lost, g, phase) /\ Prepared(agent, g, buffer, conf)
        /\ FileOK(agent, mode, g, input, snap)
    BY <2>2, <2>3, <2>4, <2>5 DEF GuestOK, Where, Known, Prepared, FileOK
  <2>7. Inform(Going) \/ Inform(g)
    BY <1>17, <2>3 DEF DoLoad, g
  <2>8. CASE Inform(g)
    BY <1>1, <2>6, <2>8, ReturnHolds
  <2> QED BY <1>5, <2>2, <2>3, <2>7, <2>8
<1>18. CASE DoFork
  <2>1. OpAt(agent, guest.pc, "fork") /\ Inform(Going)
    BY <1>1, <1>18, Place DEF DoFork
  <2>2. agent = "macos" /\ guest.pc = 8
    BY <2>1 DEF OpAt
  <2>3. BufferAt(agent) = 9 /\ agent \notin Checkers
    BY <1>1, <2>2, Numbers DEF Checkers
  <2> QED BY <1>5, <2>1, <2>2, <2>3
<1> QED BY <1>6, <1>7, <1>8, <1>9, <1>11, <1>12, <1>13, <1>14, <1>15, <1>16, <1>17, <1>18

---------------------------------------------------------------------------
\* The loop.

\* write_payload_file() over a file of zeros leaves this payload and zeros.
LEMMA Overwritten ==
  ASSUME NEW old \in Seq(Nat), NEW in \in [id : Nat, size : Nat]
  PROVE  /\ Overwrite(old, Blocks(in)) \in Seq(Nat)
         /\ Zeros(old) => FromPayload(Overwrite(old, Blocks(in)), in)
<1> DEFINE d == Blocks(in)
           m == IF Len(old) > Len(d) THEN Len(old) ELSE Len(d)
           f == Overwrite(old, d)
<1>1. d \in Seq(Nat) /\ Len(d) = in.size /\ \A i \in 1..in.size : d[i] = in.id
  <2>1. d = [i \in 1..in.size |-> in.id] /\ in.size \in Nat /\ in.id \in Nat
    BY DEF Blocks
  <2> QED BY <2>1
<1> HIDE DEF d
<1>2. m \in Nat /\ Len(old) <= m /\ in.size <= m /\ in.size \in Nat
  BY <1>1
<1>3. f = [i \in 1..m |-> IF i <= Len(d) THEN d[i] ELSE old[i]]
  BY DEF Overwrite
<1> HIDE DEF m, f
<1>4. \A i \in 1..m : f[i] = IF i <= in.size THEN in.id ELSE old[i]
  BY <1>1, <1>2, <1>3
<1>5. f \in Seq(Nat) /\ Len(f) = m
  <2>1. \A i \in 1..m : f[i] \in Nat
    <3>1. SUFFICES ASSUME NEW i \in 1..m PROVE f[i] \in Nat
      OBVIOUS
    <3>2. CASE i <= in.size
      BY <1>4, <3>2
    <3>3. CASE i > in.size
      <4>1. i \in 1..Len(old)
        BY <1>1, <1>2, <3>3 DEF m
      <4>2. old[i] \in Nat
        BY <4>1
      <4>3. f[i] = old[i]
        BY <1>2, <1>4, <3>3
      <4> QED BY <4>2, <4>3
    <3> QED BY <1>2, <3>2, <3>3
  <2>2. f \in [1..m -> Nat]
    BY <1>3, <2>1
  <2> QED BY <1>2, <2>2
<1>6. ASSUME Zeros(old) PROVE FromPayload(f, in)
  <2>1. \A i \in 1..Len(f) : f[i] \in {0, in.id}
    <3>1. SUFFICES ASSUME NEW i \in 1..m PROVE f[i] \in {0, in.id}
      BY <1>5
    <3>2. CASE i > in.size
      <4>1. i \in 1..Len(old)
        BY <1>1, <1>2, <3>2 DEF m
      <4> QED BY <1>4, <1>6, <3>2, <4>1 DEF Zeros
    <3> QED BY <1>2, <1>4, <3>2
  <2>2. SubSeq(f, 1, in.size) = Blocks(in)
    <3>1. SubSeq(f, 1, in.size) = [i \in 1..in.size |-> f[i]]
      BY <1>2, <1>5
    <3>2. \A i \in 1..in.size : f[i] = in.id
      BY <1>2, <1>4
    <3> QED BY <3>1, <3>2 DEF Blocks
  <2> QED BY <2>1, <2>2 DEF FromPayload
<1> QED BY <1>5, <1>6 DEF f, d

\* What is known in the loop.
LEMMA LoopFacts ==
  ASSUME IInv
  PROVE  /\ agent \in Agents /\ agent \in All /\ guest \in Guests(agent)
         /\ guest.pc \in 0..LastOf(agent) /\ guest.out \in Reasons
         /\ lost \in 0..MaxLost /\ lost \in Nat
         /\ StartOf(agent) \in Nat /\ TargetOf(agent) \in Nat /\ LastOf(agent) \in Nat
         /\ 1 < StartOf(agent) /\ BufferAt(agent) < StartOf(agent)
         /\ StartOf(agent) < TargetOf(agent) /\ TargetOf(agent) + 2 <= LastOf(agent)
         /\ Where(agent, lost, guest, phase) /\ Known(agent, guest, phase)
         /\ phase \in Phases
<1>1. /\ agent \in Agents /\ agent \in All /\ guest \in Guests(agent)
      /\ lost \in 0..MaxLost /\ lost \in Nat /\ phase \in Phases
      /\ Where(agent, lost, guest, phase) /\ Known(agent, guest, phase)
  BY Text, AgentAssumption DEF IInv, HostOK, HostTypes, GuestOK
<1>2. guest.pc \in 0..LastOf(agent) /\ guest.out \in Reasons
  BY <1>1 DEF Guests
<1>3. /\ StartOf(agent) \in Nat /\ TargetOf(agent) \in Nat /\ LastOf(agent) \in Nat
      /\ 1 < StartOf(agent) /\ BufferAt(agent) < StartOf(agent)
      /\ StartOf(agent) < TargetOf(agent) /\ TargetOf(agent) + 2 <= LastOf(agent)
  BY <1>1, Numbers
<1> QED BY <1>1, <1>2, <1>3

\* Behind the place where the next payload is asked for no buffer is in question.
LEMMA BehindStart ==
  ASSUME IInv, NEW g, g.pc \in Nat, g.pc > StartOf(agent) \/ g.pc = 0
  PROVE  Prepared(agent, g, buffer, conf)
BY LoopFacts, Numbers DEF Prepared

\* NEXT_PAYLOAD, or USER_FAST_ACQUIRE.
LEMMA AskHolds ==
  ASSUME IInv, UNCHANGED <<agent, lost>>, DoNext \/ DoFastAcquire
  PROVE  IInv'
<1>1. /\ PoweredOn /\ guest.pc = StartOf(agent)
      /\ Fetch(IF agent \in Fast THEN "exec" ELSE "ready", [Going EXCEPT !.out = "running"])
  <2>1. CASE DoNext
    <3>1. OpAt(agent, guest.pc, "next") /\ PoweredOn
      BY <2>1, LoopFacts, Place DEF DoNext
    <3>2. guest.pc = StartOf(agent)
      BY <3>1 DEF OpAt, Asks
    <3>3. agent \notin Fast
      BY <3>1, <3>2 DEF OpAt
    <3> QED BY <2>1, <3>1, <3>2, <3>3 DEF DoNext, NextPayload
  <2>2. CASE DoFastAcquire
    <3>1. OpAt(agent, guest.pc, "fast_acquire") /\ PoweredOn
      BY <2>2, LoopFacts, Place DEF DoFastAcquire
    <3>2. guest.pc = StartOf(agent)
      BY <3>1 DEF OpAt, Asks
    <3>3. agent \in Fast
      BY <3>1, <3>2 DEF OpAt
    <3> QED BY <2>2, <3>1, <3>2, <3>3 DEF DoFastAcquire, FastAcquire
  <2> QED BY <2>1, <2>2
<1>2. /\ Going \in Guests(agent) /\ Going.pc = guest.pc + 1 /\ Going.file = guest.file
  BY <1>1, LoopFacts, GoingFields
<1> HIDE DEF Going
<1> DEFINE g == [Going EXCEPT !.out = "running"]
<1>3. /\ g \in Guests(agent) /\ g.pc = StartOf(agent) + 1 /\ g.out = "running"
      /\ g.file = guest.file
  BY <1>1, <1>2 DEF Guests, Reasons
<1>4. /\ Fetch(IF agent \in Fast THEN "exec" ELSE "ready", g)
  BY <1>1
<1> HIDE DEF g
<1>5. CASE phase \in {"boot", "idle"}
  BY <1>1, <1>3, <1>4, <1>5, FetchHolds
<1>6. CASE phase \notin {"boot", "idle"}
  <2>1. /\ agent = "macos" /\ phase = "ready" /\ lost > 0
    BY <1>1, <1>6, LoopFacts DEF Where, PoweredOn
  <2>2. /\ StartOf(agent) = 11 /\ TargetOf(agent) = 13 /\ agent \notin Fast
    BY <2>1, LoopFacts, Numbers DEF Fast
  <2>3. GuestOK(agent, lost, g, phase)
    BY <1>3, <2>1, <2>2 DEF GuestOK, Where, Known
  <2>4. Prepared(agent, g, buffer, conf)
    BY <1>3, LoopFacts, BehindStart
  <2>5. FileOK(agent, mode, g, input, snap)
    BY <2>1 DEF FileOK
  <2>6. Misplaced(g)
    BY <1>4, <1>6 DEF Fetch
  <2> QED BY <2>1, <2>3, <2>4, <2>5, <2>6, LoopFacts, ReturnHolds
<1> QED BY <1>5, <1>6

\* ACQUIRE behind it.
LEMMA AcquireHolds ==
  ASSUME IInv, UNCHANGED <<agent, lost>>, guest.pc >= StartOf(agent), DoAcquire
  PROVE  IInv'
<1>1. OpAt(agent, guest.pc, "acquire") /\ PoweredOn /\ Acquire(Going)
  BY LoopFacts, Place DEF DoAcquire
<1>2. agent \notin Fast /\ guest.pc = StartOf(agent) + 1
  BY <1>1, LoopFacts DEF OpAt
<1>3. phase = "ready" /\ guest.pc < TargetOf(agent) /\ TargetOf(agent) = StartOf(agent) + 2
  BY <1>1, <1>2, LoopFacts, Numbers DEF Where, PoweredOn, Fast
<1>4. guest.out = "running"
  BY <1>2, <1>3, LoopFacts DEF Known
<1>5. /\ Going \in Guests(agent) /\ Going.pc = TargetOf(agent) /\ Going.out = "running"
  BY <1>2, <1>3, <1>4, LoopFacts, GoingFields
<1> HIDE DEF Going
<1>6. /\ phase' = "exec" /\ guest' = Going
      /\ UNCHANGED <<conf, mode, buffer, snap, input, log, stray>>
  BY <1>1, <1>3 DEF Acquire
<1>7. HostOK'
  BY <1>3, <1>6 DEF IInv, HostOK, HostTypes, Phases, VerdictFits
<1>8. Saved'
  BY <1>6 DEF IInv, Saved, Snapshots
<1>9. GuestOK(agent, lost, Going, "exec")
  BY <1>3, <1>5, LoopFacts DEF GuestOK, Where, Known
<1>10. Prepared(agent, Going, buffer, conf)
  BY <1>5, LoopFacts, BehindStart
<1>11. FileOK(agent, mode, Going, input, snap)
  BY <1>2 DEF FileOK, Fast
<1>12. /\ GuestOK(agent, lost, guest, phase)' /\ Prepared(agent, guest, buffer, conf)'
       /\ FileOK(agent, mode, guest, input, snap)'
  BY <1>6, <1>9, <1>10, <1>11
<1> QED BY <1>7, <1>8, <1>12 DEF IInv

\* write_payload_file().
LEMMA WriteHolds ==
  ASSUME IInv, UNCHANGED <<agent, lost>>, DoWriteFile
  PROVE  IInv'
<1>1. OpAt(agent, guest.pc, "write_file") /\ PoweredOn
  BY LoopFacts, Place DEF DoWriteFile
<1>2. agent = "gdiplus" /\ guest.pc = StartOf(agent) + 1
  BY <1>1 DEF OpAt
<1>3. phase = "exec" /\ TargetOf(agent) = StartOf(agent) + 2
  BY <1>1, <1>2, LoopFacts, Numbers DEF Where, PoweredOn, Fast
<1>4. guest.out = "running" /\ guest.file \in Seq(Nat)
  BY <1>2, <1>3, LoopFacts DEF Known, Guests
<1>5. /\ Going \in Guests(agent) /\ Going.pc = TargetOf(agent) /\ Going.out = "running"
      /\ Going.file = guest.file
  BY <1>2, <1>3, <1>4, LoopFacts, GoingFields
<1> HIDE DEF Going
<1> DEFINE f == Overwrite(guest.file, Blocks(input))
           g == [Going EXCEPT !.file = f]
<1>6. mode = "reload" => \E s \in snap : guest.file = s.guest.file /\ Zeros(s.guest.file)
  BY <1>2 DEF IInv, FileOK, Saved, SnapOK
<1>7. f \in Seq(Nat) /\ (mode = "reload" => FromPayload(f, input))
  BY <1>4, <1>6, Overwritten DEF IInv, HostOK, HostTypes
<1>8. UserAbort \/ Inform(Going) \/ Inform(g)
  <2>1. [Going EXCEPT !.file = WritePayloadFile(@)] = g
    BY <1>5 DEF WritePayloadFile, Guests
  <2> QED BY <2>1 DEF DoWriteFile
<1> HIDE DEF f
<1>9. /\ g \in Guests(agent) /\ g.pc = TargetOf(agent) /\ g.out = "running" /\ g.file = f
  BY <1>5, <1>7 DEF Guests
<1> HIDE DEF g
<1>10. \A h \in Guests(agent) :
         h.pc = TargetOf(agent) /\ h.out = "running" =>
           GuestOK(agent, lost, h, phase) /\ Prepared(agent, h, buffer, conf)
  BY <1>3, LoopFacts, BehindStart DEF GuestOK, Where, Known
<1>11. CASE UserAbort
  BY <1>2, <1>11, LoopFacts, AbortHolds
<1>12. CASE Inform(Going)
  <2>1. FileOK(agent, mode, Going, input, snap)
    BY <1>3, <1>5, <1>6, LoopFacts DEF FileOK
  <2> QED BY <1>5, <1>10, <1>12, <2>1, LoopFacts, ReturnHolds
<1>13. CASE Inform(g)
  <2>1. FileOK(agent, mode, g, input, snap)
    BY <1>3, <1>7, <1>9, LoopFacts DEF FileOK
  <2> QED BY <1>9, <1>10, <1>13, <2>1, LoopFacts, ReturnHolds
<1> QED BY <1>8, <1>11, <1>12, <1>13

\* The target, whatever it makes of the payload.
LEMMA TargetHolds ==
  ASSUME IInv, UNCHANGED <<agent, lost>>, Target
  PROVE  IInv'
<1>1. At("target")
  BY DEF Target, TargetReturns, TargetFaults, UnhandledException
<1>2. OpAt(agent, guest.pc, "target") /\ PoweredOn
  BY <1>1, LoopFacts, Place
<1>3. guest.pc = TargetOf(agent)
  BY <1>2 DEF OpAt
<1>4. phase = "exec" /\ FileOK(agent, mode, guest, input, snap)
  BY <1>2, <1>3, LoopFacts DEF Where, PoweredOn, IInv
<1>5. CASE TargetReturns
  <2>1. Going \in Guests(agent) /\ Going.pc = TargetOf(agent) + 1
    BY <1>3, LoopFacts, GoingFields
  <2> DEFINE g == [Going EXCEPT !.out = "return"]
  <2>2. Inform(g)
    BY <1>5 DEF TargetReturns
  <2> HIDE DEF Going
  <2>3. g \in Guests(agent) /\ g.pc = TargetOf(agent) + 1 /\ g.out = "return"
    BY <2>1 DEF Guests, Reasons, Outcomes
  <2> HIDE DEF g
  <2>4. GuestOK(agent, lost, g, phase)
    BY <1>4, <2>3, LoopFacts DEF GuestOK, Where, Known
  <2>5. Prepared(agent, g, buffer, conf) /\ FileOK(agent, mode, g, input, snap)
    <3>1. agent = "gdiplus" => TargetOf(agent) = StartOf(agent) + 2
      BY LoopFacts, Numbers
    <3> QED BY <2>3, <3>1, LoopFacts, BehindStart DEF FileOK
  <2> QED BY <2>2, <2>4, <2>5, LoopFacts, ReturnHolds
<1>6. CASE TargetFaults
  <2>1. PICK f \in FaultsOf : Inform([guest EXCEPT !.out = f])
    BY <1>6 DEF TargetFaults
  <2> DEFINE g == [guest EXCEPT !.out = f]
  <2>2. f \in {"oops", "fault", "other"} /\ (agent = "macos" => f = "fault")
    BY <2>1 DEF FaultsOf
  <2>3. g \in Guests(agent) /\ g.pc = guest.pc /\ g.out = f /\ g.file = guest.file
    BY <2>2, LoopFacts DEF Guests, Reasons, Outcomes
  <2> HIDE DEF g
  <2>4. GuestOK(agent, lost, g, phase)
    BY <1>3, <1>4, <2>2, <2>3, LoopFacts DEF GuestOK, Where, Known
  <2>5. Prepared(agent, g, buffer, conf) /\ FileOK(agent, mode, g, input, snap)
    BY <1>3, <1>4, <2>3, LoopFacts, BehindStart DEF FileOK
  <2> QED BY <2>1, <2>4, <2>5, LoopFacts, ReturnHolds DEF g
<1>7. CASE UnhandledException
  <2> DEFINE g == [guest EXCEPT !.pc = 0]
  <2>1. Inform(g) /\ guest.out \in {"fault", "other"}
    BY <1>7 DEF UnhandledException
  <2>2. g \in Guests(agent) /\ g.pc = 0 /\ g.out = guest.out
    BY LoopFacts DEF Guests
  <2> HIDE DEF g
  <2>3. GuestOK(agent, lost, g, phase)
    BY <1>4, <2>1, <2>2, LoopFacts DEF GuestOK, Where, Known
  <2>4. Prepared(agent, g, buffer, conf) /\ FileOK(agent, mode, g, input, snap)
    BY <2>2, LoopFacts, BehindStart DEF FileOK
  <2> QED BY <2>1, <2>3, <2>4, LoopFacts, ReturnHolds
<1> QED BY <1>5, <1>6, <1>7 DEF Target

\* A fault handler reports, and the host restores the snapshot.
LEMMA FaultHandlerHolds ==
  ASSUME IInv, UNCHANGED <<agent, lost>>, DoFaultHandler
  PROVE  IInv'
<1>1. OpAt(agent, guest.pc, "target") /\ PoweredOn
  BY LoopFacts, Place DEF DoFaultHandler
<1>2. guest.pc = TargetOf(agent)
  BY <1>1 DEF OpAt
<1>3. phase = "exec"
  BY <1>1, <1>2, LoopFacts DEF Where, PoweredOn
<1> DEFINE v == HandlerVerdict(guest.out)
<1>4. /\ v \in Verdicts /\ v # "ok" /\ <<v, guest.out>> \in Fitting /\ "agent" \in Callers
      /\ guest.out \in Reasons
  BY LoopFacts DEF DoFaultHandler, HandlerVerdict, Verdicts, Fitting, Callers
<1>5. Judge(v, guest.out, "agent", guest)
  BY <1>3 DEF DoFaultHandler, Report
<1> HIDE DEF v
<1> QED BY <1>3, <1>4, <1>5, JudgeHolds

\* RELEASE behind the target.
LEMMA ReleaseHolds ==
  ASSUME IInv, UNCHANGED <<agent, lost>>, guest.pc >= StartOf(agent), DoRelease
  PROVE  IInv'
<1>1. OpAt(agent, guest.pc, "release") /\ PoweredOn /\ Release(guest.out, "agent", Going)
  BY LoopFacts, Place DEF DoRelease
<1>2. guest.pc = TargetOf(agent) + 1
  BY <1>1, LoopFacts DEF OpAt
<1>3. phase = "exec" /\ guest.out = "return"
  BY <1>1, <1>2, LoopFacts DEF Where, Known, PoweredOn
<1>4. Judge("ok", "return", "agent", Going)
  BY <1>1, <1>3 DEF Release
<1>5. Going \in Guests(agent) /\ Going.pc = TargetOf(agent) + 2 /\ Going.out = "return"
  BY <1>2, <1>3, LoopFacts, GoingFields
<1> HIDE DEF Going
<1>6. GuestOK(agent, lost, Going, "idle") /\ Prepared(agent, Going, buffer, conf)
  BY <1>5, LoopFacts, BehindStart DEF GuestOK, Where, Known
<1>7. /\ "ok" \in Verdicts /\ "return" \in Reasons /\ "agent" \in Callers
      /\ <<"ok", "return">> \in Fitting
  BY DEF Verdicts, Reasons, Outcomes, Callers, Fitting
<1> QED BY <1>3, <1>4, <1>6, <1>7, JudgeHolds

\* The end of the loop, or of main().
LEMMA AgainHolds ==
  ASSUME IInv, UNCHANGED <<agent, lost>>, DoLoop \/ DoReturn
  PROVE  IInv'
<1>1. CASE DoLoop
  <2>1. OpAt(agent, guest.pc, "loop") /\ PoweredOn
    BY <1>1, LoopFacts, Place DEF DoLoop
  <2>2. guest.pc = TargetOf(agent) + 2
    BY <2>1 DEF OpAt
  <2>3. phase = "idle"
    BY <2>1, <2>2, LoopFacts DEF Where, PoweredOn
  <2>4. /\ mode = "persistent" /\ snap # {}
        /\ buffer = BufferFor(agent) /\ (agent # "selffuzz" => conf.size <= PayloadMax)
    BY <2>3 DEF IInv, HostOK
  <2> DEFINE g == [guest EXCEPT !.pc = StartOf(agent)]
  <2>5. Inform(g)
    BY <1>1, LoopFacts, Jumps DEF DoLoop
  <2>6. g \in Guests(agent) /\ g.pc = StartOf(agent)
    <3>1. StartOf(agent) \in 0..LastOf(agent)
      BY LoopFacts
    <3> QED BY <3>1, LoopFacts DEF Guests
  <2> HIDE DEF g
  <2>7. GuestOK(agent, lost, g, phase)
    <3>1. /\ g.pc < TargetOf(agent) /\ g.pc > 1 /\ g.pc \in Nat
          /\ StartOf(agent) \in Nat /\ TargetOf(agent) \in Nat
      BY <2>6, LoopFacts
    <3>2. Where(agent, lost, g, phase)
      BY <2>3, <2>6, <3>1 DEF Where
    <3>3. Known(agent, g, phase)
      BY <2>3, <2>6, <3>1 DEF Known
    <3> QED BY <2>6, <3>2, <3>3 DEF GuestOK
  <2>8. Prepared(agent, g, buffer, conf) /\ FileOK(agent, mode, g, input, snap)
    BY <2>4 DEF Prepared, FileOK, Checkers
  <2> QED BY <2>5, <2>7, <2>8, LoopFacts, ReturnHolds
<1>2. CASE DoReturn
  <2>1. OpAt(agent, guest.pc, "return") /\ PoweredOn
    BY <1>2, LoopFacts, Place DEF DoReturn
  <2>2. guest.pc = TargetOf(agent) + 2 /\ agent \in {"vuln_test", "selffuzz"}
    BY <2>1 DEF OpAt
  <2>3. phase = "idle"
    BY <2>1, <2>2, LoopFacts DEF Where, PoweredOn
  <2>4. agent = "vuln_test"
    BY <2>2, <2>3 DEF IInv, HostOK
  <2> DEFINE g == [guest EXCEPT !.pc = 0]
  <2>5. Inform(g)
    BY <1>2 DEF DoReturn
  <2>6. g \in Guests(agent) /\ g.pc = 0
    <3>1. 0 \in 0..LastOf(agent) /\ guest \in Guests(agent)
      BY LoopFacts
    <3> QED BY <3>1 DEF Guests
  <2> HIDE DEF g
  <2>7. GuestOK(agent, lost, g, phase)
    BY <2>3, <2>4, <2>6, LoopFacts DEF GuestOK, Where, Known
  <2>8. Prepared(agent, g, buffer, conf) /\ FileOK(agent, mode, g, input, snap)
    BY <2>4, <2>6, LoopFacts, BehindStart DEF FileOK
  <2> QED BY <2>5, <2>7, <2>8, LoopFacts, ReturnHolds
<1> QED BY <1>1, <1>2

---------------------------------------------------------------------------
\* The macOS loader, the host's watchdog, and all of it.

\* The places of the macOS text.
LEMMA MacOSPlaces ==
  ASSUME agent \in Agents, agent = "macos"
  PROVE  /\ StartOf(agent) = 11 /\ TargetOf(agent) = 13 /\ LastOf(agent) = 17
         /\ BufferAt(agent) = 9 /\ agent \notin Checkers /\ agent \notin Fast
         /\ PcOf("fork") = 8 /\ PcOf("reap") = 16
BY Text, Numbers, Jumps DEF Checkers, Fast

\* A guest of macOS whose loader is at its "fork" or "reap" again.
LEMMA LoaderSound ==
  ASSUME IInv, agent = "macos", NEW l \in Nat, l > 0, NEW g \in Guests(agent), NEW p,
         \/ g.pc = 8 /\ p \in {"boot", "idle", "ready"}
         \/ /\ g.pc = 16 /\ p \in {"boot", "idle", "ready", "exec"}
            /\ p = "exec" => g.out \in {"return", "died"}
  PROVE  /\ GuestOK(agent, l, g, p) /\ Prepared(agent, g, buffer, conf)
         /\ FileOK(agent, mode, g, input, snap)
<1>1. /\ StartOf(agent) = 11 /\ TargetOf(agent) = 13
      /\ BufferAt(agent) = 9 /\ agent \notin Checkers /\ agent \notin Fast
  BY LoopFacts, MacOSPlaces
<1>2. Where(agent, l, g, p)
  BY <1>1 DEF Where
<1>3. Known(agent, g, p)
  BY <1>1 DEF Known
<1>4. Prepared(agent, g, buffer, conf)
  BY <1>1 DEF Prepared
<1> QED BY <1>2, <1>3, <1>4 DEF GuestOK, FileOK

\* The loader's RELEASE.
LEMMA ReapHolds ==
  ASSUME IInv, UNCHANGED <<agent, lost>>, DoReap
  PROVE  IInv'
<1>1. OpAt(agent, guest.pc, "reap") /\ PoweredOn
  BY LoopFacts, Place DEF DoReap
<1>2. agent = "macos" /\ guest.pc = 16
  BY <1>1 DEF OpAt
<1> DEFINE g == [guest EXCEPT !.pc = 8]
<1>3. Release(guest.out, "loader", g)
  BY <1>2, LoopFacts, MacOSPlaces DEF DoReap
<1>4. /\ lost > 0 /\ lost \in Nat /\ (phase = "exec" => guest.out \in {"return", "died"})
      /\ phase \in {"boot", "idle", "ready", "exec"}
  BY <1>1, <1>2, LoopFacts, MacOSPlaces DEF Where, Known, PoweredOn, Phases
<1>5. g \in Guests(agent) /\ g.pc = 8
  <2>1. 8 \in 0..LastOf(agent) /\ guest \in Guests(agent)
    BY <1>2, LoopFacts, MacOSPlaces
  <2> QED BY <2>1 DEF Guests
<1> HIDE DEF g
<1>6. CASE phase = "exec"
  <2>1. Judge("ok", guest.out, "loader", g)
    BY <1>3, <1>6 DEF Release
  <2>2. /\ "ok" \in Verdicts /\ guest.out \in Reasons /\ "loader" \in Callers
        /\ <<"ok", guest.out>> \in Fitting
    BY <1>4, <1>6, LoopFacts DEF Verdicts, Callers, Fitting
  <2>3. GuestOK(agent, lost, g, "idle") /\ Prepared(agent, g, buffer, conf)
    BY <1>2, <1>4, <1>5, LoaderSound
  <2> QED BY <1>6, <2>1, <2>2, <2>3, JudgeHolds
<1>7. CASE phase # "exec"
  <2>1. Inform(g) \/ Misplaced(g)
    BY <1>3, <1>7 DEF Release
  <2>2. /\ GuestOK(agent, lost, g, phase) /\ Prepared(agent, g, buffer, conf)
        /\ FileOK(agent, mode, g, input, snap)
    BY <1>2, <1>4, <1>5, <1>7, LoaderSound
  <2> QED BY <1>4, <2>1, <2>2, LoopFacts, ReturnHolds
<1> QED BY <1>6, <1>7

\* What the program that dies had made of the payload.
LEMMA DeadOutcome ==
  ASSUME IInv, ProgramDies
  PROVE  phase = "exec" => guest.out \in {"running", "return"}
<1>1. /\ agent = "macos" /\ guest.pc \in 9..15 /\ guest.out # "fault" /\ PoweredOn
  BY LoopFacts, MacOSPlaces DEF ProgramDies
<1> QED BY <1>1, LoopFacts, MacOSPlaces DEF Where, Known, PoweredOn

\* A program is lost.
LEMMA LosesHolds ==
  ASSUME IInv, agent' = agent, Loses
  PROVE  IInv'
<1>1. lost' = lost + 1 /\ lost' \in 0..MaxLost /\ lost' > 0 /\ lost' \in Nat /\ lost' >= lost
  BY LoopFacts, AgentAssumption DEF Loses
<1>2. CASE ForkFails
  <2>1. OpAt(agent, guest.pc, "fork") /\ PoweredOn
    BY <1>2, LoopFacts, Place DEF ForkFails
  <2>2. agent = "macos" /\ guest.pc = 8
    BY <2>1 DEF OpAt
  <2> DEFINE g == [guest EXCEPT !.pc = 16]
  <2>3. Inform(g)
    BY <1>2, <2>2, LoopFacts, MacOSPlaces DEF ForkFails
  <2>4. g \in Guests(agent) /\ g.pc = 16
    <3>1. 16 \in 0..LastOf(agent) /\ guest \in Guests(agent)
      BY <2>2, LoopFacts, MacOSPlaces
    <3> QED BY <3>1 DEF Guests
  <2> HIDE DEF g
  <2>5. phase \in {"boot", "idle", "ready"}
    BY <2>1, <2>2, LoopFacts, MacOSPlaces DEF Where, PoweredOn
  <2>6. /\ GuestOK(agent, lost', g, phase) /\ Prepared(agent, g, buffer, conf)
        /\ FileOK(agent, mode, g, input, snap)
    BY <1>1, <2>2, <2>4, <2>5, LoaderSound
  <2> QED BY <1>1, <2>3, <2>6, ReturnHolds
<1>3. CASE ProgramDies
  <2>1. agent = "macos" /\ PoweredOn
    BY <1>3 DEF ProgramDies
  <2> DEFINE o == IF phase = "exec" /\ guest.out = "running" THEN "died" ELSE guest.out
             g == [guest EXCEPT !.pc = 16, !.out = o]
  <2>2. Inform(g)
    <3>1. [guest EXCEPT !.pc = 16, !.out = IF phase = "exec" /\ @ = "running" THEN "died" ELSE @]
            = g
      BY LoopFacts DEF Guests
    <3> QED BY <1>3, <2>1, <3>1, LoopFacts, MacOSPlaces DEF ProgramDies
  <2>3. o \in Reasons /\ (phase = "exec" => o \in {"return", "died"})
    BY <1>3, DeadOutcome, LoopFacts DEF Reasons, Outcomes
  <2> HIDE DEF o
  <2>4. g \in Guests(agent) /\ g.pc = 16 /\ g.out = o
    <3>1. 16 \in 0..LastOf(agent) /\ guest \in Guests(agent)
      BY <2>1, LoopFacts, MacOSPlaces
    <3> QED BY <2>3, <3>1 DEF Guests
  <2> HIDE DEF g
  <2>5. phase \in {"boot", "idle", "ready", "exec"}
    BY <2>1, LoopFacts DEF Phases, PoweredOn
  <2>6. /\ GuestOK(agent, lost', g, phase) /\ Prepared(agent, g, buffer, conf)
        /\ FileOK(agent, mode, g, input, snap)
    BY <1>1, <2>1, <2>3, <2>4, <2>5, LoaderSound
  <2> QED BY <1>1, <2>2, <2>6, ReturnHolds
<1> QED BY <1>2, <1>3 DEF Loses

\* The host ends the execution.
LEMMA TimeoutHolds ==
  ASSUME IInv, UNCHANGED <<agent, lost>>, Timeout
  PROVE  IInv'
<1>1. phase = "exec" /\ Judge("timeout", guest.out, "host", guest)
  BY DEF Timeout, HostTimeout
<1>2. /\ "timeout" \in Verdicts /\ guest.out \in Reasons /\ "host" \in Callers
      /\ <<"timeout", guest.out>> \in Fitting
  BY LoopFacts DEF Verdicts, Callers, Reasons, Fitting
<1> QED BY <1>1, <1>2, JudgeHolds

\* Nothing has happened when the agent starts.
LEMMA InitHolds == Init => IInv
<1> SUFFICES ASSUME Init PROVE IInv
  OBVIOUS
<1>1. /\ agent \in Agents /\ lost = 0 /\ conf \in HostConfigs /\ phase = "boot"
      /\ mode \in Modes /\ (agent \notin Legacy => mode = "reload")
      /\ (agent \in Legacy => conf.size = PayloadMax)
      /\ buffer = "none" /\ snap = {} /\ input = [id |-> 0, size |-> 0]
      /\ log = <<>> /\ stray = FALSE
  BY DEF Init, HostInit, HostStarts, Modes
<1>2. /\ agent \in All /\ StartOf(agent) \in Nat /\ TargetOf(agent) \in Nat
      /\ LastOf(agent) \in Nat /\ 1 < StartOf(agent) /\ StartOf(agent) < TargetOf(agent)
      /\ TargetOf(agent) < LastOf(agent) /\ BufferAt(agent) \in Nat /\ 1 < BufferAt(agent)
      /\ agent \in Checkers => CheckAt(agent) \in Nat /\ 0 < CheckAt(agent)
  BY <1>1, Text, Numbers
<1>3. /\ guest \in Guests(agent) /\ guest.pc = 1
      /\ agent = "gdiplus" => guest.file = <<>> \/ guest.file = <<0, 0, 0>>
  <2>1. guest \in [pc : {1}, out : {"running"},
                   handler : {agent \notin {"gdiplus", "loadfont"} \union Resolvers},
                   file : {<<>>} \union (IF agent = "gdiplus" THEN {<<0, 0, 0>>} ELSE {})]
    BY DEF Init
  <2>2. <<>> \in Seq(Nat) /\ <<0, 0, 0>> \in Seq(Nat) /\ 1 \in 0..LastOf(agent)
    BY <1>2
  <2>3. guest.file \in {<<>>, <<0, 0, 0>>}
    BY <2>1
  <2>4. /\ guest = [pc |-> 1, out |-> "running", handler |-> guest.handler, file |-> guest.file]
        /\ guest.handler \in BOOLEAN
    BY <2>1
  <2>5. guest.pc = 1 /\ guest.file \in Seq(Nat) /\ "running" \in Reasons
    BY <2>1, <2>2, <2>3 DEF Reasons
  <2>6. guest \in Guests(agent)
    BY <2>2, <2>4, <2>5 DEF Guests
  <2> QED BY <2>3, <2>5, <2>6
<1>4. GuestOK(agent, lost, guest, phase)
  BY <1>1, <1>2, <1>3 DEF GuestOK, Where, Known
<1>5. Prepared(agent, guest, buffer, conf)
  BY <1>2, <1>3 DEF Prepared
<1>6. FileOK(agent, mode, guest, input, snap)
  <2>1. Zeros(<<>>) /\ Zeros(<<0, 0, 0>>)
    BY DEF Zeros
  <2> QED BY <1>2, <1>3, <2>1 DEF FileOK
<1>7. HostOK
  <2>1. HostTypes
    <3>1. lost \in 0..MaxLost /\ log \in Seq(Entries) /\ input \in [id : Nat, size : Nat]
      BY <1>1, AgentAssumption
    <3> QED BY <1>1, <3>1 DEF HostTypes, Phases
  <2>2. VerdictFits
    BY <1>1 DEF VerdictFits
  <2>3. input.id = 0 /\ (agent = "selffuzz" => mode = "reload")
    BY <1>1 DEF Legacy
  <2> QED BY <1>1, <2>1, <2>2, <2>3 DEF HostOK
<1>8. Saved
  BY <1>1 DEF Saved
<1> QED BY <1>4, <1>5, <1>6, <1>7, <1>8 DEF IInv

\* Nothing but the variables matters.
LEMMA StutterHolds ==
  ASSUME IInv, UNCHANGED vars
  PROVE  IInv'
<1>1. /\ UNCHANGED <<agent, lost, guest, conf, phase, mode, buffer, snap, input, log, stray>>
  BY DEF vars
<1>2. HostOK'
  BY <1>1 DEF IInv, HostOK, HostTypes, VerdictFits
<1>3. Saved'
  BY <1>1 DEF IInv, Saved, Snapshots
<1>4. /\ GuestOK(agent, lost, guest, phase)' /\ Prepared(agent, guest, buffer, conf)'
      /\ FileOK(agent, mode, guest, input, snap)'
  BY <1>1 DEF IInv
<1> QED BY <1>2, <1>3, <1>4 DEF IInv

\* Every step.
LEMMA NextHolds == IInv /\ [Next]_vars => IInv'
<1> SUFFICES ASSUME IInv, [Next]_vars PROVE IInv'
  OBVIOUS
<1>1. CASE Agent /\ UNCHANGED <<agent, lost>>
  <2>1. guest.pc \in Nat /\ StartOf(agent) \in Nat
    BY LoopFacts
  <2>2. CASE \/ DoInform \/ DoCheck \/ DoOfferPersistent \/ DoNoPersistent \/ DoRequire
             \/ DoResolve \/ DoGetPayload \/ DoInstallHandler \/ DoLoad \/ DoFork
    <3>1. guest.pc < StartOf(agent)
      <4>1. PICK op \in {"inform", "check", "offer_persistent", "no_persistent", "require",
                         "resolve", "get_payload", "handler", "load", "fork"} : At(op)
        BY <2>2 DEF DoInform, DoCheck, DoOfferPersistent, DoNoPersistent, DoRequire,
                    DoResolve, DoGetPayload, DoInstallHandler, DoLoad, DoFork
      <4>2. OpAt(agent, guest.pc, op)
        BY <4>1, LoopFacts, Place
      <4>3. /\ agent = "macos" => StartOf(agent) = 11
            /\ agent \in Checkers => CheckAt(agent) < StartOf(agent)
            /\ BufferAt(agent) < StartOf(agent)
        BY LoopFacts, Numbers
      <4> QED BY <4>1, <4>2, <4>3 DEF OpAt
    <3> QED BY <1>1, <2>2, <3>1, SetupHolds
  <2>3. CASE DoAcquire
    BY <1>1, <2>1, <2>3, SetupHolds, AcquireHolds
  <2>4. CASE DoRelease
    BY <1>1, <2>1, <2>4, SetupHolds, ReleaseHolds
  <2> QED BY <1>1, <2>2, <2>3, <2>4, AskHolds, WriteHolds, FaultHandlerHolds, AgainHolds,
             ReapHolds
          DEF Agent
<1>2. CASE Target /\ UNCHANGED <<agent, lost>>
  BY <1>2, TargetHolds
<1>3. CASE Timeout /\ UNCHANGED <<agent, lost>>
  BY <1>3, TimeoutHolds
<1>4. CASE Loses /\ UNCHANGED agent
  BY <1>4, LosesHolds
<1>5. CASE (Quiescent /\ UNCHANGED <<agent, lost>>) \/ UNCHANGED vars
  BY <1>5, StutterHolds DEF Quiescent, hostVars, vars
<1> QED BY <1>1, <1>2, <1>3, <1>4, <1>5 DEF Next

\* IInv is inductive.
LEMMA Inductive == Spec => []IInv
BY InitHolds, NextHolds, PTL DEF Spec

---------------------------------------------------------------------------
\* The theorems.

\* No step of any agent, of its target or of the host leaves the types: the pc stays
\* in the text, and the snapshot is taken behind the place that asks for a payload.
THEOREM TypeCorrect == Spec => []TypeOK
<1>1. IInv => TypeOK
  <2> SUFFICES ASSUME IInv PROVE TypeOK
    OBVIOUS
  <2>1. /\ agent \in Agents /\ Len(Program) = LastOf(agent) /\ guest \in Guests(agent)
        /\ StartOf(agent) \in Nat /\ LastOf(agent) \in Nat /\ StartOf(agent) + 1 <= LastOf(agent)
    BY LoopFacts, Text
  <2>2. snap \subseteq [guest : [pc : 1..Len(Program), out : {"running"}, handler : BOOLEAN,
                                 file : Seq(Nat)],
                        phase : {"ready", "exec"}]
    <3>1. SUFFICES ASSUME NEW s \in snap
                   PROVE  s \in [guest : [pc : 1..Len(Program), out : {"running"},
                                          handler : BOOLEAN, file : Seq(Nat)],
                                 phase : {"ready", "exec"}]
      OBVIOUS
    <3>2. s \in Snapshots /\ SnapOK(agent, mode, s)
      BY DEF IInv, Saved
    <3>3. s.guest.pc \in 1..Len(Program) /\ s.guest.out = "running"
      BY <2>1, <3>2 DEF SnapOK
    <3> QED BY <3>2, <3>3 DEF Snapshots, Guests
  <2>3. guest \in [pc : 0..Len(Program), out : Outcomes \union {"running"},
                   handler : BOOLEAN, file : Seq(Nat)]
    BY <2>1 DEF Guests, Reasons
  <2> QED BY <2>2, <2>3 DEF IInv, HostOK, HostTypes, TypeOK, Entries, Reasons, Callers
<1> QED BY <1>1, Inductive, PTL

\* For every agent, in both modes, every verdict fits what the target did.
THEOREM VerdictsFit == Spec => []VerdictFits
<1>1. IInv => VerdictFits
  BY DEF IInv, HostOK
<1> QED BY <1>1, Inductive, PTL

\* No agent calls out of order, unless the macOS loader has lost a program.
THEOREM HypercallsInOrder == Spec => []NoStrayHypercall
<1>1. IInv => NoStrayHypercall
  BY DEF IInv, HostOK, NoStrayHypercall
<1> QED BY <1>1, Inductive, PTL

\* Whatever size the host's buffer has, no payload exceeds the one of the agent.
THEOREM PayloadsFit == Spec => []PayloadFitsBuffer
<1>1. IInv => PayloadFitsBuffer
  <2> SUFFICES ASSUME IInv, phase \in {"ready", "exec"}
               PROVE  buffer # "none" /\ input.size <= BufferSize
    BY DEF PayloadFitsBuffer
  <2>1. /\ buffer = BufferFor(agent) /\ (agent # "selffuzz" => conf.size <= PayloadMax)
        /\ input.size <= conf.size
    BY DEF IInv, HostOK
  <2>2. input.size \in Nat /\ conf.size \in Nat /\ PayloadMax \in Nat
    BY HostAssumption, AgentAssumption DEF IInv, HostOK, HostTypes
  <2> QED BY <2>1, <2>2 DEF BufferFor, BufferSize
<1> QED BY <1>1, Inductive, PTL

\* No agent leaves a host that waits for it but the two that may find no kernel, before
\* the first payload, and vuln_test.c after a RELEASE that comes back.
THEOREM HostIsNotLeft == Spec => []AgentStays
<1>1. IInv => AgentStays
  <2> SUFFICES ASSUME IInv, guest.pc = 0
               PROVE  ~ PoweredOn \/ phase = "exec" \/ Abandoned
    BY DEF AgentStays
  <2> QED BY LoopFacts DEF Where, PoweredOn, Abandoned
<1> QED BY <1>1, Inductive, PTL

\* An agent returns from its main() with every payload judged.
THEOREM ReturnsJudged == Spec => []ReturnsAfterVerdict
<1>1. IInv => ReturnsAfterVerdict
  <2> SUFFICES ASSUME IInv, guest.pc = 0, guest.out \notin {"fault", "other"}
               PROVE  Len(log) = input.id
    BY DEF ReturnsAfterVerdict
  <2>1. phase \in {"boot", "idle"}
    BY LoopFacts DEF Where, Known
  <2>2. phase = "boot" => log = <<>> /\ input.id = 0
    BY DEF IInv, HostOK
  <2>3. phase = "idle" => input.id = Len(log)
    BY DEF IInv, HostOK
  <2> QED BY <2>1, <2>2, <2>3
<1> QED BY <1>1, Inductive, PTL

\* For payloads of any size, a file that was there before has no effect on which
\* payload GDI+ reads in reload mode.
THEOREM FileHolds == Spec => []FileHoldsPayload
<1>1. IInv => FileHoldsPayload
  <2> SUFFICES ASSUME IInv, mode = "reload", agent = "gdiplus", At("target")
               PROVE  \/ \E s \in snap : guest.file = s.guest.file
                      \/ /\ SubSeq(guest.file, 1, input.size) = Blocks(input)
                         /\ \A i \in 1..Len(guest.file) : guest.file[i] \in {0, input.id}
    BY DEF FileHoldsPayload
  <2>1. OpAt(agent, guest.pc, "target")
    BY LoopFacts, Place
  <2>2. guest.pc = TargetOf(agent)
    BY <2>1 DEF OpAt
  <2> QED BY <2>2 DEF IInv, FileOK, FromPayload
<1> QED BY <1>1, Inductive, PTL

---------------------------------------------------------------------------
\* The steps of the agents are steps of FuzzCampaign.

\* What the campaign sees of the host and of the guest.
Stage == CASE phase = "exec" -> "running"
           [] ~ Gone /\ phase \in {"boot", "idle", "ready"} -> "waiting"
           [] OTHER -> "over"
Outcome == IF phase = "exec" THEN guest.out ELSE "running"
Given == [i \in 1..Len(log) |-> log[i].verdict]

\* The four actions of FuzzCampaign in these terms, or none of them.
Advances ==
  \/ Stage = "waiting" /\ Stage' = "running" /\ Outcome' = "running" /\ Given' = Given
  \/ /\ Stage = "running" /\ Outcome = "running" /\ Outcome' \in Outcomes
     /\ Stage' = Stage /\ Given' = Given
  \/ /\ Stage = "running" /\ Stage' \in {"running", "waiting", "over"}
     /\ Outcome' = "running"
     /\ \E v \in Verdicts : <<v, Outcome>> \in Fitting /\ Given' = Append(Given, v)
  \/ Stage # "over" /\ Stage' = "over" /\ Outcome' = "running" /\ Given' = Given
  \/ Stage' = Stage /\ Outcome' = Outcome /\ Given' = Given

\* They are indeed its actions.
LEMMA CampaignNext ==
  ASSUME Advances
  PROVE  [Campaign!Next]_(Campaign!vars)
BY DEF Campaign!Next, Campaign!Start, Campaign!Decide, Campaign!Verdict, Campaign!Stop,
       Campaign!vars, Advances, Stage, Outcome, Given, Verdicts

\* Where an agent waits.
Waiting(a, g, p) ==
  p \in {"boot", "idle", "ready"} /\ g.pc # 0 /\ ~ (a = "macos" /\ g.pc = 17)

\* Stage in these terms.
LEMMA StageIs ==
  IInv => /\ Stage = IF phase = "exec" THEN "running"
                     ELSE IF Waiting(agent, guest, phase) THEN "waiting" ELSE "over"
<1> SUFFICES ASSUME IInv
             PROVE  Stage = IF phase = "exec" THEN "running"
                            ELSE IF Waiting(agent, guest, phase) THEN "waiting" ELSE "over"
  OBVIOUS
<1>1. agent \in Agents /\ guest.pc \in 0..LastOf(agent) /\ LastOf(agent) \in Nat
  BY LoopFacts
<1>2. At("spin") => agent = "macos" /\ guest.pc = 17
  <2>1. At("spin") => OpAt(agent, guest.pc, "spin")
    BY <1>1, Place
  <2> QED BY <2>1 DEF OpAt
<1>3. PoweredOn /\ agent = "macos" /\ guest.pc = 17 => At("spin")
  <2>1. SUFFICES ASSUME PoweredOn, agent = "macos", guest.pc = 17 PROVE At("spin")
    OBVIOUS
  <2>2. 17 \in 1..LastOf(agent)
    BY <1>1, <2>1
  <2>3. OpAt(agent, 17, Program[17])
    BY <1>1, <2>2, Text
  <2>4. Program[17] = "spin"
    BY <2>1, <2>3 DEF OpAt
  <2> QED BY <2>1, <2>4 DEF At
<1> QED BY <1>2, <1>3 DEF Stage, Gone, Waiting, PoweredOn

\* The same of the next state.
LEMMA StageIsNext ==
  IInv' => Stage' = IF phase' = "exec" THEN "running"
                    ELSE IF Waiting(agent', guest', phase') THEN "waiting" ELSE "over"
<1>1. (IInv => Stage = IF phase = "exec" THEN "running"
                       ELSE IF Waiting(agent, guest, phase) THEN "waiting" ELSE "over")'
  BY StageIs, PTL
<1> QED BY <1>1

\* A call without effect on an execution may follow a decision of the target, or be
\* the last of an agent that waits.
LEMMA CallAdvances ==
  ASSUME IInv, IInv', agent' = agent, NEW g, guest' = g, phase' = phase, log' = log,
         guest.pc # 0 /\ ~ (agent = "macos" /\ guest.pc = 17),
         phase = "exec" => g.out = guest.out \/ (guest.out = "running" /\ g.out \in Outcomes)
  PROVE  Advances
<1>1. Given' = Given
  BY DEF Given
<1>2. CASE phase = "exec"
  BY <1>1, <1>2 DEF Advances, Stage, Outcome
<1>3. CASE phase \in {"boot", "idle", "ready"}
  <2>1. Stage = "waiting" /\ Stage' \in {"waiting", "over"}
    BY <1>3, StageIs, StageIsNext DEF Waiting
  <2>2. Outcome = "running" /\ Outcome' = "running"
    BY <1>3 DEF Outcome
  <2> QED BY <1>1, <2>1, <2>2 DEF Advances
<1>4. CASE phase \notin {"boot", "idle", "ready", "exec"}
  <2>1. Stage = "over" /\ Stage' = "over" /\ Outcome = "running" /\ Outcome' = "running"
    BY <1>4 DEF Stage, Outcome
  <2> QED BY <1>1, <2>1 DEF Advances
<1> QED BY <1>2, <1>3, <1>4

\* habort() gives the campaign up.
LEMMA AbortAdvances ==
  ASSUME IInv, UserAbort
  PROVE  Advances
<1>1. Stage' = "over" /\ Outcome' = "running" /\ Given' = Given
  BY DEF UserAbort, Stage, Outcome, Given
<1>2. CASE phase = "exec"
  BY <1>1, <1>2 DEF Advances, Stage
<1>3. CASE phase # "exec"
  BY <1>1, <1>3 DEF Advances, Stage, Outcome
<1> QED BY <1>2, <1>3

\* A verdict is one of the campaign, and what runs next has decided nothing.
LEMMA JudgeAdvances ==
  ASSUME IInv, IInv', NEW g, NEW v \in Verdicts, NEW by \in Callers, phase = "exec",
         Judge(v, guest.out, by, g), <<v, guest.out>> \in Fitting
  PROVE  Advances
<1> DEFINE e == [id |-> input.id, verdict |-> v, why |-> guest.out, by |-> by]
<1>1. log \in Seq(Entries) /\ log' = Append(log, e) /\ e.verdict = v
  BY DEF IInv, HostOK, HostTypes, Judge
<1> HIDE DEF e
<1>2. Given' = Append(Given, v)
  <2>1. Len(log') = Len(log) + 1 /\ Len(log) \in Nat
    BY <1>1
  <2>2. \A i \in 1..Len(log') :
          log'[i].verdict = IF i = Len(log) + 1 THEN v ELSE log[i].verdict
    BY <1>1
  <2> QED BY <2>1, <2>2 DEF Given
<1>3. phase' = "exec" => guest'.out = "running"
  <2>1. CASE mode = "persistent" /\ v = "ok"
    BY <2>1 DEF Judge
  <2>2. CASE ~ (mode = "persistent" /\ v = "ok")
    <3>1. PICK s \in snap : Deliver(Len(log) + 1, s.phase, s.guest)
      BY <2>2 DEF Judge
    <3> QED BY <3>1 DEF Deliver, IInv, Saved, SnapOK
  <2> QED BY <2>1, <2>2
<1>4. /\ Stage = "running" /\ Outcome = guest.out /\ Outcome' = "running"
  BY <1>3 DEF Stage, Outcome
<1>5. Stage' \in {"running", "waiting", "over"}
  BY DEF Stage
<1> QED BY <1>2, <1>4, <1>5 DEF Advances

\* Calls that begin an execution, or come to a host without payloads.
LEMMA BeginAdvances ==
  ASSUME IInv, phase \in {"boot", "idle", "ready"},
         guest.pc # 0 /\ ~ (agent = "macos" /\ guest.pc = 17),
         guest'.out = "running", log' = log
  PROVE  Advances
<1>1. Stage = "waiting"
  BY StageIs DEF Waiting
<1>2. Outcome = "running" /\ Outcome' = "running" /\ Given' = Given
  BY DEF Outcome, Given
<1>3. Stage' \in {"running", "waiting", "over"}
  BY DEF Stage
<1> QED BY <1>1, <1>2, <1>3 DEF Advances

\* The steps of an agent.
LEMMA AgentAdvances ==
  ASSUME IInv, IInv', UNCHANGED <<agent, lost>>, Agent
  PROVE  Advances
<1>1. PICK op \in {"inform", "acquire", "release", "check", "offer_persistent",
                   "no_persistent", "require", "resolve", "get_payload", "next",
                   "fast_acquire", "handler", "write_file", "target", "loop", "return",
                   "load", "fork", "reap"} : At(op)
  BY DEF Agent, DoInform, DoAcquire, DoRelease, DoCheck, DoOfferPersistent,
         DoNoPersistent, DoRequire, DoResolve, DoGetPayload, DoNext, DoFastAcquire,
         DoInstallHandler, DoWriteFile, DoFaultHandler, DoLoop, DoReturn, DoLoad, DoFork, DoReap
<1>2. /\ guest.pc # 0 /\ ~ (agent = "macos" /\ guest.pc = 17) /\ PoweredOn
      /\ OpAt(agent, guest.pc, op)
  <2>1. OpAt(agent, guest.pc, op) /\ guest.pc \in 1..LastOf(agent) /\ PoweredOn
    BY <1>1, LoopFacts, Place
  <2> QED BY <1>1, <2>1 DEF OpAt
<1>3. /\ guest \in [pc : 0..LastOf(agent), out : Reasons, handler : BOOLEAN, file : Seq(Nat)]
      /\ phase \in Phases /\ guest.out \in Reasons
  BY LoopFacts DEF Guests
<1>4. Going.out = guest.out
  BY <1>3 DEF Going
<1>5. \A x : [guest EXCEPT !.pc = x].out = guest.out
  BY <1>3
<1>6. \A x : [Going EXCEPT !.handler = x].out = guest.out /\ [Going EXCEPT !.file = x].out = guest.out
  BY <1>3 DEF Going
<1>7. [Going EXCEPT !.out = "running"].out = "running"
  BY <1>3 DEF Going
<1>8. [Going EXCEPT !.file = WritePayloadFile(@)].out = guest.out
  BY <1>3 DEF Going
<1> HIDE DEF Going
<1>9. ASSUME NEW g, g.out = guest.out, Inform(g) \/ Misplaced(g) PROVE Advances
  <2>1. guest' = g /\ phase' = phase /\ log' = log
    BY <1>9 DEF Inform, Misplaced, hostVars
  <2> QED BY <1>2, <1>9, <2>1, CallAdvances
<1>10. CASE DoInform \/ DoCheck \/ DoRequire \/ DoFork
  BY <1>4, <1>9, <1>10, AbortAdvances DEF DoInform, DoCheck, DoRequire, DoFork
<1>11. CASE DoOfferPersistent \/ DoNoPersistent \/ DoGetPayload
  <2>1. guest' = Going /\ phase' = phase /\ log' = log
    BY <1>11 DEF DoOfferPersistent, DoNoPersistent, DoGetPayload, SetAgentConfig, GetPayload
  <2> QED BY <1>2, <1>4, <2>1, CallAdvances
<1>12. CASE DoResolve \/ DoLoop \/ DoReturn \/ DoLoad
  BY <1>4, <1>5, <1>6, <1>9, <1>12 DEF DoResolve, DoLoop, DoReturn, DoLoad
<1>13. CASE DoInstallHandler \/ DoWriteFile
  BY <1>4, <1>6, <1>8, <1>9, <1>13, AbortAdvances DEF DoInstallHandler, DoWriteFile
<1>14. CASE DoAcquire
  <2>1. CASE phase = "ready" /\ phase' = "exec" /\ guest' = Going /\ log' = log
    <3>1. OpAt(agent, guest.pc, "acquire")
      BY <1>14, LoopFacts, Place DEF DoAcquire
    <3>2. guest.pc = StartOf(agent) + 1 /\ agent \notin Fast
      BY <1>2, <2>1, <3>1, LoopFacts DEF OpAt, Where
    <3>3. guest.pc < TargetOf(agent) /\ guest.pc > StartOf(agent)
      BY <3>2, LoopFacts, Numbers DEF Fast
    <3>4. guest.out = "running"
      BY <3>3, LoopFacts DEF Known
    <3> QED BY <1>2, <1>4, <2>1, <3>4, BeginAdvances
  <2>2. CASE Inform(Going) \/ Misplaced(Going)
    BY <1>4, <1>9, <2>2
  <2> QED BY <1>14, <2>1, <2>2 DEF DoAcquire, Acquire
<1>15. CASE DoRelease
  <2>1. Release(guest.out, "agent", Going)
    BY <1>15 DEF DoRelease
  <2>2. CASE phase = "exec"
    <3>1. OpAt(agent, guest.pc, "release")
      BY <1>15, LoopFacts, Place DEF DoRelease
    <3>2. guest.pc = TargetOf(agent) + 1
      BY <1>2, <2>2, <3>1, LoopFacts DEF OpAt, Where
    <3>3. guest.out = "return"
      BY <3>2, LoopFacts DEF Known
    <3>4. /\ "ok" \in Verdicts /\ "agent" \in Callers /\ <<"ok", guest.out>> \in Fitting
      BY <3>3 DEF Verdicts, Callers, Fitting
    <3> QED BY <2>1, <2>2, <3>4, JudgeAdvances DEF Release
  <2>3. CASE phase # "exec"
    BY <1>4, <1>9, <2>1, <2>3 DEF Release
  <2> QED BY <2>2, <2>3
<1>16. CASE DoNext \/ DoFastAcquire
  <2>1. PICK p : Fetch(p, [Going EXCEPT !.out = "running"])
    BY <1>16 DEF DoNext, DoFastAcquire, NextPayload, FastAcquire
  <2>2. guest'.out = "running" /\ log' = log
    BY <1>7, <2>1 DEF Fetch, Misplaced, Deliver
  <2>3. phase \in {"boot", "idle", "ready"}
    <3>1. At("next") \/ At("fast_acquire")
      BY <1>16 DEF DoNext, DoFastAcquire
    <3>2. guest.pc = StartOf(agent)
      BY <3>1, LoopFacts, Place DEF OpAt, Asks
    <3> QED BY <1>2, <3>2, LoopFacts DEF Where, PoweredOn
  <2> QED BY <1>2, <2>2, <2>3, BeginAdvances
<1>17. CASE DoFaultHandler
  <2>1. OpAt(agent, guest.pc, "target")
    BY <1>17, LoopFacts, Place DEF DoFaultHandler
  <2>2. guest.pc = TargetOf(agent)
    BY <2>1 DEF OpAt
  <2>3. phase = "exec"
    BY <1>2, <2>2, LoopFacts DEF Where, PoweredOn
  <2> DEFINE v == HandlerVerdict(guest.out)
  <2>4. /\ v \in Verdicts /\ "agent" \in Callers /\ <<v, guest.out>> \in Fitting
    BY <1>17 DEF DoFaultHandler, HandlerVerdict, Verdicts, Callers, Fitting
  <2>5. Judge(v, guest.out, "agent", guest)
    BY <1>17, <2>3 DEF DoFaultHandler, Report
  <2> HIDE DEF v
  <2> QED BY <2>3, <2>4, <2>5, JudgeAdvances
<1>18. CASE DoReap
  <2>1. OpAt(agent, guest.pc, "reap")
    BY <1>18, LoopFacts, Place DEF DoReap
  <2>2. agent = "macos" /\ guest.pc = 16
    BY <2>1 DEF OpAt
  <2>3. PICK x : Release(guest.out, "loader", [guest EXCEPT !.pc = x])
    BY <1>18 DEF DoReap
  <2>4. CASE phase = "exec"
    <3>1. guest.out \in {"return", "died"}
      BY <2>2, <2>4, LoopFacts, MacOSPlaces DEF Known
    <3>2. /\ "ok" \in Verdicts /\ "loader" \in Callers /\ <<"ok", guest.out>> \in Fitting
      BY <3>1 DEF Verdicts, Callers, Fitting
    <3> QED BY <2>3, <2>4, <3>2, JudgeAdvances DEF Release
  <2>5. CASE phase # "exec"
    BY <1>5, <1>9, <2>3, <2>5 DEF Release
  <2> QED BY <2>4, <2>5
<1> QED BY <1>10, <1>11, <1>12, <1>13, <1>14, <1>15, <1>16, <1>17, <1>18 DEF Agent

\* The target decides; an exception that nothing reports changes nothing any more.
LEMMA TargetAdvances ==
  ASSUME IInv, IInv', agent' = agent, Target
  PROVE  Advances
<1>1. OpAt(agent, guest.pc, "target") /\ guest.pc \in 1..LastOf(agent)
  BY LoopFacts, Place DEF Target, TargetReturns, TargetFaults, UnhandledException
<1>2. guest.pc # 0 /\ ~ (agent = "macos" /\ guest.pc = 17)
  BY <1>1 DEF OpAt
<1>3. guest \in [pc : 0..LastOf(agent), out : Reasons, handler : BOOLEAN, file : Seq(Nat)]
  BY LoopFacts DEF Guests
<1>4. PICK g : /\ Inform(g)
               /\ g.out = guest.out \/ (guest.out = "running" /\ g.out \in Outcomes)
  <2>1. CASE TargetReturns
    <3>1. [Going EXCEPT !.out = "return"].out \in Outcomes
      BY <1>3 DEF Going, Outcomes
    <3> QED BY <2>1, <3>1 DEF TargetReturns
  <2>2. CASE TargetFaults
    <3>1. \A f \in FaultsOf : [guest EXCEPT !.out = f].out \in Outcomes
      BY <1>3 DEF FaultsOf, Outcomes
    <3> QED BY <2>2, <3>1 DEF TargetFaults
  <2>3. CASE UnhandledException
    <3>1. [guest EXCEPT !.pc = 0].out = guest.out
      BY <1>3
    <3> QED BY <2>3, <3>1 DEF UnhandledException
  <2> QED BY <2>1, <2>2, <2>3 DEF Target
<1>5. guest' = g /\ phase' = phase /\ log' = log
  BY <1>4 DEF Inform, hostVars
<1> QED BY <1>2, <1>4, <1>5, CallAdvances

\* A program that dies in its execution has decided it.
LEMMA LosesAdvances ==
  ASSUME IInv, IInv', agent' = agent, Loses
  PROVE  Advances
<1>1. guest \in [pc : 0..LastOf(agent), out : Reasons, handler : BOOLEAN, file : Seq(Nat)]
  BY LoopFacts DEF Guests
<1>2. CASE ForkFails
  <2>1. OpAt(agent, guest.pc, "fork") /\ guest.pc \in 1..LastOf(agent)
    BY <1>2, LoopFacts, Place DEF ForkFails
  <2>2. guest.pc # 0 /\ ~ (agent = "macos" /\ guest.pc = 17)
    BY <2>1 DEF OpAt
  <2>3. [guest EXCEPT !.pc = PcOf("reap")].out = guest.out
    BY <1>1
  <2>4. guest' = [guest EXCEPT !.pc = PcOf("reap")] /\ phase' = phase /\ log' = log
    BY <1>2 DEF ForkFails, Inform, hostVars
  <2> QED BY <2>2, <2>3, <2>4, CallAdvances
<1>3. CASE ProgramDies
  <2>1. agent = "macos" /\ guest.pc \in 9..15
    BY <1>3, LoopFacts, MacOSPlaces DEF ProgramDies
  <2> DEFINE g == [guest EXCEPT !.pc = PcOf("reap"),
                     !.out = IF phase = "exec" /\ @ = "running" THEN "died" ELSE @]
  <2>2. g.out = IF phase = "exec" /\ guest.out = "running" THEN "died" ELSE guest.out
    BY <1>1
  <2>3. guest' = g /\ phase' = phase /\ log' = log
    BY <1>3 DEF ProgramDies, Inform, hostVars
  <2> HIDE DEF g
  <2>4. phase = "exec" => g.out = guest.out \/ (guest.out = "running" /\ g.out \in Outcomes)
    BY <2>2 DEF Outcomes
  <2>5. guest.pc # 0 /\ guest.pc # 17
    BY <2>1
  <2> QED BY <2>3, <2>4, <2>5, CallAdvances
<1> QED BY <1>2, <1>3 DEF Loses

\* Every step.
LEMMA StepAdvances ==
  ASSUME IInv, IInv', [Next]_vars
  PROVE  Advances
<1>1. CASE Timeout
  <2>1. /\ "timeout" \in Verdicts /\ "host" \in Callers /\ <<"timeout", guest.out>> \in Fitting
    BY LoopFacts DEF Verdicts, Callers, Reasons, Fitting
  <2> QED BY <1>1, <2>1, JudgeAdvances DEF Timeout, HostTimeout
<1>2. CASE (Quiescent /\ UNCHANGED <<agent, lost>>) \/ UNCHANGED vars
  <2>1. UNCHANGED <<agent, guest, phase, log>>
    BY <1>2 DEF Quiescent, hostVars, vars
  <2>2. Stage' = Stage
    BY <2>1, StageIs, StageIsNext DEF Waiting
  <2> QED BY <2>1, <2>2 DEF Advances, Outcome, Given
<1> QED BY <1>1, <1>2, AgentAdvances, TargetAdvances, LosesAdvances DEF Next

\* The safety part of ImplementsCampaign, for all eight agents.
THEOREM StepsAreOfCampaign ==
  Spec => Campaign!Init /\ [][Campaign!Next]_(Campaign!vars)
<1>1. Init => Campaign!Init
  <2> SUFFICES ASSUME Init PROVE Campaign!Init
    OBVIOUS
  <2>1. IInv
    BY InitHolds
  <2>2. phase = "boot" /\ Len(log) = 0 /\ guest.pc = 1
    BY DEF Init, HostInit, HostStarts
  <2>3. Stage = "waiting"
    BY <2>1, <2>2, StageIs DEF Waiting
  <2>4. [i \in 1..Len(log) |-> log[i].verdict] = <<>>
    BY <2>2
  <2> QED BY <2>2, <2>3, <2>4 DEF Campaign!Init, Stage
<1>2. IInv /\ IInv' /\ [Next]_vars => [Campaign!Next]_(Campaign!vars)
  BY StepAdvances, CampaignNext
<1> QED BY <1>1, <1>2, Inductive, PTL DEF Spec

---------------------------------------------------------------------------
\* Progress.  That an agent comes to its next verdict needs fairness and is left
\* to TLC; that there is a bound on its way there, and that the host's watchdog
\* is on where there may be none, holds without it.

\* How far guest g of agent a is from its RELEASE, or from having gone: two for
\* every element of the text, and one for a target that has not decided.
Rank(a, g) ==
  LET r == TargetOf(a) + 1 IN
    CASE g.pc \in 1..r        -> 2 * (r - g.pc) + (IF g.out = "running" THEN 1 ELSE 0)
      [] g.pc \in {r + 1, r + 2} -> 2 * r + 2
      [] OTHER                -> 0

\* Every step gives a verdict, powers the VM off, loses a program of the macOS
\* loader, or brings the agent closer to one of these.
BoundedExecution ==
  [][\/ Len(log') > Len(log)
     \/ ~ PoweredOn'
     \/ lost' > lost
     \/ Rank(agent, guest') < Rank(agent, guest)]_vars

\* The rank counts steps, and there are never more than thirty to go.
LEMMA RankBounded == \A a \in All : \A g : g.pc \in Nat => Rank(a, g) \in 0..30
<1> SUFFICES ASSUME NEW a \in All, NEW g, g.pc \in Nat PROVE Rank(a, g) \in 0..30
  OBVIOUS
<1>1. TargetOf(a) \in 8..13
  BY DEF All, Legacy, Fast, TargetOf, StartOf
<1> DEFINE x == IF g.out = "running" THEN 1 ELSE 0
<1>2. x \in 0..1
  OBVIOUS
<1>3. Rank(a, g) = IF g.pc \in 1..TargetOf(a) + 1 THEN 2 * (TargetOf(a) + 1 - g.pc) + x
                   ELSE IF g.pc \in {TargetOf(a) + 2, TargetOf(a) + 3} THEN 2 * (TargetOf(a) + 1) + 2
                   ELSE 0
  BY <1>1 DEF Rank
<1>4. \A r \in 8..13, i \in Nat, y \in 0..1 :
        /\ i \in 1..r + 1 => 2 * (r + 1 - i) + y \in 0..30
        /\ 2 * (r + 1) + 2 \in 0..30
  OBVIOUS
<1> HIDE DEF x
<1>5. CASE g.pc \in 1..TargetOf(a) + 1
  BY <1>1, <1>2, <1>3, <1>4, <1>5
<1>6. CASE g.pc \notin 1..TargetOf(a) + 1
  BY <1>1, <1>2, <1>3, <1>4, <1>6
<1> QED BY <1>5, <1>6

\* One element of the text further, one step closer.
LEMMA GoingCloser ==
  ASSUME NEW a, TargetOf(a) \in Nat, NEW g, NEW h,
         g.pc \in 1..TargetOf(a), h.pc = g.pc + 1
  PROVE  Rank(a, h) < Rank(a, g)
<1> DEFINE x == IF g.out = "running" THEN 1 ELSE 0
           y == IF h.out = "running" THEN 1 ELSE 0
<1>1. x \in 0..1 /\ y \in 0..1
  OBVIOUS
<1>2. /\ Rank(a, g) = 2 * (TargetOf(a) + 1 - g.pc) + x
      /\ Rank(a, h) = 2 * (TargetOf(a) + 1 - h.pc) + y
  BY DEF Rank
<1> HIDE DEF x, y
<1> QED BY <1>1, <1>2

\* A jump back from behind RELEASE, and one out of the text.
LEMMA JumpCloser ==
  ASSUME NEW a, TargetOf(a) \in Nat, NEW g, NEW h, h.pc \in Nat,
         \/ g.pc \in {TargetOf(a) + 2, TargetOf(a) + 3} /\ h.pc \in 0..TargetOf(a)
         \/ g.pc \in 1..TargetOf(a) /\ h.pc \in {0, TargetOf(a) + 4}
  PROVE  Rank(a, h) < Rank(a, g)
<1> DEFINE x == IF g.out = "running" THEN 1 ELSE 0
           y == IF h.out = "running" THEN 1 ELSE 0
<1>1. x \in 0..1 /\ y \in 0..1
  OBVIOUS
<1>2. g.pc \in 1..TargetOf(a) => Rank(a, g) = 2 * (TargetOf(a) + 1 - g.pc) + x
  BY DEF Rank
<1>3. g.pc \in {TargetOf(a) + 2, TargetOf(a) + 3} => Rank(a, g) = 2 * (TargetOf(a) + 1) + 2
  BY DEF Rank
<1>4. Rank(a, h) = IF h.pc \in 1..TargetOf(a) THEN 2 * (TargetOf(a) + 1 - h.pc) + y ELSE 0
  BY DEF Rank
<1> HIDE DEF x, y
<1> QED BY <1>1, <1>2, <1>3, <1>4

\* A verdict is one more in the log.
LEMMA JudgeCloser ==
  ASSUME IInv, NEW v, NEW why, NEW by, NEW g, Judge(v, why, by, g)
  PROVE  Len(log') > Len(log)
<1> DEFINE e == [id |-> input.id, verdict |-> v, why |-> why, by |-> by]
<1>1. log' = Append(log, e) /\ log \in Seq(Entries)
  BY DEF Judge, IInv, HostOK, HostTypes
<1> HIDE DEF e
<1> QED BY <1>1

\* What a step of the agent does to its place in the text.
Closer == Len(log') > Len(log) \/ ~ PoweredOn' \/ Rank(agent, guest') < Rank(agent, guest)

\* The agent.
LEMMA AgentCloser ==
  ASSUME IInv, UNCHANGED <<agent, lost>>, Agent
  PROVE  Closer
<1>1. UserAbort => Closer
  BY DEF UserAbort, PoweredOn, Closer
<1>2. \A v, why, by, g : Judge(v, why, by, g) => Closer
  BY JudgeCloser DEF Closer
<1>3. /\ guest \in Guests(agent) /\ StartOf(agent) \in Nat /\ TargetOf(agent) \in Nat
      /\ LastOf(agent) \in Nat /\ StartOf(agent) < TargetOf(agent)
      /\ TargetOf(agent) + 2 <= LastOf(agent) /\ agent \in All /\ agent \in Agents
  BY LoopFacts
<1>4. ASSUME NEW g \in {Going, [Going EXCEPT !.out = "running"], [Going EXCEPT !.handler = TRUE],
                        [Going EXCEPT !.file = WritePayloadFile(@)]},
             guest' = g, guest.pc \in 1..TargetOf(agent)
      PROVE  Closer
  <2>1. Going \in Guests(agent) /\ Going.pc = guest.pc + 1
    BY <1>3, <1>4, GoingFields
  <2>2. g.pc = guest.pc + 1
    <3> HIDE DEF Going
    <3> QED BY <1>4, <2>1 DEF Guests
  <2> QED BY <1>3, <1>4, <2>2, GoingCloser DEF Closer
<1>5. ASSUME NEW x \in Nat, guest' = [guest EXCEPT !.pc = x],
             \/ guest.pc \in {TargetOf(agent) + 2, TargetOf(agent) + 3} /\ x \in 0..TargetOf(agent)
             \/ guest.pc \in 1..TargetOf(agent) /\ x \in {0, TargetOf(agent) + 4}
      PROVE  Closer
  <2>1. guest'.pc = x
    BY <1>3, <1>5 DEF Guests
  <2> QED BY <1>3, <1>5, <2>1, JumpCloser DEF Closer
<1>6. CASE \/ DoInform \/ DoCheck \/ DoOfferPersistent \/ DoNoPersistent \/ DoRequire
           \/ DoResolve \/ DoGetPayload \/ DoInstallHandler \/ DoLoad \/ DoFork
  <2>1. PICK op \in {"inform", "check", "offer_persistent", "no_persistent", "require",
                     "resolve", "get_payload", "handler", "load", "fork"} : At(op)
    BY <1>6 DEF DoInform, DoCheck, DoOfferPersistent, DoNoPersistent, DoRequire,
                DoResolve, DoGetPayload, DoInstallHandler, DoLoad, DoFork
  <2>2. OpAt(agent, guest.pc, op) /\ guest.pc \in 1..LastOf(agent)
    BY <2>1, LoopFacts, Place
  <2>3. /\ agent = "macos" => StartOf(agent) = 11
        /\ agent \in Checkers => CheckAt(agent) < StartOf(agent)
        /\ BufferAt(agent) < StartOf(agent)
    BY LoopFacts, Numbers
  <2>4. guest.pc \in 1..TargetOf(agent)
    BY <1>3, <2>1, <2>2, <2>3 DEF OpAt
  <2>5. DoLoad => PcOf("spin") = TargetOf(agent) + 4
    BY <1>3, LoopFacts, Place, MacOSPlaces, Jumps DEF DoLoad, OpAt
  <2>6. \/ UserAbort
        \/ guest' \in {Going, [Going EXCEPT !.handler = TRUE]}
        \/ guest' = [guest EXCEPT !.pc = 0]
        \/ DoLoad /\ guest' = [guest EXCEPT !.pc = PcOf("spin")]
    BY <1>6 DEF DoInform, DoCheck, DoOfferPersistent, DoNoPersistent, DoRequire, DoResolve,
       DoGetPayload, DoInstallHandler, DoLoad, DoFork, Inform, SetAgentConfig, GetPayload
  <2> QED BY <1>1, <1>3, <1>4, <1>5, <2>4, <2>5, <2>6
<1>7. CASE DoAcquire
  <2>1. OpAt(agent, guest.pc, "acquire") /\ guest.pc \in 1..LastOf(agent)
    BY <1>7, LoopFacts, Place DEF DoAcquire
  <2>2. guest.pc \in 1..TargetOf(agent)
    BY <1>3, <2>1 DEF OpAt
  <2>3. guest' = Going
    BY <1>7 DEF DoAcquire, Acquire, Inform, Misplaced
  <2> QED BY <1>4, <2>2, <2>3
<1>8. CASE DoRelease
  <2>1. /\ OpAt(agent, guest.pc, "release") /\ guest.pc \in 1..LastOf(agent) /\ PoweredOn
        /\ Release(guest.out, "agent", Going)
    BY <1>8, LoopFacts, Place DEF DoRelease
  <2>2. CASE phase = "exec"
    BY <1>2, <2>1, <2>2 DEF Release
  <2>3. CASE phase # "exec"
    <3>1. guest.pc # TargetOf(agent) + 1
      BY <1>3, <2>1, <2>3, LoopFacts DEF Where, PoweredOn
    <3>2. guest.pc \in 1..TargetOf(agent)
      BY <1>3, <2>1, <3>1 DEF OpAt
    <3>3. guest' = Going
      BY <2>1, <2>3 DEF Release, Inform, Misplaced
    <3> QED BY <1>4, <3>2, <3>3
  <2> QED BY <2>2, <2>3
<1>9. CASE DoNext \/ DoFastAcquire
  <2>1. PICK op \in Asks : At(op)
    BY <1>9 DEF DoNext, DoFastAcquire, Asks
  <2>2. guest.pc = StartOf(agent) /\ guest.pc \in 1..LastOf(agent)
    BY <2>1, LoopFacts, Place DEF OpAt
  <2>3. guest' = [Going EXCEPT !.out = "running"]
    BY <1>9 DEF DoNext, DoFastAcquire, NextPayload, FastAcquire, Fetch, Deliver, Misplaced
  <2> QED BY <1>3, <1>4, <2>2, <2>3
<1>10. CASE DoWriteFile
  <2>1. agent = "gdiplus" /\ guest.pc = StartOf(agent) + 1 /\ guest.pc \in 1..LastOf(agent)
    BY <1>10, LoopFacts, Place DEF DoWriteFile, OpAt
  <2>2. UserAbort \/ guest' \in {Going, [Going EXCEPT !.file = WritePayloadFile(@)]}
    BY <1>10 DEF DoWriteFile, Inform
  <2> QED BY <1>1, <1>3, <1>4, <2>1, <2>2
<1>11. CASE DoFaultHandler
  BY <1>1, <1>2, <1>11 DEF DoFaultHandler, Report
<1>12. CASE DoLoop \/ DoReturn
  <2>1. guest.pc = TargetOf(agent) + 2
    BY <1>12, LoopFacts, Place DEF DoLoop, DoReturn, OpAt
  <2>2. guest' \in {[guest EXCEPT !.pc = StartOf(agent)], [guest EXCEPT !.pc = 0]}
    BY <1>3, <1>12, Jumps DEF DoLoop, DoReturn, Inform
  <2> QED BY <1>3, <1>5, <2>1, <2>2
<1>13. CASE DoReap
  <2>1. agent = "macos" /\ guest.pc = 16
    BY <1>13, LoopFacts, Place DEF DoReap, OpAt
  <2>2. TargetOf(agent) = 13 /\ Release(guest.out, "loader", [guest EXCEPT !.pc = 8])
    BY <1>3, <1>13, <2>1, MacOSPlaces DEF DoReap
  <2>3. CASE phase = "exec"
    BY <1>2, <2>2, <2>3 DEF Release
  <2>4. CASE guest' = [guest EXCEPT !.pc = 8]
    BY <1>5, <2>1, <2>2, <2>4
  <2> QED BY <2>2, <2>3, <2>4 DEF Release, Inform, Misplaced
<1> QED BY <1>6, <1>7, <1>8, <1>9, <1>10, <1>11, <1>12, <1>13 DEF Agent

\* The target: it returns, it faults once, or its exception ends the process.
LEMMA TargetCloser ==
  ASSUME IInv, UNCHANGED <<agent, lost>>, Target
  PROVE  Closer
<1>1. OpAt(agent, guest.pc, "target")
  BY LoopFacts, Place DEF Target, TargetReturns, TargetFaults, UnhandledException
<1>2. /\ guest \in Guests(agent) /\ TargetOf(agent) \in Nat /\ LastOf(agent) \in Nat
      /\ guest.pc = TargetOf(agent) /\ guest.pc > 0 /\ guest.pc < LastOf(agent)
      /\ agent \in Agents
  BY <1>1, LoopFacts DEF OpAt
<1>3. CASE TargetReturns
  <2>1. Going \in Guests(agent) /\ Going.pc = guest.pc + 1
    BY <1>2, GoingFields
  <2>2. guest' = [Going EXCEPT !.out = "return"]
    BY <1>3 DEF TargetReturns, Inform
  <2> HIDE DEF Going
  <2>3. guest'.pc = guest.pc + 1
    BY <2>1, <2>2 DEF Guests
  <2> QED BY <1>2, <2>3, GoingCloser DEF Closer
<1>4. CASE TargetFaults
  <2>1. PICK f \in FaultsOf : guest' = [guest EXCEPT !.out = f] /\ guest.out = "running"
    BY <1>4 DEF TargetFaults, Inform
  <2>2. f # "running"
    BY DEF FaultsOf
  <2>3. guest'.pc = guest.pc /\ guest'.out # "running"
    BY <1>2, <2>1, <2>2 DEF Guests
  <2>4. /\ Rank(agent, guest) = 2 * (TargetOf(agent) + 1 - guest.pc) + 1
        /\ Rank(agent, guest') = 2 * (TargetOf(agent) + 1 - guest.pc)
    BY <1>2, <2>1, <2>3 DEF Rank
  <2> QED BY <1>2, <2>4 DEF Closer
<1>5. CASE UnhandledException
  <2>1. guest' = [guest EXCEPT !.pc = 0]
    BY <1>5 DEF UnhandledException, Inform
  <2>2. guest'.pc = 0
    BY <1>2, <2>1 DEF Guests
  <2> QED BY <1>2, <2>2, JumpCloser DEF Closer
<1> QED BY <1>3, <1>4, <1>5 DEF Target

\* Every agent takes at most thirty steps from one verdict to the next, unless the
\* macOS loader loses a program on the way; it can lose no more than MaxLost.
THEOREM ExecutionsAreBounded == Spec => BoundedExecution
<1>1. IInv /\ [Next]_vars =>
        [\/ Len(log') > Len(log)
         \/ ~ PoweredOn'
         \/ lost' > lost
         \/ Rank(agent, guest') < Rank(agent, guest)]_vars
  <2> SUFFICES ASSUME IInv, Next, ~ UNCHANGED vars
               PROVE  Closer \/ lost' > lost
    BY DEF Closer
  <2>1. CASE Timeout
    BY <2>1, JudgeCloser DEF Timeout, HostTimeout, Closer
  <2>2. CASE Loses
    BY <2>2, LoopFacts DEF Loses
  <2>3. ~ (Quiescent /\ UNCHANGED <<agent, lost>>)
    BY DEF Quiescent, hostVars, vars
  <2> QED BY <2>1, <2>2, <2>3, AgentCloser, TargetCloser DEF Next
<1> QED BY <1>1, Inductive, PTL DEF Spec, BoundedExecution

\* An agent calls its target only where the host has an execution on, and so
\* watches the time, whatever programs the macOS loader has lost before.
TargetIsWatched == At("target") => phase = "exec"

\* There is one place where an agent may stay for ever, and it is watched.
THEOREM TargetsAreWatched == Spec => []TargetIsWatched
<1>1. IInv => TargetIsWatched
  <2> SUFFICES ASSUME IInv, At("target") PROVE phase = "exec"
    BY DEF TargetIsWatched
  <2>1. guest.pc = TargetOf(agent) /\ PoweredOn
    BY LoopFacts, Place DEF OpAt
  <2> QED BY <2>1, LoopFacts DEF Where, PoweredOn
<1> QED BY <1>1, Inductive, PTL

---------------------------------------------------------------------------
\* How an agent can leave an execution, and what that says of vuln_test.c.

\* The fault handler is there from the beginning, or it is put in place before the
\* first payload or never; only the GDI+ agents run into exceptions that none sees; and
\* an agent that has left an execution has met a fault that no handler was there for.
HandledInv ==
  /\ agent \notin Fast \union Resolvers => guest.handler
  /\ agent \notin Fast => guest.out # "other"
  /\ \A s \in snap : s.guest.handler = guest.handler
  /\ phase = "exec" /\ guest.pc = 0 =>
       guest.out = "other" \/ (guest.out = "fault" /\ ~ guest.handler)

\* A step leaves the agent in a state of that kind, or restores one.
LEMMA HandledStays ==
  ASSUME IInv, HandledInv, Next
  PROVE  HandledInv'
<1>g. /\ agent \in Agents /\ guest \in Guests(agent) /\ guest.pc \in 0..LastOf(agent)
      /\ StartOf(agent) \in Nat /\ TargetOf(agent) \in Nat /\ LastOf(agent) \in Nat
      /\ agent' = agent /\ (agent \notin Fast => guest.out # "other")
  BY LoopFacts DEF Next, HandledInv
<1>p. \A op : At(op) => OpAt(agent, guest.pc, op) /\ guest.pc \in 1..LastOf(agent) /\ PoweredOn
  BY LoopFacts, Place
<1> DEFINE Like(g)  == g.handler = guest.handler /\ (agent \notin Fast => g.out # "other")
           Sound(g) == Like(g) /\ g.pc # 0
<1>s. \A s \in snap : Sound(s.guest)
  BY <1>g DEF HandledInv, IInv, Saved, SnapOK
<1>x. \A x \in Nat \ {0} : Sound([guest EXCEPT !.pc = x])
  BY <1>g DEF Guests
<1>o. /\ guest.pc # 0 => Sound(Going)
      /\ guest.pc # 0 => \A o : o # "other" => Sound([Going EXCEPT !.out = o])
      /\ guest.pc # 0 => Sound([Going EXCEPT !.file = WritePayloadFile(@)])
  <2>1. SUFFICES ASSUME guest.pc # 0
                 PROVE  /\ Sound(Going)
                        /\ \A o : o # "other" => Sound([Going EXCEPT !.out = o])
                        /\ Sound([Going EXCEPT !.file = WritePayloadFile(@)])
    OBVIOUS
  <2> DEFINE n == guest.pc + 1
  <2>2. n \in Nat \ {0} /\ Going = [guest EXCEPT !.pc = n]
    BY <1>g DEF Going, Guests
  <2> HIDE DEF n
  <2>3. /\ Going.pc = n /\ Going.handler = guest.handler /\ Going.out = guest.out
        /\ Going = [pc |-> n, out |-> guest.out, handler |-> guest.handler, file |-> guest.file]
    BY <1>g, <2>2 DEF Guests
  <2> HIDE DEF Going
  <2> QED BY <1>g, <2>2, <2>3
<1>1. ASSUME Sound(guest'), snap' = snap PROVE HandledInv'
  BY <1>g, <1>1 DEF HandledInv
<1>2. ASSUME UNCHANGED <<guest, snap>>, phase' \in {phase, "aborted"} PROVE HandledInv'
  BY <1>g, <1>2 DEF HandledInv
<1>3. ASSUME NEW v, NEW why, NEW by, NEW g, Judge(v, why, by, g), Sound(g) PROVE HandledInv'
  <2>1. snap' = snap /\ (guest' = g \/ \E s \in snap : guest' = s.guest)
    BY <1>3 DEF Judge, Deliver
  <2> QED BY <1>1, <1>3, <1>s, <2>1
<1>4. ASSUME NEW v, NEW why, NEW by, v # "ok", Judge(v, why, by, guest) PROVE HandledInv'
  <2>1. snap' = snap /\ ((guest' = guest /\ phase' # "exec") \/ \E s \in snap : guest' = s.guest)
    BY <1>4 DEF Judge, Deliver
  <2>2. CASE guest' = guest /\ phase' # "exec"
    BY <1>g, <2>1, <2>2 DEF HandledInv
  <2> QED BY <1>1, <1>s, <2>1, <2>2
<1>5. ASSUME NEW p, NEW g, Fetch(p, g), Sound(g) PROVE HandledInv'
  <2>1. guest' = g /\ (\A s \in snap' : s \in snap \/ s.guest = g)
    BY <1>5 DEF Fetch, Deliver, Misplaced
  <2> QED BY <1>5, <1>g, <2>1 DEF HandledInv
<1>6. ASSUME Inform([guest EXCEPT !.pc = 0]), phase # "exec" PROVE HandledInv'
  <2>1. guest' = [guest EXCEPT !.pc = 0] /\ phase' = phase /\ snap' = snap
    BY <1>6 DEF Inform, hostVars
  <2>2. Like(guest')
    BY <1>g, <2>1 DEF Guests
  <2> QED BY <1>6, <1>g, <2>1, <2>2 DEF HandledInv
<1>7. UserAbort => HandledInv'
  BY <1>2 DEF UserAbort
<1>h. ASSUME Inform([Going EXCEPT !.handler = TRUE]), guest.pc # 0, phase = "boot" PROVE HandledInv'
  <2>1. guest' = [Going EXCEPT !.handler = TRUE] /\ phase' = "boot" /\ snap' = {}
    BY <1>h DEF Inform, hostVars, IInv, HostOK
  <2>2. guest'.handler /\ guest'.out = guest.out
    BY <1>g, <2>1 DEF Going, Guests
  <2> QED BY <1>g, <2>1, <2>2 DEF HandledInv
<1> HIDE DEF Sound, Like
<1>8. CASE \/ DoInform \/ DoCheck \/ DoOfferPersistent \/ DoNoPersistent \/ DoRequire
           \/ DoGetPayload \/ DoFork \/ DoWriteFile \/ DoAcquire
  <2>0. \E op : At(op)
    BY <1>8 DEF DoInform, DoCheck, DoOfferPersistent, DoNoPersistent, DoRequire, DoGetPayload,
       DoFork, DoWriteFile, DoAcquire
  <2>1. guest.pc # 0
    BY <1>g, <1>p, <2>0
  <2>2. \/ UserAbort
        \/ /\ snap' = snap
           /\ guest' \in {Going, [Going EXCEPT !.file = WritePayloadFile(@)]}
    BY <1>8 DEF DoInform, DoCheck, DoOfferPersistent, DoNoPersistent, DoRequire, DoGetPayload,
       DoFork, DoWriteFile, DoAcquire, Acquire, Misplaced, Inform, hostVars,
       SetAgentConfig, GetPayload
  <2> QED BY <1>1, <1>7, <1>o, <2>1, <2>2
<1>9. CASE DoNext \/ DoFastAcquire
  <2>1. guest.pc # 0 /\ \E p : Fetch(p, [Going EXCEPT !.out = "running"])
    BY <1>9 DEF DoNext, DoFastAcquire, At, NextPayload, FastAcquire
  <2> QED BY <1>5, <1>o, <2>1
<1>10. CASE DoRelease
  <2>1. guest.pc # 0 /\ Release(guest.out, "agent", Going)
    BY <1>10 DEF DoRelease, At
  <2> QED BY <1>1, <1>3, <1>o, <2>1 DEF Release, Inform, Misplaced, hostVars
<1>11. CASE DoResolve \/ DoInstallHandler
  <2>1. guest.pc # 0 /\ phase = "boot"
    <3>1. PICK op \in {"resolve", "handler"} : At(op)
      BY <1>11 DEF DoResolve, DoInstallHandler
    <3>2. /\ guest.pc \in 1..StartOf(agent) - 1 /\ PoweredOn
          /\ agent = "macos" => guest.pc < 8
      BY <1>g, <1>p, <3>1 DEF OpAt
    <3> QED BY <3>2, LoopFacts DEF Where, PoweredOn
  <2>2. Inform(Going) \/ Inform([guest EXCEPT !.pc = 0]) \/ Inform([Going EXCEPT !.handler = TRUE])
    BY <1>11 DEF DoResolve, DoInstallHandler
  <2> QED BY <1>1, <1>6, <1>h, <1>o, <2>1, <2>2 DEF Inform, hostVars
<1>12. CASE DoFaultHandler
  <2>1. HandlerVerdict(guest.out) # "ok"
    BY DEF HandlerVerdict
  <2> QED BY <1>4, <1>7, <1>12, <2>1 DEF DoFaultHandler, Report
<1>13. CASE DoLoop
  <2>1. guest' = [guest EXCEPT !.pc = StartOf(agent)] /\ snap' = snap
    BY <1>13, <1>g, Jumps DEF DoLoop, Inform, hostVars
  <2> QED BY <1>1, <1>x, <1>g, <2>1, LoopFacts
<1>14. CASE DoReturn
  <2>1. phase # "exec" /\ Inform([guest EXCEPT !.pc = 0])
    <3>1. guest.pc = TargetOf(agent) + 2 /\ PoweredOn
      BY <1>14, <1>p DEF DoReturn, OpAt
    <3> QED BY <1>14, <3>1, LoopFacts DEF Where, PoweredOn, DoReturn
  <2> QED BY <1>6, <2>1
<1>15. CASE DoLoad
  <2>1. guest.pc # 0 /\ PcOf("spin") = 17
    BY <1>15, <1>g, <1>p, Jumps DEF DoLoad, OpAt
  <2>2. snap' = snap /\ guest' \in {Going, [guest EXCEPT !.pc = 17]}
    BY <1>15, <2>1 DEF DoLoad, Inform, hostVars
  <2> QED BY <1>1, <1>o, <1>x, <2>1, <2>2
<1>16. CASE DoReap
  <2>1. PcOf("fork") = 8 /\ Release(guest.out, "loader", [guest EXCEPT !.pc = PcOf("fork")])
    BY <1>16, <1>g, <1>p, Jumps DEF DoReap, OpAt
  <2>2. Sound([guest EXCEPT !.pc = 8])
    BY <1>x
  <2> QED BY <1>1, <1>3, <2>1, <2>2 DEF Release, Inform, Misplaced, hostVars
<1>17. CASE TargetReturns
  <2>1. guest.pc # 0 /\ snap' = snap /\ guest' = [Going EXCEPT !.out = "return"]
    BY <1>17 DEF TargetReturns, At, Inform, hostVars
  <2> QED BY <1>1, <1>o, <2>1
<1>18. CASE TargetFaults
  <2>1. PICK f \in FaultsOf : guest' = [guest EXCEPT !.out = f] /\ snap' = snap
    BY <1>18 DEF TargetFaults, Inform, hostVars
  <2>2. (agent \notin Fast => f # "other") /\ guest.pc # 0
    BY <1>18 DEF FaultsOf, Fast, TargetFaults, At
  <2>3. Sound(guest')
    BY <1>g, <2>1, <2>2 DEF Sound, Like, Guests
  <2> QED BY <1>1, <2>1, <2>3
<1>19. CASE UnhandledException
  <2>1. guest' = [guest EXCEPT !.pc = 0] /\ snap' = snap
    BY <1>19 DEF UnhandledException, Inform, hostVars
  <2>2. guest.out = "other" \/ (guest.out = "fault" /\ ~ guest.handler)
    BY <1>19 DEF UnhandledException
  <2>3. guest'.out = guest.out /\ guest'.handler = guest.handler
    BY <1>g, <2>1 DEF Guests
  <2> QED BY <1>g, <2>1, <2>2, <2>3 DEF HandledInv
<1>20. CASE Timeout
  BY <1>4, <1>20 DEF Timeout, HostTimeout
<1>21. CASE Quiescent
  BY <1>2, <1>21 DEF Quiescent, hostVars
<1>22. CASE Loses
  <2>1. agent = "macos" /\ PcOf("reap") = 16
    BY <1>22, <1>g, <1>p, Jumps DEF Loses, ForkFails, ProgramDies, OpAt
  <2>2. snap' = snap
    BY <1>22 DEF Loses, ForkFails, ProgramDies, Inform, hostVars
  <2>3. CASE ForkFails
    <3>1. guest' = [guest EXCEPT !.pc = 16]
      BY <2>1, <2>3 DEF ForkFails, Inform
    <3> QED BY <1>1, <1>x, <2>2, <3>1
  <2>4. CASE ProgramDies
    <3>1. PICK o : o \in {"died", guest.out} /\ guest' = [guest EXCEPT !.pc = 16, !.out = o]
      <4>1. guest' = [guest EXCEPT !.pc = 16,
                        !.out = IF phase = "exec" /\ guest.out = "running" THEN "died" ELSE guest.out]
        BY <1>g, <2>1, <2>4 DEF ProgramDies, Inform, Guests
      <4> DEFINE o == IF phase = "exec" /\ guest.out = "running" THEN "died" ELSE guest.out
      <4>2. guest' = [guest EXCEPT !.pc = 16, !.out = o] /\ o \in {"died", guest.out}
        BY <4>1
      <4> HIDE DEF o
      <4> QED BY <4>2
    <3>2. Sound(guest')
      BY <1>g, <3>1 DEF Sound, Like, Guests
    <3> QED BY <1>1, <2>2, <3>2
  <2> QED BY <1>22, <2>3, <2>4 DEF Loses
<1> QED BY <1>8, <1>9, <1>10, <1>11, <1>12, <1>13, <1>14, <1>15, <1>16, <1>17, <1>18, <1>19,
           <1>20, <1>21, <1>22 DEF Next, Agent, Target

\* HandledInv is inductive beside IInv.
LEMMA HandledInductive == Spec => []HandledInv
<1>1. Init => HandledInv
  <2> SUFFICES ASSUME Init PROVE HandledInv
    OBVIOUS
  <2>1. snap = {} /\ phase = "boot" /\ guest.out = "running"
        /\ (agent \notin Fast \union Resolvers => guest.handler)
    BY DEF Init, HostInit, HostStarts, Fast
  <2> QED BY <2>1 DEF HandledInv
<1>2. IInv /\ HandledInv /\ [Next]_vars => HandledInv'
  <2> SUFFICES ASSUME IInv, HandledInv, UNCHANGED vars PROVE HandledInv'
    BY HandledStays
  <2> QED BY DEF vars, HandledInv
<1> QED BY <1>1, <1>2, Inductive, PTL DEF Spec

\* An agent that leaves an execution to the watchdog is a GDI+ one with an exception
\* that exc_handle() does not forward, or one that had to put its handler in place
\* first (exc_handle() of GDI+, the panic address that vuln_test.c and the macOS loader
\* look up) and whose snapshot was taken without it.
HandlersCover ==
  phase = "exec" /\ guest.pc = 0 =>
    \/ agent \in Fast /\ guest.out = "other"
    \/ /\ agent \in Fast \union Resolvers /\ guest.out = "fault"
       /\ \A s \in snap : ~ s.guest.handler

\* There is no other way out of an execution: the Zephyr, UEFI and selffuzz agents are
\* there until the verdict, whatever the target does, and so are the others with their
\* handler in the snapshot, but for those exceptions.
THEOREM FaultsAreHandled == Spec => []HandlersCover
<1>1. HandledInv => HandlersCover
  BY DEF HandledInv, HandlersCover
<1> QED BY <1>1, HandledInductive, PTL

\* The comment at RELEASE of vuln_test.c is right in reload mode: its main() does not
\* return once the snapshot is taken.
ReloadResets == mode = "reload" => ResetsAtRelease

\* So it is the persistent mode that it offers, and nothing else, that lets the main()
\* of vuln_test.c return.
THEOREM ReloadReallyResets == Spec => []ReloadResets
<1>1. IInv => ReloadResets
  <2> SUFFICES ASSUME IInv, mode = "reload", agent = "vuln_test", snap # {},
                      guest.out = "return", guest.pc = 0
               PROVE  FALSE
    BY DEF ReloadResets, ResetsAtRelease
  <2>1. phase \notin {"done", "aborted"} /\ phase \in {"exec", "boot", "idle"}
    <3>1. Where(agent, lost, guest, phase)
      BY LoopFacts
    <3> QED BY <3>1 DEF Where
  <2>2. phase # "exec"
    BY LoopFacts DEF Known
  <2> QED BY <2>1, <2>2 DEF IInv, HostOK
<1> QED BY <1>1, Inductive, PTL

============================================================================
