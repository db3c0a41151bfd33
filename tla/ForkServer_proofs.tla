------------------------- MODULE ForkServer_proofs -------------------------
(***************************************************************************)
(* Theorems about ForkServer, for all values of its constants.             *)
(*                                                                         *)
(* A hypercall lets the guest go on in the state the caller gives or in    *)
(* that of the snapshot, so an invariant of the guest is one that the      *)
(* snapshot has, too: the lemmas of the first part say this once, for any  *)
(* set G of guest states, and each action then has only to show that its   *)
(* own next state is in G.                                                 *)
(***************************************************************************)
EXTENDS ForkServer, TLAPS

Callers == {"parent", "child", "helper", "nested", "host"}
Reasons == Outcomes \union {"running"}
Entries == [id : Nat, verdict : Verdicts, why : Reasons, by : Callers]

\* The types of all variables, the guest and the snapshot being in G.
HostType(G) ==
  /\ guest \in G
  /\ conf \in HostConfigs
  /\ phase \in Phases /\ mode \in Modes /\ stray \in BOOLEAN
  /\ buffer \in {"none", "null", "ok"}
  /\ snap \subseteq [guest : G, phase : Phases]
  /\ input \in [id : Nat, size : Nat]
  /\ log \in Seq(Entries)

---------------------------------------------------------------------------
\* The host calls.

\* A payload that is delivered leaves the guest in the state it was asked for.
LEMMA DeliverType ==
  ASSUME NEW G, NEW g \in G, NEW p \in Phases, NEW n \in Nat,
         HostType(G), Deliver(n, p, g)
  PROVE  guest' \in G /\ phase' \in Phases /\ input' \in [id : Nat, size : Nat]
BY HostAssumption DEF HostType, Deliver, Phases

\* A call that only the host looks at.
LEMMA InformType ==
  ASSUME NEW G, NEW g \in G, HostType(G), Inform(g)
  PROVE  HostType(G)'
BY DEF HostType, Inform, hostVars

\* habort() leaves the guest where it is.
LEMMA AbortType ==
  ASSUME NEW G, HostType(G), UserAbort
  PROVE  HostType(G)'
BY DEF HostType, UserAbort, Phases

\* A call out of order is remembered in stray, and returns.
LEMMA MisplacedType ==
  ASSUME NEW G, NEW g \in G, HostType(G), Misplaced(g)
  PROVE  HostType(G)'
BY DEF HostType, Misplaced

\* Both ways on from a verdict: the caller goes on as g, or as the snapshot.
LEMMA JudgeType ==
  ASSUME NEW G, NEW g \in G, NEW v \in Verdicts, NEW why \in Reasons,
         NEW by \in Callers, HostType(G), Judge(v, why, by, g)
  PROVE  HostType(G)'
<1> DEFINE e == [id |-> input.id, verdict |-> v, why |-> why, by |-> by]
<1>1. e \in Entries
  BY DEF HostType, Entries
<1>2. log' \in Seq(Entries)
  <2>1. log' = Append(log, e)
    BY DEF Judge
  <2> HIDE DEF e
  <2> QED BY <1>1, <2>1 DEF HostType
<1>3. UNCHANGED <<conf, mode, buffer, snap, stray>>
  BY DEF Judge
<1>4. guest' \in G /\ phase' \in Phases /\ input' \in [id : Nat, size : Nat]
  <2>1. CASE phase' = "idle" /\ guest' = g /\ UNCHANGED input
    BY <2>1 DEF HostType, Phases
  <2>2. CASE \E s \in snap : Deliver(Len(log) + 1, s.phase, s.guest)
    <3>1. PICK s \in snap : Deliver(Len(log) + 1, s.phase, s.guest)
      BY <2>2
    <3>2. s.phase \in Phases /\ s.guest \in G /\ Len(log) + 1 \in Nat
      BY DEF HostType
    <3> QED BY <3>1, <3>2, DeliverType
  <2> QED BY <2>1, <2>2 DEF Judge
<1> QED BY <1>2, <1>3, <1>4 DEF HostType

\* RELEASE in the handshake, in an execution and out of order.
LEMMA ReleaseType ==
  ASSUME NEW G, NEW g \in G, NEW why \in Reasons, NEW by \in Callers,
         HostType(G), Release(why, by, g)
  PROVE  HostType(G)'
BY InformType, MisplacedType, JudgeType DEF Release, Verdicts

\* PANIC and KASAN.
LEMMA ReportType ==
  ASSUME NEW G, NEW v \in Verdicts, NEW why \in Reasons, NEW by \in Callers,
         HostType(G), Report(v, why, by)
  PROVE  HostType(G)'
<1>1. guest \in G
  BY DEF HostType
<1> QED BY <1>1, AbortType, JudgeType DEF Report

\* The host's watchdog.
LEMMA TimeoutType ==
  ASSUME NEW G, NEW why \in Reasons, HostType(G), HostTimeout(why)
  PROVE  HostType(G)'
<1>1. guest \in G
  BY DEF HostType
<1> QED BY <1>1, JudgeType DEF HostTimeout, Verdicts, Callers

\* USER_FAST_ACQUIRE, which may take the snapshot.
LEMMA FetchType ==
  ASSUME NEW G, NEW g \in G, NEW p \in Phases, HostType(G), Fetch(p, g)
  PROVE  HostType(G)'
<1>1. CASE Misplaced(g)
  BY <1>1, MisplacedType
<1>2. CASE /\ snap' = IF snap = {} THEN {[guest |-> g, phase |-> p]} ELSE snap
           /\ Deliver(Len(log), p, g)
           /\ UNCHANGED <<conf, mode, buffer, log, stray>>
  <2>1. Len(log) \in Nat
    BY DEF HostType
  <2>2. guest' \in G /\ phase' \in Phases /\ input' \in [id : Nat, size : Nat]
    BY <1>2, <2>1, DeliverType
  <2>3. snap' \subseteq [guest : G, phase : Phases]
    BY <1>2 DEF HostType
  <2> QED BY <1>2, <2>2, <2>3 DEF HostType
<1> QED BY <1>1, <1>2 DEF Fetch

---------------------------------------------------------------------------
\* Type correctness.

\* A child that waitpid() can return has an outcome; without this the status
\* that Reap copies would have no type.
GoodGuest ==
  {g \in Guest : g.child \in {"exiting", "zombie", "stopped"} => g.out # "running"}

TypeInv == HostType(GoodGuest)

\* What the target is fed is a sequence of payload numbers.
LEMMA BlocksType ==
  ASSUME NEW p \in [id : Nat, size : Nat]
  PROVE  Blocks(p) \in Seq(Nat)
BY DEF Blocks

\* So is what is left in the payload file after it has been written.
LEMMA FedType ==
  ASSUME NEW old \in Seq(Nat), NEW p \in [id : Nat, size : Nat]
  PROVE  Overwrite(OpenPayloadFile(old), Blocks(p)) \in Seq(Nat)
<1>1. Blocks(p) \in Seq(Nat) /\ Len(Blocks(p)) = p.size
  BY DEF Blocks
<1>2. Overwrite(<<>>, Blocks(p)) = [i \in 1..p.size |-> Blocks(p)[i]]
  BY <1>1 DEF Overwrite
<1>3. [i \in 1..p.size |-> Blocks(p)[i]] \in Seq(Nat)
  BY DEF Blocks
<1> QED BY <1>2, <1>3 DEF OpenPayloadFile

\* The steps of the four kinds of process, and of the host.
LEMMA ParentType == TypeInv /\ Parent => TypeInv'
<1> SUFFICES ASSUME TypeInv, Parent PROVE HostType(GoodGuest)'
  BY DEF TypeInv
<1> USE DEF TypeInv
<1>g. guest \in GoodGuest
  BY DEF HostType
<1>o. guest.out \in Reasons
  BY <1>g DEF GoodGuest, Guest, Reasons
<1>1. CASE Setup
  <2>1. [guest EXCEPT !.parent = "agent_init"] \in GoodGuest
    BY <1>g DEF GoodGuest, Guest, ParentPCs
  <2> QED BY <1>1, <2>1, InformType, AbortType DEF Setup
<1>2. CASE AgentInit
  <2> DEFINE g == [guest EXCEPT !.parent = "alloc"]
  <2>1. g \in GoodGuest
    BY <1>g DEF GoodGuest, Guest, ParentPCs
  <2>2. CASE SetAgentConfig(allow_persistent, g)
    <3> HIDE DEF g
    <3> QED BY <2>1, <2>2 DEF SetAgentConfig, HostType, Modes
  <2> QED BY <1>2, <2>2, AbortType DEF AgentInit
<1>3. CASE AllocPayload
  <2> DEFINE g == [guest EXCEPT !.parent = "ranges"]
  <2>1. g \in GoodGuest
    BY <1>g DEF GoodGuest, Guest, ParentPCs
  <2>2. PICK b \in {"ok", "null"} : GetPayload(b, g)
    BY <1>3 DEF AllocPayload
  <2> HIDE DEF g
  <2> QED BY <2>1, <2>2 DEF GetPayload, HostType
<1>4. CASE DetectRanges
  <2>1. [guest EXCEPT !.parent = "fork"] \in GoodGuest
    BY <1>g DEF GoodGuest, Guest, ParentPCs
  <2> QED BY <1>4, <2>1, InformType, AbortType DEF DetectRanges
<1>5. CASE Fork
  <2>1. [guest EXCEPT !.parent = "wait", !.child = "forked", !.out = "running"] \in GoodGuest
    BY <1>g DEF GoodGuest, Guest, ParentPCs, ChildPCs
  <2>2. [guest EXCEPT !.parent = "dead"] \in GoodGuest
    BY <1>g DEF GoodGuest, Guest, ParentPCs
  <2> QED BY <1>5, <2>1, <2>2, InformType DEF Fork
<1>6. CASE Reap
  <2>1. guest.out \in Outcomes
    BY <1>6, <1>g DEF Reap, GoodGuest, Guest, WaitedFor
  <2>2. [guest EXCEPT !.parent = "report", !.status = guest.out,
           !.child = IF @ = "zombie" THEN "none" ELSE @] \in GoodGuest
    BY <1>g, <2>1 DEF GoodGuest, Guest, ParentPCs, ChildPCs
  <2> QED BY <1>6, <2>2, InformType DEF Reap
<1>7. CASE ReportStatus
  <2>1. [guest EXCEPT !.parent = "release"] \in GoodGuest
    BY <1>g DEF GoodGuest, Guest, ParentPCs
  <2>2. "crash" \in Verdicts /\ "kasan" \in Verdicts /\ "parent" \in Callers
    BY DEF Verdicts, Callers
  <2> QED BY <1>7, <1>o, <2>1, <2>2, InformType, ReportType DEF ReportStatus
<1>8. CASE ParentRelease
  <2>1. [guest EXCEPT !.parent = "fork"] \in GoodGuest
    BY <1>g DEF GoodGuest, Guest, ParentPCs
  <2> QED BY <1>8, <1>o, <2>1, ReleaseType DEF ParentRelease, Callers
<1>9. CASE LoaderAbort
  BY <1>9, AbortType DEF LoaderAbort
<1> QED BY <1>1, <1>2, <1>3, <1>4, <1>5, <1>6, <1>7, <1>8, <1>9 DEF Parent

\* The child until its target starts, and its exit handler.
LEMMA ChildType == TypeInv /\ Child => TypeInv'
<1> SUFFICES ASSUME TypeInv, Child PROVE HostType(GoodGuest)'
  BY DEF TypeInv
<1> USE DEF TypeInv
<1>g. guest \in GoodGuest /\ guest.fed \in Seq(Nat) /\ input \in [id : Nat, size : Nat]
  BY DEF HostType, GoodGuest, Guest
<1>o. guest.out \in Reasons
  BY <1>g DEF GoodGuest, Guest, Reasons
<1>1. CASE ChildAcquire
  <2>1. [guest EXCEPT !.child = "feed"] \in GoodGuest
    BY <1>g DEF GoodGuest, Guest, ChildPCs
  <2> QED BY <1>1, <2>1, FetchType DEF ChildAcquire, FastAcquire, Phases
<1>2. CASE ChildFeed
  <2> DEFINE f == Overwrite(OpenPayloadFile(guest.fed), Blocks(input))
  <2>1. f \in Seq(Nat) /\ Iov(input) \in Seq(Nat)
    BY <1>g, FedType, BlocksType DEF Iov
  <2>6. \A n \in 0..PipeCapacity : n < input.size => SubSeq(Iov(input), 1, n) \in Seq(Nat)
    <3> SUFFICES ASSUME NEW n \in Nat, n < input.size PROVE SubSeq(Iov(input), 1, n) \in Seq(Nat)
      BY ForkServerAssumption
    <3>1. Len(Iov(input)) = input.size
      BY <1>g, <2>1 DEF Iov, Blocks
    <3> QED BY <1>g, <2>1, <3>1
  <2> HIDE DEF f
  <2>2. [guest EXCEPT !.child = "zombie", !.out = "harness"] \in GoodGuest
    BY <1>g DEF GoodGuest, Guest, ChildPCs, Outcomes
  <2>3. [guest EXCEPT !.child = "main", !.fed = f] \in GoodGuest
    BY <1>g, <2>1 DEF GoodGuest, Guest, ChildPCs
  <2>4. \A e \in Seq(Nat) : [guest EXCEPT !.child = "main", !.fed = e] \in GoodGuest
    BY <1>g DEF GoodGuest, Guest, ChildPCs
  <2>5. [guest EXCEPT !.child = "blocked"] \in GoodGuest
    BY <1>g DEF GoodGuest, Guest, ChildPCs
  <2> QED BY <1>2, <2>1, <2>2, <2>3, <2>4, <2>5, <2>6, InformType, AbortType DEF ChildFeed, f
<1>3. CASE SnapshotReload
  <2> DEFINE g == [guest EXCEPT !.child = "zombie"]
  <2>1. g \in GoodGuest
    BY <1>3, <1>g DEF SnapshotReload, GoodGuest, Guest, ChildPCs
  <2> HIDE DEF g
  <2>2. CASE Inform(g)
    BY <2>1, <2>2, InformType
  <2>3. CASE Release(guest.out, "child", g)
    BY <2>1, <2>3, <1>o, ReleaseType DEF Callers
  <2> QED BY <1>3, <2>2, <2>3 DEF SnapshotReload, g
<1> QED BY <1>1, <1>2, <1>3 DEF Child

\* What a target can do.
LEMMA TargetType == TypeInv /\ Target => TypeInv'
<1> SUFFICES ASSUME TypeInv, Target PROVE HostType(GoodGuest)'
  BY DEF TypeInv
<1> USE DEF TypeInv
<1>g. guest \in GoodGuest
  BY DEF HostType
<1>1. CASE TargetExit
  <2>1. PICK o \in {"exit", "exit101"} : Inform([guest EXCEPT !.child = "exiting", !.out = o])
    BY <1>1 DEF TargetExit
  <2>2. [guest EXCEPT !.child = "exiting", !.out = o] \in GoodGuest
    BY <1>g DEF GoodGuest, Guest, ChildPCs, Outcomes
  <2> QED BY <2>1, <2>2, InformType
<1>2. CASE TargetDies
  <2>1. PICK o \in {"quit", "quit101", "crash", "vtalrm"} :
          Inform([guest EXCEPT !.child = "zombie", !.out = o])
    BY <1>2 DEF TargetDies
  <2>2. [guest EXCEPT !.child = "zombie", !.out = o] \in GoodGuest
    BY <1>g DEF GoodGuest, Guest, ChildPCs, Outcomes
  <2> QED BY <2>1, <2>2, InformType
<1>3. CASE TargetStops
  <2>1. [guest EXCEPT !.child = "stopped", !.out = "stop"] \in GoodGuest
    BY <1>g DEF GoodGuest, Guest, ChildPCs, Outcomes
  <2> QED BY <1>3, <2>1, InformType DEF TargetStops
<1>4. CASE TargetForks
  <2>1. [guest EXCEPT !.helper = "running"] \in GoodGuest
    BY <1>g DEF GoodGuest, Guest
  <2> QED BY <1>4, <2>1, InformType DEF TargetForks
<1> QED BY <1>1, <1>2, <1>3, <1>4 DEF Target

\* What a process of the target can do.
LEMMA HelperType == TypeInv /\ Helper => TypeInv'
<1> SUFFICES ASSUME TypeInv, Helper PROVE HostType(GoodGuest)'
  BY DEF TypeInv
<1> USE DEF TypeInv
<1>g. guest \in GoodGuest
  BY DEF HostType
<1>o. guest.out \in Reasons
  BY <1>g DEF GoodGuest, Guest, Reasons
<1> DEFINE g == [guest EXCEPT !.helper = "none"]
           h == [guest EXCEPT !.helper = "nested"]
<1>n. g \in GoodGuest /\ h \in GoodGuest
  BY <1>g DEF GoodGuest, Guest
<1> HIDE DEF g, h
<1>1. CASE HelperExit
  <2>1. CASE Inform(g)
    BY <2>1, <1>n, InformType
  <2>2. CASE Release(guest.out, "helper", g)
    BY <2>2, <1>n, <1>o, ReleaseType DEF Callers
  <2> QED BY <1>1, <2>1, <2>2 DEF HelperExit, g
<1>2. CASE HelperDies
  BY <1>2, <1>n, InformType DEF HelperDies, g
<1>3. CASE HelperExec
  BY <1>3, <1>n, <1>o, ReleaseType DEF HelperExec, Callers, h
<1>4. CASE NestedRanges
  BY <1>4, AbortType DEF NestedRanges
<1> QED BY <1>1, <1>2, <1>3, <1>4 DEF Helper

\* The state in which the VM starts.
LEMMA InitType == Init => TypeInv
<1> SUFFICES ASSUME Init PROVE TypeInv
  OBVIOUS
<1>1. guest \in GoodGuest
  BY DEF Init, GoodGuest, Guest, ParentPCs, ChildPCs, Outcomes
<1>2. log \in Seq(Entries)
  BY DEF Init, HostInit, HostStarts
<1>3. input \in [id : Nat, size : Nat] /\ snap \subseteq [guest : GoodGuest, phase : Phases]
  BY DEF Init, HostInit, HostStarts
<1>4. conf \in HostConfigs /\ buffer \in {"none", "null", "ok"}
  BY DEF Init, HostInit, HostStarts
<1>5. phase \in Phases /\ mode \in Modes /\ stray \in BOOLEAN
  BY DEF Init, HostInit, HostStarts, Phases, Modes
<1> QED BY <1>1, <1>2, <1>3, <1>4, <1>5 DEF TypeInv, HostType

\* Every step, the host among those who make it.
LEMMA NextType == TypeInv /\ [Next]_vars => TypeInv'
<1> SUFFICES ASSUME TypeInv, [Next]_vars PROVE TypeInv'
  OBVIOUS
<1>1. CASE Timeout
  <2>1. guest.out \in Reasons
    BY DEF TypeInv, HostType, GoodGuest, Guest, Reasons
  <2> QED BY <1>1, <2>1, TimeoutType DEF TypeInv, Timeout
<1>2. CASE UNCHANGED vars
  BY <1>2 DEF TypeInv, HostType, vars
<1> QED BY <1>1, <1>2, ParentType, ChildType, TargetType, HelperType DEF Next, Terminated

\* TypeInv is at least as strong as TypeOK.
LEMMA TypeInvImplies == TypeInv => TypeOK
BY DEF TypeInv, HostType, TypeOK, GoodGuest, Entries, Reasons, Callers

\* No step of the forkserver, its child, the target, a helper or the host
\* leaves the types: among others, every restored snapshot is a guest state and
\* what the target reads is a sequence of payload blocks.
THEOREM TypeCorrect == Spec => []TypeOK
<1>1. Spec => []TypeInv
  BY InitType, NextType, PTL DEF Spec
<1> QED BY <1>1, TypeInvImplies, PTL

---------------------------------------------------------------------------
\* The verdicts.  VerdictFits is not inductive: that a verdict fits depends on
\* who is where when it is given.  Placed says which processes can be where in
\* which phase, Known what is then known of the outcome; both hold of the guest
\* and of the snapshot it will be replaced by.

Placed(g, p) ==
  \/ /\ g.parent \in {"setup", "agent_init", "alloc", "ranges"}
     /\ g.child = "none" /\ p = "boot"
  \/ g.parent \in {"fork", "dead"} /\ g.child \in {"none", "stopped"} /\ p \in {"boot", "idle"}
  \/ g.parent = "wait" /\ g.child = "forked" /\ p \in {"boot", "idle"}
  \/ /\ g.parent = "wait" /\ p = "exec"
     /\ g.child \in {"feed", "blocked", "main", "exiting", "zombie", "stopped"}
  \/ g.parent \in {"report", "release"} /\ g.child \in {"none", "stopped"} /\ p = "exec"

Known(g) ==
  /\ g.helper = "none"
  /\ g.child = "exiting" => g.out \in {"exit", "exit101"}
  /\ g.out = "exit101" /\ g.child # "exiting" => allow_persistent
  /\ g.child = "zombie" \/ g.parent = "report" => g.out # "running"
  /\ g.out = "harness" => buffer = "null"
  /\ g.parent = "report" => g.status = g.out
  /\ g.parent = "release" => g.out \in {"exit", "quit", "vtalrm", "stop"}

Sound(g, p) == Placed(g, p) /\ Known(g)

\* The buffer is registered once, before there is anything to restore.
Registered == guest.parent \in {"setup", "agent_init", "alloc"} => buffer = "none"

\* Who may give which verdict.
Judged(v, why, by) ==
  /\ by \in {"parent", "child", "host"}
  /\ \/ <<v, why>> \in Fitting
     \/ buffer = "null" /\ <<v, why>> = <<"crash", "harness">>

IInv ==
  /\ TypeInv
  /\ PoweredOn => Sound(guest, phase) /\ Registered
  /\ \A s \in snap : Sound(s.guest, s.phase) /\ s.phase = "exec"
  /\ mode = "persistent" => allow_persistent
  /\ buffer = "null" => "alloc" \in Faults
  /\ ~ stray
  /\ \A i \in 1..Len(log) : Judged(log[i].verdict, log[i].why, log[i].by)

\* When the snapshot is restored its guest is sound where it resumes.
LEMMA DeliverSound ==
  ASSUME IInv, NEW s \in snap, NEW n \in Nat, Deliver(n, s.phase, s.guest)
  PROVE  phase' = "done" \/ (phase' = "exec" /\ guest' = s.guest)
BY DEF IInv, Deliver

\* The core of the argument: a verdict that fits keeps the invariant, because
\* what runs next is the snapshot, or the caller in a state that is sound for
\* the phase between two executions.
LEMMA JudgeSound ==
  ASSUME IInv, TypeInv', NEW g, NEW v \in Verdicts, NEW why \in Reasons, NEW by \in Callers,
         phase = "exec", Judge(v, why, by, g), Judged(v, why, by),
         mode = "persistent" /\ v = "ok" => Sound(g, "idle")
  PROVE  IInv'
<1> DEFINE e == [id |-> input.id, verdict |-> v, why |-> why, by |-> by]
<1>1. UNCHANGED <<conf, mode, buffer, snap, stray>> /\ log' = Append(log, e)
  BY DEF Judge
<1>2. (\A i \in 1..Len(log) : Judged(log[i].verdict, log[i].why, log[i].by))'
  <2>1. log \in Seq(Entries)
    BY DEF IInv, TypeInv, HostType
  <2>2. e.verdict = v /\ e.why = why /\ e.by = by
    OBVIOUS
  <2> HIDE DEF e
  <2>3. Len(log') = Len(log) + 1 /\ Len(log) \in Nat
    BY <1>1, <2>1
  <2>4. SUFFICES ASSUME NEW i \in 1..Len(log')
                 PROVE  Judged(log'[i].verdict, log'[i].why, log'[i].by)
    BY <1>1 DEF Judged, Fitting
  <2>5. CASE i = Len(log) + 1
    BY <1>1, <2>1, <2>2, <2>5
  <2>6. CASE i \in 1..Len(log)
    <3>1. log'[i] = log[i]
      BY <1>1, <2>1, <2>6
    <3> QED BY <2>6, <3>1 DEF IInv
  <2> QED BY <2>3, <2>5, <2>6
<1>3. (PoweredOn => Sound(guest, phase) /\ Registered)'
  <2>1. CASE mode = "persistent" /\ v = "ok"
    <3>1. Sound(g, "idle") /\ guest' = g /\ phase' = "idle"
      BY <2>1 DEF Judge
    <3> QED BY <1>1, <3>1 DEF Sound, Placed, Known, Registered
  <2>2. CASE ~ (mode = "persistent" /\ v = "ok")
    <3>1. PICK s \in snap : Deliver(Len(log) + 1, s.phase, s.guest)
      BY <2>2 DEF Judge
    <3>2. Len(log) + 1 \in Nat
      BY DEF IInv, TypeInv, HostType
    <3>3. Sound(s.guest, "exec")
      BY DEF IInv
    <3>4. phase' = "done" \/ (phase' = "exec" /\ guest' = s.guest)
      BY <3>1, <3>2, DeliverSound
    <3> QED BY <1>1, <3>3, <3>4 DEF PoweredOn, Sound, Placed, Known, Registered
  <2> QED BY <2>1, <2>2
<1>4. (\A s \in snap : Sound(s.guest, s.phase) /\ s.phase = "exec")'
  BY <1>1 DEF IInv, Sound, Placed, Known
<1> QED BY <1>1, <1>2, <1>3, <1>4 DEF IInv

\* A call that does not touch the host keeps the invariant if the guest goes on
\* in a state that is sound in this phase.
LEMMA InformSound ==
  ASSUME IInv, TypeInv', NEW g, Inform(g), Sound(g, phase),
         g.parent \in {"setup", "agent_init", "alloc"} => buffer = "none"
  PROVE  IInv'
BY DEF IInv, Inform, hostVars, PoweredOn, Registered, Sound, Placed, Known, Judged, Fitting

\* After habort() there is nothing left to show but the verdicts given before.
LEMMA AbortSound ==
  ASSUME IInv, TypeInv', UserAbort
  PROVE  IInv'
BY DEF IInv, UserAbort, PoweredOn, Sound, Placed, Known, Judged, Fitting

\* The forkserver keeps the invariant.
LEMMA ParentSound ==
  ASSUME IInv, TypeInv', Parent
  PROVE  IInv'
<1>p. PoweredOn /\ Sound(guest, phase) /\ Registered
  BY DEF IInv, Parent, Setup, AgentInit, AllocPayload, DetectRanges, Fork, Reap,
         ReportStatus, ParentRelease, LoaderAbort
<1>g. guest \in Guest /\ guest.out \in Reasons
  BY DEF IInv, TypeInv, HostType, GoodGuest, Guest, Reasons
<1>1. CASE Setup
  <2>1. Sound([guest EXCEPT !.parent = "agent_init"], phase)
    BY <1>1, <1>p, <1>g DEF Setup, Sound, Placed, Known, Guest
  <2> QED BY <1>1, <1>p, <1>g, <2>1, InformSound, AbortSound DEF Setup, Registered, Guest
<1>2. CASE AgentInit
  <2>1. CASE UserAbort
    BY <2>1, AbortSound
  <2>2. CASE SetAgentConfig(allow_persistent, [guest EXCEPT !.parent = "alloc"])
    <3>1. Sound(guest', phase)
      BY <1>2, <1>p, <1>g, <2>2 DEF AgentInit, SetAgentConfig, Sound, Placed, Known, Guest
    <3>2. mode' = "persistent" => allow_persistent
      BY <2>2 DEF SetAgentConfig
    <3>3. buffer = "none"
      BY <1>2, <1>p DEF AgentInit, Registered
    <3>4. UNCHANGED <<conf, phase, buffer, snap, input, log, stray>>
      BY <2>2 DEF SetAgentConfig
    <3> QED BY <3>1, <3>2, <3>3, <3>4
      DEF IInv, Registered, PoweredOn, Sound, Placed, Known, Judged, Fitting
  <2> QED BY <1>2, <2>1, <2>2 DEF AgentInit
<1>3. CASE AllocPayload
  <2>1. PICK b \in {"ok", "null"} : /\ GetPayload(b, [guest EXCEPT !.parent = "ranges"])
                                    /\ b = "null" => "alloc" \in Faults
    BY <1>3 DEF AllocPayload
  <2>2. buffer = "none"
    BY <1>3, <1>p DEF AllocPayload, Registered
  <2>3. Sound(guest', phase) /\ guest'.parent = "ranges"
    BY <1>3, <1>p, <1>g, <2>1, <2>2 DEF AllocPayload, GetPayload, Sound, Placed, Known, Guest
  <2>4. buffer' = b /\ UNCHANGED <<conf, phase, mode, snap, input, log, stray>>
    BY <2>1 DEF GetPayload
  <2>5. (\A i \in 1..Len(log) : Judged(log[i].verdict, log[i].why, log[i].by))'
    BY <2>2, <2>4 DEF IInv, Judged, Fitting
  <2>6. (PoweredOn => Sound(guest, phase) /\ Registered)'
    BY <2>2, <2>3, <2>4 DEF Sound, Placed, Known, Registered
  <2>7. (\A s \in snap : Sound(s.guest, s.phase) /\ s.phase = "exec")'
    BY <2>2, <2>4 DEF IInv, Sound, Placed, Known
  <2> QED BY <2>1, <2>4, <2>5, <2>6, <2>7 DEF IInv
<1>4. CASE DetectRanges
  <2>1. Sound([guest EXCEPT !.parent = "fork"], phase)
    BY <1>4, <1>p, <1>g DEF DetectRanges, Sound, Placed, Known, Guest
  <2> QED BY <1>4, <1>p, <1>g, <2>1, InformSound, AbortSound DEF DetectRanges, Guest
<1>5. CASE Fork
  <2>1. Sound([guest EXCEPT !.parent = "wait", !.child = "forked", !.out = "running"], phase)
    BY <1>5, <1>p, <1>g DEF Fork, Sound, Placed, Known, Guest
  <2>2. Sound([guest EXCEPT !.parent = "dead"], phase)
    BY <1>5, <1>p, <1>g DEF Fork, Sound, Placed, Known, Guest
  <2> QED BY <1>5, <1>p, <1>g, <2>1, <2>2, InformSound DEF Fork, Guest
<1>6. CASE Reap
  <2> DEFINE g == [guest EXCEPT !.parent = "report", !.status = guest.out,
                     !.child = IF @ = "zombie" THEN "none" ELSE @]
  <2>1. guest.out # "running" /\ guest.helper = "none"
    BY <1>6, <1>p, <1>g DEF Reap, WaitedFor, Sound, Placed, Known, IInv, TypeInv, HostType, GoodGuest, Reasons
  <2>2. guest.parent = "wait" /\ guest.child \in {"zombie", "stopped"} /\ Inform(g)
    BY <1>6 DEF Reap, WaitedFor
  <2>3. /\ g.parent = "report" /\ g.status = guest.out /\ g.out = guest.out
        /\ g.helper = guest.helper /\ g.child \in {"none", "stopped"}
    BY <1>g, <2>2 DEF Guest
  <2> HIDE DEF g
  <2>4. Sound(g, phase)
    BY <1>p, <2>1, <2>2, <2>3 DEF Sound, Placed, Known
  <2> QED BY <2>2, <2>3, <2>4, InformSound
<1>7. CASE ReportStatus
  <2>1. guest.parent = "report" /\ phase = "exec" /\ guest.status = guest.out
        /\ guest.out # "running" /\ guest.child # "exiting"
    BY <1>7, <1>p DEF ReportStatus, Sound, Placed, Known
  <2>2. CASE guest.out \in {"crash", "harness"} /\ Report("crash", guest.out, "parent")
    <3>1. guest.out = "harness" => buffer = "null"
      BY <1>p DEF Sound, Known
    <3>2. Judged("crash", guest.out, "parent") /\ "crash" \in Verdicts /\ "parent" \in Callers
      BY <2>2, <3>1 DEF Judged, Fitting, Verdicts, Callers
    <3>3. Judge("crash", guest.out, "parent", guest)
      BY <2>1, <2>2 DEF Report
    <3> QED BY <1>g, <2>1, <3>2, <3>3, JudgeSound
  <2>3. CASE guest.out \in {"exit101", "quit101"} /\ Report("kasan", guest.out, "parent")
    <3>1. guest.out = "exit101" => allow_persistent
      BY <1>p, <2>1 DEF Sound, Known
    <3>2. Judged("kasan", guest.out, "parent") /\ "kasan" \in Verdicts /\ "parent" \in Callers
      BY <2>3, <3>1 DEF Judged, Fitting, Verdicts, Callers
    <3>3. Judge("kasan", guest.out, "parent", guest)
      BY <2>1, <2>3 DEF Report
    <3> QED BY <1>g, <2>1, <3>2, <3>3, JudgeSound
  <2>4. CASE /\ guest.out \notin {"crash", "harness", "exit101", "quit101"}
             /\ Inform([guest EXCEPT !.parent = "release"])
    <3>1. guest.out \in {"exit", "quit", "vtalrm", "stop"}
      BY <1>g, <2>1, <2>4 DEF Outcomes, Reasons
    <3>2. Sound([guest EXCEPT !.parent = "release"], phase)
      BY <1>p, <1>g, <2>1, <3>1 DEF Sound, Placed, Known, Guest
    <3> QED BY <1>g, <2>4, <3>2, InformSound DEF Guest
  <2> QED BY <1>7, <2>1, <2>2, <2>3, <2>4 DEF ReportStatus, PanicStatuses, KasanStatuses
<1>8. CASE ParentRelease
  <2> DEFINE g == [guest EXCEPT !.parent = "fork"]
  <2>1. guest.parent = "release" /\ phase = "exec" /\ guest.out \in {"exit", "quit", "vtalrm", "stop"}
    BY <1>8, <1>p DEF ParentRelease, Sound, Placed, Known
  <2>2. Judge("ok", guest.out, "parent", g)
    BY <1>8, <2>1 DEF ParentRelease, Release
  <2>3. Sound(g, "idle")
    BY <1>p, <1>g, <2>1 DEF Sound, Placed, Known, Guest
  <2>4. Judged("ok", guest.out, "parent") /\ "ok" \in Verdicts /\ "parent" \in Callers
    BY <2>1 DEF Judged, Fitting, Verdicts, Callers
  <2> HIDE DEF g
  <2> QED BY <1>g, <2>1, <2>2, <2>3, <2>4, JudgeSound
<1>9. CASE LoaderAbort
  BY <1>9, AbortSound DEF LoaderAbort
<1> QED BY <1>1, <1>2, <1>3, <1>4, <1>5, <1>6, <1>7, <1>8, <1>9 DEF Parent

\* The child keeps it: an execution begins in a child that has just been forked.
LEMMA ChildSound ==
  ASSUME IInv, TypeInv', Child
  PROVE  IInv'
<1>p. PoweredOn /\ Sound(guest, phase)
  BY DEF IInv, Child, ChildAcquire, ChildFeed, SnapshotReload
<1>g. guest \in Guest /\ guest.out \in Reasons
  BY DEF IInv, TypeInv, HostType, GoodGuest, Guest, Reasons
<1>w. guest.parent = "wait"
  BY <1>p DEF Child, ChildAcquire, ChildFeed, SnapshotReload, Sound, Placed
<1>1. CASE ChildAcquire
  <2> DEFINE g == [guest EXCEPT !.child = "feed"]
  <2>1. phase \in {"boot", "idle"}
    BY <1>1, <1>p, <1>w DEF ChildAcquire, Sound, Placed
  <2>2. /\ snap' = IF snap = {} THEN {[guest |-> g, phase |-> "exec"]} ELSE snap
        /\ Deliver(Len(log), "exec", g)
        /\ UNCHANGED <<conf, mode, buffer, log, stray>>
    BY <1>1, <2>1 DEF ChildAcquire, FastAcquire, Fetch
  <2>3. Sound(g, "exec") /\ g.parent = "wait"
    BY <1>1, <1>p, <1>g, <1>w DEF ChildAcquire, Sound, Placed, Known, Guest
  <2> HIDE DEF g
  <2>4. guest' = g /\ phase' \in {"exec", "done"}
    BY <2>2 DEF Deliver
  <2>5. (PoweredOn => Sound(guest, phase) /\ Registered)'
    BY <2>2, <2>3, <2>4 DEF PoweredOn, Sound, Placed, Known, Registered
  <2>6. (\A s \in snap : Sound(s.guest, s.phase) /\ s.phase = "exec")'
    BY <2>2, <2>3 DEF IInv, Sound, Placed, Known
  <2> QED BY <2>2, <2>5, <2>6 DEF IInv, Judged, Fitting
<1>2. CASE ChildFeed
  <2>1. \/ UserAbort
        \/ \E f : Inform([guest EXCEPT !.child = "main", !.fed = f])
        \/ Inform([guest EXCEPT !.child = "blocked"])
        \/ buffer = "null" /\ Inform([guest EXCEPT !.child = "zombie", !.out = "harness"])
    BY <1>2 DEF ChildFeed
  <2>2. /\ \A f : Sound([guest EXCEPT !.child = "main", !.fed = f], phase)
        /\ Sound([guest EXCEPT !.child = "blocked"], phase)
        /\ buffer = "null" => Sound([guest EXCEPT !.child = "zombie", !.out = "harness"], phase)
    BY <1>2, <1>p, <1>g, <1>w DEF ChildFeed, Sound, Placed, Known, Guest
  <2>3. /\ \A f : [guest EXCEPT !.child = "main", !.fed = f].parent = "wait"
        /\ [guest EXCEPT !.child = "blocked"].parent = "wait"
        /\ [guest EXCEPT !.child = "zombie", !.out = "harness"].parent = "wait"
    BY <1>g, <1>w DEF Guest
  <2> QED BY <2>1, <2>2, <2>3, AbortSound, InformSound
<1>3. CASE SnapshotReload
  <2> DEFINE g == [guest EXCEPT !.child = "zombie"]
  <2>1. phase = "exec" /\ guest.child = "exiting" /\ guest.out \in {"exit", "exit101"}
    BY <1>3, <1>p, <1>w DEF SnapshotReload, Sound, Placed, Known
  <2>2. CASE allow_persistent /\ Inform(g)
    <3>1. Sound(g, phase)
      BY <1>p, <1>g, <1>w, <2>1, <2>2 DEF Sound, Placed, Known, Guest, Outcomes
    <3>2. g.parent = "wait"
      BY <1>g, <1>w DEF Guest
    <3> HIDE DEF g
    <3> QED BY <2>2, <3>1, <3>2, InformSound
  <2>3. CASE ~ allow_persistent /\ Judge("ok", guest.out, "child", g)
    <3>1. mode # "persistent"
      BY <2>3 DEF IInv
    <3>2. Judged("ok", guest.out, "child") /\ "ok" \in Verdicts /\ "child" \in Callers
      BY <2>1 DEF Judged, Fitting, Verdicts, Callers
    <3> HIDE DEF g
    <3> QED BY <1>g, <2>1, <2>3, <3>1, <3>2, JudgeSound
  <2> QED BY <1>3, <2>1, <2>2, <2>3, ForkServerAssumption DEF SnapshotReload, ReloadAtExit, Release
<1> QED BY <1>1, <1>2, <1>3 DEF Child

\* The target keeps it: it decides an outcome once, and ends with it.
LEMMA TargetSound ==
  ASSUME ~ Helpers, IInv, TypeInv', Target
  PROVE  IInv'
<1>p. PoweredOn /\ Sound(guest, phase) /\ guest.child = "main"
  BY DEF IInv, Target, TargetExit, TargetDies, TargetStops, TargetForks, InTarget
<1>g. guest \in Guest
  BY DEF IInv, TypeInv, HostType, GoodGuest
<1>w. guest.parent = "wait" /\ guest.helper = "none" /\ phase = "exec"
  BY <1>p DEF Sound, Placed, Known
<1>1. ~ TargetForks
  BY DEF TargetForks
<1>2. PICK c, o : /\ Inform([guest EXCEPT !.child = c, !.out = o])
                  /\ \/ c = "exiting" /\ o \in {"exit", "exit101"}
                     \/ c = "zombie" /\ o \in {"quit", "quit101", "crash", "vtalrm"}
                     \/ c = "stopped" /\ o = "stop"
  BY <1>1 DEF Target, TargetExit, TargetDies, TargetStops
<1>3. Sound([guest EXCEPT !.child = c, !.out = o], phase)
  BY <1>g, <1>w, <1>2 DEF Sound, Placed, Known, Guest, Outcomes
<1>4. [guest EXCEPT !.child = c, !.out = o].parent = "wait"
  BY <1>g, <1>w DEF Guest
<1> QED BY <1>2, <1>3, <1>4, InformSound

\* The host's watchdog keeps it: a timeout fits every outcome.
LEMMA TimeoutSound ==
  ASSUME IInv, TypeInv', Timeout
  PROVE  IInv'
<1>1. phase = "exec" /\ Judge("timeout", guest.out, "host", guest)
  BY DEF Timeout, HostTimeout
<1>2. guest.out \in Reasons
  BY DEF IInv, TypeInv, HostType, GoodGuest, Guest, Reasons
<1>3. Judged("timeout", guest.out, "host") /\ "timeout" \in Verdicts /\ "host" \in Callers
  BY <1>2 DEF Judged, Fitting, Verdicts, Callers, Reasons
<1> QED BY <1>1, <1>2, <1>3, JudgeSound

\* The invariant holds when the VM starts.
LEMMA InitSound == Init => IInv
<1> SUFFICES ASSUME Init PROVE IInv
  OBVIOUS
<1>1. TypeInv
  BY InitType
<1>2. Sound(guest, phase) /\ Registered
  BY DEF Init, HostInit, HostStarts, Sound, Placed, Known, Registered
<1>3. /\ Len(log) = 0 /\ snap = {} /\ mode = "reload" /\ phase = "boot" /\ stray = FALSE
      /\ buffer = "none"
  BY DEF Init, HostInit, HostStarts
<1> QED BY <1>1, <1>2, <1>3 DEF IInv

\* Every step keeps the invariant if the target forks no process of its own.
LEMMA NextSound == ~ Helpers /\ IInv /\ [Next]_vars => IInv'
<1> SUFFICES ASSUME ~ Helpers, IInv, [Next]_vars PROVE IInv'
  OBVIOUS
<1>1. TypeInv'
  BY NextType DEF IInv
<1>2. CASE UNCHANGED vars
  BY <1>1, <1>2 DEF IInv, vars, PoweredOn, Registered, Sound, Placed, Known, Judged, Fitting
<1>3. ~ Helper
  <2>1. PoweredOn => guest.helper = "none"
    BY DEF IInv, Sound, Known
  <2> QED BY <2>1 DEF Helper, HelperExit, HelperDies, HelperExec, NestedRanges
<1> QED BY <1>1, <1>2, <1>3, ParentSound, ChildSound, TargetSound, TimeoutSound
  DEF Next, Terminated

\* IInv is inductive for a target that keeps to one process.
LEMMA AloneSound ==
  ASSUME ~ Helpers
  PROVE  Spec => []IInv
<1>1. Init => IInv
  BY InitSound
<1>2. IInv /\ [Next]_vars => IInv'
  BY NextSound
<1> QED BY <1>1, <1>2, PTL DEF Spec

\* If the target keeps to one process and the payload buffer is allocated, every
\* verdict the host records fits what the target did, for any number and sizes
\* of payloads, any host configuration, both modes, with stopped children, and
\* wherever the host's timeout falls.
THEOREM VerdictsFit ==
  ASSUME ~ Helpers, "alloc" \notin Faults
  PROVE  Spec => []VerdictFits
<1>1. IInv => VerdictFits
  BY DEF IInv, Judged, VerdictFits
<1> QED BY <1>1, AloneSound, PTL

\* No process of the forkserver releases an execution that is over, or begins
\* one that has begun: exit handler and parent never both call RELEASE, with a
\* payload buffer or without one.
THEOREM HypercallsInOrder ==
  ASSUME ~ Helpers
  PROVE  Spec => []NoStrayHypercall
<1>1. IInv => NoStrayHypercall
  BY DEF IInv, NoStrayHypercall
<1> QED BY <1>1, AloneSound, PTL

\* As long as the target forks no process of its own the comment on agent_init()
\* is right: the handshake ends no execution.
THEOREM HandshakeIsHarmless ==
  ASSUME ~ Helpers
  PROVE  Spec => []HandshakeEndsNoExecution
<1>1. IInv => HandshakeEndsNoExecution
  BY DEF IInv, Judged, HandshakeEndsNoExecution
<1> QED BY <1>1, AloneSound, PTL

---------------------------------------------------------------------------
\* Progress.  Liveness needs fairness and is left to TLC, but its two halves of
\* first-order logic hold for all constants: between two verdicts there is only
\* a bounded number of steps, and where a process may wait for ever the host's
\* watchdog is running.

\* How far a process of the forkserver still has to go until the next verdict.
PRank(p) == CASE p = "setup"  -> 8 [] p = "agent_init" -> 7 [] p = "alloc"   -> 6
              [] p = "ranges" -> 5 [] p = "fork"       -> 4 [] p = "wait"    -> 3
              [] p = "report" -> 2 [] p = "release"    -> 1 [] OTHER         -> 0
CRank(c) == CASE c = "forked" -> 5 [] c = "feed"       -> 4 [] c = "main"    -> 3
              [] c = "exiting" -> 1 [] OTHER           -> 0
Rank(g) == 6 * PRank(g.parent) + CRank(g.child)

\* Every step gives a verdict, powers the VM off, or brings the processes closer
\* to the one or the other: without helpers the forkserver has no loop in which
\* it could turn without a verdict, not even when fork() or the buffer fails.
BoundedExecution ==
  [][Len(log') > Len(log) \/ ~ PoweredOn' \/ Rank(guest') < Rank(guest)]_vars

\* The rank counts steps, and never more than these.
LEMMA RankBounded == \A g : Rank(g) \in 0..53
<1> TAKE g
<1>1. PRank(g.parent) \in 0..8 /\ CRank(g.child) \in 0..5
  BY DEF PRank, CRank
<1> QED BY <1>1 DEF Rank

\* A parent that moves on is closer, whatever the child does.
LEMMA ParentCloser ==
  ASSUME NEW g, NEW h, PRank(h.parent) < PRank(g.parent)
  PROVE  Rank(h) < Rank(g)
<1>1. \A p : PRank(p) \in 0..8
  BY DEF PRank
<1>2. \A c : CRank(c) \in 0..5
  BY DEF CRank
<1>3. PRank(h.parent) \in Nat /\ PRank(g.parent) \in Nat
  BY <1>1
<1>4. CRank(h.child) \in 0..5 /\ CRank(g.child) \in 0..5
  BY <1>2
<1> QED BY <1>3, <1>4 DEF Rank

\* A child that moves on is closer while the parent waits.
LEMMA ChildCloser ==
  ASSUME NEW g, NEW h, h.parent = g.parent, CRank(h.child) < CRank(g.child)
  PROVE  Rank(h) < Rank(g)
<1>1. \A p : PRank(p) \in 0..8
  BY DEF PRank
<1>2. \A c : CRank(c) \in 0..5
  BY DEF CRank
<1>3. PRank(g.parent) \in Nat
  BY <1>1
<1>4. CRank(h.child) \in 0..5 /\ CRank(g.child) \in 0..5
  BY <1>2
<1> QED BY <1>3, <1>4 DEF Rank

\* A verdict is one more in the log.
LEMMA JudgeCloser ==
  ASSUME IInv, NEW v, NEW why, NEW by, NEW g, Judge(v, why, by, g)
  PROVE  Len(log') > Len(log)
<1> DEFINE e == [id |-> input.id, verdict |-> v, why |-> why, by |-> by]
<1>1. log' = Append(log, e) /\ log \in Seq(Entries)
  BY DEF Judge, IInv, TypeInv, HostType
<1> HIDE DEF e
<1> QED BY <1>1

\* From one verdict to the next a forkserver whose target forks no process of
\* its own takes at most 53 steps: a rank below 54 falls with each of them.
THEOREM ExecutionsAreBounded ==
  ASSUME ~ Helpers
  PROVE  Spec => BoundedExecution
<1>1. IInv /\ [Next]_vars =>
        [Len(log') > Len(log) \/ ~ PoweredOn' \/ Rank(guest') < Rank(guest)]_vars
  <2> SUFFICES ASSUME IInv, Next, ~ UNCHANGED vars
               PROVE  Len(log') > Len(log) \/ ~ PoweredOn' \/ Rank(guest') < Rank(guest)
    OBVIOUS
  <2>p. ~ Terminated
    BY DEF Terminated
  <2>g. guest \in Guest /\ (PoweredOn => Sound(guest, phase))
    BY DEF IInv, TypeInv, HostType, GoodGuest
  <2>a. UserAbort => ~ PoweredOn'
    BY DEF UserAbort, PoweredOn
  <2>1. CASE Setup \/ AgentInit \/ AllocPayload \/ DetectRanges \/ Fork
    <3>1. CASE Setup \/ AgentInit \/ AllocPayload \/ DetectRanges
      <4>1. \/ UserAbort
            \/ \E p : /\ guest' = [guest EXCEPT !.parent = p]
                     /\ <<guest.parent, p>> \in {<<"setup", "agent_init">>, <<"agent_init", "alloc">>,
                                                 <<"alloc", "ranges">>, <<"ranges", "fork">>}
        BY <3>1 DEF Setup, AgentInit, AllocPayload, DetectRanges, Inform, SetAgentConfig, GetPayload
      <4>2. UserAbort \/ PRank(guest'.parent) < PRank(guest.parent)
        BY <2>g, <4>1 DEF Guest, PRank
      <4> QED BY <2>a, <4>2, ParentCloser
    <3>2. CASE Fork
      <4>1. guest.parent = "fork" /\ guest'.parent \in {"wait", "dead"}
        BY <2>g, <3>2 DEF Fork, Inform, Guest
      <4>2. PRank(guest'.parent) < PRank(guest.parent)
        BY <4>1 DEF PRank
      <4> QED BY <4>2, ParentCloser
    <3> QED BY <2>1, <3>1, <3>2
  <2>2. CASE Reap
    <3>1. guest.parent = "wait" /\ guest'.parent = "report"
      BY <2>2, <2>g DEF Reap, Inform, Guest
    <3>2. PRank(guest'.parent) < PRank(guest.parent)
      BY <3>1 DEF PRank
    <3> QED BY <3>2, ParentCloser
  <2>3. CASE ReportStatus
    <3>1. CASE \E v : Report(v, guest.out, "parent")
      BY <2>a, <3>1, JudgeCloser DEF Report
    <3>2. CASE Inform([guest EXCEPT !.parent = "release"])
      <4>1. PRank(guest'.parent) < PRank(guest.parent)
        BY <2>3, <2>g, <3>2 DEF ReportStatus, Inform, Guest, PRank
      <4> QED BY <4>1, ParentCloser
    <3> QED BY <2>3, <3>1, <3>2 DEF ReportStatus
  <2>4. CASE ParentRelease
    <3>1. phase = "exec"
      BY <2>4, <2>g DEF ParentRelease, Sound, Placed
    <3> QED BY <2>4, <3>1, JudgeCloser DEF ParentRelease, Release
  <2>5. CASE LoaderAbort
    BY <2>5, <2>a DEF LoaderAbort
  <2>6. CASE ChildAcquire
    <3> DEFINE g == [guest EXCEPT !.child = "feed"]
    <3>1. guest.child = "forked" /\ phase \in {"boot", "idle"}
      BY <2>6, <2>g DEF ChildAcquire, Sound, Placed
    <3>2. Deliver(Len(log), "exec", g)
      BY <2>6, <3>1 DEF ChildAcquire, FastAcquire, Fetch
    <3>3. guest' = g
      BY <3>2 DEF Deliver
    <3>4. guest'.parent = guest.parent /\ CRank(guest'.child) < CRank(guest.child)
      BY <2>g, <3>1, <3>3 DEF Guest, CRank
    <3> QED BY <3>4, ChildCloser
  <2>7. CASE ChildFeed
    <3>1. \/ UserAbort
          \/ \E f : guest' = [guest EXCEPT !.child = "main", !.fed = f]
          \/ guest' = [guest EXCEPT !.child = "blocked"]
          \/ guest' = [guest EXCEPT !.child = "zombie", !.out = "harness"]
      BY <2>7 DEF ChildFeed, Inform
    <3>2. \/ UserAbort
          \/ guest'.parent = guest.parent /\ guest'.child \in {"main", "blocked", "zombie"}
      BY <2>g, <3>1 DEF Guest
    <3>3. \A c \in {"main", "blocked", "zombie"} : CRank(c) < CRank("feed")
      BY DEF CRank
    <3>4. guest.child = "feed"
      BY <2>7 DEF ChildFeed
    <3> QED BY <2>a, <3>2, <3>3, <3>4, ChildCloser
  <2>8. CASE SnapshotReload
    <3>1. phase = "exec" /\ guest.child = "exiting"
      BY <2>8, <2>g DEF SnapshotReload, Sound, Placed
    <3>2. CASE Release(guest.out, "child", [guest EXCEPT !.child = "zombie"])
      BY <3>1, <3>2, JudgeCloser DEF Release
    <3>3. CASE Inform([guest EXCEPT !.child = "zombie"])
      <4>1. guest'.parent = guest.parent /\ CRank(guest'.child) < CRank(guest.child)
        BY <2>g, <3>1, <3>3 DEF Inform, Guest, CRank
      <4> QED BY <4>1, ChildCloser
    <3> QED BY <2>8, <3>2, <3>3 DEF SnapshotReload
  <2>9. CASE TargetExit \/ TargetDies \/ TargetStops
    <3>1. \E c \in {"exiting", "zombie", "stopped"} : \E o :
            guest' = [guest EXCEPT !.child = c, !.out = o]
      BY <2>9 DEF TargetExit, TargetDies, TargetStops, Inform
    <3>2. guest'.parent = guest.parent /\ guest'.child \in {"exiting", "zombie", "stopped"}
      BY <2>g, <3>1 DEF Guest
    <3>3. \A c \in {"exiting", "zombie", "stopped"} : CRank(c) < CRank("main")
      BY DEF CRank
    <3>4. guest.child = "main"
      BY <2>9 DEF TargetExit, TargetDies, TargetStops, InTarget
    <3> QED BY <3>2, <3>3, <3>4, ChildCloser
  <2>10. ~ TargetForks /\ ~ Helper
    <3>1. PoweredOn => guest.helper = "none"
      BY <2>g DEF Sound, Known
    <3> QED BY <3>1 DEF TargetForks, Helper, HelperExit, HelperDies, HelperExec, NestedRanges
  <2>11. CASE Timeout
    BY <2>11, JudgeCloser DEF Timeout, HostTimeout
  <2> QED BY <2>p, <2>1, <2>2, <2>3, <2>4, <2>5, <2>6, <2>7, <2>8, <2>9, <2>10, <2>11
    DEF Next, Parent, Child, Target
<1> QED BY <1>1, AloneSound, PTL DEF Spec, BoundedExecution

\* Where the parent waits for a child that is gone, is blocked in its own pipe or
\* is still in the target, an execution is on, so that the host will call time.
\* Outside an execution the parent, or the child it waits for, can always go on.
WatchdogCoversWaits ==
  PoweredOn /\ guest.parent = "wait" /\ guest.child \in {"none", "blocked", "main"}
    => phase = "exec"

\* Without helpers nobody waits unwatched, in either mode.
THEOREM WaitsAreWatched ==
  ASSUME ~ Helpers
  PROVE  Spec => []WatchdogCoversWaits
<1>1. IInv => WatchdogCoversWaits
  BY DEF IInv, Sound, Placed, WatchdogCoversWaits
<1> QED BY <1>1, AloneSound, PTL

============================================================================
