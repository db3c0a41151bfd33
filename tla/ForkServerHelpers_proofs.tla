---------------------- MODULE ForkServerHelpers_proofs ----------------------
(***************************************************************************)
(* Theorems about ForkServer for all values of its constants, the ones     *)
(* included with which the target forks processes of its own, or in which  *)
(* the payload buffer cannot be allocated.  There the phase of the host    *)
(* says little of where the processes are: a helper may have released the  *)
(* execution.  What remains is that a verdict of the parent or the child   *)
(* depends on the guest alone, and that a snapshot is taken once, of a     *)
(* child that has just been forked.                                        *)
(***************************************************************************)
EXTENDS ForkServer_proofs

Early == {"setup", "agent_init", "alloc", "ranges"}

\* Where the processes are before there is a snapshot.
Starting(g) ==
  /\ g.parent \in Early \union {"fork", "wait", "dead"}
  /\ g.child = IF g.parent = "wait" THEN "forked" ELSE "none"
  /\ g.helper = "none" /\ g.out = "running"

\* What the place of a process says of the outcome, in every phase of the host.
Sane(g) ==
  /\ g.parent # "wait" => g.child \in {"none", "stopped"}
  /\ g.child \in {"forked", "feed", "blocked", "main"} => g.out = "running"
  /\ g.child = "exiting" => g.out \in {"exit", "exit101"}
  /\ g.out = "exit101" /\ g.child # "exiting" => allow_persistent
  /\ g.parent = "report" => g.status = g.out /\ g.out # "running"
  /\ g.parent = "release" => g.out \in {"exit", "quit", "vtalrm", "stop"}

\* What the target may find in its payload file or in its stdin.
FedOK(f) ==
  \/ f = Blocks(input)
  \/ /\ stdin_mode /\ "splice" \in Faults
     /\ \E n \in 0..PipeCapacity : n < input.size /\ f = SubSeq(Blocks(input), 1, n)

\* A guest that may go on with this host in phase p: while an execution is on,
\* the parent waits for it or is about to say how it has ended.
GuestOK(g, p) ==
  /\ Sane(g)
  /\ g.helper # "none" => Helpers
  /\ g.out = "harness" => buffer = "null"
  /\ g.child = "main" => FedOK(g.fed)
  /\ snap = {} => Starting(g)
  /\ snap # {} => g.parent \notin Early
  /\ snap # {} /\ mode = "reload" => g.child # "forked"
  /\ p = "exec" => g.parent \in {"wait", "report", "release"} /\ g.child # "forked"

HostOK ==
  /\ snap = {} => phase \in {"boot", "aborted"} /\ log = <<>>
  /\ snap # {} /\ mode = "reload" /\ PoweredOn => phase = "exec"
  /\ \A s \in snap : /\ s.guest.parent = "wait" /\ s.guest.child = "feed"
                     /\ s.guest.out = "running" /\ s.guest.helper = "none"
                     /\ s.phase = "exec"
  /\ mode = "persistent" => allow_persistent
  /\ OnlyHelpersPreempt

HInv == TypeInv /\ GuestOK(guest, phase) /\ HostOK

\* The verdicts OnlyHelpersPreempt allows.
Allowed(v, why, by) ==
  by \in {"child", "parent", "host"} =>
    \/ <<v, why>> \in Fitting
    \/ buffer = "null" /\ <<v, why>> = <<"crash", "harness">>

---------------------------------------------------------------------------
\* The host calls.

\* Calls that return without an effect on an execution, in and out of order.
LEMMA ReturnHolds ==
  ASSUME HInv, TypeInv', NEW g, GuestOK(g, phase), Inform(g) \/ Misplaced(g)
  PROVE  HInv'
BY DEF HInv, Inform, Misplaced, hostVars, GuestOK, FedOK, HostOK, Sane, Starting, PoweredOn,
       OnlyHelpersPreempt, Fitting

\* habort().
LEMMA AbortHolds ==
  ASSUME HInv, TypeInv', UserAbort
  PROVE  HInv'
BY DEF HInv, UserAbort, GuestOK, FedOK, HostOK, Sane, Starting, PoweredOn, OnlyHelpersPreempt,
       Fitting

\* A verdict: the caller goes on in persistent mode only, everything else goes
\* on from the snapshot, whose child has not been fed.
LEMMA JudgeHolds ==
  ASSUME HInv, TypeInv', NEW g, NEW v \in Verdicts, NEW why \in Reasons, NEW by \in Callers,
         phase = "exec", Judge(v, why, by, g), Allowed(v, why, by),
         mode = "persistent" /\ v = "ok" => GuestOK(g, "idle")
  PROVE  HInv'
<1> DEFINE e == [id |-> input.id, verdict |-> v, why |-> why, by |-> by]
<1>1. UNCHANGED <<conf, mode, buffer, snap, stray>> /\ log' = Append(log, e)
  BY DEF Judge
<1>2. snap # {}
  BY DEF HInv, HostOK
<1>3. OnlyHelpersPreempt'
  <2>1. log \in Seq(Entries) /\ OnlyHelpersPreempt
    BY DEF HInv, TypeInv, HostType, HostOK
  <2>2. e.verdict = v /\ e.why = why /\ e.by = by
    OBVIOUS
  <2> HIDE DEF e
  <2>3. Len(log') = Len(log) + 1 /\ Len(log) \in Nat
    BY <1>1, <2>1
  <2>4. SUFFICES ASSUME NEW i \in 1..Len(log'), log'[i].by \in {"child", "parent", "host"}
                 PROVE  \/ <<log'[i].verdict, log'[i].why>> \in Fitting
                        \/ /\ buffer' = "null"
                           /\ <<log'[i].verdict, log'[i].why>> = <<"crash", "harness">>
    BY DEF OnlyHelpersPreempt, Fitting
  <2>5. CASE i = Len(log) + 1
    <3>1. log'[i] = e
      BY <1>1, <2>1, <2>5
    <3> QED BY <1>1, <2>2, <2>4, <3>1 DEF Allowed
  <2>6. CASE i \in 1..Len(log)
    <3>1. log'[i] = log[i]
      BY <1>1, <2>1, <2>6
    <3> QED BY <1>1, <2>1, <2>4, <2>6, <3>1 DEF OnlyHelpersPreempt
  <2> QED BY <2>3, <2>5, <2>6
<1>4. CASE mode = "persistent" /\ v = "ok"
  <2>1. phase' = "idle" /\ guest' = g /\ UNCHANGED input
    BY <1>4 DEF Judge
  <2>2. GuestOK(guest, phase)'
    BY <1>1, <1>2, <1>4, <2>1 DEF GuestOK, FedOK, Sane
  <2> QED BY <1>1, <1>2, <1>3, <1>4, <2>1, <2>2 DEF HInv, HostOK
<1>5. CASE ~ (mode = "persistent" /\ v = "ok")
  <2>1. PICK s \in snap : Deliver(Len(log) + 1, s.phase, s.guest)
    BY <1>5 DEF Judge
  <2>2. guest' = s.guest /\ phase' \in {"exec", "done"}
    BY <2>1 DEF Deliver, HInv, HostOK
  <2>3. /\ guest'.parent = "wait" /\ guest'.child = "feed" /\ guest'.out = "running"
        /\ guest'.helper = "none"
    BY <2>2 DEF HInv, HostOK
  <2>4. GuestOK(guest, phase)'
    BY <1>1, <1>2, <2>3 DEF GuestOK, Sane, Early
  <2> QED BY <1>1, <1>2, <1>3, <2>2, <2>4 DEF HInv, HostOK, PoweredOn
<1> QED BY <1>4, <1>5

\* RELEASE, once there is a snapshot: in reload mode there is always an
\* execution to end.
LEMMA ReleaseHolds ==
  ASSUME HInv, TypeInv', NEW g, NEW why \in Reasons, NEW by \in Callers,
         PoweredOn, snap # {}, Release(why, by, g), Allowed("ok", why, by),
         mode = "persistent" => GuestOK(g, IF phase = "exec" THEN "idle" ELSE phase)
  PROVE  HInv'
<1>1. mode = "persistent" \/ phase = "exec"
  BY DEF HInv, HostOK, TypeInv, HostType, Modes
<1>2. CASE phase = "exec"
  BY <1>2, JudgeHolds DEF Release, Verdicts
<1>3. CASE phase # "exec"
  BY <1>1, <1>3, ReturnHolds DEF Release
<1> QED BY <1>2, <1>3

\* PANIC and KASAN.
LEMMA ReportHolds ==
  ASSUME HInv, TypeInv', NEW v \in {"crash", "kasan"}, NEW why \in Reasons,
         NEW by \in Callers, Report(v, why, by), Allowed(v, why, by)
  PROVE  HInv'
BY JudgeHolds, AbortHolds DEF Report, Verdicts

---------------------------------------------------------------------------
\* The processes of the guest.

\* What is written is all that is in the file: it was truncated when opened.
LEMMA FileIsPayload ==
  ASSUME NEW old, NEW p \in [id : Nat, size : Nat]
  PROVE  Overwrite(OpenPayloadFile(old), Blocks(p)) = Blocks(p)
<1>1. Blocks(p) = [i \in 1..p.size |-> p.id] /\ Len(Blocks(p)) = p.size
  BY DEF Blocks
<1>2. Overwrite(<<>>, Blocks(p)) = [i \in 1..p.size |-> Blocks(p)[i]]
  BY <1>1 DEF Overwrite
<1> QED BY <1>1, <1>2 DEF OpenPayloadFile

\* The forkserver.
LEMMA ParentHolds ==
  ASSUME HInv, TypeInv', Parent
  PROVE  HInv'
<1>p. PoweredOn
  BY DEF Parent, Setup, AgentInit, AllocPayload, DetectRanges, Fork, Reap, ReportStatus,
         ParentRelease, LoaderAbort
<1>g. guest \in Guest /\ guest.out \in Reasons /\ "parent" \in Callers
  BY DEF HInv, TypeInv, HostType, GoodGuest, Guest, Reasons, Callers
<1>k. GuestOK(guest, phase)
  BY DEF HInv
<1>1. CASE Setup
  <2>1. GuestOK([guest EXCEPT !.parent = "agent_init"], phase)
    BY <1>1, <1>g, <1>k DEF Setup, GuestOK, Sane, Starting, Early, Guest
  <2> QED BY <1>1, <2>1, ReturnHolds, AbortHolds DEF Setup
<1>2. CASE AgentInit
  <2> DEFINE g == [guest EXCEPT !.parent = "alloc"]
  <2>1. snap = {} /\ log = <<>> /\ phase # "exec" /\ Starting(g) /\ Sane(g)
    BY <1>2, <1>g, <1>k DEF AgentInit, GuestOK, Sane, Starting, Early, Guest, HInv, HostOK
  <2>2. CASE SetAgentConfig(allow_persistent, g)
    <3> HIDE DEF g
    <3>1. guest' = g /\ UNCHANGED <<conf, phase, buffer, snap, input, log, stray>>
      BY <2>2 DEF SetAgentConfig
    <3>2. mode' = "persistent" => allow_persistent
      BY <2>2 DEF SetAgentConfig
    <3>3. GuestOK(guest, phase)'
      BY <2>1, <3>1 DEF GuestOK, Sane, Starting
    <3> QED BY <2>1, <3>1, <3>2, <3>3 DEF HInv, HostOK, OnlyHelpersPreempt, Fitting
  <2> QED BY <1>2, <2>2, AbortHolds DEF AgentInit
<1>3. CASE AllocPayload
  <2> DEFINE g == [guest EXCEPT !.parent = "ranges"]
  <2>1. snap = {} /\ log = <<>> /\ phase # "exec" /\ Starting(g) /\ Sane(g)
    BY <1>3, <1>g, <1>k DEF AllocPayload, GuestOK, Sane, Starting, Early, Guest, HInv, HostOK
  <2> HIDE DEF g
  <2>2. guest' = g /\ UNCHANGED <<conf, phase, mode, snap, input, log, stray>>
    BY <1>3 DEF AllocPayload, GetPayload, g
  <2>3. GuestOK(guest, phase)'
    BY <2>1, <2>2 DEF GuestOK, Sane, Starting
  <2>4. OnlyHelpersPreempt'
    BY <2>1, <2>2 DEF OnlyHelpersPreempt
  <2> QED BY <2>1, <2>2, <2>3, <2>4 DEF HInv, HostOK, PoweredOn
<1>4. CASE DetectRanges
  <2>1. GuestOK([guest EXCEPT !.parent = "fork"], phase)
    BY <1>4, <1>g, <1>k DEF DetectRanges, GuestOK, Sane, Starting, Early, Guest
  <2> QED BY <1>4, <2>1, ReturnHolds, AbortHolds DEF DetectRanges
<1>5. CASE Fork
  <2>0. phase # "exec" /\ (mode = "reload" => snap = {})
    BY <1>5, <1>k, <1>p DEF Fork, GuestOK, HInv, HostOK
  <2>1. GuestOK([guest EXCEPT !.parent = "wait", !.child = "forked", !.out = "running"], phase)
    BY <1>5, <1>g, <1>k, <2>0 DEF Fork, GuestOK, Sane, Starting, Early, Guest
  <2>2. GuestOK([guest EXCEPT !.parent = "dead"], phase)
    BY <1>5, <1>g, <1>k, <2>0 DEF Fork, GuestOK, Sane, Starting, Early, Guest
  <2> QED BY <1>5, <2>1, <2>2, ReturnHolds DEF Fork
<1>6. CASE Reap
  <2> DEFINE g == [guest EXCEPT !.parent = "report", !.status = guest.out,
                     !.child = IF @ = "zombie" THEN "none" ELSE @]
  <2>1. guest.parent = "wait" /\ guest.child \in {"zombie", "stopped"} /\ Inform(g)
    BY <1>6 DEF Reap, WaitedFor
  <2>2. guest.out # "running"
    BY <2>1 DEF HInv, TypeInv, HostType, GoodGuest
  <2>3. /\ g.parent = "report" /\ g.status = guest.out /\ g.out = guest.out
        /\ g.child \in {"none", "stopped"} /\ g.helper = guest.helper
    BY <1>g, <2>1 DEF Guest
  <2> HIDE DEF g
  <2>4. GuestOK(g, phase)
    BY <1>k, <2>1, <2>2, <2>3 DEF GuestOK, Sane, Starting, Early
  <2> QED BY <2>1, <2>4, ReturnHolds
<1>7. CASE ReportStatus
  <2>1. /\ guest.parent = "report" /\ guest.status = guest.out /\ guest.out # "running"
        /\ guest.child \in {"none", "stopped"} /\ snap # {}
    BY <1>7, <1>k DEF ReportStatus, GuestOK, Sane, Starting, Early
  <2>2. CASE guest.out \in {"crash", "harness"} /\ Report("crash", guest.out, "parent")
    <3>1. Allowed("crash", guest.out, "parent")
      BY <1>k, <2>2 DEF Allowed, Fitting, GuestOK
    <3> QED BY <1>g, <2>2, <3>1, ReportHolds
  <2>3. CASE guest.out \in {"exit101", "quit101"} /\ Report("kasan", guest.out, "parent")
    <3>1. guest.out = "exit101" => allow_persistent
      BY <1>k, <2>1 DEF GuestOK, Sane
    <3>2. Allowed("kasan", guest.out, "parent")
      BY <2>3, <3>1 DEF Allowed, Fitting
    <3> QED BY <1>g, <2>3, <3>2, ReportHolds
  <2>4. CASE /\ guest.out \notin {"crash", "harness", "exit101", "quit101"}
             /\ Inform([guest EXCEPT !.parent = "release"])
    <3>1. guest.out \in {"exit", "quit", "vtalrm", "stop"}
      BY <1>g, <2>1, <2>4 DEF Outcomes, Reasons
    <3>2. GuestOK([guest EXCEPT !.parent = "release"], phase)
      BY <1>g, <1>k, <1>p, <2>1, <3>1 DEF GuestOK, Sane, Starting, Early, Guest
    <3> QED BY <2>4, <3>2, ReturnHolds
  <2> QED BY <1>7, <2>1, <2>2, <2>3, <2>4 DEF ReportStatus, PanicStatuses, KasanStatuses
<1>8. CASE ParentRelease
  <2> DEFINE g == [guest EXCEPT !.parent = "fork"]
  <2>1. /\ guest.parent = "release" /\ guest.out \in {"exit", "quit", "vtalrm", "stop"}
        /\ guest.child \in {"none", "stopped"} /\ snap # {}
    BY <1>8, <1>k DEF ParentRelease, GuestOK, Sane, Starting, Early
  <2>2. \A p : p # "exec" => GuestOK(g, p)
    BY <1>g, <1>k, <2>1 DEF GuestOK, Sane, Early, Guest
  <2>3. Allowed("ok", guest.out, "parent")
    BY <2>1 DEF Allowed, Fitting
  <2>4. Release(guest.out, "parent", g)
    BY <1>8 DEF ParentRelease
  <2> HIDE DEF g
  <2> QED BY <1>g, <1>p, <2>1, <2>2, <2>3, <2>4, ReleaseHolds
<1>9. CASE LoaderAbort
  BY <1>9, AbortHolds DEF LoaderAbort
<1> QED BY <1>1, <1>2, <1>3, <1>4, <1>5, <1>6, <1>7, <1>8, <1>9 DEF Parent

\* The child until its target starts, and its exit handler.
LEMMA ChildHolds ==
  ASSUME HInv, TypeInv', Child
  PROVE  HInv'
<1>p. PoweredOn
  BY DEF Child, ChildAcquire, ChildFeed, SnapshotReload
<1>g. guest \in Guest /\ guest.out \in Reasons /\ "child" \in Callers
  BY DEF HInv, TypeInv, HostType, GoodGuest, Guest, Reasons, Callers
<1>k. GuestOK(guest, phase)
  BY DEF HInv
<1>w. guest.parent = "wait"
  BY <1>k DEF Child, ChildAcquire, ChildFeed, SnapshotReload, GuestOK, Sane
<1>1. CASE ChildAcquire
  <2> DEFINE g == [guest EXCEPT !.child = "feed"]
  <2>1. guest.child = "forked" /\ guest.out = "running" /\ Fetch("exec", g)
    BY <1>1, <1>k DEF ChildAcquire, FastAcquire, GuestOK, Sane
  <2>2. /\ g.parent = "wait" /\ g.child = "feed" /\ g.out = "running"
        /\ g.helper = guest.helper /\ (snap = {} => g.helper = "none")
    BY <1>g, <1>k, <1>w, <2>1 DEF Guest, GuestOK, Starting
  <2> HIDE DEF g
  <2>3. CASE /\ snap' = IF snap = {} THEN {[guest |-> g, phase |-> "exec"]} ELSE snap
             /\ Deliver(Len(log), "exec", g)
             /\ UNCHANGED <<conf, mode, buffer, log, stray>>
    <3>1. guest' = g /\ phase' \in {"exec", "done"} /\ snap' # {}
      BY <2>3 DEF Deliver
    <3>2. GuestOK(guest, phase)'
      BY <1>k, <2>2, <3>1 DEF GuestOK, Sane, Early
    <3>3. \A s \in snap' : /\ s.guest.parent = "wait" /\ s.guest.child = "feed"
                           /\ s.guest.out = "running" /\ s.guest.helper = "none"
                           /\ s.phase = "exec"
      BY <2>2, <2>3 DEF HInv, HostOK
    <3> QED BY <2>3, <3>1, <3>2, <3>3 DEF HInv, HostOK, PoweredOn, OnlyHelpersPreempt, Fitting
  <2>4. CASE phase \notin {"boot", "idle"} /\ Misplaced(g)
    <3>1. snap # {}
      BY <1>p, <2>4 DEF HInv, HostOK, PoweredOn
    <3>2. mode # "reload"
      BY <1>k, <2>1, <3>1 DEF GuestOK
    <3>3. GuestOK(g, phase)
      BY <1>k, <2>2, <3>1, <3>2 DEF GuestOK, Sane, Early
    <3> QED BY <2>4, <3>3, ReturnHolds
  <2> QED BY <2>1, <2>3, <2>4 DEF Fetch
<1>2. CASE ChildFeed
  <2>1. guest.child = "feed" /\ guest.out = "running" /\ snap # {}
    BY <1>2, <1>k DEF ChildFeed, GuestOK, Sane, Starting
  <2>2. input \in [id : Nat, size : Nat]
    BY DEF HInv, TypeInv, HostType
  <2>3. \/ UserAbort
        \/ buffer = "null" /\ Inform([guest EXCEPT !.child = "zombie", !.out = "harness"])
        \/ \E f : FedOK(f) /\ Inform([guest EXCEPT !.child = "main", !.fed = f])
        \/ Inform([guest EXCEPT !.child = "blocked"])
    BY <1>2, <2>2, FileIsPayload DEF ChildFeed, FedOK, Iov
  <2>4. /\ buffer = "null" => GuestOK([guest EXCEPT !.child = "zombie", !.out = "harness"], phase)
        /\ \A f : FedOK(f) => GuestOK([guest EXCEPT !.child = "main", !.fed = f], phase)
        /\ GuestOK([guest EXCEPT !.child = "blocked"], phase)
    BY <1>g, <1>k, <1>w, <2>1 DEF GuestOK, Sane, Early, Guest
  <2> QED BY <2>3, <2>4, AbortHolds, ReturnHolds
<1>3. CASE SnapshotReload
  <2> DEFINE g == [guest EXCEPT !.child = "zombie"]
  <2>1. guest.child = "exiting" /\ guest.out \in {"exit", "exit101"} /\ snap # {}
    BY <1>3, <1>k DEF SnapshotReload, GuestOK, Sane, Starting
  <2>2. allow_persistent => GuestOK(g, phase)
    BY <1>g, <1>k, <1>w, <2>1 DEF GuestOK, Sane, Early, Guest
  <2>3. Allowed("ok", guest.out, "child")
    BY <2>1 DEF Allowed, Fitting
  <2>4. \/ allow_persistent /\ Inform(g)
        \/ ~ allow_persistent /\ Release(guest.out, "child", g)
    BY <1>3 DEF SnapshotReload, ReloadAtExit
  <2>5. ~ allow_persistent => mode # "persistent"
    BY DEF HInv, HostOK
  <2> HIDE DEF g
  <2> QED BY <1>g, <1>p, <2>1, <2>2, <2>3, <2>4, <2>5, ReturnHolds, ReleaseHolds
<1> QED BY <1>1, <1>2, <1>3 DEF Child

\* The target.
LEMMA TargetHolds ==
  ASSUME HInv, TypeInv', Target
  PROVE  HInv'
<1>g. guest \in Guest /\ GuestOK(guest, phase)
  BY DEF HInv, TypeInv, HostType, GoodGuest
<1>w. guest.child = "main" /\ guest.parent = "wait" /\ snap # {}
  BY <1>g DEF Target, TargetExit, TargetDies, TargetStops, TargetForks, InTarget, GuestOK, Sane,
              Starting
<1>1. CASE TargetForks
  <2>1. GuestOK([guest EXCEPT !.helper = "running"], phase)
    BY <1>1, <1>g, <1>w DEF TargetForks, GuestOK, Sane, Guest
  <2> QED BY <1>1, <2>1, ReturnHolds DEF TargetForks
<1>2. CASE TargetExit \/ TargetDies \/ TargetStops
  <2>1. PICK c, o : /\ Inform([guest EXCEPT !.child = c, !.out = o])
                    /\ \/ c = "exiting" /\ o \in {"exit", "exit101"}
                       \/ c = "zombie" /\ o \in {"quit", "quit101", "crash", "vtalrm"}
                       \/ c = "stopped" /\ o = "stop"
    BY <1>2 DEF TargetExit, TargetDies, TargetStops
  <2>2. GuestOK([guest EXCEPT !.child = c, !.out = o], phase)
    BY <1>g, <1>w, <2>1 DEF GuestOK, Sane, Early, Guest
  <2> QED BY <2>1, <2>2, ReturnHolds
<1> QED BY <1>1, <1>2 DEF Target

\* A helper, whose hypercalls may end any execution, but leave every process of
\* the forkserver where it is.
LEMMA HelperHolds ==
  ASSUME HInv, TypeInv', Helper
  PROVE  HInv'
<1>p. PoweredOn
  BY DEF Helper, HelperExit, HelperDies, HelperExec, NestedRanges
<1>g. guest \in Guest /\ guest.out \in Reasons /\ {"helper", "nested"} \subseteq Callers
  BY DEF HInv, TypeInv, HostType, GoodGuest, Guest, Reasons, Callers
<1>s. snap # {}
  BY DEF HInv, GuestOK, Starting, Helper, HelperExit, HelperDies, HelperExec, NestedRanges
<1>e. Helpers
  BY DEF HInv, GuestOK, Helper, HelperExit, HelperDies, HelperExec, NestedRanges
<1>h. \A x : \A p \in {"idle", phase} : GuestOK([guest EXCEPT !.helper = x], p)
  <2> TAKE x
  <2>1. GuestOK(guest, phase)
    BY DEF HInv
  <2> QED BY <1>e, <1>g, <1>s, <2>1 DEF GuestOK, Sane, Guest
<1>a. Allowed("ok", guest.out, "helper") /\ Allowed("ok", guest.out, "nested")
  BY DEF Allowed
<1>1. CASE HelperExit
  BY <1>1, <1>p, <1>g, <1>s, <1>h, <1>a, ReleaseHolds, ReturnHolds DEF HelperExit
<1>2. CASE HelperDies
  BY <1>2, <1>h, ReturnHolds DEF HelperDies
<1>3. CASE HelperExec
  BY <1>3, <1>p, <1>g, <1>s, <1>h, <1>a, ReleaseHolds DEF HelperExec
<1>4. CASE NestedRanges
  BY <1>4, AbortHolds DEF NestedRanges
<1> QED BY <1>1, <1>2, <1>3, <1>4 DEF Helper

\* The host's watchdog.
LEMMA TimeoutHolds ==
  ASSUME HInv, TypeInv', Timeout
  PROVE  HInv'
<1>1. guest.out \in Reasons /\ "host" \in Callers /\ "timeout" \in Verdicts
  BY DEF HInv, TypeInv, HostType, GoodGuest, Guest, Reasons, Callers, Verdicts
<1>2. Allowed("timeout", guest.out, "host")
  BY <1>1 DEF Allowed, Fitting, Reasons
<1> QED BY <1>1, <1>2, JudgeHolds DEF Timeout, HostTimeout

\* When the VM starts there is neither a child nor a snapshot.
LEMMA InitHolds == Init => HInv
<1> SUFFICES ASSUME Init PROVE HInv
  OBVIOUS
<1>1. TypeInv
  BY InitType
<1>2. /\ snap = {} /\ log = <<>> /\ phase = "boot" /\ mode = "reload"
      /\ guest.parent = "setup" /\ guest.child = "none" /\ guest.out = "running"
      /\ guest.helper = "none"
  BY DEF Init, HostInit, HostStarts
<1>3. GuestOK(guest, phase)
  BY <1>2 DEF GuestOK, Sane, Starting, Early
<1>4. HostOK
  BY <1>2 DEF HostOK, OnlyHelpersPreempt
<1> QED BY <1>1, <1>3, <1>4 DEF HInv

\* Every step, whoever makes it.
LEMMA NextHolds == HInv /\ [Next]_vars => HInv'
<1> SUFFICES ASSUME HInv, [Next]_vars PROVE HInv'
  OBVIOUS
<1>1. TypeInv'
  BY NextType DEF HInv
<1>2. CASE UNCHANGED vars
  BY <1>1, <1>2 DEF HInv, GuestOK, FedOK, HostOK, Sane, Starting, vars, PoweredOn, OnlyHelpersPreempt,
                    Fitting
<1> QED BY <1>1, <1>2, ParentHolds, ChildHolds, TargetHolds, HelperHolds, TimeoutHolds
  DEF Next, Terminated

\* HInv is inductive.
LEMMA Inductive == Spec => []HInv
BY InitHolds, NextHolds, PTL DEF Spec

---------------------------------------------------------------------------
\* The theorems.

\* A snapshot is never given up, nor the mode changed once there is one.
LEMMA SnapshotStays ==
  ASSUME HInv, Next, snap # {}
  PROVE  snap' # {} /\ mode' = mode
<1>1. guest.parent \notin Early
  BY DEF HInv, GuestOK
<1>2. CASE Parent
  BY <1>1, <1>2 DEF Early, Parent, Setup, AgentInit, AllocPayload, DetectRanges, Fork, Reap,
     ReportStatus, ParentRelease, LoaderAbort, Release, Report, Judge, Inform, Misplaced,
     UserAbort, hostVars
<1>3. CASE Child
  BY <1>3 DEF Child, ChildAcquire, FastAcquire, Fetch, ChildFeed, SnapshotReload, Release, Judge,
     Inform, Misplaced, UserAbort, hostVars
<1>4. CASE Target
  BY <1>4 DEF Target, TargetExit, TargetDies, TargetStops, TargetForks, Inform, hostVars
<1>5. CASE Helper
  BY <1>5 DEF Helper, HelperExit, HelperDies, HelperExec, NestedRanges, Release, Judge, Inform,
     Misplaced, UserAbort, hostVars
<1>6. CASE Timeout
  BY <1>6 DEF Timeout, HostTimeout, Judge
<1>7. CASE Terminated
  BY <1>7 DEF Terminated, vars
<1> QED BY <1>2, <1>3, <1>4, <1>5, <1>6, <1>7 DEF Next

\* Whatever a target's own processes release, the forkserver is restored into
\* one and the same child in reload mode: fork() is not reached a second time.
THEOREM ForkedOnce == Spec => ReloadForksOnce
<1>1. HInv /\ HInv' /\ [Next]_vars =>
        [(mode = "reload" /\ snap # {}) => ~ (guest.child # "forked" /\ guest'.child = "forked")]_vars
  <2> SUFFICES ASSUME HInv, HInv', Next, mode = "reload", snap # {}
               PROVE  guest'.child # "forked"
    OBVIOUS
  <2>1. snap' # {} /\ mode' = "reload"
    BY SnapshotStays
  <2> QED BY <2>1 DEF HInv, GuestOK
<1> QED BY <1>1, Inductive, PTL DEF Spec, ReloadForksOnce

\* With any sequence of payload sizes, in both modes, and whoever has ended the
\* execution before, the target reads its payload and nothing behind it: whole from the
\* file, and from the pipe whole too, unless one of the two calls that are not checked,
\* vmsplice() and dup2(), has failed (forkserver.c:261-262).
THEOREM PayloadFedWhole == Spec => []WholePayloadFed
<1>1. HInv => WholePayloadFed
  BY DEF HInv, GuestOK, FedOK, WholePayloadFed
<1> QED BY <1>1, Inductive, PTL

\* What the forkserver, its child and the host say of a target fits, even where
\* the target's own processes call RELEASE at any time; a crash is reported
\* without one only where no payload buffer was allocated.
THEOREM OthersPreempt == Spec => []OnlyHelpersPreempt
<1>1. HInv => OnlyHelpersPreempt
  BY DEF HInv, HostOK
<1> QED BY <1>1, Inductive, PTL

---------------------------------------------------------------------------
\* The payload buffer, whoever forks.

\* What a step does to the host: nothing, habort(), a payload, or a verdict.
HostStep ==
  \/ UNCHANGED <<conf, phase, input, log>>
  \/ phase' = "aborted" /\ UNCHANGED <<conf, input, log>>
  \/ Deliver(Len(log), "exec", guest') /\ UNCHANGED <<conf, log>>
  \/ UNCHANGED conf /\ \E v, why, by, g : Judge(v, why, by, g)

\* Every action makes one hypercall at most.
LEMMA HostSteps ==
  ASSUME [Next]_vars
  PROVE  HostStep
<1>1. \A v, why, by, g : Judge(v, why, by, g) => HostStep
  BY DEF Judge, HostStep
<1>2. \A g : Inform(g) \/ Misplaced(g) => HostStep
  BY DEF Inform, Misplaced, hostVars, HostStep
<1>3. UserAbort => HostStep
  BY DEF UserAbort, HostStep
<1>4. \A v, why, by : Report(v, why, by) => HostStep
  BY <1>1, <1>3 DEF Report
<1>5. \A why, by, g : Release(why, by, g) => HostStep
  BY <1>1, <1>2 DEF Release
<1>6. \A g : FastAcquire(g) => HostStep
  <2> SUFFICES ASSUME NEW g, FastAcquire(g) PROVE HostStep
    OBVIOUS
  <2>1. CASE Misplaced(g)
    BY <1>2, <2>1
  <2>2. CASE Deliver(Len(log), "exec", g) /\ UNCHANGED <<conf, log>>
    <3>1. guest' = g
      BY <2>2 DEF Deliver
    <3> QED BY <2>2, <3>1 DEF HostStep
  <2> QED BY <2>1, <2>2 DEF FastAcquire, Fetch
<1>7. \A b, g : SetAgentConfig(b, g) \/ GetPayload(b, g) => HostStep
  BY DEF SetAgentConfig, GetPayload, HostStep
<1>8. CASE Parent
  BY <1>2, <1>3, <1>4, <1>5, <1>7, <1>8 DEF Parent, Setup, AgentInit, AllocPayload, DetectRanges,
     Fork, Reap, ReportStatus, ParentRelease, LoaderAbort
<1>9. CASE Child
  BY <1>2, <1>3, <1>5, <1>6, <1>9 DEF Child, ChildAcquire, ChildFeed, SnapshotReload
<1>10. CASE Target
  BY <1>2, <1>10 DEF Target, TargetExit, TargetDies, TargetStops, TargetForks
<1>11. CASE Helper
  BY <1>2, <1>3, <1>5, <1>11 DEF Helper, HelperExit, HelperDies, HelperExec, NestedRanges
<1>12. CASE Timeout
  BY <1>1, <1>12 DEF Timeout, HostTimeout
<1>13. CASE UNCHANGED vars
  BY <1>13 DEF vars, HostStep
<1> QED BY <1>8, <1>9, <1>10, <1>11, <1>12, <1>13 DEF Next, Terminated

\* agent_init() has compared the sizes before it goes on, and the buffer that is
\* registered afterwards is the one all payloads are written to.
Roomy ==
  /\ guest.parent \notin {"setup", "agent_init"} => conf.size <= PayloadMax
  /\ guest.parent \notin {"setup", "agent_init", "alloc"} => buffer = "ok"
  /\ phase = "exec" => input.size <= conf.size
  /\ phase # "ready"

\* The part of Roomy that is the host's.
LEMMA PayloadIsOfHost ==
  ASSUME HInv, Roomy, [Next]_vars
  PROVE  (phase = "exec" => input.size <= conf.size)' /\ phase' # "ready" /\ conf' = conf
<1>1. \A n, g : Deliver(n, "exec", g) /\ conf' = conf =>
        (phase' = "exec" => input'.size <= conf'.size) /\ phase' # "ready"
  BY DEF Deliver
<1>2. CASE \E v, why, by, g : Judge(v, why, by, g)
  <2>1. \/ phase' = "idle"
        \/ \E s \in snap : Deliver(Len(log) + 1, s.phase, s.guest)
    BY <1>2 DEF Judge
  <2>2. conf' = conf
    BY <1>2 DEF Judge
  <2> QED BY <1>1, <2>1, <2>2 DEF HInv, HostOK
<1> QED BY <1>1, <1>2, HostSteps DEF HostStep, Roomy

\* The buffer is registered by one call and stays what it is.
LEMMA BufferStays ==
  ASSUME [Next]_vars
  PROVE  AllocPayload \/ buffer' = buffer
<1>1. CASE Parent
  BY <1>1 DEF Parent, Setup, AgentInit, DetectRanges, Fork, Reap, ReportStatus,
     ParentRelease, LoaderAbort, SetAgentConfig, Release, Report, Judge, Inform,
     Misplaced, UserAbort, hostVars
<1>2. CASE Child
  BY <1>2 DEF Child, ChildAcquire, FastAcquire, Fetch, ChildFeed, SnapshotReload, Release, Judge,
     Inform, Misplaced, UserAbort, hostVars
<1>3. CASE Target
  BY <1>3 DEF Target, TargetExit, TargetDies, TargetStops, TargetForks, Inform, hostVars
<1>4. CASE Helper
  BY <1>4 DEF Helper, HelperExit, HelperDies, HelperExec, NestedRanges, Release, Judge, Inform,
     Misplaced, UserAbort, hostVars
<1>5. CASE Timeout
  BY <1>5 DEF Timeout, HostTimeout, Judge
<1>6. CASE UNCHANGED vars
  BY <1>6 DEF vars
<1> QED BY <1>1, <1>2, <1>3, <1>4, <1>5, <1>6 DEF Next, Terminated

\* Roomy holds from the start, helpers or not: before there is a snapshot only
\* the parent runs, and afterwards it is never again where it would allocate.
LEMMA RoomyHolds ==
  ASSUME "alloc" \notin Faults, HInv, Roomy, [Next]_vars
  PROVE  Roomy'
<1>c. (phase = "exec" => input.size <= conf.size)' /\ phase' # "ready" /\ conf' = conf
  BY PayloadIsOfHost
<1>1. CASE guest.parent \notin Early
  <2>1. buffer = "ok" /\ conf.size <= PayloadMax
    BY <1>1 DEF Roomy, Early
  <2>2. buffer' = buffer
    BY <1>1, BufferStays DEF Early, AllocPayload
  <2> QED BY <1>c, <2>1, <2>2 DEF Roomy
<1>2. CASE guest.parent \in Early
  <2>1. snap = {} /\ guest.child = "none" /\ guest.helper = "none" /\ phase # "exec"
    BY <1>2 DEF HInv, GuestOK, HostOK, Starting, Early
  <2>2. guest \in Guest
    BY DEF HInv, TypeInv, HostType, GoodGuest
  <2>3. CASE UserAbort \/ UNCHANGED vars
    BY <1>c, <2>3 DEF UserAbort, vars, Roomy
  <2>4. CASE Setup /\ Inform([guest EXCEPT !.parent = "agent_init"])
    BY <1>c, <2>2, <2>4 DEF Setup, Inform, hostVars, Guest, Roomy
  <2>5. CASE /\ AgentInit /\ ConfigAccepted
             /\ SetAgentConfig(allow_persistent, [guest EXCEPT !.parent = "alloc"])
    <3>1. guest'.parent = "alloc" /\ conf.size <= PayloadMax
      BY <2>2, <2>5 DEF SetAgentConfig, ConfigAccepted, Guest
    <3> QED BY <1>c, <3>1 DEF Roomy
  <2>6. CASE AllocPayload
    <3>1. guest.parent = "alloc" /\ buffer' = "ok"
      BY <2>6 DEF AllocPayload, GetPayload
    <3> QED BY <1>c, <3>1 DEF Roomy
  <2>7. CASE DetectRanges /\ Inform([guest EXCEPT !.parent = "fork"])
    <3>1. guest.parent = "ranges" /\ buffer' = buffer
      BY <2>7 DEF DetectRanges, Inform, hostVars
    <3> QED BY <1>c, <3>1 DEF Roomy
  <2>8. ~ Child /\ ~ Target /\ ~ Helper /\ ~ Timeout
    BY <2>1 DEF Child, ChildAcquire, ChildFeed, SnapshotReload, Target, TargetExit, TargetDies,
       TargetStops, TargetForks, InTarget, Helper, HelperExit, HelperDies, HelperExec,
       NestedRanges, Timeout, HostTimeout
  <2>9. ~ Fork /\ ~ Reap /\ ~ ReportStatus /\ ~ ParentRelease /\ ~ LoaderAbort
    BY <1>2 DEF Early, Fork, Reap, ReportStatus, ParentRelease, LoaderAbort
  <2> QED BY <2>3, <2>4, <2>5, <2>6, <2>7, <2>8, <2>9
    DEF Next, Parent, Terminated, Setup, AgentInit, DetectRanges
<1> QED BY <1>1, <1>2

\* Every payload the host writes fits the buffer that was registered, for every
\* host that agent_init() has let pass and whatever processes the target forks.
THEOREM PayloadsFit ==
  ASSUME "alloc" \notin Faults
  PROVE  Spec => []PayloadFitsBuffer
<1>1. Init => Roomy
  BY DEF Init, HostInit, HostStarts, Roomy
<1>2. HInv /\ Roomy /\ [Next]_vars => Roomy'
  BY RoomyHolds
<1>3. HInv /\ Roomy => PayloadFitsBuffer
  <2> SUFFICES ASSUME HInv, Roomy, phase = "exec"
               PROVE  buffer = "ok" /\ input.size <= PayloadMax
    BY DEF PayloadFitsBuffer, Roomy
  <2>1. buffer = "ok" /\ conf.size <= PayloadMax /\ input.size <= conf.size
    BY DEF HInv, GuestOK, Roomy
  <2>2. input.size \in Nat /\ conf.size \in Nat /\ PayloadMax \in Nat
    BY HostAssumption, ForkServerAssumption DEF HInv, TypeInv, HostType
  <2> QED BY <2>1, <2>2
<1> QED BY <1>1, <1>2, <1>3, Inductive, PTL DEF Spec

\* Without persistent mode every wait is watched, helpers or not: from the
\* snapshot on there is always an execution the host can call time on.
THEOREM WaitsAreWatchedInReload ==
  ASSUME ~ allow_persistent
  PROVE  Spec => []WatchdogCoversWaits
<1>1. HInv => WatchdogCoversWaits
  <2> SUFFICES ASSUME HInv, PoweredOn, guest.parent = "wait",
                      guest.child \in {"none", "blocked", "main"}
               PROVE  phase = "exec"
    BY DEF WatchdogCoversWaits
  <2>1. snap # {}
    BY DEF HInv, GuestOK, Starting
  <2>2. mode = "reload"
    BY DEF HInv, HostOK, TypeInv, HostType, Modes
  <2> QED BY <2>1, <2>2 DEF HInv, HostOK
<1> QED BY <1>1, Inductive, PTL

---------------------------------------------------------------------------
\* The steps of the forkserver are steps of FuzzCampaign.

\* What the campaign sees of the host and of the guest.
Stage == CASE phase = "exec" -> "running"
           [] phase \in {"boot", "idle", "ready"} -> "waiting"
           [] OTHER -> "over"
Outcome == IF phase = "exec" THEN guest.out ELSE "running"
Given == [i \in 1..Len(log) |-> log[i].verdict]

\* The pairs of ImplementsCampaign.
Fits(v, o) ==
  <<v, o>> \in Fitting \union (IF Helpers THEN {"ok"} \X (Outcomes \union {"running"}) ELSE {})

\* The four actions of FuzzCampaign in these terms, or none of them.
Advances ==
  \/ Stage = "waiting" /\ Stage' = "running" /\ Outcome' = "running" /\ Given' = Given
  \/ /\ Stage = "running" /\ Outcome = "running" /\ Outcome' \in Outcomes
     /\ Stage' = Stage /\ Given' = Given
  \/ /\ Stage = "running" /\ Stage' \in {"running", "waiting", "over"}
     /\ Outcome' = "running"
     /\ \E v \in Verdicts : Fits(v, Outcome) /\ Given' = Append(Given, v)
  \/ Stage # "over" /\ Stage' = "over" /\ Outcome' = "running" /\ Given' = Given
  \/ Stage' = Stage /\ Outcome' = Outcome /\ Given' = Given

\* They are indeed its actions.
LEMMA CampaignNext ==
  ASSUME Advances
  PROVE  [Campaign!Next]_(Campaign!vars)
BY DEF Campaign!Next, Campaign!Start, Campaign!Decide, Campaign!Verdict, Campaign!Stop,
       Campaign!vars, Advances, Stage, Outcome, Given, Fits, Verdicts

\* A call without effect on an execution may follow a decision of the target.
LEMMA ReturnAdvances ==
  ASSUME NEW g, Inform(g) \/ Misplaced(g),
         phase = "exec" => g.out = guest.out \/ (guest.out = "running" /\ g.out \in Outcomes)
  PROVE  Advances
<1>1. guest' = g /\ phase' = phase /\ log' = log
  BY DEF Inform, Misplaced, hostVars
<1> QED BY <1>1 DEF Advances, Stage, Outcome, Given

\* habort() gives the campaign up.
LEMMA AbortAdvances ==
  ASSUME UserAbort, PoweredOn, phase \in Phases
  PROVE  Advances
<1>1. phase' = "aborted" /\ log' = log
  BY DEF UserAbort
<1> QED BY <1>1 DEF Advances, Stage, Outcome, Given, PoweredOn, Phases

\* A verdict is one of the campaign, and the next execution is undecided.
LEMMA JudgeAdvances ==
  ASSUME HInv, HInv', NEW g, NEW v \in Verdicts, NEW by \in Callers,
         phase = "exec", Judge(v, guest.out, by, g), Fits(v, guest.out)
  PROVE  Advances
<1> DEFINE e == [id |-> input.id, verdict |-> v, why |-> guest.out, by |-> by]
<1>1. log \in Seq(Entries) /\ log' = Append(log, e) /\ e.verdict = v
  BY DEF HInv, TypeInv, HostType, Judge
<1>2. Given' = Append(Given, v)
  <2> HIDE DEF e
  <2>1. Len(log') = Len(log) + 1 /\ Len(log) \in Nat
    BY <1>1
  <2>2. \A i \in 1..Len(log') :
          log'[i].verdict = IF i = Len(log) + 1 THEN v ELSE log[i].verdict
    BY <1>1
  <2> QED BY <2>1, <2>2 DEF Given
<1>3. phase' = "exec" => guest'.out = "running"
  <2>1. phase' = "exec" => \E s \in snap : guest' = s.guest
    BY DEF Judge, Deliver
  <2> QED BY <2>1 DEF HInv, HostOK
<1>4. Stage = "running" /\ Stage' \in {"running", "waiting", "over"} /\ Outcome' = "running"
  BY <1>3 DEF Stage, Outcome
<1>5. Outcome = guest.out
  BY DEF Outcome
<1> QED BY <1>2, <1>4, <1>5 DEF Advances

\* RELEASE, in an execution or not.
LEMMA ReleaseAdvances ==
  ASSUME HInv, HInv', NEW g, NEW by \in Callers, Release(guest.out, by, g),
         phase = "exec" => Fits("ok", guest.out)
  PROVE  Advances
<1>1. CASE phase = "exec"
  BY <1>1, JudgeAdvances DEF Release, Verdicts
<1>2. CASE phase # "exec"
  BY <1>2, ReturnAdvances DEF Release
<1> QED BY <1>1, <1>2

\* Every step, if there is a payload buffer.
LEMMA StepAdvances ==
  ASSUME HInv, HInv', buffer # "null", Next
  PROVE  Advances
<1>g. guest \in Guest /\ guest.out \in Reasons /\ phase \in Phases /\ GuestOK(guest, phase)
  BY DEF HInv, TypeInv, HostType, GoodGuest, Guest, Reasons
<1>h. guest.out # "harness"
  BY <1>g DEF GuestOK
<1>1. CASE Parent
  <2>p. PoweredOn
    BY <1>1 DEF Parent, Setup, AgentInit, AllocPayload, DetectRanges, Fork, Reap, ReportStatus,
                ParentRelease, LoaderAbort
  <2>1. CASE Setup \/ DetectRanges
    <3>1. PICK p \in ParentPCs : UserAbort \/ Inform([guest EXCEPT !.parent = p])
      BY <2>1 DEF Setup, DetectRanges, ParentPCs
    <3>2. [guest EXCEPT !.parent = p].out = guest.out
      BY <1>g DEF Guest
    <3> QED BY <1>g, <2>p, <3>1, <3>2, ReturnAdvances, AbortAdvances
  <2>2. CASE AgentInit \/ AllocPayload
    <3>1. phase # "exec"
      BY <1>g, <2>2 DEF AgentInit, AllocPayload, GuestOK
    <3>2. UserAbort \/ (phase' = phase /\ log' = log)
      BY <2>2 DEF AgentInit, AllocPayload, SetAgentConfig, GetPayload
    <3>3. phase' = phase /\ log' = log => Advances
      BY <3>1 DEF Advances, Stage, Outcome, Given
    <3> QED BY <1>g, <2>p, <3>2, <3>3, AbortAdvances
  <2>3. CASE Fork
    <3>1. phase # "exec"
      BY <1>g, <2>3 DEF Fork, GuestOK
    <3> QED BY <2>3, <3>1, ReturnAdvances DEF Fork
  <2>4. CASE Reap
    <3>1. [guest EXCEPT !.parent = "report", !.status = guest.out,
             !.child = IF @ = "zombie" THEN "none" ELSE @].out = guest.out
      BY <1>g DEF Guest
    <3> QED BY <2>4, <3>1, ReturnAdvances DEF Reap
  <2>5. CASE ReportStatus
    <3>1. guest.status = guest.out /\ (guest.out = "exit101" => allow_persistent)
      BY <1>g, <2>5 DEF ReportStatus, GuestOK, Sane
    <3>2. \/ guest.out = "crash" /\ Report("crash", guest.out, "parent")
          \/ guest.out \in {"exit101", "quit101"} /\ Report("kasan", guest.out, "parent")
          \/ Inform([guest EXCEPT !.parent = "release"])
      BY <1>h, <2>5, <3>1 DEF ReportStatus, PanicStatuses, KasanStatuses
    <3>3. /\ guest.out = "crash" => Fits("crash", guest.out)
          /\ guest.out \in {"exit101", "quit101"} => Fits("kasan", guest.out)
      BY <3>1 DEF Fits, Fitting
    <3>4. [guest EXCEPT !.parent = "release"].out = guest.out
      BY <1>g DEF Guest
    <3>5. {"crash", "kasan"} \subseteq Verdicts /\ "parent" \in Callers
      BY DEF Verdicts, Callers
    <3> QED BY <1>g, <2>p, <3>2, <3>3, <3>4, <3>5, JudgeAdvances, AbortAdvances, ReturnAdvances
      DEF Report
  <2>6. CASE ParentRelease
    <3>1. Fits("ok", guest.out)
      BY <1>g, <2>6 DEF ParentRelease, GuestOK, Sane, Fits, Fitting
    <3> QED BY <2>6, <3>1, ReleaseAdvances DEF ParentRelease, Callers
  <2>7. CASE LoaderAbort
    BY <1>g, <2>7, AbortAdvances DEF LoaderAbort
  <2> QED BY <1>1, <2>1, <2>2, <2>3, <2>4, <2>5, <2>6, <2>7 DEF Parent
<1>2. CASE Child
  <2>1. CASE ChildAcquire
    <3> DEFINE g == [guest EXCEPT !.child = "feed"]
    <3>1. guest.child = "forked" /\ phase # "exec" /\ Fetch("exec", g) /\ PoweredOn
      BY <1>g, <2>1 DEF ChildAcquire, FastAcquire, GuestOK
    <3>2. g.out = "running"
      BY <1>g, <3>1 DEF GuestOK, Sane, Guest
    <3> HIDE DEF g
    <3>3. CASE Misplaced(g)
      BY <3>1, <3>3, ReturnAdvances
    <3>4. CASE phase \in {"boot", "idle"} /\ Deliver(Len(log), "exec", g) /\ log' = log
      <4>1. guest' = g /\ phase' \in {"exec", "done"} /\ log' = log
        BY <3>4 DEF Deliver
      <4> QED BY <3>2, <3>4, <4>1 DEF Advances, Stage, Outcome, Given
    <3> QED BY <3>1, <3>3, <3>4 DEF Fetch
  <2>2. CASE ChildFeed
    <3>1. PICK c, f : \/ UserAbort
                      \/ Inform([guest EXCEPT !.child = c, !.fed = f])
      <4>1. \/ UserAbort
            \/ \E f : Inform([guest EXCEPT !.child = "main", !.fed = f])
            \/ Inform([guest EXCEPT !.child = "blocked"])
        BY <2>2 DEF ChildFeed
      <4>2. [guest EXCEPT !.child = "blocked"] = [guest EXCEPT !.child = "blocked", !.fed = guest.fed]
        BY <1>g DEF Guest
      <4> QED BY <4>1, <4>2
    <3>2. [guest EXCEPT !.child = c, !.fed = f].out = guest.out
      BY <1>g DEF Guest
    <3>3. PoweredOn
      BY <2>2 DEF ChildFeed
    <3> QED BY <1>g, <3>1, <3>2, <3>3, ReturnAdvances, AbortAdvances
  <2>3. CASE SnapshotReload
    <3>1. Fits("ok", guest.out)
      BY <1>g, <2>3 DEF SnapshotReload, GuestOK, Sane, Fits, Fitting
    <3>2. [guest EXCEPT !.child = "zombie"].out = guest.out
      BY <1>g DEF Guest
    <3> QED BY <2>3, <3>1, <3>2, ReleaseAdvances, ReturnAdvances DEF SnapshotReload, Callers
  <2> QED BY <1>2, <2>1, <2>2, <2>3 DEF Child
<1>3. CASE Target
  <2>1. guest.child = "main" /\ guest.out = "running"
    BY <1>g, <1>3 DEF Target, TargetExit, TargetDies, TargetStops, TargetForks, InTarget, GuestOK,
                      Sane
  <2>2. CASE TargetForks
    <3>1. [guest EXCEPT !.helper = "running"].out = guest.out
      BY <1>g DEF Guest
    <3> QED BY <2>2, <3>1, ReturnAdvances DEF TargetForks
  <2>3. CASE TargetExit \/ TargetDies \/ TargetStops
    <3>1. PICK c, o : Inform([guest EXCEPT !.child = c, !.out = o]) /\ o \in Outcomes
      BY <2>3 DEF TargetExit, TargetDies, TargetStops, Outcomes
    <3>2. [guest EXCEPT !.child = c, !.out = o].out = o
      BY <1>g DEF Guest
    <3> QED BY <2>1, <3>1, <3>2, ReturnAdvances
  <2> QED BY <1>3, <2>2, <2>3 DEF Target
<1>4. CASE Helper
  <2>1. Helpers
    BY <1>g, <1>4 DEF Helper, HelperExit, HelperDies, HelperExec, NestedRanges, GuestOK
  <2>2. Fits("ok", guest.out) /\ {"helper", "nested"} \subseteq Callers
    BY <1>g, <2>1 DEF Fits, Reasons, Callers
  <2>3. \A x : [guest EXCEPT !.helper = x].out = guest.out
    BY <1>g DEF Guest
  <2>4. CASE HelperExit
    BY <2>2, <2>3, <2>4, ReleaseAdvances, ReturnAdvances DEF HelperExit
  <2>5. CASE HelperDies
    BY <2>3, <2>5, ReturnAdvances DEF HelperDies
  <2>6. CASE HelperExec
    BY <2>2, <2>6, ReleaseAdvances DEF HelperExec
  <2>7. CASE NestedRanges
    BY <1>g, <2>7, AbortAdvances DEF NestedRanges
  <2> QED BY <1>4, <2>4, <2>5, <2>6, <2>7 DEF Helper
<1>5. CASE Timeout
  <2>1. Fits("timeout", guest.out) /\ "timeout" \in Verdicts /\ "host" \in Callers
    BY <1>g DEF Fits, Fitting, Reasons, Verdicts, Callers
  <2> QED BY <1>5, <2>1, JudgeAdvances DEF Timeout, HostTimeout
<1>6. CASE Terminated
  BY <1>6 DEF Terminated, vars, Advances, Stage, Outcome, Given
<1> QED BY <1>1, <1>2, <1>3, <1>4, <1>5, <1>6 DEF Next

\* The safety part of ImplementsCampaign: every step of the parent, the child,
\* the target, its helpers and the host is one of FuzzCampaign or leaves it
\* where it is, wherever the payload buffer could be allocated.
THEOREM StepsAreOfCampaign ==
  ASSUME "alloc" \notin Faults
  PROVE  Spec => Campaign!Init /\ [][Campaign!Next]_(Campaign!vars)
<1>1. Init => buffer # "null" /\ Campaign!Init
  <2> SUFFICES ASSUME Init PROVE buffer # "null" /\ Campaign!Init
    OBVIOUS
  <2>1. buffer = "none" /\ phase = "boot" /\ Len(log) = 0
    BY DEF Init, HostInit, HostStarts
  <2>2. [i \in 1..Len(log) |-> log[i].verdict] = <<>>
    BY <2>1
  <2> QED BY <2>1, <2>2 DEF Campaign!Init
<1>2. buffer # "null" /\ [Next]_vars => (buffer # "null")'
  BY BufferStays DEF AllocPayload, GetPayload
<1>3. HInv /\ HInv' /\ buffer # "null" /\ [Next]_vars => [Campaign!Next]_(Campaign!vars)
  <2> SUFFICES ASSUME HInv, HInv', buffer # "null", [Next]_vars
               PROVE  [Campaign!Next]_(Campaign!vars)
    OBVIOUS
  <2>1. Advances
    <3>1. CASE UNCHANGED vars
      BY <3>1 DEF vars, Advances, Stage, Outcome, Given
    <3> QED BY <3>1, StepAdvances
  <2> QED BY <2>1, CampaignNext
<1>4. Spec => []HInv /\ [](buffer # "null")
  BY <1>1, <1>2, Inductive, PTL DEF Spec
<1> QED BY <1>1, <1>3, <1>4, PTL DEF Spec

============================================================================
