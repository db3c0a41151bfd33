------------------------------ MODULE NyxHost ------------------------------
(***************************************************************************)
(* The host side of the kAFL/Nyx hypercall interface (QEMU-Nyx and the     *)
(* kAFL fuzzer), as the guest agents of this repository use it.  The host  *)
(* is not part of the repository: nyx_api.h only numbers its hypercalls,   *)
(* and what each one does is taken from how the agents call it.            *)
(*                                                                         *)
(* A hypercall is an operator that an action of a guest uses to say what   *)
(* becomes of the host.  Its argument g is the state in which the guest    *)
(* resumes if the call returns to it: a call that restores the snapshot    *)
(* replaces the WHOLE guest by the one that was saved, and one that powers *)
(* the virtual machine off never returns.                                  *)
(***************************************************************************)
EXTENDS Naturals, Sequences

CONSTANTS
  MaxPayloads,  \* bound: payloads the fuzzer supplies before it is stopped
  Sizes,        \* the sizes a payload may have, in blocks
  HostConfigs   \* the configurations a host may answer GET_HOST_CONFIG with

\* host_config_t: whether magic and version are the ones nyx_api.h defines, and
\* payload_buffer_size in blocks.
ASSUME HostAssumption ==
  /\ MaxPayloads \in Nat \ {0}
  /\ Sizes \subseteq Nat \ {0}
  /\ HostConfigs \subseteq [magic : BOOLEAN, version : BOOLEAN, size : Nat]
  /\ \A c \in HostConfigs : \E s \in Sizes : s <= c.size

VARIABLES
  guest,   \* everything the guest VM holds: processes, memory, files
  conf,    \* the configuration of this host
  phase,   \* how far the host has come
  mode,    \* what RELEASE does: restore the snapshot, or let the guest go on
  buffer,  \* the payload buffer the agent has registered
  snap,    \* {} or { the snapshot: the guest, and the phase it resumes in }
  input,   \* the payload in the buffer: a number and a size
  log,     \* one record for every execution the host has judged, in order
  stray    \* TRUE after a hypercall that fits no execution

hostVars == <<conf, phase, mode, buffer, snap, input, log, stray>>

Phases   == {"boot",     \* no payload asked for yet
             "ready",    \* a payload is delivered, its execution not begun
             "exec",     \* between ACQUIRE and the end of the execution
             "idle",     \* persistent mode: released, next payload not asked
             "done",     \* the fuzzer has been stopped
             "aborted"}  \* USER_ABORT: the VM is off
Modes    == {"reload", "persistent"}
Verdicts == {"ok", "crash", "kasan", "timeout"}

\* The host before the agent starts: it restores the snapshot at RELEASE, unless
\* it was started for agents that cannot be asked.
HostStarts(modes) ==
  /\ conf \in HostConfigs
  /\ phase  = "boot"
  /\ mode   \in modes
  /\ buffer = "none"
  /\ snap   = {}
  /\ input  = [id |-> 0, size |-> 0]
  /\ log    = <<>>
  /\ stray  = FALSE
HostInit == HostStarts({"reload"})

PoweredOn == phase \notin {"done", "aborted"}

---------------------------------------------------------------------------
\* Calls that do not begin or end an execution.

\* HYPERCALL_KAFL_USER_ABORT: the VM is powered off.
UserAbort ==
  /\ phase' = "aborted"
  /\ UNCHANGED <<conf, guest, mode, buffer, snap, input, log, stray>>

\* HYPERCALL_KAFL_SET_AGENT_CONFIG: the host may use persistent mode only if
\* the agent offers it in agent_non_reload_mode.
SetAgentConfig(nonReload, g) ==
  /\ mode' \in IF nonReload THEN Modes ELSE {"reload"}
  /\ guest' = g
  /\ UNCHANGED <<conf, phase, buffer, snap, input, log, stray>>

\* HYPERCALL_KAFL_GET_PAYLOAD registers the payload buffer.
GetPayload(b, g) ==
  /\ buffer' = b
  /\ guest'  = g
  /\ UNCHANGED <<conf, phase, mode, snap, input, log, stray>>

\* A call that only the host looks at (PRINTF, RANGE_SUBMIT, ...).
Inform(g) == guest' = g /\ UNCHANGED hostVars

\* A call made where the protocol has no place for it.
Misplaced(g) ==
  /\ stray' = TRUE
  /\ guest' = g
  /\ UNCHANGED <<conf, phase, mode, buffer, snap, input, log>>

---------------------------------------------------------------------------
\* Calls that begin an execution.

\* Payload number n + 1 is written to the buffer and the guest resumes as g;
\* with no payload left the fuzzer stops.
Deliver(n, p, g) ==
  IF n < MaxPayloads
  THEN /\ \E s \in {k \in Sizes : k <= conf.size} :
            input' = [id |-> n + 1, size |-> s]
       /\ phase' = p
       /\ guest' = g
  ELSE /\ phase' = "done"
       /\ guest' = g
       /\ UNCHANGED input

\* The guest asks for a payload: the first time, it is saved as the snapshot.
Fetch(p, g) ==
  \/ /\ phase \in {"boot", "idle"}
     /\ snap' = IF snap = {} THEN {[guest |-> g, phase |-> p]} ELSE snap
     /\ Deliver(Len(log), p, g)
     /\ UNCHANGED <<conf, mode, buffer, log, stray>>
  \/ /\ phase \notin {"boot", "idle"}
     /\ Misplaced(g)

\* HYPERCALL_KAFL_NEXT_PAYLOAD
NextPayload(g) == Fetch("ready", g)

\* HYPERCALL_KAFL_USER_FAST_ACQUIRE: NEXT_PAYLOAD and ACQUIRE in one call.
FastAcquire(g) == Fetch("exec", g)

\* HYPERCALL_KAFL_ACQUIRE: tracing starts.  Before the first payload it is
\* the first half of the handshake; during an execution it has no effect.
Acquire(g) ==
  \/ /\ phase = "ready"
     /\ phase' = "exec"
     /\ guest' = g
     /\ UNCHANGED <<conf, mode, buffer, snap, input, log, stray>>
  \/ phase \in {"boot", "exec"} /\ Inform(g)
  \/ phase \notin {"boot", "ready", "exec"} /\ Misplaced(g)

---------------------------------------------------------------------------
\* Calls that end an execution.

\* The host judges the running execution.  Only a regular end in persistent
\* mode lets the guest go on as g; otherwise the snapshot is restored, with
\* the next payload in the buffer.  `by' and `why' are history: the process
\* that called, and what the target had done when it did.
Judge(v, why, by, g) ==
  /\ log' = Append(log, [id |-> input.id, verdict |-> v, why |-> why, by |-> by])
  /\ \/ /\ mode = "persistent" /\ v = "ok"
        /\ phase' = "idle"
        /\ guest' = g
        /\ UNCHANGED input
     \/ /\ ~ (mode = "persistent" /\ v = "ok")
        /\ \E s \in snap : Deliver(Len(log) + 1, s.phase, s.guest)
  /\ UNCHANGED <<conf, mode, buffer, snap, stray>>

\* HYPERCALL_KAFL_RELEASE.  Before the first payload it completes the
\* handshake and changes nothing.
Release(why, by, g) ==
  \/ phase = "boot" /\ Inform(g)
  \/ phase = "exec" /\ Judge("ok", why, by, g)
  \/ phase \notin {"boot", "exec"} /\ Misplaced(g)

\* HYPERCALL_KAFL_PANIC and HYPERCALL_KAFL_KASAN never return to the guest;
\* outside an execution there is nothing to report and no way to go on.
Report(v, why, by) ==
  \/ phase = "exec" /\ Judge(v, why, by, guest)
  \/ phase # "exec" /\ UserAbort

\* The host ends an execution that takes too long, whatever the guest does.
HostTimeout(why) ==
  /\ phase = "exec"
  /\ Judge("timeout", why, "host", guest)

============================================================================
