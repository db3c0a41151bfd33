--------------------------- MODULE FuzzCampaign ---------------------------
(***************************************************************************)
(* What an agent promises the fuzzer, with no process, hypercall or        *)
(* snapshot: payloads are executed one at a time; what the target makes of *)
(* a payload is decided once; and the execution is judged once, by a       *)
(* verdict that fits it.                                                   *)
(***************************************************************************)
EXTENDS Naturals, Sequences

CONSTANTS
  Outcomes,  \* what a target can make of a payload, apart from "running"
  Fitting    \* the pairs <<v, o>> such that v is a right verdict for outcome o

VARIABLES
  stage,    \* "waiting" for a payload | "running" | "over"
  outcome,  \* of the current execution: "running" until it is decided
  verdicts  \* the verdict of every execution judged so far

vars == <<stage, outcome, verdicts>>

Init ==
  /\ stage    = "waiting"
  /\ outcome  = "running"
  /\ verdicts = <<>>

\* A payload is delivered and its execution begins.
Start ==
  /\ stage = "waiting"
  /\ stage' = "running"
  /\ outcome' = "running"
  /\ UNCHANGED verdicts

\* The target has had its effect: the outcome will not change any more.
Decide ==
  /\ stage = "running" /\ outcome = "running"
  /\ outcome' \in Outcomes
  /\ UNCHANGED <<stage, verdicts>>

\* The execution is judged.  With a snapshot the next one begins at once.
Verdict ==
  /\ stage = "running"
  /\ \E v \in {"ok", "crash", "kasan", "timeout"} :
       <<v, outcome>> \in Fitting /\ verdicts' = Append(verdicts, v)
  /\ stage' \in {"running", "waiting", "over"}
  /\ outcome' = "running"

\* The agent gives up, or the fuzzer stops.
Stop ==
  /\ stage # "over"
  /\ stage' = "over"
  /\ outcome' = "running"
  /\ UNCHANGED verdicts

Next == Start \/ Decide \/ Verdict \/ Stop

\* A running execution is judged, or the campaign is given up.
Fairness == WF_vars(Verdict \/ Stop)

Spec == Init /\ [][Next]_vars /\ Fairness

============================================================================
