------------------------------ MODULE Ranges ------------------------------
(***************************************************************************)
(* How instruction-pointer ranges get to the host: `vmcall hrange' takes   *)
(* them from its command line and rounds them to pages, the forkserver     *)
(* takes them from the lines of /proc/self/maps.  One tool runs; its next  *)
(* argument, or line, is chosen when it is read.                           *)
(***************************************************************************)
EXTENDS Naturals, Sequences

CONSTANTS
  PageSize,  \* PAGE_SIZE
  Top,       \* 2^64: addresses are uint64_t and wrap around
  Addrs,     \* the addresses that are given
  Ids,       \* the range ids that are given
  MaxArgs,   \* bound: the arguments, or lines, read
  Tools      \* the tools to consider

ASSUME RangesAssumption ==
  /\ PageSize \in Nat \ {0} /\ Top \in Nat
  /\ Top % PageSize = 0
  /\ Addrs \subseteq 0..(Top - 1) /\ Ids \subseteq Nat
  /\ MaxArgs \in Nat
  /\ Tools \subseteq {"vmcall", "hrange", "forkserver"}

VARIABLES
  tool,       \* how the program was called: vmcall hrange, hrange, or forkserver
  accepted,   \* the arguments, or lines, that led to a submission, as given
  submitted,  \* the ranges of the RANGE_SUBMIT calls
  failed,     \* an argument was refused
  exit        \* "running", or how the program has ended

vars == <<tool, accepted, submitted, failed, exit>>

Args == [id : Ids, start : Addrs, end : Addrs]

Init ==
  /\ tool \in Tools
  /\ accepted = <<>> /\ submitted = <<>>
  /\ failed = FALSE
  /\ exit = "running"

Reads(t) == exit = "running" /\ ~ failed /\ Len(accepted) < MaxArgs /\ tool \in t

---------------------------------------------------------------------------
\* cmd_hrange()

\* Variant: the next page always.
RoundUp_Always(a) == ((a \div PageSize + 1) * PageSize) % Top
RoundUp(a)   == IF a % PageSize # 0 THEN ((a \div PageSize + 1) * PageSize) % Top ELSE a
RoundDown(a) == a - (a % PageSize)

Valid(a) == a.id <= 3 /\ a.start < a.end

\* hrange_submit() and RANGE_SUBMIT.
Submit(a, r) ==
  /\ accepted'  = Append(accepted, a)
  /\ submitted' = Append(submitted, r)

SubmitArgument ==
  /\ Reads({"vmcall", "hrange"})
  /\ \E a \in Args :
       /\ Valid(a)
       /\ Submit(a, [id |-> a.id, start |-> RoundDown(a.start), end |-> RoundUp(a.end)])
  /\ UNCHANGED <<tool, failed, exit>>

\* An argument that does not parse, or is not valid: what was submitted stays.
RefuseArgument ==
  /\ Reads({"vmcall", "hrange"})
  /\ failed' = TRUE
  /\ UNCHANGED <<tool, accepted, submitted, exit>>

\* The status main() returns: cmd_vmcall() takes -EINVAL for a command it does
\* not know, prints the usage and returns 0.
Status(t) == IF failed /\ t = "hrange" THEN "EINVAL" ELSE "0"

ExitVmcall ==
  /\ exit = "running" /\ tool \in {"vmcall", "hrange"}
  /\ exit' = Status(tool)
  /\ UNCHANGED <<tool, accepted, submitted, failed>>

---------------------------------------------------------------------------
\* detectranges()

\* The id of a mapping that matches is the number of those before it.
Region == Len(submitted)

SubmitMapping ==
  /\ Reads({"forkserver"})
  /\ \E a \in Args :
       /\ a.start < a.end
       /\ Submit(a, [id |-> Region, start |-> a.start, end |-> a.end])
  /\ UNCHANGED <<tool, failed, exit>>

\* At the end of the file, forkserver() aborts if nothing has matched.
ExitDetect ==
  /\ exit = "running" /\ tool = "forkserver"
  /\ exit' = IF Region < 1 THEN "abort" ELSE "ok"
  /\ UNCHANGED <<tool, accepted, submitted, failed>>

Ended == exit # "running" /\ UNCHANGED vars

Next == SubmitArgument \/ RefuseArgument \/ ExitVmcall \/ SubmitMapping \/ ExitDetect
          \/ Ended

Spec == Init /\ [][Next]_vars

---------------------------------------------------------------------------
\* Properties.

\* The pages from s to e are the fewest that hold every address from a to b - 1.
FewestPages(s, e, a, b) ==
  /\ s % PageSize = 0 /\ e % PageSize = 0
  /\ s <= a /\ a < s + PageSize
  /\ b <= e /\ e < b + PageSize

\* What `vmcall hrange' submits are the fewest whole pages that cover the range
\* it was given, as long as that does not reach into the last page there is.
SubmitsFewestPages ==
  tool # "forkserver" =>
    \A i \in 1..Len(accepted) :
      accepted[i].end <= Top - PageSize =>
        FewestPages(submitted[i].start, submitted[i].end, accepted[i].start, accepted[i].end)

\* cmd_hrange() compares the start with the end before it rounds both: rounding never
\* turns a range round, and makes none empty, but for an end in the last page, where
\* the sum wraps and the range ends at 0.
OnlyTopWraps ==
  tool # "forkserver" =>
    \A i \in 1..Len(submitted) :
      IF accepted[i].end > Top - PageSize THEN submitted[i].end = 0
      ELSE submitted[i].start < submitted[i].end

============================================================================
