--------------------------- MODULE Ranges_proofs ---------------------------
(***************************************************************************)
(* Proofs about Ranges, for every size of a page and of the address space. *)
(***************************************************************************)
EXTENDS Ranges, TLAPS

\* Division with remainder, for any size of a page.
LEMMA DivMod ==
  ASSUME NEW p \in Nat \ {0}, NEW a \in Nat
  PROVE  /\ a \div p \in Nat /\ a % p \in 0..(p - 1)
         /\ a = (p * (a \div p)) + (a % p)
OBVIOUS

\* A multiple has no remainder.
LEMMA ModOfMultiple ==
  ASSUME NEW p \in Nat \ {0}, NEW k \in Nat
  PROVE  (k * p) % p = 0
OBVIOUS

\* Between two multiples there is room for a whole page.
LEMMA MultipleOrder ==
  ASSUME NEW p \in Nat \ {0}, NEW k \in Nat, NEW m \in Nat, k * p < m * p
  PROVE  (k + 1) * p <= m * p
OBVIOUS

\* cmd_hrange() rounds the start down to the page that holds it.
LEMMA RoundDownPage ==
  ASSUME NEW a \in Nat
  PROVE  /\ RoundDown(a) \in Nat
         /\ RoundDown(a) % PageSize = 0
         /\ RoundDown(a) <= a /\ a < RoundDown(a) + PageSize
<1>1. /\ a \div PageSize \in Nat /\ a % PageSize \in 0..(PageSize - 1)
      /\ a = (PageSize * (a \div PageSize)) + (a % PageSize)
  BY DivMod, RangesAssumption
<1>2. RoundDown(a) = (a \div PageSize) * PageSize
  BY <1>1, RangesAssumption DEF RoundDown
<1>3. RoundDown(a) % PageSize = 0
  BY <1>1, <1>2, ModOfMultiple, RangesAssumption
<1> QED BY <1>1, <1>2, <1>3, RangesAssumption

\* It rounds the end up to the next page boundary, unless that is 2^64.
LEMMA RoundUpPage ==
  ASSUME NEW a \in Nat, a <= Top - PageSize
  PROVE  /\ RoundUp(a) \in Nat
         /\ RoundUp(a) % PageSize = 0
         /\ a <= RoundUp(a) /\ RoundUp(a) < a + PageSize
<1> DEFINE k == a \div PageSize
           up == (k + 1) * PageSize
<1>1. /\ k \in Nat /\ a % PageSize \in 0..(PageSize - 1)
      /\ a = (PageSize * k) + (a % PageSize)
  BY DivMod, RangesAssumption
<1>2. CASE a % PageSize = 0
  BY <1>2, RangesAssumption DEF RoundUp
<1>3. CASE a % PageSize # 0
  <2>1. PICK t \in Nat : Top = t * PageSize
    <3> DEFINE m == Top \div PageSize
    <3>1. Top = (PageSize * m) + (Top % PageSize) /\ m \in Nat
      BY DivMod, RangesAssumption
    <3>2. Top = m * PageSize
      BY <3>1, RangesAssumption
    <3> HIDE DEF m
    <3> QED BY <3>1, <3>2
  <2>2. k * PageSize < (t - 1) * PageSize /\ t - 1 \in Nat
    <3>1. k * PageSize < a /\ (t - 1) * PageSize = Top - PageSize
      BY <1>1, <1>3, <2>1, RangesAssumption
    <3>2. t # 0
      BY <2>1, RangesAssumption
    <3> QED BY <3>1, <3>2, <1>1, <2>1, RangesAssumption
  <2>3. up <= (t - 1) * PageSize
    BY <2>2, <1>1, MultipleOrder, RangesAssumption
  <2>4. up \in Nat /\ up < Top /\ up = (k * PageSize) + PageSize
    BY <2>1, <2>2, <2>3, <1>1, RangesAssumption
  <2>5. RoundUp(a) = up
    BY <2>4, <1>3, RangesAssumption DEF RoundUp
  <2>6. up % PageSize = 0
    BY <1>1, ModOfMultiple, RangesAssumption
  <2> QED BY <2>4, <2>5, <2>6, <1>1, <1>3, RangesAssumption
<1> QED BY <1>1, <1>2, <1>3, RangesAssumption

\* What an argument holds.
LEMMA ArgType ==
  ASSUME NEW a \in Args
  PROVE  a.id \in Nat /\ a.start \in Nat /\ a.end \in Nat /\ Top \in Nat \ {0}
<1>1. a.id \in Ids /\ a.start \in Addrs /\ a.end \in Addrs
  BY DEF Args
<1>2. a.id \in Nat /\ a.start \in 0..(Top - 1) /\ a.end \in 0..(Top - 1)
  BY <1>1, RangesAssumption
<1> QED BY <1>2, RangesAssumption

\* Rounding yields a number, also when it wraps around.
LEMMA RoundUpType ==
  ASSUME NEW a \in Nat, Top \in Nat \ {0}
  PROVE  RoundUp(a) \in Nat
<1> DEFINE up == (a \div PageSize + 1) * PageSize
<1>1. up \in Nat
  BY DivMod, RangesAssumption
<1>2. up % Top \in Nat
  BY <1>1, DivMod
<1> QED BY <1>2 DEF RoundUp

---------------------------------------------------------------------------
\* What is accepted and what is submitted go together.
IInv ==
  /\ accepted \in Seq(Args)
  /\ submitted \in Seq([id : Nat, start : Nat, end : Nat])
  /\ Len(accepted) = Len(submitted)
  /\ SubmitsFewestPages

\* Every step of the two programs keeps it.
LEMMA NextIInv == IInv /\ [Next]_vars => IInv'
<1> SUFFICES ASSUME IInv, [Next]_vars PROVE IInv'
  OBVIOUS
<1> USE DEF IInv
<1>1. CASE UNCHANGED vars
  BY <1>1 DEF vars, SubmitsFewestPages
<1>2. CASE SubmitArgument
  <2> USE <1>2 DEF SubmitArgument, Reads
  <2>1. PICK a \in Args : 
          Submit(a, [id |-> a.id, start |-> RoundDown(a.start), end |-> RoundUp(a.end)])
    OBVIOUS
  <2>2. a.id \in Nat /\ a.start \in Nat /\ a.end \in Nat /\ Top \in Nat \ {0}
    BY <2>1, ArgType
  <2>3. RoundDown(a.start) \in Nat /\ RoundUp(a.end) \in Nat
    BY <2>2, RoundDownPage, RoundUpType
  <2>4. a.end <= Top - PageSize =>
          FewestPages(RoundDown(a.start), RoundUp(a.end), a.start, a.end)
    BY <2>2, RoundDownPage, RoundUpPage DEF FewestPages
  <2>5. SubmitsFewestPages'
    BY <2>1, <2>2, <2>3, <2>4 DEF SubmitsFewestPages, Submit, Args
  <2> QED BY <2>1, <2>2, <2>3, <2>5 DEF Submit
<1>3. CASE RefuseArgument
  BY <1>3 DEF RefuseArgument, SubmitsFewestPages
<1>4. CASE ExitVmcall
  BY <1>4 DEF ExitVmcall, SubmitsFewestPages
<1>5. CASE SubmitMapping
  <2>1. PICK a \in Args : Submit(a, [id |-> Region, start |-> a.start, end |-> a.end])
    BY <1>5 DEF SubmitMapping
  <2>2. a.start \in Nat /\ a.end \in Nat
    BY <2>1, ArgType
  <2>3. tool = "forkserver" /\ tool' = tool
    BY <1>5 DEF SubmitMapping, Reads
  <2> QED BY <2>1, <2>2, <2>3 DEF Submit, Region, SubmitsFewestPages
<1>6. CASE ExitDetect
  BY <1>6 DEF ExitDetect, SubmitsFewestPages
<1> QED BY <1>1, <1>2, <1>3, <1>4, <1>5, <1>6 DEF Next, Ended

\* Every range that `vmcall hrange' submits is made of the fewest pages that
\* cover what it was given, whatever the size of a page, unless the end lies in
\* the last page of the address space.
THEOREM FewestPagesSubmitted == Spec => []SubmitsFewestPages
<1>1. Init => IInv
  BY DEF Init, IInv, SubmitsFewestPages
<1>2. IInv => SubmitsFewestPages
  BY DEF IInv
<1> QED BY <1>1, <1>2, NextIInv, PTL DEF Spec

---------------------------------------------------------------------------
\* Where the rounding wraps around.

\* Behind the last page boundary the end of a range is rounded to 2^64, which is 0.
LEMMA RoundUpWraps ==
  ASSUME NEW a \in Nat, a < Top, a > Top - PageSize
  PROVE  RoundUp(a) = 0
<1> DEFINE k == a \div PageSize
           m == Top \div PageSize
<1>1. /\ k \in Nat /\ a % PageSize \in 0..(PageSize - 1)
      /\ a = (PageSize * k) + (a % PageSize)
  BY DivMod, RangesAssumption
<1>2. m \in Nat /\ Top = m * PageSize
  <2>1. m \in Nat /\ Top = (PageSize * m) + (Top % PageSize)
    BY DivMod, RangesAssumption
  <2> HIDE DEF m
  <2> QED BY <2>1, RangesAssumption
<1> HIDE DEF k, m
<1>3. k + 1 = m
  <2>1. k * PageSize < m * PageSize
    BY <1>1, <1>2, RangesAssumption
  <2>2. (k + 1) * PageSize <= m * PageSize
    BY <1>1, <1>2, <2>1, MultipleOrder, RangesAssumption
  <2>3. (k * PageSize) + (a % PageSize) > m * PageSize - PageSize
    BY <1>1, <1>2, RangesAssumption
  <2>4. (m - 1) * PageSize = m * PageSize - PageSize /\ m - 1 \in Nat
    <3>1. m # 0
      BY <1>2, RangesAssumption
    <3> QED BY <1>2, <3>1, RangesAssumption
  <2>5. (k + 1) * PageSize = k * PageSize + PageSize
    BY <1>1, RangesAssumption
  <2>6. (m - 1) * PageSize < (k + 1) * PageSize
    BY <1>1, <1>2, <2>3, <2>4, <2>5, RangesAssumption
  <2>7. ((m - 1) + 1) * PageSize <= (k + 1) * PageSize
    BY <1>1, <2>4, <2>6, MultipleOrder, RangesAssumption
  <2>8. m * PageSize = (k + 1) * PageSize
    BY <1>1, <1>2, <2>2, <2>7, RangesAssumption
  <2>9. ~ (k + 1 < m) /\ ~ (m < k + 1)
    <3>1. \A p \in Nat \ {0} : \A i, j \in Nat : i < j => i * p < j * p
      OBVIOUS
    <3> QED BY <1>1, <1>2, <2>8, <3>1, RangesAssumption
  <2> QED BY <1>1, <1>2, <2>9
<1>4. a % PageSize # 0
  <2>1. a % PageSize = 0 => a = k * PageSize
    BY <1>1, RangesAssumption
  <2>2. k * PageSize = m * PageSize - PageSize
    BY <1>1, <1>2, <1>3, RangesAssumption
  <2> QED BY <1>2, <2>1, <2>2, RangesAssumption
<1>5. RoundUp(a) = Top % Top
  BY <1>2, <1>3, <1>4 DEF RoundUp, k
<1>6. Top \in Nat \ {0}
  BY RangesAssumption
<1>7. (1 * Top) % Top = 0
  BY <1>6, ModOfMultiple
<1> QED BY <1>5, <1>6, <1>7

\* Rounding outwards never turns a range round, for any size of a page and of the address
\* space, but for the one that FewestPagesSubmitted leaves out: that one ends at 0.
THEOREM OneRangeWraps == Spec => []OnlyTopWraps
<1>1. Init => IInv /\ OnlyTopWraps
  BY DEF Init, IInv, SubmitsFewestPages, OnlyTopWraps
<1>2. IInv /\ OnlyTopWraps /\ [Next]_vars => OnlyTopWraps'
  <2> SUFFICES ASSUME IInv, OnlyTopWraps, [Next]_vars, tool # "forkserver" PROVE OnlyTopWraps'
    BY DEF OnlyTopWraps, Next, SubmitArgument, RefuseArgument, ExitVmcall, SubmitMapping, ExitDetect,
       Ended, vars
  <2>1. CASE SubmitArgument
    <3> DEFINE r(a) == [id |-> a.id, start |-> RoundDown(a.start), end |-> RoundUp(a.end)]
    <3>1. PICK a \in Args : Valid(a) /\ Submit(a, r(a))
      BY <2>1 DEF SubmitArgument
    <3>2. /\ a.id \in Nat /\ a.start \in Nat /\ a.end \in Nat /\ Top \in Nat \ {0}
          /\ a.start < a.end /\ a.id <= 3 /\ a.end < Top
      <4>1. a.end \in 0..(Top - 1)
        BY RangesAssumption DEF Args
      <4> QED BY <3>1, <4>1, ArgType DEF Valid
    <3>3. RoundDown(a.start) \in Nat /\ RoundUp(a.end) \in Nat
      BY <3>2, RoundDownPage, RoundUpType
    <3>4. IF a.end > Top - PageSize THEN RoundUp(a.end) = 0
          ELSE RoundDown(a.start) < RoundUp(a.end)
      <4>1. CASE a.end <= Top - PageSize
        <5>1. RoundDown(a.start) <= a.start /\ a.end <= RoundUp(a.end)
          BY <3>2, <4>1, RoundDownPage, RoundUpPage
        <5>2. ~ (a.end > Top - PageSize)
          BY <3>2, <4>1, RangesAssumption
        <5> QED BY <3>2, <3>3, <5>1, <5>2
      <4>2. CASE a.end > Top - PageSize
        BY <3>2, <4>2, RoundUpWraps
      <4> QED BY <3>2, <4>1, <4>2, RangesAssumption
    <3> DEFINE s == r(a)
    <3>5. /\ s \in [id : Nat, start : Nat, end : Nat] /\ s.id = a.id
          /\ s.start = RoundDown(a.start) /\ s.end = RoundUp(a.end)
      BY <3>2, <3>3
    <3>6. accepted' = Append(accepted, a) /\ submitted' = Append(submitted, s)
      BY <3>1 DEF Submit
    <3> HIDE DEF s
    <3> SUFFICES ASSUME NEW i \in 1..Len(submitted')
                 PROVE  IF accepted'[i].end > Top - PageSize THEN submitted'[i].end = 0
                        ELSE submitted'[i].start < submitted'[i].end
      BY DEF OnlyTopWraps
    <3>7. /\ accepted \in Seq(Args) /\ submitted \in Seq([id : Nat, start : Nat, end : Nat])
          /\ Len(accepted) = Len(submitted) /\ Len(submitted) \in Nat
      BY DEF IInv
    <3>8. CASE i = Len(submitted) + 1
      <4>1. submitted'[i] = s /\ accepted'[i] = a
        BY <3>5, <3>6, <3>7, <3>8
      <4> QED BY <3>2, <3>4, <3>5, <4>1
    <3>9. CASE i \in 1..Len(submitted)
      <4>1. submitted'[i] = submitted[i] /\ accepted'[i] = accepted[i]
        BY <3>5, <3>6, <3>7, <3>9
      <4> QED BY <3>9, <4>1 DEF OnlyTopWraps
    <3> QED BY <3>5, <3>6, <3>7, <3>8, <3>9
  <2>2. CASE UNCHANGED <<accepted, submitted>>
    BY <2>2 DEF OnlyTopWraps
  <2> QED BY <2>1, <2>2 DEF Next, RefuseArgument, ExitVmcall, SubmitMapping, Reads, ExitDetect, Ended, vars
<1> QED BY <1>1, <1>2, NextIInv, PTL DEF Spec

============================================================================
