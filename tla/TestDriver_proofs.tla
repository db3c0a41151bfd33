------------------------- MODULE TestDriver_proofs -------------------------
(***************************************************************************)
(* Proofs about TestDriver, for any number of loads, of other drivers, of  *)
(* failing calls and of payloads.                                          *)
(***************************************************************************)
EXTENDS TestDriver, FiniteSetTheorems, TLAPS

---------------------------------------------------------------------------
\* Sequences.

\* Append() adds one element at the end.
LEMMA AppendSeq ==
  ASSUME NEW S, NEW s \in Seq(S), NEW e \in S
  PROVE  /\ Append(s, e) \in Seq(S)
         /\ Len(Append(s, e)) = Len(s) + 1
         /\ \A j \in 1..Len(s) : Append(s, e)[j] = s[j]
         /\ Append(s, e)[Len(s) + 1] = e
OBVIOUS

\* One sequence behind another.
LEMMA ConcatSeq ==
  ASSUME NEW S, NEW s \in Seq(S), NEW t \in Seq(S)
  PROVE  /\ s \o t \in Seq(S)
         /\ Len(s \o t) = Len(s) + Len(t)
         /\ \A j \in 1..Len(s) + Len(t) :
              (s \o t)[j] = IF j <= Len(s) THEN s[j] ELSE t[j - Len(s)]
OBVIOUS

\* RemoveAt() takes one element out; those behind it move up.
LEMMA RemoveAtSeq ==
  ASSUME NEW S, NEW s \in Seq(S), NEW i \in 1..Len(s)
  PROVE  /\ RemoveAt(s, i) \in Seq(S)
         /\ Len(RemoveAt(s, i)) = Len(s) - 1
         /\ \A j \in 1..Len(s) - 1 : RemoveAt(s, i)[j] = IF j < i THEN s[j] ELSE s[j + 1]
<1> DEFINE a == SubSeq(s, 1, i - 1)
           b == SubSeq(s, i + 1, Len(s))
<1>1. a \in Seq(S) /\ Len(a) = i - 1 /\ \A j \in 1..i - 1 : a[j] = s[j]
  OBVIOUS
<1>2. b \in Seq(S) /\ Len(b) = Len(s) - i /\ \A j \in 1..Len(s) - i : b[j] = s[i + j]
  OBVIOUS
<1>3. RemoveAt(s, i) = a \o b
  BY DEF RemoveAt
<1> HIDE DEF a, b
<1>4. /\ a \o b \in Seq(S) /\ Len(a \o b) = Len(a) + Len(b)
      /\ \A j \in 1..Len(a) + Len(b) : (a \o b)[j] = IF j <= Len(a) THEN a[j] ELSE b[j - Len(a)]
  BY <1>1, <1>2, ConcatSeq
<1>5. Len(a) + Len(b) = Len(s) - 1
  BY <1>1, <1>2
<1>6. ASSUME NEW j \in 1..Len(s) - 1
      PROVE  (a \o b)[j] = IF j < i THEN s[j] ELSE s[j + 1]
  <2>1. CASE j < i
    BY <1>1, <1>4, <1>5, <2>1
  <2>2. CASE ~ (j < i)
    <3>1. (a \o b)[j] = b[j - (i - 1)] /\ j - (i - 1) \in 1..Len(s) - i
      BY <1>1, <1>2, <1>4, <1>5, <2>2
    <3>2. b[j - (i - 1)] = s[i + (j - (i - 1))] /\ i + (j - (i - 1)) = j + 1
      BY <1>2, <3>1
    <3> QED BY <3>1, <3>2, <2>2
  <2> QED BY <2>1, <2>2
<1> QED BY <1>3, <1>4, <1>5, <1>6

\* A list that is a prefix of another agrees with it.
LEMMA PrefixAgrees ==
  ASSUME NEW S, NEW s \in Seq(S), NEW t \in Seq(S), IsPrefix(s, t), NEW i \in 1..Len(s)
  PROVE  s[i] = t[i]
<1>1. SubSeq(s, 1, Len(s))[i] = s[i] /\ SubSeq(t, 1, Len(s))[i] = t[i]
  BY DEF IsPrefix
<1> QED BY <1>1 DEF IsPrefix

---------------------------------------------------------------------------
\* The parts of the inductive invariant.

\* A driver that is loaded, even half, owns a device, and the name if it is wholly
\* loaded; a name of no driver is one that Windows has failed to delete.
Owned ==
  /\ devices \subseteq 1..driver.load
  /\ driver.stage # "absent" => driver.load \in devices
  /\ driver.stage = "loaded" => node = {driver.load}
  /\ node # {} /\ driver.stage # "loaded" => platform = "windows" /\ failures > 0

\* Before any call has failed, no device is there but that of the driver, and the
\* system is up.
Clean ==
  failures = 0 =>
    /\ \A d \in devices : d = driver.load /\ driver.stage # "absent"
    /\ kernel # "bugcheck"

\* Only DriverEntry() of Windows stops the system so, and nothing follows.
Stopped == kernel = "bugcheck" => platform = "windows" /\ driver.stage = "absent"

\* The Windows harness holds a handle from CreateFile() on, and its driver cannot be
\* unloaded; only that harness looks for drivers.
Held ==
  /\ harness.pc \in {"list", "query"} => platform = "windows"
  /\ platform = "windows" /\ harness.pc \in {"list", "query", "execute"} =>
       harness.handle = {driver.load} /\ driver.stage = "loaded"

\* At most one image is that of the driver, and it is that of its last load.
Listed ==
  /\ \A i \in 1..Len(images) :
       images[i].name = "vuln" => images[i] = Image(driver.load) /\ driver.stage # "absent"
  /\ \A i, j \in 1..Len(images) :
       images[i].name = "vuln" /\ images[j].name = "vuln" => i = j

\* There is no range before the harness has submitted one.
Ranged == (harness.range # <<>> => harness.pc = "execute") /\ RangeIsTheDrivers

---------------------------------------------------------------------------
\* Types.

\* A device more, or one fewer.
LEMMA DeviceCount ==
  ASSUME NEW n \in Nat, NEW D, D \subseteq 1..n, NEW x
  PROVE  /\ IsFiniteSet(D) /\ Cardinality(D) \in Nat
         /\ Cardinality(D \union {x}) <= Cardinality(D) + 1
         /\ Cardinality(D \ {x}) <= Cardinality(D)
<1>1. IsFiniteSet(D)
  <2>1. IsFiniteSet(1..n)
    BY FS_Interval
  <2>2. D \in SUBSET (1..n)
    OBVIOUS
  <2> QED BY <2>1, <2>2, FS_Subset
<1> QED BY <1>1, FS_CardinalityType, FS_AddElement, FS_RemoveElement

\* The first match is the only one: the image of the driver.
LEMMA MatchFound ==
  ASSUME images \in Seq(Images), harness.first \in Seq(Images), Listed, Matches # {}
  PROVE  Min(Matches) \in Matches
<1>1. PICK m \in Matches : TRUE
  OBVIOUS
<1>2. Matches = {m} /\ m \in Nat
  BY <1>1 DEF Matches, Listed
<1>3. \E x \in Matches : \A y \in Matches : x =< y
  BY <1>2
<1> QED BY <1>3 DEF Min

\* Taking the image of the driver away leaves a list of images.
LEMMA RemoveImageType ==
  ASSUME images \in Seq(Images), RemoveImage
  PROVE  images' \in Seq(Images)
BY RemoveAtSeq DEF RemoveImage

\* The types, and no more payloads come to a driver than are executed.
TypeInv == TypeOK /\ harness.reached <= harness.executed

HarnessType == [pc : {"open", "list", "query", "execute", "aborted"},
                handle : SUBSET Loads, first : Seq(Images), second : Seq(Images),
                range : Seq(Images), sent : Payloads \union {"none"},
                executed : 0..MaxPayloads, reached : 0..MaxPayloads]

\* The types hold at the start.
LEMMA TypeInit == Init => TypeInv
<1> SUFFICES ASSUME Init PROVE TypeInv
  OBVIOUS
<1>1. Cardinality({}) = 0
  BY FS_EmptySet
<1>2. images \in Seq(Images)
  BY DEF Init, Images
<1>3. harness \in HarnessType /\ harness.reached <= harness.executed
  BY TestDriverAssumption DEF Init, HarnessType
<1> QED BY <1>1, <1>2, <1>3, TestDriverAssumption DEF Init, TypeInv, TypeOK, Stages, HarnessType

\* The types are kept by every step.
LEMMA TypeStep == TypeInv /\ Owned /\ Listed /\ [Next]_vars => TypeInv'
<1> SUFFICES ASSUME TypeInv, Owned, Listed, [Next]_vars PROVE TypeInv'
  OBVIOUS
<1> USE TestDriverAssumption
<1>t. /\ platform \in Platforms /\ driver \in [load : 0..MaxLoads, stage : Stages]
      /\ devices \subseteq Loads /\ node \subseteq Loads
      /\ Cardinality(devices) <= IF platform = "windows" THEN 1 ELSE Majors
      /\ images \in Seq(Images) /\ others \in 0..MaxOthers /\ failures \in 0..MaxFailures
      /\ kernel \in {"up", "bugcheck", "panic"} /\ harness \in HarnessType
      /\ harness.reached <= harness.executed
  BY DEF TypeInv, TypeOK, HarnessType
<1>c. ASSUME NEW x PROVE /\ Cardinality(devices) \in Nat
                        /\ Cardinality(devices \union {x}) <= Cardinality(devices) + 1
                        /\ Cardinality(devices \ {x}) <= Cardinality(devices)
  BY <1>t, DeviceCount DEF Loads
<1>1. CASE CreateDevice
  <2>1. failures' \in 0..MaxFailures
    BY <1>1, <1>t DEF CreateDevice, Fails, Succeeds
  <2>2. driver' = [load |-> driver.load + 1, stage |-> "created"]
          \/ driver' = [load |-> driver.load + 1, stage |-> "absent"]
    BY <1>1 DEF CreateDevice
  <2>3. driver.load + 1 \in Loads
    BY <1>1, <1>t DEF CreateDevice, Loads
  <2>4. driver' \in [load : 0..MaxLoads, stage : Stages]
    BY <2>2, <2>3 DEF Loads, Stages
  <2>5. images' \in Seq(Images)
    <3>1. Image(driver.load + 1) \in Images
      BY <2>3 DEF Image, Images, Loads
    <3>2. Append(images, Image(driver.load + 1)) \in Seq(Images)
      BY <3>1, <1>t, AppendSeq
    <3> QED BY <1>1, <3>2, <1>t DEF CreateDevice
  <2>6. devices' \subseteq Loads
    BY <1>1, <2>3, <1>t DEF CreateDevice
  <2>7. Cardinality(devices') <= IF platform' = "windows" THEN 1 ELSE Majors
    <3>1. CASE devices' = devices
      BY <3>1, <1>1, <1>t DEF CreateDevice
    <3>2. CASE Cardinality(devices) < Slots /\ devices' = devices \union {driver.load + 1}
      <4>1. /\ Cardinality(devices) \in Nat
            /\ Cardinality(devices') <= Cardinality(devices) + 1
        BY <3>2, <1>c
      <4>2. Cardinality(devices') \in Nat
        BY <2>6, DeviceCount DEF Loads
      <4>3. platform' = platform
        BY <1>1 DEF CreateDevice
      <4> QED BY <3>2, <4>1, <4>2, <4>3 DEF Slots
    <3> QED BY <1>1, <3>1, <3>2 DEF CreateDevice
  <2>8. kernel' \in {"up", "bugcheck", "panic"}
    BY <1>1, <1>t DEF CreateDevice
  <2>9. UNCHANGED <<platform, node, others, harness>>
    BY <1>1 DEF CreateDevice
  <2> QED BY <2>1, <2>4, <2>5, <2>6, <2>7, <2>8, <2>9, <1>t DEF TypeInv, TypeOK, HarnessType
<1>2. CASE CreateNode
  <2>1. failures' \in 0..MaxFailures
    BY <1>2, <1>t DEF CreateNode, Fails, Succeeds
  <2>2. images' \in Seq(Images)
    BY <1>2, <1>t, RemoveImageType DEF CreateNode
  <2>3. driver' \in [load : 0..MaxLoads, stage : Stages]
    BY <1>2, <1>t DEF CreateNode, Stages
  <2>4. node' \subseteq Loads
    BY <1>2, <1>t DEF CreateNode, Owned
  <2> QED BY <1>2, <2>1, <2>2, <2>3, <2>4, <1>t DEF CreateNode, TypeInv, TypeOK, HarnessType
<1>3. CASE DeleteNode
  <2>1. driver' \in [load : 0..MaxLoads, stage : Stages]
    BY <1>3, <1>t DEF DeleteNode, Stages
  <2>2. failures' \in 0..MaxFailures /\ node' \subseteq Loads
    BY <1>3, <1>t DEF DeleteNode, Fails, Succeeds
  <2> QED BY <1>3, <2>1, <2>2, <1>t DEF DeleteNode, TypeInv, TypeOK, HarnessType
<1>4. CASE DeleteDevice
  <2>1. driver' \in [load : 0..MaxLoads, stage : Stages]
    BY <1>4, <1>t DEF DeleteDevice, Stages
  <2>2. images' \in Seq(Images)
    BY <1>4, <1>t, RemoveImageType DEF DeleteDevice
  <2>3. Cardinality(devices') <= IF platform' = "windows" THEN 1 ELSE Majors
    <3>1. /\ Cardinality(devices) \in Nat /\ devices' = devices \ {driver.load}
          /\ Cardinality(devices \ {driver.load}) <= Cardinality(devices)
          /\ platform' = platform
      BY <1>4, <1>c DEF DeleteDevice
    <3>2. Cardinality(devices') \in Nat
      BY <3>1, <1>t, DeviceCount DEF Loads
    <3> QED BY <3>1, <3>2, <1>t
  <2> QED BY <1>4, <2>1, <2>2, <2>3, <1>t DEF DeleteDevice, TypeInv, TypeOK, HarnessType
<1>5. CASE OtherLoads
  <2>1. images' \in Seq(Images) /\ others' \in 0..MaxOthers
    <3>1. [name |-> "other", id |-> others + 1] \in Images
      BY <1>t DEF Images
    <3> QED BY <3>1, <1>5, <1>t, AppendSeq DEF OtherLoads
  <2> QED BY <1>5, <2>1, <1>t DEF OtherLoads, service, TypeInv, TypeOK, HarnessType
<1>6. CASE OtherUnloads
  <2>1. images' \in Seq(Images)
    BY <1>6, <1>t, RemoveAtSeq DEF OtherUnloads
  <2> QED BY <1>6, <2>1, <1>t DEF OtherUnloads, service, TypeInv, TypeOK, HarnessType
<1>7. CASE Open
  <2>1. harness' \in HarnessType /\ harness'.reached <= harness'.executed
    <3>1. Openable \subseteq Loads
      BY <1>t DEF Openable
    <3>2. AfterOpen \in {"list", "execute", "aborted"}
      BY DEF AfterOpen
    <3> QED BY <1>7, <1>t, <3>1, <3>2 DEF Open, Harness, HarnessType
  <2> QED BY <1>7, <2>1, <1>t DEF Open, Harness, service, TypeInv, TypeOK, HarnessType
<1>8. CASE ListDrivers
  <2>1. harness' \in HarnessType /\ harness'.reached <= harness'.executed
    BY <1>8, <1>t DEF ListDrivers, Harness, Aborted, HarnessType
  <2>2. failures' \in 0..MaxFailures
    BY <1>8, <1>t DEF ListDrivers, Fails, Succeeds
  <2> QED BY <1>8, <2>1, <2>2, <1>t DEF ListDrivers, Harness, service, TypeInv, TypeOK, HarnessType
<1>9. CASE SubmitRange
  <2>1. harness' \in HarnessType /\ harness'.reached <= harness'.executed
    <3>1. CASE harness' = Aborted
      BY <3>1, <1>t DEF Aborted, HarnessType
    <3>2. CASE Matches # {} /\ harness' = [harness EXCEPT !.pc = "execute", !.second = images,
                                           !.range = Paired(Min(Matches))]
      <4>1. Min(Matches) \in Matches
        BY <3>2, <1>t, MatchFound DEF HarnessType
      <4>2. Paired(Min(Matches)) \in Seq(Images)
        <5> DEFINE m == Min(Matches)
        <5>1. m \in 1..Len(images) /\ m \in 1..Len(harness.first)
          BY <4>1, <1>t DEF Matches, HarnessType
        <5>2. harness.first[m] \in Images /\ images[m] \in Images
          BY <5>1, <1>t DEF HarnessType
        <5> QED BY <5>2 DEF Paired
      <4> QED BY <3>2, <4>2, <1>t DEF HarnessType
    <3> QED BY <1>9, <3>1, <3>2 DEF SubmitRange, Harness
  <2>2. failures' \in 0..MaxFailures
    BY <1>9, <1>t DEF SubmitRange, Fails, Succeeds
  <2> QED BY <1>9, <2>1, <2>2, <1>t DEF SubmitRange, Harness, service, TypeInv, TypeOK, HarnessType
<1>10. CASE Execute
  <2>1. harness' \in HarnessType /\ harness'.reached <= harness'.executed
    <3>1. PICK p \in Payloads, r \in {harness.reached, harness.reached + 1} :
             harness' = [harness EXCEPT !.sent = p, !.executed = @ + 1, !.reached = r]
      BY <1>10 DEF Execute, Harness
    <3>2. harness.executed < MaxPayloads
      BY <1>10 DEF Execute
    <3>3. /\ harness.executed + 1 \in 0..MaxPayloads /\ r \in 0..MaxPayloads
          /\ r <= harness.executed + 1
      BY <3>1, <3>2, <1>t DEF HarnessType
    <3>4. harness' \in HarnessType
      BY <3>1, <3>3, <1>t DEF HarnessType
    <3>5. harness'.reached = r /\ harness'.executed = harness.executed + 1
      BY <3>1, <1>t DEF HarnessType
    <3> QED BY <3>3, <3>4, <3>5
  <2>2. kernel' \in {"up", "bugcheck", "panic"}
    BY <1>10 DEF Execute
  <2> QED BY <1>10, <2>1, <2>2, <1>t DEF Execute, Harness, service, TypeInv, TypeOK, HarnessType
<1>11. CASE UNCHANGED vars
  BY <1>11, <1>t DEF vars, TypeInv, TypeOK, HarnessType
<1> QED BY <1>1, <1>2, <1>3, <1>4, <1>5, <1>6, <1>7, <1>8, <1>9, <1>10, <1>11 DEF Next, Idle

---------------------------------------------------------------------------
\* The other parts of the invariant.

\* Everything the inductive steps know of the state before.
IInv == TypeInv /\ Owned /\ Clean /\ Stopped /\ Held /\ Listed /\ Ranged /\ PayloadsReachDriver

\* What the harness does leaves the driver alone, as other drivers do.
LEMMA ServiceAlone ==
  OtherLoads \/ OtherUnloads \/ Open \/ ListDrivers \/ SubmitRange \/ Execute
    => UNCHANGED <<platform, driver, devices, node>>
BY DEF OtherLoads, OtherUnloads, Open, ListDrivers, SubmitRange, Execute, Harness, service

\* What the driver and other drivers do leaves the harness alone.
LEMMA HarnessAlone ==
  CreateDevice \/ CreateNode \/ DeleteNode \/ DeleteDevice \/ OtherLoads \/ OtherUnloads
    => UNCHANGED <<platform, harness>>
BY DEF CreateDevice, CreateNode, DeleteNode, DeleteDevice, OtherLoads, OtherUnloads

\* Failures are only ever added.
LEMMA FailuresGrow ==
  ASSUME TypeInv, [Next]_vars
  PROVE  failures \in Nat /\ (failures' = failures \/ failures' = failures + 1)
<1>1. failures \in Nat
  BY TestDriverAssumption DEF TypeInv, TypeOK
<1>2. failures' = failures \/ failures' = failures + 1
  BY DEF Next, CreateDevice, CreateNode, DeleteNode, DeleteDevice, OtherLoads, OtherUnloads,
         Open, ListDrivers, SubmitRange, Execute, Idle, Fails, Succeeds, vars
<1> QED BY <1>1, <1>2

\* Neither half of loading and neither half of unloading leaves a driver without a
\* device, and a name without a driver only if the call that deletes it fails.
LEMMA OwnedStep == TypeInv /\ Owned /\ [Next]_vars => Owned'
<1> SUFFICES ASSUME TypeInv, Owned, [Next]_vars PROVE Owned'
  OBVIOUS
<1>t. driver \in [load : 0..MaxLoads, stage : Stages]
  BY DEF TypeInv, TypeOK
<1> USE TestDriverAssumption
<1>f. failures > 0 => failures' > 0
  <2>1. failures \in Nat /\ (failures' = failures \/ failures' = failures + 1)
    BY FailuresGrow
  <2> QED BY <2>1
<1>1. CASE CreateDevice
  <2>1. UNCHANGED <<platform, node>> /\ driver.stage = "absent"
    BY <1>1 DEF CreateDevice
  <2>2. driver'.load = driver.load + 1 /\ driver'.stage \in {"created", "absent"}
    BY <1>1 DEF CreateDevice
  <2>3. /\ devices' \subseteq devices \union {driver.load + 1}
        /\ driver'.stage = "created" => driver.load + 1 \in devices'
    BY <1>1 DEF CreateDevice
  <2> QED BY <1>t, <1>f, <2>1, <2>2, <2>3 DEF Owned
<1>2. CASE CreateNode
  <2>1. /\ driver'.load = driver.load /\ UNCHANGED <<platform, devices>>
        /\ driver'.stage \in {"loaded", "absent"} /\ driver.stage = "created"
    BY <1>2, <1>t DEF CreateNode
  <2>2. /\ driver'.stage = "loaded" => node' = {driver'.load}
        /\ driver'.stage # "loaded" => UNCHANGED node
    BY <1>2, <1>t DEF CreateNode
  <2> QED BY <1>f, <2>1, <2>2 DEF Owned
<1>3. CASE DeleteNode
  <2>1. /\ driver'.load = driver.load /\ driver'.stage = "stopping"
        /\ driver.stage = "loaded" /\ UNCHANGED <<platform, devices>>
    BY <1>3, <1>t DEF DeleteNode
  <2>2. node' = {} \/ (platform = "windows" /\ Fails)
    BY <1>3 DEF DeleteNode
  <2>3. Fails => failures' > 0
    BY FailuresGrow DEF Fails
  <2> QED BY <2>1, <2>2, <2>3 DEF Owned
<1>4. CASE DeleteDevice
  BY <1>4, <1>t DEF DeleteDevice, Owned
<1>5. CASE UNCHANGED <<platform, driver, devices, node>>
  BY <1>5, <1>f DEF Owned
<1> QED BY <1>1, <1>2, <1>3, <1>4, <1>5, ServiceAlone DEF Next, Idle, vars

\* No step follows a bug check.
LEMMA StoppedStep == TypeInv /\ Stopped /\ [Next]_vars => Stopped'
<1> SUFFICES ASSUME TypeInv, Stopped, [Next]_vars PROVE Stopped'
  OBVIOUS
<1>1. CASE CreateDevice
  BY <1>1 DEF CreateDevice, Up, Stopped
<1>2. CASE UNCHANGED vars \/ Idle
  BY <1>2 DEF Idle, vars, Stopped
<1>3. CASE Next /\ ~ CreateDevice /\ ~ Idle
  <2>1. kernel' # "bugcheck"
    BY <1>3 DEF Next, CreateNode, DeleteNode, DeleteDevice, OtherLoads, OtherUnloads, Open,
                ListDrivers, SubmitRange, Execute, At, Up
  <2> QED BY <2>1 DEF Stopped
<1> QED BY <1>1, <1>2, <1>3

\* As long as no call has failed, loading finds nothing left of an earlier load.
LEMMA CleanStep == TypeInv /\ Owned /\ Clean /\ [Next]_vars => Clean'
<1> SUFFICES ASSUME TypeInv, Owned, Clean, [Next]_vars, failures' = 0 PROVE Clean'
  BY DEF Clean
<1>t. /\ driver \in [load : 0..MaxLoads, stage : Stages] /\ failures \in Nat
      /\ platform \in {"windows", "macos"}
  BY TestDriverAssumption DEF TypeInv, TypeOK
<1> USE TestDriverAssumption
<1>f. failures = 0 /\ Succeeds
  <2>1. failures' = failures \/ failures' = failures + 1
    BY FailuresGrow
  <2> QED BY <2>1, <1>t DEF Succeeds
<1>n. ~ Fails
  BY <1>f, <1>t DEF Fails, Succeeds
<1>1. CASE CreateDevice
  <2>1. devices = {} /\ kernel # "bugcheck"
    BY <1>1, <1>f DEF CreateDevice, Clean
  <2>2. Cardinality(devices) = 0
    BY <2>1, FS_EmptySet
  <2>3. \/ /\ driver' = [load |-> driver.load + 1, stage |-> "created"]
           /\ devices' = {driver.load + 1} /\ UNCHANGED kernel
        \/ ~ (0 < Slots) /\ UNCHANGED devices
             /\ kernel' = IF platform = "windows" THEN "bugcheck" ELSE "up"
    BY <1>1, <1>n, <2>1, <2>2 DEF CreateDevice
  <2>4. platform = "windows" => 0 < Slots
    BY DEF Slots
  <2>5. CASE devices' = {driver.load + 1} /\ UNCHANGED kernel
             /\ driver' = [load |-> driver.load + 1, stage |-> "created"]
    BY <2>1, <2>5 DEF Clean
  <2>6. CASE ~ (0 < Slots) /\ UNCHANGED devices
               /\ kernel' = IF platform = "windows" THEN "bugcheck" ELSE "up"
    BY <2>1, <2>4, <2>6 DEF Clean
  <2> QED BY <2>3, <2>5, <2>6
<1>2. CASE CreateNode
  <2>1. driver.stage = "created" /\ node = {}
    BY <1>2, <1>f DEF CreateNode, Owned
  <2>2. driver' = [driver EXCEPT !.stage = "loaded"] /\ UNCHANGED <<devices, kernel>>
    BY <1>2, <1>n, <2>1 DEF CreateNode
  <2> QED BY <1>f, <1>t, <2>2 DEF Clean
<1>3. CASE DeleteNode
  BY <1>3, <1>f, <1>t DEF DeleteNode, Clean
<1>4. CASE DeleteDevice
  BY <1>4, <1>f, <1>t DEF DeleteDevice, Clean
<1>5. CASE Execute
  BY <1>5, <1>f, ServiceAlone DEF Execute, Clean
<1>6. CASE OtherLoads \/ OtherUnloads \/ Open \/ ListDrivers \/ SubmitRange \/ Idle
             \/ UNCHANGED vars
  <2>1. UNCHANGED <<driver, devices, kernel>>
    BY <1>6, ServiceAlone DEF OtherLoads, OtherUnloads, Open, ListDrivers, SubmitRange, Idle, vars
  <2> QED BY <2>1, <1>f DEF Clean
<1> QED BY <1>1, <1>2, <1>3, <1>4, <1>5, <1>6 DEF Next

\* With the harness' handle open the driver is not unloaded, and nobody loads it twice.
LEMMA HeldStep == TypeInv /\ Owned /\ Held /\ [Next]_vars => Held'
<1> SUFFICES ASSUME TypeInv, Owned, Held, [Next]_vars PROVE Held'
  OBVIOUS
<1>t. /\ platform \in {"windows", "macos"} /\ harness \in HarnessType
      /\ driver \in [load : 0..MaxLoads, stage : Stages]
  BY TestDriverAssumption DEF TypeInv, TypeOK, HarnessType
<1>1. CASE CreateDevice
  BY <1>1 DEF CreateDevice, Held
<1>2. CASE CreateNode
  BY <1>2 DEF CreateNode, Held
<1>3. CASE DeleteNode
  BY <1>3 DEF DeleteNode, Held
<1>4. CASE DeleteDevice
  BY <1>4 DEF DeleteDevice, Held
<1>5. CASE Open
  <2>1. /\ harness'.handle = Openable /\ harness'.pc = AfterOpen
        /\ UNCHANGED <<platform, driver>>
    BY <1>5, <1>t, ServiceAlone DEF Open, Harness, HarnessType
  <2>2. Openable # {} => Openable = {driver.load} /\ driver.stage = "loaded"
    <3> SUFFICES ASSUME Openable # {}
                 PROVE  Openable = {driver.load} /\ driver.stage = "loaded"
      OBVIOUS
    <3>1. \A g \in Openable : g = driver.load /\ driver.stage = "loaded"
      BY <1>t DEF Openable
    <3> QED BY <3>1
  <2>3. /\ AfterOpen \in {"list", "query"} => platform = "windows"
        /\ platform = "windows" /\ AfterOpen # "aborted" => Openable # {}
    BY <1>t DEF AfterOpen
  <2> QED BY <2>1, <2>2, <2>3 DEF Held
<1>6. CASE ListDrivers
  BY <1>6, <1>t, ServiceAlone DEF ListDrivers, At, Harness, Aborted, HarnessType, Held
<1>7. CASE SubmitRange
  BY <1>7, <1>t, ServiceAlone DEF SubmitRange, At, Harness, Aborted, HarnessType, Held
<1>8. CASE Execute
  BY <1>8, <1>t, ServiceAlone DEF Execute, At, Harness, HarnessType, Held
<1>9. CASE OtherLoads \/ OtherUnloads \/ Idle \/ UNCHANGED vars
  <2>1. UNCHANGED <<platform, driver, harness>>
    BY <1>9, ServiceAlone, HarnessAlone DEF Idle, vars
  <2> QED BY <2>1 DEF Held
<1> QED BY <1>1, <1>2, <1>3, <1>4, <1>5, <1>6, <1>7, <1>8, <1>9 DEF Next

\* Without its image there is none of the driver.
LEMMA ImageGone ==
  ASSUME images \in Seq(Images), Listed, RemoveImage
  PROVE  \A j \in 1..Len(images') : images'[j].name # "vuln"
<1>1. PICK i \in 1..Len(images) : images[i] = Image(driver.load) /\ images' = RemoveAt(images, i)
  BY DEF RemoveImage
<1>2. images[i].name = "vuln"
  BY <1>1 DEF Image
<1>3. \A k \in 1..Len(images) : k # i => images[k].name # "vuln"
  BY <1>2 DEF Listed
<1>4. /\ Len(images') = Len(images) - 1
      /\ \A j \in 1..Len(images) - 1 : images'[j] = IF j < i THEN images[j] ELSE images[j + 1]
  BY <1>1, RemoveAtSeq
<1> SUFFICES ASSUME NEW j \in 1..Len(images') PROVE images'[j].name # "vuln"
  OBVIOUS
<1>5. CASE j < i
  BY <1>3, <1>4, <1>5
<1>6. CASE ~ (j < i)
  <2>1. images'[j] = images[j + 1] /\ j + 1 \in 1..Len(images) /\ j + 1 # i
    BY <1>4, <1>6
  <2> QED BY <2>1, <1>3
<1> QED BY <1>5, <1>6

\* The list of images holds the driver once, while it is loaded, and else never.
LEMMA ListedStep == TypeInv /\ Listed /\ [Next]_vars => Listed'
<1> SUFFICES ASSUME TypeInv, Listed, [Next]_vars PROVE Listed'
  OBVIOUS
<1>t. images \in Seq(Images) /\ driver \in [load : 0..MaxLoads, stage : Stages] /\ others \in Nat
  BY TestDriverAssumption DEF TypeInv, TypeOK
<1>1. CASE CreateDevice
  <2>1. \A i \in 1..Len(images) : images[i].name # "vuln"
    BY <1>1 DEF CreateDevice, Listed
  <2>2. CASE UNCHANGED images
    BY <2>1, <2>2 DEF Listed
  <2>3. CASE images' = Append(images, Image(driver.load + 1))
               /\ driver' = [load |-> driver.load + 1, stage |-> "created"]
    <3>1. Image(driver.load + 1) \in Images
      BY <1>t DEF Image, Images
    <3>2. /\ Len(images') = Len(images) + 1
          /\ \A j \in 1..Len(images) : images'[j] = images[j]
          /\ images'[Len(images) + 1] = Image(driver'.load)
      BY <3>1, <2>3, <1>t, AppendSeq
    <3>3. \A j \in 1..Len(images') : images'[j].name = "vuln" => j = Len(images) + 1
      BY <3>2, <2>1, <1>t
    <3> QED BY <3>2, <3>3, <2>3 DEF Listed
  <2> QED BY <1>1, <2>2, <2>3 DEF CreateDevice
<1>2. CASE CreateNode
  <2>1. CASE RemoveImage
    BY <2>1, <1>t, ImageGone DEF Listed
  <2>2. CASE UNCHANGED images /\ driver' = [driver EXCEPT !.stage = "loaded"]
    BY <2>2, <1>t DEF Listed
  <2> QED BY <1>2, <2>1, <2>2 DEF CreateNode
<1>3. CASE DeleteNode
  BY <1>3, <1>t DEF DeleteNode, Listed
<1>4. CASE DeleteDevice
  BY <1>4, <1>t, ImageGone DEF DeleteDevice, Listed
<1>5. CASE OtherLoads
  <2> DEFINE new == [name |-> "other", id |-> others + 1]
  <2>1. new \in Images /\ new.name # "vuln"
    BY <1>t DEF Images
  <2>2. /\ Len(images') = Len(images) + 1
        /\ \A j \in 1..Len(images) : images'[j] = images[j]
        /\ images'[Len(images) + 1] = new
    BY <2>1, <1>5, <1>t, AppendSeq DEF OtherLoads
  <2>3. \A j \in 1..Len(images') : images'[j].name = "vuln" => j \in 1..Len(images)
    BY <2>1, <2>2, <1>t
  <2> QED BY <2>2, <2>3, <1>5, ServiceAlone DEF Listed
<1>6. CASE OtherUnloads
  <2>1. PICK i \in 1..Len(images) : images' = RemoveAt(images, i)
    BY <1>6 DEF OtherUnloads
  <2> DEFINE Old(j) == IF j < i THEN j ELSE j + 1
  <2>2. /\ Len(images') = Len(images) - 1
        /\ \A j \in 1..Len(images) - 1 : images'[j] = IF j < i THEN images[j] ELSE images[j + 1]
    BY <2>1, <1>t, RemoveAtSeq
  <2>3. \A j \in 1..Len(images') : images'[j] = images[Old(j)] /\ Old(j) \in 1..Len(images)
    BY <2>2, <1>t
  <2>4. \A j, k \in 1..Len(images') : Old(j) = Old(k) => j = k
    BY <1>t
  <2> HIDE DEF Old
  <2> QED BY <2>3, <2>4, <1>6, ServiceAlone DEF Listed
<1>7. CASE Open \/ ListDrivers \/ SubmitRange \/ Execute \/ Idle \/ UNCHANGED vars
  <2>1. UNCHANGED <<driver, images>>
    BY <1>7, ServiceAlone DEF Open, ListDrivers, SubmitRange, Execute, Harness, Idle, vars
  <2> QED BY <2>1 DEF Listed
<1> QED BY <1>1, <1>2, <1>3, <1>4, <1>5, <1>6, <1>7 DEF Next

\* The range is taken from the one entry of the driver, unless the lists differ.
LEMMA RangedStep == TypeInv /\ Held /\ Listed /\ Ranged /\ [Next]_vars => Ranged'
<1> SUFFICES ASSUME TypeInv, Held, Listed, Ranged, [Next]_vars PROVE Ranged'
  OBVIOUS
<1>t. images \in Seq(Images) /\ harness \in HarnessType
  BY DEF TypeInv, TypeOK, HarnessType
<1>1. CASE Open
  BY <1>1, <1>t DEF Open, At, Harness, HarnessType, Ranged, RangeIsTheDrivers
<1>2. CASE ListDrivers
  BY <1>2, <1>t DEF ListDrivers, At, Harness, Aborted, HarnessType, Ranged, RangeIsTheDrivers
<1>3. CASE SubmitRange
  <2>1. harness.pc = "query" /\ harness.range = <<>>
    BY <1>3 DEF SubmitRange, At, Ranged
  <2>2. CASE harness' = Aborted
    BY <2>1, <2>2, <1>t DEF Aborted, HarnessType, Ranged, RangeIsTheDrivers
  <2>3. CASE Matches # {} /\ harness' = [harness EXCEPT !.pc = "execute", !.second = images,
                                         !.range = Paired(Min(Matches))]
    <3> DEFINE m == Min(Matches)
    <3>1. m \in Matches
      BY <2>3, <1>t, MatchFound DEF HarnessType
    <3>2. m \in 1..Len(harness.first) /\ m \in 1..Len(images) /\ images[m].name = "vuln"
      BY <3>1, <1>t DEF Matches, HarnessType
    <3>3. images[m] = Image(driver.load) /\ harness.handle = {driver.load}
      BY <3>2, <2>1 DEF Listed, Held
    <3>4. /\ harness'.pc = "execute" /\ harness'.range = <<harness.first[m], images[m]>>
          /\ harness'.first = harness.first /\ harness'.second = images
          /\ harness'.handle = harness.handle
      BY <2>3, <1>t DEF HarnessType, Paired
    <3>5. IsPrefix(harness.first, images) => harness.first[m] = images[m]
      BY <3>2, <1>t, PrefixAgrees DEF HarnessType
    <3> QED BY <3>3, <3>4, <3>5 DEF Ranged, RangeIsTheDrivers
  <2> QED BY <1>3, <2>2, <2>3 DEF SubmitRange, Harness
<1>4. CASE Execute
  <2>1. /\ harness'.pc = harness.pc /\ harness'.range = harness.range
        /\ harness'.first = harness.first /\ harness'.second = harness.second
        /\ harness'.handle = harness.handle
    BY <1>4, <1>t DEF Execute, Harness, HarnessType
  <2> QED BY <2>1 DEF Ranged, RangeIsTheDrivers
<1>5. CASE UNCHANGED harness
  BY <1>5 DEF Ranged, RangeIsTheDrivers
<1> QED BY <1>1, <1>2, <1>3, <1>4, <1>5, HarnessAlone DEF Next, Idle, vars

\* A payload that the Windows harness executes is a payload for the driver it holds.
LEMMA ReachStep ==
  TypeInv /\ Owned /\ Held /\ PayloadsReachDriver /\ [Next]_vars => PayloadsReachDriver'
<1> SUFFICES ASSUME TypeInv, Owned, Held, PayloadsReachDriver, [Next]_vars
             PROVE  PayloadsReachDriver'
  OBVIOUS
<1>t. /\ platform \in {"windows", "macos"} /\ harness \in HarnessType
      /\ kernel \in {"up", "bugcheck", "panic"}
  BY TestDriverAssumption DEF TypeInv, TypeOK, HarnessType
<1>1. CASE Execute
  <2> DEFINE there == driver.stage \in {"loaded", "stopping"} /\ harness.handle = {driver.load}
                        /\ driver.load \in devices
  <2>1. PICK p \in Payloads, crash \in BOOLEAN :
           /\ crash \in IF there THEN Crashes(p) ELSE {FALSE}
           /\ kernel' = IF crash THEN "panic" ELSE "up"
           /\ harness' = [harness EXCEPT !.sent = p, !.executed = @ + 1,
                            !.reached = IF there THEN @ + 1 ELSE @]
    BY <1>1 DEF Execute, Harness
  <2>2. platform = "windows" => there
    BY <1>1 DEF Execute, At, Held, Owned
  <2>3. /\ harness'.sent = p /\ harness'.executed = harness.executed + 1
        /\ harness'.reached = IF there THEN harness.reached + 1 ELSE harness.reached
    BY <2>1, <1>t DEF HarnessType
  <2>4. platform' = platform
    BY <1>1, ServiceAlone
  <2>5. platform' = "windows" => harness'.reached = harness'.executed
    BY <2>2, <2>3, <2>4 DEF PayloadsReachDriver
  <2>6. kernel' = "panic" => there /\ (p = "trigger" \/ (p = "short" /\ platform = "macos"))
    BY <2>1 DEF Crashes, Payloads
  <2>7. harness.reached + 1 > 0
    BY <1>t DEF HarnessType
  <2> QED BY <2>3, <2>4, <2>5, <2>6, <2>7 DEF PayloadsReachDriver
<1>2. CASE Open \/ ListDrivers \/ SubmitRange
  <2>1. kernel' = "up"
    BY <1>2 DEF Open, ListDrivers, SubmitRange, At, Up
  <2>2. harness'.reached = harness.reached /\ harness'.executed = harness.executed
    BY <1>2, <1>t DEF Open, ListDrivers, SubmitRange, Harness, Aborted, HarnessType
  <2> QED BY <2>1, <2>2, <1>2, ServiceAlone DEF PayloadsReachDriver
<1>3. CASE UNCHANGED <<platform, harness>> /\ (kernel' = "panic" => kernel = "panic")
  BY <1>3 DEF PayloadsReachDriver
<1>4. CASE CreateDevice \/ CreateNode \/ DeleteNode \/ DeleteDevice \/ OtherLoads
             \/ OtherUnloads
  <2>1. kernel' # "panic"
    BY <1>4 DEF CreateDevice, CreateNode, DeleteNode, DeleteDevice, OtherLoads, OtherUnloads, Up
  <2> QED BY <2>1, <1>4, <1>3, HarnessAlone
<1> QED BY <1>1, <1>2, <1>3, <1>4 DEF Next, Idle, vars

---------------------------------------------------------------------------
\* The theorems.

\* The invariant holds at the start.
LEMMA IInvInit == Init => IInv
<1> SUFFICES ASSUME Init PROVE IInv
  OBVIOUS
<1>1. TypeInv
  BY TypeInit
<1>2. Owned /\ Clean /\ Stopped /\ Held /\ Ranged /\ PayloadsReachDriver
  BY DEF Init, Owned, Clean, Stopped, Held, Ranged, RangeIsTheDrivers, PayloadsReachDriver
<1>3. Listed
  BY DEF Init, Listed
<1> QED BY <1>1, <1>2, <1>3 DEF IInv

\* The invariant holds always.
LEMMA Inductive == Spec => []IInv
<1>1. IInv /\ [Next]_vars => IInv'
  BY TypeStep, OwnedStep, CleanStep, StoppedStep, HeldStep, ListedStep, RangedStep, ReachStep DEF IInv
<1> QED BY <1>1, IInvInit, PTL DEF Spec

\* No step of the service manager, of other drivers or of a harness leaves the types, and
\* no more devices have a name than there are names.
THEOREM TypeCorrect == Spec => []TypeOK
<1>1. IInv => TypeOK
  BY DEF IInv, TypeInv
<1> QED BY <1>1, Inductive, PTL

\* However often the driver is loaded and unloaded: the name of a driver that is loaded
\* leads to its device, and the one name that leads nowhere is a link that Windows has
\* not deleted (DriverEntry(), DriverUnload(), vuln_start(), vuln_stop()).
THEOREM NamesLeadToDrivers == Spec => []NodeLeadsToDriver
<1>1. IInv => NodeLeadsToDriver
  BY DEF IInv, Owned, NodeLeadsToDriver
<1> QED BY <1>1, Inductive, PTL

\* Any number of loads and unloads without a failing call does no harm, and on macOS none
\* does (IoDeleteDevice() of a device that is not there, driver.c:125).
THEOREM LoadingIsHarmless == Spec => []BugCheckHasCause
<1>1. IInv => BugCheckHasCause
  BY TestDriverAssumption DEF IInv, TypeInv, TypeOK, Clean, Stopped, BugCheckHasCause
<1> QED BY <1>1, Inductive, PTL

\* set_ip_range() submits the range of the driver that the harness has opened, unless the
\* list of images has shrunk in front of it between its two queries.
THEOREM RangeOfDriver == Spec => []RangeIsTheDrivers
<1>1. IInv => RangeIsTheDrivers
  BY DEF IInv, Ranged
<1> QED BY <1>1, Inductive, PTL

\* Every payload of the Windows harness comes to the driver it has opened; a driver crashes
\* only by a payload it compares equal, or the one of macOS by a short one.
THEOREM PayloadsArrive == Spec => []PayloadsReachDriver
<1>1. IInv => PayloadsReachDriver
  BY DEF IInv
<1> QED BY <1>1, Inductive, PTL


---------------------------------------------------------------------------
\* What a failed load leaves behind.

\* On Windows, a load that has failed behind the device leaves the name taken: the driver
\* does not come back, the device is not deleted, and to try again is to crash the system.
FailedLoadIsFinal ==
  [][platform = "windows" /\ driver.stage = "absent" /\ devices # {}
       => /\ devices' = devices /\ driver'.stage = "absent"
          /\ driver' # driver => kernel' = "bugcheck"]_vars

\* DriverEntry() returns without deleting the device it has created when the symbolic
\* link cannot be made (driver.c:136): only a new start of the guest helps.
THEOREM FailedLoadsAreFinal == Spec => FailedLoadIsFinal
<1>1. IInv /\ [Next]_vars =>
        (platform = "windows" /\ driver.stage = "absent" /\ devices # {}
           => /\ devices' = devices /\ driver'.stage = "absent"
              /\ driver' # driver => kernel' = "bugcheck")
  <2> SUFFICES ASSUME IInv, [Next]_vars, platform = "windows", driver.stage = "absent",
                      devices # {}
               PROVE  /\ devices' = devices /\ driver'.stage = "absent"
                      /\ driver' # driver => kernel' = "bugcheck"
    OBVIOUS
  <2>1. CASE CreateDevice
    <3>1. devices \subseteq 1..MaxLoads /\ MaxLoads \in Nat
      BY TestDriverAssumption DEF IInv, TypeInv, TypeOK, Loads
    <3>2. IsFiniteSet(devices) /\ Cardinality(devices) \in Nat
      BY <3>1, DeviceCount
    <3>3. Cardinality(devices) # 0
      BY <3>2, FS_EmptySet
    <3>4. Slots = 1
      BY DEF Slots
    <3>5. ~ (Cardinality(devices) < Slots)
      BY <3>2, <3>3, <3>4
    <3> QED BY <2>1, <3>5 DEF CreateDevice
  <2>2. CASE CreateNode \/ DeleteNode \/ DeleteDevice
    BY <2>2 DEF CreateNode, DeleteNode, DeleteDevice
  <2>3. CASE UNCHANGED <<platform, driver, devices, node>>
    BY <2>3
  <2> QED BY <2>1, <2>2, <2>3, ServiceAlone DEF Next, Idle, vars
<1> QED BY <1>1, Inductive, PTL DEF Spec, FailedLoadIsFinal

\* A link that Windows has not deleted is in the way of every later load.
LeftNameIsFinal ==
  [][platform = "windows" /\ node # {} /\ driver.stage # "loaded"
       => node' = node /\ driver'.stage # "loaded"]_vars

\* DriverUnload() ignores the result of IoDeleteSymbolicLink() (driver.c:104): if it fails,
\* the driver is not loaded again, and its name leads nowhere, until the guest starts anew.
THEOREM LeftNamesAreFinal == Spec => LeftNameIsFinal
<1>1. IInv /\ [Next]_vars =>
        (platform = "windows" /\ node # {} /\ driver.stage # "loaded"
           => node' = node /\ driver'.stage # "loaded")
  <2> SUFFICES ASSUME IInv, [Next]_vars, node # {}, driver.stage # "loaded"
               PROVE  node' = node /\ driver'.stage # "loaded"
    OBVIOUS
  <2>t. driver \in [load : 0..MaxLoads, stage : Stages]
    BY DEF IInv, TypeInv, TypeOK
  <2>1. CASE CreateDevice
    BY <2>1 DEF CreateDevice
  <2>2. CASE CreateNode
    BY <2>2, <2>t DEF CreateNode
  <2>3. CASE DeleteNode
    BY <2>3 DEF DeleteNode
  <2>4. CASE DeleteDevice
    BY <2>4, <2>t DEF DeleteDevice
  <2>5. CASE UNCHANGED <<platform, driver, devices, node>>
    BY <2>5
  <2> QED BY <2>1, <2>2, <2>3, <2>4, <2>5, ServiceAlone DEF Next, Idle, vars
<1> QED BY <1>1, Inductive, PTL DEF Spec, LeftNameIsFinal

============================================================================
