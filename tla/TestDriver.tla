---------------------------- MODULE TestDriver ----------------------------
(***************************************************************************)
(* The vulnerable drivers that come with the agents, kafl_vulnerable_      *)
(* driver/driver.c for Windows and vuln_driver/vuln.c for macOS: how they  *)
(* are loaded and unloaded, what of them a failed load leaves behind, and  *)
(* how the two programs called vuln_test.c find and drive them.            *)
(*                                                                         *)
(* The service manager loads and unloads the driver, other drivers come    *)
(* and go, and the harness runs meanwhile.  Its hypercalls are modelled in *)
(* AgentLoop.                                                              *)
(***************************************************************************)
EXTENDS Naturals, FiniteSets, SequencesExt

CONSTANTS
  Platforms,    \* the systems to consider: "windows", "macos"
  Majors,       \* how many entries the table of character devices has room for
  ArraySize,    \* ARRAY_SIZE: room for the addresses of drivers
  MaxLoads,     \* bound: loads of the vulnerable driver
  MaxOthers,    \* bound: other drivers that are ever loaded
  MaxFailures,  \* bound: calls that fail
  MaxPayloads   \* bound: payloads the harness executes

ASSUME TestDriverAssumption ==
  /\ Platforms \subseteq {"windows", "macos"}
  /\ Majors \in Nat /\ ArraySize \in Nat /\ MaxLoads \in Nat
  /\ MaxOthers \in Nat /\ MaxFailures \in Nat /\ MaxPayloads \in Nat

VARIABLES
  platform,  \* the system of this guest
  driver,    \* the last load of the vulnerable driver, and how far it is
  devices,   \* the loads that own a device object, or a major number
  node,      \* {}, or {the load that made the name which the harness opens}
  images,    \* the images in the kernel, in the order of its list
  others,    \* how many other drivers have been loaded
  failures,  \* how many calls have failed
  kernel,    \* "up" | "bugcheck": in DriverEntry() | "panic": in the target
  harness    \* the program that drives the driver

vars == <<platform, driver, devices, node, images, others, failures, kernel, harness>>
service == <<driver, devices, node>>

Images == [name : {"kernel", "other", "vuln"}, id : Nat]
Image(load) == [name |-> "vuln", id |-> load]
Payloads == {"short", "plain", "trigger"}

\* handle: the load that the handle leads to; first, second: what the two queries
\* of set_ip_range() have returned; range: the images that its base and its size
\* are taken from; sent, reached: the last payload, and how many of the payloads
\* executed have come to a driver.
Init ==
  /\ platform \in Platforms
  /\ driver = [load |-> 0, stage |-> "absent"]
  /\ devices = {} /\ node = {}
  /\ images = << [name |-> "kernel", id |-> 0], [name |-> "other", id |-> 0] >>
  /\ others = 0 /\ failures = 0 /\ kernel = "up"
  /\ harness = [pc |-> "open", handle |-> {}, first |-> <<>>, second |-> <<>>,
                range |-> <<>>, sent |-> "none", executed |-> 0, reached |-> 0]

\* The image of the driver leaves the kernel.
RemoveImage ==
  \E i \in 1..Len(images) : images[i] = Image(driver.load) /\ images' = RemoveAt(images, i)

\* habort() powers the VM off, as a crash of its kernel ends this run.
Up == kernel = "up" /\ harness.pc # "aborted"
Fails == failures < MaxFailures /\ failures' = failures + 1
Succeeds == UNCHANGED failures

---------------------------------------------------------------------------
\* The driver.

\* All devices have the same name on Windows, and a major number each on macOS.
\* Variant: a name of its own for each.
Slots_OwnName == IF platform = "windows" THEN MaxLoads ELSE Majors
Slots == IF platform = "windows" THEN 1 ELSE Majors

\* DriverEntry() and vuln_start() up to the device.  When there is none, vuln_start()
\* returns, but DriverEntry() first deletes the device its object does not have.
CreateDevice ==
  /\ Up /\ driver.stage = "absent" /\ driver.load < MaxLoads
  /\ \/ /\ Succeeds /\ Cardinality(devices) < Slots
        /\ driver'  = [load |-> driver.load + 1, stage |-> "created"]
        /\ devices' = devices \union {driver.load + 1}
        /\ images'  = Append(images, Image(driver.load + 1))
        /\ UNCHANGED kernel
     \/ /\ IF Cardinality(devices) < Slots THEN Fails ELSE Succeeds
        /\ driver' = [load |-> driver.load + 1, stage |-> "absent"]
        /\ kernel' = IF platform = "windows" THEN "bugcheck" ELSE "up"
        /\ UNCHANGED <<devices, images>>
  /\ UNCHANGED <<platform, node, others, harness>>

\* IoCreateSymbolicLink() and devfs_make_node(): there cannot be two of a name.  If
\* it fails the driver is not loaded, yet nothing takes back the device.
CreateNode ==
  /\ Up /\ driver.stage = "created"
  /\ \/ /\ Succeeds /\ node = {}
        /\ driver' = [driver EXCEPT !.stage = "loaded"]
        /\ node'   = {driver.load}
        /\ UNCHANGED images
     \/ /\ IF node = {} THEN Fails ELSE Succeeds
        /\ driver' = [driver EXCEPT !.stage = "absent"]
        /\ RemoveImage
        /\ UNCHANGED node
  /\ UNCHANGED <<platform, devices, others, kernel, harness>>

\* The first half of DriverUnload() and vuln_stop().  Windows calls it when no
\* handle is open.  The result of IoDeleteSymbolicLink() is not looked at: the name
\* may stay; devfs_remove() has none.
\* Variant: the halves in the other order.
DeleteNode_Last ==
  /\ Up /\ driver.stage = "loaded"
  /\ platform = "windows" => harness.handle = {}
  /\ driver'  = [driver EXCEPT !.stage = "stopping"]
  /\ devices' = devices \ {driver.load}
  /\ UNCHANGED <<platform, node, images, others, failures, kernel, harness>>
DeleteNode ==
  /\ Up /\ driver.stage = "loaded"
  /\ platform = "windows" => harness.handle = {}
  /\ driver' = [driver EXCEPT !.stage = "stopping"]
  /\ \/ Succeeds /\ node' = {}
     \/ platform = "windows" /\ Fails /\ UNCHANGED node
  /\ UNCHANGED <<platform, devices, images, others, kernel, harness>>

\* The second half; then the image goes.
\* Variant: the device stays.
DeleteDevice_Kept ==
  /\ Up /\ driver.stage = "stopping"
  /\ driver'  = [driver EXCEPT !.stage = "absent"]
  /\ RemoveImage
  /\ UNCHANGED <<platform, devices, node, others, failures, kernel, harness>>
DeleteDevice ==
  /\ Up /\ driver.stage = "stopping"
  /\ driver'  = [driver EXCEPT !.stage = "absent"]
  /\ devices' = devices \ {driver.load}
  /\ RemoveImage
  /\ UNCHANGED <<platform, node, others, failures, kernel, harness>>

\* A payload of the size or with the text that crashMe() or vuln_write() looks for;
\* crashMe() returns at once from one shorter than 14 bytes, while vuln_write()
\* compares what its uninitialised buffer holds behind a short one.
Crashes(p) ==
  CASE p = "trigger"                       -> {TRUE}
    [] p = "short" /\ platform = "macos"   -> BOOLEAN
    [] OTHER                               -> {FALSE}

---------------------------------------------------------------------------
\* Other drivers.

OtherLoads ==
  /\ Up /\ others < MaxOthers
  /\ others' = others + 1
  /\ images' = Append(images, [name |-> "other", id |-> others + 1])
  /\ UNCHANGED <<platform, service, failures, kernel, harness>>

OtherUnloads ==
  /\ Up
  /\ \E i \in 1..Len(images) :
       images[i].name = "other" /\ images' = RemoveAt(images, i)
  /\ UNCHANGED <<platform, service, others, failures, kernel, harness>>

---------------------------------------------------------------------------
\* The harnesses.

Harness(h) == harness' = h /\ UNCHANGED <<platform, service, images, others>>
At(pc) == Up /\ harness.pc = pc
Aborted == [harness EXCEPT !.pc = "aborted"]

\* What the name leads to: the system opens no device of a driver that is not, or no
\* longer, loaded.
Openable == {g \in node : driver = [load |-> g, stage |-> "loaded"]}

\* CreateFile() or open(): only the Windows harness looks at what it returns.
\* Variant: that one does not, either.
AfterOpen_Unchecked == IF platform = "windows" THEN "list" ELSE "execute"
AfterOpen == CASE platform = "macos" -> "execute"
               [] Openable = {}      -> "aborted"
               [] OTHER              -> "list"
Open ==
  /\ At("open")
  /\ Harness([harness EXCEPT !.handle = Openable, !.pc = AfterOpen])
  /\ UNCHANGED <<failures, kernel>>

\* EnumDeviceDrivers(): the addresses of all images, if there is room for them.
ListDrivers ==
  /\ At("list")
  /\ \/ /\ Succeeds
        /\ Harness(IF Len(images) < ArraySize
                   THEN [harness EXCEPT !.pc = "query", !.first = images]
                   ELSE Aborted)
     \/ Fails /\ Harness(Aborted)
  /\ UNCHANGED kernel

\* NtQuerySystemInformation(): the same images with their names and sizes.  They
\* are paired with the addresses by their index.
\* Variant: the kernel's own entry is left out of one of the two.
Paired_Shifted(i) == <<harness.first[IF i = 1 THEN 1 ELSE i - 1], images[i]>>
Paired(i) == <<harness.first[i], images[i]>>

Matches == {i \in 1..Len(harness.first) : i <= Len(images) /\ images[i].name = "vuln"}

\* The rest of set_ip_range(): the first entry with the name of the driver is
\* submitted as the range; with none the VM is aborted.
SubmitRange ==
  /\ At("query")
  /\ \/ /\ Succeeds
        /\ Harness(IF Matches = {} THEN Aborted
                   ELSE [harness EXCEPT !.pc = "execute", !.second = images,
                           !.range = Paired(Min(Matches))])
     \/ Fails /\ Harness(Aborted)
  /\ UNCHANGED kernel

\* DeviceIoControl() and handleIrp(), write() and vuln_write(); the results are
\* not used.  A handle that leads nowhere makes the call fail.
Execute ==
  /\ At("execute") /\ harness.executed < MaxPayloads
  /\ LET there == driver.stage \in {"loaded", "stopping"} /\ harness.handle = {driver.load}
                    /\ driver.load \in devices
     IN \E p \in Payloads, crash \in BOOLEAN :
          /\ crash \in IF there THEN Crashes(p) ELSE {FALSE}
          /\ kernel' = IF crash THEN "panic" ELSE "up"
          /\ Harness([harness EXCEPT !.sent = p, !.executed = @ + 1,
                        !.reached = IF there THEN @ + 1 ELSE @])
  /\ UNCHANGED failures

\* The system has stopped, or the harness has executed its payloads.
Idle == (~ Up \/ harness.executed = MaxPayloads) /\ UNCHANGED vars

Next == CreateDevice \/ CreateNode \/ DeleteNode \/ DeleteDevice \/ OtherLoads
          \/ OtherUnloads \/ Open \/ ListDrivers \/ SubmitRange \/ Execute \/ Idle

Spec == Init /\ [][Next]_vars

---------------------------------------------------------------------------
\* Properties.

Stages == {"absent", "created", "loaded", "stopping"}
Loads == 1..MaxLoads

\* Every variable has a value the program can give it; there is at most one device
\* of a name.
TypeOK ==
  /\ platform \in Platforms
  /\ driver \in [load : 0..MaxLoads, stage : Stages]
  /\ devices \subseteq Loads /\ node \subseteq Loads
  /\ Cardinality(devices) <= IF platform = "windows" THEN 1 ELSE Majors
  /\ images \in Seq(Images)
  /\ others \in 0..MaxOthers /\ failures \in 0..MaxFailures
  /\ kernel \in {"up", "bugcheck", "panic"}
  /\ harness \in [pc : {"open", "list", "query", "execute", "aborted"},
                  handle : SUBSET Loads, first : Seq(Images), second : Seq(Images),
                  range : Seq(Images), sent : Payloads \union {"none"},
                  executed : 0..MaxPayloads, reached : 0..MaxPayloads]

\* The name of a driver that is loaded leads to its device; and no load that fails
\* and no unload half done leaves a name that leads nowhere, except where Windows
\* has not deleted the link, whose result DriverUnload() ignores.
NodeLeadsToDriver ==
  /\ driver.stage = "loaded" => node = {driver.load} /\ driver.load \in devices
  /\ node # {} /\ driver.stage # "loaded" => platform = "windows" /\ failures > 0

\* DriverEntry() brings the system down only on Windows, while it gives up a load,
\* and only after some call has failed, in this load or in an earlier one that has
\* left its device behind: loading and unloading the driver over and over does no
\* harm.
BugCheckHasCause ==
  kernel = "bugcheck" =>
    platform = "windows" /\ driver.stage = "absent" /\ failures > 0

\* The size that the harness submits is that of the vulnerable driver, and so is the
\* base, whatever drivers are loaded while it looks for it; only one that is unloaded
\* between the two queries can shift the names against the addresses.
RangeIsTheDrivers ==
  harness.range # <<>> =>
    \A g \in harness.handle :
      /\ harness.range[2] = Image(g)
      /\ harness.range[1] = Image(g) \/ ~ IsPrefix(harness.first, harness.second)

\* Every payload that the Windows harness executes comes to the driver it has opened,
\* which is not unloaded under its handle; and the driver crashes only by a payload
\* that asks for it, where the one of macOS may also do so by what is left on its
\* stack behind a short payload.
PayloadsReachDriver ==
  /\ platform = "windows" => harness.reached = harness.executed
  /\ kernel = "panic" =>
       /\ harness.reached > 0
       /\ harness.sent = "trigger" \/ (platform = "macos" /\ harness.sent = "short")

============================================================================
