--------------------------- MODULE FileTransfer ---------------------------
(***************************************************************************)
(* libnyx_agent/src/nyx_agent.c, as vmcall uses it: files go from the      *)
(* host's sharedir to the guest (hget), from the guest to the host's dump  *)
(* directory (hpush) and to its log (hcat), one chunk per hypercall.       *)
(* A command is a process of its own; between and during commands another  *)
(* process of the guest may write to the file.                             *)
(***************************************************************************)
EXTENDS Naturals, Sequences

CONSTANTS
  Chunk,        \* the scratch buffer of hget_file() and hpush_file(), in blocks
  PrintMax,     \* HPRINTF_MAX_SIZE, in blocks
  MaxLen,       \* bound: the length of a file
  MaxCommands,  \* bound: the commands run
  CpuTypes,     \* the kinds of CPU to consider
  Cmds,         \* the commands to consider
  Faults        \* the calls that may fail

ASSUME FileTransferAssumption ==
  /\ Chunk \in Nat \ {0} /\ PrintMax \in Nat \ {0}
  /\ MaxLen \in Nat /\ MaxCommands \in Nat
  /\ CpuTypes \subseteq {"v1", "v2", "none"}
  /\ Cmds \subseteq {"hget", "hpush", "hcat"}
  /\ Faults \subseteq {"creat", "write", "alloc", "read"}

VARIABLES
  nyx_cpu_type,
  share,   \* the file in the sharedir: {}, if it is missing, or { its content }
  pos,     \* where the host goes on reading it: a request has no offset
  local,   \* the guest's file, in the same way
  dump,    \* the host's copy of what was pushed
  printed, \* what the running hcat has made the host print: one text per call
  proc,    \* the running command
  count    \* commands begun

vars == <<nyx_cpu_type, share, pos, local, dump, printed, proc, count>>

\* The content of a file is a sequence of blocks, told apart by their numbers.
\* The host's differ from the guest's.
FilesFrom(b) == {{}} \union {{[i \in 1..n |-> b + i]} : n \in 0..MaxLen}
Content(f) == CHOOSE c \in f : TRUE
Exists(f) == f # {}

\* off: how far the command has read.  buf: hprintf_buffer.  failed: hcat has
\* printed an error message.  The last three are
\* history: what is pushed behind, the length of the local file and whether the
\* host was at the start of its file, when the command began.
Idle == [cmd |-> "none", off |-> 0, append |-> FALSE, buf |-> <<>>, status |-> "none",
         failed |-> FALSE, old |-> <<>>, len |-> 0, fresh |-> TRUE]

Init ==
  /\ nyx_cpu_type \in CpuTypes
  /\ share \in FilesFrom(0) /\ local \in FilesFrom(MaxLen)
  /\ pos = 0 /\ dump = <<>> /\ printed = <<>>
  /\ proc = Idle /\ count = 0

Runs(c) == proc.cmd = c /\ proc.status = "running"
Ends(s) == proc' = [proc EXCEPT !.status = s]

AtMost(n, m) == IF n < m THEN n ELSE m
Piece(f, off, max) == SubSeq(Content(f), off + 1, off + AtMost(max, Len(Content(f)) - off))

\* hypercall(): only a Nyx CPU with PT gets to the host.
Gated == nyx_cpu_type = "v1"

---------------------------------------------------------------------------
\* A command begins, once the one before it has ended.
Begin(c) ==
  /\ c \in Cmds /\ count < MaxCommands /\ proc.status # "running"
  /\ count' = count + 1

Started(c, a) == [Idle EXCEPT !.cmd = c, !.status = "running", !.append = a,
                    !.old = IF a THEN dump ELSE <<>>, !.fresh = (pos = 0),
                    !.len = IF Exists(local) THEN Len(Content(local)) ELSE 0]

\* hget_file() up to its loop: creat() empties the file before anything is asked
\* of the host.
BeginHget ==
  /\ Begin("hget")
  /\ \/ /\ proc' = Started("hget", FALSE)
        /\ local' = {<<>>}
     \/ /\ "creat" \in Faults
        /\ proc' = [Started("hget", FALSE) EXCEPT !.status = "error"]
        /\ UNCHANGED local
  /\ UNCHANGED <<nyx_cpu_type, share, pos, dump, printed>>

\* hpush_file() up to its loop.
BeginHpush ==
  /\ Begin("hpush")
  /\ \E a \in BOOLEAN :
       \/ Exists(local) /\ proc' = Started("hpush", a)
       \/ /\ ~ Exists(local) \/ "alloc" \in Faults
          /\ proc' = [Started("hpush", a) EXCEPT !.status = "error"]
  /\ UNCHANGED <<nyx_cpu_type, share, pos, local, dump, printed>>

\* cmd_hcat() with the file: that fopen() fails leaves `written' at 0, which is
\* returned.
BeginHcat ==
  /\ Begin("hcat")
  /\ printed' = <<>>
  /\ proc' = IF Exists(local) THEN Started("hcat", FALSE)
             ELSE [Started("hcat", FALSE) EXCEPT !.status = "0", !.failed = TRUE]
  /\ UNCHANGED <<nyx_cpu_type, share, pos, local, dump>>

---------------------------------------------------------------------------
\* REQ_STREAM_DATA_BULK: the host gives the next piece and, after one that is
\* not full, starts again.
Requested == IF Gated THEN Piece(share, pos, Chunk) ELSE <<>>
NextPos(got) == IF ~ Gated THEN pos ELSE IF Len(got) < Chunk THEN 0 ELSE pos + Len(got)

\* Variant: a full piece is the last one.
More_Over(got) == Len(got) > Chunk
\* while (read == scratch_size)
More(got) == Len(got) = Chunk

\* One turn of the loop of hget_file().
HgetPiece ==
  /\ Runs("hget")
  /\ \/ /\ Gated /\ ~ Exists(share)
        /\ Ends("error")
        /\ UNCHANGED <<pos, local>>
     \/ /\ ~ Gated \/ Exists(share)
        /\ pos' = NextPos(Requested)
        /\ \/ /\ local' = {Content(local) \o Requested}
              /\ IF More(Requested) THEN UNCHANGED proc ELSE Ends("0")
           \/ /\ "write" \in Faults /\ Len(Requested) > 0
              /\ Ends("error")
              /\ \E n \in 0..(Len(Requested) - 1) :
                   local' = {Content(local) \o SubSeq(Requested, 1, n)}
  /\ UNCHANGED <<nyx_cpu_type, share, dump, printed, count>>

\* DUMP_FILE.
Dumped(a, data) == IF a THEN dump \o data ELSE data

\* put_req.append after a chunk.  Variant: as it was given.
NextAppend_AsGiven(a) == a
NextAppend(a) == TRUE

\* One turn of the loop of hpush_file(); its calls are not gated.
HpushPiece ==
  /\ Runs("hpush")
  /\ LET data == Piece(local, proc.off, Chunk) IN
       IF data = <<>>
       THEN Ends("0") /\ UNCHANGED dump
       ELSE /\ proc' = [proc EXCEPT !.off = @ + Len(data), !.append = NextAppend(@)]
            /\ dump' = IF nyx_cpu_type = "v1" THEN Dumped(proc.append, data) ELSE dump
  /\ UNCHANGED <<nyx_cpu_type, share, pos, local, printed, count>>

\* Without a Nyx host, a vmcall instruction that nothing has gated is a trap.
HpushTraps ==
  /\ Runs("hpush") /\ nyx_cpu_type # "v1"
  /\ Ends("killed")
  /\ UNCHANGED <<nyx_cpu_type, share, pos, local, dump, printed, count>>

\* read() fails: habort(), which does not return.
HpushAborts ==
  /\ Runs("hpush") /\ "read" \in Faults
  /\ Ends("aborted")
  /\ UNCHANGED <<nyx_cpu_type, share, pos, local, dump, printed, count>>

\* fread() into the static hprintf_buffer: what is behind the data stays.
Filled(buf, data) ==
  [i \in 1..(IF Len(buf) > Len(data) THEN Len(buf) ELSE Len(data)) |->
     IF i <= Len(data) THEN data[i] ELSE buf[i]]

\* feof(f) after fread().  Variant: a full piece is the last one, too.
AtEof_Full(data) == Len(data) <= PrintMax
AtEof(data) == Len(data) < PrintMax

\* One turn of the loop of hprintf_from_file(), the last of which ends cmd_hcat().
HcatPiece ==
  /\ Runs("hcat")
  /\ LET data == Piece(local, proc.off, PrintMax)
         buf  == Filled(proc.buf, data)
         off  == proc.off + Len(data)
     IN /\ printed' = IF Gated THEN Append(printed, buf) ELSE printed
        /\ proc' = [proc EXCEPT !.off = off, !.buf = buf,
                      !.status = IF ~ AtEof(data) THEN "running"
                                 ELSE IF off > 0 THEN "0" ELSE "error"]
  /\ UNCHANGED <<nyx_cpu_type, share, pos, local, dump, count>>

\* fread() fails: cmd_hcat() adds -1 to the unsigned `written', and returns what
\* it returns if something was printed.
HcatFails ==
  /\ Runs("hcat") /\ "read" \in Faults
  /\ proc' = [proc EXCEPT !.status = "0", !.failed = TRUE]
  /\ UNCHANGED <<nyx_cpu_type, share, pos, local, dump, printed, count>>

\* Another process adds to the guest's file, the log of an agent for example.
LocalGrows ==
  /\ Exists(local) /\ Len(Content(local)) < MaxLen
  /\ ~ Runs("hget")
  /\ local' = {Append(Content(local), MaxLen + Len(Content(local)) + 1)}
  /\ UNCHANGED <<nyx_cpu_type, share, pos, dump, printed, proc, count>>

Done == count = MaxCommands /\ proc.status # "running" /\ UNCHANGED vars

Next == BeginHget \/ BeginHpush \/ BeginHcat \/ HgetPiece \/ HpushPiece \/ HpushTraps
          \/ HpushAborts \/ HcatPiece \/ HcatFails \/ LocalGrows \/ Done

Spec == Init /\ [][Next]_vars

---------------------------------------------------------------------------
\* Properties.

\* An hget that starts at the beginning of the host's file and ends with success
\* has fetched all of it, also if its length is a multiple of the chunk's.
FetchedWhole ==
  [][ (Runs("hget") /\ proc'.status = "0" /\ Gated /\ proc.fresh) => local' = share ]_vars

\* What hpush has sent lies in the dump, once and in order, behind what was there
\* only if it was to be appended; at its end that is the whole file, including
\* what was added to it up to then.
PushedInOrder ==
  proc.cmd = "hpush" /\ nyx_cpu_type = "v1" /\ proc.off > 0 =>
    /\ dump = proc.old \o SubSeq(Content(local), 1, proc.off)
    /\ proc.status = "0" => proc.off >= proc.len

\* Every text that hcat makes the host print begins with the piece of the file
\* whose turn it is, and without an error no piece is left out.  What is behind the
\* piece was printed before: the place of the text before it, and nothing older.
PrintedInOrder ==
  proc.cmd = "hcat" /\ Gated =>
    /\ \A i \in 1..proc.off :
         printed[((i - 1) \div PrintMax) + 1][((i - 1) % PrintMax) + 1] = Content(local)[i]
    /\ proc.status = "0" /\ ~ proc.failed => proc.off >= proc.len
    /\ \A t \in 1..Len(printed) : \A j \in 1..Len(printed[t]) :
         ((t - 1) * PrintMax) + j > proc.off =>
           t > 1 /\ j <= Len(printed[t - 1]) /\ printed[t][j] = printed[t - 1][j]

============================================================================
