------------------------- MODULE FileTransfer_proofs -------------------------
(***************************************************************************)
(* Theorems about FileTransfer, for all values of its constants: what the  *)
(* chunk loops of hget, hpush and hcat have moved after any number of      *)
(* chunks, of any size, of files of any length.                            *)
(***************************************************************************)
EXTENDS FileTransfer, SequenceTheorems, TLAPS

Files == {{}} \union {{c} : c \in Seq(Nat)}
Statuses == {"none", "running", "0", "error", "killed", "aborted"}
Procs == [cmd : {"none", "hget", "hpush", "hcat"}, off : Nat, append : BOOLEAN,
          buf : Seq(Nat), status : Statuses, failed : BOOLEAN, old : Seq(Nat), len : Nat,
          fresh : BOOLEAN]

TypeInv ==
  /\ nyx_cpu_type \in CpuTypes
  /\ share \in Files /\ local \in Files /\ pos \in Nat
  /\ dump \in Seq(Nat) /\ printed \in Seq(Seq(Nat))
  /\ proc \in Procs

\* The host stays within its file.
HostInv == Exists(share) => pos <= Len(Content(share))

\* What an hget that began at the beginning has fetched so far.
Getting ==
  Runs("hget") =>
    /\ Exists(local)
    /\ Gated /\ proc.fresh /\ Exists(share) => Content(local) = SubSeq(Content(share), 1, pos)

\* How far a command has read the local file.
Within(p) ==
  Exists(local) /\ p.off <= Len(Content(local)) /\ p.len <= Len(Content(local))

\* What an hpush has sent so far; the first chunk replaces the dump or is appended.
Pushing ==
  proc.cmd = "hpush" =>
    /\ proc.status = "running" => Within(proc)
    /\ nyx_cpu_type = "v1" /\ proc.off = 0 /\ proc.status = "running" =>
         proc.old = IF proc.append THEN dump ELSE <<>>
    /\ nyx_cpu_type = "v1" /\ proc.off > 0 =>
         /\ proc.append /\ Exists(local) /\ proc.off <= Len(Content(local))
         /\ dump = proc.old \o SubSeq(Content(local), 1, proc.off)
         /\ proc.status = "0" => proc.off >= proc.len

\* What an hcat has printed so far; its texts are full but for the last.
PieceOfText(i) == ((i - 1) \div PrintMax) + 1
PlaceInText(i) == ((i - 1) % PrintMax) + 1
Printing ==
  proc.cmd = "hcat" =>
    /\ proc.status = "running" =>
         Within(proc) /\ (Gated => proc.off = PrintMax * Len(printed))
    /\ Gated /\ proc.off > 0 =>
         /\ Exists(local) /\ proc.off <= Len(Content(local))
         /\ \A i \in 1..proc.off :
              printed[PieceOfText(i)][PlaceInText(i)] = Content(local)[i]
    /\ Gated /\ proc.status = "0" /\ ~ proc.failed => proc.off >= proc.len

IInv == TypeInv /\ HostInv /\ Getting /\ Pushing /\ Printing

---------------------------------------------------------------------------
\* Sequences and pieces of files.

\* What a file holds.
LEMMA ContentOf ==
  ASSUME NEW f \in Files, Exists(f)
  PROVE  Content(f) \in Seq(Nat) /\ f = {Content(f)}
<1>1. PICK c \in Seq(Nat) : f = {c}
  BY DEF Files, Exists
<1>2. Content(f) = c
  BY <1>1 DEF Content
<1> QED BY <1>1, <1>2

\* And the other way.
LEMMA FileOf ==
  ASSUME NEW c \in Seq(Nat)
  PROVE  {c} \in Files /\ Exists({c}) /\ Content({c}) = c
BY DEF Files, Exists, Content

\* A beginning of a sequence and the piece behind it.
LEMMA Adjacent ==
  ASSUME NEW c \in Seq(Nat), NEW k \in 0..Len(c), NEW n \in k..Len(c)
  PROVE  /\ SubSeq(c, 1, k) \in Seq(Nat) /\ Len(SubSeq(c, 1, k)) = k
         /\ SubSeq(c, k + 1, n) \in Seq(Nat) /\ Len(SubSeq(c, k + 1, n)) = n - k
         /\ \A i \in 1..(n - k) : SubSeq(c, k + 1, n)[i] = c[k + i]
         /\ SubSeq(c, 1, k) \o SubSeq(c, k + 1, n) = SubSeq(c, 1, n)
<1>1. k \in Nat /\ n \in Nat /\ Len(c) \in Nat /\ k <= n /\ n <= Len(c)
  OBVIOUS
<1> DEFINE a == SubSeq(c, 1, k)
           b == SubSeq(c, k + 1, n)
           d == SubSeq(c, 1, n)
<1>2. a \in Seq(Nat) /\ Len(a) = k /\ \A i \in 1..k : a[i] = c[i]
  BY <1>1
<1>3. b \in Seq(Nat) /\ Len(b) = n - k /\ \A i \in 1..(n - k) : b[i] = c[k + i]
  BY <1>1
<1>4. d \in Seq(Nat) /\ Len(d) = n /\ \A i \in 1..n : d[i] = c[i]
  BY <1>1
<1> HIDE DEF a, b, d
<1>5. /\ a \o b \in Seq(Nat) /\ Len(a \o b) = Len(a) + Len(b)
      /\ \A i \in 1..Len(a) + Len(b) : (a \o b)[i] = IF i <= Len(a) THEN a[i] ELSE b[i - Len(a)]
  BY <1>2, <1>3, ConcatProperties
<1>6. Len(a \o b) = Len(d)
  BY <1>1, <1>2, <1>3, <1>4, <1>5
<1>7. \A i \in 1..Len(a \o b) : (a \o b)[i] = d[i]
  <2>1. SUFFICES ASSUME NEW i \in 1..n PROVE (a \o b)[i] = d[i]
    BY <1>4, <1>6
  <2>2. (a \o b)[i] = IF i <= k THEN a[i] ELSE b[i - k]
    <3>1. Len(a) = k /\ Len(b) = n - k /\ i \in 1..(k + (n - k))
      BY <1>1, <1>2, <1>3
    <3>2. i \in 1..Len(a) + Len(b)
      BY <3>1
    <3> QED BY <1>5, <3>1, <3>2
  <2>3. CASE i <= k
    BY <1>2, <1>4, <2>2, <2>3
  <2>4. CASE i > k
    <3>1. i - k \in 1..(n - k) /\ k + (i - k) = i
      BY <1>1, <2>4
    <3>2. b[i - k] = c[i]
      BY <1>3, <3>1
    <3>3. (a \o b)[i] = b[i - k]
      BY <1>1, <2>2, <2>4
    <3> QED BY <1>4, <3>2, <3>3
  <2>5. i <= k \/ i > k
    BY <1>1
  <2> QED BY <2>3, <2>4, <2>5
<1>8. a \o b = d
  BY <1>4, <1>5, <1>6, <1>7, SeqEqual
<1> QED BY <1>2, <1>3, <1>8 DEF a, b, d

\* The piece that a loop takes at an offset.
LEMMA PieceOf ==
  ASSUME NEW f \in Files, Exists(f), NEW off \in 0..Len(Content(f)), NEW max \in Nat \ {0}
  PROVE  /\ Piece(f, off, max) \in Seq(Nat)
         /\ off + Len(Piece(f, off, max)) \in off..Len(Content(f))
         /\ Len(Piece(f, off, max)) \in 0..max
         /\ Len(Piece(f, off, max)) < max => off + Len(Piece(f, off, max)) = Len(Content(f))
         /\ \A i \in 1..Len(Piece(f, off, max)) : Piece(f, off, max)[i] = Content(f)[off + i]
         /\ SubSeq(Content(f), 1, off) \o Piece(f, off, max)
              = SubSeq(Content(f), 1, off + Len(Piece(f, off, max)))
<1> DEFINE c == Content(f)
           m == AtMost(max, Len(c) - off)
           n == off + m
           p == SubSeq(c, off + 1, n)
<1>1. c \in Seq(Nat) /\ Len(c) \in Nat /\ off \in 0..Len(c)
  BY ContentOf
<1>2. Piece(f, off, max) = p
  BY DEF Piece
<1>3. m \in 0..max /\ n \in off..Len(c) /\ (m < max => n = Len(c)) /\ m \in Nat
  BY <1>1 DEF AtMost
<1> HIDE DEF c, m
<1>4. /\ p \in Seq(Nat) /\ Len(p) = n - off
      /\ \A i \in 1..(n - off) : p[i] = c[off + i]
      /\ SubSeq(c, 1, off) \o p = SubSeq(c, 1, n)
  BY <1>1, <1>3, Adjacent
<1>5. n - off = m /\ off + m = n
  BY <1>1, <1>3
<1> HIDE DEF n, p
<1>6. Len(p) = m /\ off + Len(p) = n
  BY <1>4, <1>5
<1> QED BY <1>2, <1>3, <1>4, <1>5, <1>6 DEF c

\* A file that grows keeps its beginning.
LEMMA Grown ==
  ASSUME NEW c \in Seq(Nat), NEW x \in Nat, NEW k \in 0..Len(c)
  PROVE  /\ Append(c, x) \in Seq(Nat) /\ Len(Append(c, x)) = Len(c) + 1
         /\ SubSeq(Append(c, x), 1, k) = SubSeq(c, 1, k)
         /\ \A i \in 1..k : Append(c, x)[i] = c[i]
<1> DEFINE d == Append(c, x)
<1>1. /\ d \in Seq(Nat) /\ Len(d) = Len(c) + 1 /\ Len(c) \in Nat /\ k \in Nat /\ k <= Len(c)
      /\ \A i \in 1..Len(c) : d[i] = c[i]
  OBVIOUS
<1> HIDE DEF d
<1>2. /\ SubSeq(d, 1, k) \in Seq(Nat) /\ Len(SubSeq(d, 1, k)) = k
      /\ \A i \in 1..k : SubSeq(d, 1, k)[i] = d[i]
  BY <1>1
<1>3. /\ SubSeq(c, 1, k) \in Seq(Nat) /\ Len(SubSeq(c, 1, k)) = k
      /\ \A i \in 1..k : SubSeq(c, 1, k)[i] = c[i]
  BY <1>1
<1>4. \A i \in 1..k : d[i] = c[i]
  BY <1>1
<1>5. SubSeq(d, 1, k) = SubSeq(c, 1, k)
  BY <1>2, <1>3, <1>4, SeqEqual
<1> QED BY <1>1, <1>4, <1>5 DEF d

\* hprintf_buffer after fread() begins with the data.
LEMMA FilledBuffer ==
  ASSUME NEW buf \in Seq(Nat), NEW data \in Seq(Nat)
  PROVE  /\ Filled(buf, data) \in Seq(Nat)
         /\ \A i \in 1..Len(data) : Filled(buf, data)[i] = data[i]
<1> DEFINE m == IF Len(buf) > Len(data) THEN Len(buf) ELSE Len(data)
           f == Filled(buf, data)
<1>1. m \in Nat /\ Len(data) \in Nat /\ Len(data) <= m /\ (m > Len(data) => m = Len(buf))
  OBVIOUS
<1>2. f = [i \in 1..m |-> IF i <= Len(data) THEN data[i] ELSE buf[i]]
  BY DEF Filled
<1> HIDE DEF m, f
<1>3. \A i \in 1..m : f[i] = IF i <= Len(data) THEN data[i] ELSE buf[i]
  BY <1>2
<1>4. f \in Seq(Nat)
  <2>1. ASSUME NEW i \in 1..m PROVE f[i] \in Nat
    <3>1. CASE i <= Len(data)
      BY <1>3, <3>1
    <3>2. CASE i > Len(data)
      <4>1. i \in 1..Len(buf)
        BY <1>1, <3>2
      <4>2. buf[i] \in Nat
        BY <4>1
      <4>3. f[i] = buf[i]
        BY <1>1, <1>3, <3>2
      <4> QED BY <4>2, <4>3
    <3> QED BY <1>1, <3>1, <3>2
  <2>2. f \in [1..m -> Nat]
    BY <1>2, <2>1
  <2> QED BY <1>1, <2>2
<1>5. \A i \in 1..Len(data) : f[i] = data[i]
  BY <1>1, <1>3
<1> QED BY <1>4, <1>5 DEF f

\* The texts before the one being printed hold what is in front of it in the file.
LEMMA TextPlaces ==
  ASSUME NEW p \in Nat \ {0}, NEW n \in Nat
  PROVE  /\ \A i \in Nat \ {0} : i <= p * n =>
               ((i - 1) \div p) + 1 \in 1..n /\ ((i - 1) % p) + 1 \in 1..p
         /\ \A j \in 1..p : /\ (((p * n) + j - 1) \div p) + 1 = n + 1
                            /\ (((p * n) + j - 1) % p) + 1 = j
<1>1. ASSUME NEW i \in Nat \ {0}, i <= p * n
      PROVE  ((i - 1) \div p) + 1 \in 1..n /\ ((i - 1) % p) + 1 \in 1..p
  <2> DEFINE a == i - 1
             q == a \div p
             r == a % p
  <2>1. a \in Nat /\ a < p * n
    BY <1>1
  <2> HIDE DEF a
  <2>2. q \in Nat /\ r \in 0..(p - 1) /\ a = (p * q) + r
    BY <2>1
  <2> HIDE DEF q, r
  <2>3. q < n
    <3>1. SUFFICES ASSUME q >= n PROVE FALSE
      BY <2>2
    <3>2. p * q >= p * n
      BY <2>2, <3>1
    <3> QED BY <2>1, <2>2, <3>2
  <2>4. q + 1 \in 1..n /\ r + 1 \in 1..p
    BY <2>2, <2>3
  <2> QED BY <2>4 DEF a, q, r
<1>2. ASSUME NEW j \in 1..p
      PROVE  /\ (((p * n) + j - 1) \div p) + 1 = n + 1
             /\ (((p * n) + j - 1) % p) + 1 = j
  <2> DEFINE a == (p * n) + j - 1
             q == a \div p
             r == a % p
             m == p * n
  <2>1. m \in Nat /\ j - 1 \in 0..(p - 1) /\ a = m + (j - 1) /\ a \in Nat
    BY <1>2
  <2> HIDE DEF a
  <2>2. q \in Nat /\ r \in 0..(p - 1) /\ a = (p * q) + r
    BY <2>1
  <2> HIDE DEF q, r
  <2>3. q = n
    <3>1. ~ (q < n)
      <4>1. SUFFICES ASSUME q + 1 <= n PROVE FALSE
        BY <2>2
      <4>2. p * (q + 1) <= p * n
        BY <2>2, <4>1
      <4>3. p * (q + 1) = (p * q) + p
        BY <2>2
      <4> QED BY <2>1, <2>2, <4>2, <4>3
    <3>2. ~ (n < q)
      <4>1. SUFFICES ASSUME n + 1 <= q PROVE FALSE
        BY <2>2
      <4>2. p * (n + 1) <= p * q
        BY <2>2, <4>1
      <4>3. p * (n + 1) = (p * n) + p
        OBVIOUS
      <4> QED BY <2>1, <2>2, <4>2, <4>3
    <3> QED BY <2>2, <3>1, <3>2
  <2>4. r = j - 1
    BY <2>1, <2>2, <2>3
  <2> QED BY <2>3, <2>4 DEF a, q, r
<1> QED BY <1>1, <1>2

---------------------------------------------------------------------------
\* The commands begin.

\* What a command starts with.
LEMMA StartedFields ==
  ASSUME TypeInv, NEW c \in {"hget", "hpush", "hcat"}, NEW a \in BOOLEAN
  PROVE  /\ Started(c, a) \in Procs
         /\ Started(c, a).cmd = c /\ Started(c, a).off = 0
         /\ Started(c, a).append = a /\ Started(c, a).fresh = (pos = 0)
         /\ Started(c, a).status = "running" /\ Started(c, a).failed = FALSE
         /\ Started(c, a).old = IF a THEN dump ELSE <<>>
         /\ Exists(local) => Started(c, a).len = Len(Content(local))
<1> DEFINE o == IF a THEN dump ELSE <<>>
           n == IF Exists(local) THEN Len(Content(local)) ELSE 0
           b == (pos = 0)
<1>1. o \in Seq(Nat) /\ n \in Nat /\ b \in BOOLEAN
  BY ContentOf DEF TypeInv
<1>2. Started(c, a) = [Idle EXCEPT !.cmd = c, !.status = "running", !.append = a, !.old = o,
                       !.fresh = b, !.len = n]
  BY DEF Started
<1>3. Exists(local) => n = Len(Content(local))
  OBVIOUS
<1> HIDE DEF o, n, b
<1>4. Started(c, a) = [cmd |-> c, off |-> 0, append |-> a, buf |-> <<>>, status |-> "running",
                       failed |-> FALSE, old |-> o, len |-> n, fresh |-> b]
  BY <1>2 DEF Idle
<1>5. Started(c, a) \in Procs
  BY <1>1, <1>4 DEF Procs, Statuses
<1> QED BY <1>3, <1>4, <1>5 DEF o, b

\* creat() leaves an empty file, which is what has been fetched of a file whose
\* first block the host sends next.
LEMMA BeginHgetHolds ==
  ASSUME IInv, BeginHget
  PROVE  IInv'
<1> DEFINE p == Started("hget", FALSE)
<1>1. p \in Procs /\ p.cmd = "hget" /\ p.fresh = (pos = 0) /\ p.status = "running"
  BY StartedFields DEF IInv
<1>2. UNCHANGED <<nyx_cpu_type, share, pos, dump, printed>>
  BY DEF BeginHget
<1>3. \/ proc' = p /\ local' = {<<>>}
      \/ proc' = [p EXCEPT !.status = "error"] /\ local' = local
  BY DEF BeginHget
<1> HIDE DEF p
<1>4. [p EXCEPT !.status = "error"] \in Procs /\ [p EXCEPT !.status = "error"].cmd = "hget"
      /\ [p EXCEPT !.status = "error"].status = "error"
  BY <1>1 DEF Procs, Statuses
<1>5. {<<>>} \in Files /\ Exists({<<>>}) /\ Content({<<>>}) = <<>>
  <2>1. <<>> \in Seq(Nat)
    OBVIOUS
  <2> QED BY <2>1, FileOf
<1>6. TypeInv' /\ proc'.cmd = "hget" /\ HostInv'
  BY <1>1, <1>2, <1>3, <1>4, <1>5 DEF IInv, TypeInv, HostInv
<1>7. Getting'
  <2>1. SUFFICES ASSUME proc' = p, local' = {<<>>} PROVE Getting'
    BY <1>3, <1>4 DEF Getting, Runs
  <2>2. SUFFICES ASSUME pos = 0, Exists(share) PROVE <<>> = SubSeq(Content(share), 1, pos)
    BY <1>1, <1>2, <1>5, <2>1 DEF Getting
  <2>3. Content(share) \in Seq(Nat)
    BY <2>2, ContentOf DEF IInv, TypeInv
  <2> QED BY <2>2, <2>3
<1>8. Pushing' /\ Printing'
  BY <1>6 DEF Pushing, Printing
<1> QED BY <1>6, <1>7, <1>8 DEF IInv

\* hpush begins at the start of the file.
LEMMA BeginHpushHolds ==
  ASSUME IInv, BeginHpush
  PROVE  IInv'
<1>1. PICK a \in BOOLEAN :
        \/ Exists(local) /\ proc' = Started("hpush", a)
        \/ proc' = [Started("hpush", a) EXCEPT !.status = "error"]
  BY DEF BeginHpush
<1> DEFINE p == Started("hpush", a)
<1>2. /\ p \in Procs /\ p.cmd = "hpush" /\ p.off = 0 /\ p.append = a
      /\ p.old = (IF a THEN dump ELSE <<>>) /\ (Exists(local) => p.len = Len(Content(local)))
  BY StartedFields DEF IInv
<1>3. UNCHANGED <<nyx_cpu_type, share, pos, local, dump, printed>>
  BY DEF BeginHpush
<1>4. (Exists(local) /\ proc' = p) \/ proc' = [p EXCEPT !.status = "error"]
  BY <1>1
<1> HIDE DEF p
<1>5. LET e == [p EXCEPT !.status = "error"]
      IN e \in Procs /\ e.cmd = "hpush" /\ e.off = 0 /\ e.status = "error"
  BY <1>2 DEF Procs, Statuses
<1>6. TypeInv' /\ proc'.cmd = "hpush" /\ proc'.off = 0 /\ HostInv'
  BY <1>2, <1>3, <1>4, <1>5 DEF IInv, TypeInv, HostInv
<1>7. Pushing'
  <2>1. CASE Exists(local) /\ proc' = p
    <3>1. Len(Content(local)) \in Nat
      BY <2>1, ContentOf DEF IInv, TypeInv
    <3>2. Within(p)
      BY <1>2, <2>1, <3>1 DEF Within
    <3>3. Within(proc)'
      BY <1>3, <2>1, <3>2 DEF Within
    <3> QED BY <1>2, <1>3, <2>1, <3>3 DEF Pushing
  <2>2. CASE proc' = [p EXCEPT !.status = "error"]
    BY <1>5, <2>2 DEF Pushing
  <2> QED BY <1>4, <2>1, <2>2
<1>8. Getting' /\ Printing'
  BY <1>6 DEF Getting, Printing, Runs
<1> QED BY <1>6, <1>7, <1>8 DEF IInv

\* hcat begins at the start of the file, with nothing printed.
LEMMA BeginHcatHolds ==
  ASSUME IInv, BeginHcat
  PROVE  IInv'
<1> DEFINE p == Started("hcat", FALSE)
<1>1. /\ p \in Procs /\ p.cmd = "hcat" /\ p.off = 0 /\ p.status = "running"
      /\ (Exists(local) => p.len = Len(Content(local)))
  BY StartedFields DEF IInv
<1>2. /\ UNCHANGED <<nyx_cpu_type, share, pos, local, dump>> /\ printed' = <<>>
      /\ proc' = IF Exists(local) THEN p ELSE [p EXCEPT !.status = "0", !.failed = TRUE]
  BY DEF BeginHcat
<1> HIDE DEF p
<1>3. LET e == [p EXCEPT !.status = "0", !.failed = TRUE]
      IN e \in Procs /\ e.cmd = "hcat" /\ e.off = 0 /\ e.status = "0" /\ e.failed = TRUE
  BY <1>1 DEF Procs, Statuses
<1>4. TypeInv' /\ proc'.cmd = "hcat" /\ proc'.off = 0 /\ HostInv'
  BY <1>1, <1>2, <1>3 DEF IInv, TypeInv, HostInv
<1>5. Printing'
  <2>1. CASE Exists(local)
    <3>1. Len(Content(local)) \in Nat
      BY <2>1, ContentOf DEF IInv, TypeInv
    <3>2. Within(p)
      BY <1>1, <2>1, <3>1 DEF Within
    <3>3. Within(proc)'
      BY <1>2, <2>1, <3>2 DEF Within
    <3>4. proc'.off = PrintMax * Len(printed')
      BY <1>2, <1>4, FileTransferAssumption
    <3>5. proc'.status = "running"
      BY <1>1, <1>2, <2>1
    <3> QED BY <1>4, <3>3, <3>4, <3>5 DEF Printing
  <2>2. CASE ~ Exists(local)
    BY <1>2, <1>3, <1>4, <2>2 DEF Printing
  <2> QED BY <2>1, <2>2
<1>6. Getting' /\ Pushing'
  BY <1>4 DEF Getting, Pushing, Runs
<1> QED BY <1>4, <1>5, <1>6 DEF IInv

---------------------------------------------------------------------------
\* The loops.

\* The process ends with a status, or goes on.
LEMMA EndFields ==
  ASSUME TypeInv, NEW s \in Statuses, Ends(s)
  PROVE  /\ proc' \in Procs /\ proc'.cmd = proc.cmd /\ proc'.off = proc.off
         /\ proc'.append = proc.append /\ proc'.status = s /\ proc'.failed = proc.failed
         /\ proc'.old = proc.old /\ proc'.len = proc.len /\ proc'.fresh = proc.fresh
BY DEF TypeInv, Ends, Procs

\* One turn of hget_file(): the piece continues what has been fetched, and what is
\* fetched with the last one is the whole file.
LEMMA HgetHolds ==
  ASSUME IInv, HgetPiece
  PROVE  /\ IInv'
         /\ proc'.status = "0" /\ Gated /\ proc.fresh => local' = share
<1>1. /\ TypeInv /\ HostInv /\ Runs("hget") /\ Exists(local) /\ local \in Files /\ share \in Files
      /\ Gated /\ proc.fresh /\ Exists(share) => Content(local) = SubSeq(Content(share), 1, pos)
      /\ UNCHANGED <<nyx_cpu_type, share, dump, printed>>
  BY DEF IInv, HgetPiece, Getting, TypeInv
<1>2. CASE Gated /\ ~ Exists(share) /\ Ends("error") /\ UNCHANGED <<pos, local>>
  <2>1. proc' \in Procs /\ proc'.cmd = "hget" /\ proc'.status = "error"
    BY <1>1, <1>2, EndFields DEF Statuses, Runs
  <2>2. TypeInv' /\ HostInv'
    BY <1>1, <1>2, <2>1 DEF TypeInv, HostInv
  <2> QED BY <2>1, <2>2 DEF IInv, Getting, Pushing, Printing, Runs
<1>3. CASE (~ Gated \/ Exists(share)) /\ pos' = NextPos(Requested)
  <2> DEFINE got == Requested
             c == Content(local)
             h == Content(share)
  <2>1. c \in Seq(Nat) /\ local = {c} /\ pos \in Nat
    BY <1>1, ContentOf DEF TypeInv
  <2>2. /\ got \in Seq(Nat)
        /\ Gated => /\ Exists(share) /\ h \in Seq(Nat) /\ share = {h} /\ pos \in 0..Len(h)
                    /\ pos + Len(got) \in pos..Len(h) /\ Len(got) \in 0..Chunk
                    /\ Len(got) < Chunk => pos + Len(got) = Len(h)
                    /\ SubSeq(h, 1, pos) \o got = SubSeq(h, 1, pos + Len(got))
    <3>1. CASE Gated
      <4>1. Exists(share) /\ h \in Seq(Nat) /\ share = {h} /\ pos \in 0..Len(h)
        BY <1>1, <1>3, <2>1, <3>1, ContentOf DEF HostInv
      <4>2. got = Piece(share, pos, Chunk) /\ Chunk \in Nat \ {0}
        BY <3>1, FileTransferAssumption DEF Requested
      <4> HIDE DEF got
      <4> QED BY <1>1, <4>1, <4>2, PieceOf
    <3>2. CASE ~ Gated
      BY <3>2 DEF Requested
    <3> QED BY <3>1, <3>2
  <2>3. \/ /\ local' = {c \o got}
           /\ IF More(got) THEN UNCHANGED proc ELSE Ends("0")
        \/ /\ Ends("error")
           /\ \E n \in 0..(Len(got) - 1) : local' = {c \o SubSeq(got, 1, n)}
    <3>1. ~ (Gated /\ ~ Exists(share))
      BY <1>3
    <3> QED BY <3>1 DEF HgetPiece
  <2>4. pos' = IF ~ Gated THEN pos ELSE IF Len(got) < Chunk THEN 0 ELSE pos + Len(got)
    BY <1>3 DEF NextPos
  <2> HIDE DEF got, c, h
  <2>5. c \o got \in Seq(Nat) /\ \A n \in 0..(Len(got) - 1) : c \o SubSeq(got, 1, n) \in Seq(Nat)
    BY <2>1, <2>2
  <2>6. /\ local' \in Files /\ Exists(local') /\ (local' = {c \o got} => Content(local') = c \o got)
    BY <2>3, <2>5, FileOf
  <2>7. pos' \in Nat /\ HostInv'
    <3>1. pos' \in Nat /\ (Gated => pos' <= Len(h))
      BY <2>1, <2>2, <2>4
    <3>2. Exists(share) => pos' <= Len(Content(share))
      BY <1>1, <2>1, <2>4, <3>1 DEF h, HostInv
    <3> QED BY <1>1, <3>1, <3>2 DEF HostInv
  <2>8. /\ proc' \in Procs /\ proc'.cmd = "hget" /\ proc'.fresh = proc.fresh
        /\ local' = {c \o got} => proc'.status = "running" \/ proc'.status = "0" \/ proc'.status = "error"
    BY <1>1, <2>3, EndFields DEF Statuses, Runs, TypeInv
  <2>9. TypeInv'
    BY <1>1, <2>6, <2>7, <2>8 DEF TypeInv
  <2>10. CASE local' = {c \o got} /\ More(got) /\ proc' = proc
    <3>1. Gated /\ proc.fresh => c \o got = SubSeq(h, 1, pos')
      <4>1. SUFFICES ASSUME Gated, proc.fresh PROVE c \o got = SubSeq(h, 1, pos')
        OBVIOUS
      <4>2. c = SubSeq(h, 1, pos)
        BY <1>1, <2>2, <4>1 DEF c, h
      <4>3. pos' = pos + Len(got)
        BY <2>2, <2>4, <2>10, <4>1, FileTransferAssumption DEF More
      <4> QED BY <2>2, <4>1, <4>2, <4>3
    <3>2. Getting'
      BY <1>1, <2>6, <2>10, <3>1 DEF Getting, h, Gated
    <3> QED BY <1>1, <2>7, <2>8, <2>9, <2>10, <3>2 DEF IInv, Pushing, Printing, Runs
  <2>11. CASE local' = {c \o got} /\ ~ More(got) /\ Ends("0")
    <3>1. proc'.status = "0"
      BY <1>1, <2>11, EndFields DEF Statuses
    <3>2. Gated /\ proc.fresh => local' = share
      <4>1. SUFFICES ASSUME Gated, proc.fresh PROVE c \o got = h /\ share = {h}
        BY <2>11
      <4>2. c = SubSeq(h, 1, pos)
        BY <1>1, <2>2, <4>1 DEF c, h
      <4>3. Len(got) < Chunk
        BY <2>2, <2>11, <4>1, FileTransferAssumption DEF More
      <4>4. c \o got = SubSeq(h, 1, Len(h))
        BY <2>2, <4>1, <4>2, <4>3
      <4>5. SubSeq(h, 1, Len(h)) = h
        BY <2>2, <4>1, SubSeqFull
      <4> QED BY <2>2, <4>1, <4>4, <4>5
    <3> QED BY <2>7, <2>8, <2>9, <3>1, <3>2 DEF IInv, Getting, Pushing, Printing, Runs
  <2>12. CASE Ends("error")
    <3>1. proc'.status = "error"
      BY <1>1, <2>12, EndFields DEF Statuses
    <3> QED BY <2>7, <2>8, <2>9, <3>1 DEF IInv, Getting, Pushing, Printing, Runs
  <2> QED BY <2>3, <2>10, <2>11, <2>12
<1> QED BY <1>2, <1>3 DEF HgetPiece

\* One turn of hpush_file(): the piece continues what was sent; an empty one means
\* that the file has been read to its end.
LEMMA HpushHolds ==
  ASSUME IInv, HpushPiece
  PROVE  IInv'
<1> DEFINE data == Piece(local, proc.off, Chunk)
           c == Content(local)
<1>1. /\ TypeInv /\ HostInv /\ Pushing /\ proc.cmd = "hpush" /\ proc.status = "running"
      /\ UNCHANGED <<nyx_cpu_type, share, pos, local, printed>>
  BY DEF IInv, HpushPiece, Runs
<1>2. /\ Exists(local) /\ local \in Files /\ c \in Seq(Nat) /\ Len(c) \in Nat
      /\ proc.off \in 0..Len(c) /\ proc.len \in Nat /\ proc.len <= Len(c)
      /\ dump \in Seq(Nat) /\ proc.old \in Seq(Nat) /\ proc \in Procs
  <2>1. Within(proc) /\ local \in Files
    BY <1>1 DEF Pushing, TypeInv
  <2>2. c \in Seq(Nat) /\ Exists(local)
    BY <2>1, ContentOf DEF Within
  <2> QED BY <1>1, <2>1, <2>2 DEF TypeInv, Procs, Within
<1>3. /\ data \in Seq(Nat) /\ proc.off + Len(data) \in proc.off..Len(c)
      /\ Len(data) < Chunk => proc.off + Len(data) = Len(c)
      /\ SubSeq(c, 1, proc.off) \o data = SubSeq(c, 1, proc.off + Len(data))
  BY <1>2, PieceOf, FileTransferAssumption
<1>4. IF data = <<>>
      THEN Ends("0") /\ UNCHANGED dump
      ELSE /\ proc' = [proc EXCEPT !.off = @ + Len(data), !.append = TRUE]
           /\ dump' = IF nyx_cpu_type = "v1" THEN Dumped(proc.append, data) ELSE dump
  BY DEF HpushPiece, NextAppend
<1> HIDE DEF data
<1>5. CASE data = <<>>
  <2>1. /\ proc' \in Procs /\ proc'.cmd = "hpush" /\ proc'.off = proc.off /\ proc'.status = "0"
        /\ proc'.append = proc.append /\ proc'.old = proc.old /\ proc'.len = proc.len
    BY <1>1, <1>4, <1>5, EndFields DEF Statuses
  <2>2. proc.off >= proc.len
    BY <1>2, <1>3, <1>5, FileTransferAssumption
  <2>3. Pushing'
    BY <1>1, <1>2, <1>4, <1>5, <2>1, <2>2 DEF Pushing
  <2> QED BY <1>1, <1>4, <1>5, <2>1, <2>3
          DEF IInv, TypeInv, HostInv, Getting, Printing, Runs
<1>6. CASE data # <<>>
  <2>1. Len(data) \in Nat \ {0}
    BY <1>3, <1>6
  <2> DEFINE o == proc.off + Len(data)
  <2>2. o \in Nat /\ o > 0 /\ o <= Len(c)
    <3> DEFINE n == Len(data)
               k == proc.off
               l == Len(c)
    <3>1. n \in Nat \ {0} /\ l \in Nat /\ k \in 0..l /\ k + n \in k..l
      BY <1>2, <1>3, <2>1
    <3> HIDE DEF n, k, l
    <3>2. k + n \in Nat /\ k + n > 0 /\ k + n <= l
      BY <3>1
    <3> QED BY <3>2 DEF k, n, l
  <2>3. proc' = [proc EXCEPT !.off = o, !.append = TRUE]
    BY <1>4, <1>6
  <2> HIDE DEF o
  <2>4. /\ proc' \in Procs /\ proc'.cmd = "hpush" /\ proc'.off = o /\ proc'.status = "running"
        /\ proc'.append = TRUE /\ proc'.old = proc.old /\ proc'.len = proc.len
    BY <1>1, <1>2, <2>2, <2>3 DEF Procs, Statuses
  <2>5. dump' = IF nyx_cpu_type = "v1" THEN Dumped(proc.append, data) ELSE dump
    BY <1>4, <1>6
  <2>6. dump' \in Seq(Nat)
    BY <1>2, <1>3, <2>5 DEF Dumped
  <2>7. nyx_cpu_type = "v1" => dump' = proc.old \o SubSeq(c, 1, o)
    <3>1. SUFFICES ASSUME nyx_cpu_type = "v1"
                   PROVE  Dumped(proc.append, data) = proc.old \o SubSeq(c, 1, o)
      BY <2>5
    <3>2. SubSeq(c, 1, o) = SubSeq(c, 1, proc.off) \o data
      BY <1>3 DEF o
    <3>3. CASE proc.off = 0
      <4>1. proc.old = IF proc.append THEN dump ELSE <<>>
        BY <1>1, <3>1, <3>3 DEF Pushing
      <4>2. SubSeq(c, 1, 0) = <<>>
        BY <1>2
      <4>3. <<>> \o data = data
        BY <1>3
      <4>4. SubSeq(c, 1, o) = data
        BY <3>2, <3>3, <4>2, <4>3
      <4> QED BY <4>1, <4>3, <4>4 DEF Dumped
    <3>4. CASE proc.off > 0
      <4>1. proc.append /\ dump = proc.old \o SubSeq(c, 1, proc.off)
        BY <1>1, <3>1, <3>4 DEF Pushing
      <4>2. SubSeq(c, 1, proc.off) \in Seq(Nat)
        BY <1>2
      <4>3. (proc.old \o SubSeq(c, 1, proc.off)) \o data
              = proc.old \o (SubSeq(c, 1, proc.off) \o data)
        <5>1. \A s, t, u \in Seq(Nat) : (s \o t) \o u = s \o (t \o u)
          BY ConcatAssociative
        <5> QED BY <1>2, <1>3, <4>2, <5>1
      <4> QED BY <3>2, <4>1, <4>3 DEF Dumped
    <3>5. proc.off = 0 \/ proc.off > 0
      BY <1>2
    <3> QED BY <3>3, <3>4, <3>5
  <2>8. Within(proc)'
    BY <1>1, <1>2, <2>2, <2>4 DEF Within
  <2>9. Pushing'
    <3>1. c' = c /\ Exists(local)' /\ proc'.off > 0 /\ proc'.off <= Len(c) /\ proc'.append
      BY <1>1, <1>2, <2>2, <2>4
    <3>2. nyx_cpu_type' = "v1" => dump' = proc'.old \o SubSeq(c, 1, proc'.off)
      BY <1>1, <2>4, <2>7
    <3>3. proc'.status # "0" /\ proc'.off # 0
      BY <2>4, <3>1
    <3> HIDE DEF c
    <3>4. c = Content(local')
      BY <3>1 DEF c
    <3> QED BY <2>8, <3>1, <3>2, <3>3, <3>4 DEF Pushing
  <2> QED BY <1>1, <2>4, <2>6, <2>9 DEF IInv, TypeInv, HostInv, Getting, Printing, Runs
<1> QED BY <1>5, <1>6

\* An hpush that is killed or aborted has sent what it had sent.
LEMMA HpushEndsHolds ==
  ASSUME IInv, HpushTraps \/ HpushAborts
  PROVE  IInv'
<1>1. PICK s \in {"killed", "aborted"} : Ends(s)
  BY DEF HpushTraps, HpushAborts
<1>2. /\ TypeInv /\ HostInv /\ Pushing /\ proc.cmd = "hpush"
      /\ UNCHANGED <<nyx_cpu_type, share, pos, local, dump, printed>>
  BY DEF IInv, HpushTraps, HpushAborts, Runs
<1>3. /\ proc' \in Procs /\ proc'.cmd = "hpush" /\ proc'.off = proc.off /\ proc'.status = s
      /\ proc'.append = proc.append /\ proc'.old = proc.old /\ proc'.len = proc.len
  BY <1>1, <1>2, EndFields DEF Statuses
<1> QED BY <1>2, <1>3 DEF IInv, TypeInv, HostInv, Getting, Pushing, Printing, Runs

\* One more text: what had been printed stays where it was, and the new text begins
\* with the piece behind it.
LEMMA OneMoreText ==
  ASSUME NEW c \in Seq(Nat), NEW texts \in Seq(Seq(Nat)), NEW text \in Seq(Nat),
         NEW data \in Seq(Nat), Len(data) <= PrintMax,
         NEW off \in Nat, off = PrintMax * Len(texts),
         \A i \in 1..off : texts[PieceOfText(i)][PlaceInText(i)] = c[i],
         \A j \in 1..Len(data) : data[j] = c[off + j] /\ text[j] = data[j]
  PROVE  \A i \in 1..(off + Len(data)) :
           Append(texts, text)[PieceOfText(i)][PlaceInText(i)] = c[i]
<1> DEFINE n == Len(texts)
           m == Len(data)
           all == Append(texts, text)
<1>1. n \in Nat /\ m \in Nat /\ m <= PrintMax /\ PrintMax \in Nat \ {0} /\ off = PrintMax * n
  BY FileTransferAssumption
<1>2. (\A k \in 1..n : all[k] = texts[k]) /\ all[n + 1] = text
  OBVIOUS
<1>3. \A j \in 1..m : text[j] = c[off + j]
  OBVIOUS
<1> HIDE DEF n, m, all
<1>4. SUFFICES ASSUME NEW i \in 1..(off + m)
               PROVE  all[PieceOfText(i)][PlaceInText(i)] = c[i]
  BY DEF m, all
<1>5. CASE i <= off
  <2>1. i \in Nat \ {0} /\ i <= PrintMax * n /\ i \in 1..off
    BY <1>1, <1>4, <1>5
  <2>2. PieceOfText(i) \in 1..n
    BY <1>1, <2>1, TextPlaces DEF PieceOfText
  <2>3. all[PieceOfText(i)] = texts[PieceOfText(i)]
    BY <1>2, <2>2
  <2> QED BY <2>1, <2>3
<1>6. CASE i > off
  <2> DEFINE j == i - off
  <2>1. j \in 1..m /\ j \in 1..PrintMax /\ off + j = i
    BY <1>1, <1>4, <1>6
  <2> HIDE DEF j
  <2>2. PieceOfText((PrintMax * n) + j) = n + 1 /\ PlaceInText((PrintMax * n) + j) = j
    <3>1. \A k \in 1..PrintMax : /\ (((PrintMax * n) + k - 1) \div PrintMax) + 1 = n + 1
                                /\ (((PrintMax * n) + k - 1) % PrintMax) + 1 = k
      BY <1>1, TextPlaces
    <3>2. ((PrintMax * n) + j) - 1 = (PrintMax * n) + j - 1
      BY <1>1, <2>1
    <3> QED BY <2>1, <3>1, <3>2, Zenon DEF PieceOfText, PlaceInText
  <2>3. (PrintMax * n) + j = i
    BY <1>1, <2>1
  <2> QED BY <1>2, <1>3, <2>1, <2>2, <2>3
<1>7. i <= off \/ i > off
  BY <1>1, <1>4
<1> QED BY <1>5, <1>6, <1>7

\* One turn of hprintf_from_file().
LEMMA HcatHolds ==
  ASSUME IInv, HcatPiece
  PROVE  IInv'
<1> DEFINE data == Piece(local, proc.off, PrintMax)
           buf  == Filled(proc.buf, data)
           o    == proc.off + Len(data)
           c    == Content(local)
           s    == IF ~ AtEof(data) THEN "running" ELSE IF o > 0 THEN "0" ELSE "error"
<1>1. /\ TypeInv /\ HostInv /\ Printing /\ proc.cmd = "hcat" /\ proc.status = "running"
      /\ UNCHANGED <<nyx_cpu_type, share, pos, local, dump>>
  BY DEF IInv, HcatPiece, Runs
<1>2. /\ Exists(local) /\ local \in Files /\ c \in Seq(Nat) /\ Len(c) \in Nat
      /\ proc.off \in 0..Len(c) /\ proc.len \in Nat /\ proc.len <= Len(c)
      /\ printed \in Seq(Seq(Nat)) /\ proc.buf \in Seq(Nat) /\ proc \in Procs
      /\ Gated => proc.off = PrintMax * Len(printed)
  <2>1. Within(proc) /\ local \in Files /\ (Gated => proc.off = PrintMax * Len(printed))
    BY <1>1 DEF Printing, TypeInv
  <2>2. c \in Seq(Nat) /\ Exists(local)
    BY <2>1, ContentOf DEF Within
  <2> QED BY <1>1, <2>1, <2>2 DEF TypeInv, Procs, Within
<1>3. /\ data \in Seq(Nat) /\ o \in proc.off..Len(c) /\ Len(data) \in 0..PrintMax
      /\ Len(data) < PrintMax => o = Len(c)
      /\ \A i \in 1..Len(data) : data[i] = c[proc.off + i]
  BY <1>2, PieceOf, FileTransferAssumption
<1>4. buf \in Seq(Nat) /\ \A i \in 1..Len(data) : buf[i] = data[i]
  BY <1>2, <1>3, FilledBuffer
<1>5. /\ printed' = IF Gated THEN Append(printed, buf) ELSE printed
      /\ proc' = [proc EXCEPT !.off = o, !.buf = buf, !.status = s]
  BY DEF HcatPiece
<1>6. /\ s \in {"running", "0", "error"}
      /\ s = "running" => Len(data) = PrintMax
      /\ s = "0" => Len(data) < PrintMax
  BY <1>3, FileTransferAssumption DEF AtEof
<1>7. o \in Nat /\ o <= Len(c) /\ o = proc.off + Len(data)
  BY <1>2, <1>3
<1> HIDE DEF data, buf, o, s
<1>8. /\ proc' \in Procs /\ proc'.cmd = "hcat" /\ proc'.off = o /\ proc'.status = s
      /\ proc'.len = proc.len /\ proc'.failed = proc.failed
  BY <1>1, <1>2, <1>4, <1>5, <1>6, <1>7 DEF Procs, Statuses
<1>9. printed' \in Seq(Seq(Nat)) /\ (Gated => Len(printed') = Len(printed) + 1)
  BY <1>2, <1>4, <1>5
<1>10. Gated => \A i \in 1..o : printed'[PieceOfText(i)][PlaceInText(i)] = c[i]
  <2>1. SUFFICES ASSUME Gated
                 PROVE  \A i \in 1..o : Append(printed, buf)[PieceOfText(i)][PlaceInText(i)] = c[i]
    BY <1>5
  <2>2. \A i \in 1..proc.off : printed[PieceOfText(i)][PlaceInText(i)] = c[i]
    <3>1. CASE proc.off = 0
      BY <3>1
    <3>2. CASE proc.off > 0
      BY <1>1, <2>1, <3>2 DEF Printing
    <3>3. proc.off = 0 \/ proc.off > 0
      BY <1>2
    <3> QED BY <3>1, <3>2, <3>3
  <2>3. proc.off \in Nat /\ proc.off = PrintMax * Len(printed) /\ Len(data) <= PrintMax
    BY <1>2, <1>3, <2>1, FileTransferAssumption
  <2> HIDE DEF c
  <2>4. \A i \in 1..(proc.off + Len(data)) :
          Append(printed, buf)[PieceOfText(i)][PlaceInText(i)] = c[i]
    <3>1. \A j \in 1..Len(data) : data[j] = c[proc.off + j] /\ buf[j] = data[j]
      BY <1>3, <1>4
    <3>2. data \in Seq(Nat) /\ buf \in Seq(Nat) /\ c \in Seq(Nat) /\ printed \in Seq(Seq(Nat))
      BY <1>2, <1>3, <1>4
    <3> DEFINE k == proc.off
    <3>3. /\ k \in Nat /\ k = PrintMax * Len(printed) /\ Len(data) <= PrintMax
          /\ \A i \in 1..k : printed[PieceOfText(i)][PlaceInText(i)] = c[i]
          /\ \A j \in 1..Len(data) : data[j] = c[k + j] /\ buf[j] = data[j]
      BY <2>2, <2>3, <3>1
    <3> HIDE DEF k
    <3>4. \A i \in 1..(k + Len(data)) :
            Append(printed, buf)[PieceOfText(i)][PlaceInText(i)] = c[i]
      BY <3>2, <3>3, OneMoreText, Zenon
    <3> QED BY <3>4 DEF k
  <2> QED BY <1>7, <2>4
<1>11. s = "running" /\ Gated => o = PrintMax * Len(printed')
  <2>1. SUFFICES ASSUME s = "running", Gated PROVE o = PrintMax * Len(printed')
    OBVIOUS
  <2> DEFINE n == Len(printed)
  <2>2. n \in Nat /\ Len(printed') = n + 1 /\ o = (PrintMax * n) + PrintMax
    BY <1>2, <1>6, <1>7, <1>9, <2>1
  <2> HIDE DEF n
  <2>3. PrintMax * (n + 1) = (PrintMax * n) + PrintMax
    BY <2>2, FileTransferAssumption
  <2> QED BY <2>2, <2>3
<1>12. s = "0" => o >= proc.len
  BY <1>2, <1>3, <1>6, <1>7
<1>13. Within(proc)'
  BY <1>1, <1>2, <1>7, <1>8 DEF Within
<1>14. Printing'
  <2>1. Exists(local)' /\ c = Content(local') /\ (Gated' <=> Gated)
    BY <1>1, <1>2 DEF Gated
  <2> HIDE DEF c
  <2> QED BY <1>7, <1>8, <1>10, <1>11, <1>12, <1>13, <2>1 DEF Printing
<1>15. TypeInv' /\ HostInv'
  BY <1>1, <1>8, <1>9 DEF TypeInv, HostInv
<1> QED BY <1>8, <1>14, <1>15 DEF IInv, Getting, Pushing, Runs

\* An hcat that fails has printed what it had printed.
LEMMA HcatFailsHolds ==
  ASSUME IInv, HcatFails
  PROVE  IInv'
<1>1. /\ TypeInv /\ HostInv /\ Printing /\ proc.cmd = "hcat" /\ proc \in Procs
      /\ proc' = [proc EXCEPT !.status = "0", !.failed = TRUE]
      /\ UNCHANGED <<nyx_cpu_type, share, pos, local, dump, printed>>
  BY DEF IInv, HcatFails, Runs, TypeInv
<1>2. /\ proc' \in Procs /\ proc'.cmd = "hcat" /\ proc'.off = proc.off /\ proc'.status = "0"
      /\ proc'.failed
  BY <1>1 DEF Procs, Statuses
<1>3. TypeInv' /\ HostInv'
  BY <1>1, <1>2 DEF TypeInv, HostInv
<1>4. Printing'
  BY <1>1, <1>2 DEF Printing, Gated
<1> QED BY <1>2, <1>3, <1>4 DEF IInv, Getting, Pushing, Runs

\* What another process adds is behind everything a command has read.
LEMMA LocalGrowsHolds ==
  ASSUME IInv, LocalGrows
  PROVE  IInv'
<1> DEFINE c == Content(local)
           d == Append(c, MaxLen + Len(c) + 1)
<1>1. /\ TypeInv /\ HostInv /\ Pushing /\ Printing /\ Exists(local) /\ ~ Runs("hget")
      /\ local' = {d} /\ UNCHANGED <<nyx_cpu_type, share, pos, dump, printed, proc>>
  BY DEF IInv, LocalGrows
<1>2. c \in Seq(Nat) /\ Len(c) \in Nat
  BY <1>1, ContentOf DEF TypeInv
<1>3. MaxLen + Len(c) + 1 \in Nat
  BY <1>2, FileTransferAssumption
<1>4. /\ d \in Seq(Nat) /\ Len(d) = Len(c) + 1
      /\ \A k \in 0..Len(c) : /\ SubSeq(d, 1, k) = SubSeq(c, 1, k)
                              /\ \A i \in 1..k : d[i] = c[i]
  <2> HIDE DEF c
  <2> QED BY <1>2, <1>3, Grown
<1> HIDE DEF d
<1>5. Content(local') = d /\ local' \in Files /\ Exists(local)'
  BY <1>1, <1>4, FileOf
<1>6. TypeInv' /\ HostInv' /\ Getting'
  BY <1>1, <1>5 DEF TypeInv, HostInv, Getting, Runs
<1>7. /\ proc.off \in Nat /\ proc.len \in Nat /\ proc' = proc
      /\ Within(proc) <=> proc.off <= Len(c) /\ proc.len <= Len(c)
      /\ Within(proc)' <=> proc.off <= Len(d) /\ proc.len <= Len(d)
  BY <1>1, <1>5 DEF TypeInv, Procs, Within
<1>8. Within(proc) => Within(proc)'
  BY <1>2, <1>4, <1>7
<1>9. proc.off <= Len(c) =>
        /\ proc.off <= Len(d) /\ SubSeq(d, 1, proc.off) = SubSeq(c, 1, proc.off)
        /\ \A i \in 1..proc.off : d[i] = c[i]
  BY <1>2, <1>4, <1>7
<1> HIDE DEF c
<1>10. c = Content(local)
  BY DEF c
<1>11. Pushing'
  BY <1>1, <1>5, <1>8, <1>9, <1>10 DEF Pushing
<1>12. Printing'
  BY <1>1, <1>5, <1>8, <1>9, <1>10 DEF Printing, Gated
<1> QED BY <1>6, <1>11, <1>12 DEF IInv

---------------------------------------------------------------------------
\* The theorems.

\* The files that the model begins with are files.
LEMMA FilesFromFiles ==
  ASSUME NEW b \in Nat
  PROVE  FilesFrom(b) \subseteq Files
<1>1. ASSUME NEW n \in Nat PROVE [i \in 1..n |-> b + i] \in Seq(Nat)
  <2>1. [i \in 1..n |-> b + i] \in [1..n -> Nat]
    OBVIOUS
  <2> QED BY <2>1
<1>2. ASSUME NEW f \in FilesFrom(b) PROVE f \in Files
  <2>1. CASE f = {}
    BY <2>1 DEF Files
  <2>2. CASE f # {}
    <3>1. PICK n \in 0..MaxLen : f = {[i \in 1..n |-> b + i]}
      BY <2>2, Zenon DEF FilesFrom
    <3> DEFINE c == [i \in 1..n |-> b + i]
    <3>2. c \in Seq(Nat)
      BY <1>1, <3>1, FileTransferAssumption
    <3> QED BY <3>1, <3>2, Zenon DEF Files
  <2> QED BY <2>1, <2>2
<1> QED BY <1>2

\* Nothing has been moved at first.
LEMMA InitHolds == Init => IInv
<1> SUFFICES ASSUME Init PROVE IInv
  OBVIOUS
<1>1. share \in Files /\ local \in Files
  BY FilesFromFiles, FileTransferAssumption DEF Init
<1>2. Exists(share) => Len(Content(share)) \in Nat
  BY <1>1, ContentOf
<1>3. proc \in Procs /\ proc.cmd = "none"
  BY DEF Init, Idle, Procs, Statuses
<1>4. <<>> \in Seq(Nat) /\ <<>> \in Seq(Seq(Nat)) /\ pos = 0
  BY DEF Init
<1>5. TypeInv /\ HostInv
  BY <1>1, <1>2, <1>3, <1>4 DEF Init, TypeInv, HostInv
<1> QED BY <1>3, <1>5 DEF IInv, Getting, Pushing, Printing, Runs

\* A step that changes nothing.
LEMMA StutterHolds ==
  ASSUME IInv, UNCHANGED vars
  PROVE  IInv'
BY DEF vars, IInv, TypeInv, HostInv, Getting, Pushing, Printing, Within, Runs, Gated

\* The invariant is inductive, and a step that ends an hget with success has fetched
\* the file.
LEMMA NextHolds ==
  ASSUME IInv, [Next]_vars
  PROVE  /\ IInv'
         /\ Runs("hget") /\ proc'.status = "0" /\ Gated /\ proc.fresh => local' = share
<1>1. CASE BeginHget \/ BeginHpush \/ BeginHcat
  <2>1. ~ Runs("hget")
    BY <1>1 DEF BeginHget, BeginHpush, BeginHcat, Begin, Runs
  <2> QED BY <1>1, <2>1, BeginHgetHolds, BeginHpushHolds, BeginHcatHolds
<1>2. CASE HgetPiece
  BY <1>2, HgetHolds
<1>3. CASE HpushPiece \/ HpushTraps \/ HpushAborts
  <2>1. ~ Runs("hget")
    BY <1>3 DEF HpushPiece, HpushTraps, HpushAborts, Runs
  <2> QED BY <1>3, <2>1, HpushHolds, HpushEndsHolds
<1>4. CASE HcatPiece \/ HcatFails
  <2>1. ~ Runs("hget")
    BY <1>4 DEF HcatPiece, HcatFails, Runs
  <2> QED BY <1>4, <2>1, HcatHolds, HcatFailsHolds
<1>5. CASE LocalGrows
  BY <1>5, LocalGrowsHolds DEF LocalGrows
<1>6. CASE UNCHANGED vars
  <2>1. ~ (Runs("hget") /\ proc'.status = "0")
    BY <1>6 DEF vars, Runs
  <2> QED BY <1>6, <2>1, StutterHolds
<1> QED BY <1>1, <1>2, <1>3, <1>4, <1>5, <1>6 DEF Next, Done

\* What every state satisfies.
LEMMA Inductive == Spec => []IInv
<1>1. IInv /\ [Next]_vars => IInv'
  BY NextHolds
<1> QED BY InitHolds, <1>1, PTL DEF Spec

\* hget_file() of a file of any length, in chunks of any size, fetches all of it.
THEOREM GetsWholeFile == Spec => FetchedWhole
<1>1. IInv /\ [Next]_vars =>
        [(Runs("hget") /\ proc'.status = "0" /\ Gated /\ proc.fresh) => local' = share]_vars
  BY NextHolds
<1> QED BY Inductive, <1>1, PTL DEF Spec, FetchedWhole

\* hpush_file() sends a file of any length once and in order, also one that grows.
THEOREM PushesInOrder == Spec => []PushedInOrder
<1>1. IInv => PushedInOrder
  BY DEF IInv, Pushing, PushedInOrder
<1> QED BY Inductive, <1>1, PTL

---------------------------------------------------------------------------
\* What is behind the last piece of a file that is printed.

\* A text holds a piece of the file, or what the text before held in that place.
TailOf(t) ==
  \A j \in 1..Len(printed[t]) :
    ((t - 1) * PrintMax) + j > proc.off =>
      t > 1 /\ j <= Len(printed[t - 1]) /\ printed[t][j] = printed[t - 1][j]

\* hprintf_buffer is what was printed last.
Tails ==
  proc.cmd = "hcat" /\ Gated =>
    /\ Len(printed) = 0 => proc.buf = <<>>
    /\ Len(printed) > 0 => proc.buf = printed[Len(printed)]
    /\ \A t \in 1..Len(printed) : Len(printed[t]) <= PrintMax /\ TailOf(t)

\* Texts before the n-th end before its piece begins.
LEMMA TextsBefore ==
  ASSUME NEW p \in Nat \ {0}, NEW n \in Nat, NEW t \in 1..n, NEW j \in 1..p
  PROVE  ((t - 1) * p) + j <= p * n
<1>1. \A i, k \in Nat : i <= k => i * p <= k * p
  OBVIOUS
<1>2. t * p <= n * p
  BY <1>1
<1>3. t * p = ((t - 1) * p) + p /\ n * p = p * n
  OBVIOUS
<1> QED BY <1>2, <1>3

\* fread() leaves the buffer as it was behind the data.
LEMMA FilledTail ==
  ASSUME NEW buf \in Seq(Nat), NEW data \in Seq(Nat), NEW n \in Nat,
         Len(buf) <= n, Len(data) <= n
  PROVE  /\ Len(Filled(buf, data)) <= n
         /\ \A j \in 1..Len(Filled(buf, data)) :
              j > Len(data) => j <= Len(buf) /\ Filled(buf, data)[j] = buf[j]
<1> DEFINE m == IF Len(buf) > Len(data) THEN Len(buf) ELSE Len(data)
           f == Filled(buf, data)
<1>1. m \in Nat /\ m <= n /\ (m > Len(data) => m = Len(buf)) /\ Len(data) \in Nat
  OBVIOUS
<1>2. f = [i \in 1..m |-> IF i <= Len(data) THEN data[i] ELSE buf[i]]
  BY DEF Filled
<1> HIDE DEF m, f
<1>3. f \in Seq(Nat) /\ Len(f) = m
  <2>1. f \in Seq(Nat)
    BY FilledBuffer DEF f
  <2> QED BY <1>1, <1>2, <2>1
<1>4. \A j \in 1..m : j > Len(data) => m = Len(buf) /\ f[j] = buf[j]
  BY <1>1, <1>2
<1> QED BY <1>1, <1>3, <1>4 DEF f

\* One more text, behind the ones that are full.
LEMMA TailsMore ==
  ASSUME IInv, Tails, HcatPiece
  PROVE  Tails'
<1> DEFINE data == Piece(local, proc.off, PrintMax)
           buf  == Filled(proc.buf, data)
<1>1. SUFFICES ASSUME Gated, NEW n \in Nat, n = Len(printed) PROVE Tails'
  <2>1. Len(printed) \in Nat
    BY DEF IInv, TypeInv
  <2> QED BY <2>1 DEF HcatPiece, Tails, Gated
<1>2. /\ proc.cmd = "hcat" /\ Within(proc) /\ proc.off = PrintMax * n
      /\ proc \in Procs /\ printed \in Seq(Seq(Nat)) /\ local \in Files
  BY <1>1 DEF IInv, TypeInv, Printing, HcatPiece, Runs
<1>3. /\ data \in Seq(Nat) /\ Len(data) \in 0..PrintMax /\ proc.buf \in Seq(Nat)
      /\ n \in Nat /\ PrintMax \in Nat \ {0} /\ proc.off \in Nat
  <2>1. Content(local) \in Seq(Nat)
    BY <1>2, ContentOf DEF Within
  <2>2. /\ Len(Content(local)) \in Nat /\ proc.off \in 0..Len(Content(local))
    BY <1>2, <2>1 DEF Within, Procs
  <2>3. Exists(local)
    BY <1>2 DEF Within
  <2>4. data \in Seq(Nat) /\ Len(data) \in 0..PrintMax
    BY <1>2, <2>2, <2>3, PieceOf, FileTransferAssumption
  <2>5. proc.buf \in Seq(Nat) /\ proc.off \in Nat
    BY <1>2 DEF Procs
  <2> QED BY <1>1, <2>4, <2>5, FileTransferAssumption
<1>4. Len(proc.buf) <= PrintMax
  <2>1. CASE n = 0
    BY <1>1, <1>2, <1>3, <2>1 DEF Tails
  <2>2. CASE n > 0
    <3>1. n \in 1..n /\ proc.buf = printed[n]
      BY <1>1, <1>2, <1>3, <2>2 DEF Tails
    <3> QED BY <1>1, <1>2, <3>1 DEF Tails
  <2> QED BY <1>3, <2>1, <2>2
<1>5. /\ buf \in Seq(Nat) /\ Len(buf) <= PrintMax
      /\ \A j \in 1..Len(buf) : j > Len(data) => j <= Len(proc.buf) /\ buf[j] = proc.buf[j]
  <2>1. PrintMax \in Nat /\ Len(data) <= PrintMax
    BY <1>3
  <2>2. data \in Seq(Nat) /\ proc.buf \in Seq(Nat)
    BY <1>3
  <2> HIDE DEF data
  <2> QED BY <1>4, <2>1, <2>2, FilledBuffer, FilledTail
<1>6. /\ printed' = Append(printed, buf) /\ proc'.buf = buf
      /\ proc'.off = proc.off + Len(data)
  BY <1>1, <1>2 DEF HcatPiece, Procs
<1> HIDE DEF data, buf
<1>7. /\ Len(printed') = n + 1 /\ printed'[n + 1] = buf
      /\ \A t \in 1..n : printed'[t] = printed[t]
  BY <1>1, <1>2, <1>3, <1>5, <1>6
<1>8. ASSUME NEW t \in 1..n PROVE Len(printed'[t]) <= PrintMax /\ TailOf(t)'
  <2>1. printed'[t] = printed[t] /\ Len(printed[t]) <= PrintMax
    BY <1>1, <1>2, <1>7 DEF Tails
  <2>2. printed[t] \in Seq(Nat)
    BY <1>1, <1>2
  <2>3. \A j \in 1..Len(printed'[t]) : ~ (((t - 1) * PrintMax) + j > proc'.off)
    <3> SUFFICES ASSUME NEW j \in 1..Len(printed[t])
                 PROVE  ~ (((t - 1) * PrintMax) + j > proc'.off)
      BY <2>1
    <3>1. j \in 1..PrintMax
      BY <2>1, <2>2, <1>3
    <3>2. ((t - 1) * PrintMax) + j <= PrintMax * n
      BY <1>3, <3>1, TextsBefore
    <3>3. ((t - 1) * PrintMax) + j \in Nat
      BY <1>3, <3>1
    <3> DEFINE x == ((t - 1) * PrintMax) + j
    <3>4. x \in Nat /\ x <= proc.off
      BY <1>2, <3>2, <3>3
    <3> HIDE DEF x
    <3>5. ~ (x > proc'.off)
      BY <1>3, <1>6, <3>4
    <3> QED BY <3>5 DEF x
  <2> QED BY <2>1, <2>3 DEF TailOf
<1>9. TailOf(n + 1)'
  <2> SUFFICES ASSUME NEW j \in 1..Len(buf), ((n + 1 - 1) * PrintMax) + j > proc'.off
               PROVE  /\ n + 1 > 1 /\ j <= Len(printed'[n + 1 - 1])
                      /\ printed'[n + 1][j] = printed'[n + 1 - 1][j]
    BY <1>7 DEF TailOf
  <2>1. n + 1 - 1 = n /\ n * PrintMax = PrintMax * n /\ PrintMax * n \in Nat
    BY <1>3
  <2>2. j > Len(data)
    <3>1. (PrintMax * n) + j > (PrintMax * n) + Len(data)
      BY <1>2, <1>6, <2>1
    <3> QED BY <1>3, <1>5, <2>1, <3>1
  <2>3. j <= Len(proc.buf) /\ buf[j] = proc.buf[j]
    BY <1>5, <2>2
  <2>4. n > 0 /\ proc.buf = printed[n]
    <3>1. CASE n = 0
      <4>1. proc.buf = <<>>
        BY <1>1, <1>2, <3>1 DEF Tails
      <4> QED BY <1>5, <2>3, <4>1
    <3>2. CASE n > 0
      BY <1>1, <1>2, <3>2 DEF Tails
    <3> QED BY <1>3, <3>1, <3>2
  <2>5. printed'[n] = printed[n]
    BY <1>3, <1>7, <2>4
  <2> QED BY <1>3, <1>7, <2>1, <2>3, <2>4, <2>5
<1>10. Len(printed') > 0 /\ proc'.buf = printed'[Len(printed')]
  BY <1>3, <1>6, <1>7
<1>11. \A t \in 1..Len(printed') : Len(printed'[t]) <= PrintMax /\ TailOf(t)'
  <2> SUFFICES ASSUME NEW t \in 1..(n + 1) PROVE Len(printed'[t]) <= PrintMax /\ TailOf(t)'
    BY <1>7
  <2>1. t \in 1..n \/ t = n + 1
    BY <1>3
  <2> QED BY <1>5, <1>7, <1>8, <1>9, <2>1
<1> QED BY <1>10, <1>11 DEF Tails

\* Nothing else prints.
LEMMA TailsStep == IInv /\ Tails /\ [Next]_vars => Tails'
<1> SUFFICES ASSUME IInv, Tails, [Next]_vars PROVE Tails'
  OBVIOUS
<1>t. proc \in Procs
  BY DEF IInv, TypeInv
<1>1. CASE BeginHget \/ BeginHpush
  <2>1. proc'.cmd # "hcat"
    <3>1. PICK c \in {"hget", "hpush"}, a \in BOOLEAN :
            \/ proc' = Started(c, a)
            \/ proc' = [Started(c, a) EXCEPT !.status = "error"]
      BY <1>1 DEF BeginHget, BeginHpush
    <3>2. Started(c, a) \in Procs /\ Started(c, a).cmd = c
      BY StartedFields DEF IInv
    <3>3. [Started(c, a) EXCEPT !.status = "error"].cmd = c
      BY <3>2 DEF Procs
    <3> QED BY <3>1, <3>2, <3>3
  <2> QED BY <2>1 DEF Tails
<1>2. CASE BeginHcat
  <2>1. printed' = <<>> /\ proc'.buf = <<>>
    BY <1>2 DEF BeginHcat, Started, Idle
  <2> QED BY <2>1 DEF Tails
<1>3. CASE HgetPiece \/ HpushPiece \/ HpushTraps \/ HpushAborts
  <2>1. proc'.cmd # "hcat"
    BY <1>3, <1>t DEF HgetPiece, HpushPiece, HpushTraps, HpushAborts, Runs, Ends, Procs
  <2> QED BY <2>1 DEF Tails
<1>4. CASE HcatFails
  <2>1. /\ proc'.cmd = proc.cmd /\ proc'.off = proc.off /\ proc'.buf = proc.buf
        /\ UNCHANGED <<printed, nyx_cpu_type>>
    BY <1>4, <1>t DEF HcatFails, Procs
  <2> QED BY <2>1 DEF Tails, TailOf, Gated
<1>5. CASE UNCHANGED <<printed, nyx_cpu_type, proc>>
  BY <1>5 DEF Tails, TailOf, Gated
<1> QED BY <1>1, <1>2, <1>3, <1>4, <1>5, TailsMore DEF Next, LocalGrows, Done, vars

\* hprintf_from_file() prints a file of any length in order and leaves nothing out,
\* unless it fails; what its static buffer (nyx_agent.c:160) adds behind the last
\* piece is the place of the text before, never of an earlier one.
THEOREM PrintsInOrder == Spec => []PrintedInOrder
<1>1. ASSUME IInv, Tails, proc.cmd = "hcat", Gated PROVE
        /\ \A i \in 1..proc.off :
             printed[((i - 1) \div PrintMax) + 1][((i - 1) % PrintMax) + 1] = Content(local)[i]
        /\ proc.status = "0" /\ ~ proc.failed => proc.off >= proc.len
        /\ \A t \in 1..Len(printed) : TailOf(t)
  <2>1. proc.off \in Nat /\ Printing
    BY <1>1 DEF IInv, TypeInv, Procs
  <2>2. CASE proc.off = 0
    BY <1>1, <2>1, <2>2 DEF Printing, Tails
  <2>3. CASE proc.off > 0
    BY <1>1, <2>1, <2>3 DEF Printing, PieceOfText, PlaceInText, Tails
  <2> QED BY <2>1, <2>2, <2>3
<1>2. IInv /\ Tails => PrintedInOrder
  BY <1>1 DEF PrintedInOrder, TailOf
<1>3. Init => Tails
  BY DEF Init, Idle, Tails
<1> QED BY Inductive, <1>2, <1>3, TailsStep, PTL DEF Spec

---------------------------------------------------------------------------
\* The chunk loops end.

\* A step of a command that runs ends it, or comes further in the file that it reads,
\* but never behind its end; another process can only add to a file that is pushed or
\* printed.  So a loop whose file does not grow for ever ends: no chunk is asked for,
\* sent or printed twice, and none of them is empty.
LoopsAdvance ==
  [][proc.status = "running" =>
       \/ proc'.status # "running"
       \/ LocalGrows
       \/ /\ proc.cmd = "hget" /\ share' = share
          /\ pos < pos' /\ pos' <= Len(Content(share))
       \/ /\ proc.cmd \in {"hpush", "hcat"} /\ local' = local
          /\ proc.off < proc'.off /\ proc'.off <= Len(Content(local))]_vars

\* hget_file() asks for more only behind a chunk that was full.
LEMMA HgetAdvances ==
  ASSUME IInv, HgetPiece
  PROVE  \/ proc'.status # "running"
         \/ share' = share /\ pos < pos' /\ pos' <= Len(Content(share))
<1>1. TypeInv /\ HostInv /\ share' = share /\ Chunk \in Nat \ {0} /\ pos \in Nat /\ share \in Files
  BY FileTransferAssumption DEF IInv, HgetPiece, TypeInv
<1>2. \A s \in Statuses \ {"running"} : Ends(s) => proc'.status # "running"
  BY <1>1, EndFields
<1>3. CASE Ends("error") \/ Ends("0")
  BY <1>2, <1>3 DEF Statuses
<1>4. CASE ~ Ends("error") /\ ~ Ends("0")
  <2>1. More(Requested) /\ pos' = NextPos(Requested) /\ (Gated => Exists(share))
    BY <1>4 DEF HgetPiece
  <2>2. Gated /\ Requested = Piece(share, pos, Chunk)
    <3>1. ~ Gated => Requested = <<>> /\ Len(Requested) = 0
      BY DEF Requested
    <3> QED BY <1>1, <2>1, <3>1 DEF More, Requested
  <2> DEFINE h == Content(share)
             got == Piece(share, pos, Chunk)
  <2>3. Exists(share) /\ h \in Seq(Nat) /\ pos \in 0..Len(h)
    BY <1>1, <2>1, <2>2, ContentOf DEF HostInv
  <2>4. got \in Seq(Nat) /\ pos + Len(got) \in pos..Len(h)
    BY <1>1, <2>3, PieceOf
  <2>5. Len(got) = Chunk /\ pos' = pos + Chunk
    BY <1>1, <2>1, <2>2 DEF More, NextPos
  <2> HIDE DEF h, got
  <2>6. pos < pos' /\ pos' <= Len(h)
    BY <1>1, <2>3, <2>4, <2>5
  <2> QED BY <1>1, <2>6 DEF h
<1> QED BY <1>3, <1>4

\* hpush_file() goes on behind a piece that was not empty.
LEMMA HpushAdvances ==
  ASSUME IInv, HpushPiece
  PROVE  \/ proc'.status # "running"
         \/ local' = local /\ proc.off < proc'.off /\ proc'.off <= Len(Content(local))
<1> DEFINE data == Piece(local, proc.off, Chunk)
           c == Content(local)
<1>1. TypeInv /\ Pushing /\ Runs("hpush") /\ local' = local /\ proc \in Procs /\ local \in Files
  BY DEF IInv, HpushPiece, TypeInv
<1>2. Exists(local) /\ c \in Seq(Nat) /\ proc.off \in 0..Len(c)
  BY <1>1, ContentOf DEF Pushing, Within, Runs, Procs
<1>3. data \in Seq(Nat) /\ proc.off + Len(data) \in proc.off..Len(c)
  BY <1>2, <1>1, PieceOf, FileTransferAssumption
<1>4. IF data = <<>> THEN Ends("0")
      ELSE proc' = [proc EXCEPT !.off = @ + Len(data), !.append = NextAppend(@)]
  BY DEF HpushPiece
<1> HIDE DEF data, c
<1>5. CASE data = <<>>
  BY <1>1, <1>4, <1>5, EndFields DEF Statuses
<1>6. CASE data # <<>>
  <2>1. Len(data) \in Nat \ {0}
    BY <1>3, <1>6
  <2>2. proc'.off = proc.off + Len(data)
    BY <1>1, <1>4, <1>6 DEF Procs
  <2>3. proc.off < proc'.off /\ proc'.off <= Len(c)
    BY <1>2, <1>3, <2>1, <2>2
  <2> QED BY <1>1, <2>3 DEF c
<1> QED BY <1>5, <1>6

\* hprintf_from_file() goes on behind a piece that was full.
LEMMA HcatAdvances ==
  ASSUME IInv, HcatPiece
  PROVE  \/ proc'.status # "running"
         \/ local' = local /\ proc.off < proc'.off /\ proc'.off <= Len(Content(local))
<1> DEFINE data == Piece(local, proc.off, PrintMax)
           buf == Filled(proc.buf, data)
           o == proc.off + Len(data)
           s == IF ~ AtEof(data) THEN "running" ELSE IF o > 0 THEN "0" ELSE "error"
           c == Content(local)
<1>1. TypeInv /\ Printing /\ Runs("hcat") /\ local' = local /\ proc \in Procs /\ local \in Files
  BY DEF IInv, HcatPiece, TypeInv
<1>2. Exists(local) /\ c \in Seq(Nat) /\ proc.off \in 0..Len(c)
  BY <1>1, ContentOf DEF Printing, Within, Runs, Procs
<1>3. data \in Seq(Nat) /\ o \in proc.off..Len(c) /\ Len(data) \in 0..PrintMax
      /\ PrintMax \in Nat \ {0}
  BY <1>2, <1>1, PieceOf, FileTransferAssumption
<1>4. proc' = [proc EXCEPT !.off = o, !.buf = buf, !.status = s]
  BY DEF HcatPiece
<1>5. s = "running" => Len(data) = PrintMax
  BY <1>3 DEF AtEof
<1>6. o = proc.off + Len(data)
  OBVIOUS
<1> HIDE DEF data, buf, o, s, c
<1>7. proc'.off = o /\ proc'.status = s
  BY <1>1, <1>4 DEF Procs
<1>8. CASE s = "running"
  <2>1. proc.off < o /\ o <= Len(c)
    BY <1>2, <1>3, <1>5, <1>6, <1>8
  <2> QED BY <1>1, <1>7, <2>1 DEF c
<1> QED BY <1>7, <1>8

\* For chunks of any size and files of any length, the loops of hget, hpush and hcat
\* end with their files.
THEOREM LoopsComeToAnEnd == Spec => LoopsAdvance
<1>1. IInv /\ [Next]_vars =>
        [proc.status = "running" =>
           \/ proc'.status # "running"
           \/ LocalGrows
           \/ /\ proc.cmd = "hget" /\ share' = share
              /\ pos < pos' /\ pos' <= Len(Content(share))
           \/ /\ proc.cmd \in {"hpush", "hcat"} /\ local' = local
              /\ proc.off < proc'.off /\ proc'.off <= Len(Content(local))]_vars
  <2> SUFFICES ASSUME IInv, Next, proc.status = "running", proc'.status = "running", ~ LocalGrows
               PROVE  \/ /\ proc.cmd = "hget" /\ share' = share
                         /\ pos < pos' /\ pos' <= Len(Content(share))
                      \/ /\ proc.cmd \in {"hpush", "hcat"} /\ local' = local
                         /\ proc.off < proc'.off /\ proc'.off <= Len(Content(local))
    OBVIOUS
  <2>1. ~ (BeginHget \/ BeginHpush \/ BeginHcat \/ Done)
    BY DEF BeginHget, BeginHpush, BeginHcat, Begin, Done
  <2>2. ~ (HpushTraps \/ HpushAborts \/ HcatFails)
    <3>1. TypeInv
      BY DEF IInv
    <3>2. Ends("killed") \/ Ends("aborted") => proc'.status # "running"
      BY <3>1, EndFields DEF Statuses
    <3>3. HcatFails => proc'.status = "0"
      BY <3>1 DEF HcatFails, TypeInv, Procs
    <3> QED BY <3>2, <3>3 DEF HpushTraps, HpushAborts
  <2>3. CASE HgetPiece
    BY <2>3, HgetAdvances DEF HgetPiece, Runs
  <2>4. CASE HpushPiece
    BY <2>4, HpushAdvances DEF HpushPiece, Runs
  <2>5. CASE HcatPiece
    BY <2>5, HcatAdvances DEF HcatPiece, Runs
  <2> QED BY <2>1, <2>2, <2>3, <2>4, <2>5 DEF Next
<1> QED BY <1>1, Inductive, PTL DEF Spec, LoopsAdvance

============================================================================
