---------------------------- MODULE FileIOProofs ----------------------------
(***************************************************************************)
(* Theorems about FileIO, for any files, any sizes and any peers.  What is *)
(* said of the multiplexer, of the events in hand, of what is written and  *)
(* of closing holds always (MuxInv, EventsInv, WriteInv).  What is read is *)
(* exact as long as the user of a file does not take lines while more      *)
(* arrive (ReadInv).  The poller does not fail as long as it is the only   *)
(* reader, no descriptor fails and peers close last (CleanInv).            *)
(***************************************************************************)
EXTENDS FileIO, SequenceTheorems, TLAPS

-----------------------------------------------------------------------------
(* Types *)

Entry == [write : BOOLEAN, index : Nat]
Event == [index : Nat, write : BOOLEAN, read : BOOLEAN, error : BOOLEAN, of : Files \cup {Nil}]
Bytes == Seq(Nat)

MuxType ==
  /\ files \in Seq(Files \cup {Nil}) /\ freeIndices \in Seq(Nat)
  /\ poolIndex \in [Files -> Nat \cup {Nil}] /\ interest \in [Files -> Entry \cup {Nil}]

FileType ==
  /\ closedFlag \in [Files -> BOOLEAN] /\ connecting \in [Files -> BOOLEAN]
  /\ closeAfterTxFlush \in [Files -> BOOLEAN] /\ eof \in [Files -> BOOLEAN]
  /\ failed \in [Files -> BOOLEAN]
  /\ DOMAIN txBufLock = Files /\ \A f \in Files : txBufLock[f] \in {Nil, f, "poller"}

BytesType ==
  /\ txBuffer \in [Files -> Bytes] /\ rxGot \in Bytes
  /\ out \in [Files -> Bytes] /\ in \in [Files -> Bytes] /\ got \in [Files -> Bytes]
  /\ written \in [Files -> Nat] /\ sent \in [Files -> Nat] /\ sends \in [Files -> Nat]
  /\ \A f \in Files : Len(out[f]) <= SockCap

PcType ==
  /\ upc \in [Files -> {"add", "idle", "update", "line", "replied", "advance", "end"}]
  /\ ppc \in {"wait", "next", "write", "update", "flush", "read", "truncate", "notify", "end", "close"}
  /\ batch \subseteq Event /\ cur \in Event /\ pfile \in Files \cup {Nil}
  /\ lines \in BOOLEAN /\ panicked \in BOOLEAN

TypeInv == MuxType /\ FileType /\ BytesType /\ PcType

-----------------------------------------------------------------------------
(* The multiplexer *)

Indices == 1..Len(files)

\* A file that epoll knows is in the pool under the index that epoll has; an index is in use
\* or, once, on the stack of free ones
PoolInv ==
  /\ \A f \in Files : poolIndex[f] \in Indices \cup {Nil}
  /\ \A f \in Files : interest[f] # Nil =>
       poolIndex[f] \in Indices /\ files[poolIndex[f]] = f /\ interest[f].index = poolIndex[f]
  /\ \A i \in Indices : files[i] # Nil => poolIndex[files[i]] = i
  /\ \A j \in 1..Len(freeIndices) : freeIndices[j] \in Indices /\ files[freeIndices[j]] = Nil
  /\ \A i \in Indices : files[i] = Nil => \E j \in 1..Len(freeIndices) : freeIndices[j] = i
  /\ \A j, k \in 1..Len(freeIndices) : freeIndices[j] = freeIndices[k] => j = k

\* A file is registered once, before anybody handles its events
MuxInv ==
  /\ PoolInv
  /\ \A f \in Files : interest[f] # Nil => ~closedFlag[f]
  /\ \A f \in Files : upc[f] = "add" =>
       /\ ~closedFlag[f] /\ interest[f] = Nil /\ f # pfile /\ \A i \in Indices : files[i] # f
  /\ \A e \in batch : e.index \in Indices /\ (e.write \/ e.read \/ e.error)

\* The file whose event the poller handles
PollInv ==
  /\ ppc \in {"write", "update", "flush", "read"} => cur.index \in Indices
  /\ ppc \notin {"wait", "next"} /\ ~panicked => pfile \in Files

\* An event is one of a file that is or has been registered
EventsInv ==
  /\ EventsOfFile
  /\ \A e \in batch \cup {cur} : e.of # Nil => upc[e.of] # "add" /\ e.index \in Indices

-----------------------------------------------------------------------------
(* Writing and closing *)

\* A user that quits has done all it does with the file, and only then, if it reads lines,
\* is the file closed
QuitInv ==
  /\ ppc \in {"end", "close"} => ~lines
  /\ \A f \in Files :
       /\ upc[f] \in {"line", "replied", "advance", "end"} => lines
       /\ closeAfterTxFlush[f] => upc[f] = "end"
       /\ lines => ~eof[f] /\ (closedFlag[f] => upc[f] = "end" /\ txBuffer[f] = <<>>)

WriteInv == InOrder /\ InterestExact /\ QuitInv

Base == TypeInv /\ MuxInv /\ PollInv /\ EventsInv /\ WriteInv

-----------------------------------------------------------------------------
(* Reading *)

\* ReadReady has put what it has read behind the buffer and not cut it
Reading(f) == ppc \in {"truncate", "end"} /\ pfile = f

Unread(f) == IF Reading(f) THEN Truncated(f) ELSE rxBuffer[f]

ReadType == rxBuffer \in [Files -> Bytes] /\ consumed \in [Files -> Bytes] /\ rxLen \in Nat

\* Three sequences of bytes in a row
Row(c, r, i) == c \o (r \o i)

FileExact(f) == Row(consumed[f], Unread(f), in[f]) = Numbers(1, sent[f])

BytesExact == ReadType /\ \A f \in Files : FileExact(f)

\* The file of an index has something to read
Awaits(i) == i \in Indices /\ files[i] \in Files /\ Readable(files[i])

\* An event of something to read is one of a file that has something to read
ReadEvents ==
  /\ \A e \in batch : e.read => Awaits(e.index)
  /\ \A e, d \in batch : e.read /\ d.read /\ e.index = d.index => e = d
  /\ ppc \notin {"wait", "next"} /\ cur.read => \A e \in batch : e.read => e.index # cur.index
  /\ ppc \in {"write", "update", "flush"} /\ cur.read => Awaits(cur.index)
  /\ ppc = "read" /\ ~panicked => cur.read /\ Awaits(cur.index)
  /\ ppc = "end" => cur.read /\ Awaits(cur.index) /\ files[cur.index] = pfile
  /\ ppc = "close" => pfile \in Sockets

\* With lines: the one time that something arrives is over when the user takes lines of it
OneSend ==
  lines =>
    \A f \in Files :
      /\ sends[f] <= 1 /\ (in[f] # <<>> => sends[f] = 1)
      /\ upc[f] \in {"line", "replied", "advance", "end"} =>
           in[f] = <<>> /\ sends[f] = 1 /\ ~(ppc = "truncate" /\ pfile = f)
      /\ upc[f] \in {"replied", "advance"} => rxBuffer[f] # <<>>
      /\ ppc \in {"truncate", "notify"} /\ pfile = f => in[f] = <<>> /\ sends[f] = 1

ReadInv == Calm => BytesExact /\ ReadEvents /\ OneSend

-----------------------------------------------------------------------------
(* No failure at the end of a file *)

\* Whoever holds a lock still has to release it; peers that close have all that was written
CleanFile(f) ==
  /\ upc[f] = "update" => txBufLock[f] = f /\ txBuffer[f] # <<>>
  /\ written[f] <= MaxWritten
  /\ eof[f] => Len(got[f]) = MaxWritten
  /\ upc[f] # "add" /\ ~eof[f] => interest[f] # Nil

BatchClean ==
  /\ \A e \in batch : files[e.index] # Nil /\ (e.write => Writable(files[e.index])) /\ ~e.error
  /\ \A e, d \in batch : e.index = d.index => e = d
  /\ ppc \notin {"wait", "next"} => \A e \in batch : e.index # cur.index

HandClean ==
  /\ ppc \in {"write", "update", "flush", "read", "end"} => cur.index \in Indices /\ files[cur.index] = pfile
  /\ ppc = "write" => Writable(pfile)
  /\ ppc \in {"end", "close"} => eof[pfile]
  /\ ppc = "close" => pfile \in Sockets /\ interest[pfile] = Nil
  /\ ~cur.error

Clean ==
  /\ ~panicked /\ (\A f \in Files : CleanFile(f)) /\ BatchClean /\ HandClean
  /\ \A i \in Indices : files[i] # Nil => interest[files[i]] # Nil

NoneFailed == \A f \in Files : ~failed[f]

CleanInv == ~lines /\ ~PeerEndsEarly /\ NoneFailed => Clean

-----------------------------------------------------------------------------
(* What the operations of the multiplexer do to the pool *)

\* f takes index i, which was free or is new
Registers(f, i) ==
  /\ i \in Nat \ {0} /\ Len(files') \in Nat /\ i <= Len(files') /\ Len(files) <= Len(files')
  /\ i <= Len(files) => files[i] = Nil
  /\ files'[i] = f /\ \A j \in 1..Len(files') \ {i} : j \in Indices /\ files'[j] = files[j]
  /\ poolIndex' = [poolIndex EXCEPT ![f] = i]
  /\ interest' = [interest EXCEPT ![f] = [write |-> WriteAvailable(f), index |-> i]]

\* f gives its index back
Deregisters(f) ==
  /\ poolIndex[f] \in Indices /\ files[poolIndex[f]] = f /\ interest[f] # Nil
  /\ Len(files') = Len(files) /\ files'[poolIndex[f]] = Nil
  /\ \A j \in Indices \ {poolIndex[f]} : files'[j] = files[j]
  /\ poolIndex' = [poolIndex EXCEPT ![f] = Nil] /\ interest' = [interest EXCEPT ![f] = Nil]

\* The descriptor of f is closed; a FileBuf has been in the pool, a socket stays there
Closes(f) ==
  /\ txBufLock[f] = Nil
  /\ interest' = [interest EXCEPT ![f] = Nil] /\ closedFlag' = [closedFlag EXCEPT ![f] = TRUE]
  /\ Len(files') = Len(files)
  /\ \A i \in Indices : files'[i] = files[i] \/ files'[i] = Nil
  /\ f \in Sockets => UNCHANGED <<files, poolIndex, panicked>>
  /\ f \notin Sockets /\ interest[f] = Nil => UNCHANGED <<files, poolIndex>> /\ panicked' = TRUE
  /\ f \notin Sockets /\ interest[f] # Nil => Deregisters(f) /\ UNCHANGED panicked

LEMMA AddFacts ==
  ASSUME FileIOAssumption, MuxType, PoolInv, NEW f \in Files, MuxAdd(f), WriteAvailable(f) \in BOOLEAN,
         \A i \in Indices : files[i] # f
  PROVE  MuxType' /\ PoolInv' /\ \E i : Registers(f, i)
<1> DEFINE n == Len(freeIndices)
<1>0. n \in Nat /\ Len(files) \in Nat /\ f # Nil
  BY DEF MuxType, FileIOAssumption
<1>1. PICK i : i = (IF n > 0 THEN freeIndices[n] ELSE Len(files) + 1)
  OBVIOUS
<1>2. /\ files' = (IF n > 0 THEN [files EXCEPT ![i] = f] ELSE Append(files, f))
      /\ freeIndices' = (IF n > 0 THEN SubSeq(freeIndices, 1, n - 1) ELSE freeIndices)
      /\ poolIndex' = [poolIndex EXCEPT ![f] = i]
      /\ interest' = [interest EXCEPT ![f] = [write |-> WriteAvailable(f), index |-> i]]
  BY <1>1 DEF MuxAdd
<1>3. i \in Nat \ {0} /\ (i <= Len(files) => files[i] = Nil)
  BY <1>0, <1>1 DEF PoolInv, MuxType, Indices
<1>4. /\ files' \in Seq(Files \cup {Nil}) /\ freeIndices' \in Seq(Nat)
      /\ Len(files') \in Nat /\ i <= Len(files') /\ Len(files) <= Len(files')
      /\ files'[i] = f /\ \A j \in 1..Len(files') \ {i} : j \in Indices /\ files'[j] = files[j]
  <2>1. CASE n > 0
    <3>1. i \in Indices
      BY <1>0, <1>1, <2>1 DEF PoolInv
    <3>2. files' = [files EXCEPT ![i] = f] /\ files \in Seq(Files \cup {Nil})
      BY <1>2, <2>1 DEF MuxType
    <3>3. files' \in Seq(Files \cup {Nil}) /\ Len(files') = Len(files)
      BY <3>1, <3>2 DEF Indices
    <3>4. files'[i] = f /\ \A j \in Indices \ {i} : files'[j] = files[j]
      BY <3>1, <3>2 DEF Indices
    <3>5. freeIndices' \in Seq(Nat)
      BY <1>0, <1>2, <2>1 DEF MuxType
    <3> QED BY <1>0, <3>1, <3>3, <3>4, <3>5 DEF Indices
  <2>2. CASE ~(n > 0)
    <3>1. i = Len(files) + 1 /\ files' = Append(files, f) /\ freeIndices' = freeIndices
      BY <1>1, <1>2, <2>2
    <3>2. files \in Seq(Files \cup {Nil}) /\ f \in Files \cup {Nil}
      BY DEF MuxType
    <3>3. /\ files' \in Seq(Files \cup {Nil}) /\ Len(files') = Len(files) + 1
          /\ files'[Len(files) + 1] = f /\ \A j \in 1..Len(files) : files'[j] = files[j]
      BY <3>1, <3>2, AppendProperties
    <3> QED BY <1>0, <3>1, <3>3 DEF MuxType, Indices
  <2> QED BY <2>1, <2>2
<1>5. Registers(f, i)
  BY <1>2, <1>3, <1>4 DEF Registers
<1>6. MuxType'
  <2>1. [write |-> WriteAvailable(f), index |-> i] \in Entry
    BY <1>3 DEF Entry
  <2> QED BY <1>2, <1>3, <1>4, <2>1 DEF MuxType
<1>7. /\ \A j \in 1..Len(freeIndices') : j \in 1..n /\ freeIndices'[j] = freeIndices[j]
      /\ \A j \in 1..n : freeIndices[j] # i => j \in 1..Len(freeIndices')
      /\ \A j \in 1..Len(freeIndices') : freeIndices'[j] # i
  <2>1. CASE n > 0
    <3>1. freeIndices' = SubSeq(freeIndices, 1, n - 1) /\ freeIndices \in Seq(Nat) /\ i = freeIndices[n]
      BY <1>1, <1>2, <2>1 DEF MuxType
    <3>2. Len(freeIndices') = n - 1 /\ \A j \in 1..n - 1 : freeIndices'[j] = freeIndices[j]
      <4>1. n - 1 \in Nat /\ n - 1 <= n
        BY <1>0, <2>1
      <4>2. \A s \in Seq(Nat), q \in Nat :
              q <= Len(s) => Len(SubSeq(s, 1, q)) = q /\ \A j \in 1..q : SubSeq(s, 1, q)[j] = s[j]
        OBVIOUS
      <4> QED BY <3>1, <4>1, <4>2
    <3>3. \A j \in 1..n : freeIndices[j] # i => j \in 1..n - 1
      BY <1>0, <3>1
    <3>4. \A j \in 1..n - 1 : j \in 1..n /\ n \in 1..n /\ j # n
      BY <1>0, <2>1
    <3>5. \A j \in 1..n - 1 : freeIndices[j] # i
      BY <3>1, <3>4 DEF PoolInv
    <3> QED BY <3>2, <3>3, <3>4, <3>5
  <2>2. CASE ~(n > 0)
    <3>1. n = 0 /\ freeIndices' = freeIndices
      BY <1>0, <1>2, <2>2
    <3> QED BY <3>1
  <2> QED BY <2>1, <2>2
<1>8. PoolInv'
  <2> DEFINE I == 1..Len(files')
  <2>0. Indices' = I /\ i \in I /\ Indices \subseteq I
    BY <1>0, <1>3, <1>4 DEF Indices
  <2>a. poolIndex \in [Files -> Nat \cup {Nil}] /\ interest \in [Files -> Entry \cup {Nil}]
    BY DEF MuxType
  <2> HIDE DEF I
  <2>1. ASSUME NEW g \in Files PROVE poolIndex'[g] \in I \cup {Nil}
    BY <1>2, <2>0, <2>a DEF PoolInv
  <2>2. ASSUME NEW g \in Files, interest'[g] # Nil
        PROVE  poolIndex'[g] \in I /\ files'[poolIndex'[g]] = g /\ interest'[g].index = poolIndex'[g]
    <3>1. CASE g = f
      <4>1. poolIndex'[g] = i /\ interest'[g] = [write |-> WriteAvailable(f), index |-> i]
        BY <1>2, <2>a, <3>1
      <4> QED BY <1>4, <2>0, <3>1, <4>1
    <3>2. CASE g # f
      <4>1. poolIndex'[g] = poolIndex[g] /\ interest'[g] = interest[g]
        BY <1>2, <2>a, <3>2
      <4>2. poolIndex[g] \in Indices /\ files[poolIndex[g]] = g /\ interest[g].index = poolIndex[g]
        BY <2>2, <4>1 DEF PoolInv
      <4>3. poolIndex[g] # i
        <5> SUFFICES ASSUME poolIndex[g] = i PROVE FALSE
          OBVIOUS
        <5>1. files[i] = Nil
          BY <1>0, <1>3, <4>2 DEF Indices
        <5> QED BY <4>2, <5>1 DEF FileIOAssumption
      <4>4. files'[poolIndex[g]] = files[poolIndex[g]]
        BY <1>4, <2>0, <4>2, <4>3 DEF I
      <4> QED BY <2>0, <4>1, <4>2, <4>4
    <3> QED BY <3>1, <3>2
  <2>3. ASSUME NEW k \in I, files'[k] # Nil PROVE poolIndex'[files'[k]] = k
    <3>1. CASE k = i
      BY <1>2, <1>4, <2>a, <3>1
    <3>2. CASE k # i
      <4>1. k \in Indices /\ files'[k] = files[k]
        BY <1>4, <3>2 DEF I
      <4>2. files[k] \in Files /\ files[k] # f
        BY <2>3, <4>1 DEF MuxType, Indices
      <4>3. poolIndex[files[k]] = k
        BY <2>3, <4>1 DEF PoolInv
      <4> QED BY <1>2, <2>a, <4>1, <4>2, <4>3
    <3> QED BY <3>1, <3>2
  <2>4. ASSUME NEW j \in 1..Len(freeIndices')
        PROVE  freeIndices'[j] \in I /\ files'[freeIndices'[j]] = Nil
    <3>1. j \in 1..n /\ freeIndices'[j] = freeIndices[j] /\ freeIndices[j] # i
      BY <1>7
    <3>2. freeIndices[j] \in Indices /\ files[freeIndices[j]] = Nil
      BY <3>1 DEF PoolInv
    <3>3. files'[freeIndices[j]] = files[freeIndices[j]]
      BY <1>4, <2>0, <3>1, <3>2 DEF I
    <3> QED BY <2>0, <3>1, <3>2, <3>3
  <2>5. ASSUME NEW k \in I, files'[k] = Nil PROVE \E j \in 1..Len(freeIndices') : freeIndices'[j] = k
    <3>1. k # i
      BY <1>0, <1>4, <2>5
    <3>2. k \in Indices /\ files[k] = Nil
      BY <1>4, <2>5, <3>1 DEF I
    <3>3. PICK j \in 1..n : freeIndices[j] = k
      BY <3>2 DEF PoolInv
    <3> QED BY <1>7, <3>1, <3>3
  <2>6. ASSUME NEW j \in 1..Len(freeIndices'), NEW k \in 1..Len(freeIndices'), freeIndices'[j] = freeIndices'[k]
        PROVE  j = k
    BY <1>7, <2>6 DEF PoolInv
  <2> QED BY <2>0, <2>1, <2>2, <2>3, <2>4, <2>5, <2>6 DEF PoolInv
<1> QED
  BY <1>5, <1>6, <1>8

LEMMA DelFacts ==
  ASSUME FileIOAssumption, MuxType, PoolInv, NEW f \in Files, MuxDel(f)
  PROVE  /\ MuxType' /\ PoolInv'
         /\ \/ interest[f] = Nil /\ panicked' = TRUE /\ UNCHANGED muxVars
            \/ interest[f] # Nil /\ Deregisters(f) /\ UNCHANGED panicked
<1>1. CASE interest[f] = Nil
  <2>1. panicked' = TRUE /\ UNCHANGED muxVars
    BY <1>1 DEF MuxDel
  <2> QED BY <1>1, <2>1 DEF muxVars, MuxType, PoolInv, Indices
<1>2. CASE interest[f] # Nil
  <2>1. PICK i : i = poolIndex[f]
    OBVIOUS
  <2>2. i \in Indices /\ files[i] = f /\ f # Nil /\ Len(files) \in Nat
    BY <1>2, <2>1 DEF PoolInv, FileIOAssumption, MuxType
  <2>3. /\ files' = [files EXCEPT ![i] = Nil] /\ poolIndex' = [poolIndex EXCEPT ![f] = Nil]
        /\ interest' = [interest EXCEPT ![f] = Nil] /\ freeIndices' = Append(freeIndices, i)
        /\ UNCHANGED panicked
    BY <1>2, <2>1 DEF MuxDel
  <2>5. /\ files' \in Seq(Files \cup {Nil}) /\ Len(files') = Len(files)
        /\ files'[i] = Nil /\ \A j \in Indices \ {i} : files'[j] = files[j]
    BY <2>2, <2>3 DEF MuxType, Indices
  <2>4. Deregisters(f)
    BY <1>2, <2>1, <2>2, <2>3, <2>5 DEF Deregisters
  <2>6. i \in Nat
    BY <2>2 DEF Indices
  <2>7. /\ freeIndices' \in Seq(Nat) /\ Len(freeIndices') = Len(freeIndices) + 1 /\ Len(freeIndices) \in Nat
        /\ freeIndices'[Len(freeIndices) + 1] = i
        /\ \A j \in 1..Len(freeIndices) : freeIndices'[j] = freeIndices[j]
    BY <2>3, <2>6, AppendProperties DEF MuxType
  <2>a. poolIndex \in [Files -> Nat \cup {Nil}] /\ interest \in [Files -> Entry \cup {Nil}]
    BY DEF MuxType
  <2>8. MuxType'
    BY <2>3, <2>5, <2>7, <2>a DEF MuxType
  <2>9. PoolInv'
    <3> DEFINE l == Len(freeIndices)
    <3>0. Indices' = Indices
      BY <2>5 DEF Indices
    <3>1. ASSUME NEW g \in Files PROVE poolIndex'[g] \in Indices \cup {Nil}
      BY <2>3, <2>a DEF PoolInv
    <3>2. ASSUME NEW g \in Files, interest'[g] # Nil
          PROVE  poolIndex'[g] \in Indices /\ files'[poolIndex'[g]] = g /\ interest'[g].index = poolIndex'[g]
      <4>1. g # f
        BY <2>3, <2>a, <3>2
      <4>2. poolIndex'[g] = poolIndex[g] /\ interest'[g] = interest[g]
        BY <2>3, <2>a, <4>1
      <4>3. poolIndex[g] \in Indices /\ files[poolIndex[g]] = g /\ interest[g].index = poolIndex[g]
        BY <3>2, <4>2 DEF PoolInv
      <4>4. poolIndex[g] # i
        BY <2>2, <4>1, <4>3
      <4> QED BY <2>5, <4>2, <4>3, <4>4
    <3>3. ASSUME NEW k \in Indices, files'[k] # Nil PROVE poolIndex'[files'[k]] = k
      <4>1. k # i /\ files'[k] = files[k]
        BY <2>5, <3>3
      <4>2. files[k] \in Files /\ poolIndex[files[k]] = k
        <5>1. files[k] \in Files
          BY <3>3, <4>1 DEF MuxType, Indices
        <5>2. poolIndex[files[k]] = k
          BY <3>3, <4>1 DEF PoolInv
        <5> QED BY <5>1, <5>2
      <4>3. files[k] # f
        BY <2>1, <4>1, <4>2
      <4> QED BY <2>3, <2>a, <4>1, <4>2, <4>3
    <3>4. ASSUME NEW j \in 1..l + 1 PROVE freeIndices'[j] \in Indices /\ files'[freeIndices'[j]] = Nil
      <4>1. CASE j = l + 1
        BY <2>2, <2>5, <2>7, <4>1
      <4>2. CASE j # l + 1
        <5>1. j \in 1..l /\ freeIndices'[j] = freeIndices[j]
          BY <2>7, <4>2
        <5>2. freeIndices[j] \in Indices /\ files[freeIndices[j]] = Nil
          BY <5>1 DEF PoolInv
        <5>3. freeIndices[j] # i
          BY <2>2, <5>2
        <5> QED BY <2>5, <5>1, <5>2, <5>3
      <4> QED BY <4>1, <4>2
    <3>5. ASSUME NEW k \in Indices, files'[k] = Nil PROVE \E j \in 1..l + 1 : freeIndices'[j] = k
      <4>1. CASE k = i
        <5>1. l + 1 \in 1..l + 1
          BY <2>7
        <5> QED BY <2>7, <4>1, <5>1
      <4>2. CASE k # i
        <5>1. files[k] = Nil
          BY <2>5, <3>5, <4>2
        <5>2. PICK j \in 1..l : freeIndices[j] = k
          BY <5>1 DEF PoolInv
        <5>3. j \in 1..l + 1
          BY <2>7
        <5> QED BY <2>7, <5>2, <5>3
      <4> QED BY <4>1, <4>2
    <3>6. ASSUME NEW j \in 1..l + 1, NEW k \in 1..l + 1, freeIndices'[j] = freeIndices'[k] PROVE j = k
      <4>1. \A q \in 1..l : freeIndices'[q] = freeIndices[q] /\ freeIndices[q] # i
        BY <2>2, <2>7 DEF PoolInv
      <4>2. \A q \in 1..l + 1 : q \in 1..l \/ q = l + 1
        BY <2>7
      <4>3. CASE j \in 1..l /\ k \in 1..l
        BY <3>6, <4>1, <4>3 DEF PoolInv
      <4>4. CASE j = l + 1 /\ k = l + 1
        BY <4>4
      <4>5. CASE j = l + 1 /\ k \in 1..l
        BY <2>7, <3>6, <4>1, <4>5
      <4>6. CASE k = l + 1 /\ j \in 1..l
        BY <2>7, <3>6, <4>1, <4>6
      <4> QED BY <4>2, <4>3, <4>4, <4>5, <4>6
    <3>7. Len(freeIndices') = l + 1
      BY <2>7
    <3> HIDE DEF l
    <3> QED BY <3>0, <3>1, <3>2, <3>3, <3>4, <3>5, <3>6, <3>7 DEF PoolInv
  <2> QED BY <1>2, <2>3, <2>4, <2>8, <2>9
<1> QED
  BY <1>1, <1>2

LEMMA UpdateFacts ==
  ASSUME FileIOAssumption, MuxType, PoolInv, NEW f \in Files, MuxUpdate(f), WriteAvailable(f) \in BOOLEAN
  PROVE  /\ MuxType' /\ PoolInv' /\ UNCHANGED <<files, freeIndices, poolIndex>>
         /\ \/ (interest[f] = Nil \/ closedFlag[f]) /\ panicked' = TRUE /\ UNCHANGED interest
            \/ /\ interest[f] # Nil /\ ~closedFlag[f] /\ UNCHANGED panicked
               /\ interest' = [interest EXCEPT ![f] = [interest[f] EXCEPT !.write = WriteAvailable(f)]]
<1>1. CASE interest[f] = Nil \/ closedFlag[f]
  <2>1. panicked' = TRUE /\ UNCHANGED <<files, freeIndices, poolIndex, interest>>
    BY <1>1 DEF MuxUpdate, muxVars
  <2> QED BY <1>1, <2>1 DEF MuxType, PoolInv, Indices
<1>2. CASE ~(interest[f] = Nil \/ closedFlag[f])
  <2> DEFINE e == [interest[f] EXCEPT !.write = WriteAvailable(f)]
  <2>1. interest' = [interest EXCEPT ![f] = e] /\ UNCHANGED <<files, freeIndices, poolIndex, panicked>>
    BY <1>2 DEF MuxUpdate
  <2>2. interest[f] \in Entry /\ interest \in [Files -> Entry \cup {Nil}]
    BY <1>2 DEF MuxType
  <2>3. e \in Entry /\ e.index = interest[f].index
    BY <2>2 DEF Entry
  <2> HIDE DEF e
  <2>4. MuxType'
    BY <2>1, <2>2, <2>3 DEF MuxType
  <2>5. ASSUME NEW g \in Files, interest'[g] # Nil PROVE interest[g] # Nil /\ interest'[g].index = interest[g].index
    BY <1>2, <2>1, <2>2, <2>3, <2>5
  <2>6. PoolInv'
    BY <2>1, <2>5 DEF PoolInv, Indices
  <2> QED BY <1>2, <2>1, <2>4, <2>6 DEF e
<1> QED
  BY <1>1, <1>2

-----------------------------------------------------------------------------
(* Sequences of bytes *)

LEMMA NumbersFacts ==
  ASSUME NEW a \in Nat, NEW n \in Nat
  PROVE  Numbers(a, n) \in Seq(Nat) /\ Len(Numbers(a, n)) = n
<1>1. \A i \in 1..n : a + i - 1 \in Nat
  OBVIOUS
<1> QED
  BY <1>1 DEF Numbers

LEMMA NumbersConcat ==
  ASSUME NEW w \in Nat, NEW n \in Nat
  PROVE  Numbers(1, w) \o Numbers(w + 1, n) = Numbers(1, w + n)
<1> DEFINE s == Numbers(1, w)
           t == Numbers(w + 1, n)
           u == Numbers(1, w + n)
<1>0. w + 1 \in Nat /\ w + n \in Nat /\ 1 \in Nat
  OBVIOUS
<1>a. /\ \A i \in 1..w : s[i] = i
      /\ \A i \in 1..n : t[i] = w + i
      /\ \A i \in 1..w + n : u[i] = i
  BY DEF Numbers
<1>b. \A a \in Nat, l \in Nat : Numbers(a, l) \in Seq(Nat) /\ Len(Numbers(a, l)) = l
  BY NumbersFacts
<1>1. s \in Seq(Nat) /\ Len(s) = w /\ \A i \in 1..w : s[i] = i
  BY <1>0, <1>a, <1>b
<1>2. t \in Seq(Nat) /\ Len(t) = n /\ \A i \in 1..n : t[i] = w + i
  BY <1>0, <1>a, <1>b, Zenon
<1>3. u \in Seq(Nat) /\ Len(u) = w + n /\ \A i \in 1..w + n : u[i] = i
  BY <1>0, <1>a, <1>b, Zenon
<1> HIDE DEF s, t, u
<1>4. /\ s \o t \in Seq(Nat) /\ Len(s \o t) = w + n
      /\ \A i \in 1..w + n : (s \o t)[i] = IF i <= w THEN s[i] ELSE t[i - w]
  BY <1>1, <1>2, ConcatProperties
<1>5. ASSUME NEW i \in 1..w + n PROVE (s \o t)[i] = u[i]
  <2>1. CASE i <= w
    BY <1>1, <1>3, <1>4, <2>1
  <2>2. CASE ~(i <= w)
    <3>1. i - w \in 1..n /\ w + (i - w) = i
      BY <2>2
    <3> QED BY <1>2, <1>3, <1>4, <2>2, <3>1
  <2> QED BY <2>1, <2>2
<1>6. s \o t = u
  BY <1>3, <1>4, <1>5, SeqEqual
<1> QED
  BY <1>6 DEF s, t, u

LEMMA NumbersAppend ==
  ASSUME NEW w \in Nat
  PROVE  Append(Numbers(1, w), w + 1) = Numbers(1, w + 1)
<1>1. Numbers(1, w) \in Seq(Nat) /\ w + 1 \in Nat
  BY NumbersFacts
<1>2. Numbers(w + 1, 1) = <<w + 1>>
  <2>1. Numbers(w + 1, 1) = [i \in 1..1 |-> w + 1]
    BY DEF Numbers
  <2> QED BY <2>1
<1>3. Append(Numbers(1, w), w + 1) = Numbers(1, w) \o <<w + 1>>
  BY <1>1, AppendIsConcat
<1>4. Numbers(1, w) \o Numbers(w + 1, 1) = Numbers(1, w + 1)
  BY NumbersConcat
<1> QED
  BY <1>2, <1>3, <1>4

\* Concatenation under a name, which the provers need not look into
Cat(s, t) == s \o t

LEMMA CatAssociative ==
  \A s, t, u \in Bytes : Cat(s, t) \in Bytes /\ Cat(Cat(s, t), u) = Cat(s, Cat(t, u))
<1> SUFFICES ASSUME NEW s \in Seq(Nat), NEW t \in Seq(Nat), NEW u \in Seq(Nat)
             PROVE  s \o t \in Seq(Nat) /\ (s \o t) \o u = s \o (t \o u)
  BY DEF Bytes, Cat
<1>1. s \o t \in Seq(Nat)
  BY ConcatProperties, SMT
<1>2. (s \o t) \o u = s \o (t \o u)
  BY ConcatAssociative, SMTT(60)
<1> QED
  BY <1>1, <1>2

\* A byte is appended behind all that is on its way
LEMMA AppendBehind ==
  ASSUME NEW s \in Bytes, NEW t \in Bytes, NEW x \in Nat
  PROVE  s \o Append(t, x) = Append(s \o t, x)
<1>1. s \o t \in Seq(Nat) /\ <<x>> \in Seq(Nat)
  BY ConcatProperties DEF Bytes
<1>2. Append(t, x) = Cat(t, <<x>>) /\ Append(Cat(s, t), x) = Cat(Cat(s, t), <<x>>)
  BY <1>1, AppendIsConcat DEF Bytes, Cat
<1>3. Cat(Cat(s, t), <<x>>) = Cat(s, Cat(t, <<x>>))
  <2>1. <<x>> \in Bytes
    BY <1>1 DEF Bytes
  <2> QED BY <2>1, CatAssociative
<1>4. Cat(s, Append(t, x)) = Append(Cat(s, t), x)
  BY <1>2, <1>3
<1> QED
  BY <1>4, Zenon DEF Cat

LEMMA AppendNotEmpty ==
  \A t \in Seq(Nat) : \A x \in Nat : Append(t, x) # <<>>
OBVIOUS

\* The front of a buffer goes where its front belongs
LEMMA FrontMoves ==
  ASSUME NEW s \in Bytes, NEW t \in Bytes, NEW m \in Nat, m <= Len(t)
  PROVE  /\ s \o SubSeq(t, 1, m) \in Bytes /\ Rest(t, m) \in Bytes
         /\ Len(s \o SubSeq(t, 1, m)) = Len(s) + m /\ Len(Rest(t, m)) = Len(t) - m
         /\ (s \o SubSeq(t, 1, m)) \o Rest(t, m) = s \o t
<1> DEFINE u == SubSeq(t, 1, m)
           v == SubSeq(t, m + 1, Len(t))
<1>0. Len(t) \in Nat /\ t \in Seq(Nat) /\ s \in Seq(Nat)
  BY DEF Bytes
<1>1. u \in Seq(Nat) /\ Len(u) = m /\ \A i \in 1..m : u[i] = t[i]
  BY <1>0
<1>2. v \in Seq(Nat) /\ Len(v) = Len(t) - m /\ \A i \in 1..Len(t) - m : v[i] = t[m + i]
  BY <1>0
<1> HIDE DEF u, v
<1>3. /\ u \o v \in Seq(Nat) /\ Len(u \o v) = m + (Len(t) - m)
      /\ \A i \in 1..m + (Len(t) - m) : (u \o v)[i] = IF i <= m THEN u[i] ELSE v[i - m]
  BY <1>1, <1>2, ConcatProperties
<1>4. Len(u \o v) = Len(t)
  BY <1>0, <1>3
<1>5. ASSUME NEW i \in 1..Len(t) PROVE (u \o v)[i] = t[i]
  <2>1. CASE i <= m
    BY <1>0, <1>1, <1>3, <2>1
  <2>2. CASE ~(i <= m)
    <3>1. i - m \in 1..Len(t) - m /\ m + (i - m) = i
      BY <1>0, <2>2
    <3>2. (u \o v)[i] = v[i - m]
      BY <1>0, <1>3, <2>2
    <3> QED BY <1>2, <3>1, <3>2
  <2> QED BY <2>1, <2>2
<1>6. u \o v = t
  BY <1>0, <1>3, <1>4, <1>5, SeqEqual
<1>7. s \o u \in Seq(Nat) /\ Len(s \o u) = Len(s) + Len(u)
  BY <1>0, <1>1, ConcatProperties, Zenon
<1>8. (s \o u) \o v = s \o t
  <2>0. s \in Bytes /\ u \in Bytes /\ v \in Bytes
    BY <1>0, <1>1, <1>2 DEF Bytes
  <2>1. Cat(u, v) = t
    BY <1>6, Zenon DEF Cat
  <2>2. Cat(Cat(s, u), v) = Cat(s, t)
    BY <2>0, <2>1, CatAssociative
  <2> QED BY <2>2, Zenon DEF Cat
<1> QED
  BY <1>1, <1>2, <1>7, <1>8 DEF Bytes, Rest, u, v

LEMMA HeadMoves ==
  ASSUME NEW s \in Bytes, NEW t \in Bytes, t # <<>>
  PROVE  /\ Append(s, Head(t)) \in Bytes /\ Tail(t) \in Bytes /\ Len(Tail(t)) = Len(t) - 1
         /\ Append(s, Head(t)) \o Tail(t) = s \o t
<1>1. t \in Seq(Nat) /\ s \in Seq(Nat) /\ Len(t) \in Nat /\ 1 <= Len(t)
  <2>1. t \in Seq(Nat) /\ s \in Seq(Nat)
    BY DEF Bytes
  <2> QED BY <2>1
<1>a. Tail(t) = SubSeq(t, 2, Len(t)) /\ Head(t) \in Nat
  <2>1. Tail(t) = SubSeq(t, 2, Len(t))
    BY <1>1, TailIsSubSeq, Zenon
  <2>2. Head(t) \in Nat
    BY <1>1, HeadTailProperties, Zenon
  <2> QED BY <2>1, <2>2
<1>2. SubSeq(t, 1, 1) = <<Head(t)>> /\ Rest(t, 1) = Tail(t) /\ Head(t) \in Nat
  <2>1. SubSeq(t, 1, 1) = <<Head(t)>>
    <3>1. /\ SubSeq(t, 1, 1) \in Seq(Nat) /\ Len(SubSeq(t, 1, 1)) = 1
          /\ SubSeq(t, 1, 1)[1] = t[1] /\ Head(t) = t[1]
      BY <1>1
    <3>2. <<Head(t)>> \in Seq(Nat) /\ Len(<<Head(t)>>) = 1 /\ <<Head(t)>>[1] = Head(t)
      BY <1>a
    <3>3. \A i \in 1..1 : SubSeq(t, 1, 1)[i] = <<Head(t)>>[i]
      BY <3>1, <3>2
    <3> QED BY <3>1, <3>2, <3>3, SeqEqual, Zenon
  <2>2. Rest(t, 1) = SubSeq(t, 2, Len(t))
    BY DEF Rest
  <2> QED BY <1>a, <2>1, <2>2
<1>3. Append(s, Head(t)) = s \o <<Head(t)>>
  BY <1>1, <1>2, AppendIsConcat
<1>4. /\ s \o SubSeq(t, 1, 1) \in Bytes /\ Rest(t, 1) \in Bytes /\ Len(Rest(t, 1)) = Len(t) - 1
      /\ (s \o SubSeq(t, 1, 1)) \o Rest(t, 1) = s \o t
  BY <1>1, FrontMoves
<1> QED
  BY <1>2, <1>3, <1>4

LEMMA ConcatBytes ==
  ASSUME NEW s \in Bytes, NEW t \in Bytes, NEW u \in Bytes
  PROVE  /\ s \o t \in Bytes /\ Len(s \o t) = Len(s) + Len(t) /\ (s \o t) \o u = s \o (t \o u)
         /\ s \o <<>> = s /\ <<>> \o s = s /\ <<>> \in Bytes /\ Len(s) \in Nat
<1>1. s \o t \in Bytes /\ Len(s \o t) = Len(s) + Len(t)
  BY ConcatProperties, Zenon DEF Bytes
<1>2. (s \o t) \o u = s \o (t \o u)
  <2>1. Cat(Cat(s, t), u) = Cat(s, Cat(t, u))
    BY CatAssociative
  <2> QED BY <2>1, Zenon DEF Cat
<1>3. s \o <<>> = s /\ <<>> \o s = s
  BY ConcatEmptySeq DEF Bytes
<1>4. <<>> \in Bytes /\ Len(s) \in Nat
  BY EmptySeq, LenProperties DEF Bytes
<1> QED
  BY <1>1, <1>2, <1>3, <1>4

LEMMA Concatenated ==
  \A s, t, u \in Bytes : s \o t \in Bytes /\ (s \o t) \o u = s \o (t \o u)
<1> SUFFICES ASSUME NEW s \in Bytes, NEW t \in Bytes, NEW u \in Bytes
             PROVE  s \o t \in Bytes /\ (s \o t) \o u = s \o (t \o u)
  OBVIOUS
<1>1. s \o t \in Bytes
  BY ConcatProperties, Zenon DEF Bytes
<1>2. (s \o t) \o u = s \o (t \o u)
  <2>1. Cat(Cat(s, t), u) = Cat(s, Cat(t, u))
    BY CatAssociative
  <2> QED BY <2>1, Zenon DEF Cat
<1> QED
  BY <1>1, <1>2

LEMMA Regrouped ==
  \A s, t, u \in Bytes : (s \o t) \o u = s \o (t \o u)
BY Concatenated, Zenon

\* What moves from the front of one sequence to the end of the one before it stays in a row
LEMMA MovedInRow ==
  \A c, r, d, t, i \in Bytes : Cat(d, t) = Cat(c, r) => Row(d, t, i) = Row(c, r, i)
<1> SUFFICES ASSUME NEW c \in Bytes, NEW r \in Bytes, NEW d \in Bytes, NEW t \in Bytes, NEW i \in Bytes,
                    Cat(d, t) = Cat(c, r)
             PROVE  Row(d, t, i) = Row(c, r, i)
  OBVIOUS
<1>1. Cat(d, Cat(t, i)) = Cat(c, Cat(r, i))
  BY CatAssociative
<1> QED
  BY <1>1, Zenon DEF Cat, Row

Front(t, m) == SubSeq(t, 1, m)

LEMMA FlushedInOrder ==
  \A q, o, x \in Bytes : \A m \in Nat :
    m <= Len(x) => Cat(Cat(q, Cat(o, Front(x, m))), Rest(x, m)) = Cat(Cat(q, o), x)
<1> SUFFICES ASSUME NEW q \in Bytes, NEW o \in Bytes, NEW x \in Bytes, NEW m \in Nat, m <= Len(x)
             PROVE  Cat(Cat(q, Cat(o, Front(x, m))), Rest(x, m)) = Cat(Cat(q, o), x)
  OBVIOUS
<1>1. /\ Cat(o, Front(x, m)) \in Bytes /\ Rest(x, m) \in Bytes
      /\ Cat(Cat(o, Front(x, m)), Rest(x, m)) = Cat(o, x)
  BY FrontMoves DEF Cat, Front
<1> QED
  BY <1>1, CatAssociative

LEMMA CloseFacts ==
  ASSUME FileIOAssumption, MuxType, PoolInv, NEW f \in Files, Close(f)
  PROVE  MuxType' /\ PoolInv' /\ Closes(f)
<1>a. poolIndex \in [Files -> Nat \cup {Nil}] /\ interest \in [Files -> Entry \cup {Nil}]
  BY DEF MuxType
<1>1. CASE f \in Sockets
  <2>1. /\ txBufLock[f] = Nil /\ interest' = [interest EXCEPT ![f] = Nil]
        /\ closedFlag' = [closedFlag EXCEPT ![f] = TRUE]
        /\ UNCHANGED <<files, freeIndices, poolIndex, panicked>>
    BY <1>1 DEF Close, SocketClose
  <2>2. MuxType'
    BY <1>a, <2>1 DEF MuxType
  <2>3. ASSUME NEW g \in Files, interest'[g] # Nil PROVE interest'[g] = interest[g]
    BY <1>a, <2>1, <2>3
  <2>4. PoolInv'
    BY <2>1, <2>3 DEF PoolInv, Indices
  <2>5. Closes(f)
    BY <1>1, <2>1 DEF Closes
  <2> QED BY <2>2, <2>4, <2>5
<1>2. CASE f \notin Sockets
  <2>1. txBufLock[f] = Nil /\ MuxDel(f) /\ closedFlag' = [closedFlag EXCEPT ![f] = TRUE]
    BY <1>2 DEF Close, FileBufClose
  <2>2. MuxType' /\ PoolInv'
    BY <2>1, DelFacts
  <2>3. CASE interest[f] = Nil
    <3>1. panicked' = TRUE /\ UNCHANGED <<files, poolIndex, interest>>
      BY <2>1, <2>3, DelFacts DEF muxVars
    <3>2. [interest EXCEPT ![f] = Nil] = interest
      BY <1>a, <2>3
    <3> QED BY <1>2, <2>1, <2>2, <2>3, <3>1, <3>2 DEF Closes
  <2>4. CASE interest[f] # Nil
    <3>1. Deregisters(f) /\ UNCHANGED panicked
      BY <2>1, <2>4, DelFacts
    <3>2. \A i \in Indices : files'[i] = files[i] \/ files'[i] = Nil
      BY <3>1 DEF Deregisters
    <3>3. Len(files') = Len(files) /\ interest' = [interest EXCEPT ![f] = Nil]
      BY <3>1 DEF Deregisters
    <3> QED BY <1>2, <2>1, <2>2, <2>4, <3>1, <3>2, <3>3 DEF Closes
  <2> QED BY <2>3, <2>4
<1> QED
  BY <1>1, <1>2

-----------------------------------------------------------------------------
(* What a step does to the pool *)

\* Nobody but a file that is being added comes into the pool, and nobody but a file that is
\* not being added is closed
Moves ==
  /\ MuxType' /\ PoolInv' /\ Indices \subseteq Indices'
  /\ \A i \in Indices' :
       \/ i \in Indices /\ files'[i] = files[i]
       \/ files'[i] = Nil
       \/ files'[i] \in Files /\ upc[files'[i]] = "add" /\ upc'[files'[i]] = "idle"
  /\ \A f \in Files : interest'[f] # Nil => interest[f] # Nil \/ (upc[f] = "add" /\ upc'[f] = "idle")
  /\ \A f \in Files : closedFlag'[f] => closedFlag[f] \/ (interest'[f] = Nil /\ upc[f] # "add")
  /\ \A f \in Files : upc[f] # "add" =>
       /\ poolIndex[f] = Nil => poolIndex'[f] = Nil
       /\ \A i \in Indices : files[i] = f => files'[i] = f \/ poolIndex'[f] = Nil

LEMMA Available ==
  ASSUME FileType, NEW f \in Files
  PROVE  WriteAvailable(f) \in BOOLEAN
BY DEF FileType, WriteAvailable

LEMMA PoolStays ==
  ASSUME MuxType, PoolInv, UNCHANGED <<muxVars, closedFlag>>
  PROVE  Moves
<1>1. UNCHANGED <<files, freeIndices, poolIndex, interest, closedFlag>>
  BY DEF muxVars
<1> QED
  BY <1>1 DEF Moves, MuxType, PoolInv, Indices

\* Only the file that is deleted loses its index
LEMMA DeregisterOwns ==
  ASSUME MuxType, NEW f \in Files, Deregisters(f), NEW g \in Files
  PROVE  /\ poolIndex[g] = Nil => poolIndex'[g] = Nil
         /\ \A i \in Indices : files[i] = g => files'[i] = g \/ poolIndex'[g] = Nil
<1>1. poolIndex' = [poolIndex EXCEPT ![f] = Nil] /\ DOMAIN poolIndex = Files
  BY DEF Deregisters, MuxType
<1>2. ASSUME NEW i \in Indices, files[i] = g, g # f PROVE files'[i] = g
  BY <1>2 DEF Deregisters
<1> QED
  BY <1>1, <1>2

LEMMA CloseMoves ==
  ASSUME FileIOAssumption, MuxType, PoolInv, FileType, NEW f \in Files, upc[f] # "add", Close(f)
  PROVE  Moves
<1>1. MuxType' /\ PoolInv' /\ Closes(f)
  BY CloseFacts
<1>2. Indices' = Indices /\ \A i \in Indices : files'[i] = files[i] \/ files'[i] = Nil
  BY <1>1 DEF Closes, Indices
<1>3. \A g \in Files : interest'[g] # Nil => interest[g] # Nil
  BY <1>1 DEF Closes, MuxType
<1>4. \A g \in Files : closedFlag'[g] => closedFlag[g] \/ (interest'[g] = Nil /\ upc[g] # "add")
  BY <1>1 DEF Closes, MuxType, FileType
<1>5. ASSUME NEW g \in Files, upc[g] # "add"
      PROVE  /\ poolIndex[g] = Nil => poolIndex'[g] = Nil
             /\ \A i \in Indices : files[i] = g => files'[i] = g \/ poolIndex'[g] = Nil
  BY <1>1, DeregisterOwns DEF Closes
<1> QED
  BY <1>1, <1>2, <1>3, <1>4, <1>5 DEF Moves

LEMMA UpdateMoves ==
  ASSUME FileIOAssumption, MuxType, PoolInv, FileType, NEW f \in Files, MuxUpdate(f), UNCHANGED closedFlag
  PROVE  Moves
<1>1. /\ MuxType' /\ PoolInv' /\ UNCHANGED <<files, freeIndices, poolIndex>>
      /\ \/ UNCHANGED interest
         \/ interest[f] # Nil /\ interest' = [interest EXCEPT ![f] = [interest[f] EXCEPT !.write = WriteAvailable(f)]]
  BY UpdateFacts, Available
<1>2. \A g \in Files : interest'[g] # Nil => interest[g] # Nil
  BY <1>1 DEF MuxType
<1> QED
  BY <1>1, <1>2 DEF Moves, Indices

LEMMA AddMoves ==
  ASSUME FileIOAssumption, TypeInv, MuxInv, NEW f \in Files, Add(f)
  PROVE  Moves
<1>1. MuxType /\ PoolInv /\ upc[f] = "add" /\ MuxAdd(f) /\ UNCHANGED closedFlag /\ upc'[f] = "idle"
  BY DEF TypeInv, MuxInv, Add, GoUser, PcType
<1>2. \A i \in Indices : files[i] # f
  BY <1>1 DEF MuxInv
<1>3. MuxType' /\ PoolInv' /\ \E i : Registers(f, i)
  BY <1>1, <1>2, AddFacts, Available DEF TypeInv
<1>4. PICK i : Registers(f, i)
  BY <1>3
<1>5. Len(files) \in Nat /\ Len(files') \in Nat /\ Len(files) <= Len(files')
  BY <1>1, <1>4 DEF Registers, MuxType
<1>6. Indices \subseteq Indices'
  BY <1>5 DEF Indices
<1>7. ASSUME NEW j \in Indices'
      PROVE  \/ j \in Indices /\ files'[j] = files[j]
             \/ files'[j] \in Files /\ upc[files'[j]] = "add" /\ upc'[files'[j]] = "idle"
  <2>1. files'[i] = f /\ \A k \in 1..Len(files') \ {i} : k \in Indices /\ files'[k] = files[k]
    BY <1>4 DEF Registers
  <2> QED BY <1>1, <2>1 DEF Indices
<1>8. \A g \in Files : interest'[g] # Nil => interest[g] # Nil \/ (upc[g] = "add" /\ upc'[g] = "idle")
  BY <1>1, <1>4 DEF Registers, MuxType
<1>9. ASSUME NEW g \in Files, upc[g] # "add"
      PROVE  /\ poolIndex[g] = Nil => poolIndex'[g] = Nil
             /\ \A k \in Indices : files[k] = g => files'[k] = g \/ poolIndex'[g] = Nil
  <2>1. poolIndex' = [poolIndex EXCEPT ![f] = i] /\ poolIndex'[g] = poolIndex[g]
    BY <1>1, <1>4, <1>9 DEF Registers, MuxType
  <2>2. ASSUME NEW k \in Indices, files[k] = g PROVE files'[k] = g
    <3>1. k # i
      BY <1>4, <2>2 DEF Registers, Indices, FileIOAssumption
    <3>2. k \in 1..Len(files')
      BY <1>6 DEF Indices
    <3> QED BY <1>4, <2>2, <3>1, <3>2 DEF Registers
  <2> QED BY <2>1, <2>2
<1> QED
  BY <1>1, <1>3, <1>6, <1>7, <1>8, <1>9 DEF Moves

LEMMA NextMoves ==
  ASSUME FileIOAssumption, TypeInv, MuxInv, PollInv, Next
  PROVE  Moves
<1>0. MuxType /\ PoolInv /\ FileType
  BY DEF TypeInv, MuxInv
<1>1. ASSUME NEW f \in Files, Add(f) PROVE Moves
  BY <1>1, AddMoves
<1>2. ASSUME NEW f \in Files, WriteUpdate(f) PROVE Moves
  <2>1. MuxUpdate(f) /\ UNCHANGED closedFlag
    BY <1>2 DEF WriteUpdate
  <2> QED BY <1>0, <2>1, UpdateMoves
<1>3. ASSUME NEW f \in Files, Quit(f) PROVE Moves
  <2>1. CASE Close(f)
    <3>1. upc[f] # "add"
      BY <1>3 DEF Quit
    <3> QED BY <1>0, <2>1, <3>1, CloseMoves
  <2>2. CASE ~Close(f)
    <3>1. UNCHANGED <<muxVars, closedFlag>>
      BY <1>3, <2>2 DEF Quit
    <3> QED BY <1>0, <3>1, PoolStays
  <2> QED BY <2>1, <2>2
<1>4. CASE UpdateReady
  <2>1. pfile \in Files /\ MuxUpdate(pfile) /\ UNCHANGED closedFlag
    BY <1>4 DEF UpdateReady, PollInv, fileVars, Next
  <2> QED BY <1>0, <2>1, UpdateMoves
<1>5. CASE Flush
  <2>1. pfile \in Files /\ upc[pfile] # "add"
    BY <1>5 DEF Flush, PollInv, Next, MuxInv
  <2>2. CASE Close(pfile)
    BY <1>0, <2>1, <2>2, CloseMoves
  <2>3. CASE ~Close(pfile)
    <3>1. UNCHANGED <<muxVars, closedFlag>>
      BY <1>5, <2>3 DEF Flush
    <3> QED BY <1>0, <3>1, PoolStays
  <2> QED BY <2>2, <2>3
<1>6. CASE EndOfFile
  <2>1. pfile \in Files /\ upc[pfile] # "add"
    BY <1>6 DEF EndOfFile, PollInv, Next, MuxInv
  <2>2. CASE Close(pfile)
    BY <1>0, <2>1, <2>2, CloseMoves
  <2>3. CASE ~Close(pfile)
    <3>1. MuxDel(pfile) /\ UNCHANGED closedFlag
      BY <1>6, <2>3 DEF EndOfFile
    <3>2. MuxType' /\ PoolInv' /\ (UNCHANGED muxVars \/ Deregisters(pfile))
      BY <1>0, <2>1, <3>1, DelFacts
    <3>3. CASE UNCHANGED muxVars
      BY <1>0, <3>1, <3>3, PoolStays
    <3>4. CASE Deregisters(pfile)
      <4>1. Indices' = Indices /\ \A i \in Indices : files'[i] = files[i] \/ files'[i] = Nil
        BY <3>4 DEF Deregisters, Indices
      <4>2. \A g \in Files : interest'[g] # Nil => interest[g] # Nil
        BY <1>0, <3>4 DEF Deregisters, MuxType
      <4>3. ASSUME NEW g \in Files
            PROVE  /\ poolIndex[g] = Nil => poolIndex'[g] = Nil
                   /\ \A i \in Indices : files[i] = g => files'[i] = g \/ poolIndex'[g] = Nil
        BY <1>0, <2>1, <3>4, DeregisterOwns
      <4>4. Indices \subseteq Indices' /\ \A i \in Indices' : (i \in Indices /\ files'[i] = files[i]) \/ files'[i] = Nil
        BY <4>1
      <4> QED BY <3>1, <3>2, <4>2, <4>3, <4>4 DEF Moves
    <3> QED BY <3>2, <3>3, <3>4
  <2> QED BY <2>2, <2>3
<1>7. ASSUME NEW f \in Files, Write(f) \/ Receive(f) \/ NoLine(f) \/ Reply(f) \/ Advance(f) \/ PeerStep(f)
      PROVE  Moves
  <2>1. UNCHANGED <<muxVars, closedFlag>>
    BY <1>7 DEF Write, Append_, Receive, NoLine, Reply, Advance, PeerStep, PeerReceive,
                PeerSend, PeerClose, PeerFails, fileVars
  <2> QED BY <1>0, <2>1, PoolStays
<1>8. CASE EventPoll \/ Do \/ ErrorReady \/ WriteReady \/ ReadReady \/ Truncate \/ Consume
  <2>1. UNCHANGED <<muxVars, closedFlag>>
    BY <1>8 DEF EventPoll, Do, ErrorReady, WriteReady, ReadReady, Truncate, Consume, fileVars
  <2> QED BY <1>0, <2>1, PoolStays
<1> QED
  BY <1>1, <1>2, <1>3, <1>4, <1>5, <1>6, <1>7, <1>8 DEF Next, PollStep, UserStep, UserGoesOn

\* The events and the file that the poller has in hand come from the pool
Handles ==
  /\ \A f \in Files : upc'[f] = "add" => upc[f] = "add"
  /\ pfile' \in {pfile, Nil} \cup {files[i] : i \in Indices}
  /\ \A e \in batch' : e \in batch \/ (e.index \in Indices /\ (e.write \/ e.read \/ e.error))
  /\ ppc' \in {"write", "update", "flush", "read"} => cur'.index \in Indices
  /\ ppc' \notin {"wait", "next"} /\ ~panicked' => pfile' \in Files

LEMMA NextHandles ==
  ASSUME FileIOAssumption, TypeInv, MuxInv, PollInv, Next
  PROVE  Handles
<1>0. /\ MuxType /\ PoolInv /\ PcType /\ ~panicked /\ Nil \notin Files
      /\ files \in Seq(Files \cup {Nil}) /\ \A i \in Indices : files[i] \in Files \cup {Nil}
  BY DEF TypeInv, MuxInv, MuxType, Next, FileIOAssumption, Indices
<1>1. ASSUME NEW f \in Files, UserStep(f) \/ PeerStep(f) PROVE Handles
  <2>1. \A g \in Files : upc'[g] = "add" => upc[g] = "add"
    <3>1. CASE Add(f) \/ Write(f) \/ WriteUpdate(f) \/ Receive(f) \/ NoLine(f) \/ Reply(f) \/ Advance(f) \/ Quit(f)
      <4>1. \/ upc' = upc
            \/ \E pc \in {"idle", "update", "line", "replied", "advance", "end"} : upc' = [upc EXCEPT ![f] = pc]
        BY <3>1 DEF Add, Write, Append_, WriteUpdate, Receive, NoLine, Reply, Advance, Quit, GoUser
      <4> QED BY <1>0, <4>1 DEF PcType
    <3>2. CASE PeerStep(f)
      BY <3>2 DEF PeerStep, PeerReceive, PeerSend, PeerClose, PeerFails, userVars
    <3> QED BY <1>1, <3>1, <3>2 DEF UserStep, UserGoesOn
  <2>2. CASE Receive(f)
    BY <1>0, <2>1, <2>2 DEF Receive, Handles
  <2>3. CASE ~Receive(f)
    <3>1. UNCHANGED pollVars
      BY <1>1, <2>3 DEF UserStep, UserGoesOn, Add, Write, Append_, WriteUpdate, NoLine, Reply, Advance,
                        Quit, PeerStep, PeerReceive, PeerSend, PeerClose, PeerFails
    <3> QED BY <1>0, <2>1, <3>1 DEF pollVars, PollInv, Handles
  <2> QED BY <2>2, <2>3
<1>2. CASE EventPoll
  <2>1. /\ UNCHANGED <<upc, pfile>> /\ ppc' = "next" /\ batch' = {EventsOf(f) : f \in Ready}
    BY <1>2 DEF EventPoll, userVars
  <2>2. ASSUME NEW f \in Ready
        PROVE  /\ EventsOf(f).index \in Indices
               /\ EventsOf(f).write \/ EventsOf(f).read \/ EventsOf(f).error
    <3>1. f \in Files /\ interest[f] # Nil /\ (EventsOf(f).write \/ EventsOf(f).read \/ EventsOf(f).error)
      BY DEF Ready, EventsOf
    <3>2. EventsOf(f).index = interest[f].index /\ interest[f].index \in Indices
      BY <1>0, <3>1 DEF PoolInv, EventsOf
    <3> QED BY <3>1, <3>2
  <2> QED BY <2>1, <2>2 DEF Handles
<1>3. CASE Do
  <2>1. UNCHANGED upc
    BY <1>3 DEF Do, userVars
  <2>2. CASE batch = {}
    BY <1>0, <1>3, <2>1, <2>2 DEF Do, Handles
  <2>3. CASE batch # {}
    <3>1. PICK e \in batch :
            /\ batch' = batch \ {e}
            /\ IF files[e.index] = Nil THEN UNCHANGED <<ppc, cur, pfile>>
               ELSE /\ cur' = e /\ pfile' = files[e.index]
                    /\ ppc' = IF e.write THEN "write" ELSE IF e.read THEN "read" ELSE "next"
      BY <1>3, <2>3 DEF Do
    <3>2. e.index \in Indices /\ ppc = "next"
      BY <1>3 DEF Do, MuxInv
    <3> QED BY <1>0, <2>1, <3>1, <3>2 DEF Handles
  <2> QED BY <2>2, <2>3
<1>4. CASE WriteReady \/ UpdateReady \/ Flush
  <2>1. /\ ppc \in {"write", "update", "flush"} /\ ppc' \in {"write", "update", "flush", "read", "next"}
        /\ UNCHANGED <<upc, batch, cur, pfile>>
    BY <1>4 DEF WriteReady, UpdateReady, Flush, userVars
  <2> QED BY <1>0, <2>1 DEF PollInv, Handles
<1>5. CASE ErrorReady
  <2>1. ppc = "next" /\ UNCHANGED <<upc, ppc, batch, cur, pfile>>
    BY <1>5 DEF ErrorReady, userVars
  <2> QED BY <1>0, <2>1 DEF Handles
<1>6. CASE ReadReady
  <2>1. /\ ppc = "read" /\ UNCHANGED <<upc, batch, cur>> /\ pfile' = files[cur.index]
        /\ ppc' \in {"read", "truncate", "end", "notify"}
        /\ panicked' \/ files[cur.index] # Nil
    BY <1>6 DEF ReadReady, ReadFails, userVars
  <2>2. cur.index \in Indices
    BY <2>1 DEF PollInv
  <2> QED BY <1>0, <2>1, <2>2 DEF Handles
<1>7. CASE Truncate \/ EndOfFile \/ Consume
  <2>1. /\ ppc \in {"truncate", "end", "close", "notify"} /\ ppc' \in {"notify", "close", "next"}
        /\ UNCHANGED <<upc, batch, cur, pfile>>
    BY <1>7 DEF Truncate, EndOfFile, Consume, userVars
  <2> QED BY <1>0, <2>1 DEF PollInv, Handles
<1> QED
  BY <1>1, <1>2, <1>3, <1>4, <1>5, <1>6, <1>7 DEF Next, PollStep

LEMMA NextMux ==
  ASSUME FileIOAssumption, TypeInv, MuxInv, PollInv, Next
  PROVE  MuxType' /\ MuxInv' /\ PollInv'
<1>1. Moves /\ Handles
  BY NextMoves, NextHandles
<1>2. \A f \in Files : interest'[f] # Nil => ~closedFlag'[f]
  BY <1>1 DEF Moves, MuxInv
<1>3. ASSUME NEW f \in Files, upc'[f] = "add"
      PROVE  ~closedFlag'[f] /\ interest'[f] = Nil /\ f # pfile' /\ \A i \in Indices' : files'[i] # f
  <2>1. /\ upc[f] = "add" /\ f # Nil
        /\ ~closedFlag[f] /\ interest[f] = Nil /\ f # pfile /\ \A i \in Indices : files[i] # f
    BY <1>1, <1>3 DEF Handles, MuxInv, FileIOAssumption
  <2>2. ~closedFlag'[f] /\ interest'[f] = Nil
    BY <1>1, <1>3, <2>1 DEF Moves
  <2>3. f # pfile'
    BY <1>1, <2>1 DEF Handles
  <2>4. \A i \in Indices' : files'[i] # f
    BY <1>1, <1>3, <2>1 DEF Moves
  <2> QED BY <2>2, <2>3, <2>4
<1>4. \A e \in batch' : e.index \in Indices' /\ (e.write \/ e.read \/ e.error)
  BY <1>1 DEF Handles, Moves, MuxInv
<1>5. PollInv'
  BY <1>1 DEF Handles, Moves, PollInv
<1> QED
  BY <1>1, <1>2, <1>3, <1>4, <1>5 DEF Moves, MuxInv

\* Events come from epoll, and the poller has the file of the index of the event in hand
Hands ==
  /\ \A e \in batch' :
       \/ e \in batch
       \/ e.of \in Files /\ upc[e.of] # "add" /\ e.index \in Indices /\ files[e.index] = e.of
  /\ \/ cur' = NoEvent
     \/ cur' = cur /\ pfile' = pfile
     \/ cur' \in batch \cup {cur} /\ pfile' = files[cur'.index]

LEMMA NextHands ==
  ASSUME FileIOAssumption, TypeInv, MuxInv, PollInv, Next
  PROVE  Hands
<1>1. CASE EventPoll
  <2>1. batch' = {EventsOf(f) : f \in Ready} /\ UNCHANGED <<cur, pfile>>
    BY <1>1 DEF EventPoll
  <2>2. ASSUME NEW f \in Ready
        PROVE  /\ EventsOf(f).of \in Files /\ upc[EventsOf(f).of] # "add"
               /\ EventsOf(f).index \in Indices /\ files[EventsOf(f).index] = EventsOf(f).of
    <3>1. f \in Files /\ interest[f] # Nil /\ upc[f] # "add"
      BY DEF Ready, MuxInv
    <3>2. EventsOf(f).index = interest[f].index /\ EventsOf(f).of = f
      BY DEF EventsOf
    <3>3. interest[f].index \in Indices /\ files[interest[f].index] = f
      BY <3>1 DEF MuxInv, PoolInv
    <3> QED BY <3>1, <3>2, <3>3
  <2> QED BY <2>1, <2>2 DEF Hands
<1>2. CASE Do
  <2>1. CASE batch = {}
    BY <1>2, <2>1 DEF Do, Hands
  <2>2. CASE batch # {}
    <3>1. PICK e \in batch :
            /\ batch' = batch \ {e}
            /\ (UNCHANGED <<cur, pfile>>) \/ (cur' = e /\ pfile' = files[e.index])
      BY <1>2, <2>2 DEF Do
    <3> QED BY <3>1 DEF Hands
  <2> QED BY <2>1, <2>2
<1>3. CASE ReadReady
  <2>1. UNCHANGED <<batch, cur>> /\ pfile' = files[cur.index]
    BY <1>3 DEF ReadReady
  <2> QED BY <2>1 DEF Hands
<1>4. CASE ~(EventPoll \/ Do \/ ReadReady)
  <2>1. UNCHANGED <<batch, cur, pfile>>
    BY <1>4 DEF Next, PollStep, UserStep, UserGoesOn, PeerStep, Add, Write, Append_, WriteUpdate,
                Receive, NoLine, Reply, Advance, Quit, ErrorReady, WriteReady, UpdateReady, Flush,
                Truncate, EndOfFile, Consume, PeerReceive, PeerSend, PeerClose, PeerFails, pollVars
  <2> QED BY <2>1 DEF Hands
<1> QED
  BY <1>1, <1>2, <1>3, <1>4

LEMMA NextEvents ==
  ASSUME FileIOAssumption, TypeInv, MuxInv, PollInv, EventsInv, Next
  PROVE  EventsInv'
<1>1. Moves /\ Handles /\ Hands
  BY NextMoves, NextHandles, NextHands
<1>2. ASSUME NEW e \in batch' \cup {cur'}, e.of # Nil
      PROVE  /\ e.of \in Files /\ upc[e.of] # "add" /\ e.index \in Indices
             /\ files[e.index] = e.of \/ poolIndex[e.of] = Nil
  <2>1. CASE e \in batch \cup {cur}
    <3>1. e.of \in Files
      BY <1>2, <2>1 DEF TypeInv, PcType, Event
    <3> QED BY <1>2, <2>1, <3>1 DEF EventsInv, EventsOfFile
  <2>2. CASE e \notin batch \cup {cur}
    <3>1. e \in batch'
      BY <1>1, <1>2, <2>2 DEF Hands, NoEvent
    <3> QED BY <1>1, <2>2, <3>1 DEF Hands
  <2> QED BY <2>1, <2>2
<1>3. ASSUME NEW e \in batch' \cup {cur'}, e.of # Nil
      PROVE  /\ upc'[e.of] # "add" /\ e.index \in Indices'
             /\ files'[e.index] = e.of \/ poolIndex'[e.of] = Nil
  <2>1. upc'[e.of] # "add" /\ e.index \in Indices'
    BY <1>1, <1>2, <1>3 DEF Handles, Moves
  <2>2. files'[e.index] = e.of \/ poolIndex'[e.of] = Nil
    BY <1>1, <1>2, <1>3 DEF Moves
  <2> QED BY <2>1, <2>2
<1>4. ASSUME cur'.of # Nil PROVE pfile' = cur'.of \/ poolIndex'[cur'.of] = Nil
  <2>1. cur'.of \in Files /\ upc[cur'.of] # "add" /\ (files[cur'.index] = cur'.of \/ poolIndex[cur'.of] = Nil)
    BY <1>2, <1>4
  <2>2. pfile' = cur'.of \/ poolIndex[cur'.of] = Nil
    BY <1>1, <1>4, <2>1 DEF Hands, NoEvent, EventsInv, EventsOfFile
  <2>3. poolIndex[cur'.of] = Nil => poolIndex'[cur'.of] = Nil
    BY <1>1, <2>1 DEF Moves
  <2> QED BY <2>2, <2>3
<1> QED
  BY <1>3, <1>4 DEF EventsInv, EventsOfFile

-----------------------------------------------------------------------------
(* Types are kept *)

LEMMA NextFileType ==
  ASSUME FileIOAssumption, TypeInv, MuxInv, PollInv, Next
  PROVE  FileType'
<1>0. FileType /\ (ppc \notin {"wait", "next"} => pfile \in Files)
  BY DEF TypeInv, PollInv, Next
<1>1. ASSUME NEW f \in Files, Close(f), UNCHANGED <<connecting, eof, failed, txBufLock>>,
             closeAfterTxFlush' \in [Files -> BOOLEAN]
      PROVE  FileType'
  <2>1. Closes(f)
    BY <1>1, CloseFacts DEF TypeInv, MuxInv
  <2> QED BY <1>0, <1>1, <2>1 DEF Closes, FileType
<1>2. ASSUME NEW f \in Files, Write(f) \/ Reply(f) PROVE FileType'
  <2>1. /\ \/ txBufLock' = txBufLock
           \/ txBufLock' = [txBufLock EXCEPT ![f] = f]
        /\ UNCHANGED <<closedFlag, connecting, closeAfterTxFlush, eof, failed>>
    BY <1>2 DEF Write, Reply, Append_, kernelVars
  <2> QED BY <1>0, <2>1 DEF FileType
<1>3. ASSUME NEW f \in Files, WriteUpdate(f) PROVE FileType'
  <2>1. /\ txBufLock' = [txBufLock EXCEPT ![f] = Nil]
        /\ UNCHANGED <<closedFlag, connecting, closeAfterTxFlush, eof, failed>>
    BY <1>3 DEF WriteUpdate, kernelVars
  <2> QED BY <1>0, <2>1 DEF FileType
<1>4. ASSUME NEW f \in Files, Quit(f) PROVE FileType'
  <2>1. UNCHANGED <<connecting, eof, failed, txBufLock>>
    BY <1>4 DEF Quit, kernelVars
  <2>2. CASE Close(f) /\ UNCHANGED closeAfterTxFlush
    BY <1>0, <1>1, <2>1, <2>2 DEF FileType
  <2>3. CASE closeAfterTxFlush' = [closeAfterTxFlush EXCEPT ![f] = TRUE] /\ UNCHANGED closedFlag
    BY <1>0, <2>1, <2>3 DEF FileType
  <2> QED BY <1>4, <2>2, <2>3 DEF Quit
<1>5. CASE WriteReady
  <2>1. /\ \/ txBufLock' = txBufLock
           \/ txBufLock' = [txBufLock EXCEPT ![pfile] = IF pfile \in Sockets THEN "poller" ELSE Nil]
        /\ connecting' = connecting \/ connecting' = [connecting EXCEPT ![pfile] = FALSE]
        /\ UNCHANGED <<closedFlag, closeAfterTxFlush, eof, failed>>
    BY <1>5 DEF WriteReady
  <2> QED BY <1>0, <2>1 DEF FileType
<1>6. CASE Flush
  <2>1. UNCHANGED <<connecting, eof, failed, txBufLock>> /\ pfile \in Files
    BY <1>0, <1>6 DEF Flush, kernelVars
  <2>2. CASE Close(pfile) /\ closeAfterTxFlush' = [closeAfterTxFlush EXCEPT ![pfile] = FALSE]
    BY <1>0, <1>1, <2>1, <2>2 DEF FileType
  <2>3. CASE UNCHANGED <<closedFlag, closeAfterTxFlush>>
    BY <1>0, <2>1, <2>3 DEF FileType
  <2> QED BY <1>6, <2>2, <2>3 DEF Flush
<1>7. CASE EndOfFile
  <2>1. UNCHANGED <<connecting, eof, failed, txBufLock, closeAfterTxFlush>> /\ pfile \in Files
    BY <1>0, <1>7 DEF EndOfFile, kernelVars
  <2>2. CASE Close(pfile)
    BY <1>0, <1>1, <2>1, <2>2 DEF FileType
  <2>3. CASE UNCHANGED closedFlag
    BY <1>0, <2>1, <2>3 DEF FileType
  <2> QED BY <1>7, <2>2, <2>3 DEF EndOfFile
<1>8. ASSUME NEW f \in Files, PeerClose(f) \/ PeerFails(f) PROVE FileType'
  <2>1. /\ \/ eof' = eof /\ failed' = [failed EXCEPT ![f] = TRUE]
           \/ eof' = [eof EXCEPT ![f] = TRUE] /\ failed' = failed
        /\ UNCHANGED <<closedFlag, connecting, closeAfterTxFlush, txBufLock>>
    BY <1>8 DEF PeerClose, PeerFails, fileVars
  <2> QED BY <1>0, <2>1 DEF FileType
<1>9. ASSUME NEW f \in Files, Add(f) \/ Receive(f) \/ NoLine(f) \/ Advance(f) \/ PeerReceive(f) \/ PeerSend(f)
      PROVE  FileType'
  <2>1. UNCHANGED <<closedFlag, connecting, closeAfterTxFlush, eof, failed, txBufLock>>
    BY <1>9 DEF Add, Receive, NoLine, Advance, PeerReceive, PeerSend, fileVars, kernelVars
  <2> QED BY <1>0, <2>1 DEF FileType
<1>10. CASE EventPoll \/ Do \/ ErrorReady \/ UpdateReady \/ ReadReady \/ Truncate \/ Consume
  <2>1. UNCHANGED <<closedFlag, connecting, closeAfterTxFlush, eof, failed, txBufLock>>
    BY <1>10 DEF EventPoll, Do, ErrorReady, UpdateReady, ReadReady, Truncate, Consume, fileVars, kernelVars
  <2> QED BY <1>0, <2>1 DEF FileType
<1> QED
  BY <1>2, <1>3, <1>4, <1>5, <1>6, <1>7, <1>8, <1>9, <1>10
     DEF Next, PollStep, UserStep, UserGoesOn, PeerStep

\* What WriteReady does with the file whose event it handles
Flushes(f) ==
  \/ /\ closedFlag[f] /\ ppc' = "flush"
     /\ txBufLock' = [txBufLock EXCEPT ![f] = IF f \in Sockets THEN "poller" ELSE Nil]
     /\ UNCHANGED <<txBuffer, out, connecting, panicked>>
  \/ /\ ~closedFlag[f] /\ failed[f] /\ panicked' = TRUE
     /\ UNCHANGED <<txBufLock, txBuffer, out, connecting, ppc>>
  \/ /\ ~closedFlag[f] /\ UNCHANGED txBufLock
     /\ connecting' = [connecting EXCEPT ![f] = FALSE]
     /\ \/ /\ UNCHANGED <<txBuffer, out>>
           /\ ppc' = IF connecting[f] THEN "update" ELSE "flush"
           /\ panicked' = panicked \/ (~Writable(f) /\ panicked' = (f \in Sockets))
        \/ /\ \E m \in 1..Len(txBuffer[f]) :
                /\ m <= SockCap - Len(out[f])
                /\ out' = [out EXCEPT ![f] = @ \o SubSeq(txBuffer[f], 1, m)]
                /\ txBuffer' = [txBuffer EXCEPT ![f] = Rest(txBuffer[f], m)]
           /\ ppc' = "update" /\ UNCHANGED panicked

LEMMA WriteReadyFacts ==
  ASSUME WriteReady
  PROVE  /\ ppc = "write" /\ txBufLock[pfile] = Nil /\ Flushes(pfile)
         /\ UNCHANGED <<muxVars, fd, closedFlag, closeAfterTxFlush, rxBuffer, in, eof, failed, peerVars,
                        userVars, batch, cur, pfile, rxLen, rxGot>>
<1>1. CASE closedFlag[pfile]
  BY <1>1 DEF WriteReady, Flushes
<1>2. CASE ~closedFlag[pfile] /\ failed[pfile] /\ WriteAvailable(pfile)
  BY <1>2 DEF WriteReady, Flushes
<1>3. CASE ~closedFlag[pfile] /\ ~(failed[pfile] /\ WriteAvailable(pfile))
  <2>1. CASE Len(txBuffer[pfile]) = 0
    BY <1>3, <2>1 DEF WriteReady, Flushes
  <2>2. CASE Len(txBuffer[pfile]) # 0 /\ ~Writable(pfile)
    BY <1>3, <2>2 DEF WriteReady, Flushes
  <2>3. CASE Len(txBuffer[pfile]) # 0 /\ Writable(pfile)
    BY <1>3, <2>3 DEF WriteReady, Flushes
  <2> QED BY <2>1, <2>2, <2>3
<1> QED
  BY <1>1, <1>2, <1>3

\* A part of the buffer goes to the kernel
LEMMA PartMoves ==
  ASSUME FileIOAssumption, BytesType, NEW f \in Files, NEW m \in 1..Len(txBuffer[f]), m <= SockCap - Len(out[f]),
         NEW s, s = out[f] \o SubSeq(txBuffer[f], 1, m), NEW t, t = Rest(txBuffer[f], m)
  PROVE  s \in Bytes /\ t \in Bytes /\ Len(s) <= SockCap /\ s \o t = out[f] \o txBuffer[f]
<1>1. out[f] \in Bytes /\ txBuffer[f] \in Bytes /\ SockCap \in Nat
  BY DEF BytesType, FileIOAssumption
<1>2. Len(out[f]) \in Nat /\ Len(txBuffer[f]) \in Nat
  BY <1>1, ConcatBytes
<1>3. m \in Nat /\ m <= Len(txBuffer[f])
  BY <1>2
<1>4. s \in Bytes /\ t \in Bytes /\ Len(s) = Len(out[f]) + m /\ s \o t = out[f] \o txBuffer[f]
  BY <1>1, <1>3, FrontMoves
<1>5. \A a, b, c \in Nat : b <= c - a => a + b <= c
  OBVIOUS
<1>6. Len(s) <= SockCap
  BY <1>1, <1>2, <1>3, <1>4, <1>5
<1> QED
  BY <1>4, <1>6

LEMMA NextBytesType ==
  ASSUME FileIOAssumption, TypeInv, MuxInv, PollInv, Next
  PROVE  BytesType'
<1>0. BytesType /\ (ppc \notin {"wait", "next"} => pfile \in Files)
  BY DEF TypeInv, PollInv, Next
<1>a. <<>> \in Bytes /\ MaxSent \in Nat
  BY EmptySeq DEF Bytes, FileIOAssumption
<1>1. ASSUME NEW f \in Files, Write(f) \/ Reply(f) PROVE BytesType'
  <2>1. /\ UNCHANGED <<rxGot, out, in, got, sent, sends>>
        /\ \/ UNCHANGED <<written, txBuffer>>
           \/ /\ written' = [written EXCEPT ![f] = @ + 1]
              /\ txBuffer' = [txBuffer EXCEPT ![f] = Append(@, written[f] + 1)]
    BY <1>1 DEF Write, Reply, Append_, kernelVars, peerVars, pollVars
  <2>2. Append(txBuffer[f], written[f] + 1) \in Bytes /\ written[f] + 1 \in Nat
    <3>1. txBuffer[f] \in Seq(Nat) /\ written[f] + 1 \in Nat
      BY <1>0 DEF BytesType, Bytes
    <3> QED BY <3>1, AppendProperties DEF Bytes
  <2> QED BY <1>0, <2>1, <2>2 DEF BytesType
<1>2. CASE WriteReady
  <2>1. UNCHANGED <<rxGot, in, got, written, sent, sends>> /\ Flushes(pfile) /\ pfile \in Files
    BY <1>0, <1>2, WriteReadyFacts DEF peerVars, userVars
  <2>2. CASE UNCHANGED <<txBuffer, out>>
    BY <1>0, <2>1, <2>2 DEF BytesType
  <2>3. CASE ~UNCHANGED <<txBuffer, out>>
    <3>1. PICK m \in 1..Len(txBuffer[pfile]) :
                /\ m <= SockCap - Len(out[pfile])
                /\ out' = [out EXCEPT ![pfile] = @ \o SubSeq(txBuffer[pfile], 1, m)]
                /\ txBuffer' = [txBuffer EXCEPT ![pfile] = Rest(txBuffer[pfile], m)]
      BY <2>1, <2>3 DEF Flushes
    <3> DEFINE s == out[pfile] \o SubSeq(txBuffer[pfile], 1, m)
               t == Rest(txBuffer[pfile], m)
    <3>2. s \in Bytes /\ t \in Bytes /\ Len(s) <= SockCap
      BY <1>0, <2>1, <3>1, PartMoves
    <3>3. out' = [out EXCEPT ![pfile] = s] /\ txBuffer' = [txBuffer EXCEPT ![pfile] = t]
      BY <3>1
    <3> HIDE DEF s, t
    <3> QED BY <1>0, <2>1, <3>2, <3>3 DEF BytesType
  <2> QED BY <2>2, <2>3
<1>3. CASE ReadReady
  <2>1. /\ UNCHANGED <<txBuffer, out, got, written, sent, sends>>
        /\ \/ UNCHANGED <<in, rxGot>>
           \/ /\ files[cur.index] # Nil /\ rxGot' = in[files[cur.index]]
              /\ in' = [in EXCEPT ![files[cur.index]] = <<>>]
    BY <1>3 DEF ReadReady, ReadFails, peerVars, userVars
  <2>2. files[cur.index] \in Files \cup {Nil}
    BY <1>3 DEF ReadReady, PollInv, TypeInv, MuxType, Indices
  <2>3. CASE UNCHANGED <<in, rxGot>>
    BY <1>0, <2>1, <2>3 DEF BytesType
  <2>4. CASE ~UNCHANGED <<in, rxGot>>
    <3>1. PICK f \in Files : f = files[cur.index]
      BY <2>1, <2>2, <2>4
    <3>2. rxGot' = in[f] /\ in' = [in EXCEPT ![f] = <<>>]
      BY <2>1, <2>4, <3>1
    <3> QED BY <1>0, <1>a, <2>1, <3>2 DEF BytesType
  <2> QED BY <2>3, <2>4
<1>4. CASE Truncate
  <2>1. rxGot' = <<>> /\ UNCHANGED <<txBuffer, out, in, got, written, sent, sends>>
    BY <1>4 DEF Truncate, kernelVars, peerVars, userVars
  <2> QED BY <1>0, <1>a, <2>1 DEF BytesType
<1>5. ASSUME NEW f \in Files, PeerReceive(f) PROVE BytesType'
  <2>1. /\ out[f] # <<>> /\ got' = [got EXCEPT ![f] = Append(@, Head(out[f]))]
        /\ out' = [out EXCEPT ![f] = Tail(@)]
        /\ UNCHANGED <<txBuffer, rxGot, in, written, sent, sends>>
    BY <1>5 DEF PeerReceive, fileVars, userVars, pollVars
  <2>2. /\ Append(got[f], Head(out[f])) \in Bytes /\ Tail(out[f]) \in Bytes
        /\ Len(Tail(out[f])) = Len(out[f]) - 1
    BY <1>0, <2>1, HeadMoves DEF BytesType
  <2>3. Len(Tail(out[f])) <= SockCap
    <3>1. out[f] \in Bytes /\ Len(out[f]) <= SockCap /\ SockCap \in Nat
      BY <1>0 DEF BytesType, FileIOAssumption
    <3>2. Len(out[f]) \in Nat
      BY <3>1, ConcatBytes
    <3> QED BY <2>2, <3>1, <3>2
  <2> QED BY <1>0, <2>1, <2>2, <2>3 DEF BytesType
<1>6. ASSUME NEW f \in Files, PeerSend(f) PROVE BytesType'
  <2>1. PICK n \in 1..MaxSent - sent[f] :
          /\ in' = [in EXCEPT ![f] = @ \o Numbers(sent[f] + 1, n)]
          /\ sent' = [sent EXCEPT ![f] = @ + n]
    BY <1>6 DEF PeerSend
  <2>2. /\ sends' = [sends EXCEPT ![f] = IF lines THEN @ + 1 ELSE @]
        /\ UNCHANGED <<txBuffer, rxGot, out, got, written>>
    BY <1>6 DEF PeerSend, fileVars, userVars, pollVars
  <2>3. n \in Nat /\ sent[f] \in Nat /\ sent[f] + 1 \in Nat /\ sends[f] \in Nat
    BY <1>0, <1>a DEF BytesType
  <2>m. PICK m : m = in[f] \o Numbers(sent[f] + 1, n)
    OBVIOUS
  <2>4. m \in Bytes
    <3>1. Numbers(sent[f] + 1, n) \in Bytes /\ in[f] \in Bytes
      BY <1>0, <2>3, NumbersFacts DEF BytesType, Bytes
    <3>2. Cat(in[f], Numbers(sent[f] + 1, n)) \in Bytes
      BY <3>1, CatAssociative
    <3> QED BY <2>m, <3>2, Zenon DEF Cat
  <2>5. in' = [in EXCEPT ![f] = m]
    BY <2>1, <2>m, Zenon
  <2>s. sent' = [sent EXCEPT ![f] = @ + n]
    BY <2>1, Zenon
  <2>6. in' \in [Files -> Bytes] /\ sent' \in [Files -> Nat] /\ sends' \in [Files -> Nat]
    BY <1>0, <2>2, <2>3, <2>4, <2>5, <2>s DEF BytesType
  <2> QED BY <1>0, <2>2, <2>6 DEF BytesType
<1>7. ASSUME NEW f \in Files, Add(f) \/ WriteUpdate(f) \/ Receive(f) \/ NoLine(f) \/ Advance(f) \/ Quit(f)
                              \/ PeerClose(f) \/ PeerFails(f)
      PROVE  BytesType'
  <2>1. UNCHANGED <<txBuffer, rxGot, out, in, got, written, sent, sends>>
    BY <1>7 DEF Add, WriteUpdate, Receive, NoLine, Advance, Quit, PeerClose, PeerFails, fileVars,
                kernelVars, peerVars,
                userVars, pollVars
  <2> QED BY <1>0, <2>1 DEF BytesType
<1>8. CASE EventPoll \/ Do \/ ErrorReady \/ UpdateReady \/ Flush \/ EndOfFile \/ Consume
  <2>1. UNCHANGED <<txBuffer, rxGot, out, in, got, written, sent, sends>>
    BY <1>8 DEF EventPoll, Do, ErrorReady, UpdateReady, Flush, EndOfFile, Consume, fileVars, kernelVars,
                peerVars,
                userVars
  <2> QED BY <1>0, <2>1 DEF BytesType
<1> QED
  BY <1>1, <1>2, <1>3, <1>4, <1>5, <1>6, <1>7, <1>8 DEF Next, PollStep, UserStep, UserGoesOn, PeerStep

LEMMA NextPcType ==
  ASSUME FileIOAssumption, TypeInv, MuxInv, PollInv, Next
  PROVE  PcType'
<1> DEFINE UPcs == {"add", "idle", "update", "line", "replied", "advance", "end"}
<1>0. /\ MuxType /\ PoolInv /\ PcType /\ (ppc \notin {"wait", "next"} => pfile \in Files)
      /\ \A i \in Indices : files[i] \in Files \cup {Nil}
  BY DEF TypeInv, MuxInv, PollInv, Next, MuxType, Indices
<1>1. UNCHANGED lines /\ pfile' \in Files \cup {Nil}
  <2>1. UNCHANGED lines
    BY DEF Next, PollStep, UserStep, UserGoesOn, PeerStep, Add, Write, Append_, WriteUpdate, Receive,
           NoLine, Reply, Advance, Quit, EventPoll, Do, ErrorReady, WriteReady, UpdateReady, Flush,
           ReadReady, Truncate, EndOfFile, Consume, PeerReceive, PeerSend, PeerClose, PeerFails,
           userVars
  <2>2. pfile' \in {pfile, Nil} \cup {files[i] : i \in Indices}
    BY NextHandles DEF Handles
  <2> QED BY <1>0, <2>1, <2>2 DEF PcType
<1>2. upc' \in [Files -> UPcs]
  <2>1. ASSUME NEW f \in Files, UserStep(f) PROVE upc' \in [Files -> UPcs]
    <3>1. upc' = upc \/ \E pc \in UPcs : upc' = [upc EXCEPT ![f] = pc]
      BY <2>1 DEF UserStep, UserGoesOn, Add, Write, Append_, WriteUpdate, Receive, NoLine, Reply,
                  Advance, Quit, GoUser
    <3> QED BY <1>0, <3>1 DEF PcType
  <2>2. ASSUME PollStep \/ \E f \in Files : PeerStep(f) PROVE UNCHANGED upc
    BY <2>2 DEF PollStep, PeerStep, EventPoll, Do, ErrorReady, WriteReady, UpdateReady, Flush,
                ReadReady, Truncate, EndOfFile, Consume, PeerReceive, PeerSend, PeerClose, PeerFails,
                userVars
  <2> QED BY <1>0, <2>1, <2>2 DEF Next, PcType
<1>3. ppc' \in {"wait", "next", "write", "update", "flush", "read", "truncate", "notify", "end", "close"}
  <2>1. CASE PollStep
    BY <1>0, <2>1 DEF PcType, PollStep, EventPoll, Do, ErrorReady, WriteReady, UpdateReady,
                       Flush, ReadReady, Truncate, EndOfFile, Consume
  <2>2. ASSUME NEW f \in Files, UserStep(f) \/ PeerStep(f) PROVE ppc' \in {ppc, "next"}
    BY <2>2 DEF UserStep, UserGoesOn, PeerStep, Add, Write, Append_, WriteUpdate, Receive, NoLine,
                Reply, Advance, Quit, PeerReceive, PeerSend, PeerClose, PeerFails, pollVars
  <2> QED BY <1>0, <2>1, <2>2 DEF Next, PcType
<1>4. batch' \subseteq Event /\ cur' \in Event
  <2>1. CASE EventPoll
    <3>1. batch' = {EventsOf(f) : f \in Ready} /\ UNCHANGED cur
      BY <2>1 DEF EventPoll
    <3>2. ASSUME NEW f \in Ready PROVE EventsOf(f) \in Event
      <4>1. f \in Files /\ interest[f] \in Entry /\ failed[f] \in BOOLEAN
        BY <1>0 DEF Ready, MuxType, TypeInv, FileType
      <4> QED BY <4>1 DEF EventsOf, Event, Entry, Readable, Writable
    <3> QED BY <1>0, <3>1, <3>2 DEF PcType
  <2>2. CASE Do
    <3>1. batch' \subseteq batch /\ cur' \in batch \cup {cur, NoEvent}
      BY <2>2 DEF Do
    <3>2. NoEvent \in Event
      BY DEF NoEvent, Event
    <3> QED BY <1>0, <3>1, <3>2 DEF PcType
  <2>3. CASE ~(EventPoll \/ Do)
    <3>1. UNCHANGED <<batch, cur>>
      BY <2>3 DEF Next, PollStep, UserStep, UserGoesOn, PeerStep, Add, Write, Append_, WriteUpdate,
                  Receive, NoLine, Reply, Advance, Quit, ErrorReady, WriteReady, UpdateReady, Flush,
                  ReadReady, Truncate, EndOfFile, Consume, PeerReceive, PeerSend, PeerClose, PeerFails,
                  pollVars
    <3> QED BY <1>0, <3>1 DEF PcType
  <2> QED BY <2>1, <2>2, <2>3
<1>5. panicked' \in BOOLEAN
  <2>1. ASSUME NEW f \in Files, WriteUpdate(f) \/ Quit(f) PROVE panicked' \in BOOLEAN
    BY <1>0, <2>1 DEF WriteUpdate, Quit, MuxUpdate, MuxDel, Close, FileBufClose, SocketClose, PcType
  <2>2. CASE UpdateReady \/ Flush \/ EndOfFile
    <3>1. panicked' = panicked \/ panicked' = TRUE
      BY <2>2 DEF UpdateReady, Flush, EndOfFile, MuxUpdate, MuxDel, Close, FileBufClose, SocketClose
    <3> QED BY <1>0, <3>1 DEF PcType
  <2>3. CASE WriteReady
    <3>1. panicked' = panicked \/ panicked' = TRUE \/ panicked' = (pfile \in Sockets)
      BY <2>3, WriteReadyFacts, Zenon DEF Flushes
    <3>2. panicked \in BOOLEAN /\ (pfile \in Sockets) \in BOOLEAN
      BY <1>0 DEF PcType
    <3> QED BY <3>1, <3>2, Zenon
  <2>4. CASE ReadReady
    BY <1>0, <2>4 DEF ReadReady, PcType
  <2>5. CASE EventPoll \/ Do \/ ErrorReady \/ Truncate \/ Consume
    BY <1>0, <2>5 DEF EventPoll, Do, ErrorReady, Truncate, Consume, PcType
  <2>6. ASSUME NEW f \in Files, Add(f) \/ Write(f) \/ Receive(f) \/ NoLine(f) \/ Reply(f) \/ Advance(f) \/ PeerStep(f)
        PROVE  panicked' \in BOOLEAN
    BY <1>0, <2>6 DEF Add, Write, Append_, Receive, NoLine, Reply, Advance, PeerStep, PeerReceive,
                      PeerSend, PeerClose, PeerFails, PcType
  <2> QED BY <2>1, <2>2, <2>3, <2>4, <2>5, <2>6 DEF Next, PollStep, UserStep, UserGoesOn
<1> QED
  BY <1>0, <1>1, <1>2, <1>3, <1>4, <1>5 DEF PcType

LEMMA NextTypes ==
  ASSUME FileIOAssumption, TypeInv, MuxInv, PollInv, Next
  PROVE  TypeInv' /\ MuxInv' /\ PollInv'
BY NextMux, NextFileType, NextBytesType, NextPcType DEF TypeInv

-----------------------------------------------------------------------------
(* Writing *)

LEMMA NextInOrder ==
  ASSUME FileIOAssumption, TypeInv, MuxInv, PollInv, InOrder, Next
  PROVE  InOrder'
<1>0. BytesType /\ (ppc \notin {"wait", "next"} => pfile \in Files)
  BY DEF TypeInv, PollInv, Next
<1>o. \A f \in Files : got[f] \in Bytes /\ out[f] \in Bytes /\ txBuffer[f] \in Bytes /\ written[f] \in Nat
  BY <1>0 DEF BytesType
<1>1. ASSUME NEW f \in Files, Write(f) \/ Reply(f) PROVE InOrder'
  <2>1. /\ UNCHANGED <<out, got>>
        /\ \/ UNCHANGED <<written, txBuffer>>
           \/ /\ written' = [written EXCEPT ![f] = @ + 1]
              /\ txBuffer' = [txBuffer EXCEPT ![f] = Append(@, written[f] + 1)]
    BY <1>1 DEF Write, Reply, Append_, kernelVars, peerVars
  <2>2. CASE UNCHANGED <<written, txBuffer>>
    BY <2>1, <2>2 DEF InOrder
  <2>3. CASE ~UNCHANGED <<written, txBuffer>>
    <3>1. /\ written'[f] = written[f] + 1 /\ txBuffer'[f] = Append(txBuffer[f], written[f] + 1)
          /\ \A g \in Files \ {f} : written'[g] = written[g] /\ txBuffer'[g] = txBuffer[g]
      BY <1>0, <2>1, <2>3 DEF BytesType
    <3>2. (got[f] \o out[f]) \o Append(txBuffer[f], written[f] + 1) = Numbers(1, written[f] + 1)
      <4> DEFINE s == got[f] \o out[f]
                 x == written[f] + 1
      <4>1. s \in Bytes /\ txBuffer[f] \in Bytes /\ x \in Nat
        BY <1>o, ConcatBytes
      <4>2. s \o txBuffer[f] = Numbers(1, written[f])
        BY DEF InOrder
      <4>3. Append(Numbers(1, written[f]), x) = Numbers(1, x)
        BY <1>o, NumbersAppend
      <4> HIDE DEF s, x
      <4>4. s \o Append(txBuffer[f], x) = Append(s \o txBuffer[f], x)
        BY <4>1, AppendBehind
      <4>5. s \o Append(txBuffer[f], x) = Numbers(1, x)
        BY <4>2, <4>3, <4>4, Zenon
      <4> QED BY <4>5, Zenon DEF s, x
    <3> QED BY <2>1, <3>1, <3>2 DEF InOrder
  <2> QED BY <2>2, <2>3
<1>2. CASE WriteReady
  <2>1. UNCHANGED <<got, written>> /\ Flushes(pfile) /\ pfile \in Files
    BY <1>0, <1>2, WriteReadyFacts DEF peerVars, userVars
  <2>2. CASE UNCHANGED <<txBuffer, out>>
    BY <2>1, <2>2 DEF InOrder
  <2>3. CASE ~UNCHANGED <<txBuffer, out>>
    <3>0. PICK f \in Files : f = pfile
      BY <2>1
    <3>1. PICK m \in 1..Len(txBuffer[f]) :
                /\ m <= SockCap - Len(out[f])
                /\ out' = [out EXCEPT ![f] = @ \o SubSeq(txBuffer[f], 1, m)]
                /\ txBuffer' = [txBuffer EXCEPT ![f] = Rest(txBuffer[f], m)]
      BY <2>1, <2>3, <3>0 DEF Flushes
    <3>s. PICK s, t, q, o, x :
            /\ s = out[f] \o SubSeq(txBuffer[f], 1, m) /\ t = Rest(txBuffer[f], m)
            /\ q = got[f] /\ o = out[f] /\ x = txBuffer[f]
      OBVIOUS
    <3>3. out' = [out EXCEPT ![f] = s] /\ txBuffer' = [txBuffer EXCEPT ![f] = t]
      BY <3>1, <3>s
    <3>4. /\ out'[f] = s /\ txBuffer'[f] = t
          /\ \A g \in Files \ {f} : out'[g] = out[g] /\ txBuffer'[g] = txBuffer[g]
      BY <1>0, <3>3 DEF BytesType
    <3>5. (got[f] \o s) \o t = (got[f] \o out[f]) \o txBuffer[f]
      <4>1. q \in Bytes /\ o \in Bytes /\ x \in Bytes
        BY <1>o, <3>s
      <4>2. m \in Nat /\ m <= Len(x)
        BY <3>s, <4>1 DEF Bytes
      <4>3. Cat(Cat(q, Cat(o, Front(x, m))), Rest(x, m)) = Cat(Cat(q, o), x)
        BY <4>1, <4>2, FlushedInOrder
      <4>4. s = Cat(o, Front(x, m)) /\ t = Rest(x, m)
        BY <3>s, Zenon DEF Cat, Front
      <4>5. Cat(Cat(q, s), t) = Cat(Cat(q, o), x)
        BY <4>3, <4>4
      <4>6. (q \o s) \o t = (q \o o) \o x
        BY <4>5, Zenon DEF Cat
      <4> QED BY <3>s, <4>6, Zenon
    <3> QED BY <2>1, <3>4, <3>5 DEF InOrder
  <2> QED BY <2>2, <2>3
<1>3. ASSUME NEW f \in Files, PeerReceive(f) PROVE InOrder'
  <2>1. /\ out[f] # <<>> /\ got' = [got EXCEPT ![f] = Append(@, Head(out[f]))]
        /\ out' = [out EXCEPT ![f] = Tail(@)] /\ UNCHANGED <<txBuffer, written>>
    BY <1>3 DEF PeerReceive, fileVars, userVars
  <2>2. /\ got'[f] = Append(got[f], Head(out[f])) /\ out'[f] = Tail(out[f])
        /\ \A g \in Files \ {f} : got'[g] = got[g] /\ out'[g] = out[g]
    BY <1>0, <2>1 DEF BytesType
  <2>3. Append(got[f], Head(out[f])) \o Tail(out[f]) = got[f] \o out[f]
    <3>1. got[f] \in Bytes /\ out[f] \in Bytes /\ out[f] # <<>>
      BY <1>o, <2>1
    <3> QED BY <3>1, HeadMoves
  <2>4. ASSUME NEW g \in Files PROVE got'[g] \o out'[g] \o txBuffer'[g] = Numbers(1, written'[g])
    <3>1. got[g] \o out[g] \o txBuffer[g] = Numbers(1, written[g]) /\ UNCHANGED <<txBuffer, written>>
      BY <2>1 DEF InOrder
    <3>2. CASE g = f
      BY <2>2, <2>3, <3>1, <3>2, Zenon
    <3>3. CASE g # f
      BY <2>2, <3>1, <3>3
    <3> QED BY <3>2, <3>3
  <2> QED BY <2>4 DEF InOrder
<1>4. ASSUME NEW f \in Files, Add(f) \/ WriteUpdate(f) \/ Receive(f) \/ NoLine(f) \/ Advance(f) \/ Quit(f)
                                \/ PeerSend(f) \/ PeerClose(f) \/ PeerFails(f)
      PROVE  InOrder'
  <2>1. UNCHANGED <<txBuffer, out, got, written>>
    BY <1>4 DEF Add, WriteUpdate, Receive, NoLine, Advance, Quit, PeerSend, PeerClose, PeerFails,
                fileVars, kernelVars, peerVars,
                userVars
  <2> QED BY <2>1 DEF InOrder
<1>5. CASE EventPoll \/ Do \/ ErrorReady \/ UpdateReady \/ Flush \/ ReadReady \/ Truncate \/ EndOfFile \/ Consume
  <2>1. UNCHANGED <<txBuffer, out, got, written>>
    BY <1>5 DEF EventPoll, Do, ErrorReady, UpdateReady, Flush, ReadReady, Truncate, EndOfFile, Consume,
                fileVars, kernelVars,
                peerVars, userVars
  <2> QED BY <2>1 DEF InOrder
<1> QED
  BY <1>1, <1>2, <1>3, <1>4, <1>5 DEF Next, PollStep, UserStep, UserGoesOn, PeerStep

\* Nobody is about to declare the interest of f anew
Settled(f) == upc[f] \notin {"update", "replied"} /\ ~(ppc = "update" /\ pfile = f)

Exact(f) == interest[f] # Nil /\ Settled(f) => (interest[f].write <=> WriteAvailable(f))

LEMMA ExactFiles == InterestExact <=> \A f \in Files : Exact(f)
BY DEF InterestExact, Exact, Settled

LEMMA ExactStays ==
  ASSUME InterestExact, NEW f \in Files, interest'[f] = interest[f] \/ interest'[f] = Nil,
         txBuffer'[f] = txBuffer[f], connecting'[f] = connecting[f], Settled(f)' => Settled(f)
  PROVE  Exact(f)'
<1>1. Exact(f)
  BY ExactFiles
<1>2. WriteAvailable(f)' <=> WriteAvailable(f)
  BY DEF WriteAvailable
<1> QED
  BY <1>1, <1>2 DEF Exact

\* Whoever updates the multiplexer leaves the interest of the file exact
LEMMA ExactUpdate ==
  ASSUME FileIOAssumption, TypeInv, MuxInv, InterestExact, NEW f \in Files, MuxUpdate(f),
         UNCHANGED <<txBuffer, connecting>>, \A g \in Files \ {f} : Settled(g)' => Settled(g)
  PROVE  InterestExact'
<1>0. MuxType /\ PoolInv /\ FileType /\ WriteAvailable(f) \in BOOLEAN
  BY Available DEF TypeInv, MuxInv
<1>1. \/ interest[f] = Nil /\ UNCHANGED interest
      \/ interest[f] # Nil /\ interest' = [interest EXCEPT ![f] = [interest[f] EXCEPT !.write = WriteAvailable(f)]]
  BY <1>0, UpdateFacts DEF MuxInv
<1>2. Exact(f)'
  <2>1. CASE interest[f] = Nil /\ UNCHANGED interest
    BY <2>1 DEF Exact
  <2>2. CASE interest[f] # Nil /\ interest' = [interest EXCEPT ![f] = [interest[f] EXCEPT !.write = WriteAvailable(f)]]
    <3>1. interest[f] \in Entry
      BY <1>0, <2>2 DEF MuxType
    <3>2. interest'[f] = [interest[f] EXCEPT !.write = WriteAvailable(f)]
      BY <1>0, <2>2 DEF MuxType
    <3>3. interest'[f].write = WriteAvailable(f)
      BY <3>1, <3>2 DEF Entry
    <3>4. WriteAvailable(f)' <=> WriteAvailable(f)
      BY DEF WriteAvailable
    <3> QED BY <1>0, <3>3, <3>4 DEF Exact
  <2> QED BY <1>1, <2>1, <2>2
<1>3. ASSUME NEW g \in Files, g # f PROVE Exact(g)'
  <2>1. interest'[g] = interest[g]
    BY <1>0, <1>1, <1>3 DEF MuxType
  <2> QED BY <1>3, <2>1, ExactStays
<1>4. \A g \in Files : Exact(g)'
  BY <1>2, <1>3
<1> QED
  BY <1>4 DEF InterestExact, Exact, Settled

LEMMA NextInterest ==
  ASSUME FileIOAssumption, TypeInv, MuxInv, PollInv, InterestExact, Next
  PROVE  InterestExact'
<1>0. /\ MuxType /\ PoolInv /\ FileType /\ PcType /\ BytesType
      /\ (ppc \notin {"wait", "next"} => pfile \in Files)
  BY DEF TypeInv, MuxInv, PollInv, Next
<1>a. SUFFICES \A g \in Files : Exact(g)'
  BY DEF InterestExact, Exact, Settled
<1>1. ASSUME NEW f \in Files, Add(f), NEW g \in Files PROVE Exact(g)'
  <2>1. /\ MuxAdd(f) /\ UNCHANGED <<txBuffer, connecting, ppc, pfile>> /\ upc' = [upc EXCEPT ![f] = "idle"]
        /\ upc[f] = "add"
    BY <1>1 DEF Add, GoUser, pollVars
  <2>2. \A i \in Indices : files[i] # f
    BY <2>1 DEF MuxInv
  <2>3. PICK i : Registers(f, i)
    BY <1>0, <2>1, <2>2, AddFacts, Available
  <2>4. interest' = [interest EXCEPT ![f] = [write |-> WriteAvailable(f), index |-> i]]
    BY <2>3 DEF Registers
  <2>5. CASE g = f
    <3>1. interest'[f].write = WriteAvailable(f)
      BY <1>0, <2>4 DEF MuxType
    <3>2. WriteAvailable(f)' <=> WriteAvailable(f)
      BY <2>1 DEF WriteAvailable
    <3> QED BY <2>5, <3>1, <3>2 DEF Exact
  <2>6. CASE g # f
    <3>1. interest'[g] = interest[g] /\ (Settled(g)' => Settled(g))
      BY <1>0, <2>1, <2>4, <2>6 DEF MuxType, PcType, Settled
    <3> QED BY <2>1, <3>1, ExactStays
  <2> QED BY <2>5, <2>6
<1>2. ASSUME NEW f \in Files, Write(f) \/ Reply(f), NEW g \in Files PROVE Exact(g)'
  <2>1. PICK pc \in {"update", "replied"} : Append_(f, pc)
    BY <1>2 DEF Write, Reply
  <2>2. UNCHANGED <<interest, connecting, ppc, pfile>>
    BY <2>1 DEF Append_, muxVars, pollVars
  <2>3. /\ \A h \in Files \ {f} : txBuffer'[h] = txBuffer[h] /\ upc'[h] = upc[h]
        /\ closedFlag[f] \/ upc'[f] = pc
    BY <1>0, <2>1 DEF Append_, GoUser, BytesType, PcType
  <2>4. CASE g = f
    <3>1. CASE closedFlag[f]
      <4>1. interest'[f] = Nil
        BY <2>2, <3>1 DEF MuxInv
      <4> QED BY <2>4, <4>1 DEF Exact
    <3>2. CASE upc'[f] = pc
      BY <2>4, <3>2 DEF Exact, Settled
    <3> QED BY <2>3, <3>1, <3>2
  <2>5. CASE g # f
    <3>1. Settled(g)' => Settled(g)
      BY <2>2, <2>3, <2>5 DEF Settled
    <3> QED BY <2>2, <2>3, <2>5, <3>1, ExactStays
  <2> QED BY <2>4, <2>5
<1>3. ASSUME NEW f \in Files, WriteUpdate(f) PROVE InterestExact'
  <2>1. /\ MuxUpdate(f) /\ UNCHANGED <<txBuffer, connecting, ppc, pfile>>
        /\ upc' = [upc EXCEPT ![f] = IF upc[f] = "update" THEN "idle" ELSE "advance"]
    BY <1>3 DEF WriteUpdate, GoUser, pollVars
  <2>2. \A g \in Files \ {f} : Settled(g)' => Settled(g)
    BY <1>0, <2>1 DEF PcType, Settled
  <2> QED BY <2>1, <2>2, ExactUpdate
<1>4. ASSUME UpdateReady PROVE InterestExact'
  <2>1. UNCHANGED <<txBuffer, connecting, upc, pfile>> /\ ppc = "update"
    BY <1>4 DEF UpdateReady, fileVars, userVars
  <2>2. PICK f \in Files : f = pfile /\ MuxUpdate(f)
    BY <1>0, <1>4, <2>1 DEF UpdateReady
  <2>3. \A g \in Files \ {f} : Settled(g)' => Settled(g)
    BY <2>1, <2>2 DEF Settled
  <2>4. MuxUpdate(f) /\ UNCHANGED <<txBuffer, connecting>>
    BY <2>1, <2>2
  <2> QED BY <2>3, <2>4, ExactUpdate
<1>5. ASSUME NEW f \in Files, Quit(f) \/ Receive(f) \/ NoLine(f) \/ Advance(f), NEW g \in Files PROVE Exact(g)'
  <2>1. /\ UNCHANGED <<txBuffer, connecting, pfile>> /\ ppc' \in {ppc, "next"} /\ upc[f] \notin {"update", "replied"}
        /\ (UNCHANGED ppc \/ ppc = "notify")
        /\ \E pc \in {"idle", "line", "end"} : upc' = [upc EXCEPT ![f] = pc]
    BY <1>5 DEF Quit, Receive, NoLine, Advance, GoUser, fileVars, pollVars
  <2>2. Settled(g)' => Settled(g)
    BY <1>0, <2>1 DEF PcType, Settled
  <2>3. interest'[g] = interest[g] \/ interest'[g] = Nil
    <3>1. UNCHANGED interest \/ Close(f)
      BY <1>5 DEF Quit, Receive, NoLine, Advance, muxVars
    <3>2. ASSUME Close(f) PROVE interest' = [interest EXCEPT ![f] = Nil]
      BY <1>0, <3>2, CloseFacts DEF Closes
    <3> QED BY <1>0, <3>1, <3>2 DEF MuxType
  <2> QED BY <2>1, <2>2, <2>3, ExactStays
<1>6. CASE WriteReady
  <2>1. UNCHANGED <<interest, upc, pfile>> /\ ppc = "write" /\ Flushes(pfile) /\ pfile \in Files
    BY <1>0, <1>6, WriteReadyFacts DEF muxVars, userVars
  <2>2. ASSUME NEW g \in Files PROVE Exact(g)'
    <3>1. Settled(g)' => Settled(g)
      BY <2>1 DEF Settled
    <3>2. CASE g = pfile /\ ppc' = "update"
      BY <2>1, <3>2 DEF Exact, Settled
    <3>3. CASE g # pfile \/ ppc' # "update"
      <4>1. txBuffer'[g] = txBuffer[g] /\ connecting'[g] = connecting[g]
        BY <1>0, <2>1, <3>3 DEF Flushes, BytesType, FileType
      <4> QED BY <2>1, <3>1, <4>1, ExactStays
    <3> QED BY <3>2, <3>3
  <2> QED BY <2>2
<1>7. CASE Flush \/ EndOfFile
  <2>1. UNCHANGED <<txBuffer, connecting, upc, pfile>> /\ ppc \in {"flush", "end", "close"} /\ pfile \in Files
    BY <1>0, <1>7 DEF Flush, EndOfFile, userVars
  <2>2. interest' = interest \/ interest' = [interest EXCEPT ![pfile] = Nil]
    <3>1. UNCHANGED muxVars \/ Close(pfile) \/ MuxDel(pfile)
      BY <1>7 DEF Flush, EndOfFile
    <3>2. ASSUME Close(pfile) PROVE interest' = [interest EXCEPT ![pfile] = Nil]
      BY <1>0, <2>1, <3>2, CloseFacts DEF Closes
    <3> QED BY <3>1, <3>2 DEF MuxDel, muxVars
  <2>3. ASSUME NEW g \in Files PROVE Exact(g)'
    <3>1. Settled(g)' => Settled(g)
      BY <2>1 DEF Settled
    <3>2. interest'[g] = interest[g] \/ interest'[g] = Nil
      BY <1>0, <2>2 DEF MuxType
    <3> QED BY <2>1, <3>1, <3>2, ExactStays
  <2> QED BY <2>3
<1>8. CASE EventPoll \/ Do \/ ErrorReady \/ ReadReady \/ Truncate \/ Consume
  <2>1. UNCHANGED <<interest, txBuffer, connecting, upc>> /\ ppc # "update"
    BY <1>8 DEF EventPoll, Do, ErrorReady, ReadReady, Truncate, Consume, muxVars, fileVars, userVars
  <2>2. ASSUME NEW g \in Files PROVE Exact(g)'
    <3>1. Settled(g)' => Settled(g)
      BY <2>1 DEF Settled
    <3> QED BY <2>1, <3>1, ExactStays
  <2> QED BY <2>2
<1>9. ASSUME NEW f \in Files, PeerStep(f), NEW g \in Files PROVE Exact(g)'
  <2>1. UNCHANGED <<interest, txBuffer, connecting, upc, ppc, pfile>>
    BY <1>9 DEF PeerStep, PeerReceive, PeerSend, PeerClose, PeerFails, muxVars, fileVars, userVars, pollVars
  <2>2. Settled(g)' => Settled(g)
    BY <2>1 DEF Settled
  <2> QED BY <2>1, <2>2, ExactStays
<1>10. InterestExact' => \A g \in Files : Exact(g)'
  BY DEF InterestExact, Exact, Settled
<1> QED
  BY <1>1, <1>2, <1>3, <1>4, <1>5, <1>6, <1>7, <1>8, <1>9, <1>10 DEF Next, PollStep, UserStep, UserGoesOn

LEMMA NextQuit ==
  ASSUME FileIOAssumption, TypeInv, MuxInv, PollInv, QuitInv, Next
  PROVE  QuitInv'
<1> DEFINE Asked == {"line", "replied", "advance", "end"}
           Done(f) == upc[f] = "end" /\ txBuffer[f] = <<>>
<1>0. /\ MuxType /\ PoolInv /\ FileType /\ PcType /\ BytesType
      /\ (ppc \notin {"wait", "next"} => pfile \in Files)
  BY DEF TypeInv, MuxInv, PollInv, Next
<1>a. UNCHANGED lines
  BY DEF Next, PollStep, UserStep, UserGoesOn, PeerStep, Add, Write, Append_, WriteUpdate, Receive,
         NoLine, Reply, Advance, Quit, EventPoll, Do, ErrorReady, WriteReady, UpdateReady, Flush,
         ReadReady, Truncate, EndOfFile, Consume, PeerReceive, PeerSend, PeerClose, PeerFails, userVars
<1>b. ASSUME NEW f \in Files, UNCHANGED <<closeAfterTxFlush, eof, closedFlag, ppc>>, upc[f] # "end",
             NEW pc \in {"idle", "update"} \cup Asked, upc' = [upc EXCEPT ![f] = pc], pc \in Asked => lines,
             \A g \in Files \ {f} : txBuffer'[g] = txBuffer[g]
      PROVE  QuitInv'
  <2>1. upc'[f] = pc /\ \A g \in Files \ {f} : upc'[g] = upc[g]
    BY <1>0, <1>b DEF PcType
  <2>2. ~closeAfterTxFlush[f] /\ (lines => ~closedFlag[f])
    BY <1>b DEF QuitInv
  <2>3. ASSUME NEW g \in Files
        PROVE  /\ upc'[g] \in Asked => lines'
               /\ closeAfterTxFlush'[g] => upc'[g] = "end"
               /\ lines' => ~eof'[g] /\ (closedFlag'[g] => upc'[g] = "end" /\ txBuffer'[g] = <<>>)
    <3>1. CASE g = f
      BY <1>a, <1>b, <2>1, <2>2, <3>1 DEF QuitInv
    <3>2. CASE g # f
      BY <1>a, <1>b, <2>1, <3>2 DEF QuitInv
    <3> QED BY <3>1, <3>2
  <2> QED BY <1>a, <1>b, <2>3 DEF QuitInv
<1>c. ASSUME UNCHANGED <<closeAfterTxFlush, eof, closedFlag, upc>>, ppc' \in {"end", "close"} => ~lines,
             \A g \in Files : closedFlag[g] => txBuffer'[g] = txBuffer[g]
      PROVE  QuitInv'
  BY <1>a, <1>c DEF QuitInv
<1>1. ASSUME NEW f \in Files, Write(f) \/ Reply(f) PROVE QuitInv'
  <2>1. PICK p \in {"update", "replied"} : Append_(f, p) /\ upc[f] = IF p = "update" THEN "idle" ELSE "line"
    BY <1>1 DEF Write, Reply
  <2>2. UNCHANGED <<closeAfterTxFlush, eof, closedFlag, ppc>> /\ \A g \in Files \ {f} : txBuffer'[g] = txBuffer[g]
    BY <1>0, <2>1 DEF Append_, kernelVars, pollVars, BytesType
  <2>3. PICK pc \in {p, IF p = "update" THEN "idle" ELSE "advance"} : upc' = [upc EXCEPT ![f] = pc]
    BY <2>1 DEF Append_, GoUser
  <2>4. pc \in Asked => lines
    BY <2>1, <2>3 DEF QuitInv
  <2> QED BY <1>b, <2>1, <2>2, <2>3, <2>4
<1>2. ASSUME NEW f \in Files, Add(f) \/ WriteUpdate(f) \/ NoLine(f) \/ Advance(f) PROVE QuitInv'
  <2>1. /\ UNCHANGED <<closeAfterTxFlush, eof, closedFlag, txBuffer, ppc>> /\ upc[f] # "end"
        /\ \E pc \in {"idle", "line", "advance"} :
             upc' = [upc EXCEPT ![f] = pc] /\ (pc # "idle" => upc[f] \in {"advance", "replied"})
    BY <1>2 DEF Add, WriteUpdate, NoLine, Advance, GoUser, fileVars, kernelVars, pollVars
  <2>2. PICK pc \in {"idle", "line", "advance"} :
             upc' = [upc EXCEPT ![f] = pc] /\ (pc # "idle" => upc[f] \in {"advance", "replied"})
    BY <2>1
  <2>3. pc \in Asked => lines
    BY <2>2 DEF QuitInv
  <2> QED BY <1>b, <2>1, <2>2, <2>3
<1>3. ASSUME NEW f \in Files, Receive(f) PROVE QuitInv'
  <2>1. /\ UNCHANGED <<closeAfterTxFlush, eof, closedFlag, txBuffer>> /\ upc[f] = "idle" /\ lines
        /\ upc' = [upc EXCEPT ![f] = "line"] /\ ppc' = "next"
    BY <1>3 DEF Receive, GoUser, fileVars, kernelVars
  <2>2. ASSUME NEW g \in Files
        PROVE  /\ upc'[g] \in Asked => lines'
               /\ closeAfterTxFlush'[g] => upc'[g] = "end"
               /\ lines' => ~eof'[g] /\ (closedFlag'[g] => upc'[g] = "end" /\ txBuffer'[g] = <<>>)
    <3>1. upc'[g] = (IF g = f THEN "line" ELSE upc[g])
      BY <1>0, <2>1 DEF PcType
    <3> QED BY <1>a, <2>1, <3>1 DEF QuitInv
  <2> QED BY <2>1, <2>2 DEF QuitInv
<1>4. ASSUME NEW f \in Files, Quit(f) PROVE QuitInv'
  <2>1. /\ UNCHANGED <<eof, txBuffer, ppc>> /\ upc[f] = "line" /\ upc' = [upc EXCEPT ![f] = "end"]
        /\ \/ UNCHANGED closedFlag /\ closeAfterTxFlush' = [closeAfterTxFlush EXCEPT ![f] = TRUE]
           \/ Close(f) /\ UNCHANGED closeAfterTxFlush /\ ~WriteAvailable(f)
    BY <1>4 DEF Quit, GoUser, kernelVars, pollVars
  <2>2. lines
    BY <2>1 DEF QuitInv
  <2>3. ASSUME NEW g \in Files
        PROVE  /\ upc'[g] \in Asked => lines'
               /\ closeAfterTxFlush'[g] => upc'[g] = "end"
               /\ lines' => ~eof'[g] /\ (closedFlag'[g] => upc'[g] = "end" /\ txBuffer'[g] = <<>>)
    <3>1. upc'[g] = (IF g = f THEN "end" ELSE upc[g])
      BY <1>0, <2>1 DEF PcType
    <3>2. CASE UNCHANGED closedFlag /\ closeAfterTxFlush' = [closeAfterTxFlush EXCEPT ![f] = TRUE]
      <4>1. closeAfterTxFlush'[g] => g = f \/ closeAfterTxFlush[g]
        BY <1>0, <3>2 DEF FileType
      <4>2. ~closedFlag[f]
        BY <2>1, <2>2 DEF QuitInv
      <4> QED BY <1>a, <2>1, <2>2, <3>1, <3>2, <4>1, <4>2 DEF QuitInv
    <3>3. CASE Close(f) /\ UNCHANGED closeAfterTxFlush /\ ~WriteAvailable(f)
      <4>1. closedFlag' = [closedFlag EXCEPT ![f] = TRUE] /\ txBuffer[f] = <<>>
        BY <1>0, <3>3, CloseFacts DEF Closes, WriteAvailable
      <4>2. closedFlag'[g] => g = f \/ closedFlag[g]
        BY <1>0, <4>1 DEF FileType
      <4> QED BY <1>a, <2>1, <2>2, <3>1, <3>3, <4>1, <4>2 DEF QuitInv
    <3> QED BY <2>1, <3>2, <3>3
  <2> QED BY <1>a, <2>1, <2>3 DEF QuitInv
<1>5. CASE Flush
  <2>1. /\ UNCHANGED <<eof, txBuffer, upc>> /\ ppc' \in {"read", "next"} /\ pfile \in Files
        /\ \/ UNCHANGED <<closedFlag, closeAfterTxFlush>>
           \/ /\ Close(pfile) /\ ~WriteAvailable(pfile) /\ closeAfterTxFlush[pfile]
              /\ closeAfterTxFlush' = [closeAfterTxFlush EXCEPT ![pfile] = FALSE]
    BY <1>0, <1>5 DEF Flush, kernelVars, userVars
  <2>2. CASE UNCHANGED <<closedFlag, closeAfterTxFlush>>
    BY <1>a, <2>1, <2>2 DEF QuitInv
  <2>3. CASE /\ Close(pfile) /\ ~WriteAvailable(pfile) /\ closeAfterTxFlush[pfile]
             /\ closeAfterTxFlush' = [closeAfterTxFlush EXCEPT ![pfile] = FALSE]
    <3>1. closedFlag' = [closedFlag EXCEPT ![pfile] = TRUE] /\ txBuffer[pfile] = <<>> /\ upc[pfile] = "end"
      BY <1>0, <2>1, <2>3, CloseFacts DEF Closes, WriteAvailable, QuitInv
    <3>2. ASSUME NEW g \in Files
          PROVE  /\ closeAfterTxFlush'[g] => closeAfterTxFlush[g]
                 /\ closedFlag'[g] => g = pfile \/ closedFlag[g]
      BY <1>0, <2>3, <3>1 DEF FileType
    <3> QED BY <1>a, <2>1, <3>1, <3>2 DEF QuitInv
  <2> QED BY <2>1, <2>2, <2>3
<1>6. CASE EndOfFile
  <2>1. UNCHANGED <<closeAfterTxFlush, eof, upc>> /\ ~lines
    BY <1>6 DEF EndOfFile, kernelVars, userVars, QuitInv
  <2> QED BY <1>a, <2>1 DEF QuitInv
<1>7. CASE ReadReady
  <2>1. UNCHANGED <<closeAfterTxFlush, eof, closedFlag, upc, txBuffer>>
    BY <1>7 DEF ReadReady, userVars
  <2>2. ppc = "read" /\ (ppc' \in {"end", "close"} => files[cur.index] # Nil /\ eof[files[cur.index]])
    BY <1>7 DEF ReadReady, ReadFails
  <2>3. files[cur.index] \in Files \cup {Nil}
    BY <1>0, <2>2 DEF PollInv, MuxType, Indices
  <2>4. ppc' \in {"end", "close"} => ~lines
    BY <2>2, <2>3 DEF QuitInv
  <2> QED BY <1>c, <2>1, <2>4
<1>8. CASE WriteReady
  <2>1. /\ UNCHANGED <<closeAfterTxFlush, eof, closedFlag, upc>> /\ ppc' \in {"write", "update", "flush"}
        /\ Flushes(pfile) /\ pfile \in Files
    BY <1>0, <1>8, WriteReadyFacts DEF userVars, Flushes
  <2>2. ASSUME NEW g \in Files, closedFlag[g] PROVE txBuffer'[g] = txBuffer[g]
    BY <1>0, <2>1, <2>2 DEF Flushes, BytesType
  <2> QED BY <1>c, <2>1, <2>2
<1>9. CASE EventPoll \/ Do \/ ErrorReady \/ UpdateReady \/ Truncate \/ Consume
  <2>1. UNCHANGED <<closeAfterTxFlush, eof, closedFlag, upc, txBuffer>> /\ ppc' \notin {"end", "close"}
    BY <1>9 DEF EventPoll, Do, ErrorReady, UpdateReady, Truncate, Consume, fileVars, kernelVars, userVars
  <2> QED BY <1>c, <2>1
<1>10. ASSUME NEW f \in Files, PeerReceive(f) \/ PeerSend(f) \/ PeerFails(f) PROVE QuitInv'
  <2>1. UNCHANGED <<closeAfterTxFlush, eof, closedFlag, upc, txBuffer, ppc>>
    BY <1>10 DEF PeerReceive, PeerSend, PeerFails, fileVars, userVars, pollVars
  <2>2. ppc' \in {"end", "close"} => ~lines
    BY <2>1 DEF QuitInv
  <2> QED BY <1>c, <2>1, <2>2
<1>11. ASSUME NEW f \in Files, PeerClose(f) PROVE QuitInv'
  <2>1. UNCHANGED <<closeAfterTxFlush, closedFlag, upc, txBuffer, ppc>> /\ ~lines
    BY <1>11 DEF PeerClose, fileVars, userVars, pollVars
  <2> QED BY <1>a, <2>1 DEF QuitInv
<1> QED
  BY <1>1, <1>2, <1>3, <1>4, <1>5, <1>6, <1>7, <1>8, <1>9, <1>10, <1>11
     DEF Next, PollStep, UserStep, UserGoesOn, PeerStep

-----------------------------------------------------------------------------
(* What holds always *)

LEMMA InitBase ==
  ASSUME FileIOAssumption, Init
  PROVE  Base
<1>1. MuxType /\ FileType /\ PcType
  <2>1. files \in Seq(Files \cup {Nil}) /\ freeIndices \in Seq(Nat)
    BY EmptySeq DEF Init
  <2>2. MuxType
    BY <2>1 DEF Init, MuxType
  <2>3. FileType
    BY DEF Init, FileType
  <2>4. NoEvent \in Event
    BY DEF NoEvent, Event
  <2>5. PcType
    BY <2>4 DEF Init, PcType
  <2> QED BY <2>2, <2>3, <2>5
<1>2. BytesType
  <2>1. <<>> \in Bytes /\ Len(<<>>) = 0
    BY EmptySeq DEF Bytes
  <2>2. Len(<<>>) <= SockCap
    BY <2>1 DEF FileIOAssumption
  <2> QED BY <2>1, <2>2 DEF Init, BytesType
<1>3. Indices = {}
  BY DEF Init, Indices
<1>4. 1..Len(freeIndices) = {}
  BY DEF Init
<1>5. PoolInv
  BY <1>3, <1>4 DEF Init, PoolInv
<1>6. MuxInv /\ PollInv /\ EventsInv
  BY <1>3, <1>5 DEF Init, MuxInv, PollInv, EventsInv, EventsOfFile, NoEvent, FileIOAssumption
<1>7. InOrder
  <2>1. Numbers(1, 0) = <<>> /\ <<>> \in Bytes
    BY EmptySeq DEF Numbers, Bytes
  <2>2. <<>> \o <<>> = <<>>
    BY <2>1, ConcatBytes
  <2> QED BY <2>1, <2>2 DEF Init, InOrder
<1>8. InterestExact /\ QuitInv
  BY DEF Init, InterestExact, QuitInv
<1> QED
  BY <1>1, <1>2, <1>6, <1>7, <1>8 DEF Base, TypeInv, WriteInv

LEMMA NextBase ==
  ASSUME FileIOAssumption, Base, [Next]_vars
  PROVE  Base'
<1>1. CASE Next
  BY <1>1, NextTypes, NextEvents, NextInOrder, NextInterest, NextQuit DEF Base, WriteInv
<1>2. CASE UNCHANGED vars
  <2>1. UNCHANGED muxVars /\ UNCHANGED fileVars /\ UNCHANGED kernelVars /\ UNCHANGED peerVars /\ UNCHANGED userVars
        /\ UNCHANGED pollVars /\ UNCHANGED panicked
    BY <1>2 DEF vars
  <2>2. MuxType' /\ FileType' /\ PcType' /\ BytesType'
    BY <2>1 DEF Base, TypeInv, MuxType, FileType, PcType, BytesType, muxVars, fileVars, kernelVars,
                peerVars, userVars,
                pollVars
  <2>3. MuxInv' /\ PollInv'
    BY <2>1 DEF Base, MuxInv, PoolInv, PollInv, Indices, muxVars, fileVars, userVars, pollVars
  <2>4. InOrder' /\ QuitInv'
    BY <2>1 DEF Base, WriteInv, InOrder, QuitInv, muxVars, fileVars, kernelVars, peerVars, userVars,
                pollVars
  <2>5. InterestExact'
    BY <2>1 DEF Base, WriteInv, InterestExact, WriteAvailable, muxVars, fileVars, userVars, pollVars
  <2>6. EventsInv'
    BY <2>1 DEF Base, EventsInv, EventsOfFile, Indices, muxVars, userVars, pollVars
  <2> QED BY <2>2, <2>3, <2>4, <2>5, <2>6 DEF Base, TypeInv, WriteInv
<1> QED
  BY <1>1, <1>2

-----------------------------------------------------------------------------
(* Reading *)

\* The first n bytes of a buffer, and what is read beyond its end
Cut(r, n) == [k \in 1..n |-> IF k <= Len(r) THEN r[k] ELSE Garbage]

LEMMA CutBytes ==
  ASSUME NEW r \in Bytes, NEW n \in Nat
  PROVE  Cut(r, n) \in Bytes
<1>1. r \in Seq(Nat) /\ Len(r) \in Nat
  BY DEF Bytes
<1>2. \A k \in 1..n : (IF k <= Len(r) THEN r[k] ELSE Garbage) \in Nat
  BY <1>1 DEF Garbage
<1> QED
  BY <1>2 DEF Cut, Bytes

\* The room that was made is cut off again
LEMMA CutRoom ==
  ASSUME NEW s \in Bytes, NEW t \in Bytes
  PROVE  (s \o t) \o RoomToRead \in Bytes /\ Cut((s \o t) \o RoomToRead, Len(s) + Len(t)) = s \o t
<1> DEFINE u == s \o t
           r == u \o RoomToRead
           n == Len(s) + Len(t)
<1>0. RoomToRead \in Seq(Nat) /\ Len(RoomToRead) = 1
  BY DEF RoomToRead, Garbage
<1>1. u \in Seq(Nat) /\ Len(u) = n /\ n \in Nat
  BY ConcatProperties, LenProperties DEF Bytes
<1> HIDE DEF u, n
<1>2. r \in Seq(Nat) /\ Len(r) = n + 1 /\ \A i \in 1..n + 1 : i <= n => r[i] = u[i]
  <2>1. PICK q : q = RoomToRead
    OBVIOUS
  <2>2. q \in Seq(Nat) /\ Len(q) = 1 /\ r = u \o q
    BY <1>0, <2>1
  <2>3. /\ u \o q \in Seq(Nat) /\ Len(u \o q) = Len(u) + Len(q)
        /\ \A i \in 1..Len(u) + Len(q) : (u \o q)[i] = IF i <= Len(u) THEN u[i] ELSE q[i - Len(u)]
    BY <1>1, <2>2, ConcatProperties, Zenon
  <2> HIDE DEF r
  <2> QED BY <1>1, <2>2, <2>3
<1> HIDE DEF r
<1>3. \A k \in 1..n : (IF k <= Len(r) THEN r[k] ELSE Garbage) = u[k]
  BY <1>1, <1>2
<1>4. Cut(r, n) \in Seq(Nat) /\ Len(Cut(r, n)) = n /\ \A k \in 1..n : Cut(r, n)[k] = u[k]
  <2>1. r \in Bytes
    BY <1>2 DEF Bytes
  <2>2. Cut(r, n) \in Seq(Nat)
    BY <1>1, <2>1, CutBytes DEF Bytes
  <2> QED BY <1>1, <1>3, <2>2 DEF Cut
<1>5. Cut(r, n) = u
  BY <1>1, <1>4, SeqEqual
<1> QED
  BY <1>2, <1>5 DEF Bytes, r, u, n

LEMMA UnreadBytes ==
  ASSUME BytesType, ReadType, NEW f \in Files
  PROVE  /\ Unread(f) \in Bytes /\ consumed[f] \in Bytes /\ in[f] \in Bytes /\ rxBuffer[f] \in Bytes
         /\ Truncated(f) \in Bytes /\ Truncated(f) = Cut(rxBuffer[f], rxLen + Len(rxGot)) /\ sent[f] \in Nat
<1>1. consumed[f] \in Bytes /\ in[f] \in Bytes /\ rxBuffer[f] \in Bytes /\ sent[f] \in Nat /\ rxGot \in Bytes
  BY DEF BytesType, ReadType
<1>2. rxLen + Len(rxGot) \in Nat
  BY <1>1 DEF ReadType, Bytes
<1>3. Truncated(f) = Cut(rxBuffer[f], rxLen + Len(rxGot))
  BY DEF Truncated, Cut
<1>4. Truncated(f) \in Bytes
  BY <1>1, <1>2, <1>3, CutBytes
<1> QED
  BY <1>1, <1>3, <1>4 DEF Unread

\* A step that leaves alone what has been read and what is still to be read of a file
LEMMA FileExactStays ==
  ASSUME NEW f \in Files, FileExact(f), Unread(f)' = Unread(f), consumed'[f] = consumed[f], in'[f] = in[f],
         sent'[f] = sent[f]
  PROVE  FileExact(f)'
BY DEF FileExact

LEMMA NotReading ==
  ASSUME NEW f \in Files, ~Reading(f), ~Reading(f)', rxBuffer'[f] = rxBuffer[f]
  PROVE  Unread(f)' = Unread(f)
BY DEF Unread

LEMMA StillReading ==
  ASSUME NEW f \in Files, UNCHANGED <<rxLen, rxGot, ppc, pfile, rxBuffer>>
  PROVE  Unread(f)' = Unread(f) /\ (Reading(f)' <=> Reading(f))
BY DEF Unread, Reading, Truncated

LEMMA NextBytesExact ==
  ASSUME FileIOAssumption, Base, BytesExact, ReadEvents, OneSend, Next
  PROVE  BytesExact'
<1>0. /\ BytesType /\ ReadType /\ MuxType /\ PcType /\ QuitInv /\ PollInv /\ Nil \notin Files
      /\ (ppc \notin {"wait", "next"} => pfile \in Files)
  BY DEF Base, TypeInv, PollInv, Next, BytesExact, WriteInv, FileIOAssumption
<1>a. /\ \A f \in Files : FileExact(f) /\ Unread(f) \in Bytes /\ consumed[f] \in Bytes /\ in[f] \in Bytes
      /\ \A f \in Files : rxBuffer[f] \in Bytes /\ Truncated(f) \in Bytes /\ sent[f] \in Nat
  BY <1>0, UnreadBytes DEF BytesExact
<1>1. ASSUME NEW f \in Files, Advance(f) PROVE BytesExact'
  <2>1. /\ upc[f] = "advance" /\ consumed' = [consumed EXCEPT ![f] = Append(@, Head(rxBuffer[f]))]
        /\ rxBuffer' = [rxBuffer EXCEPT ![f] = Tail(@)] /\ UNCHANGED <<in, sent, rxLen, rxGot, ppc, pfile>>
    BY <1>1 DEF Advance, kernelVars, peerVars, pollVars
  <2>2. lines /\ rxBuffer[f] # <<>> /\ ~Reading(f)
    BY <1>0, <2>1 DEF QuitInv, OneSend, Reading
  <2>3. PICK c, r, i : c = consumed[f] /\ r = rxBuffer[f] /\ i = in[f]
    OBVIOUS
  <2>4. c \in Bytes /\ r \in Bytes /\ i \in Bytes /\ r # <<>>
    BY <1>a, <2>2, <2>3
  <2>a. PICK d, t : d = Append(c, Head(r)) /\ t = Tail(r)
    OBVIOUS
  <2>b. d \in Bytes /\ t \in Bytes /\ d \o t = c \o r
    BY <2>4, <2>a, HeadMoves
  <2>5. Row(d, t, i) = Row(c, r, i)
    <3>0. c \in Bytes /\ r \in Bytes /\ d \in Bytes /\ t \in Bytes /\ i \in Bytes
      BY <2>4, <2>b
    <3>1. Cat(d, t) = Cat(c, r)
      BY <2>b, Zenon DEF Cat
    <3> QED BY <3>0, <3>1, MovedInRow
  <2>6. consumed' = [consumed EXCEPT ![f] = d] /\ rxBuffer' = [rxBuffer EXCEPT ![f] = t]
    BY <2>1, <2>3, <2>a
  <2>7. ReadType'
    BY <1>0, <2>1, <2>b, <2>6 DEF ReadType
  <2>8. consumed'[f] = d /\ rxBuffer'[f] = t
    BY <1>0, <2>6 DEF ReadType
  <2>9. FileExact(f)'
    <3>1. Unread(f) = r /\ Unread(f)' = t
      BY <2>1, <2>2, <2>3, <2>8 DEF Unread, Reading
    <3>2. Row(c, r, i) = Numbers(1, sent[f])
      BY <1>a, <2>3, <3>1 DEF FileExact
    <3>3. in'[f] = i /\ sent'[f] = sent[f]
      BY <2>1, <2>3
    <3> QED BY <2>5, <2>8, <3>1, <3>2, <3>3, Zenon DEF FileExact
  <2>10. ASSUME NEW g \in Files, g # f PROVE FileExact(g)'
    <3>1. consumed'[g] = consumed[g] /\ rxBuffer'[g] = rxBuffer[g]
      BY <1>0, <2>6, <2>10 DEF ReadType
    <3>2. Truncated(g)' = Truncated(g)
      <4>1. Truncated(g) = Cut(rxBuffer[g], rxLen + Len(rxGot))
        BY DEF Truncated, Cut
      <4>2. Truncated(g)' = Cut(rxBuffer'[g], rxLen' + Len(rxGot'))
        BY DEF Truncated, Cut
      <4> QED BY <2>1, <3>1, <4>1, <4>2
    <3>a. Reading(g)' <=> Reading(g)
      BY <2>1 DEF Reading
    <3>3. Unread(g)' = Unread(g)
      BY <3>1, <3>2, <3>a DEF Unread
    <3> QED BY <1>a, <2>1, <3>1, <3>3, FileExactStays
  <2> QED BY <2>7, <2>9, <2>10 DEF BytesExact
<1>2. CASE ReadReady
  <2>1. UNCHANGED <<consumed, sent>> /\ ppc = "read" /\ pfile' = files[cur.index]
    BY <1>2 DEF ReadReady, peerVars, userVars
  <2>2. CASE ReadFails(files[cur.index])
    <3>1. UNCHANGED <<rxBuffer, in, ppc, rxLen, rxGot>>
      BY <1>2, <2>2 DEF ReadReady
    <3>2. ASSUME NEW g \in Files PROVE FileExact(g)'
      <4>1. ~Reading(g) /\ ~Reading(g)'
        BY <2>1, <3>1 DEF Reading
      <4>2. Unread(g)' = Unread(g)
        BY <3>1, <4>1, NotReading
      <4> QED BY <1>a, <2>1, <3>1, <4>2, FileExactStays
    <3> QED BY <1>0, <2>1, <3>1, <3>2 DEF BytesExact, ReadType
  <2>3. CASE ~ReadFails(files[cur.index])
    <3>1. files[cur.index] \in Files /\ Readable(files[cur.index])
      BY <2>1 DEF ReadEvents, Awaits, Next
    <3>2. PICK f \in Files : f = files[cur.index]
      BY <3>1
    <3>3. PICK r, i : r = rxBuffer[f] /\ i = in[f]
      OBVIOUS
    <3>4. /\ rxLen' = Len(r) /\ rxGot' = i /\ in' = [in EXCEPT ![f] = <<>>]
          /\ rxBuffer' = [rxBuffer EXCEPT ![f] = (r \o i) \o RoomToRead]
          /\ ppc' \in {"truncate", "end"} /\ pfile' = f
      BY <1>2, <2>3, <3>1, <3>2, <3>3 DEF ReadReady, Readable
    <3>5. r \in Bytes /\ i \in Bytes
      BY <1>a, <3>3
    <3>6. (r \o i) \o RoomToRead \in Bytes /\ Cut((r \o i) \o RoomToRead, Len(r) + Len(i)) = r \o i
      BY <3>5, CutRoom, Zenon
    <3>7. PICK b : b = (r \o i) \o RoomToRead
      OBVIOUS
    <3>8. b \in Bytes /\ Cut(b, Len(r) + Len(i)) = r \o i /\ rxBuffer' = [rxBuffer EXCEPT ![f] = b]
      BY <3>4, <3>6, <3>7, Zenon
    <3>9. ReadType'
      <4>1. Len(r) \in Nat
        BY <3>5 DEF Bytes
      <4> QED BY <1>0, <2>1, <3>4, <3>8, <4>1 DEF ReadType
    <3>10. FileExact(f)'
      <4>1. rxBuffer'[f] = b /\ in'[f] = <<>>
        BY <1>0, <3>4, <3>8 DEF ReadType, BytesType
      <4>2. Reading(f)'
        BY <3>4 DEF Reading
      <4>3. Unread(f)' = Cut(b, Len(r) + Len(i))
        BY <3>4, <4>1, <4>2 DEF Unread, Truncated, Cut
      <4>4. Unread(f) = r
        BY <2>1, <3>3 DEF Unread, Reading
      <4>5. Row(consumed[f], r, i) = Numbers(1, sent[f])
        BY <1>a, <3>3, <4>4 DEF FileExact
      <4>6. (r \o i) \o <<>> = r \o i
        <5>1. r \o i \in Bytes
          BY <3>5, Concatenated, Zenon
        <5> QED BY <5>1, ConcatBytes
      <4>7. Unread(f)' = r \o i
        BY <3>8, <4>3, Zenon
      <4>8. consumed'[f] = consumed[f] /\ sent'[f] = sent[f]
        BY <2>1
      <4> QED BY <4>1, <4>5, <4>6, <4>7, <4>8, Zenon DEF FileExact, Row
    <3>11. ASSUME NEW g \in Files, g # f PROVE FileExact(g)'
      <4>1. ~Reading(g) /\ ~Reading(g)'
        BY <2>1, <3>4, <3>11 DEF Reading
      <4>2. rxBuffer'[g] = rxBuffer[g] /\ in'[g] = in[g]
        BY <1>0, <3>4, <3>8, <3>11 DEF ReadType, BytesType
      <4>3. Unread(g)' = Unread(g)
        BY <4>1, <4>2, NotReading
      <4> QED BY <1>a, <2>1, <4>2, <4>3, FileExactStays
    <3> QED BY <3>9, <3>10, <3>11 DEF BytesExact
  <2> QED BY <2>2, <2>3
<1>3. CASE Truncate \/ EndOfFile
  <2>1. /\ UNCHANGED <<consumed, in, sent, pfile>> /\ pfile \in Files /\ ppc \in {"truncate", "end", "close"}
        /\ rxBuffer' = [rxBuffer EXCEPT ![pfile] = IF ppc = "close" THEN rxBuffer[pfile] ELSE Truncated(pfile)]
        /\ ppc' \in {"notify", "close", "next"} /\ rxLen' = 0
    BY <1>0, <1>3 DEF Truncate, EndOfFile, kernelVars, peerVars, userVars
  <2>2. PICK f \in Files : f = pfile
    BY <2>1
  <2>3. PICK b : b = IF ppc = "close" THEN rxBuffer[f] ELSE Truncated(f)
    OBVIOUS
  <2>4. b \in Bytes
    BY <1>a, <2>3
  <2>5. rxBuffer' = [rxBuffer EXCEPT ![f] = b]
    BY <2>1, <2>2, <2>3
  <2>6. ReadType'
    BY <1>0, <2>1, <2>4, <2>5 DEF ReadType
  <2>7. ASSUME NEW g \in Files PROVE FileExact(g)'
    <3>1. ~Reading(g)'
      BY <2>1 DEF Reading
    <3>2. Unread(g)' = Unread(g)
      <4>1. CASE g = f
        BY <1>0, <2>1, <2>2, <2>3, <2>5, <3>1, <4>1 DEF Unread, Reading, ReadType
      <4>2. CASE g # f
        <5>1. ~Reading(g) /\ rxBuffer'[g] = rxBuffer[g]
          BY <1>0, <2>2, <2>5, <4>2 DEF Reading, ReadType
        <5> QED BY <3>1, <5>1, NotReading
      <4> QED BY <4>1, <4>2
    <3> QED BY <1>a, <2>1, <3>2, FileExactStays
  <2> QED BY <2>6, <2>7 DEF BytesExact
<1>4. CASE Consume
  <2>1. PICK f \in Files : f = pfile
    BY <1>0, <1>4 DEF Consume
  <2>2. PICK n \in {0, Len(rxBuffer[f])} :
          /\ consumed' = [consumed EXCEPT ![f] = @ \o SubSeq(rxBuffer[f], 1, n)]
          /\ rxBuffer' = [rxBuffer EXCEPT ![f] = SubSeq(@, n + 1, Len(@))]
    BY <1>4, <2>1 DEF Consume
  <2>3. UNCHANGED <<in, sent, rxLen>> /\ ppc = "notify" /\ ppc' = "next"
    BY <1>4 DEF Consume, kernelVars, peerVars
  <2>4. PICK c, r, i : c = consumed[f] /\ r = rxBuffer[f] /\ i = in[f]
    OBVIOUS
  <2>5. c \in Bytes /\ r \in Bytes /\ i \in Bytes /\ n \in {0, Len(r)}
    BY <1>a, <2>4
  <2>6. PICK d, t : d = c \o SubSeq(r, 1, n) /\ t = Rest(r, n)
    OBVIOUS
  <2>a. n \in Nat /\ n <= Len(r)
    BY <2>5 DEF Bytes
  <2>b. d \in Bytes /\ t \in Bytes /\ d \o t = c \o r
    BY <2>5, <2>6, <2>a, FrontMoves
  <2>c. c \in Bytes /\ r \in Bytes /\ i \in Bytes /\ d \in Bytes /\ t \in Bytes
    BY <2>5, <2>b
  <2>d. d \o t = c \o r
    BY <2>b
  <2>7. Row(d, t, i) = Row(c, r, i)
    <3>0. c \in Bytes /\ r \in Bytes /\ d \in Bytes /\ t \in Bytes /\ i \in Bytes
      BY <2>c
    <3>1. Cat(d, t) = Cat(c, r)
      BY <2>d, Zenon DEF Cat
    <3> QED BY <3>0, <3>1, MovedInRow
  <2>8. consumed' = [consumed EXCEPT ![f] = d] /\ rxBuffer' = [rxBuffer EXCEPT ![f] = t]
    BY <2>2, <2>4, <2>6 DEF Rest
  <2>9. ReadType'
    BY <1>0, <2>3, <2>c, <2>8 DEF ReadType
  <2>10. ASSUME NEW g \in Files PROVE FileExact(g)'
    <3>1. ~Reading(g) /\ ~Reading(g)'
      BY <2>3 DEF Reading
    <3>2. CASE g = f
      <4>1. Unread(f) = r /\ Unread(f)' = t /\ consumed'[f] = d
        BY <1>0, <2>4, <2>8, <3>1, <3>2 DEF Unread, ReadType
      <4>2. Row(c, r, i) = Numbers(1, sent[f])
        BY <1>a, <2>4, <4>1 DEF FileExact
      <4>3. in'[f] = i /\ sent'[f] = sent[f]
        BY <2>3, <2>4
      <4> QED BY <2>7, <3>2, <4>1, <4>2, <4>3, Zenon DEF FileExact
    <3>3. CASE g # f
      <4>1. rxBuffer'[g] = rxBuffer[g] /\ consumed'[g] = consumed[g]
        BY <1>0, <2>8, <3>3 DEF ReadType
      <4>2. Unread(g)' = Unread(g)
        BY <3>1, <4>1, NotReading
      <4> QED BY <1>a, <2>3, <4>1, <4>2, FileExactStays
    <3> QED BY <3>2, <3>3
  <2> QED BY <2>9, <2>10 DEF BytesExact
<1>5. ASSUME NEW f \in Files, PeerSend(f) PROVE BytesExact'
  <2>1. PICK n \in 1..MaxSent - sent[f] :
          /\ in' = [in EXCEPT ![f] = @ \o Numbers(sent[f] + 1, n)]
          /\ sent' = [sent EXCEPT ![f] = @ + n]
    BY <1>5 DEF PeerSend
  <2>2. UNCHANGED <<consumed, rxBuffer, rxLen, rxGot, ppc, pfile>>
    BY <1>5 DEF PeerSend, fileVars, userVars, pollVars
  <2>3. \A g \in Files : Unread(g)' = Unread(g)
    BY <2>2, StillReading
  <2>4. PICK c, u, i, w : c = consumed[f] /\ u = Unread(f) /\ i = in[f] /\ w = sent[f]
    OBVIOUS
  <2>5. c \in Bytes /\ u \in Bytes /\ i \in Bytes /\ w \in Nat /\ n \in Nat /\ Row(c, u, i) = Numbers(1, w)
    <3>1. n \in Nat
      BY <1>a DEF FileIOAssumption
    <3> QED BY <1>a, <2>4, <3>1 DEF FileExact
  <2>a. PICK m : m = Numbers(w + 1, n)
    OBVIOUS
  <2>6. Row(c, u, i \o m) = Numbers(1, w + n)
    <3>1. w + 1 \in Nat
      BY <2>5
    <3>2. m \in Bytes
      BY <2>5, <2>a, <3>1, NumbersFacts DEF Bytes
    <3>3. Numbers(1, w) \o m = Numbers(1, w + n)
      BY <2>5, <2>a, NumbersConcat
    <3>4. c \in Bytes /\ u \in Bytes /\ i \in Bytes /\ m \in Bytes
      BY <2>5, <3>2
    <3>5. Row(c, u, i \o m) = Row(c, u, i) \o m
      <4>1. (u \o i) \o m = u \o (i \o m)
        BY <3>4, Regrouped
      <4>2. PICK v \in Bytes : v = u \o i
        BY <3>4, Concatenated
      <4>3. (c \o v) \o m = c \o (v \o m)
        <5>1. c \in Bytes /\ v \in Bytes /\ m \in Bytes
          BY <3>4
        <5> QED BY <5>1, Regrouped
      <4> QED BY <4>1, <4>2, <4>3, Zenon DEF Row
    <3>6. Row(c, u, i) = Numbers(1, w)
      BY <2>5
    <3> QED BY <3>3, <3>5, <3>6, Zenon
  <2>7. in'[f] = i \o m /\ sent'[f] = w + n
    BY <1>0, <2>1, <2>4, <2>a DEF BytesType
  <2>8. FileExact(f)'
    <3>1. consumed'[f] = c /\ Unread(f)' = u
      BY <2>2, <2>3, <2>4
    <3> QED BY <2>6, <2>7, <3>1, Zenon DEF FileExact
  <2>9. ASSUME NEW g \in Files, g # f PROVE FileExact(g)'
    <3>1. in'[g] = in[g] /\ sent'[g] = sent[g]
      BY <1>0, <2>1, <2>9 DEF BytesType
    <3> QED BY <1>a, <2>2, <2>3, <3>1, FileExactStays
  <2> QED BY <1>0, <2>2, <2>8, <2>9 DEF BytesExact, ReadType
<1>6. ASSUME NEW f \in Files, Receive(f) PROVE BytesExact'
  <2>1. UNCHANGED <<consumed, rxBuffer, in, sent, rxLen>> /\ ppc = "notify" /\ ppc' = "next"
    BY <1>6 DEF Receive, fileVars, kernelVars, peerVars
  <2>2. ASSUME NEW g \in Files PROVE FileExact(g)'
    <3>1. Unread(g)' = Unread(g)
      BY <2>1, NotReading DEF Reading
    <3> QED BY <1>a, <2>1, <3>1, FileExactStays
  <2> QED BY <1>0, <2>1, <2>2 DEF BytesExact, ReadType
<1>7. ASSUME NEW f \in Files, Add(f) \/ Write(f) \/ WriteUpdate(f) \/ NoLine(f) \/ Reply(f) \/ Quit(f)
                                \/ PeerReceive(f) \/ PeerClose(f) \/ PeerFails(f)
      PROVE  BytesExact'
  <2>1. UNCHANGED <<consumed, rxBuffer, in, sent, rxLen, rxGot, ppc, pfile>>
    BY <1>7 DEF Add, Write, Append_, WriteUpdate, NoLine, Reply, Quit, PeerReceive, PeerClose,
                PeerFails, fileVars, kernelVars,
                peerVars, userVars, pollVars
  <2>2. ASSUME NEW g \in Files PROVE FileExact(g)'
    <3>1. Unread(g)' = Unread(g)
      BY <2>1, StillReading
    <3> QED BY <1>a, <2>1, <3>1, FileExactStays
  <2> QED BY <1>0, <2>1, <2>2 DEF BytesExact, ReadType
<1>8. CASE EventPoll \/ Do \/ ErrorReady \/ WriteReady \/ UpdateReady \/ Flush
  <2>1. /\ UNCHANGED <<consumed, rxBuffer, in, sent, rxLen>>
        /\ ppc \notin {"truncate", "end"} /\ ppc' \notin {"truncate", "end"}
    BY <1>8 DEF EventPoll, Do, ErrorReady, WriteReady, UpdateReady, Flush, fileVars, kernelVars,
                peerVars, userVars
  <2>2. ASSUME NEW g \in Files PROVE FileExact(g)'
    <3>1. Unread(g)' = Unread(g)
      BY <2>1, NotReading DEF Reading
    <3> QED BY <1>a, <2>1, <3>1, FileExactStays
  <2> QED BY <1>0, <2>1, <2>2 DEF BytesExact, ReadType
<1> QED
  BY <1>1, <1>2, <1>3, <1>4, <1>5, <1>6, <1>7, <1>8 DEF Next, PollStep, UserStep, UserGoesOn, PeerStep

LEMMA NextOneSend ==
  ASSUME FileIOAssumption, Base, BytesExact, ReadEvents, OneSend, LineSends <= 1, Next
  PROVE  OneSend'
<1> DEFINE Asked == {"line", "replied", "advance", "end"}
           Once(f) == /\ sends[f] <= 1 /\ (in[f] # <<>> => sends[f] = 1)
                      /\ upc[f] \in Asked => in[f] = <<>> /\ sends[f] = 1 /\ ~(ppc = "truncate" /\ pfile = f)
                      /\ upc[f] \in {"replied", "advance"} => rxBuffer[f] # <<>>
                      /\ ppc \in {"truncate", "notify"} /\ pfile = f => in[f] = <<>> /\ sends[f] = 1
<1>0. /\ BytesType /\ ReadType /\ MuxType /\ PcType /\ QuitInv /\ PollInv /\ Nil \notin Files
      /\ (ppc \notin {"wait", "next"} => pfile \in Files)
  BY DEF Base, TypeInv, PollInv, Next, BytesExact, WriteInv, FileIOAssumption
<1>a. UNCHANGED lines
  BY DEF Next, PollStep, UserStep, UserGoesOn, PeerStep, Add, Write, Append_, WriteUpdate, Receive,
         NoLine, Reply, Advance, Quit, EventPoll, Do, ErrorReady, WriteReady, UpdateReady, Flush,
         ReadReady, Truncate, EndOfFile, Consume, PeerReceive, PeerSend, PeerClose, PeerFails, userVars
<1>b. SUFFICES ASSUME lines, NEW g \in Files PROVE Once(g)'
  BY <1>a DEF OneSend
<1>c. Once(g)
  BY <1>b DEF OneSend
\* Nothing arrives, and the poller does not go on reading
<1>d. ASSUME UNCHANGED <<in, sends, rxBuffer>>, upc'[g] \in Asked => upc[g] \in Asked,
             upc'[g] \in {"replied", "advance"} => rxBuffer[g] # <<>>,
             ppc' \notin {"truncate", "notify"} \/ UNCHANGED <<ppc, pfile>>
      PROVE  Once(g)'
  BY <1>c, <1>d
<1>1. ASSUME NEW f \in Files, Add(f) \/ Write(f) \/ WriteUpdate(f) \/ NoLine(f) \/ Reply(f) \/ Quit(f) PROVE Once(g)'
  <2>1. UNCHANGED <<in, sends, rxBuffer, ppc, pfile>>
    BY <1>1 DEF Add, Write, Append_, WriteUpdate, NoLine, Reply, Quit, fileVars, kernelVars, peerVars,
                pollVars
  <2>2. /\ \A h \in Files \ {f} : upc'[h] = upc[h]
        /\ upc'[f] \in Asked => upc[f] \in Asked
        /\ upc'[f] \in {"replied", "advance"} => rxBuffer[f] # <<>>
    <3>1. CASE Add(f) \/ WriteUpdate(f) \/ NoLine(f) \/ Quit(f)
      BY <1>0, <1>b, <3>1 DEF Add, WriteUpdate, NoLine, Quit, GoUser, PcType, OneSend
    <3>2. CASE Write(f) \/ Reply(f)
      BY <1>0, <3>2 DEF Write, Reply, Append_, GoUser, PcType
    <3> QED BY <1>1, <3>1, <3>2
  <2>3. /\ upc'[g] \in Asked => upc[g] \in Asked
        /\ upc'[g] \in {"replied", "advance"} => rxBuffer[g] # <<>>
    <3>1. CASE g = f
      BY <2>2, <3>1
    <3>2. CASE g # f
      BY <1>c, <2>2, <3>2
    <3> QED BY <3>1, <3>2
  <2> QED BY <1>d, <2>1, <2>3
<1>2. ASSUME NEW f \in Files, Receive(f) PROVE Once(g)'
  <2>1. /\ UNCHANGED <<in, sends, rxBuffer, pfile>> /\ ppc = "notify" /\ pfile = f /\ ppc' = "next"
        /\ upc' = [upc EXCEPT ![f] = "line"]
    BY <1>2 DEF Receive, GoUser, fileVars, kernelVars, peerVars
  <2>2. CASE g = f
    <3>1. upc'[g] = "line"
      BY <1>0, <2>1, <2>2 DEF PcType
    <3> QED BY <1>c, <2>1, <2>2, <3>1
  <2>3. CASE g # f
    <3>1. upc'[g] = upc[g]
      BY <1>0, <2>1, <2>3 DEF PcType
    <3> QED BY <1>c, <2>1, <3>1
  <2> QED BY <2>2, <2>3
<1>3. ASSUME NEW f \in Files, Advance(f) PROVE Once(g)'
  <2>1. /\ UNCHANGED <<in, sends, ppc, pfile>> /\ upc[f] = "advance" /\ upc' = [upc EXCEPT ![f] = "line"]
        /\ rxBuffer' = [rxBuffer EXCEPT ![f] = Tail(@)]
    BY <1>3 DEF Advance, GoUser, kernelVars, peerVars, pollVars
  <2>2. CASE g = f
    <3>1. upc'[g] = "line"
      BY <1>0, <2>1, <2>2 DEF PcType
    <3> QED BY <1>c, <2>1, <2>2, <3>1
  <2>3. CASE g # f
    <3>1. upc'[g] = upc[g] /\ rxBuffer'[g] = rxBuffer[g]
      BY <1>0, <2>1, <2>3 DEF PcType, ReadType
    <3> QED BY <1>c, <2>1, <3>1
  <2> QED BY <2>2, <2>3
<1>4. CASE ReadReady
  <2>1. UNCHANGED <<sends, upc>> /\ ppc = "read" /\ pfile' = files[cur.index]
    BY <1>4 DEF ReadReady, peerVars, userVars
  <2>2. CASE ReadFails(files[cur.index])
    <3>1. UNCHANGED <<rxBuffer, in, ppc>>
      BY <1>4, <2>2 DEF ReadReady
    <3> QED BY <1>c, <2>1, <3>1
  <2>3. CASE ~ReadFails(files[cur.index])
    <3>1. files[cur.index] \in Files /\ Readable(files[cur.index])
      BY <2>1 DEF ReadEvents, Awaits, Next
    <3>2. PICK f \in Files : f = files[cur.index]
      BY <3>1
    <3>3. in[f] # <<>>
      BY <1>0, <1>b, <3>1, <3>2 DEF Readable, QuitInv
    <3>4. /\ in' = [in EXCEPT ![f] = <<>>] /\ ppc' = "truncate" /\ pfile' = f
          /\ rxBuffer' = [rxBuffer EXCEPT ![f] = @ \o in[f] \o RoomToRead]
      BY <1>4, <2>3, <3>2, <3>3 DEF ReadReady
    <3>5. CASE g = f
      <4>1. in'[g] = <<>> /\ sends[g] = 1 /\ upc[g] \notin Asked
        BY <1>0, <1>c, <3>3, <3>4, <3>5 DEF BytesType
      <4> QED BY <1>c, <2>1, <4>1
    <3>6. CASE g # f
      <4>1. in'[g] = in[g] /\ rxBuffer'[g] = rxBuffer[g]
        BY <1>0, <3>4, <3>6 DEF BytesType, ReadType
      <4> QED BY <1>c, <2>1, <3>4, <3>6, <4>1
    <3> QED BY <3>5, <3>6
  <2> QED BY <2>2, <2>3
<1>5. CASE Truncate
  <2>1. /\ UNCHANGED <<in, sends, upc, pfile>> /\ ppc = "truncate" /\ ppc' = "notify"
        /\ rxBuffer' = [rxBuffer EXCEPT ![pfile] = Truncated(pfile)]
    BY <1>5 DEF Truncate, kernelVars, peerVars, userVars
  <2>2. CASE g = pfile
    BY <1>c, <2>1, <2>2
  <2>3. CASE g # pfile
    <3>1. rxBuffer'[g] = rxBuffer[g]
      BY <1>0, <2>1, <2>3 DEF ReadType
    <3> QED BY <1>c, <2>1, <2>3, <3>1
  <2> QED BY <2>2, <2>3
<1>6. CASE EndOfFile \/ Consume
  <2>1. ~lines
    BY <1>0, <1>6 DEF EndOfFile, Consume, QuitInv
  <2> QED BY <1>b, <2>1
<1>7. CASE EventPoll \/ Do \/ ErrorReady \/ WriteReady \/ UpdateReady \/ Flush
  <2>1. UNCHANGED <<in, sends, rxBuffer, upc>> /\ ppc' \notin {"truncate", "notify"}
    BY <1>7 DEF EventPoll, Do, ErrorReady, WriteReady, UpdateReady, Flush, fileVars, kernelVars,
                peerVars, userVars
  <2> QED BY <1>c, <1>d, <2>1
<1>8. ASSUME NEW f \in Files, PeerSend(f) PROVE Once(g)'
  <2>1. /\ sends[f] < LineSends /\ sends' = [sends EXCEPT ![f] = @ + 1]
        /\ \E s : in' = [in EXCEPT ![f] = s]
        /\ UNCHANGED <<rxBuffer, upc, ppc, pfile>>
    BY <1>8, <1>b DEF PeerSend, fileVars, userVars, pollVars
  <2>2. CASE g = f
    <3>1. sends[g] = 0
      <4>1. sends[g] \in Nat /\ LineSends \in Nat
        BY <1>0 DEF BytesType, FileIOAssumption
      <4> QED BY <2>1, <2>2, <4>1
    <3>2. sends'[g] = 1
      <4>1. sends'[g] = sends[g] + 1
        BY <1>0, <2>1, <2>2 DEF BytesType
      <4> QED BY <3>1, <4>1
    <3> QED BY <1>c, <2>1, <3>1, <3>2
  <2>3. CASE g # f
    <3>1. sends'[g] = sends[g] /\ in'[g] = in[g]
      BY <1>0, <2>1, <2>3 DEF BytesType
    <3> QED BY <1>c, <2>1, <3>1
  <2> QED BY <2>2, <2>3
<1>9. ASSUME NEW f \in Files, PeerReceive(f) \/ PeerClose(f) \/ PeerFails(f) PROVE Once(g)'
  <2>1. UNCHANGED <<in, sends, rxBuffer, upc, ppc, pfile>>
    BY <1>9 DEF PeerReceive, PeerClose, PeerFails, fileVars, peerVars, userVars, pollVars
  <2> QED BY <1>c, <1>d, <2>1
<1> QED
  BY <1>1, <1>2, <1>3, <1>4, <1>5, <1>6, <1>7, <1>8, <1>9 DEF Next, PollStep, UserStep, UserGoesOn, PeerStep

-----------------------------------------------------------------------------
(* The events of something to read *)

\* Files that have something to read stay where they are, but for the one of index x
KeepsBut(x) == \A i : i # x /\ Awaits(i) => Awaits(i)' /\ files'[i] = files[i]

Keeps == \A i : Awaits(i) => Awaits(i)' /\ files'[i] = files[i]

\* Closing f takes nobody else's index
LEMMA CloseKeeps ==
  ASSUME FileIOAssumption, MuxType, PoolInv, NEW f \in Files, Close(f) \/ MuxDel(f), UNCHANGED <<in, eof>>,
         NEW i, Awaits(i), files[i] # f
  PROVE  Awaits(i)' /\ files'[i] = files[i]
<1>1. Len(files') = Len(files) /\ (files' = files \/ Deregisters(f))
  <2>1. CASE Close(f)
    <3>1. Closes(f)
      BY <2>1, CloseFacts
    <3> QED BY <3>1 DEF Closes
  <2>2. CASE MuxDel(f)
    <3>1. UNCHANGED muxVars \/ Deregisters(f)
      BY <2>2, DelFacts
    <3> QED BY <3>1 DEF muxVars, Deregisters
  <2> QED BY <2>1, <2>2
<1>2. i \in Indices /\ Indices' = Indices
  BY <1>1 DEF Awaits, Indices
<1>3. files'[i] = files[i]
  BY <1>1, <1>2 DEF Deregisters
<1> QED
  BY <1>2, <1>3 DEF Awaits, Readable

\* Nobody but the poller takes what is to be read, and no file that has something to read leaves
\* the pool but by its end
LEMMA UserKeeps ==
  ASSUME FileIOAssumption, Base, BytesExact, OneSend, NEW f \in Files, UserStep(f) \/ PeerStep(f), NEW i, Awaits(i)
  PROVE  Awaits(i)' /\ files'[i] = files[i]
<1>0. /\ BytesType /\ FileType /\ MuxType /\ PoolInv /\ PcType /\ QuitInv /\ Nil \notin Files
      /\ i \in Indices /\ files[i] \in Files /\ Readable(files[i])
  BY DEF Base, TypeInv, MuxInv, WriteInv, FileIOAssumption, Awaits
<1>1. CASE Add(f)
  <2>1. MuxAdd(f) /\ upc[f] = "add" /\ UNCHANGED <<in, eof>>
    BY <1>1 DEF Add, kernelVars
  <2>2. \A j \in Indices : files[j] # f
    BY <2>1 DEF Base, MuxInv
  <2>3. PICK k : Registers(f, k)
    BY <1>0, <2>1, <2>2, AddFacts, Available
  <2>4. /\ k \in Nat \ {0} /\ Len(files') \in Nat /\ k <= Len(files') /\ Len(files) <= Len(files') /\ Len(files) \in Nat
        /\ k <= Len(files) => files[k] = Nil
        /\ \A j \in 1..Len(files') \ {k} : files'[j] = files[j]
    BY <1>0, <2>3 DEF Registers, MuxType
  <2>5. i # k
    BY <1>0, <2>4 DEF Indices
  <2>6. i \in Indices'
    BY <1>0, <2>4 DEF Indices
  <2>7. files'[i] = files[i]
    BY <2>4, <2>5, <2>6 DEF Indices
  <2> QED BY <1>0, <2>1, <2>6, <2>7 DEF Awaits, Readable
<1>2. CASE Quit(f)
  <2>1. upc[f] = "line" /\ UNCHANGED <<in, eof>> /\ (Close(f) \/ UNCHANGED files)
    BY <1>2 DEF Quit, kernelVars, muxVars
  <2>2. lines
    BY <1>0, <2>1 DEF QuitInv
  <2>3. ~Readable(f)
    BY <1>0, <2>1, <2>2 DEF QuitInv, OneSend, Readable
  <2>4. files[i] # f
    BY <1>0, <2>3
  <2>5. CASE Close(f)
    BY <1>0, <2>1, <2>4, <2>5, CloseKeeps
  <2>6. CASE UNCHANGED files
    BY <1>0, <2>1, <2>6 DEF Awaits, Indices, Readable
  <2> QED BY <2>1, <2>5, <2>6
<1>3. CASE WriteUpdate(f)
  <2>1. UNCHANGED <<files, in, eof>>
    BY <1>3 DEF WriteUpdate, MuxUpdate, muxVars, kernelVars
  <2> QED BY <1>0, <2>1 DEF Awaits, Indices, Readable
<1>4. CASE PeerSend(f)
  <2>1. UNCHANGED <<files, eof>>
    BY <1>4 DEF PeerSend, muxVars
  <2>2. PICK n \in 1..MaxSent - sent[f] : in' = [in EXCEPT ![f] = @ \o Numbers(sent[f] + 1, n)]
    BY <1>4 DEF PeerSend
  <2>3. in[f] # <<>> => in[f] \o Numbers(sent[f] + 1, n) # <<>>
    <3>1. n \in Nat /\ sent[f] + 1 \in Nat
      BY <1>0 DEF BytesType, FileIOAssumption
    <3>2. PICK m \in Bytes : m = Numbers(sent[f] + 1, n)
      BY <3>1, NumbersFacts DEF Bytes
    <3>3. PICK s \in Bytes : s = in[f]
      BY <1>0 DEF BytesType
    <3>4. s # <<>> => s \o m # <<>>
      <4>1. s \in Seq(Nat) /\ m \in Seq(Nat)
        BY DEF Bytes
      <4> QED BY <4>1
    <3> QED BY <3>2, <3>3, <3>4
  <2>4. \A g \in Files : in[g] # <<>> => in'[g] # <<>>
    BY <1>0, <2>2, <2>3 DEF BytesType
  <2> QED BY <1>0, <2>1, <2>4 DEF Awaits, Indices, Readable
<1>5. CASE PeerClose(f)
  <2>1. UNCHANGED <<files, in>> /\ eof' = [eof EXCEPT ![f] = TRUE]
    BY <1>5 DEF PeerClose, muxVars
  <2>2. \A g \in Files : eof[g] => eof'[g]
    BY <1>0, <2>1 DEF FileType
  <2> QED BY <1>0, <2>1, <2>2 DEF Awaits, Indices, Readable
<1>6. CASE Write(f) \/ Receive(f) \/ NoLine(f) \/ Reply(f) \/ Advance(f) \/ PeerReceive(f) \/ PeerFails(f)
  <2>1. UNCHANGED <<files, in, eof>>
    BY <1>6 DEF Write, Append_, Receive, NoLine, Reply, Advance, PeerReceive, PeerFails, muxVars, kernelVars
  <2> QED BY <1>0, <2>1 DEF Awaits, Indices, Readable
<1> QED
  BY <1>1, <1>2, <1>3, <1>4, <1>5, <1>6 DEF UserStep, UserGoesOn, PeerStep

\* The poller goes on with the event it has in hand, or somebody else makes a step
LEMMA EventsStay ==
  ASSUME ReadEvents, Keeps, UNCHANGED <<batch, cur>>,
         ppc' \notin {"wait", "next"} => ppc \notin {"wait", "next"},
         ppc' \in {"write", "update", "flush"} => ppc \in {"write", "update", "flush"},
         ppc' = "read" /\ ~panicked' => (ppc = "flush" /\ cur.read) \/ (ppc = "read" /\ ~panicked),
         ppc' \in {"end", "close"} => UNCHANGED <<ppc, pfile>>
  PROVE  ReadEvents'
<1>1. \A e \in batch' : e.read => Awaits(e.index)'
  BY DEF ReadEvents, Keeps
<1>2. /\ \A e, d \in batch' : e.read /\ d.read /\ e.index = d.index => e = d
      /\ ppc' \notin {"wait", "next"} /\ cur'.read => \A e \in batch' : e.read => e.index # cur'.index
  BY DEF ReadEvents
<1>3. ppc' \in {"write", "update", "flush"} /\ cur'.read => Awaits(cur.index)'
  BY DEF ReadEvents, Keeps
<1>4. ppc' = "read" /\ ~panicked' => cur'.read /\ Awaits(cur.index)'
  BY DEF ReadEvents, Keeps
<1>5. ppc' = "end" => cur'.read /\ Awaits(cur.index)' /\ files'[cur'.index] = pfile'
  BY DEF ReadEvents, Keeps
<1>6. ppc' = "close" => pfile' \in Sockets
  BY DEF ReadEvents
<1> QED
  BY <1>1, <1>2, <1>3, <1>4, <1>5, <1>6 DEF ReadEvents

LEMMA NextReadEvents ==
  ASSUME FileIOAssumption, Base, BytesExact, ReadEvents, OneSend, Next
  PROVE  ReadEvents'
<1>0. /\ BytesType /\ FileType /\ MuxType /\ PoolInv /\ PcType /\ QuitInv /\ PollInv /\ Nil \notin Files /\ ~panicked
      /\ (ppc \notin {"wait", "next"} => pfile \in Files)
      /\ \A i \in Indices : files[i] \in Files \cup {Nil}
  BY DEF Base, TypeInv, MuxInv, PollInv, Next, WriteInv, FileIOAssumption, MuxType, Indices
<1>a. ASSUME UNCHANGED <<files, in, eof>> PROVE Keeps
  BY <1>a DEF Keeps, Awaits, Indices, Readable
<1>b. ASSUME NEW i, NEW j, Awaits(i), Awaits(j), files[i] = files[j] PROVE i = j
  BY <1>0, <1>b DEF PoolInv, Awaits
<1>1. ASSUME NEW f \in Files, UserStep(f) \/ PeerStep(f) PROVE ReadEvents'
  <2>1. Keeps
    BY <1>1, UserKeeps DEF Keeps
  <2>2. UNCHANGED <<batch, cur, pfile>> /\ (UNCHANGED ppc \/ ppc' = "next")
    BY <1>1 DEF UserStep, UserGoesOn, PeerStep, Add, Write, Append_, WriteUpdate, Receive, NoLine,
                Reply, Advance, Quit, PeerReceive, PeerSend, PeerClose, PeerFails, pollVars
  <2>3. CASE UNCHANGED ppc
    BY <1>0, <2>1, <2>2, <2>3, EventsStay
  <2>4. CASE ppc' = "next"
    BY <1>0, <2>1, <2>2, <2>4, EventsStay
  <2> QED BY <2>2, <2>3, <2>4
<1>2. CASE WriteReady \/ UpdateReady
  <2>1. /\ UNCHANGED <<files, in, eof, batch, cur>> /\ ppc \in {"write", "update"}
        /\ ppc' \in {"write", "update", "flush"}
    BY <1>2, WriteReadyFacts DEF UpdateReady, MuxUpdate, muxVars, kernelVars, Flushes
  <2>2. Keeps
    BY <1>a, <2>1
  <2> QED BY <2>1, <2>2, EventsStay
<1>3. CASE Truncate \/ Consume
  <2>1. /\ UNCHANGED <<files, eof, batch, cur>> /\ ppc \in {"truncate", "notify"} /\ ppc' \in {"notify", "next"}
        /\ UNCHANGED in
    BY <1>3 DEF Truncate, Consume, muxVars, kernelVars
  <2>2. Keeps
    BY <1>a, <2>1
  <2> QED BY <2>1, <2>2, EventsStay
<1>4. CASE Flush
  <2>1. /\ UNCHANGED <<in, eof, batch, cur, pfile>> /\ ppc = "flush" /\ ppc' = IF cur.read THEN "read" ELSE "next"
        /\ (UNCHANGED muxVars \/ (Close(pfile) /\ closeAfterTxFlush[pfile])) /\ pfile \in Files
    BY <1>0, <1>4 DEF Flush, kernelVars
  <2>2. CASE UNCHANGED muxVars
    <3>1. Keeps
      BY <1>a, <2>1, <2>2 DEF muxVars
    <3> QED BY <2>1, <3>1, EventsStay
  <2>3. CASE Close(pfile) /\ closeAfterTxFlush[pfile]
    <3>1. upc[pfile] = "end" /\ lines
      BY <1>0, <2>1, <2>3 DEF QuitInv
    <3>2. ~Readable(pfile)
      BY <1>0, <2>1, <3>1 DEF QuitInv, OneSend, Readable
    <3>3. PICK f \in Files : f = pfile /\ Close(f)
      BY <2>1, <2>3
    <3>4. ASSUME NEW i, Awaits(i) PROVE Awaits(i)' /\ files'[i] = files[i]
      <4>1. files[i] # f
        BY <3>2, <3>3, <3>4 DEF Awaits
      <4>2. UNCHANGED <<in, eof>>
        BY <2>1
      <4> QED BY <1>0, <3>3, <3>4, <4>1, <4>2, CloseKeeps
    <3>5. Keeps
      BY <3>4 DEF Keeps
    <3> QED BY <2>1, <3>5, EventsStay
  <2> QED BY <2>1, <2>2, <2>3
<1>5. CASE EventPoll
  <2>1. /\ UNCHANGED <<files, in, eof, cur, pfile>> /\ ppc' = "next" /\ batch' = {EventsOf(f) : f \in Ready}
    BY <1>5 DEF EventPoll, muxVars, kernelVars
  <2>2. ASSUME NEW f \in Ready
        PROVE  EventsOf(f).index \in Indices /\ files[EventsOf(f).index] = f /\ f \in Files
               /\ EventsOf(f).read = Readable(f)
    <3>1. f \in Files /\ interest[f] # Nil
      BY DEF Ready
    <3>2. poolIndex[f] \in Indices /\ files[poolIndex[f]] = f /\ interest[f].index = poolIndex[f]
      BY <1>0, <3>1 DEF PoolInv
    <3> QED BY <3>1, <3>2 DEF EventsOf
  <2>3. ASSUME NEW e \in batch', e.read PROVE Awaits(e.index)'
    <3>1. PICK f \in Ready : e = EventsOf(f)
      BY <2>1
    <3>2. Awaits(e.index)
      BY <2>2, <2>3, <3>1 DEF Awaits
    <3> QED BY <1>a, <2>1, <3>2 DEF Keeps
  <2>4. ASSUME NEW e \in batch', NEW d \in batch', e.index = d.index PROVE e = d
    <3>1. PICK f, g \in Ready : e = EventsOf(f) /\ d = EventsOf(g)
      BY <2>1
    <3>2. f = g
      BY <2>2, <2>4, <3>1
    <3> QED BY <3>1, <3>2
  <2> QED BY <2>1, <2>3, <2>4 DEF ReadEvents
<1>6. CASE Do
  <2>1. UNCHANGED <<files, in, eof, panicked>> /\ ppc = "next"
    BY <1>6 DEF Do, muxVars, kernelVars
  <2>2. Keeps
    BY <1>a, <2>1
  <2>3. CASE batch = {}
    <3>1. ppc' = "wait" /\ batch' = {}
      BY <1>6, <2>3 DEF Do
    <3> QED BY <3>1 DEF ReadEvents
  <2>4. CASE batch # {}
    <3>1. PICK e \in batch :
            /\ batch' = batch \ {e}
            /\ IF files[e.index] = Nil THEN UNCHANGED <<ppc, cur, pfile>>
               ELSE /\ cur' = e /\ pfile' = files[e.index]
                    /\ ppc' = IF e.write THEN "write" ELSE IF e.read THEN "read" ELSE "next"
      BY <1>6, <2>4 DEF Do
    <3>2. \A d \in batch' : d.read => Awaits(d.index)'
      BY <2>2, <3>1 DEF ReadEvents, Keeps
    <3>3. \A c, d \in batch' : c.read /\ d.read /\ c.index = d.index => c = d
      BY <3>1 DEF ReadEvents
    <3>4. CASE files[e.index] = Nil
      BY <2>1, <3>1, <3>2, <3>3, <3>4 DEF ReadEvents
    <3>5. CASE files[e.index] # Nil
      <4>1. cur' = e /\ ppc' = IF e.write THEN "write" ELSE IF e.read THEN "read" ELSE "next"
        BY <3>1, <3>5
      <4>2. e.read => \A d \in batch' : d.read => d.index # e.index
        BY <3>1 DEF ReadEvents
      <4>3. e.read => Awaits(e.index)'
        BY <2>2, <3>1 DEF ReadEvents, Keeps
      <4>4. e.write \/ e.read \/ e.error
        BY <3>1 DEF Base, MuxInv
      <4> QED BY <3>2, <3>3, <4>1, <4>2, <4>3, <4>4 DEF ReadEvents
    <3> QED BY <3>4, <3>5
  <2> QED BY <2>3, <2>4
<1>7. CASE ErrorReady
  <2>1. UNCHANGED <<files, in, eof, batch, cur, pfile>> /\ ppc = "next" /\ ppc' = "next"
    BY <1>7 DEF ErrorReady, muxVars, kernelVars
  <2>2. Keeps
    BY <1>a, <2>1
  <2> QED BY <2>1, <2>2, EventsStay
<1>8. CASE ReadReady
  <2>1. UNCHANGED <<files, eof, batch, cur>> /\ ppc = "read" /\ pfile' = files[cur.index]
    BY <1>8 DEF ReadReady, muxVars
  <2>2. CASE ReadFails(files[cur.index])
    <3>1. panicked' = TRUE /\ UNCHANGED <<in, ppc>>
      BY <1>8, <2>2 DEF ReadReady
    <3>2. Keeps
      BY <1>a, <2>1, <3>1
    <3> QED BY <2>1, <3>1, <3>2, EventsStay
  <2>3. CASE ~ReadFails(files[cur.index])
    <3>1. cur.read /\ Awaits(cur.index)
      BY <1>0, <2>1 DEF ReadEvents
    <3>2. PICK f \in Files : f = files[cur.index]
      BY <3>1 DEF Awaits
    <3>3. /\ in' = [in EXCEPT ![f] = <<>>] /\ pfile' = f
          /\ ppc' \in {"truncate", "end"} /\ (ppc' = "end" => eof[f])
      BY <1>8, <2>3, <3>1, <3>2 DEF ReadReady, Awaits, Readable
    <3>4. \A g \in Files : g # f => in'[g] = in[g]
      BY <1>0, <3>3 DEF BytesType
    <3>5. ASSUME NEW i, Awaits(i), i # cur.index PROVE Awaits(i)'
      <4>1. files[i] # f
        BY <1>b, <3>1, <3>2, <3>5
      <4> QED BY <2>1, <3>4, <3>5, <4>1 DEF Awaits, Indices, Readable
    <3>6. \A e \in batch' : e.read => Awaits(e.index)'
      BY <2>1, <3>1, <3>5 DEF ReadEvents
    <3>7. ppc' = "end" => Awaits(cur.index)'
      BY <2>1, <3>1, <3>2, <3>3 DEF Awaits, Indices, Readable
    <3>8. files'[cur'.index] = pfile' /\ cur'.read
      BY <2>1, <3>1
    <3>9. /\ \A e, d \in batch' : e.read /\ d.read /\ e.index = d.index => e = d
          /\ \A e \in batch' : e.read => e.index # cur'.index
      BY <2>1, <3>1 DEF ReadEvents
    <3> QED BY <3>3, <3>6, <3>7, <3>8, <3>9 DEF ReadEvents
  <2> QED BY <2>2, <2>3
<1>9. CASE EndOfFile
  <2>1. UNCHANGED <<in, eof, batch, cur, pfile>> /\ ppc \in {"end", "close"} /\ pfile \in Files
    BY <1>0, <1>9 DEF EndOfFile, kernelVars
  <2>2. CASE ppc = "close"
    <3>1. pfile \in Sockets /\ Close(pfile) /\ ppc' = "next"
      BY <1>9, <2>2 DEF EndOfFile, ReadEvents
    <3>2. UNCHANGED files
      BY <3>1 DEF Close, SocketClose
    <3>3. Keeps
      BY <1>a, <2>1, <3>2
    <3> QED BY <2>1, <3>1, <3>3, EventsStay
  <2>3. CASE ppc = "end"
    <3>1. cur.read /\ Awaits(cur.index) /\ files[cur.index] = pfile
      BY <2>3 DEF ReadEvents
    <3>2. ppc' \in {"close", "next"} /\ (ppc' = "close" => pfile \in Sockets)
      BY <1>9, <2>3 DEF EndOfFile
    <3>3. PICK f \in Files : f = pfile /\ (Close(f) \/ MuxDel(f))
      BY <1>9, <2>1, <2>3 DEF EndOfFile
    <3>4. ASSUME NEW i, Awaits(i), i # cur.index PROVE Awaits(i)'
      <4>1. files[i] # f
        BY <1>b, <3>1, <3>3, <3>4
      <4>2. UNCHANGED <<in, eof>>
        BY <2>1
      <4> QED BY <1>0, <3>3, <3>4, <4>1, <4>2, CloseKeeps
    <3>5. \A e \in batch' : e.read => Awaits(e.index)'
      BY <2>1, <2>3, <3>1, <3>4 DEF ReadEvents
    <3>6. /\ \A e, d \in batch' : e.read /\ d.read /\ e.index = d.index => e = d
          /\ \A e \in batch' : e.read => e.index # cur'.index
      BY <2>1, <2>3, <3>1 DEF ReadEvents
    <3> QED BY <2>1, <3>2, <3>5, <3>6 DEF ReadEvents
  <2> QED BY <2>1, <2>2, <2>3
<1> QED
  BY <1>1, <1>2, <1>3, <1>4, <1>5, <1>6, <1>7, <1>8, <1>9 DEF Next, PollStep

-----------------------------------------------------------------------------
(* The end of a file *)

\* The poller deletes f, whose peer has closed
Leaves(f) == ppc = "end" /\ ppc' # "end" /\ f = pfile

\* Nothing fails, and nobody but a file at its end leaves the pool
CleanMoves ==
  /\ ~panicked'
  /\ \A f \in Files : interest[f] # Nil /\ ~Leaves(f) => interest'[f] # Nil
  /\ \A f \in Files : upc[f] = "add" => upc'[f] = "add" \/ interest'[f] # Nil
  /\ \A i \in Indices : files[i] # Nil /\ ~Leaves(files[i]) => files'[i] = files[i]
  /\ \A i \in Indices' : files'[i] # Nil => interest'[files'[i]] # Nil

\* What has been written but is not received yet is still awaited by the peer
LEMMA PeerAwaits ==
  ASSUME FileIOAssumption, Base, NEW f \in Files, CleanFile(f), out[f] # <<>> \/ txBuffer[f] # <<>>
  PROVE  ~eof[f] /\ Len(got[f]) < MaxWritten
<1>0. BytesType /\ InOrder /\ MaxWritten \in Nat
  BY DEF Base, TypeInv, WriteInv, FileIOAssumption
<1>1. PICK g, o, t, w : g = got[f] /\ o = out[f] /\ t = txBuffer[f] /\ w = written[f]
  OBVIOUS
<1>2. g \in Bytes /\ o \in Bytes /\ t \in Bytes /\ w \in Nat
  BY <1>0, <1>1 DEF BytesType
<1>3. (g \o o) \o t = Numbers(1, w)
  BY <1>0, <1>1 DEF InOrder
<1>4. Len(Numbers(1, w)) = w
  <2>1. 1 \in Nat
    OBVIOUS
  <2> QED BY <1>2, <2>1, NumbersFacts
<1>5. PICK s : s = g \o o
  OBVIOUS
<1>6. s \in Bytes /\ Len(s) = Len(g) + Len(o)
  BY <1>2, <1>5, ConcatBytes
<1>7. Len(s \o t) = Len(s) + Len(t)
  BY <1>2, <1>6, ConcatBytes
<1>8. Len(g) + Len(o) + Len(t) = w
  <2>1. Len(s \o t) = w
    BY <1>3, <1>4, <1>5, Zenon
  <2> QED BY <1>6, <1>7, <2>1
<1>9. Len(g) \in Nat /\ Len(o) \in Nat /\ Len(t) \in Nat /\ (o # <<>> => Len(o) # 0) /\ (t # <<>> => Len(t) # 0)
  BY <1>2, EmptySeq DEF Bytes
<1>10. Len(g) < w
  <2>1. \A a, b, c, d \in Nat : a + b + c = d /\ (b # 0 \/ c # 0) => a < d
    OBVIOUS
  <2>2. Len(o) # 0 \/ Len(t) # 0
    BY <1>1, <1>9
  <2> QED BY <1>2, <1>8, <1>9, <2>1, <2>2
<1>11. w <= MaxWritten /\ (eof[f] => Len(g) = MaxWritten)
  BY <1>1 DEF CleanFile
<1> QED
  BY <1>0, <1>1, <1>2, <1>9, <1>10, <1>11

LEMMA PoolSame ==
  ASSUME Base, Clean, UNCHANGED muxVars, ~panicked', \A f \in Files : upc[f] = "add" => upc'[f] = "add"
  PROVE  CleanMoves
<1>1. UNCHANGED <<files, interest>> /\ Indices' = Indices
  BY DEF muxVars, Indices
<1> QED
  BY <1>1 DEF CleanMoves, Clean

LEMMA UpdateClean ==
  ASSUME FileIOAssumption, Base, Clean, NEW f \in Files, interest[f] # Nil, MuxUpdate(f),
         \A g \in Files : upc[g] = "add" => upc'[g] = "add"
  PROVE  CleanMoves
<1>0. MuxType /\ PoolInv /\ FileType /\ MuxInv
  BY DEF Base, TypeInv, MuxInv
<1>1. /\ UNCHANGED <<files, panicked>>
      /\ interest' = [interest EXCEPT ![f] = [interest[f] EXCEPT !.write = WriteAvailable(f)]]
  BY <1>0, UpdateFacts, Available DEF MuxInv
<1>2. \A g \in Files : interest[g] # Nil => interest'[g] # Nil
  <2>1. interest[f] \in Entry
    BY <1>0 DEF MuxType
  <2>2. [interest[f] EXCEPT !.write = WriteAvailable(f)] \in Entry
    BY <1>0, <2>1, Available DEF Entry
  <2>3. Nil \notin Entry
    BY DEF FileIOAssumption, Entry
  <2> QED BY <1>0, <1>1, <2>2, <2>3 DEF MuxType
<1>3. \A i \in Indices : files[i] # Nil => files[i] \in Files
  BY <1>0 DEF MuxType, Indices
<1>4. Indices' = Indices
  BY <1>1 DEF Indices
<1> QED
  BY <1>1, <1>2, <1>3, <1>4 DEF CleanMoves, Clean

LEMMA DeregisterClean ==
  ASSUME FileIOAssumption, Base, Clean, NEW f \in Files, Leaves(f), Deregisters(f), UNCHANGED <<upc, panicked>>
  PROVE  CleanMoves
<1>0. MuxType /\ PoolInv
  BY DEF Base, TypeInv, MuxInv
<1>1. \A g \in Files : g # f => interest'[g] = interest[g]
  BY <1>0 DEF Deregisters, MuxType
<1>2. Indices' = Indices
  BY DEF Deregisters, Indices
<1>3. \A i \in Indices : files[i] # Nil => files[i] \in Files
  BY <1>0 DEF MuxType, Indices
<1>4. \A i \in Indices : files[i] = f \/ files'[i] = files[i]
  BY DEF Deregisters
<1>5. \A i \in Indices : files[i] = f => files'[i] = Nil
  BY <1>0 DEF Deregisters, PoolInv, FileIOAssumption
<1>6. \A g \in Files : interest[g] # Nil /\ ~Leaves(g) => interest'[g] # Nil
  BY <1>1
<1>7. \A i \in Indices : files[i] # Nil /\ ~Leaves(files[i]) => files'[i] = files[i]
  BY <1>4
<1>8. \A i \in Indices' : files'[i] # Nil => interest'[files'[i]] # Nil
  <2> SUFFICES ASSUME NEW i \in Indices, files'[i] # Nil PROVE interest'[files'[i]] # Nil
    BY <1>2
  <2>1. files[i] # f /\ files'[i] = files[i]
    BY <1>4, <1>5
  <2>2. files[i] \in Files /\ interest[files[i]] # Nil
    BY <1>3, <2>1 DEF Clean
  <2> QED BY <1>1, <2>1, <2>2
<1> QED
  BY <1>6, <1>7, <1>8 DEF CleanMoves, Clean

LEMMA NextCleanMoves ==
  ASSUME FileIOAssumption, Base, ~lines, ~PeerEndsEarly, NoneFailed, NoneFailed', Clean, Next
  PROVE  CleanMoves
<1>0. /\ MuxType /\ PoolInv /\ FileType /\ MuxInv /\ BytesType /\ PcType /\ QuitInv /\ PollInv /\ Nil \notin Files
      /\ ~panicked /\ (ppc \notin {"wait", "next"} => pfile \in Files)
  BY DEF Base, TypeInv, MuxInv, PollInv, Next, WriteInv, FileIOAssumption
<1>1. ASSUME NEW f \in Files, Add(f) PROVE CleanMoves
  <2>1. MuxAdd(f) /\ upc[f] = "add" /\ UNCHANGED <<panicked, ppc>> /\ upc' = [upc EXCEPT ![f] = "idle"]
    BY <1>1 DEF Add, GoUser, pollVars
  <2>2. \A j \in Indices : files[j] # f
    BY <2>1 DEF Base, MuxInv
  <2>3. PICK k : Registers(f, k)
    BY <1>0, <2>1, <2>2, AddFacts, Available
  <2>4. interest' = [interest EXCEPT ![f] = [write |-> WriteAvailable(f), index |-> k]]
    BY <2>3 DEF Registers
  <2>5. interest'[f] # Nil /\ \A g \in Files : g # f => interest'[g] = interest[g]
    <3>1. k \in Nat /\ WriteAvailable(f) \in BOOLEAN
      BY <1>0, <2>3, Available DEF Registers
    <3>2. [write |-> WriteAvailable(f), index |-> k] # Nil
      BY <3>1 DEF FileIOAssumption
    <3> QED BY <1>0, <2>4, <3>2 DEF MuxType
  <2>6. \A i \in Indices : files[i] # Nil => files'[i] = files[i] /\ files[i] \in Files
    <3> SUFFICES ASSUME NEW i \in Indices, files[i] # Nil PROVE files'[i] = files[i] /\ files[i] \in Files
      OBVIOUS
    <3>1. /\ k \in Nat \ {0} /\ Len(files') \in Nat /\ k <= Len(files') /\ Len(files) <= Len(files') /\ Len(files) \in Nat
          /\ k <= Len(files) => files[k] = Nil
          /\ \A j \in 1..Len(files') \ {k} : files'[j] = files[j]
      BY <1>0, <2>3 DEF Registers, MuxType
    <3>2. i # k /\ i \in 1..Len(files')
      BY <3>1 DEF Indices
    <3>3. files[i] \in Files
      BY <1>0 DEF MuxType, Indices
    <3> QED BY <3>1, <3>2, <3>3
  <2>7. \A i \in Indices' : i = k \/ (i \in Indices /\ files'[i] = files[i])
    BY <2>3 DEF Registers, Indices
  <2>8. files'[k] = f
    BY <2>3 DEF Registers
  <2>9. \A i \in Indices' : files'[i] # Nil => interest'[files'[i]] # Nil
    BY <2>5, <2>6, <2>7, <2>8 DEF Clean
  <2>10. \A g \in Files : upc[g] = "add" => upc'[g] = "add" \/ interest'[g] # Nil
    BY <1>0, <2>1, <2>5 DEF PcType
  <2>11. \A g \in Files : interest[g] # Nil => interest'[g] # Nil
    BY <2>5
  <2> QED BY <1>0, <2>1, <2>6, <2>9, <2>10, <2>11 DEF CleanMoves
<1>2. ASSUME NEW f \in Files, WriteUpdate(f) PROVE CleanMoves
  <2>1. /\ MuxUpdate(f) /\ upc[f] \in {"update", "replied"}
        /\ upc' = [upc EXCEPT ![f] = IF upc[f] = "update" THEN "idle" ELSE "advance"]
    BY <1>2 DEF WriteUpdate, GoUser
  <2>2. upc[f] = "update"
    BY <1>0, <2>1 DEF QuitInv
  <2>3. CleanFile(f) /\ txBuffer[f] # <<>>
    BY <2>2 DEF Clean, CleanFile
  <2>4. ~eof[f]
    BY <2>3, PeerAwaits
  <2>5. interest[f] # Nil
    BY <2>2, <2>3, <2>4 DEF CleanFile
  <2>6. \A g \in Files : upc[g] = "add" => upc'[g] = "add"
    BY <1>0, <2>1 DEF PcType
  <2> QED BY <2>1, <2>5, <2>6, UpdateClean
<1>3. CASE UpdateReady
  <2>1. ppc = "update" /\ MuxUpdate(pfile) /\ UNCHANGED upc
    BY <1>3 DEF UpdateReady, userVars
  <2>2. PICK f \in Files : f = pfile
    BY <1>0, <2>1
  <2>3. interest[f] # Nil /\ MuxUpdate(f)
    BY <1>0, <2>1, <2>2 DEF Clean, HandClean
  <2> QED BY <2>1, <2>3, UpdateClean
<1>4. CASE Flush
  <2>1. ppc = "flush" /\ UNCHANGED upc /\ pfile \in Files
    BY <1>0, <1>4 DEF Flush, userVars
  <2>2. ~closeAfterTxFlush[pfile]
    BY <1>0, <2>1 DEF QuitInv
  <2>3. UNCHANGED muxVars /\ UNCHANGED panicked
    BY <1>4, <2>2 DEF Flush
  <2> QED BY <1>0, <2>1, <2>3, PoolSame
<1>5. CASE WriteReady
  <2>1. ppc = "write" /\ UNCHANGED muxVars /\ UNCHANGED upc /\ Flushes(pfile)
    BY <1>5, WriteReadyFacts DEF userVars
  <2>2. Writable(pfile)
    BY <2>1 DEF Clean, HandClean
  <2>3. ~panicked'
    BY <1>0, <2>1, <2>2 DEF Flushes, NoneFailed
  <2> QED BY <2>1, <2>3, PoolSame
<1>6. CASE ReadReady
  <2>1. ppc = "read" /\ UNCHANGED muxVars /\ UNCHANGED upc
    BY <1>6 DEF ReadReady, userVars
  <2>2. files[cur.index] = pfile /\ pfile \in Files /\ interest[pfile] # Nil
    BY <1>0, <2>1 DEF Clean, HandClean
  <2>3. ~closedFlag[pfile]
    BY <1>0, <2>2 DEF MuxInv
  <2>4. ~panicked'
    BY <1>0, <1>6, <2>2, <2>3 DEF ReadReady, ReadFails, NoneFailed
  <2> QED BY <2>1, <2>4, PoolSame
<1>7. CASE EndOfFile
  <2>1. /\ UNCHANGED upc /\ pfile \in Files /\ ppc \in {"end", "close"} /\ ppc' \in {"close", "next"}
        /\ Close(pfile) \/ (ppc = "end" /\ MuxDel(pfile))
        /\ ppc = "close" => Close(pfile)
        /\ ppc = "end" /\ pfile \in Sockets => MuxDel(pfile)
    BY <1>0, <1>7 DEF EndOfFile, userVars
  <2>2. PICK f \in Files : f = pfile
    BY <2>1
  <2>3. CASE ppc = "end"
    <3>1. interest[f] # Nil /\ Leaves(f)
      BY <1>0, <2>1, <2>2, <2>3 DEF Clean, HandClean, Leaves
    <3>2. Deregisters(f) /\ UNCHANGED panicked
      <4>1. CASE MuxDel(f)
        BY <1>0, <3>1, <4>1, DelFacts
      <4>2. CASE Close(f) /\ f \notin Sockets
        <5>1. Closes(f)
          BY <1>0, <4>2, CloseFacts
        <5> QED BY <3>1, <4>2, <5>1 DEF Closes
      <4> QED BY <2>1, <2>2, <2>3, <4>1, <4>2
    <3> QED BY <2>1, <3>1, <3>2, DeregisterClean
  <2>4. CASE ppc = "close"
    <3>1. pfile \in Sockets /\ interest[pfile] = Nil
      BY <2>4 DEF Clean, HandClean
    <3>2. SocketClose(pfile)
      BY <2>1, <2>4, <3>1 DEF Close
    <3>3. interest' = [interest EXCEPT ![pfile] = Nil] /\ UNCHANGED <<files, freeIndices, poolIndex, panicked>>
      BY <3>2 DEF SocketClose
    <3>4. [interest EXCEPT ![pfile] = Nil] = interest
      BY <1>0, <3>1 DEF MuxType
    <3> QED BY <1>0, <2>1, <3>3, <3>4, PoolSame DEF muxVars
  <2> QED BY <2>1, <2>3, <2>4
<1>8. ASSUME NEW f \in Files, Quit(f) \/ Receive(f) PROVE CleanMoves
  BY <1>0, <1>8 DEF Quit, Receive, QuitInv
<1>9. ASSUME NEW f \in Files, Write(f) \/ NoLine(f) \/ Reply(f) \/ Advance(f) PROVE CleanMoves
  <2>1. UNCHANGED muxVars /\ UNCHANGED panicked /\ upc[f] # "add" /\ \A g \in Files : g # f => upc'[g] = upc[g]
    BY <1>0, <1>9 DEF Write, Append_, NoLine, Reply, Advance, GoUser, PcType
  <2> QED BY <1>0, <2>1, PoolSame
<1>10. ASSUME NEW f \in Files, PeerStep(f) PROVE CleanMoves
  <2>1. UNCHANGED muxVars /\ UNCHANGED panicked /\ UNCHANGED upc
    BY <1>10 DEF PeerStep, PeerReceive, PeerSend, PeerClose, PeerFails, userVars
  <2> QED BY <1>0, <2>1, PoolSame
<1>11. CASE EventPoll \/ Do \/ Truncate \/ Consume
  <2>1. UNCHANGED muxVars /\ UNCHANGED panicked /\ UNCHANGED upc
    BY <1>11 DEF EventPoll, Do, Truncate, Consume, userVars
  <2> QED BY <1>0, <2>1, PoolSame
<1>12. CASE ErrorReady
  BY <1>12 DEF ErrorReady, Clean, HandClean
<1> QED
  BY <1>1, <1>2, <1>3, <1>4, <1>5, <1>6, <1>7, <1>8, <1>9, <1>10, <1>11, <1>12
     DEF Next, PollStep, UserStep, UserGoesOn

\* What the step does to the kernel's buffers and the user's
CleanData ==
  /\ \A f \in Files : eof[f] => eof'[f]
  /\ \A f \in Files : Writable(f) => Writable(f)' \/ (ppc = "write" /\ ppc' # "write" /\ f = pfile)
  /\ \A f \in Files : eof'[f] => Len(got'[f]) = MaxWritten
  /\ \A f \in Files : written'[f] <= MaxWritten
  /\ \A f \in Files : upc'[f] = "update" => txBufLock'[f] = f /\ txBuffer'[f] # <<>>

LEMMA NextCleanData ==
  ASSUME FileIOAssumption, Base, ~lines, ~PeerEndsEarly, NoneFailed, NoneFailed', Clean, Next
  PROVE  CleanData
<1>0. /\ FileType /\ MuxInv /\ BytesType /\ PcType /\ QuitInv /\ PollInv /\ Nil \notin Files
      /\ (ppc \notin {"wait", "next"} => pfile \in Files) /\ SockCap \in Nat /\ MaxWritten \in Nat
  BY DEF Base, TypeInv, PollInv, Next, WriteInv, FileIOAssumption
<1>a. \A f \in Files : CleanFile(f)
  BY DEF Clean
<1>b. \A f \in Files : upc[f] = "update" => txBufLock[f] = f /\ f # Nil /\ txBuffer[f] # <<>>
  BY <1>0, <1>a DEF CleanFile
\* A step that leaves the buffers alone
<1>c. ASSUME UNCHANGED <<eof, out, got, written, txBuffer>>,
             \A f \in Files : upc'[f] = "update" => upc[f] = "update" /\ txBufLock'[f] = txBufLock[f]
      PROVE  CleanData
  BY <1>a, <1>c DEF CleanData, CleanFile, Writable
<1>1. ASSUME NEW f \in Files, Write(f) PROVE CleanData
  <2>1. Append_(f, "update") /\ upc[f] = "idle" /\ written[f] < MaxWritten
    BY <1>1 DEF Write
  <2>2. UNCHANGED <<eof, out, got>>
    BY <2>1 DEF Append_, kernelVars, peerVars
  <2>3. CASE f \in Sockets /\ closedFlag[f]
    <3>1. UNCHANGED <<written, txBuffer, txBufLock>> /\ upc' = [upc EXCEPT ![f] = "idle"]
      BY <2>1, <2>3 DEF Append_, GoUser
    <3>2. \A g \in Files : upc'[g] = "update" => upc[g] = "update"
      BY <1>0, <3>1 DEF PcType
    <3> QED BY <1>c, <2>2, <3>1, <3>2
  <2>4. CASE ~(f \in Sockets /\ closedFlag[f])
    <3>1. /\ written' = [written EXCEPT ![f] = @ + 1] /\ txBufLock' = [txBufLock EXCEPT ![f] = f]
          /\ txBuffer' = [txBuffer EXCEPT ![f] = Append(@, written[f] + 1)]
          /\ upc' = [upc EXCEPT ![f] = "update"]
      BY <2>1, <2>4 DEF Append_, GoUser
    <3>2. \A g \in Files : written'[g] <= MaxWritten
      <4>1. written[f] \in Nat /\ written[f] + 1 <= MaxWritten
        BY <1>0, <2>1 DEF BytesType
      <4> QED BY <1>0, <1>a, <3>1, <4>1 DEF BytesType, CleanFile
    <3>3. ASSUME NEW g \in Files, upc'[g] = "update" PROVE txBufLock'[g] = g /\ txBuffer'[g] # <<>>
      <4>1. CASE g = f
        <5>1. PICK t \in Seq(Nat), x \in Nat : t = txBuffer[f] /\ x = written[f] + 1
          <6>1. txBuffer[f] \in Seq(Nat) /\ written[f] + 1 \in Nat
            BY <1>0 DEF BytesType, Bytes
          <6> QED BY <6>1, Zenon
        <5>2. Append(t, x) # <<>>
          BY <5>1, AppendNotEmpty, Zenon
        <5>3. txBuffer'[f] = Append(t, x) /\ txBufLock'[f] = f
          BY <1>0, <3>1, <5>1 DEF BytesType, FileType
        <5> QED BY <4>1, <5>2, <5>3
      <4>2. CASE g # f
        BY <1>0, <1>b, <3>1, <3>3, <4>2 DEF BytesType, FileType, PcType
      <4> QED BY <4>1, <4>2
    <3> QED BY <1>a, <2>2, <3>2, <3>3 DEF CleanData, CleanFile, Writable
  <2> QED BY <2>3, <2>4
<1>2. ASSUME NEW f \in Files, WriteUpdate(f) PROVE CleanData
  <2>1. /\ UNCHANGED <<eof, out, got, written, txBuffer>> /\ txBufLock' = [txBufLock EXCEPT ![f] = Nil]
        /\ \E pc \in {"idle", "advance"} : upc' = [upc EXCEPT ![f] = pc]
    BY <1>2 DEF WriteUpdate, GoUser, kernelVars, peerVars
  <2>2. \A g \in Files : upc'[g] = "update" => upc[g] = "update" /\ txBufLock'[g] = txBufLock[g]
    BY <1>0, <2>1 DEF PcType, FileType
  <2> QED BY <1>c, <2>1, <2>2
<1>3. ASSUME NEW f \in Files, Receive(f) \/ Reply(f) \/ Advance(f) \/ Quit(f) PROVE CleanData
  BY <1>0, <1>3 DEF Receive, Reply, Advance, Quit, QuitInv
<1>4. ASSUME NEW f \in Files, Add(f) \/ NoLine(f) PROVE CleanData
  <2>1. /\ UNCHANGED <<eof, out, got, written, txBuffer, txBufLock>> /\ upc' = [upc EXCEPT ![f] = "idle"]
    BY <1>4 DEF Add, NoLine, GoUser, fileVars, kernelVars, peerVars
  <2>2. \A g \in Files : upc'[g] = "update" => upc[g] = "update"
    BY <1>0, <2>1 DEF PcType
  <2> QED BY <1>c, <2>1, <2>2
<1>5. CASE EventPoll \/ Do \/ ErrorReady \/ UpdateReady \/ Flush \/ ReadReady \/ Truncate \/ EndOfFile \/ Consume
  <2>1. UNCHANGED <<eof, out, got, written, txBuffer, txBufLock, upc>>
    BY <1>5 DEF EventPoll, Do, ErrorReady, UpdateReady, Flush, ReadReady, Truncate, EndOfFile, Consume,
                fileVars, kernelVars,
                peerVars, userVars
  <2> QED BY <1>c, <2>1
<1>6. CASE WriteReady
  <2>1. /\ UNCHANGED <<eof, got, written, upc>> /\ ppc = "write" /\ pfile \in Files /\ txBufLock[pfile] = Nil
        /\ Flushes(pfile) /\ ppc' # "write"
    BY <1>0, <1>6, WriteReadyFacts DEF peerVars, userVars, Flushes, NoneFailed
  <2>2. upc[pfile] # "update"
    BY <1>b, <2>1
  <2>3. \A g \in Files : g # pfile => out'[g] = out[g] /\ txBuffer'[g] = txBuffer[g] /\ txBufLock'[g] = txBufLock[g]
    BY <1>0, <2>1 DEF Flushes, BytesType, FileType
  <2>4. \A g \in Files : Writable(g) => Writable(g)' \/ g = pfile
    BY <2>3 DEF Writable
  <2>5. \A g \in Files : upc'[g] = "update" => txBufLock'[g] = g /\ txBuffer'[g] # <<>>
    BY <1>b, <2>1, <2>2, <2>3
  <2> QED BY <1>a, <2>1, <2>4, <2>5 DEF CleanData, CleanFile
<1>7. ASSUME NEW f \in Files, PeerReceive(f) PROVE CleanData
  <2>1. /\ out[f] # <<>> /\ got' = [got EXCEPT ![f] = Append(@, Head(out[f]))] /\ out' = [out EXCEPT ![f] = Tail(@)]
        /\ UNCHANGED <<eof, written, txBuffer, txBufLock, upc>>
    BY <1>7 DEF PeerReceive, fileVars, userVars
  <2>2. ~eof[f]
    BY <1>a, <2>1, PeerAwaits
  <2>3. PICK o \in Bytes : o = out[f]
    BY <1>0 DEF BytesType
  <2>4. Len(Tail(o)) = Len(o) - 1 /\ Len(o) \in Nat
    <3>1. o # <<>> /\ <<>> \in Bytes
      BY <2>1, <2>3, ConcatBytes
    <3> QED BY <3>1, HeadMoves, ConcatBytes
  <2>5. out'[f] = Tail(o) /\ \A g \in Files : g # f => out'[g] = out[g] /\ got'[g] = got[g]
    BY <1>0, <2>1, <2>3 DEF BytesType
  <2>6. Writable(f) => Writable(f)'
    BY <1>0, <2>3, <2>4, <2>5 DEF Writable
  <2>7. ASSUME NEW g \in Files PROVE /\ Writable(g) => Writable(g)'
                                     /\ eof'[g] => Len(got'[g]) = MaxWritten
    <3>1. CASE g = f
      BY <2>1, <2>2, <2>6, <3>1
    <3>2. CASE g # f
      BY <1>a, <2>1, <2>5, <3>2 DEF Writable, CleanFile
    <3> QED BY <3>1, <3>2
  <2>8. \A g \in Files : written'[g] <= MaxWritten /\ (upc'[g] = "update" => txBufLock'[g] = g /\ txBuffer'[g] # <<>>)
    BY <1>a, <1>b, <2>1 DEF CleanFile
  <2> QED BY <2>1, <2>7, <2>8 DEF CleanData
<1>8. ASSUME NEW f \in Files, PeerSend(f) PROVE CleanData
  <2>1. UNCHANGED <<eof, out, got, written, txBuffer, txBufLock, upc>>
    BY <1>8 DEF PeerSend, fileVars, userVars
  <2> QED BY <1>c, <2>1
<1>9. ASSUME NEW f \in Files, PeerClose(f) PROVE CleanData
  <2>1. /\ Len(got[f]) = MaxWritten /\ eof' = [eof EXCEPT ![f] = TRUE]
        /\ UNCHANGED <<out, got, written, txBuffer, txBufLock, upc>>
    BY <1>9 DEF PeerClose, fileVars, peerVars, userVars
  <2>2. \A g \in Files : (eof[g] => eof'[g]) /\ (eof'[g] => Len(got'[g]) = MaxWritten)
    BY <1>0, <1>a, <2>1 DEF FileType, CleanFile
  <2>3. \A g \in Files : Writable(g) => Writable(g)'
    BY <2>1 DEF Writable
  <2>4. \A g \in Files : written'[g] <= MaxWritten /\ (upc'[g] = "update" => txBufLock'[g] = g /\ txBuffer'[g] # <<>>)
    BY <1>a, <1>b, <2>1 DEF CleanFile
  <2> QED BY <2>2, <2>3, <2>4 DEF CleanData
<1>10. ASSUME NEW f \in Files, PeerFails(f) PROVE CleanData
  <2>1. UNCHANGED <<eof, out, got, written, txBuffer, txBufLock, upc>>
    BY <1>10 DEF PeerFails, fileVars, peerVars, userVars
  <2> QED BY <1>c, <2>1
<1> QED
  BY <1>1, <1>2, <1>3, <1>4, <1>5, <1>6, <1>7, <1>8, <1>9, <1>10 DEF Next, PollStep, UserStep,
                        UserGoesOn, PeerStep

LEMMA NextClean ==
  ASSUME FileIOAssumption, Base, ~lines, ~PeerEndsEarly, NoneFailed, NoneFailed', Clean, Next
  PROVE  Clean'
<1>0. /\ FileType /\ MuxType /\ MuxInv /\ PoolInv /\ BytesType /\ PcType /\ QuitInv /\ PollInv /\ Nil \notin Files
      /\ ~panicked /\ (ppc \notin {"wait", "next"} => pfile \in Files)
      /\ CleanMoves /\ CleanData /\ Moves
  BY NextCleanMoves, NextCleanData, NextMoves DEF Base, TypeInv, MuxInv, PollInv, Next, WriteInv,
                        FileIOAssumption
<1>a. \A f \in Files : CleanFile(f)
  BY DEF Clean
<1>b. ASSUME NEW i \in Indices, NEW j \in Indices, files[i] # Nil, files[i] = files[j] PROVE i = j
  BY <1>0, <1>b DEF PoolInv
<1>c. \A i \in Indices : files[i] # Nil => files[i] \in Files
  BY <1>0 DEF MuxType, Indices
<1>d. Indices \subseteq Indices'
  BY <1>0 DEF Moves
<1>1. ASSUME NEW f \in Files PROVE CleanFile(f)'
  <2>1. CASE upc'[f] # "add" /\ ~eof'[f]
    <3>1. ~eof[f] /\ ~Leaves(f)
      BY <1>0, <2>1 DEF CleanData, Clean, HandClean, Leaves
    <3>2. upc[f] # "add" => interest[f] # Nil
      BY <1>a, <3>1 DEF CleanFile
    <3>3. interest'[f] # Nil
      BY <1>0, <2>1, <3>1, <3>2 DEF CleanMoves
    <3> QED BY <1>0, <3>3 DEF CleanFile, CleanData
  <2>2. CASE ~(upc'[f] # "add" /\ ~eof'[f])
    BY <1>0, <2>2 DEF CleanFile, CleanData
  <2> QED BY <2>1, <2>2
\* An event that is still to be handled
<1>2. ASSUME NEW e \in batch
      PROVE  /\ e.index \in Indices /\ files[e.index] \in Files
             /\ files'[e.index] = files[e.index] /\ files'[e.index] # Nil
  <2>1. e.index \in Indices /\ files[e.index] # Nil
    BY <1>0 DEF MuxInv, Clean, BatchClean
  <2>2. ~Leaves(files[e.index])
    <3> SUFFICES ASSUME Leaves(files[e.index]) PROVE FALSE
      OBVIOUS
    <3>1. ppc = "end" /\ files[e.index] = files[cur.index] /\ cur.index \in Indices /\ e.index # cur.index
      BY DEF Leaves, Clean, HandClean, BatchClean
    <3> QED BY <1>b, <2>1, <3>1
  <2> QED BY <1>0, <1>c, <2>1, <2>2 DEF CleanMoves
<1>3. BatchClean'
  <2>1. CASE EventPoll
    <3>1. UNCHANGED <<files, interest, out>> /\ ppc' = "next" /\ batch' = {EventsOf(f) : f \in Ready}
      BY <2>1 DEF EventPoll, muxVars, kernelVars
    <3>2. ASSUME NEW f \in Ready
          PROVE  /\ files[EventsOf(f).index] = f /\ f \in Files
                 /\ (EventsOf(f).write => Writable(f)) /\ ~EventsOf(f).error
      <4>1. f \in Files /\ interest[f] # Nil
        BY DEF Ready
      <4>2. poolIndex[f] \in Indices /\ files[poolIndex[f]] = f /\ interest[f].index = poolIndex[f]
        BY <1>0, <4>1 DEF PoolInv
      <4> QED BY <4>1, <4>2 DEF EventsOf, NoneFailed
    <3>3. ASSUME NEW e \in batch'
          PROVE  files'[e.index] # Nil /\ (e.write => Writable(files[e.index])') /\ ~e.error
      <4>1. PICK f \in Ready : e = EventsOf(f)
        BY <3>1
      <4>2. files'[e.index] = f /\ f \in Files /\ (e.write => Writable(f)') /\ ~e.error
        BY <3>1, <3>2, <4>1 DEF Writable
      <4> QED BY <1>0, <4>2 DEF Writable
    <3>4. ASSUME NEW e \in batch', NEW d \in batch', e.index = d.index PROVE e = d
      <4>1. PICK f, g \in Ready : e = EventsOf(f) /\ d = EventsOf(g)
        BY <3>1
      <4>2. f = g
        BY <3>2, <3>4, <4>1
      <4> QED BY <4>1, <4>2
    <3> QED BY <3>1, <3>3, <3>4 DEF BatchClean
  <2>2. CASE ~EventPoll
    <3>1. batch' \subseteq batch /\ (Do \/ UNCHANGED <<batch, cur>>)
      BY <2>2 DEF Next, PollStep, UserStep, UserGoesOn, PeerStep, Add, Write, Append_, WriteUpdate,
                  Receive, NoLine, Reply, Advance, Quit, Do, ErrorReady, WriteReady, UpdateReady, Flush,
                  ReadReady, Truncate, EndOfFile, Consume, PeerReceive, PeerSend, PeerClose, PeerFails,
                  pollVars
    <3>2. ASSUME NEW e \in batch', e.write PROVE Writable(files[e.index])'
      <4>1. PICK f \in Files : f = files[e.index] /\ files'[e.index] = f
        BY <1>2, <3>1
      <4>2. Writable(f)
        BY <3>1, <3>2, <4>1 DEF Clean, BatchClean
      <4>3. ~(ppc = "write" /\ f = pfile)
        <5> SUFFICES ASSUME ppc = "write", f = pfile PROVE FALSE
          OBVIOUS
        <5>1. files[e.index] = files[cur.index] /\ cur.index \in Indices /\ e.index # cur.index /\ e.index \in Indices
              /\ files[e.index] # Nil
          BY <1>0, <1>2, <3>1, <4>1 DEF Clean, HandClean, BatchClean
        <5> QED BY <1>b, <5>1
      <4>4. Writable(f)'
        BY <1>0, <4>2, <4>3 DEF CleanData
      <4> QED BY <4>1, <4>4 DEF Writable
    <3>3. \A e, d \in batch' : e.index = d.index => e = d
      BY <3>1 DEF Clean, BatchClean
    <3>4. ppc' \notin {"wait", "next"} => \A e \in batch' : e.index # cur'.index
      <4>1. CASE Do
        BY <4>1 DEF Do, Clean, BatchClean
      <4>2. CASE ~Do
        <5>1. ppc' \notin {"wait", "next"} => ppc \notin {"wait", "next"}
          <6>3. CASE ErrorReady
            BY <6>3 DEF ErrorReady, Clean, HandClean
          <6>1. ASSUME NEW f \in Files, UserStep(f) \/ PeerStep(f) PROVE ppc' = ppc
            BY <6>1 DEF UserStep, UserGoesOn, PeerStep, Add, Write, Append_, WriteUpdate, Receive,
                        NoLine, Reply, Advance, Quit, PeerReceive, PeerSend, PeerClose, PeerFails,
                        pollVars
          <6>2. ASSUME WriteReady \/ UpdateReady \/ Flush \/ ReadReady \/ Truncate \/ EndOfFile \/ Consume
                PROVE  ppc \notin {"wait", "next"}
            BY <6>2 DEF WriteReady, UpdateReady, Flush, ReadReady, Truncate, EndOfFile, Consume
          <6> QED BY <2>2, <4>2, <6>1, <6>2, <6>3 DEF Next, PollStep
        <5> QED BY <3>1, <4>2, <5>1 DEF Clean, BatchClean
      <4> QED BY <4>1, <4>2
    <3>5. \A e \in batch' : files'[e.index] # Nil /\ ~e.error
      BY <1>2, <3>1 DEF Clean, BatchClean
    <3> QED BY <3>2, <3>3, <3>4, <3>5 DEF BatchClean
  <2> QED BY <2>1, <2>2
\* The poller goes on with the file it has in hand, or somebody else makes a step
<1>e. ASSUME UNCHANGED <<cur, pfile>>, ppc' = ppc \/ ppc' \notin {"write", "end", "close"},
             ppc' \in {"update", "flush", "read"} => ppc \in {"write", "update", "flush", "read"}
      PROVE  HandClean'
  <2>1. ppc' \in {"write", "update", "flush", "read", "end"} => cur.index \in Indices' /\ files'[cur.index] = pfile
    <3> SUFFICES ASSUME ppc' \in {"write", "update", "flush", "read", "end"}
                 PROVE  cur.index \in Indices' /\ files'[cur.index] = pfile
      OBVIOUS
    <3>1. ppc \in {"write", "update", "flush", "read", "end"} /\ ~Leaves(pfile)
      BY <1>e DEF Leaves
    <3>2. cur.index \in Indices /\ files[cur.index] = pfile /\ pfile \in Files
      BY <1>0, <3>1 DEF Clean, HandClean
    <3> QED BY <1>0, <1>d, <3>1, <3>2 DEF CleanMoves
  <2>2. ppc' = "write" => Writable(pfile)'
    <3> SUFFICES ASSUME ppc' = "write" PROVE Writable(pfile)'
      OBVIOUS
    <3>1. PICK f \in Files : f = pfile /\ pfile' = f
      BY <1>0, <1>e
    <3>2. Writable(f)
      BY <1>e, <3>1 DEF Clean, HandClean
    <3>3. Writable(f)'
      BY <1>0, <1>e, <3>2 DEF CleanData
    <3> QED BY <3>1, <3>3 DEF Writable
  <2>3. ppc' \in {"end", "close"} => eof'[pfile]
    BY <1>0, <1>e DEF Clean, HandClean, CleanData
  <2>4. ppc' = "close" => pfile \in Sockets /\ interest'[pfile] = Nil
    <3> SUFFICES ASSUME ppc' = "close" PROVE pfile \in Sockets /\ interest'[pfile] = Nil
      OBVIOUS
    <3>1. ppc = "close" /\ pfile \in Sockets /\ interest[pfile] = Nil /\ pfile \in Files
      BY <1>0, <1>e DEF Clean, HandClean
    <3>2. upc[pfile] # "add"
      BY <1>0, <3>1 DEF MuxInv
    <3> QED BY <1>0, <3>1, <3>2 DEF Moves
  <2> QED BY <1>e, <2>1, <2>2, <2>3, <2>4 DEF HandClean, Clean
<1>f. ~cur'.error
  <2>1. cur' \in batch \cup {cur, NoEvent}
    BY NextHands DEF Hands, Base
  <2> QED BY <2>1 DEF Clean, BatchClean, HandClean, NoEvent
<1>4. HandClean'
  <2>1. ASSUME NEW f \in Files, UserStep(f) \/ PeerStep(f) PROVE HandClean'
    <3>1. UNCHANGED <<cur, pfile>> /\ (UNCHANGED ppc \/ ppc' = "next")
      BY <2>1 DEF UserStep, UserGoesOn, PeerStep, Add, Write, Append_, WriteUpdate, Receive, NoLine,
                  Reply, Advance, Quit, PeerReceive, PeerSend, PeerClose, PeerFails, pollVars
    <3> QED BY <1>e, <3>1
  <2>2. CASE WriteReady \/ UpdateReady \/ Flush \/ Truncate \/ Consume \/ EventPoll
    <3>1. /\ UNCHANGED <<cur, pfile>> /\ ppc' \notin {"write", "end", "close"}
          /\ ppc' \in {"update", "flush", "read"} => ppc \in {"write", "update", "flush", "read"}
      <4>1. CASE WriteReady
        <5>1. ppc = "write" /\ Flushes(pfile) /\ UNCHANGED <<cur, pfile>>
          BY <4>1, WriteReadyFacts
        <5>2. ~failed[pfile]
          BY <1>0, <5>1 DEF NoneFailed
        <5> QED BY <5>1, <5>2 DEF Flushes
      <4>2. CASE ~WriteReady
        BY <2>2, <4>2 DEF UpdateReady, Flush, Truncate, Consume, EventPoll
      <4> QED BY <4>1, <4>2
    <3> QED BY <1>e, <3>1
  <2>3. CASE Do
    <3>1. UNCHANGED <<files, interest, out, eof>> /\ ppc = "next"
      BY <2>3 DEF Do, muxVars, kernelVars
    <3>2. CASE ppc' \in {"wait", "next"}
      BY <1>f, <3>2 DEF HandClean
    <3>3. CASE ppc' \notin {"wait", "next"}
      <4>1. PICK e \in batch : /\ cur' = e /\ pfile' = files[e.index]
                             /\ ppc' = IF e.write THEN "write" ELSE IF e.read THEN "read" ELSE "next"
        BY <2>3, <3>1, <3>3 DEF Do
      <4>2. e.index \in Indices' /\ files'[e.index] = files[e.index]
        BY <1>2, <1>d
      <4>3. e.write => Writable(files[e.index])
        BY DEF Clean, BatchClean
      <4>4. Writable(pfile)' <=> Writable(files[e.index])
        BY <3>1, <4>1 DEF Writable
      <4> QED BY <1>f, <3>1, <4>1, <4>2, <4>3, <4>4 DEF HandClean
    <3> QED BY <3>2, <3>3
  <2>4. CASE ReadReady
    <3>1. ppc = "read" /\ UNCHANGED <<files, eof, cur>> /\ pfile' = files[cur.index] /\ cur.index \in Indices
      BY <2>4 DEF ReadReady, muxVars, Clean, HandClean
    <3>2. files[cur.index] # Nil
      BY <1>0, <3>1 DEF Clean, HandClean
    <3>3. ~panicked'
      BY <1>0 DEF CleanMoves
    <3>4. ppc' \in {"truncate", "end", "notify"} /\ (ppc' = "end" => eof[files[cur.index]])
      BY <2>4, <3>2, <3>3 DEF ReadReady, ReadFails
    <3> QED BY <1>d, <1>f, <3>1, <3>4 DEF HandClean
  <2>5. CASE EndOfFile
    <3>1. ppc \in {"end", "close"} /\ UNCHANGED <<eof, cur, pfile>> /\ ppc' \in {"close", "next"}
          /\ (ppc' = "close" => pfile \in Sockets /\ MuxDel(pfile))
      BY <2>5 DEF EndOfFile, kernelVars
    <3>2. ppc' = "close" => interest'[pfile] = Nil
      <4>1. MuxDel(pfile) => interest'[pfile] = Nil
        BY <1>0, <3>1 DEF MuxDel, muxVars, MuxType
      <4> QED BY <3>1, <4>1
    <3> QED BY <3>1, <3>2 DEF HandClean, Clean
  <2>6. CASE ErrorReady
    BY <2>6 DEF ErrorReady, Clean, HandClean
  <2> QED BY <2>1, <2>2, <2>3, <2>4, <2>5, <2>6 DEF Next, PollStep
<1> QED
  BY <1>0, <1>1, <1>3, <1>4 DEF Clean, CleanMoves

-----------------------------------------------------------------------------
(* Theorems *)

LEMMA LinesStay ==
  ASSUME [Next]_vars
  PROVE  UNCHANGED lines
<1>1. CASE Next
  BY <1>1 DEF Next, PollStep, UserStep, UserGoesOn, PeerStep, Add, Write, Append_, WriteUpdate, Receive,
              NoLine, Reply, Advance, Quit, EventPoll, Do, ErrorReady, WriteReady, UpdateReady, Flush,
              ReadReady, Truncate, EndOfFile, Consume, PeerReceive, PeerSend, PeerClose, PeerFails,
              userVars
<1>2. CASE UNCHANGED vars
  BY <1>2 DEF vars, userVars
<1> QED
  BY <1>1, <1>2

\* A descriptor that has failed stays so
LEMMA FailedStays ==
  ASSUME Base, [Next]_vars, NoneFailed'
  PROVE  NoneFailed
<1>1. ASSUME NEW f \in Files, PeerFails(f) PROVE failed' = [failed EXCEPT ![f] = TRUE]
  BY <1>1 DEF PeerFails
<1>2. ASSUME ~(\E f \in Files : PeerFails(f)) PROVE UNCHANGED failed
  BY <1>2, WriteReadyFacts DEF Next, PollStep, UserStep, UserGoesOn, PeerStep, Add, Write, Append_,
                        WriteUpdate, Receive, NoLine, Reply, Advance, Quit, EventPoll, Do, ErrorReady,
                        UpdateReady, Flush, ReadReady, Truncate, EndOfFile, Consume, PeerReceive,
                        PeerSend, PeerClose, kernelVars, vars
<1> QED
  BY <1>1, <1>2 DEF NoneFailed, Base, TypeInv, FileType

LEMMA InitRead ==
  ASSUME FileIOAssumption, Init
  PROVE  ReadInv
<1>1. Numbers(1, 0) = <<>> /\ <<>> \in Bytes
  BY EmptySeq DEF Numbers, Bytes
<1>2. <<>> \o <<>> = <<>>
  BY <1>1, ConcatBytes
<1>3. BytesExact
  <2>1. ReadType
    BY <1>1 DEF Init, ReadType
  <2>2. ASSUME NEW f \in Files PROVE FileExact(f)
    <3>1. consumed[f] = <<>> /\ Unread(f) = <<>> /\ in[f] = <<>> /\ sent[f] = 0
      BY DEF Init, Unread, Reading
    <3> QED BY <1>1, <1>2, <3>1, Zenon DEF FileExact, Row
  <2> QED BY <2>1, <2>2 DEF BytesExact
<1>4. ReadEvents
  BY DEF Init, ReadEvents
<1>5. OneSend
  BY DEF Init, OneSend
<1> QED
  BY <1>3, <1>4, <1>5 DEF ReadInv

LEMMA NextRead ==
  ASSUME FileIOAssumption, Base, ReadInv, [Next]_vars
  PROVE  ReadInv'
<1>1. UNCHANGED lines
  BY LinesStay
<1>2. CASE ~Calm
  BY <1>1, <1>2 DEF ReadInv, Calm
<1>3. CASE Calm /\ Next
  <2>1. BytesExact /\ ReadEvents /\ OneSend
    BY <1>3 DEF ReadInv
  <2>2. BytesExact' /\ ReadEvents'
    BY <1>3, <2>1, NextBytesExact, NextReadEvents
  <2>3. OneSend'
    <3>1. CASE lines
      <4>1. LineSends <= 1
        BY <1>3, <3>1 DEF Calm
      <4> QED BY <1>3, <2>1, <4>1, NextOneSend
    <3>2. CASE ~lines
      BY <1>1, <3>2 DEF OneSend
    <3> QED BY <3>1, <3>2
  <2> QED BY <2>2, <2>3 DEF ReadInv
<1>4. CASE Calm /\ UNCHANGED vars
  <2>1. BytesExact /\ ReadEvents /\ OneSend
    BY <1>4 DEF ReadInv
  <2>2. UNCHANGED muxVars /\ UNCHANGED fileVars /\ UNCHANGED kernelVars /\ UNCHANGED peerVars /\ UNCHANGED userVars
        /\ UNCHANGED pollVars /\ UNCHANGED panicked
    BY <1>4 DEF vars
  <2>3. BytesExact'
    <3>1. \A f \in Files : FileExact(f)'
      <4> SUFFICES ASSUME NEW f \in Files PROVE FileExact(f)'
        OBVIOUS
      <4>1. Unread(f)' = Unread(f)
        BY <2>2, StillReading DEF fileVars, pollVars
      <4>2. FileExact(f)
        BY <2>1 DEF BytesExact
      <4> QED BY <2>2, <4>1, <4>2, FileExactStays DEF kernelVars, peerVars, userVars
    <3>2. ReadType'
      BY <2>1, <2>2 DEF BytesExact, ReadType, fileVars, userVars, pollVars
    <3> QED BY <3>1, <3>2 DEF BytesExact
  <2>4. ReadEvents'
    <3>1. Keeps
      BY <2>2 DEF Keeps, Awaits, Indices, Readable, muxVars, kernelVars
    <3> QED BY <2>1, <2>2, <3>1, EventsStay DEF pollVars
  <2>5. OneSend'
    BY <2>1, <2>2 DEF OneSend, fileVars, kernelVars, peerVars, userVars, pollVars
  <2> QED BY <2>3, <2>4, <2>5 DEF ReadInv
<1> QED
  BY <1>2, <1>3, <1>4

LEMMA InitClean ==
  ASSUME FileIOAssumption, Init
  PROVE  CleanInv
<1>1. Indices = {}
  BY DEF Init, Indices
<1>2. \A f \in Files : CleanFile(f)
  BY DEF Init, CleanFile, FileIOAssumption
<1>3. BatchClean /\ HandClean
  BY DEF Init, BatchClean, HandClean, NoEvent
<1> QED
  BY <1>1, <1>2, <1>3 DEF Init, CleanInv, Clean

LEMMA NextCleanInv ==
  ASSUME FileIOAssumption, Base, CleanInv, [Next]_vars
  PROVE  CleanInv'
<1>1. UNCHANGED lines
  BY LinesStay
<1>2. CASE lines \/ PeerEndsEarly \/ ~NoneFailed'
  BY <1>1, <1>2 DEF CleanInv
<1>f. NoneFailed' => NoneFailed
  BY FailedStays
<1>3. CASE ~lines /\ ~PeerEndsEarly /\ NoneFailed' /\ Next
  <2>1. Clean
    BY <1>3, <1>f DEF CleanInv
  <2> QED BY <1>3, <1>f, <2>1, NextClean DEF CleanInv
<1>4. CASE ~lines /\ ~PeerEndsEarly /\ NoneFailed' /\ UNCHANGED vars
  <2>1. Clean
    BY <1>4, <1>f DEF CleanInv
  <2>2. UNCHANGED muxVars /\ UNCHANGED fileVars /\ UNCHANGED kernelVars /\ UNCHANGED peerVars /\ UNCHANGED userVars
        /\ UNCHANGED pollVars /\ UNCHANGED panicked
    BY <1>4 DEF vars
  <2>3. \A f \in Files : CleanFile(f)'
    BY <2>1, <2>2 DEF Clean, CleanFile, muxVars, fileVars, kernelVars, peerVars, userVars
  <2>4. BatchClean' /\ HandClean'
    BY <2>1, <2>2 DEF Clean, BatchClean, HandClean, Indices, Writable, muxVars, kernelVars, pollVars
  <2>5. \A i \in Indices' : files'[i] # Nil => interest'[files'[i]] # Nil
    BY <2>1, <2>2 DEF Clean, Indices, muxVars
  <2> QED BY <2>1, <2>2, <2>3, <2>4, <2>5 DEF CleanInv, Clean
<1> QED
  BY <1>2, <1>3, <1>4

LEMMA BaseReads ==
  ASSUME FileIOAssumption, Base, ReadInv, Calm
  PROVE  ReadExact
<1>0. BytesExact /\ BytesType /\ ReadType
  BY DEF ReadInv, Base, TypeInv, BytesExact
<1>1. ASSUME NEW f \in Files, ~Reading(f)
      PROVE  consumed[f] \o rxBuffer[f] \o in[f] = Numbers(1, sent[f])
  <2>1. PICK c, r, i : c = consumed[f] /\ r = rxBuffer[f] /\ i = in[f]
    OBVIOUS
  <2>2. c \in Bytes /\ r \in Bytes /\ i \in Bytes
    BY <1>0, <2>1 DEF BytesType, ReadType
  <2>3. Row(c, r, i) = Numbers(1, sent[f])
    BY <1>0, <1>1, <2>1 DEF BytesExact, FileExact, Unread
  <2>4. (c \o r) \o i = c \o (r \o i)
    BY <2>2, Regrouped
  <2> QED BY <2>1, <2>3, <2>4, Zenon DEF Row
<1> QED
  BY <1>1 DEF ReadExact, Reading

LEMMA BaseSafe ==
  ASSUME FileIOAssumption, Base, ReadInv, CleanInv
  PROVE  FilesSafe
<1>0. MuxType /\ PoolInv /\ FileType /\ BytesType /\ QuitInv /\ InOrder /\ InterestExact
  BY DEF Base, TypeInv, MuxInv, WriteInv
<1>1. TypeOK
  <2>1. ASSUME NEW f \in Files, interest[f] # Nil
        PROVE  interest[f] \in [write : BOOLEAN, index : 1..Len(files)]
    <3>1. interest[f] \in Entry /\ interest[f].index \in 1..Len(files)
      BY <1>0, <2>1 DEF MuxType, PoolInv, Indices
    <3> QED BY <3>1 DEF Entry
  <2> QED BY <1>0, <2>1 DEF TypeOK, MuxType, PoolInv, Indices, FileType, BytesType
<1>2. EventsFindFile
  <2>1. DOMAIN files = Indices /\ DOMAIN freeIndices = 1..Len(freeIndices)
    BY <1>0 DEF MuxType, Indices
  <2> QED BY <1>0, <2>1 DEF EventsFindFile, PoolInv
<1>3. QuitFlushes
  BY <1>0 DEF QuitFlushes, QuitInv
<1>4. Calm => ReadExact
  BY BaseReads
<1>5. EventsOfFile
  BY DEF Base, EventsInv
<1>6. EndOfFileClean
  BY DEF EndOfFileClean, CleanInv, NoneFailed, Clean
<1> QED
  BY <1>0, <1>1, <1>2, <1>3, <1>4, <1>5, <1>6 DEF FilesSafe

\* For any files and peers, and whatever the users do, up to a failure of the poller: what is
\* written reaches the peer in order and no byte is lost on the way; an event that epoll reports
\* for a file is handled by that file unless it has been deleted in between, and then dropped or
\* handled by the file that took its index; nobody sleeps on a file that has something to write,
\* nor spins on one that has nothing; a file that is closed on request has handed on all that was
\* written; what is read is handed over exactly, as long as no more arrives while a user takes
\* lines.  And a poller that is the only reader does not fail, whatever order epoll reports the
\* events in, as long as no descriptor fails and peers close last.  It may fail otherwise:
\* ErrorReady does, and so does WriteReady against a user who closes (iomux, socket, cli/file.go).
THEOREM FilesSafeHolds ==
  FileIOAssumption => (Spec => []FilesSafe)
<1> SUFFICES ASSUME FileIOAssumption PROVE Spec => []FilesSafe
  OBVIOUS
<1>1. Init => Base /\ ReadInv /\ CleanInv
  BY InitBase, InitRead, InitClean
<1>2. Base /\ ReadInv /\ CleanInv /\ [Next]_vars => Base' /\ ReadInv' /\ CleanInv'
  BY NextBase, NextRead, NextCleanInv
<1>3. Base /\ ReadInv /\ CleanInv => FilesSafe
  BY BaseSafe
<1> QED
  BY <1>1, <1>2, <1>3, PTL DEF Spec

=============================================================================
