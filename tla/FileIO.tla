------------------------------- MODULE FileIO -------------------------------
(***************************************************************************)
(* Buffered non-blocking files: the multiplexer of package iomux           *)
(* (iomux.go, epoll.go), its FileBuf (filebuf.go), the sockets of package  *)
(* socket and the file layer of package cli (file.go, socket.go).          *)
(*                                                                         *)
(* One goroutine, the poller, runs EventPoll forever.  The user goroutine  *)
(* of a file adds it to the multiplexer and writes to it.  What is read is *)
(* consumed either by the poller itself, right after ReadReady (the way of *)
(* srpc/main), or by the user goroutine, which the poller wakes through a  *)
(* channel (the way of cli): then a byte stands for a line of input, and   *)
(* the user answers every line by a byte or quits and closes the file.     *)
(*                                                                         *)
(* epoll, the kernel's buffers and the peer are external.  Bytes are       *)
(* numbered in the order in which they are sent.                           *)
(***************************************************************************)
EXTENDS Integers, Sequences, FiniteSets

CONSTANTS
  Files,        \* files, each with a descriptor of its own
  Sockets,      \* the files that are sockets; the others are FileBufs
  Nil,
  MaxWritten,   \* bound: bytes a user writes unasked
  MaxSent,      \* bound: bytes the peer of a file sends
  SockCap,      \* bytes that the kernel takes before the peer reads
  LineSends,    \* bound: separate sends of a peer whose lines the user reads
  PeerEndsEarly, \* the peer may close before it has read all that is written
  Errors        \* a descriptor may fail: the peer resets it or refuses to connect

\* Assumed where the module is instantiated
FileIOAssumption ==
  /\ Sockets \subseteq Files /\ Nil \notin Files /\ Nil \notin [write : BOOLEAN, index : Nat]
  /\ MaxWritten \in Nat /\ MaxSent \in Nat /\ SockCap \in Nat \ {0}
  /\ LineSends \in Nat /\ PeerEndsEarly \in BOOLEAN /\ Errors \in BOOLEAN

VARIABLES
  files, freeIndices,   \* Mux.filePool: the file of each index, or Nil
  poolIndex,            \* File.poolIndex; Nil when poisoned
  fd,                   \* "new", "open" or "closed"
  closedFlag,           \* FileBuf.Fd = -1, or the flag Closed of a socket
  connecting,           \* the flag ConnectInProgress
  closeAfterTxFlush,    \* cli.File
  txBufLock,            \* who holds it, or Nil
  txBuffer, rxBuffer,
  interest,             \* the kernel's epoll entries: [write, index], or Nil
  out, in, eof, failed, \* the kernel's buffers of a descriptor and its error
  got, sent, sends,     \* the peer: bytes received, number sent, calls
  written, consumed,    \* the user: number written, bytes or lines taken
  lines,                \* the user goroutine reads lines
  upc,                  \* the user goroutine of a file
  ppc, batch, cur, pfile, rxLen, rxGot,  \* the poller
  panicked

muxVars == <<files, freeIndices, poolIndex, interest>>
fileVars == <<fd, closedFlag, connecting, closeAfterTxFlush, txBufLock, txBuffer, rxBuffer>>
kernelVars == <<out, in, eof, failed>>
peerVars == <<got, sent, sends>>
userVars == <<written, consumed, lines, upc>>
pollVars == <<ppc, batch, cur, pfile, rxLen, rxGot>>
vars == <<muxVars, fileVars, kernelVars, peerVars, userVars, pollVars, panicked>>

NoEvent == [index |-> 0, write |-> FALSE, read |-> FALSE, error |-> FALSE, of |-> Nil]
Garbage == 0            \* what a buffer holds beyond the bytes that were read
RoomToRead == <<Garbage>>  \* maxReadBytes of them

Init ==
  /\ files = <<>> /\ freeIndices = <<>>
  /\ poolIndex = [f \in Files |-> Nil]
  /\ fd = [f \in Files |-> "new"] /\ closedFlag = [f \in Files |-> FALSE]
  /\ connecting \in [Files -> BOOLEAN]
  /\ \A f \in Files : connecting[f] => f \in Sockets
  /\ closeAfterTxFlush = [f \in Files |-> FALSE]
  /\ txBufLock = [f \in Files |-> Nil]
  /\ txBuffer = [f \in Files |-> <<>>] /\ rxBuffer = [f \in Files |-> <<>>]
  /\ interest = [f \in Files |-> Nil]
  /\ out = [f \in Files |-> <<>>] /\ in = [f \in Files |-> <<>>]
  /\ eof = [f \in Files |-> FALSE] /\ failed = [f \in Files |-> FALSE]
  /\ got = [f \in Files |-> <<>>]
  /\ sent = [f \in Files |-> 0] /\ sends = [f \in Files |-> 0]
  /\ written = [f \in Files |-> 0] /\ consumed = [f \in Files |-> <<>>]
  /\ lines \in BOOLEAN
  /\ upc = [f \in Files |-> "add"]
  /\ ppc = "wait" /\ batch = {} /\ cur = NoEvent /\ pfile = Nil
  /\ rxLen = 0 /\ rxGot = <<>>
  /\ panicked = FALSE

Numbers(first, n) == [i \in 1..n |-> first + i - 1]

WriteAvailable(f) == txBuffer[f] # <<>> \/ connecting[f]

-----------------------------------------------------------------------------
(* The multiplexer; each operation runs under poolLock *)

\* GetIndex: the index freed last, or a new one
MuxAdd(f) ==
  LET n == Len(freeIndices)
      i == IF n > 0 THEN freeIndices[n] ELSE Len(files) + 1
  IN /\ files' = IF n > 0 THEN [files EXCEPT ![i] = f] ELSE Append(files, f)
     /\ freeIndices' = IF n > 0 THEN SubSeq(freeIndices, 1, n - 1) ELSE freeIndices
     /\ poolIndex' = [poolIndex EXCEPT ![f] = i]
     /\ interest' = [interest EXCEPT ![f] = [write |-> WriteAvailable(f), index |-> i]]

\* epoll_ctl refuses a descriptor that is closed or not registered, and Del panics
MuxDel(f) ==
  IF interest[f] = Nil THEN panicked' = TRUE /\ UNCHANGED muxVars
  ELSE /\ interest' = [interest EXCEPT ![f] = Nil]
       /\ poolIndex' = [poolIndex EXCEPT ![f] = Nil]
       /\ files' = [files EXCEPT ![poolIndex[f]] = Nil]
       /\ freeIndices' = Append(freeIndices, poolIndex[f])
       /\ UNCHANGED panicked

\* Seeded bug: the interest in writing is never declared again
MuxUpdate_OnlyOff(f) ==
  IF interest[f] = Nil \/ closedFlag[f]
  THEN panicked' = TRUE /\ UNCHANGED muxVars
  ELSE /\ interest' = [interest EXCEPT ![f].write = @ /\ WriteAvailable(f)]
       /\ UNCHANGED <<files, freeIndices, poolIndex, panicked>>

MuxUpdate(f) ==
  IF interest[f] = Nil \/ closedFlag[f]
  THEN panicked' = TRUE /\ UNCHANGED muxVars
  ELSE /\ interest' = [interest EXCEPT ![f].write = WriteAvailable(f)]
       /\ UNCHANGED <<files, freeIndices, poolIndex, panicked>>

\* FileBuf.Close: Del, close and Fd = -1 under the lock of the buffer; the
\* kernel still delivers what is in out
FileBufClose(f) ==
  /\ txBufLock[f] = Nil
  /\ MuxDel(f)
  /\ fd' = [fd EXCEPT ![f] = "closed"]
  /\ closedFlag' = [closedFlag EXCEPT ![f] = TRUE]

\* socket.Close leaves the index of the multiplexer alone: closing the
\* descriptor removes it from epoll
SocketClose(f) ==
  /\ txBufLock[f] = Nil
  /\ interest' = [interest EXCEPT ![f] = Nil]
  /\ fd' = [fd EXCEPT ![f] = "closed"]
  /\ closedFlag' = [closedFlag EXCEPT ![f] = TRUE]
  /\ UNCHANGED <<files, freeIndices, poolIndex, panicked>>

Close(f) == IF f \in Sockets THEN SocketClose(f) ELSE FileBufClose(f)

-----------------------------------------------------------------------------
(* The user goroutine of a file *)

GoUser(f, pc) == upc' = [upc EXCEPT ![f] = pc]

Add(f) ==
  /\ upc[f] = "add"
  /\ MuxAdd(f)
  /\ fd' = [fd EXCEPT ![f] = "open"]
  /\ GoUser(f, "idle")
  /\ UNCHANGED <<closedFlag, connecting, closeAfterTxFlush, txBufLock, txBuffer, rxBuffer,
                 kernelVars, peerVars, written, consumed, lines, pollVars, panicked>>

\* Write: a socket drops what is written after Close
Append_(f, pc) ==
  /\ txBufLock[f] = Nil
  /\ IF f \in Sockets /\ closedFlag[f]
     THEN GoUser(f, IF pc = "update" THEN "idle" ELSE "advance")
          /\ UNCHANGED <<written, txBuffer, txBufLock>>
     ELSE /\ written' = [written EXCEPT ![f] = @ + 1]
          /\ txBuffer' = [txBuffer EXCEPT ![f] = Append(@, written[f] + 1)]
          /\ txBufLock' = [txBufLock EXCEPT ![f] = f]
          /\ GoUser(f, pc)
  /\ UNCHANGED <<muxVars, fd, closedFlag, connecting, closeAfterTxFlush, rxBuffer, kernelVars,
                 peerVars, consumed, lines, pollVars, panicked>>

Write(f) ==
  /\ upc[f] = "idle" /\ written[f] < MaxWritten
  /\ Append_(f, "update")

\* Write ends with the update of the multiplexer and the release of the lock
WriteUpdate(f) ==
  /\ upc[f] \in {"update", "replied"}
  /\ MuxUpdate(f)
  /\ txBufLock' = [txBufLock EXCEPT ![f] = Nil]
  /\ GoUser(f, IF upc[f] = "update" THEN "idle" ELSE "advance")
  /\ UNCHANGED <<fd, closedFlag, connecting, closeAfterTxFlush, txBuffer, rxBuffer, kernelVars,
                 peerVars, written, consumed, lines, pollVars>>

\* cli: RxReady of the file whose index comes through the channel
Receive(f) ==
  /\ lines
  /\ ppc = "notify" /\ pfile = f /\ upc[f] = "idle"
  /\ GoUser(f, "line") /\ ppc' = "next"
  /\ UNCHANGED <<muxVars, fileVars, kernelVars, peerVars, written, consumed, lines, batch, cur,
                 pfile, rxLen, rxGot, panicked>>

NoLine(f) ==
  /\ upc[f] = "line" /\ rxBuffer[f] = <<>>
  /\ GoUser(f, "idle")
  /\ UNCHANGED <<muxVars, fileVars, kernelVars, peerVars, written, consumed, lines, pollVars, panicked>>

\* Exec and the prompt: the answer to a line
Reply(f) ==
  /\ upc[f] = "line" /\ rxBuffer[f] # <<>>
  /\ Append_(f, "replied")

Advance(f) ==
  /\ upc[f] = "advance"
  /\ consumed' = [consumed EXCEPT ![f] = Append(@, Head(rxBuffer[f]))]
  /\ rxBuffer' = [rxBuffer EXCEPT ![f] = Tail(@)]
  /\ GoUser(f, "line")
  /\ UNCHANGED <<muxVars, fd, closedFlag, connecting, closeAfterTxFlush, txBufLock, txBuffer,
                 kernelVars, peerVars, written, lines, pollVars, panicked>>

\* A line that quits: close now, or have WriteReady close when all is written
Quit(f) ==
  /\ upc[f] = "line" /\ rxBuffer[f] # <<>>
  /\ IF WriteAvailable(f)
     THEN /\ closeAfterTxFlush' = [closeAfterTxFlush EXCEPT ![f] = TRUE]
          /\ UNCHANGED <<muxVars, fd, closedFlag, panicked>>
     ELSE Close(f) /\ UNCHANGED closeAfterTxFlush
  /\ GoUser(f, "end")
  /\ UNCHANGED <<connecting, txBufLock, txBuffer, rxBuffer, kernelVars,
                 peerVars, written, consumed, lines, pollVars>>

\* What a user goroutine does once it has begun
UserGoesOn(f) == Add(f) \/ WriteUpdate(f) \/ Receive(f) \/ NoLine(f) \/ Advance(f) \/ Reply(f)

UserStep(f) == UserGoesOn(f) \/ Write(f) \/ Quit(f)

-----------------------------------------------------------------------------
(* The poller *)

Readable(f) == in[f] # <<>> \/ eof[f]
Writable(f) == Len(out[f]) < SockCap

\* The events that epoll_pwait returns, the files in any order; of is not part of the
\* program: the file for which epoll reports.  epoll also reports a descriptor that has
\* failed as readable and writable: its calls fail then, or ErrorReady does
EventsOf(f) == [index |-> interest[f].index, write |-> interest[f].write /\ Writable(f),
                read |-> Readable(f), error |-> failed[f], of |-> f]
Ready == {f \in Files : interest[f] # Nil /\ (EventsOf(f).write \/ EventsOf(f).read \/ failed[f])}

EventPoll ==
  /\ ppc = "wait" /\ Ready # {}
  /\ batch' = {EventsOf(f) : f \in Ready}
  /\ ppc' = "next"
  /\ UNCHANGED <<muxVars, fileVars, kernelVars, peerVars, userVars, cur, pfile, rxLen, rxGot, panicked>>

\* do: an event for a file that has been deleted is dropped
Do ==
  /\ ppc = "next" /\ ~cur.error
  /\ IF batch = {} THEN ppc' = "wait" /\ cur' = NoEvent /\ pfile' = Nil /\ UNCHANGED batch
     ELSE \E e \in batch :
            /\ batch' = batch \ {e}
            /\ IF files[e.index] = Nil THEN UNCHANGED <<ppc, cur, pfile>>
               ELSE /\ cur' = e /\ pfile' = files[e.index]
                    /\ ppc' = IF e.write THEN "write" ELSE IF e.read THEN "read" ELSE "next"
  /\ UNCHANGED <<muxVars, fileVars, kernelVars, peerVars, userVars, rxLen, rxGot, panicked>>

\* The end of do for an event with an error: ErrorReady, which every file answers by a
\* panic, and so does a file that is gone
ErrorReady ==
  /\ ppc = "next" /\ cur.error
  /\ panicked' = TRUE
  /\ UNCHANGED <<muxVars, fileVars, kernelVars, peerVars, userVars, ppc, batch, cur, pfile, rxLen, rxGot>>

\* Seeded bug: the rest of the buffer is not moved to its front
Rest_Drop(s, n) == SubSeq(s, 1, Len(s) - n)
\* What stays in txBuffer when n bytes are written
Rest(s, n) == SubSeq(s, n + 1, Len(s))

\* WriteReady up to the release of the lock.  A closed socket returns with the
\* lock held, and a socket takes EAGAIN for an error.  do panics on an error,
\* that of a connection (getsockopt) or of write, and the process ends there
WriteReady ==
  LET f == pfile
      n == Len(txBuffer[f])
  IN /\ ppc = "write" /\ txBufLock[f] = Nil
     /\ IF closedFlag[f]
        THEN /\ txBufLock' = [txBufLock EXCEPT ![f] = IF f \in Sockets THEN "poller" ELSE Nil]
             /\ ppc' = "flush"
             /\ UNCHANGED <<txBuffer, out, connecting, panicked>>
        ELSE IF failed[f] /\ WriteAvailable(f)
        THEN panicked' = TRUE /\ UNCHANGED <<txBufLock, txBuffer, out, connecting, ppc>>
        ELSE /\ connecting' = [connecting EXCEPT ![f] = FALSE]
             /\ IF n = 0
                THEN /\ ppc' = IF connecting[f] THEN "update" ELSE "flush"
                     /\ UNCHANGED <<txBuffer, out, panicked>>
                ELSE IF ~Writable(f)
                THEN /\ panicked' = (f \in Sockets)
                     /\ ppc' = IF connecting[f] THEN "update" ELSE "flush"
                     /\ UNCHANGED <<txBuffer, out>>
                ELSE \E m \in 1..n :
                       /\ m <= SockCap - Len(out[f])
                       /\ out' = [out EXCEPT ![f] = @ \o SubSeq(txBuffer[f], 1, m)]
                       /\ txBuffer' = [txBuffer EXCEPT ![f] = Rest(txBuffer[f], m)]
                       /\ ppc' = "update"
                       /\ UNCHANGED panicked
             /\ UNCHANGED txBufLock
     /\ UNCHANGED <<muxVars, fd, closedFlag, closeAfterTxFlush, rxBuffer, in, eof, failed, peerVars,
                    userVars, batch, cur, pfile, rxLen, rxGot>>

\* The deferred update, after the lock has been released
UpdateReady ==
  /\ ppc = "update"
  /\ MuxUpdate(pfile)
  /\ ppc' = "flush"
  /\ UNCHANGED <<fileVars, kernelVars, peerVars, userVars, batch, cur, pfile, rxLen, rxGot>>

\* cli: close a file that waited for its buffer to empty
Flush ==
  /\ ppc = "flush"
  /\ IF closeAfterTxFlush[pfile] /\ ~WriteAvailable(pfile)
     THEN Close(pfile) /\ closeAfterTxFlush' = [closeAfterTxFlush EXCEPT ![pfile] = FALSE]
     ELSE UNCHANGED <<muxVars, fd, closedFlag, panicked, closeAfterTxFlush>>
  /\ ppc' = IF cur.read THEN "read" ELSE "next"
  /\ UNCHANGED <<connecting, txBufLock, txBuffer, rxBuffer, kernelVars, peerVars, userVars, batch,
                 cur, pfile, rxLen, rxGot>>

\* do panics: the file is gone, its descriptor is closed, or it has failed and nothing
\* is left to read
ReadFails(f) == f # Nil => closedFlag[f] \/ (failed[f] /\ in[f] = <<>>)

\* ReadReady makes room and reads; do takes the file from the pool again
ReadReady ==
  LET f == files[cur.index]
  IN /\ ppc = "read"
     /\ pfile' = f
     /\ IF ReadFails(f)
        THEN panicked' = TRUE /\ UNCHANGED <<rxBuffer, in, ppc, rxLen, rxGot>>
        ELSE /\ rxLen' = Len(rxBuffer[f])
             /\ rxGot' = in[f]
             /\ in' = [in EXCEPT ![f] = <<>>]
             /\ rxBuffer' = [rxBuffer EXCEPT ![f] = @ \o in[f] \o RoomToRead]
             /\ ppc' = IF in[f] # <<>> THEN "truncate"
                       ELSE IF eof[f] THEN "end"
                       ELSE IF f \in Sockets THEN "notify" ELSE "truncate"
             /\ UNCHANGED panicked
     /\ UNCHANGED <<muxVars, fd, closedFlag, connecting, closeAfterTxFlush, txBufLock, txBuffer,
                    out, eof, failed, peerVars, userVars, batch, cur>>

\* The buffer is cut to the bytes it had and the bytes that were read
Truncated(f) ==
  [k \in 1..rxLen + Len(rxGot) |-> IF k <= Len(rxBuffer[f]) THEN rxBuffer[f][k] ELSE Garbage]

Truncate ==
  /\ ppc = "truncate"
  /\ rxBuffer' = [rxBuffer EXCEPT ![pfile] = Truncated(pfile)]
  /\ rxGot' = <<>> /\ rxLen' = 0
  /\ ppc' = "notify"
  /\ UNCHANGED <<muxVars, fd, closedFlag, connecting, closeAfterTxFlush, txBufLock, txBuffer,
                 kernelVars, peerVars, userVars, batch, cur, pfile, panicked>>

\* The peer has closed: FileBuf closes in one step, a socket is first deleted
EndOfFile ==
  /\ ppc \in {"end", "close"}
  /\ IF ppc = "end" /\ pfile \in Sockets
     THEN MuxDel(pfile) /\ ppc' = "close" /\ UNCHANGED <<fd, closedFlag>>
     ELSE Close(pfile) /\ ppc' = "next"
  /\ rxBuffer' = [rxBuffer EXCEPT ![pfile] = IF ppc = "end" THEN Truncated(pfile) ELSE @]
  /\ rxLen' = 0
  /\ UNCHANGED <<connecting, closeAfterTxFlush, txBufLock, txBuffer, kernelVars, peerVars,
                 userVars, batch, cur, pfile, rxGot>>

\* srpc/main: the poller takes all that has been read, or less
Consume ==
  /\ ~lines
  /\ ppc = "notify"
  /\ \E n \in {0, Len(rxBuffer[pfile])} :
       /\ consumed' = [consumed EXCEPT ![pfile] = @ \o SubSeq(rxBuffer[pfile], 1, n)]
       /\ rxBuffer' = [rxBuffer EXCEPT ![pfile] = SubSeq(@, n + 1, Len(@))]
  /\ ppc' = "next"
  /\ UNCHANGED <<muxVars, fd, closedFlag, connecting, closeAfterTxFlush, txBufLock, txBuffer,
                 kernelVars, peerVars, written, lines, upc, batch, cur, pfile, rxLen, rxGot, panicked>>

PollStep == EventPoll \/ Do \/ ErrorReady \/ WriteReady \/ UpdateReady \/ Flush \/ ReadReady
            \/ Truncate \/ EndOfFile \/ Consume

-----------------------------------------------------------------------------
(* The peers *)

PeerReceive(f) ==
  /\ out[f] # <<>> /\ ~failed[f]
  /\ got' = [got EXCEPT ![f] = Append(@, Head(out[f]))]
  /\ out' = [out EXCEPT ![f] = Tail(@)]
  /\ UNCHANGED <<muxVars, fileVars, in, eof, failed, sent, sends, userVars, pollVars, panicked>>

PeerSend(f) ==
  /\ fd[f] = "open" /\ ~eof[f] /\ ~failed[f] /\ sent[f] < MaxSent
  /\ lines => sends[f] < LineSends
  /\ \E n \in 1..MaxSent - sent[f] :
       /\ in' = [in EXCEPT ![f] = @ \o Numbers(sent[f] + 1, n)]
       /\ sent' = [sent EXCEPT ![f] = @ + n]
  /\ sends' = [sends EXCEPT ![f] = IF lines THEN @ + 1 ELSE @]
  /\ UNCHANGED <<muxVars, fileVars, out, eof, failed, got, userVars, pollVars, panicked>>

\* A peer that reads lines' answers waits for the other side to close
PeerClose(f) ==
  /\ fd[f] = "open" /\ ~eof[f] /\ ~failed[f] /\ ~lines
  /\ PeerEndsEarly \/ Len(got[f]) = MaxWritten
  /\ eof' = [eof EXCEPT ![f] = TRUE]
  /\ UNCHANGED <<muxVars, fileVars, out, in, failed, peerVars, userVars, pollVars, panicked>>

PeerFails(f) ==
  /\ Errors /\ fd[f] = "open" /\ ~failed[f]
  /\ failed' = [failed EXCEPT ![f] = TRUE]
  /\ UNCHANGED <<muxVars, fileVars, out, in, eof, peerVars, userVars, pollVars, panicked>>

PeerStep(f) == PeerReceive(f) \/ PeerSend(f) \/ PeerClose(f) \/ PeerFails(f)

Next == ~panicked /\ (PollStep \/ \E f \in Files : UserStep(f) \/ PeerStep(f))

Spec == Init /\ [][Next]_vars

\* The goroutines run, a lock that is free is taken in the end, and peers read;
\* nobody has to write, send, quit or close
Fairness ==
  /\ WF_vars(~panicked /\ PollStep /\ ppc # "write")
  /\ SF_vars(~panicked /\ WriteReady)
  /\ \A f \in Files :
       /\ WF_vars(~panicked /\ UserGoesOn(f))
       /\ WF_vars(~panicked /\ PeerReceive(f))

FairSpec == Spec /\ Fairness

-----------------------------------------------------------------------------
(* Properties *)

TypeOK ==
  /\ files \in Seq(Files \cup {Nil})
  /\ \A f \in Files :
       /\ poolIndex[f] \in 1..Len(files) \cup {Nil}
       /\ interest[f] = Nil \/ interest[f] \in [write : BOOLEAN, index : 1..Len(files)]
       /\ txBufLock[f] \in {Nil, f, "poller"}
       /\ Len(out[f]) <= SockCap

\* What is written reaches the peer in order, and nothing is lost between the
\* buffer, the kernel and the peer, whatever part of the buffer a write takes.
InOrder == \A f \in Files : got[f] \o out[f] \o txBuffer[f] = Numbers(1, written[f])

\* A user that takes lines is not sent more of them meanwhile
Calm == ~lines \/ LineSends <= 1

\* What the peer sends is handed to the reader once and in order; the room that
\* ReadReady makes in the buffer is never taken for bytes that were read.
ReadExact ==
  \A f \in Files :
    ~(ppc = "truncate" /\ pfile = f) /\ ~(ppc = "end" /\ pfile = f)
      => consumed[f] \o rxBuffer[f] \o in[f] = Numbers(1, sent[f])

\* An epoll entry names the index under which the pool holds its file, and an
\* index is either in use or on the stack of free indices: what epoll reports next
\* is for the file in the pool (Add, Del, socket.Close).
EventsFindFile ==
  /\ \A f \in Files : interest[f] # Nil =>
       interest[f].index = poolIndex[f] /\ files[poolIndex[f]] = f
  /\ \A i \in DOMAIN files : files[i] = Nil <=> \E j \in DOMAIN freeIndices : freeIndices[j] = i

\* An event that epoll reported for a file, and that waits in the batch or is being
\* handled, comes to another file only when its own has been deleted in between:
\* then it is dropped, or handled by the file that took the index (do).
EventsOfFile ==
  /\ \A e \in batch \cup {cur} : e.of # Nil => files[e.index] = e.of \/ poolIndex[e.of] = Nil
  /\ cur.of # Nil => pfile = cur.of \/ poolIndex[cur.of] = Nil

\* When nobody is about to update it, the interest of a registered file in
\* writing is exactly whether it has something to write: neither does the poller
\* spin on a file with nothing to write, nor sleep on one with bytes.
InterestExact ==
  \A f \in Files :
    (interest[f] # Nil /\ upc[f] \notin {"update", "replied"}
      /\ ~(ppc = "update" /\ pfile = f))
      => (interest[f].write <=> WriteAvailable(f))

\* No operation of the multiplexer meets a closed or unregistered descriptor and
\* no file's ReadReady or WriteReady fails.
NoPanic == ~panicked

\* The poller does not fail as long as it is the only reader, peers close only once
\* they have all that is written, and no descriptor fails.  With users that read lines
\* it may (WriteReady against close), and ErrorReady always does.
EndOfFileClean == lines \/ PeerEndsEarly \/ (\E f \in Files : failed[f]) \/ ~panicked

\* A file that is closed on request has handed all that was written before to
\* the kernel.
QuitFlushes == lines => \A f \in Files : closedFlag[f] => txBuffer[f] = <<>>

\* All of these, ReadExact where no lines arrive while others are taken
FilesSafe == /\ TypeOK /\ InOrder /\ EventsFindFile /\ EventsOfFile /\ InterestExact
             /\ QuitFlushes /\ EndOfFileClean /\ (Calm => ReadExact)

\* All that is written reaches the peer, unless the process fails.
AllSent == []<>(panicked \/ \A x \in DOMAIN written : Len(got[x]) = written[x])

=============================================================================
