-------------------------------- MODULE Srpc --------------------------------
(***************************************************************************)
(* One direction of a connection of package srpc (srpc.go).  The client    *)
(* and the server of one host write frames to the same stream, under       *)
(* wlock; Serve on the other host reads the stream in pieces of any size,  *)
(* Input cuts it into frames and hands each to the side it is for, and     *)
(* Read gives it to net/rpc.  The other direction is the same code with    *)
(* variables of its own.                                                   *)
(*                                                                         *)
(* Frames are not copied: what Input sends are slices of the buffer of     *)
(* Serve, and the slice of the last frame is reused as a buffer once it    *)
(* has been read.  So buffers are modelled as slices of arrays.  The       *)
(* stream, net/rpc and the garbage collector are external.                 *)
(***************************************************************************)
EXTENDS Integers, Sequences, FiniteSets

CONSTANTS
  FrameLens,   \* lengths of the contents of frames
  MaxBytes,    \* bound: bytes of contents that the server and the client write
  ReadMax,     \* what Serve reads at once (4096)
  ArrayCap,    \* capacity of a buffer that getBuf makes (4096)
  RxCap,       \* capacity of the channel to a side (64)
  RecycleCap,  \* capacity of the channel of recycled buffers (64)
  Reads,       \* sizes of the buffers that net/rpc reads into
  CloseEarly,  \* the client may be closed while its peer still sends
  ConnFails    \* the connection may fail

\* Assumed where the module is instantiated
SrpcAssumption ==
  /\ FrameLens \subseteq Nat /\ MaxBytes \in [{0, 1} -> Nat] /\ Reads \subseteq Nat \ {0}
  /\ {ReadMax, ArrayCap, RxCap, RecycleCap} \subseteq Nat \ {0}
  /\ CloseEarly \in BOOLEAN /\ ConnFails \in BOOLEAN

Server == 0
Client == 1
Sides == {Server, Client}
Other(i) == 1 - i
Arrays == 1..2 * RxCap + RecycleCap + 3

VARIABLES
  wrote,      \* number of bytes of contents the sides of the sender wrote
  wlock, wb,  \* the side that is inside Write, or 2; what it has left to write
  lost,       \* history: what Write has not sent when it failed
  stream,     \* in flight
  mem,        \* the arrays: capacity and elements
  b,          \* Serve's buffer, a slice: array, first and last element
  spc, n, lastContentLen, lastFrameIsClient,  \* Serve and Input
  rx, rxClosed, overflow, \* conn.sides
  recycle,    \* conn.recycle
  got,        \* the bytes each side of the receiver has read
  ended,      \* sides of the receiver whose reader has given up
  clientClosed,
  conn,       \* the connection: "up", "failed" or, by the receiver, "closed"
  panicked

sendVars == <<wrote, wlock, wb, lost>>
serveVars == <<spc, n, lastContentLen, lastFrameIsClient>>
readVars == <<overflow, got, ended, clientClosed, conn>>
srpcVars == <<sendVars, stream, mem, b, serveVars, rx, rxClosed, recycle, readVars, panicked>>

Empty == [cap |-> 0, elts |-> <<>>]

SrpcInit ==
  /\ wrote = [i \in Sides |-> 0] /\ wlock = 2 /\ wb = <<>> /\ lost = <<>>
  /\ stream = <<>>
  /\ mem = [a \in Arrays |-> Empty]
  /\ b = [arr |-> 1, lo |-> 1, hi |-> 0]
  /\ spc = "read" /\ n = 0 /\ lastContentLen = 0 /\ lastFrameIsClient = 0
  /\ rx = [i \in Sides |-> <<>>] /\ rxClosed = [i \in Sides |-> FALSE]
  /\ overflow = [i \in Sides |-> <<>>]
  /\ recycle = <<>>
  /\ got = [i \in Sides |-> <<>>]
  /\ ended = {} /\ clientClosed = FALSE /\ conn = "up" /\ panicked = FALSE

-----------------------------------------------------------------------------
(* The sender *)

Byte(i, k) == [side |-> i, len |-> k, kind |-> "byte"]
Bytes(i, first, l) == [k \in 1..l |-> Byte(i, first + k - 1)]

\* framePut: the varint of a long frame takes two bytes
FramePut(i, l) ==
  LET last == [side |-> i, len |-> l, kind |-> "header"]
  IN IF l > 1 THEN <<[last EXCEPT !.kind = "more"], last>> ELSE <<last>>

Free == 2   \* wlock

WLockFree == wlock = Free

Write(i) ==
  /\ WLockFree
  /\ \E l \in FrameLens :
       /\ wrote[i] + l <= MaxBytes[i]
       /\ wb' = FramePut(i, l) \o Bytes(i, wrote[i] + 1, l)
       /\ wrote' = [wrote EXCEPT ![i] = @ + l]
  /\ wlock' = i
  /\ UNCHANGED <<lost, stream, mem, b, serveVars, rx, rxClosed, recycle, readVars, panicked>>

\* wc.Write takes a part of what is left, though the other host may be gone; the lock
\* goes with the last
WriteSome ==
  /\ wlock \in Sides /\ lost = <<>>
  /\ \E k \in 1..Len(wb) :
       /\ stream' = stream \o SubSeq(wb, 1, k)
       /\ wb' = SubSeq(wb, k + 1, Len(wb))
       /\ wlock' = IF k = Len(wb) THEN Free ELSE wlock
  /\ UNCHANGED <<wrote, lost, mem, b, serveVars, rx, rxClosed, recycle, readVars, panicked>>

\* An error of wc.Write ends Write, and every Write from then on; net/rpc logs it
WriteFails ==
  /\ wlock \in Sides /\ conn # "up"
  /\ wlock' = Free /\ wb' = <<>> /\ lost' = lost \o wb
  /\ UNCHANGED <<wrote, stream, mem, b, serveVars, rx, rxClosed, recycle, readVars, panicked>>

-----------------------------------------------------------------------------
(* Slices *)

Elts(s) == SubSeq(mem[s.arr].elts, s.lo, s.hi)
Slices == {b} \cup {recycle[k] : k \in DOMAIN recycle}
          \cup (UNION {{rx[i][k] : k \in DOMAIN rx[i]} : i \in Sides})
Used == {s.arr : s \in Slices}
Unused == CHOOSE a \in Arrays : a \notin Used

\* The array after es have been stored from element k on
Stored(elts, k, es) ==
  [j \in 1..IF k + Len(es) - 1 > Len(elts) THEN k + Len(es) - 1 ELSE Len(elts) |->
     IF j \in k..k + Len(es) - 1 THEN es[j - k + 1] ELSE elts[j]]

Fits(s, es) == s.hi + Len(es) <= mem[s.arr].cap

\* append(s, es...): in place when the capacity allows it, else in a new array.
\* Arrays that nobody refers to are collected
AppendTo(s, es) ==
  LET l == s.hi - s.lo + 1 + Len(es)
      kept == [a \in Arrays |-> IF a \in Used \cup {s.arr} THEN mem[a] ELSE Empty]
  IN IF Fits(s, es)
     THEN /\ b' = [s EXCEPT !.hi = s.hi + Len(es)]
          /\ mem' = [kept EXCEPT ![s.arr].elts = Stored(@, s.hi + 1, es)]
     ELSE /\ b' = [arr |-> Unused, lo |-> 1, hi |-> l]
          /\ mem' = [kept EXCEPT ![Unused] = [cap |-> 2 * l, elts |-> Elts(s) \o es]]

-----------------------------------------------------------------------------
(* Serve and Input *)

ServeRead ==
  /\ spc = "read" /\ stream # <<>> /\ conn # "closed"
  /\ \E k \in 1..Len(stream) :
       /\ k <= ReadMax
       /\ AppendTo(b, SubSeq(stream, 1, k))
       /\ stream' = SubSeq(stream, k + 1, Len(stream))
  /\ spc' = "input" /\ n' = 0 /\ lastContentLen' = 0 /\ lastFrameIsClient' = 0
  /\ UNCHANGED <<sendVars, rx, rxClosed, recycle, readVars, panicked>>

\* An error of Read ends Serve; it closes nothing
ServeFails ==
  /\ spc = "read" /\ conn # "up"
  /\ spc' = "done"
  /\ UNCHANGED <<sendVars, stream, mem, b, n, lastContentLen, lastFrameIsClient, rx, rxClosed, recycle,
                 readVars, panicked>>

\* frameGet: where the header at the front of es ends, 0 if it is not complete
HeaderLen(es) ==
  IF es = <<>> THEN 0
  ELSE IF es[1].kind = "header" THEN 1
  ELSE IF es[1].kind = "more" /\ Len(es) > 1 THEN 2
  ELSE 0

\* Seeded bug: every frame's slice is recycled
Recycled_Always(frameValid) == TRUE

FrameValid(es) == HeaderLen(es) > 0 /\ Len(es) >= HeaderLen(es) + es[HeaderLen(es)].len

\* Only the slice of the last frame is recycled
Recycled(frameValid) == ~frameValid

\* One turn of the loop of Input: the frame found in the turn before is sent
Input ==
  LET es == SubSeq(Elts(b), n + 1, b.hi - b.lo + 1)
      valid == FrameValid(es)
      to == Other(lastFrameIsClient)
      slice == [arr |-> b.arr, lo |-> b.lo + n - lastContentLen, hi |-> b.lo + n - 1,
                recycle |-> Recycled(valid)]
  IN /\ spc = "input"
     /\ IF lastContentLen = 0 THEN UNCHANGED <<rx, panicked>>
        ELSE IF rxClosed[to] THEN panicked' = TRUE /\ UNCHANGED rx
        ELSE /\ Len(rx[to]) < RxCap
             /\ rx' = [rx EXCEPT ![to] = Append(@, slice)]
             /\ UNCHANGED panicked
     /\ IF valid
        THEN LET h == HeaderLen(es)
             IN /\ lastContentLen' = es[h].len /\ lastFrameIsClient' = es[h].side
                /\ n' = n + h + es[h].len
                /\ UNCHANGED spc
        ELSE spc' = "next" /\ UNCHANGED <<lastContentLen, lastFrameIsClient, n>>
     /\ UNCHANGED <<sendVars, stream, mem, b, rxClosed, recycle, readVars>>

\* What Input has not taken: the beginning of a frame
Left == SubSeq(Elts(b), n + 1, b.hi - b.lo + 1)

\* getBuf; what is left of the buffer is copied to the next one
NextBuf ==
  /\ spc = "next"
  /\ IF recycle # <<>>
     THEN LET s == Head(recycle)
          IN AppendTo([arr |-> s.arr, lo |-> s.lo, hi |-> s.lo - 1], Left)
     ELSE /\ b' = [arr |-> Unused, lo |-> 1, hi |-> Len(Left)]
          /\ mem' = [a \in Arrays |->
                       IF a = Unused
                       THEN [cap |-> IF Len(Left) > ArrayCap THEN 2 * Len(Left) ELSE ArrayCap,
                             elts |-> Left]
                       ELSE IF a \in Used THEN mem[a] ELSE Empty]
  /\ recycle' = IF recycle # <<>> THEN Tail(recycle) ELSE recycle
  /\ spc' = "read" /\ n' = 0 /\ lastContentLen' = 0 /\ lastFrameIsClient' = 0
  /\ UNCHANGED <<sendVars, stream, rx, rxClosed, readVars, panicked>>

Serve == ServeRead \/ ServeFails \/ Input \/ NextBuf

-----------------------------------------------------------------------------
(* Readers: net/rpc's goroutines *)

Least(p, q) == IF p < q THEN p ELSE q

\* Read from what an earlier Read left over
ReadOverflow(i) ==
  /\ i \notin ended /\ overflow[i] # <<>>
  /\ \E p \in Reads :
       /\ got' = [got EXCEPT ![i] = @ \o SubSeq(overflow[i], 1, Least(p, Len(overflow[i])))]
       /\ overflow' = [overflow EXCEPT ![i] = SubSeq(@, p + 1, Len(@))]
  /\ UNCHANGED <<sendVars, stream, mem, b, serveVars, rx, rxClosed, recycle, ended, clientClosed,
                 conn, panicked>>

\* Read the next frame
ReadFrame(i) ==
  /\ i \notin ended /\ overflow[i] = <<>> /\ rx[i] # <<>>
  /\ LET frame == Elts(Head(rx[i]))
     IN \E p \in Reads :
          /\ got' = [got EXCEPT ![i] = @ \o SubSeq(frame, 1, Least(p, Len(frame)))]
          /\ overflow' = [overflow EXCEPT ![i] = SubSeq(frame, p + 1, Len(frame))]
  /\ recycle' = IF Head(rx[i]).recycle /\ Len(recycle) < RecycleCap
                THEN Append(recycle, Head(rx[i])) ELSE recycle
  /\ rx' = [rx EXCEPT ![i] = Tail(@)]
  /\ UNCHANGED <<sendVars, stream, mem, b, serveVars, rxClosed, ended, clientClosed, conn, panicked>>

\* Seeded bug: a side closes the channel it reads from itself
CloseRx_Own(i) == rxClosed' = [rxClosed EXCEPT ![i] = TRUE] /\ conn' = "closed"
\* Close of side i ends the reader of the other side, and closes wc
CloseRx(i) == rxClosed' = [rxClosed EXCEPT ![Other(i)] = TRUE] /\ conn' = "closed"

\* Everything has arrived
Quiet == stream = <<>> /\ wlock = Free /\ lost = <<>> /\ wrote = MaxBytes /\ spc = "read"

\* Close of the net/rpc client, early or when nothing more arrives
CloseClient ==
  /\ ~clientClosed
  /\ CloseEarly \/ Quiet \/ spc = "done"
  /\ clientClosed' = TRUE
  /\ CloseRx(Client)
  /\ UNCHANGED <<sendVars, stream, mem, b, serveVars, rx, recycle, overflow, got, ended, panicked>>

\* A closed channel gives reads of no bytes, which net/rpc takes for a failure;
\* its server then closes its side
ReaderEnds(i) ==
  /\ i \notin ended /\ overflow[i] = <<>> /\ rx[i] = <<>> /\ rxClosed[i]
  /\ ended' = ended \cup {i}
  /\ IF i = Server THEN CloseRx(Server) ELSE UNCHANGED <<rxClosed, conn>>
  /\ UNCHANGED <<sendVars, stream, mem, b, serveVars, rx, recycle, overflow, got, clientClosed,
                 panicked>>

Reader(i) == ReadOverflow(i) \/ ReadFrame(i) \/ ReaderEnds(i)

\* The other host goes, or the network fails
ConnFail ==
  /\ ConnFails /\ conn = "up"
  /\ conn' = "failed"
  /\ UNCHANGED <<sendVars, stream, mem, b, serveVars, rx, rxClosed, recycle, overflow, got, ended,
                 clientClosed, panicked>>

WriteGoesOn == WriteSome \/ WriteFails

SrpcNext == ~panicked /\ ( \/ \E i \in Sides : Write(i) \/ Reader(i)
                           \/ WriteGoesOn \/ Serve \/ CloseClient \/ ConnFail )

SrpcSpec == SrpcInit /\ [][SrpcNext]_srpcVars

\* A Write that has begun goes on, and Serve and the readers run
SrpcFairness ==
  /\ WF_srpcVars(~panicked /\ WriteGoesOn) /\ WF_srpcVars(~panicked /\ Serve)
  /\ \A i \in Sides : WF_srpcVars(~panicked /\ Reader(i))

SrpcFairSpec == SrpcSpec /\ SrpcFairness

-----------------------------------------------------------------------------
(* Properties *)

SrpcTypeOK ==
  /\ wlock \in {Free, Server, Client} /\ spc \in {"read", "input", "next", "done"}
  /\ \A i \in Sides : Len(rx[i]) <= RxCap /\ wrote[i] <= MaxBytes[i]
  /\ \A s \in Slices : s.arr \in Arrays /\ s.hi <= mem[s.arr].cap

\* What the client of one host reads is what the server of the other wrote, and
\* the other way round, in order and unchanged, however the stream is cut into
\* pieces and however buffers are reused.
StreamsExact ==
  \A i \in Sides :
    /\ got[i] = Bytes(Other(i), 1, Len(got[i]))
    /\ Len(got[i]) <= wrote[Other(i)]

\* A frame that has been cut from a buffer keeps its contents until it is read:
\* no buffer in use by Serve or waiting for use reaches into its slice.
NoReuseInFlight ==
  \A i \in Sides : \A k \in DOMAIN rx[i] :
    LET s == rx[i][k]
    IN /\ spc = "read" => ~(b.arr = s.arr /\ b.lo <= s.hi)
       /\ \A r \in DOMAIN recycle : ~(recycle[r].arr = s.arr /\ recycle[r].lo <= s.hi)

\* Nothing is sent on a closed channel.  So only where CloseEarly is FALSE: a client that is
\* closed while its peer still sends lets Input send on the channel that Close has closed.
NoPanic == ~panicked

\* What the client of one host writes the server of the other reads, and the other way
\* round, whatever buffers are recycled in between and wherever the connection fails; and
\* a client that is closed when nothing more arrives leaves nobody who sends on a channel
\* that has been closed (conn.Read, Input, Serve, Close).
SrpcSafe == SrpcTypeOK /\ StreamsExact /\ NoReuseInFlight /\ NoPanic

\* Whatever is written is read as long as the connection does not fail, and a client that
\* is closed when nothing more arrives ends both readers: its own through the server's
\* reader, which it ends.  When the connection fails readers wait until the client is closed.
AllRead ==
  []<>(\/ panicked
       \/ clientClosed /\ ended = Sides
       \/ ~clientClosed /\ (conn = "up" => \A i \in Sides : Len(got[i]) = wrote[Other(i)]))

=============================================================================
