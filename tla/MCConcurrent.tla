---------------------------- MODULE MCConcurrent ----------------------------
(***************************************************************************)
(* Small instances of the modules whose programs run in several            *)
(* goroutines: the event log, the files of package iomux (two files at     *)
(* once, one FileBuf and one socket with more bytes; two files with events *)
(* for one that is gone, and files whose peers fail) and srpc.  A          *)
(* behaviour is one of one module, named by part, and the variables of the *)
(* others keep their initial values.                                       *)
(***************************************************************************)
EXTENDS Elog, Srpc

CONSTANTS file, socket, Nil

VARIABLES
  part,
  files, freeIndices, poolIndex, interest, fd, closedFlag, connecting, closeAfterTxFlush,
  txBufLock, txBuffer, rxBuffer, out, in, eof, failed, fileGot, sent, sends, written, consumed,
  lines, upc, ppc, batch, cur, pfile, rxLen, rxGot, filePanicked                   \* FileIO

fileVars == <<files, freeIndices, poolIndex, interest, fd, closedFlag, connecting,
              closeAfterTxFlush, txBufLock, txBuffer, rxBuffer, out, in, eof, failed, fileGot, sent, sends,
              written, consumed, lines, upc, ppc, batch, cur, pfile, rxLen, rxGot, filePanicked>>

Both == INSTANCE FileIO WITH Files <- {file, socket}, Sockets <- {socket}, MaxWritten <- 1, MaxSent <- 1,
          SockCap <- 1, LineSends <- 1, PeerEndsEarly <- FALSE, Errors <- FALSE,
          got <- fileGot, panicked <- filePanicked
File == INSTANCE FileIO WITH Files <- {file}, Sockets <- {}, MaxWritten <- 2, MaxSent <- 2,
          SockCap <- 1, LineSends <- 1, PeerEndsEarly <- FALSE, Errors <- FALSE,
          got <- fileGot, panicked <- filePanicked
Socket == INSTANCE FileIO WITH Files <- {socket}, Sockets <- {socket}, MaxWritten <- 2, MaxSent <- 2,
          SockCap <- 1, LineSends <- 1, PeerEndsEarly <- FALSE, Errors <- FALSE,
          got <- fileGot, panicked <- filePanicked

\* More lines come while the user takes lines, and quits; a descriptor fails meanwhile
Stale == INSTANCE FileIO WITH Files <- {file, socket}, Sockets <- {socket}, MaxWritten <- 0, MaxSent <- 2,
          SockCap <- 1, LineSends <- 2, PeerEndsEarly <- FALSE, Errors <- TRUE,
          got <- fileGot, panicked <- filePanicked
\* Peers that fail or close early
BadFile == INSTANCE FileIO WITH Files <- {file}, Sockets <- {}, MaxWritten <- 2, MaxSent <- 1,
          SockCap <- 1, LineSends <- 1, PeerEndsEarly <- TRUE, Errors <- TRUE,
          got <- fileGot, panicked <- filePanicked
BadSocket == INSTANCE FileIO WITH Files <- {socket}, Sockets <- {socket}, MaxWritten <- 2, MaxSent <- 1,
          SockCap <- 1, LineSends <- 1, PeerEndsEarly <- TRUE, Errors <- TRUE,
          got <- fileGot, panicked <- filePanicked

\* Bound: in Stale, lines come for the FileBuf alone, and it alone fails
OneBusy == sent'[socket] = 0 /\ ~failed'[socket]

\* The value of MaxBytes: the server writes two bytes and the client one
StreamBytes == [i \in {0, 1} |-> 2 - i]

ASSUME Assumptions == /\ Both!FileIOAssumption /\ File!FileIOAssumption
                      /\ Socket!FileIOAssumption /\ Stale!FileIOAssumption
                      /\ BadFile!FileIOAssumption /\ BadSocket!FileIOAssumption /\ SrpcAssumption

-----------------------------------------------------------------------------

NoFiles == Both!Init /\ ~lines /\ \A x \in {file, socket} : ~connecting[x]

MCInit ==
  /\ part \in {"elog", "both", "file", "socket", "stale", "badFile", "badSocket", "srpc"}
  /\ Init /\ SrpcInit
  /\ CASE part = "both" -> Both!Init
       [] part = "file" -> File!Init
       [] part = "socket" -> Socket!Init
       [] part = "stale" -> Stale!Init /\ lines
       [] part = "badFile" -> BadFile!Init
       [] part = "badSocket" -> BadSocket!Init
       [] OTHER -> NoFiles

MCNext ==
  /\ UNCHANGED part
  /\ IF part = "elog" THEN Next ELSE UNCHANGED vars
  /\ IF part = "srpc" THEN SrpcNext ELSE UNCHANGED srpcVars
  /\ CASE part = "both" -> Both!Next
       [] part = "file" -> File!Next
       [] part = "socket" -> Socket!Next
       [] part = "stale" -> Stale!Next /\ OneBusy
       [] part = "badFile" -> BadFile!Next
       [] part = "badSocket" -> BadSocket!Next
       [] OTHER -> UNCHANGED fileVars

allVars == <<part, vars, fileVars, srpcVars>>

\* Fairness of Elog, FileIO and Srpc, each of its own part
MCFairness ==
  /\ \A w \in Writers : WF_vars(part = "elog" /\ Writer(w))
  /\ \A c \in Controllers : WF_vars(part = "elog" /\ InCall(c))
  /\ WF_fileVars(part = "both" /\ ~filePanicked /\ ppc # "write" /\ Both!PollStep)
  /\ WF_fileVars(part = "file" /\ ~filePanicked /\ ppc # "write" /\ File!PollStep)
  /\ WF_fileVars(part = "socket" /\ ~filePanicked /\ ppc # "write" /\ Socket!PollStep)
  /\ SF_fileVars(part = "both" /\ ~filePanicked /\ Both!WriteReady)
  /\ SF_fileVars(part = "file" /\ ~filePanicked /\ File!WriteReady)
  /\ SF_fileVars(part = "socket" /\ ~filePanicked /\ Socket!WriteReady)
  /\ \A x \in {file, socket} : /\ WF_fileVars(part = "both" /\ ~filePanicked /\ Both!UserGoesOn(x))
                               /\ WF_fileVars(part = "both" /\ ~filePanicked /\ Both!PeerReceive(x))
  /\ WF_fileVars(part = "file" /\ ~filePanicked /\ File!UserGoesOn(file))
  /\ WF_fileVars(part = "file" /\ ~filePanicked /\ File!PeerReceive(file))
  /\ WF_fileVars(part = "socket" /\ ~filePanicked /\ Socket!UserGoesOn(socket))
  /\ WF_fileVars(part = "socket" /\ ~filePanicked /\ Socket!PeerReceive(socket))
  /\ WF_srpcVars(part = "srpc" /\ ~panicked /\ WriteGoesOn)
  /\ WF_srpcVars(part = "srpc" /\ ~panicked /\ Serve)
  /\ \A i \in {0, 1} : WF_srpcVars(part = "srpc" /\ ~panicked /\ Reader(i))

MCFairSpec == MCInit /\ [][MCNext]_allVars /\ MCFairness

-----------------------------------------------------------------------------
(* The properties.  ElogSafe, QuietViewExact and CallsReturn are those of  *)
(* Elog, SrpcSafe and AllRead those of Srpc.                               *)

\* FilesSafe of FileIO: bytes in order both ways, no event handled for another file
\* unless its own has been deleted since, exact interest in writing, nothing left when
\* a file is closed, and no failure of a poller that is the only reader of peers that
\* neither fail nor leave early (iomux, socket, cli/file.go).
FilesSafe == /\ part = "both" => Both!FilesSafe
             /\ part = "file" => File!FilesSafe
             /\ part = "socket" => Socket!FilesSafe
             /\ part = "stale" => Stale!FilesSafe
             /\ part = "badFile" => BadFile!FilesSafe
             /\ part = "badSocket" => BadSocket!FilesSafe

\* AllSent of FileIO: what is written reaches a peer that neither fails nor leaves
\* early (iomux/filebuf.go).
AllSent == part \in {"both", "file", "socket"} => Both!AllSent

=============================================================================
