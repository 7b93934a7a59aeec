---------------------------- MODULE FileTransfer ----------------------------
(***************************************************************************)
(* The file callbacks (libosdp/src/ffi/file.rs, file.rs) of the two ends   *)
(* of a transfer: the ControlPanel that sends a file and the               *)
(* PeripheralDevice that receives it, each with a FileOps of its own in a  *)
(* box that LibOSDP's callbacks reach by pointer.                          *)
(*                                                                         *)
(* The byte at position i of the sent file is i, and Junk is a byte that   *)
(* no read filled in, or that lies past the size the sender announced.     *)
(* What an application's FileOps answers is chosen     *)
(* freely, errors and impossible counts included; file_open, file_read,    *)
(* file_write and file_finalize turn the answers into what LibOSDP sees.   *)
(* How LibOSDP drives them, over a line that may lose messages, is stated  *)
(* as bindings.rs and file.rs document it: the definitions whose names     *)
(* begin with C_.  Messages, frames and the delay of a pending finalize    *)
(* have no more detail than that.                                          *)
(***************************************************************************)
EXTENDS Integers, Sequences

CONSTANTS
  Size,         \* bytes of the file, as FileOps::open reports them
  Chunk,        \* bytes LibOSDP asks for at a time
  None,         \* no message
  MaxLosses     \* bound: how many messages the line loses

ASSUME ConstantsAssumption ==
  /\ Size \in Nat \ {0}
  /\ Chunk \in Nat \ {0}
  /\ MaxLosses \in Nat

VARIABLES
  context,      \* of each end: up, torn down, or gone with its FileOps
  freed,        \* how often each end's FileOpsArg was freed
  file,         \* the file of each FileOps: none, open in a mode, closed
  engine,       \* LibOSDP: what each end's transfer is at
  offset,       \* LibOSDP: the offset that file_progress reports
  chunk,        \* LibOSDP: what the CP sent last
  verdict,      \* LibOSDP: how the PD's transfer ends
  req, rep,     \* the message on the line to the PD, and to the CP
  losses,       \* history: how many messages were lost
  disk,         \* what the receiving FileOps has written
  answer,       \* history: the answer of FileOps::finalize
  outcome       \* how the CP's transfer ended

callbackVars == <<context, freed, file>>
engineVars   == <<engine, offset, chunk, verdict>>
lineVars     == <<req, rep, losses>>
vars == <<callbackVars, engineVars, lineVars, disk, answer, outcome>>

Ends      == {"cp", "pd"}
Positions == 0..(Size - 1)
Junk      == Size
Failed    == -1                           \* an Err of FileOps
Answers   == {"pending", "ok", "invalid"} \* of FileOps::finalize
KeepAlive == [off |-> Size, bytes |-> <<>>]
Stop      == [off |-> Size + 1, bytes |-> <<>>]
Message   == [off : 0..(Size + 1), bytes : Seq(Positions \union {Junk})]
Verdicts  == {"ok", "invalid", "abort"}
Responses == {"proceed", "finishing"} \union Verdicts

ASSUME NoneAssumption == None \notin Message \union Responses

Greater(a, b) == IF a < b THEN b ELSE a

-----------------------------------------------------------------------------
(* The callbacks of ffi/file.rs.                                           *)

(* The way file_open opens a file, by the role of its end.                 *)
Mode(e) == IF e = "cp" THEN "read" ELSE "write"

(* file_open returns 0, or -1 if FileOps::open failed.  Its mutant hides   *)
(* the failure.                                                            *)
FileOpenAlways(ok) == 0

FileOpen(ok) == IF ok THEN 0 ELSE -1

(* file_read and file_write pass on a count that fits the n bytes at hand, *)
(* and turn any other, and an error, into -1.  A count that fits is        *)
(* trusted to be true.  The mutants pass on any count.                     *)
ReadUnchecked(count, n) == count

FileRead(count, n) == IF count \in 0..n THEN count ELSE -1

WriteUnchecked(count, n) == count

FileWrite(count, n) == IF count \in 0..n THEN count ELSE -1

(* as_raw registers file_finalize for the receiver alone.                  *)
Finalizes(e) == e = "pd"

(* file_finalize: the transfer is done, with the application's outcome, or *)
(* is not.  One mutant leaves the outcome as LibOSDP initialised it, the   *)
(* other returns the wrong way round.                                      *)
FinalizeAtOnce(a) == [done |-> TRUE, outcome |-> IF a = "pending" THEN "ok" ELSE a]

FinalizeInverted(a) == [done |-> a = "pending", outcome |-> a]

FileFinalize(a) == [done |-> a # "pending", outcome |-> a]

-----------------------------------------------------------------------------
(* The sender.                                                             *)

(* Opening the file of end e; it moves on to "next" if that worked.        *)
Open(e, ok, next) ==
  /\ file' = IF ok THEN [file EXCEPT ![e] = Mode(e)] ELSE file
  /\ engine' = [engine EXCEPT ![e] = IF FileOpen(ok) = 0 THEN next ELSE "ended"]

(* The transfer of end e is over, and its file closed.                     *)
Close(e) ==
  /\ file' = [file EXCEPT ![e] = "closed"]
  /\ engine' = [engine EXCEPT ![e] = "ended"]

(* osdp_cp_submit_command with an OSDP_CMD_FILE_TX, of which FileOps::open *)
(* reports a size or fails; the open file is closed if LibOSDP refuses the *)
(* command because there is nothing to send.                               *)
Submit(size) ==
  /\ context["cp"] = "up" /\ engine["cp"] = "idle"
  /\ IF size = 0 THEN Close("cp") ELSE Open("cp", size # Failed, "ready")
  /\ outcome' = IF engine'["cp"] = "ready" THEN outcome ELSE "failed"
  /\ UNCHANGED <<context, freed, offset, chunk, verdict, lineVars, disk, answer>>

(* What the buffer of a read holds, of which the first n bytes are sent.   *)
Filled(n) ==
  [i \in 1..n |-> IF i <= Chunk /\ offset["cp"] + i <= Size
                    THEN offset["cp"] + i - 1 ELSE Junk]

(* A read gives up to Chunk bytes, past the announced size too if the file *)
(* has grown; it may give fewer, or none, report more than were asked for, *)
(* or fail.                                                                *)
ReadCounts == {Failed} \union 0..(Chunk + 1)

SendChunk(count) ==
  /\ engine["cp"] = "ready"
  /\ LET n == FileRead(count, Chunk) IN
       IF n > 0
         THEN /\ chunk' = [off |-> offset["cp"], bytes |-> Filled(n)]
              /\ req' = chunk'
              /\ engine' = [engine EXCEPT !["cp"] = "waiting"]
              /\ UNCHANGED <<file, outcome>>
         ELSE /\ Close("cp")
              /\ req' = Stop /\ outcome' = "failed"
              /\ UNCHANGED chunk
  /\ UNCHANGED <<context, freed, offset, verdict, rep, losses, disk, answer>>

Quiet == req = None /\ rep = None

(* No reply came in time, or it is time to ask a finishing PD again.       *)
C_SendAgain ==
  /\ context["cp"] = "up" /\ engine["cp"] \in {"waiting", "finishing"} /\ Quiet
  /\ req' = IF engine["cp"] = "waiting" THEN chunk ELSE KeepAlive
  /\ UNCHANGED <<callbackVars, engineVars, rep, losses, disk, answer, outcome>>

(* osdp_FTSTAT reaches the CP.                                             *)
C_Reply ==
  /\ context["cp"] = "up" /\ engine["cp"] \in {"waiting", "finishing"} /\ rep # None
  /\ rep' = None
  /\ IF rep \in {"proceed", "finishing"}
       THEN /\ engine' = [engine EXCEPT !["cp"] =
                            IF rep = "proceed" THEN "ready" ELSE "finishing"]
            /\ offset' = [offset EXCEPT !["cp"] = chunk.off + Len(chunk.bytes)]
            /\ UNCHANGED <<file, outcome>>
       ELSE /\ Close("cp")
            /\ outcome' = IF rep = "ok" THEN "ok" ELSE "failed"
            /\ UNCHANGED offset
  /\ UNCHANGED <<context, freed, chunk, verdict, req, losses, disk, answer>>

(* The application cancelled the transfer, LibOSDP gave it up over what it *)
(* was given to send, or the PD went offline.                              *)
Offline == context["pd"] # "up"

C_Abort ==
  /\ engine["cp"] \in {"ready", "waiting", "finishing"} /\ (Quiet \/ Offline)
  /\ Close("cp")
  /\ outcome' = "failed"
  /\ req' \in {None, Stop}
  /\ UNCHANGED <<context, freed, offset, chunk, verdict, rep, losses, disk, answer>>

-----------------------------------------------------------------------------
(* The receiver.  While its engine is in one of these phases it is in the  *)
(* middle of a refresh, with "req" the message at hand.                    *)
InCallback == {"opening", "writing", "finalizing", "closing"}

Respond(r) == req' = None /\ rep' = r

(* A message reaches the PD; one that needs no callback is answered.       *)
C_Receive ==
  /\ context["pd"] = "up" /\ req # None /\ engine["pd"] \notin InCallback
  /\ \/ /\ engine["pd"] = "idle" /\ req # Stop
        /\ engine' = [engine EXCEPT !["pd"] = "opening"] /\ UNCHANGED <<req, rep>>
     \/ /\ engine["pd"] \in {"receiving", "finishing"} /\ req = Stop
        /\ engine' = [engine EXCEPT !["pd"] = "closing"] /\ UNCHANGED <<req, rep>>
     \/ /\ engine["pd"] \in {"receiving", "finishing"} /\ req # Stop
        /\ engine' = [engine EXCEPT !["pd"] =
                        IF req = KeepAlive THEN "finalizing" ELSE "writing"]
        /\ UNCHANGED <<req, rep>>
     \/ /\ engine["pd"] \in {"idle", "ended"} /\ req = Stop
        /\ Respond(None) /\ UNCHANGED engine
     \/ /\ engine["pd"] = "ended" /\ req # Stop
        /\ Respond(verdict) /\ UNCHANGED engine
  /\ UNCHANGED <<callbackVars, offset, chunk, verdict, losses, disk, answer, outcome>>

OpenReceived(ok) ==
  /\ engine["pd"] = "opening"
  /\ Open("pd", ok, "writing")
  /\ IF FileOpen(ok) = 0
       THEN UNCHANGED <<req, rep, verdict>>
       ELSE Respond("abort") /\ verdict' = "abort"
  /\ UNCHANGED <<context, freed, offset, chunk, losses, disk, answer, outcome>>

(* The application writes the first "stored" bytes of the piece and says   *)
(* it wrote "count": as many, more than there were, or none for an error.  *)
Stored(stored) ==
  disk' = [i \in Positions |-> IF i \in req.off..(req.off + stored - 1)
                                 THEN req.bytes[i - req.off + 1] ELSE disk[i]]

WriteCounts(n, stored) == {stored, n + 1, Failed}

(* A piece written in part ends the transfer, as one that passes the size  *)
(* announced may; the one that reaches it lets the transfer finish.        *)
WriteChunk(stored, count) ==
  /\ engine["pd"] = "writing"
  /\ stored <= Len(req.bytes) /\ count \in WriteCounts(Len(req.bytes), stored)
  /\ Stored(stored)
  /\ LET n == FileWrite(count, Len(req.bytes))
         reached == Greater(offset["pd"], req.off + n)
     IN  IF n < Len(req.bytes)
           THEN /\ engine' = [engine EXCEPT !["pd"] = "closing"]
                /\ verdict' = "abort"
                /\ UNCHANGED <<offset, req, rep>>
           ELSE /\ offset' = [offset EXCEPT !["pd"] = reached]
                /\ IF reached >= Size
                     THEN /\ engine' = [engine EXCEPT !["pd"] = "finalizing"]
                          /\ UNCHANGED <<req, rep>>
                     ELSE /\ engine' = [engine EXCEPT !["pd"] = "receiving"]
                          /\ Respond("proceed")
                /\ UNCHANGED verdict
  /\ UNCHANGED <<callbackVars, chunk, losses, answer, outcome>>

(* LibOSDP takes a missing file_finalize for one that says ok.             *)
Finalize(a) ==
  /\ engine["pd"] = "finalizing"
  /\ LET f == IF Finalizes("pd") THEN FileFinalize(a)
                                 ELSE [done |-> TRUE, outcome |-> "ok"]
     IN  /\ answer' = IF Finalizes("pd") THEN a ELSE answer
         /\ IF f.done
              THEN /\ verdict' = f.outcome
                   /\ engine' = [engine EXCEPT !["pd"] = "closing"]
                   /\ UNCHANGED <<req, rep>>
              ELSE /\ engine' = [engine EXCEPT !["pd"] = "finishing"]
                   /\ Respond("finishing")
                   /\ UNCHANGED verdict
  /\ UNCHANGED <<callbackVars, offset, chunk, losses, disk, outcome>>

(* file_close; the CP is told how the transfer ended, unless it knows.     *)
CloseReceived ==
  /\ engine["pd"] = "closing"
  /\ Close("pd")
  /\ IF req = Stop THEN Respond(None) /\ verdict' = "abort"
                     ELSE Respond(verdict) /\ UNCHANGED verdict
  /\ UNCHANGED <<context, freed, offset, chunk, losses, disk, answer, outcome>>

-----------------------------------------------------------------------------
(* The line, and the end of the contexts.                                  *)

Lose ==
  /\ losses < MaxLosses /\ ~Quiet /\ engine["pd"] \notin InCallback
  /\ req' = None /\ rep' = None /\ losses' = losses + 1
  /\ UNCHANGED <<callbackVars, engineVars, disk, answer, outcome>>

(* ControlPanel::drop and PeripheralDevice::drop: LibOSDP tears the        *)
(* context down, which closes its open file and ends a running command.    *)
Teardown(e) ==
  /\ context[e] = "up" /\ engine[e] \notin InCallback
  /\ context' = [context EXCEPT ![e] = "torn down"]
  /\ IF engine[e] \in {"idle", "ended"} THEN UNCHANGED <<file, engine>> ELSE Close(e)
  /\ outcome' = IF e = "cp" /\ engine[e] \notin {"idle", "ended"} THEN "failed" ELSE outcome
  /\ UNCHANGED <<freed, offset, chunk, verdict, lineVars, disk, answer>>

(* OwnedFileOps::drop: a field is dropped after the context's own drop.    *)
(* The mutant frees the box before.                                        *)
FreeOpsFirst(e) ==
  /\ context[e] # "gone" /\ freed[e] = 0 /\ engine[e] \notin InCallback
  /\ freed' = [freed EXCEPT ![e] = @ + 1]
  /\ UNCHANGED context
  /\ UNCHANGED <<file, engineVars, lineVars, disk, answer, outcome>>

FreeOps(e) ==
  /\ context[e] = "torn down"
  /\ freed' = [freed EXCEPT ![e] = @ + 1]
  /\ context' = [context EXCEPT ![e] = "gone"]
  /\ UNCHANGED <<file, engineVars, lineVars, disk, answer, outcome>>

-----------------------------------------------------------------------------
Init ==
  /\ context = [e \in Ends |-> "up"]
  /\ freed = [e \in Ends |-> 0]
  /\ file = [e \in Ends |-> "none"]
  /\ engine = [e \in Ends |-> "idle"]
  /\ offset = [e \in Ends |-> 0]
  /\ chunk = KeepAlive
  /\ verdict = None
  /\ req = None /\ rep = None /\ losses = 0
  /\ disk = [i \in Positions |-> Junk]
  /\ answer = "none"
  /\ outcome = "open"

Sending ==
  \/ \E size \in {Failed, 0, Size} : Submit(size)
  \/ \E count \in ReadCounts : SendChunk(count)
  \/ C_SendAgain \/ C_Reply \/ C_Abort

Receiving ==
  \/ C_Receive
  \/ \E ok \in BOOLEAN : OpenReceived(ok)
  \/ \E stored \in 0..Chunk, count \in -1..(Chunk + 1) : WriteChunk(stored, count)
  \/ \E a \in Answers : Finalize(a)
  \/ CloseReceived

Next ==
  \/ Sending
  \/ Receiving
  \/ Lose
  \/ \E e \in Ends : Teardown(e) \/ FreeOps(e)

Spec == Init /\ [][Next]_vars

(* Both contexts are refreshed for as long as they live, so that LibOSDP   *)
(* sends, answers and notices a PD that went away; and an application that *)
(* works on a file it received is done with it at last.                    *)
Fairness ==
  /\ WF_vars(\E count \in ReadCounts : SendChunk(count))
  /\ WF_vars(C_SendAgain) /\ WF_vars(C_Reply)
  /\ WF_vars(Offline /\ C_Abort)
  /\ WF_vars(Receiving)
  /\ SF_vars(\E a \in Answers \ {"pending"} : Finalize(a))

FairSpec == Spec /\ Fairness

-----------------------------------------------------------------------------
(* Properties.                                                             *)

CallbackTypes ==
  /\ context \in [Ends -> {"up", "torn down", "gone"}]
  /\ freed \in [Ends -> {0, 1}]
  /\ file \in [Ends -> {"none", "read", "write", "closed"}]
  /\ engine \in [Ends -> {"idle", "ready", "waiting", "receiving", "finishing", "ended"}
                           \union InCallback]

(* Every variable has its type; no message carries more than Chunk bytes,  *)
(* so that no offset passes the announced size by a whole chunk, whatever  *)
(* count FileOps reports for a read: file_read passes on none that is past *)
(* its buffer, and LibOSDP reads no more once the size is reached.         *)
TypeOK ==
  /\ CallbackTypes
  /\ offset \in [Ends -> 0..(Size + Chunk - 1)]
  /\ chunk \in Message /\ Len(chunk.bytes) <= Chunk
  /\ req \in {None, Stop, KeepAlive, chunk}
  /\ verdict \in Verdicts \union {None}
  /\ rep \in Responses \union {None}
  /\ losses \in 0..MaxLosses
  /\ disk \in [Positions -> Positions \union {Junk}]
  /\ answer \in Answers \union {"none"}
  /\ outcome \in {"open", "ok", "failed"}

(* LibOSDP reads, writes, finishes or closes only a file that FileOps has  *)
(* opened, in the mode that its end needs, and has not closed; and leaves  *)
(* no file open when the transfer is over.  It rests on file_open and its  *)
(* callers agreeing on what a refused open, a failed read and a dropped    *)
(* context mean.                                                           *)
UsedWhileOpen ==
  /\ engine["cp"] \in {"ready", "waiting", "finishing"} <=> file["cp"] = "read"
  /\ engine["pd"] \in {"writing", "receiving", "finalizing", "finishing", "closing"}
       <=> file["pd"] = "write"

(* The box of an end's FileOps outlives every file it has open and every   *)
(* callback still to come: it is freed once, after the teardown that       *)
(* closes the file.                                                        *)
FreedAfterLastCall ==
  \A e \in Ends : freed[e] > 0 => /\ freed[e] = 1
                                  /\ engine[e] \in {"idle", "ended"}
                                  /\ file[e] \in {"none", "closed"}

(* The progress the two ends report differs by no more than the chunk on   *)
(* its way, and the CP never is ahead, whatever was resent, reported short *)
(* or over-reported.                                                       *)
ProgressAgrees ==
  (engine["cp"] # "ended" /\ engine["pd"] # "ended") =>
    /\ offset["cp"] <= offset["pd"]
    /\ offset["pd"] <= offset["cp"] + Chunk
    /\ engine["cp"] = "ready" => offset["cp"] = offset["pd"]

(* The transfer keeps the promises of FileDelivery: the bytes received are *)
(* those sent and stay so, finalize is asked once all are there and until  *)
(* it is done, and the CP reports success only if the receiver did.        *)
Delivery == INSTANCE FileDelivery WITH
  got  <- {i \in Positions : disk[i] = i},
  said <- answer,
  end  <- outcome

KeepsDelivery == Delivery!Spec

(* A transfer that began ends, though messages are lost and the receiver   *)
(* asks again and again for more time, or goes away: no reply or answer    *)
(* leaves the two ends waiting for each other.                             *)
TransferEnds == engine["cp"] = "ready" ~> engine["cp"] = "ended"
=============================================================================
