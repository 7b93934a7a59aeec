-------------------------- MODULE FileTransferProofs --------------------------
(***************************************************************************)
(* The FileOps of the two ends are called only while LibOSDP may call      *)
(* them: a file is read, written, finished and closed only between its     *)
(* open and its close, and the box is freed after the last call.  And the  *)
(* transfer does what FileDelivery promises, over a line that loses        *)
(* messages: an invariant relates what the two ends are at, the message    *)
(* on the line and the disk.                                               *)
(***************************************************************************)
EXTENDS FileTransfer, SequenceTheorems, TLAPS

(* A context that is up has its box; one that is gone has freed it; and    *)
(* the teardown leaves nothing of a transfer.                              *)
BoxFollowsContext ==
  \A e \in Ends :
    /\ freed[e] = IF context[e] = "gone" THEN 1 ELSE 0
    /\ context[e] # "up" => engine[e] \in {"idle", "ended"}

(* Each end's engine is in the phases of its role, and opens its file in   *)
(* the mode of its role.                                                   *)
RolesOfEnds ==
  /\ file["cp"] # "write" /\ file["pd"] # "read"
  /\ engine["cp"] \in {"idle", "ready", "waiting", "finishing", "ended"}
  /\ engine["pd"] \in {"idle", "receiving", "finishing", "ended"} \union InCallback

CallbackInv == CallbackTypes /\ RolesOfEnds /\ UsedWhileOpen /\ BoxFollowsContext

(* Open and Close are all that changes a file.                             *)
LEMMA OpenCp ==
  ASSUME CallbackInv, NEW ok \in BOOLEAN, engine["cp"] = "idle", context["cp"] = "up",
         Open("cp", ok, "ready"), UNCHANGED <<context, freed>>
  PROVE  CallbackInv'
<1>1. CASE ok
  <2>1. file' = [file EXCEPT !["cp"] = "read"] /\ engine' = [engine EXCEPT !["cp"] = "ready"]
    BY <1>1 DEF Open, FileOpen, Mode
  <2> QED
    BY <2>1 DEF CallbackInv, CallbackTypes, RolesOfEnds, UsedWhileOpen, BoxFollowsContext,
       Ends, InCallback
<1>2. CASE ~ok
  <2>1. file' = file /\ engine' = [engine EXCEPT !["cp"] = "ended"]
    BY <1>2 DEF Open, FileOpen
  <2> QED
    BY <2>1 DEF CallbackInv, CallbackTypes, RolesOfEnds, UsedWhileOpen, BoxFollowsContext,
       Ends, InCallback
<1> QED
  BY <1>1, <1>2

LEMMA OpenPd ==
  ASSUME CallbackInv, NEW ok \in BOOLEAN, engine["pd"] = "opening",
         Open("pd", ok, "writing"), UNCHANGED <<context, freed>>
  PROVE  CallbackInv'
<1>1. CASE ok
  <2>1. file' = [file EXCEPT !["pd"] = "write"] /\ engine' = [engine EXCEPT !["pd"] = "writing"]
    BY <1>1 DEF Open, FileOpen, Mode
  <2> QED
    BY <2>1 DEF CallbackInv, CallbackTypes, RolesOfEnds, UsedWhileOpen, BoxFollowsContext,
       Ends, InCallback
<1>2. CASE ~ok
  <2>1. file' = file /\ engine' = [engine EXCEPT !["pd"] = "ended"]
    BY <1>2 DEF Open, FileOpen
  <2> QED
    BY <2>1 DEF CallbackInv, CallbackTypes, RolesOfEnds, UsedWhileOpen, BoxFollowsContext,
       Ends, InCallback
<1> QED
  BY <1>1, <1>2

LEMMA CloseEnd ==
  ASSUME CallbackInv, NEW e \in Ends, Close(e), UNCHANGED freed,
         \/ UNCHANGED context
         \/ context[e] = "up" /\ context' = [context EXCEPT ![e] = "torn down"]
  PROVE  CallbackInv'
<1>1. /\ file' = [file EXCEPT ![e] = "closed"] /\ engine' = [engine EXCEPT ![e] = "ended"]
      /\ freed' = freed
  BY DEF Close
<1>2. CallbackTypes'
  BY <1>1 DEF CallbackInv, CallbackTypes, InCallback
<1>3. \A o \in Ends : /\ file'[o] = IF o = e THEN "closed" ELSE file[o]
                      /\ engine'[o] = IF o = e THEN "ended" ELSE engine[o]
  BY <1>1 DEF CallbackInv, CallbackTypes
<1>4. BoxFollowsContext'
  <2> SUFFICES ASSUME NEW o \in Ends
               PROVE  /\ freed'[o] = (IF context'[o] = "gone" THEN 1 ELSE 0)
                      /\ context'[o] # "up" => engine'[o] \in {"idle", "ended"}
    BY DEF BoxFollowsContext
  <2>1. \/ context'[o] = context[o]
        \/ o = e /\ context[o] = "up" /\ context'[o] = "torn down"
    BY DEF CallbackInv, CallbackTypes
  <2> QED
    BY <1>1, <1>3, <2>1 DEF CallbackInv, BoxFollowsContext
<1>5. RolesOfEnds' /\ UsedWhileOpen'
  BY <1>3 DEF CallbackInv, RolesOfEnds, UsedWhileOpen, Ends, InCallback
<1> QED
  BY <1>2, <1>4, <1>5 DEF CallbackInv

(* A step of an engine that stays among the phases with an open file.      *)
LEMMA StepOfCp ==
  ASSUME CallbackInv, NEW p \in {"ready", "waiting", "finishing"},
         engine["cp"] \in {"ready", "waiting", "finishing"},
         engine' = [engine EXCEPT !["cp"] = p], UNCHANGED callbackVars
  PROVE  CallbackInv'
BY DEF CallbackInv, CallbackTypes, RolesOfEnds, UsedWhileOpen, BoxFollowsContext,
       callbackVars, Ends, InCallback

LEMMA StepOfPd ==
  ASSUME CallbackInv,
         NEW p \in {"receiving", "finishing", "writing", "finalizing", "closing"},
         engine["pd"] \in {"receiving", "finishing", "writing", "finalizing", "closing"},
         engine' = [engine EXCEPT !["pd"] = p], UNCHANGED callbackVars
  PROVE  CallbackInv'
BY DEF CallbackInv, CallbackTypes, RolesOfEnds, UsedWhileOpen, BoxFollowsContext,
       callbackVars, Ends, InCallback

LEMMA NothingChanges ==
  ASSUME CallbackInv, UNCHANGED <<callbackVars, engine>>
  PROVE  CallbackInv'
BY DEF CallbackInv, CallbackTypes, RolesOfEnds, UsedWhileOpen, BoxFollowsContext, callbackVars

-----------------------------------------------------------------------------
LEMMA InitHolds == Init => CallbackInv
BY DEF Init, CallbackInv, CallbackTypes, RolesOfEnds, UsedWhileOpen, BoxFollowsContext, Ends,
       InCallback

LEMMA SendingKeeps == CallbackInv /\ Sending => CallbackInv'
<1> SUFFICES ASSUME CallbackInv, Sending PROVE CallbackInv'
  OBVIOUS
<1>1. ASSUME NEW size \in {Failed, 0, Size}, Submit(size) PROVE CallbackInv'
  <2>1. /\ engine["cp"] = "idle" /\ context["cp"] = "up" /\ UNCHANGED <<context, freed>>
        /\ IF size = 0 THEN Close("cp") ELSE Open("cp", size # Failed, "ready")
    BY <1>1 DEF Submit
  <2>2. (size # Failed) \in BOOLEAN
    OBVIOUS
  <2> QED
    BY <2>1, <2>2, OpenCp, CloseEnd DEF Ends
<1>2. ASSUME NEW count \in ReadCounts, SendChunk(count) PROVE CallbackInv'
  <2>1. CASE FileRead(count, Chunk) > 0
    BY <1>2, <2>1, StepOfCp DEF SendChunk, callbackVars
  <2>2. CASE ~(FileRead(count, Chunk) > 0)
    BY <1>2, <2>2, CloseEnd DEF SendChunk, Ends
  <2> QED
    BY <2>1, <2>2
<1>3. CASE C_SendAgain
  BY <1>3, NothingChanges DEF C_SendAgain, engineVars
<1>4. CASE C_Reply
  <2>1. CASE rep \in {"proceed", "finishing"}
    BY <1>4, <2>1, StepOfCp DEF C_Reply, callbackVars
  <2>2. CASE rep \notin {"proceed", "finishing"}
    BY <1>4, <2>2, CloseEnd DEF C_Reply, Ends
  <2> QED
    BY <2>1, <2>2
<1>5. CASE C_Abort
  BY <1>5, CloseEnd DEF C_Abort, Ends
<1> QED
  BY <1>1, <1>2, <1>3, <1>4, <1>5 DEF Sending

(* A PD that is sent the first piece of a file begins to open it.          *)
LEMMA BeginOpening ==
  ASSUME CallbackInv, context["pd"] = "up", engine["pd"] = "idle",
         engine' = [engine EXCEPT !["pd"] = "opening"], UNCHANGED callbackVars
  PROVE  CallbackInv'
BY DEF CallbackInv, CallbackTypes, RolesOfEnds, UsedWhileOpen, BoxFollowsContext,
       callbackVars, Ends, InCallback

LEMMA ReceivingKeeps == CallbackInv /\ Receiving => CallbackInv'
<1> SUFFICES ASSUME CallbackInv, Receiving PROVE CallbackInv'
  OBVIOUS
<1>1. CASE C_Receive
  <2>1. UNCHANGED callbackVars /\ context["pd"] = "up"
    BY <1>1 DEF C_Receive
  <2>2. CASE engine["pd"] = "idle" /\ engine' = [engine EXCEPT !["pd"] = "opening"]
    BY <2>1, <2>2, BeginOpening
  <2>3. CASE /\ engine["pd"] \in {"receiving", "finishing"}
             /\ \E p \in {"closing", "finalizing", "writing"} :
                  engine' = [engine EXCEPT !["pd"] = p]
    BY <2>1, <2>3, StepOfPd
  <2>4. CASE UNCHANGED engine
    BY <2>1, <2>4, NothingChanges
  <2> QED
    BY <1>1, <2>2, <2>3, <2>4 DEF C_Receive
<1>2. ASSUME NEW ok \in BOOLEAN, OpenReceived(ok) PROVE CallbackInv'
  BY <1>2, OpenPd DEF OpenReceived
<1>3. ASSUME NEW stored \in 0..Chunk, NEW count \in -1..(Chunk + 1), WriteChunk(stored, count)
      PROVE  CallbackInv'
  <2>1. /\ engine["pd"] = "writing" /\ UNCHANGED callbackVars
        /\ \E p \in {"closing", "finalizing", "receiving"} :
             engine' = [engine EXCEPT !["pd"] = p]
    BY <1>3 DEF WriteChunk
  <2> QED
    BY <2>1, StepOfPd
<1>4. ASSUME NEW a \in Answers, Finalize(a) PROVE CallbackInv'
  <2>1. /\ engine["pd"] = "finalizing" /\ UNCHANGED callbackVars
        /\ \E p \in {"closing", "finishing"} : engine' = [engine EXCEPT !["pd"] = p]
    BY <1>4 DEF Finalize
  <2> QED
    BY <2>1, StepOfPd
<1>5. CASE CloseReceived
  BY <1>5, CloseEnd DEF CloseReceived, Ends
<1> QED
  BY <1>1, <1>2, <1>3, <1>4, <1>5 DEF Receiving

LEMMA DroppingKeeps ==
  ASSUME CallbackInv, NEW e \in Ends, Teardown(e) \/ FreeOps(e)
  PROVE  CallbackInv'
<1>1. CASE Teardown(e) /\ engine[e] \in {"idle", "ended"}
  BY <1>1 DEF Teardown, CallbackInv, CallbackTypes, RolesOfEnds, UsedWhileOpen,
     BoxFollowsContext, Ends, InCallback
<1>2. CASE Teardown(e) /\ engine[e] \notin {"idle", "ended"}
  BY <1>2, CloseEnd DEF Teardown
<1>3. CASE FreeOps(e)
  <2>1. freed[e] = 0 /\ engine[e] \in {"idle", "ended"}
    BY <1>3 DEF FreeOps, CallbackInv, BoxFollowsContext
  <2>2. /\ freed' = [freed EXCEPT ![e] = 1]
        /\ context' = [context EXCEPT ![e] = "gone"]
        /\ file' = file /\ engine' = engine
    <3>1. freed[e] + 1 = 1
      BY <2>1
    <3>2. freed' = [freed EXCEPT ![e] = freed[e] + 1]
      BY <1>3 DEF FreeOps
    <3>3. context' = [context EXCEPT ![e] = "gone"] /\ file' = file /\ engine' = engine
      BY <1>3 DEF FreeOps, engineVars
    <3> QED
      BY <3>1, <3>2, <3>3
  <2>3. CallbackTypes'
    BY <2>2 DEF CallbackInv, CallbackTypes
  <2>4. ASSUME NEW f \in Ends
        PROVE  /\ freed'[f] = IF context'[f] = "gone" THEN 1 ELSE 0
               /\ context'[f] # "up" => engine'[f] \in {"idle", "ended"}
    <3>1. CASE f = e
      BY <2>1, <2>2, <3>1 DEF CallbackInv, CallbackTypes
    <3>2. CASE f # e
      BY <2>2, <3>2 DEF CallbackInv, CallbackTypes, BoxFollowsContext
    <3> QED
      BY <3>1, <3>2
  <2> QED
    BY <2>2, <2>3, <2>4 DEF CallbackInv, RolesOfEnds, UsedWhileOpen, BoxFollowsContext
<1> QED
  BY <1>1, <1>2, <1>3

LEMMA StepHolds == CallbackInv /\ [Next]_vars => CallbackInv'
<1> SUFFICES ASSUME CallbackInv, [Next]_vars PROVE CallbackInv'
  OBVIOUS
<1>1. CASE Sending
  BY <1>1, SendingKeeps
<1>2. CASE Receiving
  BY <1>2, ReceivingKeeps
<1>3. CASE Lose \/ UNCHANGED vars
  BY <1>3, NothingChanges DEF Lose, vars, engineVars
<1>4. ASSUME NEW e \in Ends, Teardown(e) \/ FreeOps(e) PROVE CallbackInv'
  BY <1>4, DroppingKeeps
<1> QED
  BY <1>1, <1>2, <1>3, <1>4 DEF Next

LEMMA CallbackInvariant == Spec => []CallbackInv
BY InitHolds, StepHolds, PTL DEF Spec

-----------------------------------------------------------------------------
(* For every size of file and chunk and any number of lost messages, the   *)
(* callbacks of ffi/file.rs reach only a FileOps that has its file open.   *)
THEOREM CalledWhileOpen == Spec => []UsedWhileOpen
<1>1. CallbackInv => UsedWhileOpen
  BY DEF CallbackInv
<1> QED
  BY <1>1, CallbackInvariant, PTL

(* The FileOpsArg that LibOSDP points to outlives every call through that  *)
(* pointer, and is freed once (OwnedFileOps::drop after the context's).    *)
THEOREM FreedAtTheEnd == Spec => []FreedAfterLastCall
<1>1. ASSUME CallbackInv, NEW e \in Ends, freed[e] > 0
      PROVE  /\ freed[e] = 1
             /\ engine[e] \in {"idle", "ended"}
             /\ file[e] \in {"none", "closed"}
  <2>1. context[e] = "gone"
    BY <1>1 DEF CallbackInv, BoxFollowsContext
  <2>2. freed[e] = 1 /\ engine[e] \in {"idle", "ended"}
    BY <2>1, <1>1 DEF CallbackInv, BoxFollowsContext
  <2> QED
    BY <2>2, <1>1 DEF CallbackInv, CallbackTypes, RolesOfEnds, UsedWhileOpen, Ends
<1>2. CallbackInv => FreedAfterLastCall
  BY <1>1 DEF FreedAfterLastCall
<1> QED
  BY <1>2, CallbackInvariant, PTL

-----------------------------------------------------------------------------
(* What is on the line and on the disk.                                     *)

PdBusy == engine["pd"] # "ended"
ChunkEnd == chunk.off + Len(chunk.bytes)

(* What the CP sent last is a piece of the file, as far as the file is said *)
(* to go, and is what it waits for the PD to take.                          *)
HonestChunk ==
  /\ \A i \in 1..Len(chunk.bytes) :
       chunk.off + i <= Size => chunk.bytes[i] = chunk.off + i - 1
  /\ IF chunk.bytes = <<>> THEN chunk = KeepAlive ELSE chunk.off < Size
  /\ engine["cp"] = "waiting" => chunk.bytes # <<>> /\ chunk.off = offset["cp"]

(* The CP reads on, or is told to, only before the end of the file.         *)
ReadsWithin ==
  /\ engine["cp"] \in {"idle", "ready"} => Quiet /\ offset["cp"] < Size
  /\ rep = "proceed" => ChunkEnd < Size /\ (engine["cp"] # "ended" => req = None)

(* The line carries one message at a time, which the PD answers before it   *)
(* takes the next; a reply says what the PD is at.                          *)
OneMessage ==
  PdBusy =>
    /\ req = None \/ rep = None
    /\ engine["pd"] \in InCallback => req # None
    /\ rep \in {None, "proceed", "finishing"}
    /\ rep = "proceed" => engine["pd"] = "receiving" /\ offset["pd"] = ChunkEnd
    /\ rep = "finishing" => engine["pd"] = "finishing"
    /\ engine["pd"] \in {"opening", "writing"} => req = chunk
    /\ req = KeepAlive => engine["pd"] \in {"finishing", "finalizing", "closing"}

(* The ends are at most one chunk apart, the one that is on its way.        *)
InStep ==
  PdBusy =>
    /\ engine["cp"] \in {"idle", "ready"} =>
         offset["cp"] = offset["pd"] /\ engine["pd"] \in {"idle", "receiving"}
    /\ engine["cp"] = "waiting" => req \in {None, chunk}
    /\ engine["cp"] = "finishing" =>
         /\ offset["cp"] = ChunkEnd /\ offset["pd"] = ChunkEnd /\ ChunkEnd >= Size
         /\ engine["pd"] \in {"finishing", "finalizing", "closing"}
         /\ req \in {None, KeepAlive}
    /\ chunk.bytes # <<>> /\ (engine["cp"] = "waiting" \/ req = chunk) =>
         offset["pd"] \in {chunk.off, ChunkEnd}
    /\ engine["pd"] \in {"idle", "opening"} => offset["pd"] = 0
    /\ engine["pd"] \in {"finalizing", "finishing"} => offset["pd"] >= Size

(* What the PD counted is on the disk, and finalize was asked for the whole.*)
DiskHolds ==
  /\ \A i \in Positions : i < offset["pd"] => disk[i] = i
  /\ answer # "none" => \A i \in Positions : disk[i] = i

(* The verdict is the application's, and reaches the CP as it is.           *)
VerdictTold ==
  /\ engine["pd"] \notin {"closing", "ended"} =>
       answer \in {"none", "pending"} /\ verdict = None
  /\ verdict = "ok" => answer = "ok"
  /\ rep = "ok" => answer = "ok"
  /\ engine["cp"] # "ended" => outcome = "open"

TransferInv ==
  TypeOK /\ HonestChunk /\ ReadsWithin /\ OneMessage /\ InStep /\ DiskHolds /\ VerdictTold

-----------------------------------------------------------------------------
LEMMA SortsDiffer ==
  ASSUME TypeOK, HonestChunk
  PROVE  /\ None # Stop /\ None # KeepAlive /\ None # chunk /\ None \notin Responses
         /\ Stop # KeepAlive /\ Stop # chunk
         /\ chunk.bytes # <<>> => chunk # KeepAlive
         /\ chunk.off \in Nat /\ Len(chunk.bytes) \in Nat /\ chunk.bytes \in Seq(Nat)
         /\ ChunkEnd \in 0..(Size + Chunk - 1) /\ Size \in Nat /\ Chunk \in Nat
         /\ chunk.off <= Size /\ ChunkEnd = chunk.off + Len(chunk.bytes)
         /\ chunk.bytes # <<>> => Len(chunk.bytes) > 0 /\ chunk.off < ChunkEnd
<1>1. Size \in Nat \ {0} /\ Chunk \in Nat \ {0}
  BY ConstantsAssumption
<1>2. KeepAlive \in Message /\ Stop \in Message /\ chunk \in Message
  BY <1>1, EmptySeq DEF TypeOK, KeepAlive, Stop, Message
<1>3. None \notin Message /\ None \notin Responses
  BY NoneAssumption
<1>4. chunk.off \in 0..(Size + 1) /\ chunk.bytes \in Seq(Positions \union {Junk})
  BY <1>2 DEF Message
<1>5. Positions \union {Junk} \subseteq Nat
  BY <1>1 DEF Positions, Junk
<1>6. chunk.bytes \in Seq(Nat) /\ Len(chunk.bytes) \in Nat
  BY <1>4, <1>5
<1>7. chunk.bytes # <<>> => Len(chunk.bytes) > 0
  BY <1>6, EmptySeq
<1>8. IF chunk.bytes = <<>> THEN chunk = KeepAlive ELSE chunk.off < Size
  BY DEF HonestChunk
<1>9. KeepAlive.off = Size /\ Stop.off = Size + 1 /\ KeepAlive.bytes = <<>>
  BY DEF KeepAlive, Stop
<1>10. chunk.off <= Size
  BY <1>1, <1>4, <1>8, <1>9
<1>11. Stop # KeepAlive /\ Stop # chunk
  BY <1>1, <1>9, <1>10
<1>12. ChunkEnd \in 0..(Size + Chunk - 1) /\ (chunk.bytes # <<>> => chunk.off < ChunkEnd)
  <2>1. Len(chunk.bytes) <= Chunk
    BY DEF TypeOK
  <2>2. CASE chunk.bytes = <<>>
    <3>1. Len(chunk.bytes) = 0 /\ chunk.off = Size
      BY <1>8, <1>9, <2>2, EmptySeq
    <3> QED BY <1>1, <2>2, <3>1 DEF ChunkEnd
  <2>3. CASE chunk.bytes # <<>>
    BY <1>1, <1>4, <1>6, <1>7, <1>8, <2>1, <2>3 DEF ChunkEnd
  <2> QED BY <2>2, <2>3
<1>13. ChunkEnd = chunk.off + Len(chunk.bytes)
  BY DEF ChunkEnd
<1> QED BY <1>1, <1>2, <1>3, <1>4, <1>6, <1>7, <1>9, <1>10, <1>11, <1>12, <1>13

(* A read that fits is a piece of the file, as far as the file is said to   *)
(* go, from where the CP is.                                                *)
LEMMA PieceOfFile ==
  ASSUME TypeOK, offset["cp"] < Size,
         NEW count \in ReadCounts, FileRead(count, Chunk) > 0,
         NEW piece, piece = [off |-> offset["cp"], bytes |-> Filled(FileRead(count, Chunk))]
  PROVE  /\ piece \in Message /\ piece.off = offset["cp"]
         /\ Len(piece.bytes) \in 1..Chunk /\ piece.bytes # <<>>
         /\ \A i \in 1..Len(piece.bytes) :
              piece.off + i <= Size => piece.bytes[i] = piece.off + i - 1
<1> DEFINE n == FileRead(count, Chunk)
<1>1. Size \in Nat \ {0} /\ Chunk \in Nat \ {0} /\ offset["cp"] \in 0..(Size - 1)
  <2>1. offset["cp"] \in 0..(Size + Chunk - 1)
    BY DEF TypeOK, Ends
  <2> QED BY <2>1, ConstantsAssumption
<1>2. n = count /\ count \in 1..Chunk
  BY <1>1 DEF FileRead, ReadCounts, Failed
<1>3. \A i \in 1..n : /\ i <= Chunk
                      /\ offset["cp"] + i <= Size => offset["cp"] + i - 1 \in Positions
  BY <1>1, <1>2 DEF Positions
<1>4. Filled(n) = [i \in 1..n |-> IF offset["cp"] + i <= Size THEN offset["cp"] + i - 1 ELSE Junk]
  BY <1>3 DEF Filled
<1>5. Filled(n) \in Seq(Positions \union {Junk}) /\ Len(Filled(n)) = n
  <2>1. n \in Nat
    BY <1>1, <1>2
  <2> HIDE DEF n
  <2>2. Filled(n) \in [1..n -> Positions \union {Junk}]
    BY <1>3, <1>4
  <2> QED BY <2>1, <2>2
<1>6. /\ piece.off = offset["cp"] /\ piece.bytes = Filled(n) /\ piece \in Message
  BY <1>1, <1>5 DEF Message
<1>7. Len(piece.bytes) = n /\ piece.bytes # <<>>
  BY <1>2, <1>5, <1>6, EmptySeq
<1>8. \A i \in 1..n : piece.off + i <= Size => piece.bytes[i] = piece.off + i - 1
  BY <1>4, <1>6
<1> HIDE DEF n
<1> QED BY <1>1, <1>2, <1>6, <1>7, <1>8

-----------------------------------------------------------------------------
(* Every step of the sender preserves TransferInv.                          *)

LEMMA SubmitKeeps ==
  ASSUME CallbackInv, CallbackInv', TransferInv, NEW size \in {Failed, 0, Size}, Submit(size)
  PROVE  TransferInv'
<1>1. /\ engine["cp"] = "idle"
      /\ \/ engine' = [engine EXCEPT !["cp"] = "ready"]
         \/ engine' = [engine EXCEPT !["cp"] = "ended"]
      /\ outcome' = IF engine'["cp"] = "ready" THEN outcome ELSE "failed"
      /\ UNCHANGED <<offset, chunk, verdict, req, rep, losses, disk, answer>>
  BY DEF Submit, Open, Close, lineVars
<1>2. /\ engine'["cp"] \in {"ready", "ended"} /\ engine'["pd"] = engine["pd"]
      /\ engine'["cp"] = "ready" => outcome' = outcome
      /\ outcome' \in {outcome, "failed"}
  BY <1>1 DEF CallbackInv, CallbackTypes, Ends
<1>3. TypeOK'
  BY <1>1, <1>2 DEF TransferInv, TypeOK, CallbackInv
<1>4. HonestChunk' /\ ReadsWithin' /\ OneMessage'
  BY <1>1, <1>2 DEF TransferInv, HonestChunk, ReadsWithin, OneMessage, PdBusy, ChunkEnd, Quiet
<1>5. InStep'
  BY <1>1, <1>2 DEF TransferInv, InStep, PdBusy, ChunkEnd, Quiet
<1>6. DiskHolds' /\ VerdictTold'
  BY <1>1, <1>2 DEF TransferInv, DiskHolds, VerdictTold
<1> QED BY <1>3, <1>4, <1>5, <1>6 DEF TransferInv

(* The sender's transfer ends without success: nothing more is expected of  *)
(* it, and it may tell the PD to stop.                                      *)
LEMMA SenderFails ==
  ASSUME CallbackInv, CallbackInv', TransferInv, engine'["cp"] = "ended",
         engine'["pd"] = engine["pd"],
         UNCHANGED <<offset, chunk, verdict, losses, disk, answer>>,
         outcome' \in {outcome, "failed"},
         rep' = rep, req' \in {None, Stop, req},
         req' = req \/ (PdBusy => rep = None /\ engine["pd"] \notin InCallback)
  PROVE  TransferInv'
<1>0. engine'["cp"] # "waiting" /\ engine'["cp"] \notin {"idle", "ready", "finishing"}
  OBVIOUS
<1>1. TypeOK'
  BY DEF TransferInv, TypeOK, CallbackInv
<1>2. HonestChunk' /\ ReadsWithin'
  BY <1>0 DEF TransferInv, HonestChunk, ReadsWithin, ChunkEnd
<1>3. /\ None # Stop /\ None # KeepAlive /\ Stop # KeepAlive /\ Stop # chunk /\ None # chunk
  BY SortsDiffer DEF TransferInv
<1>4. OneMessage'
  BY <1>3 DEF TransferInv, OneMessage, PdBusy, ChunkEnd, Quiet, InCallback
<1>5. InStep'
  BY <1>0, <1>3 DEF TransferInv, InStep, PdBusy, ChunkEnd, Quiet
<1>6. DiskHolds' /\ VerdictTold'
  BY DEF TransferInv, DiskHolds, VerdictTold
<1> QED BY <1>1, <1>2, <1>4, <1>5, <1>6 DEF TransferInv

LEMMA SendChunkKeeps ==
  ASSUME CallbackInv, CallbackInv', TransferInv,
         NEW count \in ReadCounts, SendChunk(count)
  PROVE  TransferInv'
<1>0. /\ engine["cp"] = "ready" /\ Quiet /\ offset["cp"] < Size
      /\ UNCHANGED <<offset, verdict, rep, losses, disk, answer>>
  BY DEF SendChunk, TransferInv, ReadsWithin
<1>1. CASE FileRead(count, Chunk) > 0
  <2>1. /\ chunk' = [off |-> offset["cp"], bytes |-> Filled(FileRead(count, Chunk))]
        /\ req' = chunk' /\ engine' = [engine EXCEPT !["cp"] = "waiting"]
        /\ UNCHANGED outcome
    BY <1>1 DEF SendChunk
  <2>2. /\ chunk' \in Message /\ chunk'.off = offset["cp"]
        /\ Len(chunk'.bytes) \in 1..Chunk /\ chunk'.bytes # <<>>
        /\ \A i \in 1..Len(chunk'.bytes) :
             chunk'.off + i <= Size => chunk'.bytes[i] = chunk'.off + i - 1
    BY <1>0, <1>1, <2>1, PieceOfFile DEF TransferInv
  <2>3. engine'["cp"] = "waiting" /\ engine'["pd"] = engine["pd"]
    BY <2>1 DEF CallbackInv, CallbackTypes, Ends
  <2>4. TypeOK'
    BY <1>0, <2>1, <2>2, ConstantsAssumption DEF TransferInv, TypeOK, CallbackInv
  <2>5. HonestChunk' /\ ReadsWithin'
    <3>1. rep' # "proceed"
      BY <1>0, NoneAssumption DEF Quiet, Responses
    <3> QED BY <1>0, <2>2, <2>3, <3>1 DEF HonestChunk, ReadsWithin, ChunkEnd
  <2>6. PdBusy => rep = None /\ engine["pd"] \in {"idle", "receiving"}
                  /\ offset["cp"] = offset["pd"]
    BY <1>0 DEF TransferInv, InStep, Quiet
  <2>7. req' # KeepAlive /\ req' # None
    BY <2>1, <2>2, SortsDiffer, NoneAssumption DEF TransferInv, KeepAlive
  <2>8. None \notin Responses
    BY NoneAssumption
  <2>9. OneMessage'
    BY <1>0, <2>1, <2>3, <2>6, <2>7, <2>8
    DEF OneMessage, PdBusy, InCallback, Responses
  <2>10. InStep'
    BY <1>0, <2>1, <2>2, <2>3, <2>6 DEF TransferInv, InStep, PdBusy, Quiet
  <2>11. DiskHolds' /\ VerdictTold'
    BY <1>0, <2>1, <2>3 DEF TransferInv, DiskHolds, VerdictTold
  <2> QED BY <2>4, <2>5, <2>9, <2>10, <2>11 DEF TransferInv
<1>2. CASE ~(FileRead(count, Chunk) > 0)
  <2>1. /\ engine' = [engine EXCEPT !["cp"] = "ended"] /\ req' = Stop /\ outcome' = "failed"
        /\ chunk' = chunk
    BY <1>2 DEF SendChunk, Close
  <2>2. engine'["cp"] = "ended" /\ engine'["pd"] = engine["pd"]
    BY <2>1 DEF CallbackInv, CallbackTypes, Ends
  <2>3. PdBusy => rep = None /\ engine["pd"] \notin InCallback
    BY <1>0 DEF TransferInv, InStep, Quiet, InCallback
  <2>4. Stop # None
    BY SortsDiffer DEF TransferInv
  <2> QED BY <1>0, <2>1, <2>2, <2>3, <2>4, SenderFails
<1> QED BY <1>1, <1>2

LEMMA SendAgainKeeps ==
  ASSUME CallbackInv, CallbackInv', TransferInv, C_SendAgain
  PROVE  TransferInv'
<1>1. /\ engine["cp"] \in {"waiting", "finishing"} /\ Quiet
      /\ req' = IF engine["cp"] = "waiting" THEN chunk ELSE KeepAlive
      /\ UNCHANGED <<engine, offset, chunk, verdict, rep, losses, disk, answer, outcome>>
  BY DEF C_SendAgain, engineVars
<1>2. /\ None # KeepAlive /\ None # chunk /\ None \notin Responses
      /\ chunk.bytes # <<>> => chunk # KeepAlive
  BY SortsDiffer DEF TransferInv
<1>3. engine["cp"] = "waiting" => chunk.bytes # <<>>
  BY DEF TransferInv, HonestChunk
<1>4. TypeOK' /\ HonestChunk' /\ ReadsWithin'
  BY <1>1, <1>2 DEF TransferInv, TypeOK, CallbackInv, HonestChunk, ReadsWithin, ChunkEnd, Quiet, Responses
<1>5. PdBusy => engine["pd"] \notin InCallback
  BY <1>1 DEF TransferInv, OneMessage, Quiet
<1>6. OneMessage'
  BY <1>1, <1>2, <1>3, <1>5
  DEF TransferInv, OneMessage, InStep, PdBusy, ChunkEnd, Quiet, InCallback, Responses
<1>7. InStep'
  BY <1>1, <1>2, <1>3, <1>5 DEF TransferInv, InStep, PdBusy, ChunkEnd, Quiet
<1>8. DiskHolds' /\ VerdictTold'
  BY <1>1 DEF TransferInv, DiskHolds, VerdictTold
<1> QED BY <1>4, <1>6, <1>7, <1>8 DEF TransferInv

LEMMA ReplyKeeps ==
  ASSUME CallbackInv, CallbackInv', TransferInv, C_Reply
  PROVE  TransferInv'
<1>0. /\ engine["cp"] \in {"waiting", "finishing"} /\ rep # None /\ rep' = None
      /\ UNCHANGED <<chunk, verdict, req, losses, disk, answer>>
  BY DEF C_Reply
<1>1. CASE rep \in {"proceed", "finishing"}
  <2>1. /\ engine' = [engine EXCEPT !["cp"] = IF rep = "proceed" THEN "ready" ELSE "finishing"]
        /\ offset' = [offset EXCEPT !["cp"] = ChunkEnd] /\ outcome' = outcome
    BY <1>1 DEF C_Reply, ChunkEnd
  <2>2. /\ engine'["cp"] = IF rep = "proceed" THEN "ready" ELSE "finishing"
        /\ engine'["pd"] = engine["pd"]
        /\ offset'["cp"] = ChunkEnd /\ offset'["pd"] = offset["pd"]
    BY <2>1 DEF CallbackInv, CallbackTypes, TransferInv, TypeOK, Ends
  <2>9. None \notin {"ok", "proceed", "finishing"}
    BY NoneAssumption DEF Responses, Verdicts
  <2>3. /\ ChunkEnd \in 0..(Size + Chunk - 1)
        /\ Size \in Nat /\ (chunk.bytes # <<>> => chunk.off < Size) /\ (chunk.bytes # <<>> => chunk.off < ChunkEnd) /\ chunk.off \in Nat
    BY SortsDiffer DEF TransferInv, HonestChunk
  <2>4. TypeOK'
    BY <1>0, <2>1, <2>3 DEF TransferInv, TypeOK, CallbackInv
  <2>5. HonestChunk'
    BY <1>0, <2>2 DEF TransferInv, HonestChunk, ChunkEnd
  <2>11. ReadsWithin'
    BY <1>0, <2>2, <2>9 DEF TransferInv, ReadsWithin, ChunkEnd, Quiet
  <2>6. OneMessage'
    BY <1>0, <2>2, <2>9 DEF TransferInv, OneMessage, PdBusy, ChunkEnd
  <2>7. ASSUME rep = "proceed" PROVE InStep'
    <3>1. PdBusy => req = None /\ engine["pd"] = "receiving" /\ offset["pd"] = ChunkEnd
      BY <1>0, <2>7 DEF TransferInv, OneMessage
    <3>2. InStep'
      BY <1>0, <2>2, <2>7, <3>1 DEF TransferInv, InStep, PdBusy, ChunkEnd, Quiet
    <3> QED BY <3>2
  <2>8. ASSUME rep = "finishing" PROVE InStep'
    <3>1. PdBusy => req = None /\ engine["pd"] = "finishing" /\ offset["pd"] >= Size
      BY <1>0, <2>8 DEF TransferInv, OneMessage, InStep
    <3>2. PdBusy => offset["pd"] = ChunkEnd
      <4>1. CASE engine["cp"] = "waiting"
        <5>1. chunk.bytes # <<>>
          BY <4>1 DEF TransferInv, HonestChunk
        <5>2. PdBusy => offset["pd"] \in {chunk.off, ChunkEnd}
          BY <4>1, <5>1 DEF TransferInv, InStep
        <5> QED BY <2>3, <3>1, <5>1, <5>2
      <4>2. CASE engine["cp"] = "finishing"
        BY <4>2 DEF TransferInv, InStep
      <4> QED BY <1>0, <4>1, <4>2
    <3>3. InStep'
      BY <1>0, <2>2, <2>8, <3>1, <3>2 DEF TransferInv, InStep, PdBusy, ChunkEnd, Quiet
    <3> QED BY <3>3
  <2>10. DiskHolds' /\ VerdictTold'
    BY <1>0, <2>1, <2>2, <2>9 DEF TransferInv, DiskHolds, VerdictTold
  <2> QED BY <1>1, <2>4, <2>5, <2>6, <2>7, <2>8, <2>10, <2>11 DEF TransferInv
<1>2. CASE rep \notin {"proceed", "finishing"}
  <2>1. /\ engine' = [engine EXCEPT !["cp"] = "ended"] /\ offset' = offset
        /\ outcome' = IF rep = "ok" THEN "ok" ELSE "failed"
    BY <1>2 DEF C_Reply, Close
  <2>2. engine'["cp"] = "ended" /\ engine'["pd"] = engine["pd"]
    BY <2>1 DEF CallbackInv, CallbackTypes, Ends
  <2>3. ~PdBusy
    BY <1>0, <1>2 DEF TransferInv, OneMessage
  <2>4. TypeOK'
    BY <1>0, <2>1 DEF TransferInv, TypeOK, CallbackInv
  <2>6. None \notin {"ok", "proceed"}
    BY NoneAssumption DEF Responses, Verdicts
  <2>5. HonestChunk' /\ ReadsWithin' /\ OneMessage' /\ InStep'
    BY <1>0, <2>1, <2>2, <2>3, <2>6
    DEF TransferInv, HonestChunk, ReadsWithin, OneMessage, InStep, PdBusy, ChunkEnd
  <2>7. DiskHolds' /\ VerdictTold'
    BY <1>0, <2>1, <2>2, <2>6 DEF TransferInv, DiskHolds, VerdictTold
  <2> QED BY <2>4, <2>5, <2>7 DEF TransferInv
<1> QED BY <1>1, <1>2

LEMMA AbortKeeps ==
  ASSUME CallbackInv, CallbackInv', TransferInv, C_Abort
  PROVE  TransferInv'
<1>1. /\ engine' = [engine EXCEPT !["cp"] = "ended"] /\ outcome' = "failed"
      /\ Quiet \/ Offline
      /\ req' \in {None, Stop} /\ rep' = rep
      /\ UNCHANGED <<offset, chunk, verdict, losses, disk, answer>>
  BY DEF C_Abort, Close
<1>2. engine'["cp"] = "ended" /\ engine'["pd"] = engine["pd"]
  BY <1>1 DEF CallbackInv, CallbackTypes, Ends
<1>3. CASE Quiet
  <2>1. PdBusy => rep = None /\ engine["pd"] \notin InCallback
    BY <1>3 DEF TransferInv, OneMessage, Quiet
  <2> QED BY <1>1, <1>2, <2>1, SenderFails
<1>4. CASE Offline
  <2>1. engine["pd"] \in {"idle", "ended"}
    BY <1>4 DEF Offline, CallbackInv, BoxFollowsContext, Ends
  <2>2. PdBusy => rep = None /\ engine["pd"] \notin InCallback
    BY <2>1 DEF TransferInv, OneMessage, PdBusy, InCallback
  <2> QED BY <1>1, <1>2, <2>2, SenderFails
<1> QED BY <1>1, <1>3, <1>4

-----------------------------------------------------------------------------
(* Every step of the receiver preserves TransferInv.                        *)

LEMMA ReceiveKeeps ==
  ASSUME CallbackInv, CallbackInv', TransferInv, C_Receive
  PROVE  TransferInv'
<1>1. /\ req # None /\ engine["pd"] \notin InCallback
      /\ UNCHANGED <<offset, chunk, verdict, losses, disk, answer, outcome>>
  BY DEF C_Receive
<1>2. /\ None # Stop /\ None # KeepAlive /\ None # chunk /\ None \notin Responses
      /\ Stop # KeepAlive /\ Stop # chunk
      /\ chunk.bytes = <<>> => chunk = KeepAlive
  BY SortsDiffer DEF TransferInv, HonestChunk
<1>3. \/ /\ engine["pd"] = "idle" /\ req # Stop /\ engine'["pd"] = "opening"
         /\ engine'["cp"] = engine["cp"] /\ UNCHANGED <<req, rep>>
      \/ /\ engine["pd"] \in {"receiving", "finishing"} /\ req = Stop
         /\ engine'["pd"] = "closing" /\ engine'["cp"] = engine["cp"] /\ UNCHANGED <<req, rep>>
      \/ /\ engine["pd"] \in {"receiving", "finishing"} /\ req # Stop
         /\ engine'["pd"] = IF req = KeepAlive THEN "finalizing" ELSE "writing"
         /\ engine'["cp"] = engine["cp"] /\ UNCHANGED <<req, rep>>
      \/ /\ req' = None /\ rep' = None /\ UNCHANGED engine
         /\ engine["pd"] \in {"idle", "ended"}
      \/ /\ engine["pd"] = "ended" /\ UNCHANGED engine /\ req' = None /\ rep' = verdict
  BY DEF C_Receive, Respond, CallbackInv, CallbackTypes, Ends
<1>4. TypeOK'
  BY <1>1, <1>3 DEF TransferInv, TypeOK, CallbackInv, Responses
<1>11. engine'["cp"] = engine["cp"] /\ engine["cp"] \notin {"idle", "ready"}
  BY <1>1, <1>3 DEF TransferInv, ReadsWithin, Quiet
<1>5. HonestChunk' /\ ReadsWithin'
  <2>1. verdict # "proceed" /\ None # "proceed"
    BY <1>2 DEF TransferInv, TypeOK, Verdicts, Responses
  <2>2. rep' = "proceed" => rep = "proceed" /\ req' = req
    BY <1>3, <2>1
  <2> QED BY <1>1, <1>11, <2>2 DEF TransferInv, HonestChunk, ReadsWithin, ChunkEnd
<1>6. PdBusy => rep = None
  BY <1>1 DEF TransferInv, OneMessage
<1>7. OneMessage'
  BY <1>1, <1>2, <1>3, <1>6
  DEF TransferInv, TypeOK, OneMessage, PdBusy, ChunkEnd, InCallback, Responses
<1>8. InStep'
  BY <1>1, <1>2, <1>3, <1>6, <1>11
  DEF TransferInv, TypeOK, OneMessage, InStep, PdBusy, ChunkEnd
<1>9. DiskHolds'
  BY <1>1 DEF TransferInv, DiskHolds
<1>10. VerdictTold'
  BY <1>1, <1>2, <1>3 DEF TransferInv, VerdictTold, Responses, Verdicts, InCallback
<1> QED BY <1>4, <1>5, <1>7, <1>8, <1>9, <1>10 DEF TransferInv

(* The PD's transfer is over, with a response or none.                      *)
LEMMA ReceiverEnds ==
  ASSUME CallbackInv, CallbackInv', TransferInv, engine'["pd"] = "ended",
         engine'["cp"] = engine["cp"],
         UNCHANGED <<offset, chunk, losses, disk, answer, outcome>>,
         req' \in {None, req}, rep' \in Verdicts \union {None, rep}, rep' = "ok" => answer = "ok",
         engine["cp"] \in {"idle", "ready"} => rep' = rep,
         verdict' \in Verdicts \union {None}, verdict' = "ok" => answer = "ok"
  PROVE  TransferInv'
<1>1. TypeOK'
  BY DEF TransferInv, TypeOK, CallbackInv, Responses
<1>2. HonestChunk' /\ ReadsWithin'
  <2>1. None # "proceed"
    BY NoneAssumption DEF Responses
  <2> QED BY <2>1 DEF TransferInv, HonestChunk, ReadsWithin, ChunkEnd, Quiet, Verdicts
<1>3. OneMessage' /\ InStep'
  BY DEF OneMessage, InStep, PdBusy
<1>4. DiskHolds' /\ VerdictTold'
  BY DEF TransferInv, DiskHolds, VerdictTold
<1> QED BY <1>1, <1>2, <1>3, <1>4 DEF TransferInv

LEMMA OpenReceivedKeeps ==
  ASSUME CallbackInv, CallbackInv', TransferInv, NEW ok \in BOOLEAN, OpenReceived(ok)
  PROVE  TransferInv'
<1>1. /\ engine["pd"] = "opening"
      /\ UNCHANGED <<offset, chunk, losses, disk, answer, outcome>>
      /\ engine'["pd"] = IF ok THEN "writing" ELSE "ended"
      /\ engine'["cp"] = engine["cp"]
      /\ IF ok THEN UNCHANGED <<req, rep, verdict>>
               ELSE req' = None /\ rep' = "abort" /\ verdict' = "abort"
  <2>1. FileOpen(ok) = 0 <=> ok
    BY DEF FileOpen
  <2>2. engine' = [engine EXCEPT !["pd"] = IF ok THEN "writing" ELSE "ended"]
    BY <2>1 DEF OpenReceived, Open
  <2> QED BY <2>1, <2>2 DEF OpenReceived, Respond, CallbackInv, CallbackTypes, Ends
<1>2. CASE ok
  <2>1. TypeOK' /\ HonestChunk' /\ ReadsWithin'
    BY <1>1, <1>2 DEF TransferInv, TypeOK, CallbackInv, HonestChunk, ReadsWithin, ChunkEnd, Quiet
  <2>2. OneMessage'
    BY <1>1, <1>2 DEF TransferInv, OneMessage, PdBusy, ChunkEnd, InCallback
  <2>3. InStep'
    BY <1>1, <1>2 DEF TransferInv, InStep, PdBusy, ChunkEnd, Quiet
  <2>4. DiskHolds' /\ VerdictTold'
    BY <1>1, <1>2 DEF TransferInv, DiskHolds, VerdictTold
  <2> QED BY <2>1, <2>2, <2>3, <2>4 DEF TransferInv
<1>3. CASE ~ok
  <2>1. engine'["pd"] = "ended" /\ req' = None /\ rep' = "abort" /\ verdict' = "abort"
    BY <1>1, <1>3
  <2>2. "abort" \in Verdicts
    BY DEF Verdicts
  <2>3. engine["cp"] \notin {"idle", "ready"}
    BY <1>1 DEF TransferInv, InStep, PdBusy
  <2> QED BY <1>1, <2>1, <2>2, <2>3, ReceiverEnds
<1> QED BY <1>2, <1>3

LEMMA WholeFile ==
  ASSUME TypeOK, DiskHolds, offset["pd"] >= Size
  PROVE  \A i \in Positions : disk[i] = i
<1>1. Size \in Nat /\ offset["pd"] \in Nat
  BY ConstantsAssumption DEF TypeOK, Ends
<1>2. \A i \in Positions : i < offset["pd"]
  BY <1>1 DEF Positions
<1> QED BY <1>2 DEF DiskHolds

LEMMA FinalizeKeeps ==
  ASSUME CallbackInv, CallbackInv', TransferInv, NEW a \in Answers, Finalize(a)
  PROVE  TransferInv'
<1>1. /\ engine["pd"] = "finalizing" /\ answer' = a
      /\ UNCHANGED <<offset, chunk, losses, disk, outcome>>
      /\ engine'["cp"] = engine["cp"]
      /\ IF a = "pending"
           THEN /\ engine'["pd"] = "finishing" /\ req' = None /\ rep' = "finishing"
                /\ verdict' = verdict
           ELSE engine'["pd"] = "closing" /\ verdict' = a /\ UNCHANGED <<req, rep>>
  BY DEF Finalize, Finalizes, FileFinalize, Respond, CallbackInv, CallbackTypes, Ends, Answers
<1>2. /\ offset["pd"] >= Size /\ verdict = None /\ req # None /\ rep = None
  BY <1>1 DEF TransferInv, InStep, VerdictTold, OneMessage, PdBusy, InCallback
<1>3. /\ None # KeepAlive /\ None # chunk /\ None \notin Responses
  BY SortsDiffer DEF TransferInv
<1>4. TypeOK'
  BY <1>1 DEF TransferInv, TypeOK, CallbackInv, Answers, Verdicts, Responses
<1>5. HonestChunk' /\ ReadsWithin'
  <2>1. engine["cp"] \notin {"idle", "ready"}
    BY <1>1 DEF TransferInv, InStep, PdBusy
  <2> QED BY <1>1, <2>1 DEF TransferInv, HonestChunk, ReadsWithin, ChunkEnd
<1>6. OneMessage'
  BY <1>1, <1>2, <1>3 DEF TransferInv, OneMessage, PdBusy, ChunkEnd, InCallback, Responses
<1>7. InStep'
  BY <1>1, <1>2, <1>3 DEF TransferInv, InStep, PdBusy, ChunkEnd, Quiet
<1>8. \A i \in Positions : disk[i] = i
  BY <1>2, WholeFile DEF TransferInv
<1>9. DiskHolds'
  BY <1>1, <1>8 DEF DiskHolds
<1>10. VerdictTold'
  BY <1>1, <1>2, <1>3 DEF TransferInv, VerdictTold, Answers, Responses, Verdicts
<1> QED BY <1>4, <1>5, <1>6, <1>7, <1>9, <1>10 DEF TransferInv

LEMMA CloseReceivedKeeps ==
  ASSUME CallbackInv, CallbackInv', TransferInv, CloseReceived
  PROVE  TransferInv'
<1>1. /\ engine'["pd"] = "ended" /\ engine'["cp"] = engine["cp"] /\ req' = None
      /\ \/ rep' = None /\ verdict' = "abort"
         \/ rep' = verdict /\ verdict' = verdict
      /\ UNCHANGED <<offset, chunk, losses, disk, answer, outcome>>
  BY DEF CloseReceived, Close, Respond, CallbackInv, CallbackTypes, Ends
<1>2. /\ verdict \in Verdicts \union {None}
      /\ verdict = "ok" => answer = "ok"
      /\ None # "ok"
  BY NoneAssumption DEF TransferInv, TypeOK, VerdictTold, Responses, Verdicts
<1>3. "abort" \in Verdicts /\ engine["cp"] \notin {"idle", "ready"}
  BY DEF Verdicts, CloseReceived, TransferInv, InStep, PdBusy
<1> QED BY <1>1, <1>2, <1>3, ReceiverEnds

(* What is written of the piece at hand is the file's, and all of it if the *)
(* count passed on says so.                                                 *)
LEMMA PieceOnDisk ==
  ASSUME TransferInv, NEW stored \in 0..Chunk, NEW count \in -1..(Chunk + 1),
         WriteChunk(stored, count)
  PROVE  /\ req = chunk /\ chunk.bytes # <<>>
         /\ disk' \in [Positions -> Positions \union {Junk}]
         /\ \A i \in Positions : disk[i] = i => disk'[i] = i
         /\ LET n == FileWrite(count, Len(chunk.bytes))
            IN  n >= Len(chunk.bytes) =>
                  /\ n = Len(chunk.bytes)
                  /\ \A i \in Positions : chunk.off <= i /\ i < ChunkEnd => disk'[i] = i
<1>1. /\ engine["pd"] = "writing" /\ stored <= Len(req.bytes)
      /\ count \in WriteCounts(Len(req.bytes), stored) /\ Stored(stored)
  BY DEF WriteChunk
<1>2. req = chunk /\ req # KeepAlive
  BY <1>1 DEF TransferInv, OneMessage, PdBusy
<1>3. /\ Size \in Nat /\ chunk.off \in Nat /\ Len(chunk.bytes) \in Nat
      /\ ChunkEnd = chunk.off + Len(chunk.bytes)
      /\ chunk.bytes # <<>>
      /\ \A i \in 1..Len(chunk.bytes) :
           chunk.off + i <= Size => chunk.bytes[i] = chunk.off + i - 1
  BY <1>2, SortsDiffer DEF TransferInv, HonestChunk, ChunkEnd
<1>4. Positions = 0..(Size - 1) /\ disk \in [Positions -> Positions \union {Junk}]
  BY DEF Positions, TransferInv, TypeOK
<1>5. disk' = [i \in Positions |-> IF i \in chunk.off..(chunk.off + stored - 1)
                                     THEN chunk.bytes[i - chunk.off + 1] ELSE disk[i]]
  BY <1>1, <1>2 DEF Stored
<1>6. \A i \in Positions : i \in chunk.off..(chunk.off + stored - 1) =>
        /\ i - chunk.off + 1 \in 1..Len(chunk.bytes)
        /\ chunk.bytes[i - chunk.off + 1] = i
  <2>1. stored \in Nat /\ stored <= Len(chunk.bytes)
    BY <1>1, <1>2, ConstantsAssumption
  <2>2. ASSUME NEW i \in Positions, i \in chunk.off..(chunk.off + stored - 1)
        PROVE  /\ i - chunk.off + 1 \in 1..Len(chunk.bytes)
               /\ chunk.bytes[i - chunk.off + 1] = i
    <3> DEFINE j == i - chunk.off + 1
    <3>0. /\ i \in Int /\ chunk.off \in Int /\ Len(chunk.bytes) \in Int
          /\ chunk.off <= i /\ i <= chunk.off + stored - 1 /\ i <= Size - 1 /\ Size \in Int
      BY <1>3, <1>4, <2>1, <2>2
    <3>1. j \in 1..Len(chunk.bytes) /\ chunk.off + j - 1 = i /\ chunk.off + j <= Size
      <4>1. j \in Int /\ 1 <= j /\ j <= Len(chunk.bytes)
        BY <2>1, <3>0
      <4>2. chunk.off + j - 1 = i /\ chunk.off + j <= Size
        BY <3>0
      <4> QED BY <3>0, <4>1, <4>2
    <3> HIDE DEF j
    <3>2. chunk.bytes[j] = i
      BY <1>3, <3>1
    <3> QED BY <3>1, <3>2 DEF j
  <2> QED BY <2>2
<1>7. \A i \in Positions :
        disk'[i] = IF i \in chunk.off..(chunk.off + stored - 1) THEN i ELSE disk[i]
  BY <1>5, <1>6
<1>8. disk' \in [Positions -> Positions \union {Junk}]
  BY <1>4, <1>5, <1>7
<1> DEFINE n == FileWrite(count, Len(chunk.bytes))
<1>9. n >= Len(chunk.bytes) => n = Len(chunk.bytes) /\ stored = Len(chunk.bytes)
  BY <1>1, <1>2, <1>3 DEF FileWrite, WriteCounts, Failed
<1>10. n >= Len(chunk.bytes) =>
         \A i \in Positions : chunk.off <= i /\ i < ChunkEnd => disk'[i] = i
  BY <1>3, <1>4, <1>7, <1>9
<1> QED BY <1>2, <1>3, <1>7, <1>8, <1>9, <1>10

LEMMA WriteChunkKeeps ==
  ASSUME CallbackInv, CallbackInv', TransferInv,
         NEW stored \in 0..Chunk, NEW count \in -1..(Chunk + 1), WriteChunk(stored, count)
  PROVE  TransferInv'
<1> DEFINE n == FileWrite(count, Len(chunk.bytes))
           L == Len(chunk.bytes)
<1>1. /\ req = chunk /\ chunk.bytes # <<>>
      /\ disk' \in [Positions -> Positions \union {Junk}]
      /\ \A i \in Positions : disk[i] = i => disk'[i] = i
      /\ n >= L => /\ n = L
                   /\ \A i \in Positions : chunk.off <= i /\ i < ChunkEnd => disk'[i] = i
  BY PieceOnDisk
<1>2. /\ engine["pd"] = "writing" /\ req # None /\ rep = None /\ verdict = None
      /\ answer \in {"none", "pending"}
      /\ offset["pd"] \in {chunk.off, ChunkEnd} /\ offset["pd"] \in 0..(Size + Chunk - 1)
      /\ engine["cp"] \in {"waiting", "ended"}
  <2>1. engine["pd"] = "writing"
    BY DEF WriteChunk
  <2>2. engine["cp"] \in {"waiting", "ended"}
    BY <2>1 DEF TransferInv, InStep, PdBusy, CallbackInv, RolesOfEnds
  <2> QED BY <1>1, <2>1, <2>2
          DEF TransferInv, OneMessage, InStep, VerdictTold, PdBusy, InCallback, TypeOK, Ends
<1>3. /\ Size \in Nat /\ chunk.off \in Nat /\ L \in Nat
      /\ ChunkEnd = chunk.off + L /\ ChunkEnd \in 0..(Size + Chunk - 1) /\ chunk.off < ChunkEnd
      /\ Chunk \in Nat
      /\ None \notin Responses /\ None # chunk /\ None # KeepAlive /\ chunk # KeepAlive
  BY <1>1, SortsDiffer DEF TransferInv, ChunkEnd
<1>4. UNCHANGED <<context, freed, file, chunk, losses, answer, outcome>>
  BY DEF WriteChunk, callbackVars
<1>5. n \in Int
  BY <1>3, ConstantsAssumption DEF FileWrite
<1>6. CASE n < L
  <2>1. /\ engine'["pd"] = "closing" /\ engine'["cp"] = engine["cp"]
        /\ verdict' = "abort" /\ UNCHANGED <<offset, req, rep>>
    BY <1>1, <1>6 DEF WriteChunk, CallbackInv, CallbackTypes, Ends
  <2>2. TypeOK' /\ HonestChunk' /\ ReadsWithin'
    BY <1>1, <1>2, <1>4, <2>1
    DEF TransferInv, TypeOK, CallbackInv, HonestChunk, ReadsWithin, ChunkEnd, Verdicts
  <2>3. OneMessage' /\ InStep'
    BY <1>1, <1>2, <1>3, <1>4, <2>1
    DEF TransferInv, OneMessage, InStep, PdBusy, ChunkEnd, InCallback, Quiet
  <2>4. DiskHolds' /\ VerdictTold'
    BY <1>1, <1>2, <1>4, <2>1 DEF TransferInv, DiskHolds, VerdictTold
  <2> QED BY <2>2, <2>3, <2>4 DEF TransferInv
<1>7. CASE ~(n < L)
  <2>1. n = L /\ \A i \in Positions : chunk.off <= i /\ i < ChunkEnd => disk'[i] = i
    BY <1>1, <1>3, <1>5, <1>7
  <2>2. Greater(offset["pd"], req.off + n) = ChunkEnd
    BY <1>1, <1>2, <1>3, <2>1 DEF Greater
  <2>3. /\ offset' = [offset EXCEPT !["pd"] = ChunkEnd] /\ verdict' = verdict
        /\ IF ChunkEnd >= Size
             THEN engine' = [engine EXCEPT !["pd"] = "finalizing"] /\ UNCHANGED <<req, rep>>
             ELSE /\ engine' = [engine EXCEPT !["pd"] = "receiving"]
                  /\ req' = None /\ rep' = "proceed"
    BY <1>1, <1>7, <2>2 DEF WriteChunk, Respond
  <2>4. /\ offset'["pd"] = ChunkEnd /\ offset'["cp"] = offset["cp"]
        /\ engine'["pd"] = IF ChunkEnd >= Size THEN "finalizing" ELSE "receiving"
        /\ engine'["cp"] = engine["cp"]
        /\ ChunkEnd >= Size => UNCHANGED <<req, rep>>
        /\ ChunkEnd < Size => req' = None /\ rep' = "proceed"
    <3>1. ChunkEnd < Size <=> ~(ChunkEnd >= Size)
      BY <1>3
    <3> QED BY <2>3, <3>1 DEF CallbackInv, CallbackTypes, TransferInv, TypeOK, Ends
  <2>5. TypeOK'
    BY <1>1, <1>3, <1>4, <2>3 DEF TransferInv, TypeOK, CallbackInv, Responses
  <2>6. HonestChunk' /\ ReadsWithin'
    BY <1>2, <1>3, <1>4, <2>4 DEF TransferInv, HonestChunk, ReadsWithin, ChunkEnd, Responses
  <2>7. ChunkEnd' = ChunkEnd
    BY <1>4 DEF ChunkEnd
  <2>8. OneMessage'
    BY <1>1, <1>2, <1>3, <1>4, <2>4, <2>7 DEF OneMessage, PdBusy, InCallback, Responses
  <2>9. InStep'
    BY <1>1, <1>2, <1>3, <1>4, <2>4, <2>7 DEF InStep, PdBusy
  <2>10. DiskHolds'
    <3>1. ASSUME NEW i \in Positions, i < ChunkEnd PROVE disk'[i] = i
      <4>1. i \in Nat
        BY <1>3 DEF Positions
      <4>2. CASE chunk.off <= i
        BY <2>1, <3>1, <4>2
      <4>3. CASE i < chunk.off
        BY <1>1, <1>2, <1>3, <3>1, <4>1, <4>3 DEF TransferInv, DiskHolds
      <4> QED BY <1>3, <4>1, <4>2, <4>3
    <3>2. answer # "none" => \A i \in Positions : disk'[i] = i
      BY <1>1 DEF TransferInv, DiskHolds
    <3> QED BY <1>4, <2>4, <3>1, <3>2 DEF DiskHolds
  <2>11. VerdictTold'
    BY <1>2, <1>3, <1>4, <2>3, <2>4 DEF TransferInv, VerdictTold
  <2> QED BY <2>5, <2>6, <2>8, <2>9, <2>10, <2>11 DEF TransferInv
<1> QED BY <1>6, <1>7

-----------------------------------------------------------------------------
(* The line, and the end of the contexts.                                   *)

LEMMA LoseKeeps ==
  ASSUME CallbackInv, CallbackInv', TransferInv, Lose
  PROVE  TransferInv'
<1>1. /\ losses < MaxLosses /\ losses' = losses + 1 /\ engine["pd"] \notin InCallback
      /\ req' = None /\ rep' = None
      /\ UNCHANGED <<engine, offset, chunk, verdict, disk, answer, outcome>>
  BY DEF Lose, engineVars
<1>2. /\ None # KeepAlive /\ None # chunk /\ None \notin Responses
  BY SortsDiffer DEF TransferInv
<1>3. losses' \in 0..MaxLosses
  BY <1>1, ConstantsAssumption DEF TransferInv, TypeOK
<1>4. TypeOK' /\ HonestChunk' /\ ReadsWithin'
  BY <1>1, <1>2, <1>3
  DEF TransferInv, TypeOK, CallbackInv, HonestChunk, ReadsWithin, ChunkEnd, Quiet, Responses
<1>5. OneMessage' /\ InStep'
  BY <1>1, <1>2
  DEF TransferInv, OneMessage, InStep, PdBusy, ChunkEnd, Quiet, InCallback, Responses
<1>6. DiskHolds' /\ VerdictTold'
  BY <1>1, <1>2 DEF TransferInv, DiskHolds, VerdictTold, Responses, Verdicts
<1> QED BY <1>4, <1>5, <1>6 DEF TransferInv

LEMMA TransferSame ==
  ASSUME CallbackInv', TransferInv,
         UNCHANGED <<engineVars, lineVars, disk, answer, outcome>>
  PROVE  TransferInv'
<1> USE DEF engineVars, lineVars
<1>1. TypeOK' /\ HonestChunk' /\ ReadsWithin'
  BY DEF TransferInv, TypeOK, CallbackInv, HonestChunk, ReadsWithin, ChunkEnd, Quiet
<1>2. OneMessage' /\ InStep'
  BY DEF TransferInv, OneMessage, InStep, PdBusy, ChunkEnd, Quiet
<1>3. DiskHolds' /\ VerdictTold'
  BY DEF TransferInv, DiskHolds, VerdictTold
<1> QED BY <1>1, <1>2, <1>3 DEF TransferInv

LEMMA TeardownKeeps ==
  ASSUME CallbackInv, CallbackInv', TransferInv, NEW e \in Ends, Teardown(e)
  PROVE  TransferInv'
<1>1. /\ UNCHANGED <<offset, chunk, verdict, req, rep, losses, disk, answer>>
      /\ engine[e] \notin InCallback
      /\ IF engine[e] \in {"idle", "ended"} THEN engine' = engine
                                            ELSE engine' = [engine EXCEPT ![e] = "ended"]
      /\ outcome' = IF e = "cp" /\ engine[e] \notin {"idle", "ended"} THEN "failed" ELSE outcome
  BY DEF Teardown, Close, lineVars
<1>2. CASE engine[e] \in {"idle", "ended"}
  <2>1. UNCHANGED <<engineVars, lineVars, disk, answer, outcome>>
    BY <1>1, <1>2 DEF engineVars, lineVars
  <2> QED BY <2>1, TransferSame
<1>3. CASE engine[e] \notin {"idle", "ended"} /\ e = "cp"
  <2>1. engine'["cp"] = "ended" /\ engine'["pd"] = engine["pd"] /\ outcome' = "failed"
    BY <1>1, <1>3 DEF CallbackInv, CallbackTypes, Ends
  <2> QED BY <1>1, <2>1, SenderFails
<1>4. CASE engine[e] \notin {"idle", "ended"} /\ e = "pd"
  <2>1. engine'["pd"] = "ended" /\ engine'["cp"] = engine["cp"] /\ outcome' = outcome
    BY <1>1, <1>4 DEF CallbackInv, CallbackTypes, Ends
  <2>2. /\ verdict \in Verdicts \union {None}
        /\ rep = "ok" => answer = "ok"
    BY DEF TransferInv, TypeOK, VerdictTold
  <2>3. verdict = "ok" => answer = "ok"
    BY DEF TransferInv, VerdictTold
  <2> QED BY <1>1, <2>1, <2>2, <2>3, ReceiverEnds
<1> QED BY <1>2, <1>3, <1>4 DEF Ends

LEMMA TransferInductive ==
  ASSUME CallbackInv, CallbackInv', TransferInv, [Next]_vars
  PROVE  TransferInv'
<1>1. CASE Sending
  BY <1>1, SubmitKeeps, SendChunkKeeps, SendAgainKeeps, ReplyKeeps, AbortKeeps DEF Sending
<1>2. CASE Receiving
  BY <1>2, ReceiveKeeps, OpenReceivedKeeps, WriteChunkKeeps, FinalizeKeeps, CloseReceivedKeeps
  DEF Receiving
<1>3. CASE Lose
  BY <1>3, LoseKeeps
<1>4. ASSUME NEW e \in Ends, Teardown(e) \/ FreeOps(e) PROVE TransferInv'
  BY <1>4, TeardownKeeps, TransferSame DEF FreeOps
<1>5. CASE UNCHANGED vars
  BY <1>5, TransferSame DEF vars
<1> QED BY <1>1, <1>2, <1>3, <1>4, <1>5 DEF Next

LEMMA TransferBegins == Init => TransferInv
<1> SUFFICES ASSUME Init PROVE TransferInv
  OBVIOUS
<1>1. /\ Size \in Nat \ {0} /\ Chunk \in Nat /\ MaxLosses \in Nat
  BY ConstantsAssumption
<1>2. KeepAlive \in Message /\ Len(KeepAlive.bytes) = 0 /\ KeepAlive.off = Size
      /\ KeepAlive.bytes = <<>>
  BY <1>1, EmptySeq DEF KeepAlive, Message
<1>3. None # KeepAlive /\ None # "ok" /\ None \notin {"proceed", "finishing"}
  BY <1>2, NoneAssumption DEF Responses, Verdicts
<1>4. CallbackTypes
  BY InitHolds DEF CallbackInv
<1>5. TypeOK
  BY <1>1, <1>2, <1>4 DEF Init, TypeOK, Ends, Positions, Junk
<1>6. HonestChunk /\ ReadsWithin
  BY <1>1, <1>2, <1>3 DEF Init, HonestChunk, ReadsWithin, ChunkEnd, Ends, Quiet
<1>7. OneMessage /\ InStep
  BY <1>2, <1>3 DEF Init, OneMessage, InStep, PdBusy, Quiet, Ends, InCallback
<1>8. DiskHolds /\ VerdictTold
  BY <1>1, <1>3 DEF Init, DiskHolds, VerdictTold, Ends, Positions
<1> QED BY <1>5, <1>6, <1>7, <1>8 DEF TransferInv

LEMMA TransferInvariant == Spec => []TransferInv
BY TransferBegins, TransferInductive, CallbackInvariant, PTL DEF Spec

-----------------------------------------------------------------------------
(* Every variable has its type: no message carries more than Chunk bytes,   *)
(* so that no offset passes the announced size by a whole chunk, for every  *)
(* size of file and chunk and whatever counts FileOps reports, of a file    *)
(* that has grown or shrunk too (file_read and file_write, ffi/file.rs).    *)
THEOREM TypeCorrect == Spec => []TypeOK
<1>1. TransferInv => TypeOK
  BY DEF TransferInv
<1> QED
  BY <1>1, TransferInvariant, PTL

(* The progress that the two ends report (file_progress) differs by one     *)
(* chunk at most, for every size of file and chunk, however many messages   *)
(* are lost and sent again.                                                 *)
THEOREM ProgressKept == Spec => []ProgressAgrees
<1>1. ASSUME CallbackInv, TransferInv, engine["cp"] # "ended", engine["pd"] # "ended"
      PROVE  /\ offset["cp"] <= offset["pd"]
             /\ offset["pd"] <= offset["cp"] + Chunk
             /\ engine["cp"] = "ready" => offset["cp"] = offset["pd"]
  <2>1. /\ Size \in Nat /\ Chunk \in Nat
        /\ offset["cp"] \in Nat /\ offset["pd"] \in Nat
    <3>1. offset \in [Ends -> 0..(Size + Chunk - 1)]
      BY <1>1 DEF TransferInv, TypeOK
    <3> QED BY <3>1, ConstantsAssumption DEF Ends
  <2>2. CASE engine["cp"] \in {"idle", "ready"}
    BY <1>1, <2>1, <2>2 DEF TransferInv, InStep, PdBusy
  <2>3. CASE engine["cp"] = "waiting"
    <3>1. chunk.off = offset["cp"] /\ offset["pd"] \in {chunk.off, ChunkEnd}
      BY <1>1, <2>3 DEF TransferInv, HonestChunk, InStep, PdBusy
    <3>2. ChunkEnd = chunk.off + Len(chunk.bytes) /\ Len(chunk.bytes) \in 0..Chunk
      <4>1. Len(chunk.bytes) <= Chunk
        BY <1>1 DEF TransferInv, TypeOK
      <4>2. Len(chunk.bytes) \in Nat
        BY <1>1, SortsDiffer DEF TransferInv
      <4> QED BY <2>1, <4>1, <4>2 DEF ChunkEnd
    <3> QED BY <2>1, <2>3, <3>1, <3>2
  <2>4. CASE engine["cp"] = "finishing"
    BY <1>1, <2>1, <2>4 DEF TransferInv, InStep, PdBusy
  <2> QED BY <1>1, <2>2, <2>3, <2>4 DEF CallbackInv, RolesOfEnds
<1>2. CallbackInv /\ TransferInv => ProgressAgrees
  BY <1>1 DEF ProgressAgrees
<1> QED
  BY <1>2, CallbackInvariant, TransferInvariant, PTL

-----------------------------------------------------------------------------
(* Every step of the transfer is one of FileDelivery, or none of its        *)
(* business.                                                                *)
Got == {i \in Positions : disk[i] = i}

LEMMA DeliveryEnds ==
  ASSUME CallbackInv, TransferInv, engine["cp"] # "ended", UNCHANGED <<disk, answer>>,
         outcome' = outcome \/ outcome' = "failed" \/ (outcome' = "ok" /\ rep = "ok")
  PROVE  [Delivery!Next]_Delivery!vars
<1>1. outcome = "open" /\ (rep = "ok" => answer = "ok")
  BY DEF TransferInv, VerdictTold
<1> QED
  BY <1>1 DEF Delivery!Next, Delivery!Fail, Delivery!Succeed, Delivery!vars

LEMMA DeliveryStep ==
  ASSUME CallbackInv, TransferInv, [Next]_vars
  PROVE  [Delivery!Next]_Delivery!vars
<1>1. ASSUME UNCHANGED <<disk, answer, outcome>> PROVE [Delivery!Next]_Delivery!vars
  BY <1>1 DEF Delivery!vars
<1>2. CASE Sending
  <2>1. ASSUME NEW size \in {Failed, 0, Size}, Submit(size) PROVE [Delivery!Next]_Delivery!vars
    BY <2>1, DeliveryEnds DEF Submit
  <2>2. ASSUME NEW count \in ReadCounts, SendChunk(count) PROVE [Delivery!Next]_Delivery!vars
    BY <2>2, DeliveryEnds DEF SendChunk
  <2>3. CASE C_SendAgain
    BY <1>1, <2>3 DEF C_SendAgain
  <2>4. CASE C_Reply \/ C_Abort
    BY <2>4, DeliveryEnds DEF C_Reply, C_Abort
  <2> QED BY <1>2, <2>1, <2>2, <2>3, <2>4 DEF Sending
<1>3. CASE Receiving
  <2>1. CASE C_Receive \/ CloseReceived
    BY <1>1, <2>1 DEF C_Receive, CloseReceived
  <2>2. ASSUME NEW ok \in BOOLEAN, OpenReceived(ok) PROVE [Delivery!Next]_Delivery!vars
    BY <1>1, <2>2 DEF OpenReceived
  <2>3. ASSUME NEW stored \in 0..Chunk, NEW count \in -1..(Chunk + 1),
               WriteChunk(stored, count)
        PROVE  [Delivery!Next]_Delivery!vars
    <3>1. UNCHANGED <<answer, outcome>> /\ Got \subseteq Got' /\ Got' \in SUBSET Positions
      BY <2>3, PieceOnDisk DEF WriteChunk, Got
    <3>2. CASE answer = "none"
      BY <3>1, <3>2 DEF Got, Delivery!Next, Delivery!Receive
    <3>3. CASE answer # "none"
      <4>1. Got = Positions
        BY <3>3 DEF Got, TransferInv, DiskHolds
      <4>2. Got' = Got
        BY <3>1, <4>1
      <4> QED BY <3>1, <4>2 DEF Got, Delivery!vars
    <3> QED BY <3>2, <3>3
  <2>4. ASSUME NEW a \in Answers, Finalize(a) PROVE [Delivery!Next]_Delivery!vars
    <3>1. answer' = a /\ UNCHANGED <<disk, outcome>> /\ engine["pd"] = "finalizing"
      BY <2>4 DEF Finalize, Finalizes
    <3>2. answer \in {"none", "pending"} /\ offset["pd"] >= Size
      BY <3>1 DEF TransferInv, VerdictTold, InStep, PdBusy
    <3>3. Got = Positions
      BY <3>2, WholeFile DEF Got, TransferInv
    <3>4. a \in Delivery!Answers
      BY DEF Answers, Delivery!Answers
    <3> QED BY <3>1, <3>2, <3>3, <3>4 DEF Got, Delivery!Next, Delivery!Finish
  <2> QED BY <1>3, <2>1, <2>2, <2>3, <2>4 DEF Receiving
<1>4. CASE Lose \/ UNCHANGED vars
  BY <1>1, <1>4 DEF Lose, vars
<1>5. ASSUME NEW e \in Ends, Teardown(e) PROVE [Delivery!Next]_Delivery!vars
  <2>1. UNCHANGED <<disk, answer>>
    BY <1>5 DEF Teardown
  <2>2. CASE e = "cp" /\ engine[e] \notin {"idle", "ended"}
    BY <1>5, <2>1, <2>2, DeliveryEnds DEF Teardown
  <2>3. CASE ~(e = "cp" /\ engine[e] \notin {"idle", "ended"})
    BY <1>1, <1>5, <2>1, <2>3 DEF Teardown
  <2> QED BY <2>2, <2>3
<1>6. ASSUME NEW e \in Ends, FreeOps(e) PROVE [Delivery!Next]_Delivery!vars
  BY <1>1, <1>6 DEF FreeOps
<1> QED BY <1>2, <1>3, <1>4, <1>5, <1>6 DEF Next

LEMMA DeliverySteps == Spec => [][Delivery!Next]_Delivery!vars
BY DeliveryStep, CallbackInvariant, TransferInvariant, PTL DEF Spec

(* For every size of file and chunk, whatever FileOps answers and whichever *)
(* messages are lost: the received bytes are those that were sent and stay  *)
(* so, finalize is asked only for the whole file and until it is done, and  *)
(* the CP reports success only if the receiver did (file_finalize).         *)
THEOREM DeliveryKept == Spec => KeepsDelivery
<1>1. Init => Delivery!Init
  <2> SUFFICES ASSUME Init PROVE Delivery!Init
    OBVIOUS
  <2>1. \A i \in Positions : disk[i] # i
    BY ConstantsAssumption DEF Init, Positions, Junk
  <2> QED BY <2>1 DEF Init, Delivery!Init
<1> QED
  BY <1>1, DeliverySteps, PTL DEF Spec, KeepsDelivery, Delivery!Spec

(* From what is promised follows what the two applications rely on.         *)
SuccessIsWhole ==
  /\ outcome = "ok" => answer = "ok"
  /\ answer # "none" => \A i \in Positions : disk[i] = i

(* A transfer that the sender is told went well was accepted by the         *)
(* receiving application, which was not asked before every byte of the file *)
(* was on its disk, and they are still there (file_finalize).               *)
THEOREM SuccessTold == Spec => []SuccessIsWhole
<1>1. Init => SuccessIsWhole
  BY DEF Init, SuccessIsWhole
<1>2. SuccessIsWhole <=> /\ outcome = "ok" => answer = "ok"
                         /\ answer # "none" => Got = Positions
  BY DEF SuccessIsWhole, Got
<1>3. SuccessIsWhole' <=> /\ outcome' = "ok" => answer' = "ok"
                          /\ answer' # "none" => Got' = Positions
  BY DEF SuccessIsWhole, Got
<1>4. SuccessIsWhole /\ [Delivery!Next]_Delivery!vars => SuccessIsWhole'
  BY <1>2, <1>3
  DEF Delivery!Next, Delivery!Receive, Delivery!Finish, Delivery!Succeed, Delivery!Fail,
      Delivery!vars, Got
<1> QED BY <1>1, <1>4, DeliverySteps, PTL DEF Spec

(* What the sender was told stays, and so does every byte that arrived,     *)
(* whatever is sent again, reported short or torn down afterwards.          *)
DeliveredStays ==
  /\ outcome # "open" => outcome' = outcome
  /\ \A i \in Positions : disk[i] = i => disk'[i] = i

(* No chunk that comes again spoils what is on the disk, and no message or  *)
(* teardown changes the end that the sender was told (file_write,           *)
(* file_close).                                                             *)
THEOREM NothingUndone == Spec => [][DeliveredStays]_vars
<1>1. ASSUME [Delivery!Next]_Delivery!vars PROVE DeliveredStays
  <2>1. Got \subseteq Got' /\ (outcome # "open" => outcome' = outcome)
    BY <1>1
    DEF Delivery!Next, Delivery!Receive, Delivery!Finish, Delivery!Succeed, Delivery!Fail,
        Delivery!vars, Got
  <2> QED BY <2>1 DEF DeliveredStays, Got
<1> QED BY <1>1, DeliverySteps, PTL
=============================================================================
