---------------------------- MODULE FileDelivery ----------------------------
(***************************************************************************)
(* What a file transfer promises (docs of file.rs and of Command::FileTx), *)
(* without chunks, messages, counts or contexts: the received file only    *)
(* grows towards the one that was sent; the receiver is asked to finish    *)
(* once it holds all of it, and asked again while it is still working; and *)
(* the sender is told that all went well only if the receiver said so.     *)
(***************************************************************************)
CONSTANT Positions   \* of the bytes of the file

VARIABLES
  got,       \* the positions whose byte arrived, and is the one sent
  said,      \* how the receiving application last answered finalize
  end        \* how the transfer ended, as told to the sender

vars == <<got, said, end>>

Answers == {"pending", "ok", "invalid"}

TypeOK ==
  /\ got \subseteq Positions
  /\ said \in Answers \union {"none"}
  /\ end \in {"open", "ok", "failed"}

Init == got = {} /\ said = "none" /\ end = "open"

Receive ==
  /\ got' \in SUBSET Positions /\ got \subseteq got'
  /\ said = "none"
  /\ UNCHANGED <<said, end>>

Finish ==
  /\ got = Positions
  /\ said \in {"none", "pending"}
  /\ said' \in Answers
  /\ UNCHANGED <<got, end>>

Succeed == end = "open" /\ said = "ok" /\ end' = "ok" /\ UNCHANGED <<got, said>>

Fail == end = "open" /\ end' = "failed" /\ UNCHANGED <<got, said>>

Next == Receive \/ Finish \/ Succeed \/ Fail

Spec == Init /\ [][Next]_vars
=============================================================================
