---------------------------- MODULE Submissions ----------------------------
(***************************************************************************)
(* What ControlPanel::submit and the card commands promise the application *)
(* (docs of cp.rs and submit.rs), without slots, boxes, calls or wakers: a *)
(* command is refused, or it is accepted and ends exactly once; the reply  *)
(* to a card command comes at most once, before the command ends well, and *)
(* goes to its handle, if that was asked for, to the events, whose queue   *)
(* may be full, or nowhere, when it does not convert.                      *)
(***************************************************************************)
EXTENDS Naturals

CONSTANT Subs

VARIABLES
  outcome,   \* where each submission is in its life
  asks,      \* where its reply should go, if it is a card command
  answer     \* where its reply went

vars == <<outcome, asks, answer>>

Ends    == {"ok", "failed", "flushed", "aborted"}
Asked   == {"none", "handle", "events"}
Places  == {"handle", "events", "nowhere"}
Pending == {s \in Subs : outcome[s] = "pending"}

TypeOK ==
  /\ outcome \in [Subs -> Ends \union {"idle", "refused", "pending"}]
  /\ asks \in [Subs -> Asked]
  /\ answer \in [Subs -> Places \union {"none"}]

Init ==
  /\ outcome = [s \in Subs |-> "idle"]
  /\ asks = [s \in Subs |-> "none"]
  /\ answer = [s \in Subs |-> "none"]

Refuse(s) ==
  /\ outcome[s] = "idle"
  /\ outcome' = [outcome EXCEPT ![s] = "refused"]
  /\ UNCHANGED <<asks, answer>>

Accept(s) ==
  /\ outcome[s] = "idle"
  /\ outcome' = [outcome EXCEPT ![s] = "pending"]
  /\ \E place \in Asked : asks' = [asks EXCEPT ![s] = place]
  /\ UNCHANGED answer

Answer(s, place) ==
  /\ s \in Pending /\ asks[s] # "none" /\ answer[s] = "none"
  /\ place = "handle" => asks[s] = "handle"
  /\ answer' = [answer EXCEPT ![s] = place]
  /\ UNCHANGED <<outcome, asks>>

(* A flush or a teardown ends several submissions at once.                 *)
End(S, how) ==
  /\ S # {} /\ S \subseteq Pending
  /\ how = "ok" => \A s \in S : asks[s] # "none" => answer[s] # "none"
  /\ outcome' = [s \in Subs |-> IF s \in S THEN how ELSE outcome[s]]
  /\ UNCHANGED <<asks, answer>>

Next ==
  \/ \E s \in Subs : Refuse(s) \/ Accept(s) \/ \E place \in Places : Answer(s, place)
  \/ \E S \in SUBSET Subs, how \in Ends : End(S, how)

Spec == Init /\ [][Next]_vars

=============================================================================
