------------------------- MODULE ControlPanelOwnership -------------------------
(* Who owns the box of a command, and whose reply a handle is given:        *)
(* theorems for every set of PDs and submissions and every nesting of calls.*)
EXTENDS ControlPanelProofs, FiniteSetTheorems

USE DEF vars, controlVars, slotVars, eventVars, libVars

-----------------------------------------------------------------------------
(* The inductive invariant.                                                 *)

(* The calls that submit a command, and whether LibOSDP has taken it.       *)
SubmitsAt(i, s) == stack[i].op = "submit" /\ stack[i].sub = s
TookIt(s) == \E i \in 1 .. Len(stack) : SubmitsAt(i, s) /\ stack[i].accepted

(* A call that submits knows what it submits, and has no verdict while      *)
(* LibOSDP runs; no two calls submit the same command.                      *)
SubmitsSomething ==
  \A i \in 1 .. Len(stack) :
    /\ stack[i].op = "submit" => stack[i].sub \in Subs /\ request[stack[i].sub] # None
    /\ stack[i].phase = "c" => ~stack[i].accepted

SubmitsOnce ==
  \A i, j \in 1 .. Len(stack) :
    stack[i].op = "submit" /\ stack[j].op = "submit" /\ stack[i].sub = stack[j].sub
      => i = j

(* What LibOSDP holds was requested, and no call still has it in hand.      *)
HeldWasTaken ==
  \A s \in Subs : held[s] # "out" => request[s] # None /\ ~Submitting(s)

(* A command that LibOSDP took is held until it ends.                       *)
TakenIsHeld ==
  \A s \in Subs :
    (handle[s] # "none" \/ TookIt(s)) /\ status[s] = "none" => held[s] # "out"

(* A PD runs one card command at a time, from when it is taken.             *)
Card(s) == request[s] # None /\ request[s].kind \in CardKinds

CardIsRunning == \A s \in Subs : Card(s) /\ held[s] # "out" => held[s] = "running"

OneCardPerPD ==
  \A s, t \in Subs :
    Card(s) /\ Card(t) /\ held[s] = "running" /\ held[t] = "running"
      /\ request[s].pd = request[t].pd => s = t

(* A route leads to a card command of its PD.                               *)
RoutesLead ==
  \A pd \in PDs : routes[pd] # None => Card(routes[pd]) /\ request[routes[pd]].pd = pd

BoxInv == SubmitsSomething /\ SubmitsOnce /\ HeldWasTaken /\ BoxHasOneOwner

ReplyInv == TakenIsHeld /\ CardIsRunning /\ OneCardPerPD /\ RoutesLead /\ ReplyIsOwn

-----------------------------------------------------------------------------
LEMMA RequestNotNone ==
  ASSUME NEW r \in Request
  PROVE  r # None
BY ConstantsAssumption

(* What a change of the stack does to the calls that submit.                *)

(* LibOSDP's verdict about the command in hand, and the end of a call.      *)
LEMMA TopSubmits ==
  ASSUME TypeOK, SubmitsSomething, stack # <<>>
  PROVE  /\ Len(stack) \in Nat \ {0} /\ Len(stack) \in 1 .. Len(stack)
         /\ Top = stack[Len(stack)] /\ Top \in Frame
         /\ Top.op = "submit" => Top.sub \in Subs /\ request[Top.sub] # None
         /\ Top.phase = "c" => ~Top.accepted
<1>1. Len(stack) \in Nat \ {0} /\ Top \in Frame
  BY TopOfStack DEF TypeOK
<1>2. Len(stack) \in 1 .. Len(stack)
  BY <1>1
<1> QED BY <1>1, <1>2 DEF Top, SubmitsSomething

(* The boxes in hand are those of the calls that submit: with the same      *)
(* calls, or the calls around the top one, they change only as stated.      *)
LEMMA SubmitsAdvance ==
  ASSUME TypeOK, SubmitsSomething, SubmitsOnce, stack # <<>>,
         NEW phase \in {"wake", "waker", "stream"},
         NEW todo \in SUBSET Subs, NEW accepted \in BOOLEAN,
         stack' = Advance(phase, todo, accepted), request' = request
  PROVE  /\ SubmitsSomething' /\ SubmitsOnce'
         /\ \A s \in Subs :
              Submitting(s)' <=> IF Top.op = "submit" /\ Top.sub = s
                                   THEN ~accepted ELSE Submitting(s)
         /\ \A s \in Subs :
              TookIt(s)' <=> IF Top.op = "submit" /\ Top.sub = s
                               THEN accepted ELSE TookIt(s)
<1>1. /\ Len(stack) \in Nat \ {0} /\ Len(stack') = Len(stack)
      /\ \A i \in 1 .. Len(stack) - 1 : stack'[i] = stack[i]
      /\ Top' = [op |-> Top.op, phase |-> phase, sub |-> Top.sub, todo |-> todo,
                 accepted |-> accepted]
  BY AfterAdvance
<1>2. stack'[Len(stack)] = [op |-> Top.op, phase |-> phase, sub |-> Top.sub, todo |-> todo,
                            accepted |-> accepted]
  BY <1>1 DEF Top
<1> DEFINE n == Len(stack)
<1>3. /\ n \in Nat \ {0} /\ n \in 1 .. n /\ Len(stack') = n /\ stack[n] = Top
      /\ stack'[n].op = Top.op /\ stack'[n].sub = Top.sub /\ stack'[n].phase = phase
      /\ stack'[n].accepted = accepted
      /\ \A i \in 1 .. n : i # n => stack'[i] = stack[i]
      /\ \A i \in 1 .. n : stack'[i].op = stack[i].op /\ stack'[i].sub = stack[i].sub
  BY <1>1, <1>2 DEF Top
<1> HIDE DEF n
<1>4. SubmitsSomething'
  BY <1>3 DEF SubmitsSomething, n
<1>5. SubmitsOnce'
  BY <1>3 DEF SubmitsOnce, n
<1>6. ASSUME NEW s \in Subs, Top.op = "submit", Top.sub = s
      PROVE  /\ Submitting(s)' <=> ~accepted
             /\ TookIt(s)' <=> accepted
  BY <1>3, <1>6 DEF Submitting, TookIt, SubmitsAt, SubmitsOnce, n
<1>7. ASSUME NEW s \in Subs, ~(Top.op = "submit" /\ Top.sub = s)
      PROVE  /\ Submitting(s)' <=> Submitting(s)
             /\ TookIt(s)' <=> TookIt(s)
  <2>1. \A i \in 1 .. n : i = n => ~SubmitsAt(i, s) /\ ~SubmitsAt(i, s)'
    BY <1>3, <1>7 DEF SubmitsAt
  <2> QED BY <1>3, <2>1 DEF Submitting, TookIt, SubmitsAt, n
<1> QED BY <1>4, <1>5, <1>6, <1>7

LEMMA SubmitsReturn ==
  ASSUME TypeOK, SubmitsSomething, SubmitsOnce, stack # <<>>,
         stack' = Caller, request' = request
  PROVE  /\ SubmitsSomething' /\ SubmitsOnce'
         /\ \A s \in Subs :
              Submitting(s)' <=> Submitting(s) /\ ~(Top.op = "submit" /\ Top.sub = s)
         /\ \A s \in Subs :
              TookIt(s)' <=> TookIt(s) /\ ~(Top.op = "submit" /\ Top.sub = s)
<1> DEFINE n == Len(stack)
<1>1. /\ n \in Nat \ {0} /\ n \in 1 .. n /\ Len(stack') = n - 1 /\ stack[n] = Top
      /\ \A i \in 1 .. n - 1 : stack'[i] = stack[i]
      /\ \A i \in 1 .. n - 1 : i \in 1 .. n /\ i # n
  BY AfterReturn DEF Top
<1> HIDE DEF n
<1>2. SubmitsSomething' /\ SubmitsOnce'
  <2>1. SubmitsSomething'
    BY <1>1 DEF SubmitsSomething, n
  <2>2. ASSUME NEW i \in 1 .. n - 1, NEW j \in 1 .. n - 1,
               stack'[i].op = "submit", stack'[j].op = "submit", stack'[i].sub = stack'[j].sub
        PROVE  i = j
    <3>1. stack'[i] = stack[i] /\ stack'[j] = stack[j] /\ i \in 1 .. n /\ j \in 1 .. n
      BY <1>1
    <3> QED BY <2>2, <3>1 DEF SubmitsOnce, n
  <2>3. SubmitsOnce'
    BY <1>1, <2>2 DEF SubmitsOnce
  <2> QED BY <2>1, <2>3
<1>3. ASSUME NEW s \in Subs, Top.op = "submit", Top.sub = s
      PROVE  ~Submitting(s)' /\ ~TookIt(s)'
  BY <1>1, <1>3 DEF Submitting, TookIt, SubmitsAt, SubmitsOnce, n
<1>4. ASSUME NEW s \in Subs, ~(Top.op = "submit" /\ Top.sub = s)
      PROVE  /\ Submitting(s)' <=> Submitting(s)
             /\ TookIt(s)' <=> TookIt(s)
  <2>1. ~SubmitsAt(n, s)
    BY <1>1, <1>4 DEF SubmitsAt
  <2> QED BY <1>1, <2>1 DEF Submitting, TookIt, SubmitsAt, n
<1> QED BY <1>2, <1>3, <1>4

LEMMA SubmitsPush ==
  ASSUME TypeOK, SubmitsSomething, SubmitsOnce,
         NEW op \in {"refresh", "submit", "flush"}, NEW phase \in {"c", "wake"},
         NEW s \in Subs \union {None}, NEW todo \in SUBSET Subs,
         op = "submit" => s \in Subs /\ request[s] = None /\ request'[s] # None,
         \A t \in Subs : request[t] # None => request'[t] # None,
         stack' = Push(op, phase, s, todo)
  PROVE  /\ SubmitsSomething' /\ SubmitsOnce'
         /\ \A t \in Subs :
              Submitting(t)' <=> Submitting(t) \/ (op = "submit" /\ s = t)
         /\ \A t \in Subs : TookIt(t)' <=> TookIt(t)
<1> DEFINE n == Len(stack)
<1>0. /\ n \in Nat /\ Len(stack') = n + 1
      /\ \A i \in 1 .. n : stack'[i] = stack[i]
      /\ Top' = [op |-> op, phase |-> phase, sub |-> s, todo |-> todo,
                 accepted |-> FALSE]
  BY AfterPush
<1>2. /\ stack'[n + 1].op = op /\ stack'[n + 1].sub = s /\ ~stack'[n + 1].accepted
  BY <1>0 DEF Top
<1>1. /\ n \in Nat /\ n + 1 \in 1 .. n + 1 /\ Len(stack') = n + 1
      /\ \A i \in 1 .. n : stack'[i] = stack[i]
      /\ \A i \in 1 .. n + 1 : i # n + 1 => i \in 1 .. n
      /\ \A i \in 1 .. n : i \in 1 .. n + 1 /\ i # n + 1
  BY <1>0
<1> HIDE DEF n
<1>3. SubmitsSomething'
  BY <1>1, <1>2 DEF SubmitsSomething, n
<1>4. SubmitsOnce'
  <2>1. \A i \in 1 .. n : op = "submit" /\ stack[i].op = "submit" => stack[i].sub # s
    BY DEF SubmitsSomething, n
  <2> QED BY <1>1, <1>2, <2>1 DEF SubmitsOnce, n
<1>5. \A t \in Subs : Submitting(t)' <=> Submitting(t) \/ (op = "submit" /\ s = t)
  BY <1>1, <1>2 DEF Submitting, n
<1>6. \A t \in Subs : TookIt(t)' <=> TookIt(t)
  BY <1>1, <1>2 DEF TookIt, SubmitsAt, n
<1> QED BY <1>3, <1>4, <1>5, <1>6

LEMMA SubmitsSame ==
  ASSUME SubmitsSomething, SubmitsOnce, stack' = stack, request' = request
  PROVE  /\ SubmitsSomething' /\ SubmitsOnce'
         /\ \A s \in Subs : Submitting(s)' <=> Submitting(s)
         /\ \A s \in Subs : TookIt(s)' <=> TookIt(s)
BY DEF SubmitsSomething, SubmitsOnce, Submitting, TookIt, SubmitsAt

(* Whether the command of the top call is in hand, or taken, shows there.   *)
LEMMA TopDecides ==
  ASSUME TypeOK, SubmitsSomething, SubmitsOnce, stack # <<>>,
         NEW s \in Subs, Top.op = "submit", Top.sub = s
  PROVE  /\ Submitting(s) <=> ~Top.accepted
         /\ TookIt(s) <=> Top.accepted
<1>1. Len(stack) \in 1 .. Len(stack) /\ Top = stack[Len(stack)]
  BY TopSubmits
<1> QED BY <1>1 DEF Submitting, TookIt, SubmitsAt, SubmitsOnce

-----------------------------------------------------------------------------
(* Every step preserves BoxInv.                                             *)

(* Nothing changes but which of LibOSDP's own queues holds a command.       *)
LEMMA BoxSame ==
  ASSUME TypeOK, BoxInv, UNCHANGED <<stack, request, frees>>,
         \A s \in Subs : held'[s] = "out" <=> held[s] = "out"
  PROVE  BoxInv'
<1>1. /\ SubmitsSomething' /\ SubmitsOnce'
      /\ \A s \in Subs : Submitting(s)' <=> Submitting(s)
  BY SubmitsSame DEF BoxInv
<1>2. HeldWasTaken' /\ BoxHasOneOwner'
  BY <1>1 DEF BoxInv, HeldWasTaken, BoxHasOneOwner
<1> QED BY <1>1, <1>2 DEF BoxInv

(* A command that is in hand, held or done stays so.                        *)
LEMMA BoxMoves ==
  ASSUME TypeOK, BoxInv, SubmitsSomething', SubmitsOnce',
         UNCHANGED <<request, frees, held>>,
         \A s \in Subs : Submitting(s)' <=> Submitting(s)
  PROVE  BoxInv'
<1>1. HeldWasTaken' /\ BoxHasOneOwner'
  BY DEF BoxInv, HeldWasTaken, BoxHasOneOwner
<1> QED BY <1>1 DEF BoxInv

(* LibOSDP returns some of the commands it holds, and their boxes are freed.*)
LEMMA BoxComplete ==
  ASSUME TypeOK, BoxInv, SubmitsSomething', SubmitsOnce', request' = request,
         \A s \in Subs : Submitting(s)' <=> Submitting(s),
         NEW S \in SUBSET Subs, \A s \in S : held[s] # "out",
         NEW outcome \in Outcomes, Complete(S, outcome)
  PROVE  BoxInv'
<1>1. HeldWasTaken'
  BY DEF Complete, BoxInv, HeldWasTaken, TypeOK
<1>2. ASSUME NEW s \in Subs
      PROVE  frees'[s] = IF request'[s] # None /\ held'[s] = "out" /\ ~Submitting(s)'
                           THEN 1 ELSE 0
  <2>1. CASE s \in S
    <3>1. request[s] # None /\ ~Submitting(s) /\ frees[s] = 0
      BY <2>1 DEF BoxInv, HeldWasTaken, BoxHasOneOwner
    <3> QED BY <2>1, <3>1 DEF Complete
  <2>2. CASE s \notin S
    BY <2>2 DEF Complete, BoxInv, BoxHasOneOwner
  <2> QED BY <2>1, <2>2
<1> QED BY <1>1, <1>2 DEF BoxInv, BoxHasOneOwner

LEMMA BoxLib == ASSUME TypeOK, BoxInv, LibNext PROVE BoxInv'
<1>1. ASSUME C_Event PROVE BoxInv'
  BY <1>1, BoxSame DEF C_Event
<1>2. ASSUME NEW s \in Subs, C_Send(s) \/ C_BioMultipart(s) \/ C_Reply(s)
                                   \/ C_MalformedReply(s)
      PROVE  BoxInv'
  <2>1. UNCHANGED <<stack, request, frees>>
    BY <1>2 DEF C_Send, C_BioMultipart, C_Reply, C_MalformedReply
  <2>2. \A t \in Subs : held'[t] = "out" <=> held[t] = "out"
    BY <1>2 DEF C_Send, C_BioMultipart, C_Reply, C_MalformedReply, TypeOK
  <2> QED BY <2>1, <2>2, BoxSame
<1>3. ASSUME NEW s \in Subs, NEW outcome \in {"ok", "failed"}, C_Complete(s, outcome)
      PROVE  BoxInv'
  <2>1. /\ outcome \in Outcomes /\ Complete({s}, outcome) /\ held[s] # "out"
        /\ UNCHANGED <<stack, request>>
    BY <1>3 DEF C_Complete, CompleteDeferring, Outcomes
  <2>2. /\ SubmitsSomething' /\ SubmitsOnce'
        /\ \A t \in Subs : Submitting(t)' <=> Submitting(t)
    BY <2>1, SubmitsSame DEF BoxInv
  <2> QED BY <2>1, <2>2, BoxComplete
<1> QED BY <1>1, <1>2, <1>3 DEF LibNext

LEMMA BoxUnwind == ASSUME TypeOK, BoxInv, Unwind PROVE BoxInv'
<1>1. ASSUME NEW phase \in {"wake", "waker", "stream"}, NEW todo \in SUBSET Subs,
             stack # <<>>, stack' = Advance(phase, todo, Top.accepted),
             UNCHANGED <<request, frees, held>>
      PROVE  BoxInv'
  <2>1. Top.accepted \in BOOLEAN
    BY <1>1, TopSubmits DEF BoxInv, Frame
  <2>2. /\ SubmitsSomething' /\ SubmitsOnce'
        /\ \A s \in Subs :
              Submitting(s)' <=> IF Top.op = "submit" /\ Top.sub = s
                                   THEN ~Top.accepted ELSE Submitting(s)
    BY <1>1, <2>1, SubmitsAdvance DEF BoxInv
  <2>3. \A s \in Subs : Submitting(s)' <=> Submitting(s)
    BY <1>1, <2>2, TopDecides DEF BoxInv
  <2> QED BY <1>1, <2>2, <2>3, BoxMoves
<1>2. ASSUME NEW s \in Subs, WakeNext(s) PROVE BoxInv'
  <2>1. stack # <<>> /\ Top \in Frame
    BY <1>2, TopSubmits DEF WakeNext, InPhase, BoxInv
  <2>2. /\ Top.todo \ {s} \in SUBSET Subs
        /\ stack' = Advance("waker", Top.todo \ {s}, Top.accepted)
        /\ UNCHANGED <<request, frees, held>>
    BY <1>2, <2>1 DEF WakeNext, Frame
  <2> QED BY <1>1, <2>1, <2>2
<1>3. ASSUME WakeStream PROVE BoxInv'
  BY <1>1, <1>3 DEF WakeStream, WokeAll, InPhase
<1>4. ASSUME RefreshReturns PROVE BoxInv'
  <2>1. /\ stack # <<>> /\ Top.phase = "c" /\ wakeups \in SUBSET Subs
        /\ stack' = Advance("wake", wakeups, FALSE)
        /\ UNCHANGED <<request, frees, held>>
    BY <1>4 DEF RefreshReturns, Refreshing, InPhase, BeginWaking, TypeOK
  <2>2. Top.accepted = FALSE
    BY <2>1, TopSubmits DEF BoxInv, Frame
  <2> QED BY <1>1, <2>1, <2>2
<1>5. ASSUME NEW accepted \in BOOLEAN, SubmitReturns(accepted) PROVE BoxInv'
  <2>1. /\ stack # <<>> /\ Top.phase = "c" /\ Top.op = "submit"
        /\ wakeups \in SUBSET Subs
        /\ stack' = Advance("wake", wakeups, accepted)
        /\ UNCHANGED <<request, frees>>
    BY <1>5 DEF SubmitReturns, InPhase, BeginWaking, TypeOK
  <2>2. Top.sub \in Subs /\ request[Top.sub] # None /\ ~Top.accepted
    BY <2>1, TopSubmits DEF BoxInv
  <2>3. Submitting(Top.sub)
    BY <2>1, <2>2, TopDecides DEF BoxInv
  <2>4. /\ SubmitsSomething' /\ SubmitsOnce'
        /\ \A s \in Subs :
              Submitting(s)' <=> IF Top.op = "submit" /\ Top.sub = s
                                   THEN ~accepted ELSE Submitting(s)
    BY <2>1, SubmitsAdvance DEF BoxInv
  <2>5. \A s \in Subs : held'[s] = IF s = Top.sub /\ accepted THEN held'[s] ELSE held[s]
    BY <1>5 DEF SubmitReturns, C_Takes, TypeOK
  <2>6. accepted => held'[Top.sub] # "out"
    BY <1>5, <2>2 DEF SubmitReturns, C_Takes, TypeOK
  <2>7. HeldWasTaken'
    BY <2>1, <2>2, <2>3, <2>4, <2>5, <2>6 DEF BoxInv, HeldWasTaken
  <2>8. ASSUME NEW s \in Subs
        PROVE  frees'[s] = IF request'[s] # None /\ held'[s] = "out" /\ ~Submitting(s)'
                             THEN 1 ELSE 0
    <3>1. CASE s = Top.sub
      <4>1. frees'[s] = 0
        BY <2>1, <2>3, <3>1 DEF BoxInv, BoxHasOneOwner
      <4> QED BY <2>1, <2>4, <2>6, <3>1, <4>1
    <3>2. CASE s # Top.sub
      BY <2>1, <2>4, <2>5, <3>2 DEF BoxInv, BoxHasOneOwner
    <3> QED BY <3>1, <3>2
  <2> QED BY <2>4, <2>7, <2>8 DEF BoxInv, BoxHasOneOwner
<1>6. ASSUME CallReturns PROVE BoxInv'
  <2>1. /\ stack # <<>> /\ Top.op # "submit" /\ stack' = Caller
        /\ UNCHANGED <<request, frees, held>>
    BY <1>6 DEF CallReturns, Woken, WokeAll, InPhase
  <2>2. /\ SubmitsSomething' /\ SubmitsOnce'
        /\ \A s \in Subs :
              Submitting(s)' <=> Submitting(s) /\ ~(Top.op = "submit" /\ Top.sub = s)
    BY <2>1, SubmitsReturn DEF BoxInv
  <2> QED BY <2>1, <2>2, BoxMoves
<1>7. ASSUME SubmitAccepted PROVE BoxInv'
  <2>1. /\ stack # <<>> /\ Top.op = "submit" /\ Top.accepted /\ stack' = Caller
        /\ UNCHANGED <<request, frees, held>>
    BY <1>7 DEF SubmitAccepted, Woken, WokeAll, InPhase
  <2>2. Top.sub \in Subs
    BY <2>1, TopSubmits DEF BoxInv
  <2>3. ~Submitting(Top.sub)
    BY <2>1, <2>2, TopDecides DEF BoxInv
  <2>4. /\ SubmitsSomething' /\ SubmitsOnce'
        /\ \A s \in Subs :
              Submitting(s)' <=> Submitting(s) /\ ~(Top.op = "submit" /\ Top.sub = s)
    BY <2>1, SubmitsReturn DEF BoxInv
  <2> QED BY <2>1, <2>3, <2>4, BoxMoves
<1>8. ASSUME SubmitRefused PROVE BoxInv'
  <2>1. /\ stack # <<>> /\ Top.op = "submit" /\ ~Top.accepted /\ stack' = Caller
        /\ frees' = [frees EXCEPT ![Top.sub] = @ + 1]
        /\ UNCHANGED <<request, held>>
    BY <1>8 DEF SubmitRefused, Reclaim, Woken, WokeAll, InPhase
  <2>2. Top.sub \in Subs /\ request[Top.sub] # None
    BY <2>1, TopSubmits DEF BoxInv
  <2>3. Submitting(Top.sub)
    BY <2>1, <2>2, TopDecides DEF BoxInv
  <2>4. /\ SubmitsSomething' /\ SubmitsOnce'
        /\ \A s \in Subs :
              Submitting(s)' <=> Submitting(s) /\ ~(Top.op = "submit" /\ Top.sub = s)
    BY <2>1, SubmitsReturn DEF BoxInv
  <2>5. held[Top.sub] = "out" /\ frees[Top.sub] = 0
    BY <2>2, <2>3 DEF BoxInv, HeldWasTaken, BoxHasOneOwner
  <2>6. HeldWasTaken'
    BY <2>1, <2>4 DEF BoxInv, HeldWasTaken
  <2>7. ASSUME NEW s \in Subs
        PROVE  frees'[s] = IF request'[s] # None /\ held'[s] = "out" /\ ~Submitting(s)'
                             THEN 1 ELSE 0
    <3>1. CASE s = Top.sub
      BY <2>1, <2>2, <2>4, <2>5, <3>1 DEF TypeOK
    <3>2. CASE s # Top.sub
      <4>1. frees'[s] = frees[s]
        BY <2>1, <3>2 DEF TypeOK
      <4> QED BY <2>1, <2>4, <3>2, <4>1 DEF BoxInv, BoxHasOneOwner
    <3> QED BY <3>1, <3>2
  <2> QED BY <2>4, <2>6, <2>7 DEF BoxInv, BoxHasOneOwner
<1> QED BY <1>2, <1>3, <1>4, <1>5, <1>6, <1>7, <1>8 DEF Unwind

LEMMA BoxApp == ASSUME TypeOK, BoxInv, AppNext PROVE BoxInv'
<1>1. ASSUME RefreshBegin PROVE BoxInv'
  <2>1. stack' = Push("refresh", "c", None, {}) /\ UNCHANGED <<request, frees, held>>
    BY <1>1 DEF RefreshBegin
  <2>2. /\ SubmitsSomething' /\ SubmitsOnce'
        /\ \A t \in Subs : Submitting(t)' <=> Submitting(t)
    BY <2>1, SubmitsPush DEF BoxInv
  <2> QED BY <2>1, <2>2, BoxMoves
<1>2. ASSUME NEW s \in Subs, NEW pd \in PDs, NEW kind \in Kinds, NEW wants \in BOOLEAN,
             SubmitBegin(s, pd, kind, wants)
      PROVE  BoxInv'
  <2>1. /\ stack' = Push("submit", "c", s, {}) /\ request[s] = None
        /\ request' = [request EXCEPT ![s] = [pd |-> pd, kind |-> kind, wants |-> wants]]
        /\ UNCHANGED <<frees, held>>
    BY <1>2 DEF SubmitBegin
  <2>2. /\ request'[s] # None
        /\ \A t \in Subs : t # s => request'[t] = request[t]
    <3>1. [pd |-> pd, kind |-> kind, wants |-> wants] \in Request
      BY <1>2, ConstantsAssumption DEF Request
    <3> DEFINE r == [pd |-> pd, kind |-> kind, wants |-> wants]
    <3>2. r # None /\ request' = [request EXCEPT ![s] = r]
      BY <2>1, <3>1, RequestNotNone
    <3> HIDE DEF r
    <3> QED BY <3>2 DEF TypeOK
  <2>3. \A t \in Subs : request[t] # None => request'[t] # None
    BY <2>1, <2>2
  <2>4. /\ SubmitsSomething' /\ SubmitsOnce'
        /\ \A t \in Subs : Submitting(t)' <=> Submitting(t) \/ s = t
    BY <2>1, <2>2, <2>3, SubmitsPush DEF BoxInv
  <2>5. held[s] = "out" /\ frees[s] = 0
    BY <2>1 DEF BoxInv, HeldWasTaken, BoxHasOneOwner
  <2>6. HeldWasTaken'
    BY <2>1, <2>2, <2>4, <2>5 DEF BoxInv, HeldWasTaken
  <2>7. BoxHasOneOwner'
    BY <2>1, <2>2, <2>4, <2>5 DEF BoxInv, BoxHasOneOwner
  <2> QED BY <2>4, <2>6, <2>7 DEF BoxInv
<1>3. \A pd \in PDs : /\ "flushed" \in Outcomes /\ Queued(pd) \in SUBSET Subs
                      /\ \A s \in Queued(pd) : held[s] # "out"
  BY DEF Outcomes, Queued, Of
<1>4. ASSUME NEW pd \in PDs, FlushInCallback(pd) PROVE BoxInv'
  <2>1. Complete(Queued(pd), "flushed") /\ UNCHANGED <<stack, request>>
    BY <1>4 DEF FlushInCallback, CompleteDeferring
  <2>2. /\ SubmitsSomething' /\ SubmitsOnce'
        /\ \A t \in Subs : Submitting(t)' <=> Submitting(t)
    BY <2>1, SubmitsSame DEF BoxInv
  <2> QED BY <1>3, <2>1, <2>2, BoxComplete
<1>5. ASSUME NEW pd \in PDs, Flush(pd) PROVE BoxInv'
  <2>1. /\ Complete(Queued(pd), "flushed") /\ request' = request
        /\ stack' = Push("flush", "wake", None, Deferred(Queued(pd)))
        /\ Deferred(Queued(pd)) \in SUBSET Subs
    BY <1>3, <1>5, TypeDeferred DEF Flush
  <2>2. /\ SubmitsSomething' /\ SubmitsOnce'
        /\ \A t \in Subs : Submitting(t)' <=> Submitting(t)
    BY <2>1, SubmitsPush DEF BoxInv
  <2> QED BY <1>3, <2>1, <2>2, BoxComplete
<1>6. ASSUME NEW s \in Subs, Cancel(s) \/ Poll(s) \/ DropHandle(s) PROVE BoxInv'
  BY <1>6, BoxSame DEF Cancel, Poll, DropHandle
<1>7. ASSUME NextEvent \/ ParkStream PROVE BoxInv'
  BY <1>7, BoxSame DEF NextEvent, ParkStream
<1>8. ASSUME DropContext PROVE BoxInv'
  <2>1. /\ Complete({s \in Subs : held[s] # "out"}, "aborted") /\ "aborted" \in Outcomes
        /\ UNCHANGED <<stack, request>>
    BY <1>8 DEF DropContext, Outcomes
  <2>2. /\ SubmitsSomething' /\ SubmitsOnce'
        /\ \A t \in Subs : Submitting(t)' <=> Submitting(t)
    BY <2>1, SubmitsSame DEF BoxInv
  <2> QED BY <2>1, <2>2, BoxComplete
<1> QED BY <1>1, <1>2, <1>4, <1>5, <1>6, <1>7, <1>8 DEF AppNext

(* The ownership invariant holds in every state.                            *)
THEOREM BoxesOwned == Spec => []BoxInv
<1>1. Init => BoxInv
  BY EmptySeq DEF Init, BoxInv, SubmitsSomething, SubmitsOnce, HeldWasTaken, BoxHasOneOwner
<1>2. TypeOK /\ BoxInv /\ [Next]_vars => BoxInv'
  BY BoxSame, BoxLib, BoxUnwind, BoxApp DEF Next
<1> QED BY <1>1, <1>2, TypeCorrect, PTL DEF Spec

(* The box of a command is freed once, and never while LibOSDP or a submit  *)
(* still uses it, whichever of reclaim, completion, flush and teardown ends *)
(* the command (ffi/submit.rs).                                             *)
THEOREM BoxFreedOnce == Spec => []BoxHasOneOwner
<1>1. BoxInv => BoxHasOneOwner
  BY DEF BoxInv
<1> QED BY <1>1, BoxesOwned, PTL

-----------------------------------------------------------------------------
(* Every step preserves ReplyInv.                                           *)

(* A call begins, moves on or returns, or the handles change, while LibOSDP *)
(* and the routes stay as they are.                                         *)
LEMMA ReplySame ==
  ASSUME ReplyInv, UNCHANGED <<request, status, held, routes, reply>>,
         \A s \in Subs : handle'[s] # "none" \/ TookIt(s)' => handle[s] # "none" \/ TookIt(s)
  PROVE  ReplyInv'
<1>1. TakenIsHeld'
  BY DEF ReplyInv, TakenIsHeld
<1>2. CardIsRunning' /\ OneCardPerPD' /\ RoutesLead' /\ ReplyIsOwn'
  BY DEF ReplyInv, CardIsRunning, OneCardPerPD, RoutesLead, ReplyIsOwn, Card
<1> QED BY <1>1, <1>2 DEF ReplyInv

(* LibOSDP returns the commands in S.                                       *)
LEMMA ReplyComplete ==
  ASSUME TypeOK, ReplyInv, NEW S \in SUBSET Subs, NEW outcome \in Outcomes,
         Complete(S, outcome), UNCHANGED <<request, handle, reply>>,
         \A s \in Subs : TookIt(s)' <=> TookIt(s),
         routes' = routes \/ routes' = [pd \in PDs |-> None]
  PROVE  ReplyInv'
<1>0. outcome # "none"
  BY DEF Outcomes
<1>1. \A s \in Subs : /\ held'[s] = IF s \in S THEN "out" ELSE held[s]
                      /\ status'[s] = IF s \in S THEN outcome ELSE status[s]
  BY DEF Complete
<1>2. TakenIsHeld'
  BY <1>0, <1>1 DEF ReplyInv, TakenIsHeld
<1>3. CardIsRunning' /\ OneCardPerPD'
  BY <1>1 DEF ReplyInv, CardIsRunning, OneCardPerPD, Card
<1>4. RoutesLead' /\ ReplyIsOwn'
  BY DEF ReplyInv, RoutesLead, ReplyIsOwn, Card
<1> QED BY <1>2, <1>3, <1>4 DEF ReplyInv

LEMMA ReplyLib == ASSUME TypeOK, BoxInv, ReplyInv, LibNext PROVE ReplyInv'
<1>1. ASSUME UNCHANGED <<stack, request>>
      PROVE  \A s \in Subs : TookIt(s)' <=> TookIt(s)
  BY <1>1, SubmitsSame DEF BoxInv
<1>2. ASSUME C_Event PROVE ReplyInv'
  BY <1>1, <1>2, ReplySame DEF C_Event
<1>3. ASSUME NEW s \in Subs, C_Send(s) \/ C_BioMultipart(s) PROVE ReplyInv'
  <2>1. /\ UNCHANGED <<stack, request, status, handle, reply, routes>>
        /\ held[s] # "out" /\ held'[s] # "out"
        /\ \A t \in Subs : t # s => held'[t] = held[t]
    BY <1>3 DEF C_Send, C_BioMultipart, TypeOK
  <2>2. ~Card(s)
    <3>1. CASE C_Send(s)
      BY <3>1 DEF C_Send, ReplyInv, CardIsRunning
    <3>2. CASE C_BioMultipart(s)
      BY <3>2 DEF C_BioMultipart, Card, CardKinds
    <3> QED BY <1>3, <3>1, <3>2
  <2>3. TakenIsHeld'
    BY <1>1, <2>1 DEF ReplyInv, TakenIsHeld
  <2>4. \A t \in Subs : /\ Card(t)' <=> Card(t)
                        /\ Card(t) => t # s /\ held'[t] = held[t]
    BY <2>1, <2>2 DEF Card
  <2>5. CardIsRunning' /\ OneCardPerPD'
    BY <2>1, <2>4 DEF ReplyInv, CardIsRunning, OneCardPerPD
  <2>6. RoutesLead' /\ ReplyIsOwn'
    BY <2>1 DEF ReplyInv, RoutesLead, ReplyIsOwn, Card
  <2> QED BY <2>3, <2>5, <2>6 DEF ReplyInv
<1>4. ASSUME NEW s \in Subs, C_Reply(s) PROVE ReplyInv'
  <2>1. /\ UNCHANGED <<stack, request, status, handle, held>>
        /\ routes' = [routes EXCEPT ![request[s].pd] = None]
        /\ held[s] = "running" /\ request[s].kind \in CardKinds
    BY <1>4 DEF C_Reply
  <2>2. TakenIsHeld' /\ CardIsRunning' /\ OneCardPerPD'
    BY <1>1, <2>1 DEF ReplyInv, TakenIsHeld, CardIsRunning, OneCardPerPD, Card
  <2>3. RoutesLead'
    BY <2>1 DEF ReplyInv, RoutesLead, Card, TypeOK
  <2>4. Card(s) /\ request[s].pd \in PDs
    <3>1. request[s] # None
      BY <2>1 DEF BoxInv, HeldWasTaken
    <3> QED BY <2>1, <3>1 DEF Card, TypeOK, Request
  <2>5. ReplyIsOwn'
    <3> DEFINE r == routes[request[s].pd]
    <3>1. CASE Waiting(r)
      <4>1. /\ r # None /\ status[r] = "none" /\ handle[r] = "live" /\ r \in Subs
            /\ reply' = [reply EXCEPT ![r] = s]
        BY <1>4, <2>4, <3>1 DEF C_Reply, Waiting, IsPending, TypeOK
      <4>2. Card(r) /\ request[r].pd = request[s].pd
        BY <2>4, <4>1 DEF ReplyInv, RoutesLead
      <4>3. held[r] = "running"
        BY <4>1, <4>2 DEF ReplyInv, TakenIsHeld, CardIsRunning
      <4>4. r = s
        BY <2>1, <2>4, <4>1, <4>2, <4>3 DEF ReplyInv, OneCardPerPD
      <4> HIDE DEF r
      <4> QED BY <4>1, <4>4 DEF ReplyInv, ReplyIsOwn, TypeOK
    <3>2. CASE ~Waiting(r)
      BY <1>4, <3>2 DEF C_Reply, ReplyInv, ReplyIsOwn
    <3> QED BY <3>1, <3>2
  <2> QED BY <2>2, <2>3, <2>5 DEF ReplyInv
<1>5. ASSUME NEW s \in Subs, NEW outcome \in {"ok", "failed"}, C_Complete(s, outcome)
      PROVE  ReplyInv'
  <2>1. outcome \in Outcomes
    BY DEF Outcomes
  <2>2. Complete({s}, outcome) /\ UNCHANGED <<stack, request, handle, reply, routes>>
    BY <1>5 DEF C_Complete, CompleteDeferring
  <2> QED BY <1>1, <2>1, <2>2, ReplyComplete
<1>6. ASSUME NEW s \in Subs, C_MalformedReply(s) PROVE ReplyInv'
  BY <1>1, <1>6, ReplySame DEF C_MalformedReply
<1> QED BY <1>2, <1>3, <1>4, <1>5, <1>6 DEF LibNext

LEMMA ReplyUnwind == ASSUME TypeOK, BoxInv, ReplyInv, Unwind PROVE ReplyInv'
<1>1. ASSUME NEW phase \in {"wake", "waker", "stream"}, NEW todo \in SUBSET Subs,
             stack # <<>>, stack' = Advance(phase, todo, Top.accepted),
             UNCHANGED <<request, status, handle, held, routes, reply>>
      PROVE  ReplyInv'
  <2>1. Top.accepted \in BOOLEAN
    BY <1>1, TopSubmits DEF BoxInv, Frame
  <2>2. \A s \in Subs : TookIt(s)' <=> IF Top.op = "submit" /\ Top.sub = s
                                         THEN Top.accepted ELSE TookIt(s)
    BY <1>1, <2>1, SubmitsAdvance DEF BoxInv
  <2>3. \A s \in Subs : TookIt(s)' <=> TookIt(s)
    BY <1>1, <2>2, TopDecides DEF BoxInv
  <2> QED BY <1>1, <2>3, ReplySame
<1>2. ASSUME NEW s \in Subs, WakeNext(s) PROVE ReplyInv'
  <2>1. stack # <<>> /\ Top \in Frame
    BY <1>2, TopSubmits DEF WakeNext, InPhase, BoxInv
  <2>2. /\ Top.todo \ {s} \in SUBSET Subs
        /\ stack' = Advance("waker", Top.todo \ {s}, Top.accepted)
        /\ UNCHANGED <<request, status, handle, held, routes, reply>>
    BY <1>2, <2>1 DEF WakeNext, Frame
  <2> QED BY <1>1, <2>1, <2>2
<1>3. ASSUME WakeStream PROVE ReplyInv'
  BY <1>1, <1>3 DEF WakeStream, WokeAll, InPhase
<1>4. ASSUME RefreshReturns PROVE ReplyInv'
  <2>1. /\ stack # <<>> /\ Top.phase = "c" /\ wakeups \in SUBSET Subs
        /\ stack' = Advance("wake", wakeups, FALSE)
        /\ UNCHANGED <<request, status, handle, held, routes, reply>>
    BY <1>4 DEF RefreshReturns, Refreshing, InPhase, BeginWaking, TypeOK
  <2>2. Top.accepted = FALSE
    BY <2>1, TopSubmits DEF BoxInv, Frame
  <2> QED BY <1>1, <2>1, <2>2
<1>5. ASSUME NEW accepted \in BOOLEAN, SubmitReturns(accepted) PROVE ReplyInv'
  <2>1. /\ stack # <<>> /\ Top.phase = "c" /\ Top.op = "submit"
        /\ wakeups \in SUBSET Subs
        /\ stack' = Advance("wake", wakeups, accepted)
        /\ UNCHANGED <<request, status, handle, reply, routes>>
    BY <1>5 DEF SubmitReturns, InPhase, BeginWaking, TypeOK
  <2>2. Top.sub \in Subs /\ request[Top.sub] # None /\ ~Top.accepted
    BY <2>1, TopSubmits DEF BoxInv
  <2>3. Submitting(Top.sub)
    BY <2>1, <2>2, TopDecides DEF BoxInv
  <2>4. held[Top.sub] = "out"
    BY <2>2, <2>3 DEF BoxInv, HeldWasTaken
  <2>5. \A s \in Subs :
              TookIt(s)' <=> IF Top.op = "submit" /\ Top.sub = s
                               THEN accepted ELSE TookIt(s)
    BY <2>1, SubmitsAdvance DEF BoxInv
  <2>6. \A s \in Subs : s # Top.sub \/ ~accepted => held'[s] = held[s]
    BY <1>5 DEF SubmitReturns, C_Takes, TypeOK
  <2>7. accepted => /\ held'[Top.sub] # "out"
                    /\ Card(Top.sub) => held'[Top.sub] = "running"
    BY <1>5, <2>2 DEF SubmitReturns, C_Takes, Card, TypeOK
  <2>8. TakenIsHeld'
    BY <2>1, <2>2, <2>5, <2>6, <2>7 DEF ReplyInv, TakenIsHeld
  <2>9. \A s \in Subs : Card(s)' <=> Card(s)
    BY <2>1 DEF Card
  <2>10. CardIsRunning'
    BY <2>2, <2>6, <2>7, <2>9 DEF ReplyInv, CardIsRunning
  <2>11. ASSUME accepted, NEW t \in Subs, t # Top.sub, Card(t), Card(Top.sub),
                request[t].pd = request[Top.sub].pd
         PROVE  held[t] # "running"
    BY <1>5, <2>11 DEF SubmitReturns, C_Accepts, Of, Card
  <2>12. OneCardPerPD'
    <3> SUFFICES ASSUME NEW s \in Subs, NEW t \in Subs, Card(s), Card(t),
                        held'[s] = "running", held'[t] = "running",
                        request[s].pd = request[t].pd, s # t
                 PROVE  FALSE
      BY <2>1, <2>9 DEF OneCardPerPD
    <3>1. CASE accepted /\ s = Top.sub
      BY <2>6, <2>11, <3>1
    <3>2. CASE accepted /\ t = Top.sub
      BY <2>6, <2>11, <3>2
    <3>3. CASE ~accepted \/ (s # Top.sub /\ t # Top.sub)
      BY <2>6, <3>3 DEF ReplyInv, OneCardPerPD
    <3> QED BY <3>1, <3>2, <3>3
  <2>13. RoutesLead' /\ ReplyIsOwn'
    BY <2>1 DEF ReplyInv, RoutesLead, ReplyIsOwn, Card
  <2> QED BY <2>8, <2>10, <2>12, <2>13 DEF ReplyInv
<1>6. ASSUME CallReturns \/ SubmitRefused PROVE ReplyInv'
  <2>1. /\ stack # <<>> /\ stack' = Caller
        /\ UNCHANGED <<request, status, handle, held, routes, reply>>
    BY <1>6 DEF CallReturns, SubmitRefused, Woken, WokeAll, InPhase
  <2>2. \A s \in Subs : TookIt(s)' => TookIt(s)
    BY <2>1, SubmitsReturn DEF BoxInv
  <2> QED BY <2>1, <2>2, ReplySame
<1>7. ASSUME SubmitAccepted PROVE ReplyInv'
  <2>1. /\ stack # <<>> /\ Top.op = "submit" /\ Top.accepted /\ stack' = Caller
        /\ RouteReply(Top.sub)
        /\ handle' = [handle EXCEPT ![Top.sub] = "live"]
        /\ UNCHANGED <<request, status, held, reply>>
    BY <1>7 DEF SubmitAccepted, Woken, WokeAll, InPhase
  <2>2. Top.sub \in Subs /\ request[Top.sub] # None
    BY <2>1, TopSubmits DEF BoxInv
  <2>3. TookIt(Top.sub)
    BY <2>1, <2>2, TopDecides DEF BoxInv
  <2>4. \A s \in Subs : TookIt(s)' => TookIt(s)
    BY <2>1, SubmitsReturn DEF BoxInv
  <2>5. \A s \in Subs : handle'[s] # "none" => handle[s] # "none" \/ s = Top.sub
    BY <2>1 DEF TypeOK
  <2>6. TakenIsHeld'
    BY <2>1, <2>3, <2>4, <2>5 DEF ReplyInv, TakenIsHeld
  <2>7. CardIsRunning' /\ OneCardPerPD' /\ ReplyIsOwn'
    BY <2>1 DEF ReplyInv, CardIsRunning, OneCardPerPD, ReplyIsOwn, Card
  <2>8. RoutesLead'
    <3> SUFFICES ASSUME NEW pd \in PDs, routes'[pd] # None
                 PROVE  Card(routes'[pd]) /\ request[routes'[pd]].pd = pd
      BY <2>1 DEF RoutesLead, Card
    <3>1. CASE routes'[pd] = routes[pd]
      BY <3>1 DEF ReplyInv, RoutesLead
    <3>2. CASE routes'[pd] # routes[pd]
      BY <2>1, <2>2, <3>2 DEF RouteReply, Card, TypeOK
    <3> QED BY <3>1, <3>2
  <2> QED BY <2>6, <2>7, <2>8 DEF ReplyInv
<1> QED BY <1>2, <1>3, <1>4, <1>5, <1>6, <1>7 DEF Unwind

LEMMA ReplyApp == ASSUME TypeOK, BoxInv, ReplyInv, AppNext PROVE ReplyInv'
<1>1. ASSUME UNCHANGED <<stack, request>>
      PROVE  \A s \in Subs : TookIt(s)' <=> TookIt(s)
  BY <1>1, SubmitsSame DEF BoxInv
<1>2. ASSUME RefreshBegin PROVE ReplyInv'
  <2>1. /\ stack' = Push("refresh", "c", None, {})
        /\ UNCHANGED <<request, status, handle, held, routes, reply>>
    BY <1>2 DEF RefreshBegin
  <2>2. \A t \in Subs : TookIt(t)' <=> TookIt(t)
    BY <2>1, SubmitsPush DEF BoxInv
  <2> QED BY <2>1, <2>2, ReplySame
<1>3. ASSUME NEW s \in Subs, NEW pd \in PDs, NEW kind \in Kinds, NEW wants \in BOOLEAN,
             SubmitBegin(s, pd, kind, wants)
      PROVE  ReplyInv'
  <2>1. /\ stack' = Push("submit", "c", s, {}) /\ request[s] = None
        /\ UNCHANGED <<status, handle, held, routes, reply>>
        /\ request' = [request EXCEPT ![s] = [pd |-> pd, kind |-> kind, wants |-> wants]]
    BY <1>3 DEF SubmitBegin
  <2>2. /\ request'[s] # None
        /\ \A t \in Subs : t # s => request'[t] = request[t]
    <3>1. [pd |-> pd, kind |-> kind, wants |-> wants] \in Request
      BY <1>3, ConstantsAssumption DEF Request
    <3> DEFINE r == [pd |-> pd, kind |-> kind, wants |-> wants]
    <3>2. r # None /\ request' = [request EXCEPT ![s] = r]
      BY <2>1, <3>1, RequestNotNone
    <3> HIDE DEF r
    <3> QED BY <3>2 DEF TypeOK
  <2>3. \A t \in Subs : request[t] # None => request'[t] # None
    BY <2>1, <2>2
  <2>4. \A t \in Subs : TookIt(t)' <=> TookIt(t)
    BY <2>1, <2>2, <2>3, SubmitsPush DEF BoxInv
  <2>5. held[s] = "out"
    BY <2>1 DEF BoxInv, HeldWasTaken
  <2>6. TakenIsHeld' /\ ReplyIsOwn'
    BY <2>1, <2>4 DEF ReplyInv, TakenIsHeld, ReplyIsOwn
  <2>7. \A t \in Subs : held[t] # "out" => t # s /\ (Card(t)' <=> Card(t))
    BY <2>2, <2>5 DEF Card
  <2>8. CardIsRunning'
    BY <2>1, <2>7 DEF ReplyInv, CardIsRunning
  <2>9. OneCardPerPD'
    <3> SUFFICES ASSUME NEW t \in Subs, NEW u \in Subs, Card(t)', Card(u)',
                        held[t] = "running", held[u] = "running",
                        request'[t].pd = request'[u].pd
                 PROVE  t = u
      BY <2>1 DEF OneCardPerPD
    <3>1. t # s /\ u # s /\ Card(t) /\ Card(u)
      BY <2>7
    <3> QED BY <2>2, <3>1 DEF ReplyInv, OneCardPerPD
  <2>10. RoutesLead'
    <3> SUFFICES ASSUME NEW p \in PDs, routes[p] # None
                 PROVE  Card(routes[p])' /\ request'[routes[p]].pd = p
      BY <2>1 DEF RoutesLead, Card
    <3>1. routes[p] \in Subs /\ Card(routes[p]) /\ request[routes[p]].pd = p
      BY DEF ReplyInv, RoutesLead, TypeOK
    <3>2. routes[p] # s
      BY <2>1, <3>1 DEF Card
    <3>3. request'[routes[p]] = request[routes[p]]
      BY <2>2, <3>1, <3>2
    <3> QED BY <2>1, <3>1, <3>3 DEF Card
  <2> QED BY <2>6, <2>8, <2>9, <2>10 DEF ReplyInv
<1>4. \A pd \in PDs : "flushed" \in Outcomes /\ Queued(pd) \in SUBSET Subs
  BY DEF Outcomes, Queued, Of
<1>5. ASSUME NEW pd \in PDs, FlushInCallback(pd) PROVE ReplyInv'
  <2>1. /\ Complete(Queued(pd), "flushed")
        /\ UNCHANGED <<stack, request, handle, reply, routes>>
    BY <1>5 DEF FlushInCallback, CompleteDeferring
  <2> QED BY <1>1, <1>4, <2>1, ReplyComplete
<1>6. ASSUME NEW pd \in PDs, Flush(pd) PROVE ReplyInv'
  <2>1. /\ Complete(Queued(pd), "flushed") /\ UNCHANGED <<request, handle, reply, routes>>
        /\ stack' = Push("flush", "wake", None, Deferred(Queued(pd)))
        /\ Deferred(Queued(pd)) \in SUBSET Subs
    BY <1>4, <1>6, TypeDeferred DEF Flush
  <2>2. \A t \in Subs : TookIt(t)' <=> TookIt(t)
    BY <2>1, SubmitsPush DEF BoxInv
  <2> QED BY <1>4, <2>1, <2>2, ReplyComplete
<1>7. ASSUME NEW s \in Subs, Cancel(s) \/ Poll(s) \/ DropHandle(s) PROVE ReplyInv'
  <2>1. UNCHANGED <<stack, request, status, held, routes, reply>>
    BY <1>7 DEF Cancel, Poll, DropHandle
  <2>2. \A t \in Subs : handle'[t] # "none" => handle[t] # "none"
    BY <1>7 DEF Cancel, Poll, DropHandle, TypeOK
  <2> QED BY <1>1, <2>1, <2>2, ReplySame
<1>8. ASSUME NextEvent \/ ParkStream PROVE ReplyInv'
  BY <1>1, <1>8, ReplySame DEF NextEvent, ParkStream
<1>9. ASSUME DropContext PROVE ReplyInv'
  <2>1. /\ Complete({s \in Subs : held[s] # "out"}, "aborted") /\ "aborted" \in Outcomes
        /\ UNCHANGED <<stack, request, handle, reply>>
        /\ routes' = [pd \in PDs |-> None]
    BY <1>9 DEF DropContext, Outcomes
  <2> QED BY <1>1, <2>1, ReplyComplete
<1> QED BY <1>2, <1>3, <1>5, <1>6, <1>7, <1>8, <1>9 DEF AppNext

(* The invariant about replies holds in every state.                        *)
THEOREM RepliesFollowed == Spec => []ReplyInv
<1>1. Init => ReplyInv
  BY EmptySeq DEF Init, ReplyInv, TakenIsHeld, TookIt, CardIsRunning, OneCardPerPD, Card,
                  RoutesLead, ReplyIsOwn
<1>2. TypeOK /\ BoxInv /\ ReplyInv /\ [Next]_vars => ReplyInv'
  <2> SUFFICES ASSUME TypeOK, BoxInv, ReplyInv, [Next]_vars PROVE ReplyInv'
    OBVIOUS
  <2>1. CASE UNCHANGED vars
    BY <2>1, SubmitsSame, ReplySame DEF BoxInv
  <2> QED BY <2>1, ReplyLib, ReplyUnwind, ReplyApp DEF Next
<1> QED BY <1>1, <1>2, TypeCorrect, BoxesOwned, PTL DEF Spec

(* A handle resolves into the reply to its own command or into none: the    *)
(* route of a PD never leads a reply to another submission, however stale   *)
(* it is (CpEvents::route_reply, CpEvents::deliver_reply).                  *)
THEOREM RepliesAreOwn == Spec => []ReplyIsOwn
<1>1. ReplyInv => ReplyIsOwn
  BY DEF ReplyInv
<1> QED BY <1>1, RepliesFollowed, PTL

-----------------------------------------------------------------------------
(* Where every event is.                                                    *)

(* A stored reply was reported, and no number in use is ahead of LibOSDP's. *)
Answered == {s \in Subs : reply[s] # None}

EventInv ==
  /\ IsFiniteSet(Answered) /\ Answered \subseteq replied
  /\ lastPopped <= raised /\ \A i \in 1 .. Len(queue) : queue[i] <= raised
  /\ EventsAccountedFor

LEMMA EventsSame ==
  ASSUME EventInv, Answered \subseteq replied',
         UNCHANGED <<alive, queue, dropped, reply, raised, popped, lastPopped>>
  PROVE  EventInv'
<1>1. Answered' = Answered
  BY DEF Answered
<1>2. EventsAccountedFor'
  BY <1>1 DEF EventInv, EventsAccountedFor, Answered
<1> QED BY <1>1, <1>2 DEF EventInv

(* An event is queued behind the others, or counted as dropped.             *)
LEMMA EventPushed ==
  ASSUME TypeOK, EventInv, PushEvent, Answered \subseteq replied',
         UNCHANGED <<alive, reply, popped, lastPopped>>
  PROVE  EventInv'
<1>1. Answered' = Answered /\ Cardinality(Answered) \in Nat
  BY FS_CardinalityType DEF Answered, EventInv
<1>2. /\ raised \in Nat /\ popped \in Nat /\ dropped \in Nat /\ lastPopped \in Nat
      /\ Len(queue) \in Nat /\ queue \in Seq(Nat) /\ raised' = raised + 1
      /\ \A i \in 1 .. Len(queue) : queue[i] \in Nat
  BY LenProperties, ElementOfSeq DEF TypeOK, PushEvent
<1>3. alive => raised = popped + Len(queue) + dropped + Cardinality(Answered)
  BY DEF EventInv, EventsAccountedFor, Answered
<1>4. CASE Len(queue) < Capacity
  <2>1. queue' = Append(queue, raised + 1) /\ dropped' = dropped /\ raised + 1 \in Nat
    BY <1>2, <1>4 DEF PushEvent
  <2>2. /\ Len(queue') = Len(queue) + 1 /\ queue'[Len(queue) + 1] = raised + 1
        /\ \A i \in 1 .. Len(queue) : queue'[i] = queue[i]
    BY <1>2, <2>1, AppendProperties
  <2>3. alive => raised' = popped + Len(queue') + dropped' + Cardinality(Answered)
    BY <1>1, <1>2, <1>3, <2>1, <2>2
  <2>4. ASSUME NEW i \in 1 .. Len(queue') PROVE queue'[i] <= raised'
    <3>1. CASE i \in 1 .. Len(queue)
      <4>1. queue'[i] = queue[i] /\ queue[i] <= raised /\ queue[i] \in Nat
        BY <1>2, <2>2, <3>1 DEF EventInv
      <4> QED BY <1>2, <4>1
    <3>2. CASE i \notin 1 .. Len(queue)
      <4>1. i = Len(queue) + 1
        BY <1>2, <2>2, <3>2
      <4> QED BY <1>2, <2>2, <4>1
    <3> QED BY <3>1, <3>2
  <2>5. ASSUME NEW i \in 1 .. Len(queue')
        PROVE  queue'[i] > (IF i = 1 THEN lastPopped ELSE queue'[i - 1])
    <3>1. CASE i \in 1 .. Len(queue)
      <4>1. queue[i] > (IF i = 1 THEN lastPopped ELSE queue[i - 1])
        BY <3>1 DEF EventInv, EventsAccountedFor
      <4>2. i # 1 => i - 1 \in 1 .. Len(queue)
        BY <1>2, <3>1
      <4> QED BY <2>2, <3>1, <4>1, <4>2
    <3>2. CASE i = Len(queue) + 1
      <4>1. lastPopped < raised + 1
        BY <1>2 DEF EventInv
      <4>2. i # 1 => i - 1 = Len(queue) /\ Len(queue) \in 1 .. Len(queue)
        BY <1>2, <3>2
      <4>3. i # 1 => queue'[i - 1] = queue[Len(queue)] /\ queue[Len(queue)] < raised + 1
        BY <1>2, <2>2, <4>2 DEF EventInv
      <4>4. queue'[i] = raised + 1
        BY <2>2, <3>2
      <4> QED BY <1>2, <4>1, <4>2, <4>3, <4>4
    <3> QED BY <1>2, <2>2, <3>1, <3>2
  <2>6. EventsAccountedFor'
    BY <1>1, <2>3, <2>5 DEF EventsAccountedFor, Answered
  <2> QED BY <1>1, <1>2, <2>4, <2>6 DEF EventInv
<1>5. CASE ~(Len(queue) < Capacity)
  <2>1. dropped' = dropped + 1 /\ queue' = queue
    BY <1>5 DEF PushEvent
  <2>2. alive => raised' = popped + Len(queue) + dropped' + Cardinality(Answered)
    BY <1>1, <1>2, <1>3, <2>1
  <2>3. lastPopped <= raised' /\ \A i \in 1 .. Len(queue) : queue[i] <= raised'
    BY <1>2 DEF EventInv
  <2>4. EventsAccountedFor'
    BY <1>1, <2>1, <2>2 DEF EventInv, EventsAccountedFor, Answered
  <2> QED BY <1>1, <2>1, <2>3, <2>4 DEF EventInv
<1> QED BY <1>4, <1>5

(* A reply that finds a handle waiting finds the one of its own command,    *)
(* which has none yet.                                                      *)
LEMMA ReplyFindsItsOwn ==
  ASSUME TypeOK, BoxInv, ReplyInv, NEW s \in Subs, C_Reply(s),
         NEW slot, slot = routes[request[s].pd], Waiting(slot)
  PROVE  slot = s
<1>1. held[s] = "running" /\ request[s].kind \in CardKinds
  BY DEF C_Reply
<1>2. request[s] # None
  BY <1>1 DEF BoxInv, HeldWasTaken
<1>3. Card(s) /\ request[s].pd \in PDs
  BY <1>1, <1>2 DEF Card, TypeOK, Request
<1>4. slot \in Subs /\ slot # None /\ status[slot] = "none" /\ handle[slot] = "live"
  BY <1>3 DEF Waiting, IsPending, TypeOK
<1>5. Card(slot) /\ request[slot].pd = request[s].pd
  BY <1>3, <1>4 DEF ReplyInv, RoutesLead
<1>6. held[slot] = "running"
  BY <1>4, <1>5 DEF ReplyInv, TakenIsHeld, CardIsRunning
<1> QED BY <1>1, <1>3, <1>4, <1>5, <1>6 DEF ReplyInv, OneCardPerPD

LEMMA EventReply ==
  ASSUME TypeOK, BoxInv, ReplyInv, EventInv, NEW s \in Subs, C_Reply(s)
  PROVE  EventInv'
<1>1. /\ s \notin replied /\ replied' = replied \union {s}
      /\ UNCHANGED <<alive, popped, lastPopped>>
  BY DEF C_Reply
<1>2. s \notin Answered
  BY <1>1 DEF EventInv
<1> DEFINE slot == routes[request[s].pd]
<1>3. CASE Waiting(slot)
  <2>1. slot = s
    BY <1>3, ReplyFindsItsOwn
  <2>2. /\ reply' = [reply EXCEPT ![s] = s] /\ raised' = raised + 1
        /\ UNCHANGED <<queue, dropped>>
    BY <1>3, <2>1 DEF C_Reply
  <2>3. s # None
    BY ConstantsAssumption
  <2>4. Answered' = Answered \union {s}
    BY <2>2, <2>3 DEF Answered, TypeOK
  <2>5. /\ IsFiniteSet(Answered)' /\ Cardinality(Answered)' = Cardinality(Answered) + 1
        /\ Cardinality(Answered) \in Nat
    BY <1>2, <2>4, FS_AddElement, FS_CardinalityType DEF EventInv
  <2>6. /\ raised \in Nat /\ popped \in Nat /\ dropped \in Nat /\ lastPopped \in Nat
        /\ Len(queue) \in Nat /\ \A i \in 1 .. Len(queue) : queue[i] \in Nat
    BY LenProperties, ElementOfSeq DEF TypeOK
  <2>7. alive' => raised' = popped' + Len(queue') + dropped' + Cardinality(Answered)'
    BY <1>1, <2>2, <2>5, <2>6 DEF EventInv, EventsAccountedFor, Answered
  <2>8. EventsAccountedFor'
    BY <1>1, <2>2, <2>7 DEF EventInv, EventsAccountedFor, Answered
  <2>9. lastPopped' <= raised' /\ \A i \in 1 .. Len(queue') : queue'[i] <= raised'
    BY <1>1, <2>2, <2>6 DEF EventInv
  <2>10. Answered' \subseteq replied'
    BY <1>1, <2>4 DEF EventInv
  <2> QED BY <2>5, <2>8, <2>9, <2>10 DEF EventInv
<1>4. CASE ~Waiting(slot)
  <2>1. PushEvent /\ UNCHANGED reply
    BY <1>4 DEF C_Reply
  <2>2. Answered \subseteq replied'
    BY <1>1 DEF EventInv
  <2> QED BY <1>1, <2>1, <2>2, EventPushed
<1> QED BY <1>3, <1>4

(* The application takes the event at the head.                             *)
LEMMA EventTaken ==
  ASSUME TypeOK, EventInv, NextEvent
  PROVE  EventInv'
<1>1. /\ queue # <<>> /\ queue' = Tail(queue) /\ popped' = popped + 1
      /\ lastPopped' = Head(queue) /\ UNCHANGED <<alive, dropped, reply, replied, raised>>
  BY DEF NextEvent
<1>2. /\ Len(queue) \in Nat \ {0} /\ Len(queue') = Len(queue) - 1
      /\ Head(queue) = queue[1]
      /\ \A i \in 1 .. Len(queue) - 1 : queue'[i] = queue[i + 1]
  BY <1>1, HeadTailProperties, LenProperties, EmptySeq DEF TypeOK
<1>3. /\ popped \in Nat /\ dropped \in Nat /\ raised \in Nat
      /\ \A i \in 1 .. Len(queue) : queue[i] \in Nat
  BY ElementOfSeq DEF TypeOK
<1>4. Answered' = Answered /\ Cardinality(Answered) \in Nat
  BY <1>1, FS_CardinalityType DEF Answered, EventInv
<1>5. alive' => raised' = popped' + Len(queue') + dropped' + Cardinality(Answered)'
  <2>1. alive => raised = popped + Len(queue) + dropped + Cardinality(Answered)
    BY DEF EventInv, EventsAccountedFor, Answered
  <2> QED BY <1>1, <1>2, <1>3, <1>4, <2>1
<1>6. ASSUME NEW i \in 1 .. Len(queue')
      PROVE  queue'[i] > (IF i = 1 THEN lastPopped' ELSE queue'[i - 1])
  <2>1. i \in 1 .. Len(queue) - 1 /\ i + 1 \in 1 .. Len(queue) /\ i + 1 # 1 /\ (i + 1) - 1 = i
    BY <1>2
  <2>2. queue[i + 1] > queue[i]
    BY <2>1 DEF EventInv, EventsAccountedFor
  <2>3. i # 1 => i - 1 \in 1 .. Len(queue) - 1 /\ (i - 1) + 1 = i
    BY <2>1
  <2> QED BY <1>1, <1>2, <2>1, <2>2, <2>3
<1>7. lastPopped' <= raised' /\ \A i \in 1 .. Len(queue') : queue'[i] <= raised'
  <2>1. 1 \in 1 .. Len(queue) /\ \A i \in 1 .. Len(queue) - 1 : i + 1 \in 1 .. Len(queue)
    BY <1>2
  <2> QED BY <1>1, <1>2, <2>1 DEF EventInv
<1>8. EventsAccountedFor'
  BY <1>5, <1>6 DEF EventsAccountedFor, Answered
<1> QED BY <1>1, <1>4, <1>7, <1>8 DEF EventInv

LEMMA EventsInductive ==
  ASSUME TypeOK, BoxInv, ReplyInv, EventInv, [Next]_vars
  PROVE  EventInv'
<1>0. Answered \subseteq replied
  BY DEF EventInv
<1>1. ASSUME C_Event PROVE EventInv'
  BY <1>0, <1>1, EventPushed DEF C_Event
<1>2. ASSUME NEW s \in Subs, C_Reply(s) PROVE EventInv'
  BY <1>2, EventReply
<1>3. ASSUME NEW s \in Subs, C_Send(s) \/ C_BioMultipart(s) \/ C_MalformedReply(s)
      PROVE  EventInv'
  <2>1. Answered \subseteq replied'
    BY <1>0, <1>3 DEF C_Send, C_BioMultipart, C_MalformedReply
  <2> QED BY <1>3, <2>1, EventsSame DEF C_Send, C_BioMultipart, C_MalformedReply
<1>4. ASSUME NEW s \in Subs, NEW outcome \in {"ok", "failed"}, C_Complete(s, outcome)
      PROVE  EventInv'
  BY <1>0, <1>4, EventsSame DEF C_Complete
<1>5. ASSUME Unwind PROVE EventInv'
  BY <1>0, <1>5, EventsSame DEF Unwind, RefreshReturns, SubmitReturns, WakeNext, WakeStream,
     CallReturns, SubmitRefused, SubmitAccepted
<1>6. ASSUME NextEvent PROVE EventInv'
  BY <1>6, EventTaken
<1>7. ASSUME DropContext PROVE EventInv'
  <2>1. alive' = FALSE /\ queue' = <<>> /\ UNCHANGED <<reply, replied, raised, lastPopped>>
    BY <1>7 DEF DropContext
  <2>2. Answered' = Answered
    BY <2>1 DEF Answered
  <2>3. 1 .. Len(queue') = {}
    BY <2>1
  <2> QED BY <2>1, <2>2, <2>3 DEF EventInv, EventsAccountedFor
<1>8. ASSUME NEW s \in Subs, Cancel(s) \/ Poll(s) \/ DropHandle(s) PROVE EventInv'
  BY <1>0, <1>8, EventsSame DEF Cancel, Poll, DropHandle
<1>9. ASSUME NEW pd \in PDs, FlushInCallback(pd) \/ Flush(pd) PROVE EventInv'
  BY <1>0, <1>9, EventsSame DEF FlushInCallback, Flush
<1>10. ASSUME RefreshBegin \/ ParkStream PROVE EventInv'
  BY <1>0, <1>10, EventsSame DEF RefreshBegin, ParkStream
<1>11. ASSUME NEW s \in Subs, NEW pd \in PDs, NEW kind \in Kinds, NEW wants \in BOOLEAN,
              SubmitBegin(s, pd, kind, wants)
       PROVE  EventInv'
  BY <1>0, <1>11, EventsSame DEF SubmitBegin
<1>12. CASE UNCHANGED vars
  BY <1>0, <1>12, EventsSame
<1> QED
  BY <1>1, <1>2, <1>3, <1>4, <1>5, <1>6, <1>7, <1>8, <1>9, <1>10, <1>11, <1>12
  DEF Next, LibNext, AppNext

LEMMA EventsFollowed == Spec => []EventInv
<1>1. Init => EventInv
  <2> SUFFICES ASSUME Init PROVE EventInv
    OBVIOUS
  <2>1. Answered = {}
    BY DEF Init, Answered
  <2>2. IsFiniteSet(Answered) /\ Cardinality(Answered) = 0 /\ Len(queue) = 0
    BY <2>1, FS_EmptySet, EmptySeq DEF Init
  <2> QED BY <2>1, <2>2 DEF Init, EventInv, EventsAccountedFor, Answered
<1> QED BY <1>1, EventsInductive, TypeCorrect, BoxesOwned, RepliesFollowed, PTL DEF Spec

(* No event is lost without being counted, none is delivered twice, and     *)
(* those the application takes come in the order they were raised           *)
(* (DrainQueue, CpEvents::deliver_reply).                                   *)
THEOREM EventsKept == Spec => []EventsAccountedFor
<1>1. EventInv => EventsAccountedFor
  BY DEF EventInv
<1> QED BY <1>1, EventsFollowed, PTL

-----------------------------------------------------------------------------
(* What a cancel stops.                                                     *)

(* A PD runs one file transfer at a time, from when it is taken; and only   *)
(* the kinds of command in use are submitted.                               *)
File(s) == request[s] # None /\ request[s].kind = "file"

FileIsRunning == \A s \in Subs : File(s) /\ held[s] # "out" => held[s] = "running"

OneFilePerPD ==
  \A s, t \in Subs :
    File(s) /\ File(t) /\ held[s] = "running" /\ held[t] = "running"
      /\ request[s].pd = request[t].pd => s = t

KindsInUse == \A s \in Subs : request[s] # None => request[s].kind \in Kinds

(* What LibOSDP was told to stop has the PD and the kind of a handle that   *)
(* was asked, and is that handle's own but for biometric reads.             *)
StoppedAsNamed ==
  /\ \A t \in asked : request[t] # None
  /\ \A s \in stopping :
       /\ request[s] # None
       /\ request[s].kind # "bio" => s \in asked
       /\ \E t \in asked : request[t].pd = request[s].pd /\ request[t].kind = request[s].kind

CancelInv == FileIsRunning /\ OneFilePerPD /\ KindsInUse /\ StoppedAsNamed

(* Commands may leave LibOSDP, or wait in another of its queues unless they *)
(* are file transfers.                                                      *)
LEMMA CancelSame ==
  ASSUME CancelInv, UNCHANGED <<request, stopping, asked>>,
         \A s \in Subs : held'[s] = held[s] \/ held'[s] = "out" \/ ~File(s)
  PROVE  CancelInv'
<1>1. FileIsRunning' /\ OneFilePerPD'
  BY DEF CancelInv, FileIsRunning, OneFilePerPD, File
<1> QED BY <1>1 DEF CancelInv, KindsInUse, StoppedAsNamed

LEMMA CancelVerdict ==
  ASSUME TypeOK, BoxInv, CancelInv, NEW accepted \in BOOLEAN, SubmitReturns(accepted)
  PROVE  CancelInv'
<1>1. /\ stack # <<>> /\ UNCHANGED <<request, stopping, asked>>
      /\ accepted => C_Accepts(Top.sub) /\ C_Takes(Top.sub)
      /\ ~accepted => held' = held
  BY DEF SubmitReturns, InPhase
<1>2. Top.sub \in Subs /\ request[Top.sub] # None
  BY <1>1, TopSubmits DEF SubmitReturns, BoxInv
<1>3. CASE ~accepted
  BY <1>1, <1>3, CancelSame
<1>4. CASE accepted
  <2>1. /\ \A s \in Subs : s # Top.sub => held'[s] = held[s]
        /\ File(Top.sub) => held'[Top.sub] = "running"
    BY <1>1, <1>2, <1>4 DEF C_Takes, File, TypeOK
  <2>2. ASSUME NEW t \in Subs, t # Top.sub, File(t), File(Top.sub),
               request[t].pd = request[Top.sub].pd
        PROVE  held[t] # "running"
    BY <1>1, <1>4, <2>2 DEF C_Accepts, Of, File
  <2>3. FileIsRunning'
    BY <1>1, <2>1 DEF CancelInv, FileIsRunning, File
  <2>4. OneFilePerPD'
    <3> SUFFICES ASSUME NEW s \in Subs, NEW t \in Subs, File(s), File(t),
                        held'[s] = "running", held'[t] = "running",
                        request[s].pd = request[t].pd, s # t
                 PROVE  FALSE
      BY <1>1 DEF OneFilePerPD, File
    <3>1. CASE s = Top.sub
      BY <2>1, <2>2, <3>1
    <3>2. CASE t = Top.sub
      BY <2>1, <2>2, <3>2
    <3>3. CASE s # Top.sub /\ t # Top.sub
      BY <2>1, <3>3 DEF CancelInv, OneFilePerPD
    <3> QED BY <3>1, <3>2, <3>3
  <2> QED BY <1>1, <2>3, <2>4 DEF CancelInv, KindsInUse, StoppedAsNamed
<1> QED BY <1>3, <1>4

LEMMA CancelSubmit ==
  ASSUME TypeOK, BoxInv, CancelInv, NEW s \in Subs, NEW pd \in PDs, NEW kind \in Kinds,
         NEW wants \in BOOLEAN, SubmitBegin(s, pd, kind, wants)
  PROVE  CancelInv'
<1>1. /\ request[s] = None /\ UNCHANGED <<held, stopping, asked>>
      /\ request' = [request EXCEPT ![s] = [pd |-> pd, kind |-> kind, wants |-> wants]]
  BY DEF SubmitBegin
<1>2. /\ request'[s].kind = kind
      /\ \A t \in Subs : t # s => request'[t] = request[t]
  BY <1>1 DEF TypeOK
<1>3. held[s] = "out"
  BY <1>1 DEF BoxInv, HeldWasTaken
<1>4. \A t \in Subs : held[t] # "out" => t # s /\ (File(t)' <=> File(t))
  BY <1>2, <1>3 DEF File
<1>5. FileIsRunning'
  BY <1>1, <1>4 DEF CancelInv, FileIsRunning
<1>6. OneFilePerPD'
  <2> SUFFICES ASSUME NEW t \in Subs, NEW u \in Subs, File(t)', File(u)',
                      held[t] = "running", held[u] = "running",
                      request'[t].pd = request'[u].pd
               PROVE  t = u
    BY <1>1 DEF OneFilePerPD
  <2>1. t # s /\ u # s /\ File(t) /\ File(u)
    BY <1>4
  <2> QED BY <1>2, <2>1 DEF CancelInv, OneFilePerPD
<1>7. KindsInUse'
  BY <1>2 DEF CancelInv, KindsInUse
<1>8. StoppedAsNamed'
  <2>1. asked \subseteq Subs /\ stopping \subseteq Subs
    BY DEF TypeOK
  <2>2. \A t \in asked \union stopping : t # s /\ request'[t] = request[t]
    BY <1>1, <1>2, <2>1 DEF CancelInv, StoppedAsNamed
  <2> QED BY <1>1, <2>2 DEF CancelInv, StoppedAsNamed
<1> QED BY <1>5, <1>6, <1>7, <1>8 DEF CancelInv

(* The operation that a cancel names is one of the handle's PD and kind, if *)
(* not a biometric read the handle's own: that is held, hence running, and  *)
(* no other of its kind runs on its PD.                                     *)
LEMMA CancelNames ==
  ASSUME TypeOK, BoxInv, ReplyInv, CancelInv, NEW s \in Subs, Cancel(s)
  PROVE  CancelInv'
<1>1. /\ handle[s] = "live" /\ status[s] = "none" /\ request[s].kind \in MultiKinds
      /\ stopping' = stopping \union C_Running(request[s].pd, request[s].kind)
      /\ asked' = asked \union {s} /\ UNCHANGED <<request, held>>
      /\ C_Running(request[s].pd, request[s].kind) # {}
  BY DEF Cancel, IsPending
<1>2. held[s] # "out" /\ request[s] # None
  BY <1>1 DEF ReplyInv, TakenIsHeld, BoxInv, HeldWasTaken
<1>3. ASSUME NEW t \in C_Running(request[s].pd, request[s].kind)
      PROVE  /\ request[t] # None
             /\ request[t].pd = request[s].pd /\ request[t].kind = request[s].kind
             /\ request[t].kind # "bio" => t = s
  <2>1. /\ t \in Subs /\ request[t] # None /\ request[t].pd = request[s].pd
        /\ request[t].kind = request[s].kind /\ held[t] = "running"
    BY <1>3 DEF C_Running, Of
  <2>2. CASE request[s].kind = "file"
    BY <1>2, <2>1, <2>2 DEF CancelInv, FileIsRunning, OneFilePerPD, File
  <2>3. CASE request[s].kind \in CardKinds
    BY <1>2, <2>1, <2>3 DEF ReplyInv, CardIsRunning, OneCardPerPD, Card
  <2> QED BY <1>1, <2>1, <2>2, <2>3 DEF MultiKinds
<1>4. StoppedAsNamed'
  <2>1. ASSUME NEW t \in stopping'
        PROVE  /\ request[t] # None
               /\ request[t].kind # "bio" => t \in asked'
               /\ \E u \in asked' : request[u].pd = request[t].pd /\ request[u].kind = request[t].kind
    <3>1. CASE t \in stopping
      BY <1>1, <3>1 DEF CancelInv, StoppedAsNamed
    <3>2. CASE t \in C_Running(request[s].pd, request[s].kind)
      BY <1>1, <1>3, <3>2
    <3> QED BY <1>1, <2>1, <3>1, <3>2
  <2> QED BY <1>1, <1>2, <2>1 DEF CancelInv, StoppedAsNamed
<1> QED BY <1>1, <1>4 DEF CancelInv, FileIsRunning, OneFilePerPD, KindsInUse, File

LEMMA CancelInductive ==
  ASSUME TypeOK, BoxInv, ReplyInv, CancelInv, [Next]_vars
  PROVE  CancelInv'
<1>1. ASSUME NEW S \in SUBSET Subs, NEW outcome, Complete(S, outcome),
             UNCHANGED <<request, stopping, asked>>
      PROVE  CancelInv'
  <2>1. \A s \in Subs : held'[s] = held[s] \/ held'[s] = "out"
    BY <1>1 DEF Complete
  <2> QED BY <1>1, <2>1, CancelSame
<1>2. ASSUME C_Event PROVE CancelInv'
  BY <1>2, CancelSame DEF C_Event
<1>3. ASSUME NEW s \in Subs, C_Send(s) \/ C_BioMultipart(s) PROVE CancelInv'
  <2>1. ~File(s)
    BY <1>3 DEF C_Send, C_BioMultipart, CancelInv, FileIsRunning, File
  <2>2. \A t \in Subs : held'[t] = held[t] \/ ~File(t)
    BY <1>3, <2>1 DEF C_Send, C_BioMultipart, TypeOK
  <2> QED BY <1>3, <2>2, CancelSame DEF C_Send, C_BioMultipart
<1>4. ASSUME NEW s \in Subs, C_Reply(s) \/ C_MalformedReply(s) PROVE CancelInv'
  BY <1>4, CancelSame DEF C_Reply, C_MalformedReply
<1>5. ASSUME NEW s \in Subs, NEW outcome \in {"ok", "failed"}, C_Complete(s, outcome)
      PROVE  CancelInv'
  BY <1>1, <1>5 DEF C_Complete, CompleteDeferring
<1>6. ASSUME Unwind PROVE CancelInv'
  <2>1. ASSUME UNCHANGED <<request, held, stopping, asked>> PROVE CancelInv'
    BY <2>1, CancelSame
  <2>2. ASSUME RefreshReturns \/ WakeStream \/ CallReturns \/ SubmitRefused \/ SubmitAccepted
        PROVE  CancelInv'
    BY <2>1, <2>2 DEF RefreshReturns, WakeStream, CallReturns, SubmitRefused, SubmitAccepted
  <2>3. ASSUME NEW s \in Subs, WakeNext(s) PROVE CancelInv'
    BY <2>1, <2>3 DEF WakeNext
  <2> QED BY <1>6, <2>2, <2>3, CancelVerdict DEF Unwind
<1>7. ASSUME RefreshBegin \/ NextEvent \/ ParkStream PROVE CancelInv'
  BY <1>7, CancelSame DEF RefreshBegin, NextEvent, ParkStream
<1>8. ASSUME NEW pd \in PDs, FlushInCallback(pd) \/ Flush(pd) PROVE CancelInv'
  <2>1. Queued(pd) \in SUBSET Subs
    BY DEF Queued, Of
  <2> QED BY <1>1, <1>8, <2>1 DEF FlushInCallback, Flush, CompleteDeferring
<1>9. ASSUME NEW s \in Subs, Poll(s) \/ DropHandle(s) PROVE CancelInv'
  BY <1>9, CancelSame DEF Poll, DropHandle
<1>10. ASSUME DropContext PROVE CancelInv'
  BY <1>1, <1>10 DEF DropContext
<1>11. CASE UNCHANGED vars
  BY <1>11, CancelSame
<1> QED
  BY <1>2, <1>3, <1>4, <1>5, <1>6, <1>7, <1>8, <1>9, <1>10, <1>11, CancelSubmit, CancelNames
  DEF Next, LibNext, AppNext

LEMMA CancelsFollowed == Spec => []CancelInv
<1>1. Init => CancelInv
  BY DEF Init, CancelInv, FileIsRunning, OneFilePerPD, KindsInUse, StoppedAsNamed
<1>2. TypeOK /\ BoxInv /\ ReplyInv /\ CancelInv /\ [Next]_vars => CancelInv'
  BY CancelInductive
<1> QED BY <1>1, <1>2, TypeCorrect, BoxesOwned, RepliesFollowed, PTL DEF Spec

(* Whatever is submitted, LibOSDP stops only operations of the PD and kind  *)
(* of a handle that was asked, and no file transfer or card command but     *)
(* that handle's own, although Submission::cancel tells it a PD and a kind  *)
(* only.                                                                    *)
THEOREM CancelsAsNamed == Spec => []StoppedAsNamed
<1>1. CancelInv => StoppedAsNamed
  BY DEF CancelInv
<1> QED BY <1>1, CancelsFollowed, PTL

(* Hence, where no biometric read is submitted, LibOSDP stops no operation  *)
(* but one whose own handle was asked; where some are, it is not so.        *)
THEOREM CancelsOwn ==
  ASSUME "bio" \notin Kinds
  PROVE  Spec => []CancelStopsOwnOperation
<1>1. TypeOK /\ CancelInv => CancelStopsOwnOperation
  <2>1. TypeOK => stopping \subseteq Subs
    BY DEF TypeOK
  <2> QED BY <2>1 DEF CancelInv, StoppedAsNamed, KindsInUse, CancelStopsOwnOperation
<1> QED BY <1>1, TypeCorrect, CancelsFollowed, PTL

-----------------------------------------------------------------------------
(* ControlPanel implements Submissions.                                     *)

(* A command that has ended is freed: it is nobody's, and never refused.    *)
(* Replies are reported for card commands, and a route leads to one that    *)
(* wants its reply.                                                         *)
EndedIsFreed  == \A s \in Subs : status[s] # "none" => frees[s] > 0
CardsAnswer   == \A s \in replied : Card(s)
RoutesWant    == \A pd \in PDs : routes[pd] # None => request[routes[pd]].wants

LifeInv == EndedIsFreed /\ CardsAnswer /\ RoutesWant

(* Where each submission is in its life.                                    *)
LEMMA OutcomeOf ==
  ASSUME TypeOK, BoxInv, LifeInv, NEW s \in Subs
  PROVE  /\ held[s] # "out" => outcomeOf[s] = "pending"
         /\ request[s] = None \/ Submitting(s) => outcomeOf[s] = "idle"
         /\ request[s] = None \/ Submitting(s)
              => status[s] = "none" /\ frees[s] = 0 /\ held[s] = "out"
<1>1. frees[s] = IF request[s] # None /\ held[s] = "out" /\ ~Submitting(s) THEN 1 ELSE 0
  BY DEF BoxInv, BoxHasOneOwner
<1>2. held[s] # "out" => request[s] # None /\ ~Submitting(s)
  BY DEF BoxInv, HeldWasTaken
<1>3. held[s] # "out" \/ request[s] = None \/ Submitting(s)
        => frees[s] = 0 /\ status[s] = "none"
  BY <1>1 DEF LifeInv, EndedIsFreed
<1> QED BY <1>2, <1>3 DEF outcomeOf

LEMMA PromiseSame ==
  ASSUME UNCHANGED <<request, status, held, frees, reply, replied, malformed>>
  PROVE  UNCHANGED Promise!vars
<1>1. outcomeOf' = outcomeOf
  BY DEF outcomeOf
<1>2. asksOf' = asksOf /\ answerOf' = answerOf
  BY <1>1 DEF asksOf, answerOf
<1> QED BY <1>1, <1>2 DEF Promise!vars

LEMMA PromiseEnds ==
  ASSUME TypeOK, BoxInv, LifeInv, NEW S \in SUBSET Subs, NEW how \in Outcomes,
         \A s \in S : held[s] # "out", Complete(S, how),
         how = "ok" => \A s \in S : Card(s) => s \in replied,
         UNCHANGED <<request, reply, replied, malformed>>
  PROVE  [Promise!Next]_Promise!vars
<1>1. /\ status' = [s \in Subs |-> IF s \in S THEN how ELSE status[s]]
      /\ held' = [s \in Subs |-> IF s \in S THEN "out" ELSE held[s]]
      /\ frees' = [s \in Subs |-> IF s \in S THEN frees[s] + 1 ELSE frees[s]]
      /\ how \notin {"none", "idle", "refused", "pending"}
  BY DEF Complete, Outcomes
<1>2. answerOf' = answerOf
  BY DEF answerOf
<1>3. outcomeOf' = [s \in Subs |-> IF s \in S THEN how ELSE outcomeOf[s]]
  BY <1>1 DEF outcomeOf
<1>4. \A s \in S : outcomeOf[s] = "pending"
  BY OutcomeOf
<1>5. \A s \in Subs : outcomeOf'[s] \in {"idle", "refused"} <=> outcomeOf[s] \in {"idle", "refused"}
  BY <1>1, <1>3, <1>4
<1>6. asksOf' = asksOf
  BY <1>5 DEF asksOf
<1>7. CASE S = {}
  <2>1. outcomeOf' = outcomeOf
    BY <1>3, <1>7 DEF outcomeOf
  <2> QED BY <1>2, <1>6, <2>1 DEF Promise!vars
<1>8. CASE S # {}
  <2>1. S \subseteq Promise!Pending
    BY <1>4 DEF Promise!Pending
  <2>2. ASSUME how = "ok", NEW s \in S, asksOf[s] # "none" PROVE answerOf[s] # "none"
    <3>1. request[s].kind \in CardKinds /\ request[s] # None
      BY <2>2 DEF asksOf, BoxInv, HeldWasTaken
    <3>2. s \in replied
      BY <2>2, <3>1 DEF Card
    <3> QED BY <3>2 DEF answerOf
  <2>3. Promise!End(S, how)
    BY <1>2, <1>3, <1>6, <1>8, <2>1, <2>2 DEF Promise!End
  <2>4. how \in Promise!Ends
    BY DEF Promise!Ends, Outcomes
  <2> QED BY <2>3, <2>4 DEF Promise!Next
<1> QED BY <1>7, <1>8

(* LibOSDP takes a command: from now on it is pending, and its reply may    *)
(* be asked for.                                                            *)
LEMMA PromiseAccepted ==
  ASSUME TypeOK, BoxInv, LifeInv, NEW s \in Subs, Submitting(s),
         held'[s] # "out", \A t \in Subs : t # s => held'[t] = held[t],
         UNCHANGED <<request, status, frees, reply, replied, malformed>>
  PROVE  [Promise!Next]_Promise!vars
<1>1. outcomeOf[s] = "idle" /\ status[s] = "none"
  BY OutcomeOf
<1>2. outcomeOf' = [outcomeOf EXCEPT ![s] = "pending"]
  <2>1. outcomeOf' = [t \in Subs |-> IF t = s THEN "pending" ELSE outcomeOf[t]]
    BY <1>1 DEF outcomeOf
  <2> QED BY <2>1 DEF outcomeOf
<1>3. PICK place \in Promise!Asked : asksOf'[s] = place
  BY DEF asksOf, Promise!Asked
<1>4. asksOf' = [asksOf EXCEPT ![s] = place]
  <2>1. \A t \in Subs : t # s => outcomeOf'[t] = outcomeOf[t]
    BY <1>2 DEF outcomeOf
  <2>2. \A t \in Subs : t # s => asksOf'[t] = asksOf[t]
    BY <2>1 DEF asksOf
  <2>3. asksOf' = [t \in Subs |-> asksOf'[t]] /\ asksOf = [t \in Subs |-> asksOf[t]]
    BY DEF asksOf
  <2> QED BY <1>3, <2>2, <2>3
<1>5. answerOf' = answerOf
  BY DEF answerOf
<1>6. Promise!Accept(s)
  BY <1>1, <1>2, <1>4, <1>5 DEF Promise!Accept
<1> QED BY <1>6 DEF Promise!Next

LEMMA PromiseRefused ==
  ASSUME TypeOK, BoxInv, LifeInv, NEW s \in Subs, Submitting(s),
         Reclaim(s), UNCHANGED <<request, status, held, reply, replied, malformed>>
  PROVE  [Promise!Next]_Promise!vars
<1>1. outcomeOf[s] = "idle" /\ status[s] = "none" /\ held[s] = "out" /\ frees[s] = 0
  BY OutcomeOf
<1>2. frees'[s] = 1 /\ \A t \in Subs : t # s => frees'[t] = frees[t]
  BY <1>1 DEF Reclaim, TypeOK
<1>3. outcomeOf' = [outcomeOf EXCEPT ![s] = "refused"]
  <2>1. outcomeOf' = [t \in Subs |-> IF t = s THEN "refused" ELSE outcomeOf[t]]
    BY <1>1, <1>2 DEF outcomeOf
  <2> QED BY <2>1 DEF outcomeOf
<1>4. \A t \in Subs : outcomeOf'[t] \in {"idle", "refused"} <=> outcomeOf[t] \in {"idle", "refused"}
  BY <1>1, <1>3 DEF outcomeOf
<1>5. asksOf' = asksOf /\ answerOf' = answerOf
  BY <1>4 DEF asksOf, answerOf
<1>6. Promise!Refuse(s)
  BY <1>1, <1>3, <1>5 DEF Promise!Refuse
<1> QED BY <1>6 DEF Promise!Next

(* A command begins to be submitted: nothing is promised yet.               *)
LEMMA PromiseBegins ==
  ASSUME TypeOK, BoxInv, LifeInv, NEW s \in Subs, request[s] = None,
         \A t \in Subs : t # s => request'[t] = request[t],
         UNCHANGED <<status, held, frees, reply, replied, malformed>>
  PROVE  UNCHANGED Promise!vars
<1>1. outcomeOf[s] = "idle" /\ outcomeOf' = outcomeOf
  BY OutcomeOf DEF outcomeOf
<1>2. asksOf' = asksOf /\ answerOf' = answerOf
  BY <1>1 DEF asksOf, answerOf
<1> QED BY <1>1, <1>2 DEF Promise!vars

(* A reply is handed over: to the handle of its own command, if that asked  *)
(* for it, or to the events.                                                *)
LEMMA PromiseAnswered ==
  ASSUME TypeOK, BoxInv, ReplyInv, EventInv, LifeInv, NEW s \in Subs, C_Reply(s)
  PROVE  [Promise!Next]_Promise!vars
<1>1. /\ held[s] = "running" /\ request[s].kind \in CardKinds /\ s \notin replied
      /\ replied' = replied \union {s}
      /\ UNCHANGED <<request, status, frees, held, malformed>>
      /\ s \notin malformed
  BY DEF C_Reply, TypeOK
<1>2. request[s] # None /\ request[s].pd \in PDs /\ s # None
  <2>1. request[s] # None
    BY <1>1 DEF BoxInv, HeldWasTaken
  <2> QED BY <2>1, ConstantsAssumption DEF TypeOK, Request
<1>3. outcomeOf[s] = "pending" /\ outcomeOf' = outcomeOf
  BY <1>1, OutcomeOf DEF outcomeOf
<1>4. asksOf' = asksOf /\ asksOf[s] = IF request[s].wants THEN "handle" ELSE "events"
  BY <1>1, <1>3 DEF asksOf
<1>5. reply[s] = None /\ answerOf[s] = "none"
  BY <1>1, <1>2 DEF EventInv, Answered, answerOf
<1>6. /\ s \in Promise!Pending /\ asksOf[s] # "none" /\ answerOf[s] = "none"
  BY <1>3, <1>4, <1>5 DEF Promise!Pending
<1> DEFINE r == routes[request[s].pd]
<1>7. CASE Waiting(r)
  <2>1. r = s
    BY <1>7, ReplyFindsItsOwn
  <2>2. request[s].wants
    BY <1>2, <2>1 DEF LifeInv, RoutesWant
  <2>3. reply' = [reply EXCEPT ![s] = s]
    BY <1>7, <2>1 DEF C_Reply
  <2>4. reply'[s] = s /\ \A t \in Subs : t # s => reply'[t] = reply[t]
    BY <2>3 DEF TypeOK
  <2>5. answerOf' = [answerOf EXCEPT ![s] = "handle"]
    <3>1. answerOf' = [t \in Subs |-> IF t = s THEN "handle" ELSE answerOf[t]]
      BY <1>1, <2>4 DEF answerOf
    <3> QED BY <3>1 DEF answerOf
  <2>6. Promise!Answer(s, "handle")
    BY <1>3, <1>4, <1>6, <2>2, <2>5 DEF Promise!Answer
  <2> QED BY <2>6 DEF Promise!Next, Promise!Places
<1>8. CASE ~Waiting(r)
  <2>1. reply' = reply
    BY <1>8 DEF C_Reply
  <2>2. answerOf' = [answerOf EXCEPT ![s] = "events"]
    <3>1. answerOf' = [t \in Subs |-> IF t = s THEN "events" ELSE answerOf[t]]
      BY <1>1, <1>2, <1>5, <2>1 DEF answerOf
    <3> QED BY <3>1 DEF answerOf
  <2>3. Promise!Answer(s, "events")
    BY <1>3, <1>4, <1>6, <2>2 DEF Promise!Answer
  <2> QED BY <2>3 DEF Promise!Next, Promise!Places
<1> QED BY <1>7, <1>8

(* A reply does not convert: nobody gets it.                                *)
LEMMA PromiseUnread ==
  ASSUME TypeOK, BoxInv, EventInv, LifeInv, NEW s \in Subs, C_MalformedReply(s)
  PROVE  [Promise!Next]_Promise!vars
<1>1. /\ held[s] = "running" /\ request[s].kind \in CardKinds /\ s \notin replied
      /\ replied' = replied \union {s} /\ malformed' = malformed \union {s}
      /\ UNCHANGED <<request, status, frees, held, reply>>
      /\ s \notin malformed /\ s # None
  BY ConstantsAssumption DEF C_MalformedReply, TypeOK
<1>2. outcomeOf[s] = "pending" /\ outcomeOf' = outcomeOf
  BY <1>1, OutcomeOf DEF outcomeOf
<1>3. asksOf' = asksOf /\ asksOf[s] # "none"
  BY <1>1, <1>2 DEF asksOf
<1>4. reply[s] = None /\ answerOf[s] = "none"
  BY <1>1 DEF EventInv, Answered, answerOf
<1>5. answerOf' = [answerOf EXCEPT ![s] = "nowhere"]
  <2>1. answerOf' = [t \in Subs |-> IF t = s THEN "nowhere" ELSE answerOf[t]]
    BY <1>1, <1>4 DEF answerOf
  <2> QED BY <2>1 DEF answerOf
<1>6. Promise!Answer(s, "nowhere")
  BY <1>2, <1>3, <1>4, <1>5 DEF Promise!Answer, Promise!Pending
<1> QED BY <1>6 DEF Promise!Next, Promise!Places

(* Every step preserves LifeInv.                                            *)
LEMMA LifeSame ==
  ASSUME LifeInv, UNCHANGED <<request, status, frees, routes, replied, malformed>>
  PROVE  LifeInv'
BY DEF LifeInv, EndedIsFreed, CardsAnswer, RoutesWant, Card

LEMMA LifeEnds ==
  ASSUME TypeOK, LifeInv, NEW S \in SUBSET Subs, NEW how, Complete(S, how),
         UNCHANGED <<request, replied, malformed>>,
         routes' = routes \/ routes' = [pd \in PDs |-> None]
  PROVE  LifeInv'
<1>1. EndedIsFreed'
  BY DEF Complete, LifeInv, EndedIsFreed, TypeOK
<1>2. CardsAnswer' /\ RoutesWant'
  BY DEF LifeInv, CardsAnswer, RoutesWant, Card
<1> QED BY <1>1, <1>2 DEF LifeInv

LEMMA LifeReply ==
  ASSUME TypeOK, BoxInv, LifeInv, NEW s \in Subs, C_Reply(s) \/ C_MalformedReply(s)
  PROVE  LifeInv'
<1>1. /\ held[s] = "running" /\ request[s].kind \in CardKinds
      /\ replied' = replied \union {s} /\ UNCHANGED <<request, status, frees>>
      /\ routes' = routes \/ routes' = [routes EXCEPT ![request[s].pd] = None]
  BY DEF C_Reply, C_MalformedReply
<1>2. Card(s)
  BY <1>1 DEF BoxInv, HeldWasTaken, Card
<1>3. EndedIsFreed' /\ CardsAnswer'
  BY <1>1, <1>2 DEF LifeInv, EndedIsFreed, CardsAnswer, Card
<1>4. RoutesWant'
  BY <1>1 DEF LifeInv, RoutesWant, TypeOK
<1> QED BY <1>3, <1>4 DEF LifeInv

LEMMA LifeAccepted == ASSUME TypeOK, BoxInv, LifeInv, SubmitAccepted PROVE LifeInv'
<1>1. /\ stack # <<>> /\ Top.op = "submit" /\ RouteReply(Top.sub)
      /\ UNCHANGED <<request, status, frees, replied, malformed>>
  BY DEF SubmitAccepted, Woken, WokeAll, InPhase
<1>2. PICK s \in Subs : s = Top.sub
  BY <1>1, TopSubmits DEF BoxInv
<1>3. RoutesWant'
  <2> SUFFICES ASSUME NEW pd \in PDs, routes'[pd] # None PROVE request[routes'[pd]].wants
    BY <1>1 DEF RoutesWant
  <2>1. CASE routes'[pd] = routes[pd]
    BY <2>1 DEF LifeInv, RoutesWant
  <2>2. CASE routes'[pd] # routes[pd]
    BY <1>1, <1>2, <2>2 DEF RouteReply, TypeOK
  <2> QED BY <2>1, <2>2
<1>4. EndedIsFreed' /\ CardsAnswer'
  BY <1>1 DEF LifeInv, EndedIsFreed, CardsAnswer, Card
<1> QED BY <1>3, <1>4 DEF LifeInv

(* A submission that is used for the first time has no past.                *)
LEMMA FirstUse ==
  ASSUME TypeOK, NEW s \in Subs, NEW pd \in PDs, NEW kind \in Kinds, NEW wants \in BOOLEAN,
         SubmitBegin(s, pd, kind, wants)
  PROVE  /\ request[s] = None /\ request'[s] \in Request
         /\ request'[s].pd = pd /\ request'[s].kind = kind /\ request'[s].wants = wants
         /\ \A t \in Subs : t # s => request'[t] = request[t]
<1> DEFINE r == [pd |-> pd, kind |-> kind, wants |-> wants]
<1>1. r \in Request /\ r.pd = pd /\ r.kind = kind /\ r.wants = wants
  BY ConstantsAssumption DEF Request
<1>2. request[s] = None /\ request' = [request EXCEPT ![s] = r]
  BY DEF SubmitBegin
<1> HIDE DEF r
<1> QED BY <1>1, <1>2 DEF TypeOK

LEMMA LifeBegins ==
  ASSUME TypeOK, ReplyInv, LifeInv,
         NEW s \in Subs, NEW pd \in PDs, NEW kind \in Kinds, NEW wants \in BOOLEAN,
         SubmitBegin(s, pd, kind, wants)
  PROVE  LifeInv'
<1>1. request[s] = None /\ \A t \in Subs : t # s => request'[t] = request[t]
  BY FirstUse
<1>2. UNCHANGED <<status, frees, routes, replied, malformed>>
  BY DEF SubmitBegin
<1>3. \A t \in Subs : Card(t) => Card(t)' /\ t # s
  BY <1>1 DEF Card
<1>4. CardsAnswer'
  BY <1>2, <1>3 DEF LifeInv, CardsAnswer, TypeOK
<1>5. RoutesWant'
  <2> SUFFICES ASSUME NEW p \in PDs, routes[p] # None PROVE request'[routes[p]].wants
    BY <1>2 DEF RoutesWant
  <2>1. routes[p] \in Subs /\ Card(routes[p])
    BY DEF ReplyInv, RoutesLead, TypeOK
  <2> QED BY <1>1, <1>3, <2>1 DEF LifeInv, RoutesWant
<1>6. EndedIsFreed'
  BY <1>2 DEF LifeInv, EndedIsFreed
<1> QED BY <1>4, <1>5, <1>6 DEF LifeInv

LEMMA LifeInductive ==
  ASSUME TypeOK, BoxInv, ReplyInv, LifeInv, [Next]_vars
  PROVE  LifeInv'
<1>1. ASSUME C_Event PROVE LifeInv'
  BY <1>1, LifeSame DEF C_Event
<1>2. ASSUME NEW s \in Subs, C_Send(s) \/ C_BioMultipart(s) PROVE LifeInv'
  BY <1>2, LifeSame DEF C_Send, C_BioMultipart
<1>3. ASSUME NEW s \in Subs, NEW outcome \in {"ok", "failed"}, C_Complete(s, outcome)
      PROVE  LifeInv'
  <2>1. Complete({s}, outcome) /\ UNCHANGED <<request, replied, malformed, routes>>
    BY <1>3 DEF C_Complete, CompleteDeferring
  <2> QED BY <2>1, LifeEnds
<1>4. ASSUME SubmitRefused PROVE LifeInv'
  <2>1. frees' = [frees EXCEPT ![Top.sub] = @ + 1]
        /\ UNCHANGED <<request, status, routes, replied, malformed>>
    BY <1>4 DEF SubmitRefused, Reclaim
  <2>2. frees \in [Subs -> Nat]
    BY DEF TypeOK
  <2>3. \A s \in Subs : frees[s] > 0 => frees'[s] > 0
    BY <2>1, <2>2
  <2>4. EndedIsFreed'
    BY <2>1, <2>3 DEF LifeInv, EndedIsFreed
  <2>5. CardsAnswer' /\ RoutesWant'
    BY <2>1 DEF LifeInv, CardsAnswer, RoutesWant, Card
  <2> QED BY <2>4, <2>5 DEF LifeInv
<1>5. ASSUME Unwind PROVE LifeInv'
  BY <1>4, <1>5, LifeSame, LifeAccepted DEF Unwind, RefreshReturns, SubmitReturns, WakeNext,
     WakeStream, CallReturns
<1>6. ASSUME NEW pd \in PDs, FlushInCallback(pd) \/ Flush(pd) PROVE LifeInv'
  <2>1. /\ Complete(Queued(pd), "flushed") /\ UNCHANGED <<request, replied, malformed, routes>>
        /\ Queued(pd) \in SUBSET Subs
    BY <1>6 DEF FlushInCallback, Flush, CompleteDeferring, Queued, Of
  <2> QED BY <2>1, LifeEnds
<1>7. ASSUME NEW s \in Subs, Cancel(s) \/ Poll(s) \/ DropHandle(s) PROVE LifeInv'
  BY <1>7, LifeSame DEF Cancel, Poll, DropHandle
<1>8. ASSUME RefreshBegin \/ NextEvent \/ ParkStream PROVE LifeInv'
  BY <1>8, LifeSame DEF RefreshBegin, NextEvent, ParkStream
<1>9. ASSUME DropContext PROVE LifeInv'
  <2>1. /\ Complete({s \in Subs : held[s] # "out"}, "aborted")
        /\ UNCHANGED <<request, replied, malformed>> /\ routes' = [pd \in PDs |-> None]
    BY <1>9 DEF DropContext
  <2> QED BY <2>1, LifeEnds
<1>10. CASE UNCHANGED vars
  BY <1>10, LifeSame
<1> QED
  BY <1>1, <1>2, <1>3, <1>5, <1>6, <1>7, <1>8, <1>9, <1>10, LifeReply, LifeBegins
  DEF Next, LibNext, AppNext

LEMMA LivesFollowed == Spec => []LifeInv
<1>1. Init => LifeInv
  BY DEF Init, LifeInv, EndedIsFreed, CardsAnswer, RoutesWant
<1> QED BY <1>1, LifeInductive, TypeCorrect, BoxesOwned, RepliesFollowed, PTL DEF Spec

(* Every step is a step of Submissions, or none of its business.            *)
LEMMA PromiseStep ==
  ASSUME TypeOK, BoxInv, ReplyInv, EventInv, LifeInv, [Next]_vars
  PROVE  [Promise!Next]_Promise!vars
<1>1. ASSUME NEW s \in Subs, C_Send(s) \/ C_BioMultipart(s)
      PROVE  [Promise!Next]_Promise!vars
  <2>1. /\ held[s] # "out" /\ UNCHANGED <<request, status, frees, reply, replied, malformed>>
        /\ \A t \in Subs : held'[t] = "out" <=> held[t] = "out"
    BY <1>1 DEF C_Send, C_BioMultipart, TypeOK
  <2>2. outcomeOf' = outcomeOf
    BY <2>1 DEF outcomeOf
  <2>3. asksOf' = asksOf /\ answerOf' = answerOf
    BY <2>1, <2>2 DEF asksOf, answerOf
  <2> QED BY <2>2, <2>3 DEF Promise!vars
<1>2. ASSUME NEW s \in Subs, NEW outcome \in {"ok", "failed"}, C_Complete(s, outcome)
      PROVE  [Promise!Next]_Promise!vars
  <2>1. /\ Complete({s}, outcome) /\ held[s] # "out" /\ outcome \in Outcomes
        /\ UNCHANGED <<request, reply, replied, malformed>>
        /\ outcome = "ok" => (Card(s) => s \in replied)
    BY <1>2 DEF C_Complete, CompleteDeferring, Outcomes, Card
  <2> QED BY <2>1, PromiseEnds
<1>3. ASSUME NEW accepted \in BOOLEAN, SubmitReturns(accepted)
      PROVE  [Promise!Next]_Promise!vars
  <2>1. /\ stack # <<>> /\ Top.op = "submit" /\ Top.phase = "c"
        /\ UNCHANGED <<request, status, frees, reply, replied, malformed>>
        /\ IF accepted THEN C_Takes(Top.sub) ELSE UNCHANGED held
    BY <1>3 DEF SubmitReturns, InPhase
  <2>2. PICK s \in Subs : s = Top.sub
    BY <2>1, TopSubmits DEF BoxInv
  <2>3. CASE accepted
    <3>1. Submitting(s)
      BY <2>1, <2>2, TopSubmits, TopDecides DEF BoxInv
    <3>2. held'[s] # "out" /\ \A t \in Subs : t # s => held'[t] = held[t]
      BY <2>1, <2>2, <2>3 DEF C_Takes, TypeOK
    <3> QED BY <2>1, <3>1, <3>2, PromiseAccepted
  <2>4. CASE ~accepted
    BY <2>1, <2>4, PromiseSame
  <2> QED BY <2>3, <2>4
<1>4. ASSUME SubmitRefused PROVE [Promise!Next]_Promise!vars
  <2>1. /\ stack # <<>> /\ Top.op = "submit" /\ ~Top.accepted /\ Reclaim(Top.sub)
        /\ UNCHANGED <<request, status, held, reply, replied, malformed>>
    BY <1>4 DEF SubmitRefused, Woken, WokeAll, InPhase
  <2>2. PICK s \in Subs : s = Top.sub
    BY <2>1, TopSubmits DEF BoxInv
  <2>3. Submitting(s) /\ Reclaim(s)
    BY <2>1, <2>2, TopDecides DEF BoxInv
  <2> QED BY <2>1, <2>3, PromiseRefused
<1>5. ASSUME NEW s \in Subs, WakeNext(s) PROVE [Promise!Next]_Promise!vars
  BY <1>5, PromiseSame DEF WakeNext
<1>6. ASSUME RefreshReturns \/ WakeStream \/ CallReturns \/ SubmitAccepted
      PROVE  [Promise!Next]_Promise!vars
  BY <1>6, PromiseSame DEF RefreshReturns, WakeStream, CallReturns, SubmitAccepted
<1>7. ASSUME NEW s \in Subs, NEW pd \in PDs, NEW kind \in Kinds, NEW wants \in BOOLEAN,
             SubmitBegin(s, pd, kind, wants)
      PROVE  [Promise!Next]_Promise!vars
  <2>1. request[s] = None /\ \A t \in Subs : t # s => request'[t] = request[t]
    BY <1>7, FirstUse
  <2>2. UNCHANGED <<status, held, frees, reply, replied, malformed>>
    BY <1>7 DEF SubmitBegin
  <2> QED BY <2>1, <2>2, PromiseBegins
<1>8. ASSUME NEW pd \in PDs, FlushInCallback(pd) \/ Flush(pd)
      PROVE  [Promise!Next]_Promise!vars
  <2>1. /\ Complete(Queued(pd), "flushed") /\ UNCHANGED <<request, reply, replied, malformed>>
        /\ Queued(pd) \in SUBSET Subs /\ \A s \in Queued(pd) : held[s] # "out"
        /\ "flushed" \in Outcomes
    BY <1>8 DEF FlushInCallback, Flush, CompleteDeferring, Queued, Of, Outcomes
  <2> QED BY <2>1, PromiseEnds
<1>9. ASSUME DropContext PROVE [Promise!Next]_Promise!vars
  <2> DEFINE S == {s \in Subs : held[s] # "out"}
  <2>1. /\ Complete(S, "aborted") /\ UNCHANGED <<request, reply, replied, malformed>>
        /\ S \in SUBSET Subs /\ \A s \in S : held[s] # "out"
        /\ "aborted" \in Outcomes
    BY <1>9 DEF DropContext, Outcomes
  <2> HIDE DEF S
  <2> QED BY <2>1, PromiseEnds
<1>10. ASSUME NEW s \in Subs, Cancel(s) \/ Poll(s) \/ DropHandle(s)
       PROVE  [Promise!Next]_Promise!vars
  BY <1>10, PromiseSame DEF Cancel, Poll, DropHandle
<1>11. ASSUME C_Event \/ RefreshBegin \/ NextEvent \/ ParkStream
       PROVE  [Promise!Next]_Promise!vars
  BY <1>11, PromiseSame DEF C_Event, RefreshBegin, NextEvent, ParkStream
<1>12. CASE UNCHANGED vars
  BY <1>12, PromiseSame
<1> QED
  BY <1>1, <1>2, <1>3, <1>4, <1>5, <1>6, <1>7, <1>8, <1>9, <1>10, <1>11, <1>12,
     PromiseAnswered, PromiseUnread
  DEF Next, LibNext, Unwind, AppNext

LEMMA PromiseSteps == Spec => [][Promise!Next]_Promise!vars
BY PromiseStep, TypeCorrect, BoxesOwned, RepliesFollowed, EventsFollowed, LivesFollowed,
   PTL DEF Spec

(* Whatever calls are nested and whenever wakers run, a command is refused  *)
(* or ends exactly once and keeps that outcome, and its reply is handed     *)
(* over at most once, before it ends: ControlPanel implements Submissions   *)
(* (Submission, cp.rs:264-294).                                             *)
THEOREM PromiseKept == Spec => KeepsPromise
<1>1. Init => Promise!Init
  BY ConstantsAssumption DEF Init, Promise!Init, outcomeOf, asksOf, answerOf
<1> QED BY <1>1, PromiseSteps, PTL DEF Spec, KeepsPromise, Promise!Spec

(* From what is promised of outcomes and answers follows, for each handle:  *)
(* what it resolved into stays.                                             *)
EndIsFinal ==
  \A s \in Subs : status[s] # "none" => status'[s] = status[s] /\ reply'[s] = reply[s]

LEMMA EndIsKept ==
  ASSUME TypeOK, TypeOK', [Promise!Next]_Promise!vars, NEW s \in Subs, status[s] # "none"
  PROVE  /\ status'[s] = status[s]
         /\ answerOf'[s] = answerOf[s]
<1>1. /\ status[s] \in Outcomes /\ status'[s] \in Outcomes \union {"none"}
      /\ outcomeOf[s] = status[s]
  BY DEF TypeOK, outcomeOf
<1>2. outcomeOf[s] \notin {"pending", "idle", "refused"}
  BY <1>1 DEF Outcomes
<1>3. outcomeOf'[s] = outcomeOf[s] /\ answerOf'[s] = answerOf[s]
  <2>1. ASSUME NEW t \in Subs, Promise!Refuse(t) \/ Promise!Accept(t)
        PROVE  outcomeOf'[s] = outcomeOf[s] /\ answerOf'[s] = answerOf[s]
    BY <1>2, <2>1 DEF Promise!Refuse, Promise!Accept, outcomeOf
  <2>2. ASSUME NEW t \in Subs, NEW place \in Promise!Places, Promise!Answer(t, place)
        PROVE  outcomeOf'[s] = outcomeOf[s] /\ answerOf'[s] = answerOf[s]
    BY <1>2, <2>2 DEF Promise!Answer, Promise!Pending, answerOf
  <2>3. ASSUME NEW S \in SUBSET Subs, NEW how \in Promise!Ends, Promise!End(S, how)
        PROVE  outcomeOf'[s] = outcomeOf[s] /\ answerOf'[s] = answerOf[s]
    BY <1>2, <2>3 DEF Promise!End, Promise!Pending
  <2>4. CASE UNCHANGED Promise!vars
    BY <2>4 DEF Promise!vars
  <2> QED BY <2>1, <2>2, <2>3, <2>4 DEF Promise!Next
<1>4. outcomeOf'[s] = IF status'[s] # "none" THEN status'[s]
                      ELSE IF held'[s] # "out" THEN "pending"
                      ELSE IF frees'[s] > 0 THEN "refused" ELSE "idle"
  BY DEF outcomeOf
<1> QED BY <1>1, <1>2, <1>3, <1>4

(* A handle that resolved keeps its outcome and its reply, whatever flush,  *)
(* teardown or late completion follows, and a reply that was not there when *)
(* its command ended never comes (SlotInner::complete,                      *)
(* CpEvents::deliver_reply).                                                *)
THEOREM OutcomeIsFinal == Spec => [][EndIsFinal]_vars
<1>1. ASSUME TypeOK, TypeOK', ReplyIsOwn, ReplyIsOwn', [Promise!Next]_Promise!vars
      PROVE  EndIsFinal
  <2> SUFFICES ASSUME NEW s \in Subs, status[s] # "none"
               PROVE  status'[s] = status[s] /\ reply'[s] = reply[s]
    BY DEF EndIsFinal
  <2>1. status'[s] = status[s] /\ answerOf'[s] = answerOf[s]
    BY <1>1, EndIsKept
  <2>2. /\ s # None
        /\ reply[s] \in {s, None} /\ (answerOf[s] = "handle" <=> reply[s] = s)
        /\ reply'[s] \in {s, None} /\ (answerOf'[s] = "handle" <=> reply'[s] = s)
    BY <1>1, ConstantsAssumption DEF ReplyIsOwn, answerOf
  <2> QED BY <2>1, <2>2
<1> QED BY <1>1, PromiseSteps, TypeCorrect, RepliesAreOwn, PTL

(* A card command ends well only after its reply was reported, and went to  *)
(* its handle, to the events or, when it did not convert, nowhere, whoever  *)
(* LibOSDP's refresh is called by: the reply that cp_route shows passing    *)
(* its handle by is among the events (cp_event_trampoline).                 *)
OkIsReplied ==
  \A s \in Subs : status[s] = "ok" /\ Card(s) => reply[s] = s \/ s \in replied

THEOREM RepliedBeforeTheEnd == Spec => []OkIsReplied
<1> DEFINE Replied(s) == outcomeOf[s] = "ok" /\ asksOf[s] # "none" => answerOf[s] # "none"
           AllReplied == \A s \in Subs : Replied(s)
<1>1. Init => AllReplied
  BY DEF Init, outcomeOf
<1>2. AllReplied /\ [Promise!Next]_Promise!vars => AllReplied'
  <2> SUFFICES ASSUME AllReplied, [Promise!Next]_Promise!vars, NEW s \in Subs
               PROVE  Replied(s)'
    OBVIOUS
  <2>1. ASSUME NEW t \in Subs, Promise!Refuse(t) \/ Promise!Accept(t) PROVE Replied(s)'
    <3>1. answerOf'[s] = answerOf[s] /\ (t = s => outcomeOf'[s] # "ok")
      BY <2>1 DEF Promise!Refuse, Promise!Accept, outcomeOf
    <3>2. t # s => outcomeOf'[s] = outcomeOf[s]
      BY <2>1 DEF Promise!Refuse, Promise!Accept, outcomeOf
    <3>3. t # s => asksOf'[s] = asksOf[s]
      <4>1. CASE Promise!Refuse(t)
        BY <4>1 DEF Promise!Refuse
      <4>2. ASSUME Promise!Accept(t), t # s PROVE asksOf'[s] = asksOf[s]
        <5>1. PICK place \in Promise!Asked : asksOf' = [asksOf EXCEPT ![t] = place]
          BY <4>2 DEF Promise!Accept
        <5> QED BY <4>2, <5>1 DEF asksOf
      <4> QED BY <2>1, <4>1, <4>2
    <3> QED BY <3>1, <3>2, <3>3
  <2>2. ASSUME NEW t \in Subs, NEW place \in Promise!Places, Promise!Answer(t, place)
        PROVE  Replied(s)'
    BY <2>2 DEF Promise!Answer, Promise!Places, answerOf
  <2>3. ASSUME NEW S \in SUBSET Subs, NEW how \in Promise!Ends, Promise!End(S, how)
        PROVE  Replied(s)'
    BY <2>3 DEF Promise!End, outcomeOf
  <2>4. CASE UNCHANGED Promise!vars
    BY <2>4 DEF Promise!vars
  <2> QED BY <2>1, <2>2, <2>3, <2>4 DEF Promise!Next
<1>3. TypeOK /\ AllReplied => OkIsReplied
  BY DEF TypeOK, OkIsReplied, Card, outcomeOf, asksOf, answerOf
<1> QED BY <1>1, <1>2, <1>3, PromiseSteps, TypeCorrect, PTL DEF Spec

-----------------------------------------------------------------------------
(* A reply that was asked for reaches its handle, where wakers do not call. *)

(* No call begins inside another.                                           *)
Shallow == Len(stack) <= 1

(* A call that has its verdict has not replied to yet, nor ended, what it   *)
(* submits: LibOSDP runs again only after the call has returned.            *)
AnsweredLate ==
  \A s \in replied : request[s] # None /\ ~Submitting(s) /\ ~TookIt(s)

TakenPends == \A s \in Subs : TookIt(s) => status[s] = "none"

(* Only card commands ask for a reply, and end well only after theirs.      *)
OnlyCardsWant == \A s \in Subs : request[s] # None /\ request[s].wants => Card(s)

OkIsAnswered == \A s \in Subs : Card(s) /\ status[s] = "ok" => s \in replied

(* Until it comes, the reply is routed to the handle; then the slot has it, *)
(* if it could be read.                                                     *)
Hopes(s) == handle[s] = "live" /\ Card(s) /\ request[s].wants

RouteWaits ==
  \A s \in Subs :
    Hopes(s) /\ status[s] = "none" /\ s \notin replied => routes[request[s].pd] = s

ReplyStored == \A s \in replied \ malformed : Hopes(s) => reply[s] = s

DeliverInv ==
  /\ AnsweredLate /\ TakenPends /\ OnlyCardsWant /\ OkIsAnswered
  /\ RouteWaits /\ ReplyStored

(* The call that LibOSDP took a command from is alone on the stack, waking. *)
LEMMA TakerIsAlone ==
  ASSUME TypeOK, SubmitsSomething, Shallow, NEW s \in Subs, TookIt(s)
  PROVE  /\ stack # <<>> /\ Top.op = "submit" /\ Top.sub = s /\ Top.accepted
         /\ Top.phase # "c"
<1>1. PICK i \in 1 .. Len(stack) : SubmitsAt(i, s) /\ stack[i].accepted
  BY DEF TookIt
<1>2. stack \in Seq(Frame) /\ Len(stack) \in Nat
  BY DEF TypeOK
<1>3. i = Len(stack) /\ stack # <<>>
  BY <1>1, <1>2, EmptySeq DEF Shallow
<1> QED BY <1>1, <1>3 DEF Top, SubmitsAt, SubmitsSomething

(* A call begins only when none is in progress.                             *)
LEMMA CallsAlone ==
  ASSUME NoNestedCall, ~WakersCall, AppRuns
  PROVE  /\ busy \/ stack = <<>>
         /\ stack = <<>> \/ InPhase("c")
BY DEF NoNestedCall, AppRuns

(* What a step does to the calls that submit.                               *)
Onward ==
  /\ Shallow'
  /\ \A s \in Subs : /\ TookIt(s)' => TookIt(s) \/ Submitting(s)
                     /\ Submitting(s)' => Submitting(s) \/ request[s] = None

LEMMA OnwardSame ==
  ASSUME SubmitsSomething, SubmitsOnce, Shallow, UNCHANGED <<stack, request>>
  PROVE  Onward
BY SubmitsSame DEF Onward, Shallow

LEMMA OnwardAdvance ==
  ASSUME TypeOK, SubmitsSomething, SubmitsOnce, Shallow, stack # <<>>,
         NEW phase \in {"wake", "waker", "stream"},
         NEW todo \in SUBSET Subs, NEW accepted \in BOOLEAN,
         stack' = Advance(phase, todo, accepted), request' = request,
         accepted = Top.accepted \/ Top.phase = "c"
  PROVE  Onward
<1>1. Len(stack') = Len(stack)
  BY AfterAdvance
<1>2. ASSUME NEW s \in Subs
      PROVE  /\ TookIt(s)' => TookIt(s) \/ Submitting(s)
             /\ Submitting(s)' => Submitting(s) \/ request[s] = None
  <2>1. /\ Submitting(s)' <=> IF Top.op = "submit" /\ Top.sub = s
                                THEN ~accepted ELSE Submitting(s)
        /\ TookIt(s)' <=> IF Top.op = "submit" /\ Top.sub = s
                            THEN accepted ELSE TookIt(s)
    BY SubmitsAdvance
  <2>2. Top.op = "submit" /\ Top.sub = s => /\ Submitting(s) <=> ~Top.accepted
                                            /\ TookIt(s) <=> Top.accepted
    BY TopDecides
  <2>3. Top.phase = "c" => ~Top.accepted
    BY TopSubmits
  <2> QED BY <2>1, <2>2, <2>3
<1> QED BY <1>1, <1>2 DEF Onward, Shallow

LEMMA OnwardReturn ==
  ASSUME TypeOK, SubmitsSomething, SubmitsOnce, Shallow, stack # <<>>,
         stack' = Caller, request' = request
  PROVE  Onward
<1>1. Len(stack) \in Nat /\ Len(stack') = Len(stack) - 1
  BY AfterReturn
<1>2. Shallow'
  BY <1>1 DEF Shallow
<1> QED BY <1>2, SubmitsReturn DEF Onward

LEMMA OnwardPush ==
  ASSUME TypeOK, SubmitsSomething, SubmitsOnce, stack = <<>>,
         NEW op \in {"refresh", "submit", "flush"}, NEW phase \in {"c", "wake"},
         NEW s \in Subs \union {None}, NEW todo \in SUBSET Subs,
         op = "submit" => s \in Subs /\ request[s] = None /\ request'[s] # None,
         \A t \in Subs : request[t] # None => request'[t] # None,
         stack' = Push(op, phase, s, todo)
  PROVE  Onward
<1>1. Len(stack') = Len(stack) + 1 /\ Len(stack) = 0
  BY AfterPush, EmptySeq
<1>2. Shallow'
  BY <1>1 DEF Shallow
<1> QED BY <1>2, SubmitsPush DEF Onward

LEMMA OnwardStep ==
  ASSUME TypeOK, BoxInv, NoNestedCall, ~WakersCall, Shallow, [Next]_vars
  PROVE  Onward
<1>0. SubmitsSomething /\ SubmitsOnce
  BY DEF BoxInv
<1>1. CASE LibNext
  BY <1>0, <1>1, OnwardSame DEF LibNext, C_Event, C_Send, C_BioMultipart, C_Reply,
     C_MalformedReply, C_Complete
<1>2. CASE Unwind
  <2>1. stack # <<>> /\ Top \in Frame
    BY <1>0, <1>2, TopSubmits DEF Unwind, RefreshReturns, Refreshing, SubmitReturns, WakeNext,
       WakeStream, CallReturns, SubmitRefused, SubmitAccepted, Woken, WokeAll, InPhase
  <2>2. ASSUME NEW s \in Subs, WakeNext(s) PROVE Onward
    <3>1. /\ Top.todo \ {s} \in SUBSET Subs /\ Top.accepted \in BOOLEAN
          /\ stack' = Advance("waker", Top.todo \ {s}, Top.accepted) /\ request' = request
      BY <2>1, <2>2 DEF WakeNext, Frame
    <3> QED BY <1>0, <2>1, <3>1, OnwardAdvance
  <2>3. ASSUME WakeStream PROVE Onward
    <3>1. /\ Top.accepted \in BOOLEAN
          /\ stack' = Advance("stream", {}, Top.accepted) /\ request' = request
      BY <2>1, <2>3 DEF WakeStream, Frame
    <3> QED BY <1>0, <2>1, <3>1, OnwardAdvance
  <2>4. ASSUME NEW accepted \in BOOLEAN,
               (RefreshReturns /\ accepted = FALSE) \/ SubmitReturns(accepted)
        PROVE  Onward
    <3>1. /\ Top.phase = "c" /\ wakeups \in SUBSET Subs
          /\ stack' = Advance("wake", wakeups, accepted) /\ request' = request
      BY <2>4 DEF RefreshReturns, Refreshing, SubmitReturns, InPhase, BeginWaking, TypeOK
    <3> QED BY <1>0, <2>1, <3>1, OnwardAdvance
  <2>5. ASSUME CallReturns \/ SubmitRefused \/ SubmitAccepted PROVE Onward
    BY <1>0, <2>1, <2>5, OnwardReturn DEF CallReturns, SubmitRefused, SubmitAccepted
  <2> QED BY <1>2, <2>2, <2>3, <2>4, <2>5 DEF Unwind
<1>3. CASE AppNext
  <2>1. ASSUME RefreshBegin PROVE Onward
    <3>1. stack = <<>> /\ stack' = Push("refresh", "c", None, {}) /\ request' = request
      BY <2>1, CallsAlone DEF RefreshBegin, BusyEnter
    <3> QED BY <1>0, <3>1, OnwardPush
  <2>2. ASSUME NEW s \in Subs, NEW pd \in PDs, NEW kind \in Kinds, NEW wants \in BOOLEAN,
               SubmitBegin(s, pd, kind, wants)
        PROVE  Onward
    <3>1. stack = <<>> /\ stack' = Push("submit", "c", s, {})
      BY <2>2, CallsAlone DEF SubmitBegin, BusyEnter
    <3>2. /\ request[s] = None /\ request'[s] # None
          /\ \A t \in Subs : request[t] # None => request'[t] # None
      BY <2>2, FirstUse, RequestNotNone
    <3> QED BY <1>0, <3>1, <3>2, OnwardPush
  <2>3. ASSUME NEW pd \in PDs, Flush(pd) PROVE Onward
    <3>1. /\ stack = <<>> /\ request' = request
          /\ stack' = Push("flush", "wake", None, Deferred(Queued(pd)))
          /\ Deferred(Queued(pd)) \in SUBSET Subs
      BY <2>3, CallsAlone, TypeDeferred DEF Flush, Queued, Of
    <3> QED BY <1>0, <3>1, OnwardPush
  <2>4. ASSUME NEW pd \in PDs, FlushInCallback(pd) PROVE Onward
    BY <1>0, <2>4, OnwardSame DEF FlushInCallback
  <2>5. ASSUME NEW s \in Subs, Cancel(s) \/ Poll(s) \/ DropHandle(s) PROVE Onward
    BY <1>0, <2>5, OnwardSame DEF Cancel, Poll, DropHandle
  <2>6. ASSUME NextEvent \/ ParkStream \/ DropContext PROVE Onward
    BY <1>0, <2>6, OnwardSame DEF NextEvent, ParkStream, DropContext
  <2> QED BY <1>3, <2>1, <2>2, <2>3, <2>4, <2>5, <2>6 DEF AppNext
<1>4. CASE UNCHANGED vars
  BY <1>0, <1>4, OnwardSame
<1> QED BY <1>1, <1>2, <1>3, <1>4 DEF Next

-----------------------------------------------------------------------------
(* Every step preserves DeliverInv, by what it does to replies and ends.    *)

(* Nothing is replied to, and no route, reply or request changes.  Commands *)
(* that LibOSDP held may end, the card commands among them well only if     *)
(* they were replied to.                                                    *)
LEMMA DeliverEnds ==
  ASSUME TypeOK, BoxInv, LifeInv, DeliverInv, Onward,
         NEW S \in SUBSET Subs, NEW how, Complete(S, how),
         \A s \in S : held[s] # "out" /\ ~TookIt(s),
         how = "ok" => \A s \in S : Card(s) => s \in replied,
         how # "none",
         UNCHANGED <<request, reply, replied, malformed, handle>>,
         routes' = routes \/ \A s \in Subs : handle[s] # "live"
  PROVE  DeliverInv'
<1>1. \A s \in Subs : status'[s] = IF s \in S THEN how ELSE status[s]
  BY DEF Complete
<1>2. \A s \in Subs : TookIt(s)' \/ Submitting(s)' =>
                        TookIt(s) \/ Submitting(s) \/ request[s] = None
  BY DEF Onward
<1>3. AnsweredLate'
  BY <1>2 DEF DeliverInv, AnsweredLate, TypeOK
<1>4. TakenPends'
  <2> SUFFICES ASSUME NEW s \in Subs, TookIt(s)' PROVE status'[s] = "none"
    BY DEF TakenPends
  <2>1. TookIt(s) \/ Submitting(s)
    BY DEF Onward
  <2>2. status[s] = "none" /\ s \notin S
    BY <2>1, OutcomeOf DEF DeliverInv, TakenPends
  <2> QED BY <1>1, <2>2
<1>5. \A s \in Subs : (Card(s)' <=> Card(s)) /\ (Hopes(s)' <=> Hopes(s))
  BY DEF Card, Hopes
<1>6. OnlyCardsWant' /\ OkIsAnswered'
  BY <1>1, <1>5 DEF DeliverInv, OnlyCardsWant, OkIsAnswered
<1>7. RouteWaits'
  BY <1>1, <1>5 DEF DeliverInv, RouteWaits, Hopes
<1>8. ReplyStored'
  BY <1>5 DEF DeliverInv, ReplyStored, TypeOK
<1> QED BY <1>3, <1>4, <1>6, <1>7, <1>8 DEF DeliverInv

(* A call moves on, or the application drops a handle.                      *)
LEMMA DeliverSame ==
  ASSUME TypeOK, BoxInv, LifeInv, DeliverInv, Onward,
         UNCHANGED <<request, status, reply, replied, malformed, routes>>,
         \A s \in Subs : handle'[s] = "live" => handle[s] = "live"
  PROVE  DeliverInv'
<1>1. AnsweredLate'
  BY DEF DeliverInv, AnsweredLate, Onward, TypeOK
<1>2. TakenPends'
  BY OutcomeOf DEF DeliverInv, TakenPends, Onward
<1>3. \A s \in Subs : (Card(s)' <=> Card(s)) /\ (Hopes(s)' => Hopes(s))
  BY DEF Card, Hopes
<1>4. OnlyCardsWant' /\ OkIsAnswered' /\ RouteWaits'
  BY <1>3 DEF DeliverInv, OnlyCardsWant, OkIsAnswered, RouteWaits
<1>5. ReplyStored'
  BY <1>3 DEF DeliverInv, ReplyStored, TypeOK
<1> QED BY <1>1, <1>2, <1>4, <1>5 DEF DeliverInv

(* The reply to a card command: it goes to the handle that waits for it.    *)
LEMMA DeliverReply ==
  ASSUME TypeOK, BoxInv, ReplyInv, LifeInv, DeliverInv, Shallow, Onward,
         NEW s \in Subs, C_Reply(s)
  PROVE  DeliverInv'
<1>1. /\ Top.op = "refresh" /\ held[s] = "running" /\ request[s].kind \in CardKinds
      /\ s \notin replied /\ replied' = replied \union {s}
      /\ UNCHANGED <<stack, request, status, handle, malformed>>
      /\ routes' = [routes EXCEPT ![request[s].pd] = None]
  BY DEF C_Reply, Refreshing
<1>2. request[s] # None /\ ~Submitting(s) /\ Card(s)
  BY <1>1 DEF BoxInv, HeldWasTaken, Card
<1>3. request[s].pd \in PDs
  BY <1>2 DEF TypeOK, Request
<1>4. /\ ~TookIt(s)
      /\ \A t \in Subs : (Submitting(t)' <=> Submitting(t)) /\ (TookIt(t)' <=> TookIt(t))
      /\ \A t \in Subs : (Card(t)' <=> Card(t)) /\ (Hopes(t)' <=> Hopes(t))
  <2>1. ~TookIt(s)
    BY <1>1, TakerIsAlone DEF BoxInv
  <2>2. \A t \in Subs : (Submitting(t)' <=> Submitting(t)) /\ (TookIt(t)' <=> TookIt(t))
    BY <1>1, SubmitsSame DEF BoxInv
  <2> QED BY <1>1, <2>1, <2>2 DEF Card, Hopes
<1>5. status[s] = "none"
  BY <1>1, OutcomeOf DEF outcomeOf, LifeInv, EndedIsFreed, BoxInv, BoxHasOneOwner
<1>6. AnsweredLate' /\ TakenPends' /\ OnlyCardsWant' /\ OkIsAnswered'
  BY <1>1, <1>2, <1>4
  DEF DeliverInv, AnsweredLate, TakenPends, OnlyCardsWant, OkIsAnswered, TypeOK
<1>7. RouteWaits'
  <2> SUFFICES ASSUME NEW t \in Subs, Hopes(t), status[t] = "none", t \notin replied, t # s
               PROVE  routes'[request[t].pd] = t
    BY <1>1, <1>4 DEF RouteWaits
  <2>1. Card(t) /\ held[t] = "running"
    BY DEF Hopes, ReplyInv, TakenIsHeld, CardIsRunning
  <2>2. request[t].pd # request[s].pd
    BY <1>1, <1>2, <2>1 DEF ReplyInv, OneCardPerPD
  <2>3. request[t].pd \in PDs /\ routes[request[t].pd] = t
    BY <2>1 DEF DeliverInv, RouteWaits, Card, TypeOK, Request
  <2> QED BY <1>1, <2>2, <2>3 DEF TypeOK
<1>8. ReplyStored'
  <2> DEFINE r == routes[request[s].pd]
  <2>1. CASE Waiting(r)
    <3>1. r = s
      BY <2>1, ReplyFindsItsOwn
    <3>2. reply' = [reply EXCEPT ![s] = s]
      BY <2>1, <3>1 DEF C_Reply
    <3>3. \A t \in Subs : reply'[t] = IF t = s THEN s ELSE reply[t]
      BY <3>2 DEF TypeOK
    <3> QED BY <1>1, <1>4, <3>3 DEF DeliverInv, ReplyStored, TypeOK
  <2>2. CASE ~Waiting(r)
    <3>1. reply' = reply
      BY <2>2 DEF C_Reply
    <3>2. ~Hopes(s)
      <4> SUFFICES ASSUME Hopes(s) PROVE FALSE
        OBVIOUS
      <4>1. r = s /\ handle[s] = "live"
        BY <1>1, <1>5 DEF DeliverInv, RouteWaits, Hopes
      <4>2. Waiting(s)
        BY <1>5, <4>1, ConstantsAssumption DEF Waiting, IsPending
      <4> QED BY <2>2, <4>1, <4>2
    <3> QED BY <1>1, <1>4, <3>1, <3>2 DEF DeliverInv, ReplyStored, TypeOK
  <2> QED BY <2>1, <2>2
<1> QED BY <1>6, <1>7, <1>8 DEF DeliverInv

(* A reply does not convert: the routes of the others stay.                 *)
LEMMA DeliverUnread ==
  ASSUME TypeOK, BoxInv, LifeInv, DeliverInv, Shallow, Onward,
         NEW s \in Subs, C_MalformedReply(s)
  PROVE  DeliverInv'
<1>1. /\ Top.op = "refresh" /\ held[s] = "running"
      /\ replied' = replied \union {s} /\ malformed' = malformed \union {s}
      /\ UNCHANGED <<stack, request, status, handle, reply, routes>>
  BY DEF C_MalformedReply, Refreshing
<1>2. request[s] # None /\ ~Submitting(s) /\ ~TookIt(s)
  BY <1>1, TakerIsAlone DEF BoxInv, HeldWasTaken
<1>3. /\ \A t \in Subs : (Submitting(t)' <=> Submitting(t)) /\ (TookIt(t)' <=> TookIt(t))
      /\ \A t \in Subs : (Card(t)' <=> Card(t)) /\ (Hopes(t)' <=> Hopes(t))
  BY <1>1, SubmitsSame DEF BoxInv, Card, Hopes
<1>4. AnsweredLate' /\ TakenPends' /\ OnlyCardsWant' /\ OkIsAnswered'
  BY <1>1, <1>2, <1>3
  DEF DeliverInv, AnsweredLate, TakenPends, OnlyCardsWant, OkIsAnswered, TypeOK
<1>5. RouteWaits' /\ ReplyStored'
  BY <1>1, <1>3 DEF DeliverInv, RouteWaits, ReplyStored, TypeOK
<1> QED BY <1>4, <1>5 DEF DeliverInv

(* The handle of a card command is given out, and its reply routed to it.   *)
LEMMA DeliverAccepted ==
  ASSUME TypeOK, BoxInv, ReplyInv, LifeInv, DeliverInv, Onward, SubmitAccepted
  PROVE  DeliverInv'
<1>1. /\ stack # <<>> /\ Top.op = "submit" /\ Top.accepted /\ RouteReply(Top.sub)
      /\ handle' = [handle EXCEPT ![Top.sub] = "live"]
      /\ UNCHANGED <<request, status, reply, replied, malformed, held>>
  BY DEF SubmitAccepted, Woken, WokeAll, InPhase
<1>2. PICK s \in Subs : s = Top.sub
  BY <1>1, TopSubmits DEF BoxInv
<1>3. /\ TookIt(s) /\ status[s] = "none" /\ s \notin replied /\ request[s] # None
  <2>1. TookIt(s) /\ request[s] # None
    BY <1>1, <1>2, TopSubmits, TopDecides DEF BoxInv
  <2> QED BY <2>1 DEF DeliverInv, AnsweredLate, TakenPends
<1>4. \A t \in Subs : /\ Card(t)' <=> Card(t)
                      /\ t # s => (Hopes(t)' => Hopes(t))
  BY <1>1, <1>2 DEF Card, Hopes, TypeOK
<1>5. AnsweredLate' /\ TakenPends'
  BY <1>1, OutcomeOf DEF DeliverInv, AnsweredLate, TakenPends, Onward, TypeOK
<1>6. OnlyCardsWant' /\ OkIsAnswered'
  BY <1>1, <1>4 DEF DeliverInv, OnlyCardsWant, OkIsAnswered
<1>7. ReplyStored'
  BY <1>1, <1>3, <1>4 DEF DeliverInv, ReplyStored, TypeOK
<1>8. RouteWaits'
  <2> SUFFICES ASSUME NEW t \in Subs, Hopes(t)', status[t] = "none", t \notin replied
               PROVE  routes'[request[t].pd] = t
    BY <1>1 DEF RouteWaits
  <2>1. Card(t) /\ request[t].wants /\ request[t].pd \in PDs
    BY <1>1, <1>4 DEF Hopes, Card, TypeOK, Request
  <2>2. CASE t = s
    BY <1>1, <1>2, <2>1, <2>2 DEF RouteReply, Card, TypeOK
  <2>3. CASE t # s
    <3>1. Hopes(t)
      BY <1>4, <2>3
    <3>2. routes[request[t].pd] = t /\ held[t] = "running"
      BY <2>1, <3>1 DEF DeliverInv, RouteWaits, Hopes, ReplyInv, TakenIsHeld, CardIsRunning
    <3>3. Card(s) => held[s] = "running"
      BY <1>3 DEF ReplyInv, TakenIsHeld, CardIsRunning
    <3>4. Card(s) => request[s].pd # request[t].pd
      BY <2>1, <2>3, <3>2, <3>3 DEF ReplyInv, OneCardPerPD
    <3>5. request[s].kind \in CardKinds => request[s].pd # request[t].pd
      BY <1>3, <3>4 DEF Card
    <3> QED BY <1>1, <1>2, <2>1, <3>2, <3>5 DEF RouteReply, TypeOK
  <2> QED BY <2>2, <2>3
<1> QED BY <1>5, <1>6, <1>7, <1>8 DEF DeliverInv

LEMMA DeliverBegins ==
  ASSUME TypeOK, BoxInv, ReplyInv, LifeInv, DeliverInv, Onward,
         NEW s \in Subs, NEW pd \in PDs, NEW kind \in Kinds, NEW wants \in BOOLEAN,
         SubmitBegin(s, pd, kind, wants)
  PROVE  DeliverInv'
<1>1. /\ request[s] = None /\ request'[s].kind = kind /\ request'[s].wants = wants
      /\ \A t \in Subs : t # s => request'[t] = request[t]
      /\ request'[s] # None
  BY FirstUse, RequestNotNone
<1>2. /\ UNCHANGED <<status, handle, reply, replied, malformed, routes>>
      /\ wants => kind \in CardKinds
  BY DEF SubmitBegin
<1>3. s \notin replied /\ status[s] = "none" /\ handle[s] = "none"
  <2>1. status[s] = "none" /\ held[s] = "out"
    BY <1>1, OutcomeOf
  <2> QED BY <1>1, <2>1 DEF DeliverInv, AnsweredLate, ReplyInv, TakenIsHeld
<1>4. \A t \in Subs : t # s => (Card(t)' <=> Card(t)) /\ (Hopes(t)' <=> Hopes(t))
  BY <1>1, <1>2 DEF Card, Hopes
<1>5. AnsweredLate'
  BY <1>1, <1>2, <1>3 DEF DeliverInv, AnsweredLate, Onward, TypeOK
<1>6. TakenPends'
  BY <1>2, OutcomeOf DEF DeliverInv, TakenPends, Onward
<1>7. OnlyCardsWant'
  BY <1>1, <1>2, <1>4 DEF DeliverInv, OnlyCardsWant, Card
<1>8. OkIsAnswered'
  BY <1>2, <1>3, <1>4 DEF DeliverInv, OkIsAnswered
<1>9. ~Hopes(s)'
  BY <1>2, <1>3 DEF Hopes
<1>10. RouteWaits'
  BY <1>1, <1>2, <1>4, <1>9 DEF DeliverInv, RouteWaits
<1>11. ReplyStored'
  BY <1>2, <1>4, <1>9 DEF DeliverInv, ReplyStored, TypeOK
<1> QED BY <1>5, <1>6, <1>7, <1>8, <1>10, <1>11 DEF DeliverInv

LEMMA DeliverInductive ==
  ASSUME TypeOK, BoxInv, ReplyInv, LifeInv, NoNestedCall, ~WakersCall,
         Shallow, DeliverInv, [Next]_vars
  PROVE  DeliverInv'
<1>0. Onward /\ SubmitsSomething
  BY OnwardStep DEF BoxInv
<1>1. ASSUME UNCHANGED <<request, status, handle, reply, replied, malformed, routes>>
      PROVE  DeliverInv'
  BY <1>0, <1>1, DeliverSame
<1>2. ASSUME NEW s \in Subs, NEW outcome \in {"ok", "failed"}, C_Complete(s, outcome)
      PROVE  DeliverInv'
  <2>1. /\ Complete({s}, outcome)
        /\ UNCHANGED <<request, reply, replied, malformed, handle, routes>>
        /\ Top.op = "refresh" /\ held[s] # "out"
        /\ outcome = "ok" => (Card(s) => s \in replied)
    BY <1>2 DEF C_Complete, CompleteDeferring, Refreshing, Card
  <2>2. ~TookIt(s)
    BY <1>0, <2>1, TakerIsAlone
  <2> QED BY <1>0, <2>1, <2>2, DeliverEnds
<1>3. ASSUME NEW pd \in PDs, FlushInCallback(pd) \/ Flush(pd) PROVE DeliverInv'
  <2>1. /\ Complete(Queued(pd), "flushed")
        /\ UNCHANGED <<request, reply, replied, malformed, handle, routes>>
        /\ Queued(pd) \in SUBSET Subs /\ \A s \in Queued(pd) : held[s] # "out"
    BY <1>3 DEF FlushInCallback, Flush, CompleteDeferring, Queued, Of
  <2>2. stack = <<>> \/ InPhase("c")
    BY <1>3, CallsAlone DEF FlushInCallback, Flush
  <2>3. \A s \in Queued(pd) : ~TookIt(s)
    BY <1>0, <2>1, <2>2, TakerIsAlone DEF InPhase
  <2> QED BY <1>0, <2>1, <2>3, DeliverEnds
<1>4. ASSUME DropContext PROVE DeliverInv'
  <2> DEFINE S == {s \in Subs : held[s] # "out"}
  <2>1. /\ Complete(S, "aborted") /\ UNCHANGED <<request, reply, replied, malformed, handle>>
        /\ \A s \in Subs : handle[s] # "live"
        /\ S \in SUBSET Subs /\ \A s \in S : held[s] # "out"
        /\ stack = <<>>
    BY <1>4 DEF DropContext
  <2>2. \A s \in S : ~TookIt(s)
    BY <1>0, <2>1, TakerIsAlone
  <2> HIDE DEF S
  <2> QED BY <1>0, <2>1, <2>2, DeliverEnds
<1>5. ASSUME NEW s \in Subs, DropHandle(s) PROVE DeliverInv'
  <2>1. /\ UNCHANGED <<request, status, reply, replied, malformed, routes>>
        /\ \A t \in Subs : handle'[t] = "live" => handle[t] = "live"
    BY <1>5 DEF DropHandle, TypeOK
  <2> QED BY <1>0, <2>1, DeliverSame
<1>6. ASSUME NEW s \in Subs, NEW pd \in PDs, NEW kind \in Kinds, NEW wants \in BOOLEAN,
             SubmitBegin(s, pd, kind, wants)
      PROVE  DeliverInv'
  BY <1>0, <1>6, DeliverBegins
<1>7. CASE LibNext
  <2>1. ASSUME C_Event PROVE DeliverInv'
    BY <1>1, <2>1 DEF C_Event
  <2>2. ASSUME NEW s \in Subs, C_Send(s) \/ C_BioMultipart(s) PROVE DeliverInv'
    BY <1>1, <2>2 DEF C_Send, C_BioMultipart
  <2>3. ASSUME NEW s \in Subs, C_Reply(s) PROVE DeliverInv'
    BY <1>0, <2>3, DeliverReply
  <2>4. ASSUME NEW s \in Subs, C_MalformedReply(s) PROVE DeliverInv'
    BY <1>0, <2>4, DeliverUnread
  <2> QED BY <1>2, <1>7, <2>1, <2>2, <2>3, <2>4 DEF LibNext
<1>8. CASE Unwind
  BY <1>0, <1>1, <1>8, DeliverAccepted DEF Unwind, RefreshReturns, SubmitReturns, WakeNext,
     WakeStream, CallReturns, SubmitRefused
<1>9. CASE AppNext
  <2>1. ASSUME RefreshBegin \/ NextEvent \/ ParkStream PROVE DeliverInv'
    BY <1>1, <2>1 DEF RefreshBegin, NextEvent, ParkStream
  <2>2. ASSUME NEW s \in Subs, Cancel(s) \/ Poll(s) PROVE DeliverInv'
    BY <1>1, <2>2 DEF Cancel, Poll
  <2> QED BY <1>3, <1>4, <1>5, <1>6, <1>9, <2>1, <2>2 DEF AppNext
<1>10. CASE UNCHANGED vars
  BY <1>1, <1>10
<1> QED BY <1>7, <1>8, <1>9, <1>10 DEF Next

(* Where wakers only schedule their task, the reply of a card command that  *)
(* was sent for its reply and ended well is in its handle, if it converted  *)
(* (piv_data and its like, cp.rs:285): nothing runs between LibOSDP's taking the command and  *)
(* the route to its handle, so no reply can pass by it.  The run cp_route   *)
(* shows that wakers that call the context do lose it.                      *)
THEOREM ReplyDelivered ==
  ASSUME ~WakersCall
  PROVE  Spec => []ReplyReachesHandle
<1>1. Init => Shallow /\ DeliverInv
  BY EmptySeq DEF Init, Shallow, DeliverInv, AnsweredLate, TakenPends, TookIt, OnlyCardsWant,
                  OkIsAnswered, RouteWaits, ReplyStored, Hopes, Card
<1>2. TypeOK /\ BoxInv /\ ReplyInv /\ LifeInv /\ NoNestedCall /\ Shallow /\ DeliverInv
        /\ [Next]_vars
      => Shallow' /\ DeliverInv'
  BY OnwardStep, DeliverInductive DEF Onward
<1>3. BoxInv /\ LifeInv /\ DeliverInv => ReplyReachesHandle
  <2> SUFFICES ASSUME BoxInv, LifeInv, DeliverInv, NEW s \in Subs \ malformed,
                      status[s] = "ok", handle[s] = "live", request[s].wants
               PROVE  reply[s] = s
    BY DEF ReplyReachesHandle
  <2>1. request[s] # None
    BY DEF BoxInv, BoxHasOneOwner, LifeInv, EndedIsFreed
  <2>2. Hopes(s) /\ s \in replied
    BY <2>1 DEF DeliverInv, OnlyCardsWant, OkIsAnswered, Hopes
  <2> QED BY <2>2 DEF DeliverInv, ReplyStored
<1> QED
  BY <1>1, <1>2, <1>3, TypeCorrect, NeverNested, BoxesOwned, RepliesFollowed, LivesFollowed,
     PTL DEF Spec

=============================================================================
