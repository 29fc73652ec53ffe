-------------------------- MODULE PagePollingProofs -------------------------
(***************************************************************************)
(* Proofs about the polling pages, for any number of pages and calls.      *)
(***************************************************************************)
EXTENDS PagePolling, FiniteSetTheorems, TLAPS

\* A page waits for its timer, or for its one call, or not any more: because
\* it has told the customer, or because it does not survive a failed poll.
PageOK(p) ==
  \/ p \notin told /\ timers[p] = 1 /\ CallsOf(p) = {}
  \/ p \notin told /\ timers[p] = 0 /\ \E c \in Calls : CallsOf(p) = {c}
  \/ p \in told /\ timers[p] = 0 /\ CallsOf(p) = {}
  \/ p \in PaymentPages \cap failed /\ p \notin told
     /\ timers[p] = 0 /\ CallsOf(p) = {}

\* A call has its result with the answer.
NoEarlyResult ==
  \A c \in Calls :
    calls[c] # Nil /\ calls[c].at # "answer" => calls[c].result = NoAnswer

PollInv == TypeOK /\ NoEarlyResult /\ \A p \in Pages : PageOK(p)

-----------------------------------------------------------------------------

\* The results differ, and only the good answer says "received".
LEMMA Results ==
  /\ Received # NotYet /\ Received # Refused /\ Received # NoAnswer
  /\ Received # Raised
  /\ IsSuccess(Received.status) /\ Received.data = "received"
  /\ IsSuccess(NotYet.status) /\ NotYet.data # "received"
  /\ ~IsSuccess(Refused.status) /\ ~IsSuccess(NoAnswer.status)
  /\ ~IsSuccess(Raised.status)
BY DEF Received, NotYet, Refused, NoAnswer, Raised, IsSuccess

\* The three ways in which a call is done.
Tells(c, result) ==
  /\ result = Received
  /\ told' = told \cup {calls[c].page}
  /\ UNCHANGED <<timers, failed, lost>>

PollsAgain(c, result) ==
  /\ result # Received
  /\ timers' = [timers EXCEPT ![calls[c].page] = @ + 1]
  /\ failed' \in {failed, failed \cup {calls[c].page}}
  /\ UNCHANGED told

FallsSilent(c, result) ==
  /\ result # Received
  /\ calls[c].page \in PaymentPages
  /\ failed' = failed \cup {calls[c].page}
  /\ UNCHANGED <<timers, told>>

LEMMA DoneCases ==
  ASSUME NEW c \in Calls, TypeOK, calls[c] # Nil,
         NEW result \in {Received, NotYet, Refused, NoAnswer, Raised},
         Done(c, result)
  PROVE  /\ calls' = [calls EXCEPT ![c] = Nil]
         /\ UNCHANGED serverVars
         /\ calls[c] \in Call
         /\ \/ Tells(c, result) \/ PollsAgain(c, result) \/ FallsSilent(c, result)
         /\ lost' = IF ~IsSuccess(result.status) /\ calls[c].result = Received
                      THEN lost \cup {calls[c].page} ELSE lost
<1>1. calls[c] \in Call
  BY DEF TypeOK
<1>2. CASE IsSuccess(result.status) /\ result.data = "received"
  BY <1>1, <1>2, Results DEF Done, Success, Tells
<1>3. CASE IsSuccess(result.status) /\ result.data # "received"
  BY <1>1, <1>3, Results DEF Done, Success, SetTimeout, PollsAgain
<1>4. CASE ~IsSuccess(result.status)
  BY <1>1, <1>4, Results
     DEF Done, Error, SetTimeout, PollsAgain, FallsSilent, Call, Pages
<1> QED BY <1>2, <1>3, <1>4

-----------------------------------------------------------------------------

LEMMA PollInit == Init => PollInv
<1> SUFFICES ASSUME Init PROVE PollInv
  OBVIOUS
<1>1. TypeOK
  BY DEF Init, TypeOK
<1>2. NoEarlyResult
  BY DEF Init, NoEarlyResult
<1>3. ASSUME NEW p \in Pages PROVE PageOK(p)
  BY DEF Init, PageOK, CallsOf
<1> QED BY <1>1, <1>2, <1>3 DEF PollInv

\* A timer fires.
LEMMA PollPaymentKeeps ==
  ASSUME PollInv, NEW p \in Pages, NEW c \in Calls, PollPayment(p, c)
  PROVE  PollInv'
<1> DEFINE call == [page |-> p, at |-> "send", result |-> NoAnswer]
<1>1. call \in Call /\ call # Nil
  BY NilAssumption DEF Call, Stages
<1>2. calls' = [calls EXCEPT ![c] = call] /\ calls[c] = Nil
  BY DEF PollPayment
<1>3. calls \in [Calls -> Call \cup {Nil}] /\ timers \in [Pages -> Nat]
  BY DEF PollInv, TypeOK
<1>4. timers[p] > 0 /\ timers' = [timers EXCEPT ![p] = @ - 1]
  BY DEF PollPayment
<1>5. TypeOK'
  <2>1. timers' \in [Pages -> Nat]
    BY <1>3, <1>4
  <2>2. calls' \in [Calls -> Call \cup {Nil}]
    BY <1>1, <1>2, <1>3
  <2> QED BY <2>1, <2>2 DEF PollInv, TypeOK, PollPayment, serverVars
<1>6. NoEarlyResult'
  BY <1>2, <1>3 DEF PollInv, NoEarlyResult
<1>7. ASSUME NEW q \in Pages PROVE PageOK(q)'
  <2>1. CASE q = p
    <3>1. PageOK(p)
      BY DEF PollInv
    <3>2. timers[p] = 1 /\ CallsOf(p) = {} /\ p \notin told
      BY <3>1, <1>4 DEF PageOK
    <3>3. CallsOf(p)' = {c}
      BY <3>2, <1>1, <1>2, <1>3 DEF CallsOf
    <3>4. timers'[p] = 0 /\ told' = told
      BY <3>2, <1>3, <1>4 DEF PollPayment
    <3> QED BY <2>1, <3>2, <3>3, <3>4 DEF PageOK
  <2>2. CASE q # p
    <3>1. CallsOf(q)' = CallsOf(q)
      BY <2>2, <1>2, <1>3 DEF CallsOf
    <3>2. timers'[q] = timers[q]
      BY <2>2, <1>3, <1>4
    <3> QED BY <3>1, <3>2 DEF PollInv, PageOK, PollPayment
  <2> QED BY <2>1, <2>2
<1> QED BY <1>5, <1>6, <1>7 DEF PollInv

\* A call moves on: it is sent, or answered.
LEMMA CallMoves ==
  ASSUME PollInv, NEW c \in Calls, calls[c] # Nil,
         NEW call \in Call, call.page = calls[c].page,
         call.at # "answer" => call.result = NoAnswer,
         calls' = [calls EXCEPT ![c] = call], UNCHANGED pageVars,
         ready' \subseteq Pages, expired' \subseteq Pages,
         awaits' \subseteq PopPages, granted' \subseteq PopPages
  PROVE  PollInv'
<1>1. call # Nil
  BY NilAssumption
<1>2. calls \in [Calls -> Call \cup {Nil}]
  BY DEF PollInv, TypeOK
<1>3. TypeOK'
  <2>1. calls' \in [Calls -> Call \cup {Nil}]
    BY <1>2
  <2> QED BY <2>1 DEF PollInv, TypeOK, pageVars
<1>4. NoEarlyResult'
  BY <1>2 DEF PollInv, NoEarlyResult
<1>5. ASSUME NEW p \in Pages PROVE PageOK(p)'
  <2>1. CallsOf(p)' = CallsOf(p)
    BY <1>1, <1>2 DEF CallsOf
  <2> QED BY <2>1 DEF PollInv, PageOK, pageVars
<1> QED BY <1>3, <1>4, <1>5 DEF PollInv

\* A call is done.
LEMMA DoneKeeps ==
  ASSUME PollInv, NEW c \in Calls, calls[c] # Nil,
         NEW result \in {Received, NotYet, Refused, NoAnswer, Raised},
         Done(c, result)
  PROVE  PollInv'
<1>1. /\ calls' = [calls EXCEPT ![c] = Nil]
      /\ UNCHANGED serverVars
      /\ calls[c] \in Call
      /\ Tells(c, result) \/ PollsAgain(c, result) \/ FallsSilent(c, result)
      /\ lost' \in {lost, lost \cup {calls[c].page}}
  BY DoneCases DEF PollInv
<1>2. calls \in [Calls -> Call \cup {Nil}] /\ timers \in [Pages -> Nat]
  BY DEF PollInv, TypeOK
<1>3. PICK p \in Pages : p = calls[c].page
  BY <1>1 DEF Call
<1>4. TypeOK'
  <2>1. calls' \in [Calls -> Call \cup {Nil}]
    BY <1>1, <1>2
  <2>2. timers' \in [Pages -> Nat]
    BY <1>1, <1>2, <1>3 DEF Tells, PollsAgain, FallsSilent
  <2>3. told' \subseteq Pages /\ failed' \subseteq Pages /\ lost' \subseteq Pages
    BY <1>1, <1>3 DEF PollInv, TypeOK, Tells, PollsAgain, FallsSilent
  <2> QED BY <2>1, <2>2, <2>3, <1>1 DEF PollInv, TypeOK, serverVars
<1>5. NoEarlyResult'
  BY <1>1, <1>2 DEF PollInv, NoEarlyResult
<1>6. ASSUME NEW q \in Pages PROVE PageOK(q)'
  <2>1. CallsOf(q)' = CallsOf(q) \ {c}
    BY <1>1, <1>2 DEF CallsOf
  <2>2. CASE q = p
    <3>1. c \in CallsOf(p)
      BY <1>3 DEF CallsOf
    <3>2. p \notin told /\ timers[p] = 0 /\ CallsOf(p) = {c}
      BY <3>1 DEF PollInv, PageOK
    <3>3. CallsOf(p)' = {}
      BY <2>1, <2>2, <3>2
    <3>4. CASE Tells(c, result)
      BY <1>3, <3>2, <3>3, <3>4, <2>2 DEF Tells, PageOK
    <3>5. CASE PollsAgain(c, result)
      <4>1. timers'[p] = 1 /\ p \notin told'
        BY <3>2, <3>5, <1>2, <1>3 DEF PollsAgain
      <4> QED BY <4>1, <3>3, <2>2 DEF PageOK
    <3>6. CASE FallsSilent(c, result)
      BY <1>3, <3>2, <3>3, <3>6, <2>2 DEF FallsSilent, PageOK
    <3> QED BY <1>1, <3>4, <3>5, <3>6
  <2>3. CASE q # p
    <3>1. c \notin CallsOf(q)
      BY <1>3, <2>3 DEF CallsOf
    <3>2. CallsOf(q)' = CallsOf(q)
      BY <2>1, <3>1
    <3>3. /\ timers'[q] = timers[q]
          /\ q \in told' <=> q \in told
          /\ q \in failed => q \in failed'
      BY <1>1, <1>2, <1>3, <2>3 DEF Tells, PollsAgain, FallsSilent
    <3> QED BY <3>2, <3>3 DEF PollInv, PageOK
  <2> QED BY <2>2, <2>3
<1> QED BY <1>4, <1>5, <1>6 DEF PollInv

\* Every other step of the server leaves the calls and the pages alone.
LEMMA ServerKeeps ==
  ASSUME PollInv, UNCHANGED <<calls, pageVars>>,
         ready' \subseteq Pages, expired' \subseteq Pages,
         awaits' \subseteq PopPages, granted' \subseteq PopPages
  PROVE  PollInv'
BY DEF PollInv, TypeOK, NoEarlyResult, PageOK, CallsOf, pageVars

LEMMA PollStep == PollInv /\ [Next]_vars => PollInv'
<1> SUFFICES ASSUME PollInv, [Next]_vars PROVE PollInv'
  OBVIOUS
<1> USE DEF serverVars
<1>1. /\ ready \subseteq Pages /\ expired \subseteq Pages
      /\ awaits \subseteq PopPages /\ granted \subseteq PopPages
      /\ PopPages \subseteq Pages
      /\ calls \in [Calls -> Call \cup {Nil}]
  BY DEF PollInv, TypeOK, Pages
<1>2. ASSUME NEW p \in Pages, NEW c \in Calls, PollPayment(p, c) PROVE PollInv'
  BY <1>2, PollPaymentKeeps
<1>3. ASSUME NEW c \in Calls, calls[c] # Nil PROVE calls[c] \in Call
  BY <1>1, <1>3
<1>4. ASSUME NEW c \in Calls, Send(c) PROVE PollInv'
  <2> DEFINE call == [calls[c] EXCEPT !.at = "request"]
  <2>1. calls[c] # Nil /\ calls[c].at = "send" /\ calls[c] \in Call
    BY <1>3, <1>4 DEF Send
  <2>2. calls[c].result = NoAnswer
    BY <2>1 DEF PollInv, NoEarlyResult
  <2>3. /\ call \in Call /\ call.page = calls[c].page
        /\ call.at # "answer" => call.result = NoAnswer
    BY <2>1, <2>2 DEF Call, Stages
  <2>4. calls' = [calls EXCEPT ![c] = call] /\ UNCHANGED <<serverVars, pageVars>>
    BY <1>4 DEF Send
  <2> HIDE DEF call
  <2> QED BY <2>1, <2>3, <2>4, <1>1, CallMoves
<1>5. ASSUME NEW c \in Calls, SendRaises(c) PROVE PollInv'
  BY <1>5, DoneKeeps DEF SendRaises
<1>6. ASSUME NEW c \in Calls, Load(c) PROVE PollInv'
  <2>1. calls[c].result \in {Received, NotYet, Refused, NoAnswer}
    BY <1>3, <1>6 DEF Load, Call
  <2> QED BY <1>6, <2>1, DoneKeeps DEF Load
<1>7. ASSUME NEW c \in Calls, NetworkError(c) PROVE PollInv'
  BY <1>7, DoneKeeps DEF NetworkError
<1>8. ASSUME NEW c \in Calls, calls[c] # Nil,
             NEW result \in {Received, NotYet, Refused},
             Answer(c, result), UNCHANGED pageVars,
             ready' \subseteq Pages, expired' \subseteq Pages,
             awaits' \subseteq PopPages, granted' \subseteq PopPages
      PROVE  PollInv'
  <2> DEFINE call == [calls[c] EXCEPT !.at = "answer", !.result = result]
  <2>1. calls[c] \in Call
    BY <1>3, <1>8
  <2>2. call \in Call /\ call.page = calls[c].page /\ call.at = "answer"
    BY <2>1 DEF Call, Stages
  <2>3. calls' = [calls EXCEPT ![c] = call]
    BY <1>8 DEF Answer
  <2> HIDE DEF call
  <2> QED BY <1>8, <2>2, <2>3, CallMoves
<1>9. ASSUME NEW c \in Calls, ServePaymentPoll(c) PROVE PollInv'
  BY <1>1, <1>8, <1>9 DEF ServePaymentPoll
<1>10. ASSUME NEW c \in Calls, ServePopPoll(c) PROVE PollInv'
  <2>1. calls[c].page \in PopPages
    BY <1>1, <1>10 DEF ServePopPoll
  <2>2. /\ ready' \subseteq Pages /\ awaits' \subseteq PopPages
        /\ granted' \subseteq PopPages /\ expired' \subseteq Pages
    BY <1>1, <1>10, <2>1 DEF ServePopPoll
  <2> QED BY <1>8, <1>10, <2>2 DEF ServePopPoll
<1>11. ASSUME NEW c \in Calls, Refuse(c) PROVE PollInv'
  BY <1>1, <1>8, <1>11 DEF Refuse
<1>12. ASSUME NEW p \in Pages, BecomesReady(p) \/ Expire(p) \/ StopAwaiting(p)
       PROVE  PollInv'
  BY <1>1, <1>12, ServerKeeps DEF BecomesReady, Expire, StopAwaiting
<1>13. CASE UNCHANGED vars
  BY <1>1, <1>13, ServerKeeps DEF vars, pageVars
<1> QED BY <1>2, <1>4, <1>5, <1>6, <1>7, <1>9, <1>10, <1>11, <1>12, <1>13
        DEF Next, Serve

LEMMA PollCorrect == Spec => []PollInv
BY PollInit, PollStep, PTL DEF Spec

\* Everything is of its type.
THEOREM TypeCorrect == Spec => []TypeOK
<1>1. PollInv => TypeOK
  BY DEF PollInv
<1> QED BY <1>1, PollCorrect, PTL

\* However its calls end, a page has one poll under way or due at most, and
\* none after it has told the customer.
THEOREM OnePollCorrect == Spec => []OnePoll
<1>1. ASSUME PollInv PROVE OnePoll
  <2>1. ASSUME NEW p \in Pages
        PROVE Cardinality(CallsOf(p)) + timers[p] <= IF p \in told THEN 0 ELSE 1
    <3>1. PageOK(p)
      BY <1>1 DEF PollInv
    <3>2. Cardinality({}) = 0 /\ \A c \in Calls : Cardinality({c}) = 1
      BY FS_EmptySet, FS_Singleton
    <3> QED BY <3>1, <3>2 DEF PageOK
  <2> QED BY <2>1 DEF OnePoll
<1> QED BY <1>1, PollCorrect, PTL

\* However its calls end, a page that waits has a poll under way or due; only
\* the payment page falls silent, with its first failed poll.
THEOREM NeverSilentCorrect == Spec => []NeverSilent
<1>1. PollInv => NeverSilent
  BY DEF PollInv, PageOK, NeverSilent
<1> QED BY <1>1, PollCorrect, PTL

-----------------------------------------------------------------------------
(* What the PoP page learns of the access that it has brought.             *)

Carries(p) == \E c \in CallsOf(p) : calls[c].result = Received

LEMMA GrantInit == Init => GrantIsTold
BY DEF Init, GrantIsTold, CallsOf

\* A call of a page is its only one.
LEMMA OnlyCall ==
  ASSUME PollInv, NEW c \in Calls, calls[c] # Nil
  PROVE  /\ calls[c] \in Call
         /\ \A p \in Pages : p = calls[c].page => CallsOf(p) = {c} /\ p \notin told
<1>1. calls[c] \in Call
  BY DEF PollInv, TypeOK
<1>2. ASSUME NEW p \in Pages, p = calls[c].page
      PROVE  CallsOf(p) = {c} /\ p \notin told
  <2>1. c \in CallsOf(p)
    BY <1>2 DEF CallsOf
  <2> QED BY <2>1 DEF PollInv, PageOK
<1> QED BY <1>1, <1>2

\* A call gets its answer, and the page access with the good one.
LEMMA GrantAnswer ==
  ASSUME PollInv, GrantIsTold, NEW c \in Calls, calls[c] # Nil,
         NEW call \in Call, call.page = calls[c].page,
         calls' = [calls EXCEPT ![c] = call], UNCHANGED <<told, lost>>,
         call.page \in PopPages =>
           IF call.result = Received
             THEN granted' = granted \cup {call.page}
             ELSE granted' = granted /\ calls[c].result # Received,
         call.page \notin PopPages => granted' = granted
  PROVE  GrantIsTold'
<1> SUFFICES ASSUME NEW p \in PopPages
             PROVE  p \in granted' <=> p \in told' \cup lost' \/ Carries(p)'
  BY DEF GrantIsTold, Carries
<1>1. p \in granted <=> p \in told \cup lost \/ Carries(p)
  BY DEF GrantIsTold, Carries
<1>2. call # Nil /\ calls \in [Calls -> Call \cup {Nil}] /\ p \in Pages
  BY NilAssumption DEF PollInv, TypeOK, Pages
<1>3. CallsOf(p)' = CallsOf(p)
  BY <1>2 DEF CallsOf
<1>4. CASE p = calls[c].page
  <2>1. CallsOf(p) = {c}
    BY <1>2, <1>4, OnlyCall
  <2>2. Carries(p) <=> calls[c].result = Received
    BY <2>1 DEF Carries
  <2>3. Carries(p)' <=> call.result = Received
    BY <2>1, <1>2, <1>3 DEF Carries
  <2> QED BY <1>1, <1>4, <2>2, <2>3
<1>5. CASE p # calls[c].page
  <2>1. Carries(p)' <=> Carries(p)
    BY <1>2, <1>3, <1>5 DEF Carries, CallsOf
  <2>2. p \in granted' <=> p \in granted
    BY <1>5
  <2> QED BY <1>1, <2>1, <2>2
<1> QED BY <1>4, <1>5

\* A call is done: the page has its good answer, or it is lost.
LEMMA GrantDone ==
  ASSUME PollInv, GrantIsTold, NEW c \in Calls, calls[c] # Nil,
         NEW result \in {calls[c].result, NoAnswer, Raised}, Done(c, result)
  PROVE  GrantIsTold'
<1>1. calls[c].result \in {Received, NotYet, Refused, NoAnswer}
  BY OnlyCall DEF Call
<1>2. /\ calls' = [calls EXCEPT ![c] = Nil]
      /\ UNCHANGED serverVars
      /\ calls[c] \in Call
      /\ Tells(c, result) \/ PollsAgain(c, result) \/ FallsSilent(c, result)
      /\ lost' = IF ~IsSuccess(result.status) /\ calls[c].result = Received
                   THEN lost \cup {calls[c].page} ELSE lost
  BY <1>1, DoneCases DEF PollInv
<1> SUFFICES ASSUME NEW p \in PopPages
             PROVE  p \in granted' <=> p \in told' \cup lost' \/ Carries(p)'
  BY DEF GrantIsTold, Carries
<1>3. p \in granted <=> p \in told \cup lost \/ Carries(p)
  BY DEF GrantIsTold, Carries
<1>4. calls \in [Calls -> Call \cup {Nil}] /\ p \in Pages /\ granted' = granted
  BY <1>2 DEF PollInv, TypeOK, Pages, serverVars
<1>5. CallsOf(p)' = CallsOf(p) \ {c}
  BY <1>2, <1>4 DEF CallsOf
<1>6. CASE p = calls[c].page
  <2>1. CallsOf(p) = {c}
    BY <1>4, <1>6, OnlyCall
  <2>2. ~Carries(p)' /\ (Carries(p) <=> calls[c].result = Received)
    BY <2>1, <1>5 DEF Carries
  <2>3. told' = told \cup {p} \/ told' = told
    BY <1>2, <1>6 DEF Tells, PollsAgain, FallsSilent
  <2>4. CASE calls[c].result = Received
    <3>1. p \in told' \cup lost'
      <4>1. CASE result = Received
        <5>1. Tells(c, result)
          BY <1>2, <4>1 DEF PollsAgain, FallsSilent
        <5> QED BY <5>1, <1>6 DEF Tells
      <4>2. CASE result \in {NoAnswer, Raised}
        <5>1. ~IsSuccess(result.status)
          BY <4>2, Results
        <5> QED BY <5>1, <1>2, <1>6, <2>4
      <4> QED BY <2>4, <4>1, <4>2
    <3> QED BY <1>3, <1>4, <2>2, <2>4, <3>1
  <2>5. CASE calls[c].result # Received
    <3>1. told' = told /\ lost' = lost
      BY <1>2, <2>5, Results DEF Tells, PollsAgain, FallsSilent
    <3> QED BY <1>3, <1>4, <2>2, <2>5, <3>1
  <2> QED BY <2>4, <2>5
<1>7. CASE p # calls[c].page
  <2>1. Carries(p)' <=> Carries(p)
    BY <1>2, <1>4, <1>5, <1>7 DEF Carries, CallsOf
  <2>2. /\ p \in told' <=> p \in told
        /\ p \in lost' <=> p \in lost
    BY <1>2, <1>7 DEF Tells, PollsAgain, FallsSilent
  <2> QED BY <1>3, <1>4, <2>1, <2>2
<1> QED BY <1>6, <1>7

LEMMA GrantStep == PollInv /\ GrantIsTold /\ [Next]_vars => GrantIsTold'
<1> SUFFICES ASSUME PollInv, GrantIsTold, [Next]_vars PROVE GrantIsTold'
  OBVIOUS
<1> USE DEF serverVars, pageVars
<1>1. ASSUME NEW c \in Calls, calls[c] # Nil
      PROVE  /\ calls[c] \in Call
             /\ calls[c].at # "answer" => calls[c].result = NoAnswer
  BY <1>1, OnlyCall DEF PollInv, NoEarlyResult
<1>2. ASSUME NEW p \in Pages, NEW c \in Calls, PollPayment(p, c)
      PROVE  GrantIsTold'
  <2> SUFFICES ASSUME NEW q \in PopPages
               PROVE  q \in granted' <=> q \in told' \cup lost' \/ Carries(q)'
    BY DEF GrantIsTold, Carries
  <2>1. q \in granted <=> q \in told \cup lost \/ Carries(q)
    BY DEF GrantIsTold, Carries
  <2>2. /\ calls \in [Calls -> Call \cup {Nil}] /\ calls[c] = Nil
        /\ calls' = [calls EXCEPT ![c] =
                      [page |-> p, at |-> "send", result |-> NoAnswer]]
    BY <1>2 DEF PollInv, TypeOK, PollPayment
  <2>3. Carries(q)' <=> Carries(q)
    BY <2>2, Results DEF Carries, CallsOf
  <2> QED BY <1>2, <2>1, <2>3 DEF PollPayment
<1>3. ASSUME NEW c \in Calls, Send(c) PROVE GrantIsTold'
  <2> DEFINE call == [calls[c] EXCEPT !.at = "request"]
  <2>1. calls[c] # Nil /\ calls[c] \in Call /\ calls[c].result = NoAnswer
    BY <1>1, <1>3 DEF Send
  <2>2. call \in Call /\ call.page = calls[c].page /\ call.result = NoAnswer
    BY <2>1 DEF Call, Stages
  <2>3. calls' = [calls EXCEPT ![c] = call]
    BY <1>3 DEF Send
  <2> HIDE DEF call
  <2> QED BY <1>3, <2>1, <2>2, <2>3, Results, GrantAnswer DEF Send
<1>4. ASSUME NEW c \in Calls, SendRaises(c) \/ Load(c) \/ NetworkError(c)
      PROVE  GrantIsTold'
  BY <1>4, GrantDone DEF SendRaises, Load, NetworkError
<1>5. ASSUME NEW c \in Calls, calls[c] # Nil, calls[c].at = "request",
             NEW result \in {Received, NotYet, Refused},
             Answer(c, result), UNCHANGED pageVars,
             IF result = Received /\ calls[c].page \in PopPages
               THEN granted' = granted \cup {calls[c].page}
               ELSE granted' = granted
      PROVE  GrantIsTold'
  <2> DEFINE call == [calls[c] EXCEPT !.at = "answer", !.result = result]
  <2>1. calls[c] \in Call /\ calls[c].result = NoAnswer
    BY <1>1, <1>5
  <2>2. call \in Call /\ call.page = calls[c].page /\ call.result = result
    BY <2>1 DEF Call, Stages
  <2>3. calls' = [calls EXCEPT ![c] = call]
    BY <1>5 DEF Answer
  <2> HIDE DEF call
  <2> QED BY <1>5, <2>1, <2>2, <2>3, Results, GrantAnswer
<1>6. ASSUME NEW c \in Calls, ServePaymentPoll(c) PROVE GrantIsTold'
  <2>1. calls[c].page \notin PopPages
    BY <1>6, PageAssumption DEF ServePaymentPoll
  <2> QED BY <1>5, <1>6, <2>1 DEF ServePaymentPoll
<1>7. ASSUME NEW c \in Calls, ServePopPoll(c) PROVE GrantIsTold'
  <2>1. calls[c].page \in PopPages
    BY <1>7 DEF ServePopPoll, PollInv, TypeOK
  <2>2. CASE calls[c].page \in ready
    <3>1. granted' = granted \cup {calls[c].page} /\ Answer(c, Received)
      BY <1>7, <2>2 DEF ServePopPoll
    <3> QED BY <1>5, <1>7, <2>1, <3>1 DEF ServePopPoll
  <2>3. CASE calls[c].page \notin ready
    <3>1. granted' = granted /\ Answer(c, NotYet)
      BY <1>7, <2>3 DEF ServePopPoll
    <3> QED BY <1>5, <1>7, <2>1, <3>1, Results DEF ServePopPoll
  <2> QED BY <2>2, <2>3
<1>8. ASSUME NEW c \in Calls, Refuse(c) PROVE GrantIsTold'
  BY <1>5, <1>8, Results DEF Refuse
<1>9. CASE \/ \E p \in Pages : BecomesReady(p) \/ Expire(p) \/ StopAwaiting(p)
           \/ UNCHANGED vars
  BY <1>9 DEF BecomesReady, Expire, StopAwaiting, vars, GrantIsTold, CallsOf
<1> QED BY <1>2, <1>3, <1>4, <1>6, <1>7, <1>8, <1>9 DEF Next, Serve

\* Access is granted exactly to the sessions whose page has shown it, will
\* show it with the answer that is on its way, or has lost that one answer.
THEOREM GrantIsToldCorrect == Spec => []GrantIsTold
<1>1. Init => PollInv /\ GrantIsTold
  BY PollInit, GrantInit
<1>2. PollInv /\ GrantIsTold /\ [Next]_vars => (PollInv /\ GrantIsTold)'
  BY PollStep, GrantStep
<1> QED BY <1>1, <1>2, PTL DEF Spec
=============================================================================
