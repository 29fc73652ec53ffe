---------------------------- MODULE PagePolling ----------------------------
(***************************************************************************)
(* The scripts of the two waiting pages, requestPayment.jsp and            *)
(* popRequest.jsp.  Both poll with $.ajax, and with setTimeout poll again  *)
(* 500 ms after an answer that tells them to wait.  Only popRequest.jsp    *)
(* has an error handler, and it retries.                                   *)
(*                                                                         *)
(* A browser runs one event at a time to its end: what jQuery does between *)
(* an event of the XMLHttpRequest and the handler of the page is one step. *)
(* Between the events requests and answers travel and may be lost.  No     *)
(* timeout is set, so a call ends when the browser reports its end.        *)
(***************************************************************************)
EXTENDS Integers, FiniteSets

CONSTANTS
  PaymentPages,  \* open pages of requestPayment.jsp
  PopPages,      \* open pages of popRequest.jsp
  Calls,         \* bound: the calls of $.ajax that are under way at once
  Nil

Pages == PaymentPages \cup PopPages

ASSUME PageAssumption == PaymentPages \cap PopPages = {}

VARIABLES
  ready,    \* pages for which the server has what they wait for
  awaits,   \* PoP pages that their session waits for
  granted,  \* PoP pages whose session has been granted access
  calls,    \* call of $.ajax -> its page, its stage and what has come back
  timers,   \* page -> number of pending setTimeout(pollPayment, 500)
  told,     \* pages that show "Payment received." or "Pop received."
  failed,   \* pages of which a poll has failed (history)
  lost,     \* pages that a good answer did not reach (history)
  expired   \* pages whose good answer the server dropped (history)

serverVars == <<ready, awaits, granted, expired>>
pageVars   == <<timers, told, failed, lost>>
vars == <<serverVars, calls, pageVars>>

\* What a call ends with.  jQuery passes status 0 for a network error and -1
\* for an exception in send.
Received == [status |-> 200, data |-> "received"]
NotYet   == [status |-> 200, data |-> "notYet"]
Refused  == [status |-> 500, data |-> "errorPage"]
NoAnswer == [status |-> 0,   data |-> "none"]
Raised   == [status |-> -1,  data |-> "none"]

Stages == {"send", "request", "answer"}
Call == [page : Pages, at : Stages, result : {Received, NotYet, Refused, NoAnswer}]

ASSUME NilAssumption == Nil \notin Call

Init ==
  /\ ready = {} /\ granted = {} /\ expired = {}
  /\ awaits = PopPages
  /\ calls = [c \in Calls |-> Nil]
  /\ timers = [p \in Pages |-> 1]   \* the script ends with pollPayment()
  /\ told = {} /\ failed = {} /\ lost = {}

-----------------------------------------------------------------------------
(* The handlers of the pages.                                              *)

SetTimeout(p) == timers' = [timers EXCEPT ![p] = @ + 1]

\* success of both pages
Success(p, data) ==
  \/ data = "received" /\ told' = told \cup {p} /\ UNCHANGED timers
  \/ data # "received" /\ SetTimeout(p) /\ UNCHANGED told

\* Slip: popRequest.jsp has no error handler either.
ErrorIgnored(p) == UNCHANGED timers

\* Slip: popRequest.jsp retries once.
RetryOnce(p) ==
  \/ p \in PopPages \ failed /\ SetTimeout(p)
  \/ p \in PaymentPages \cup failed /\ UNCHANGED timers

\* error of popRequest.jsp; requestPayment.jsp has none.
Error(p) ==
  \/ p \in PopPages /\ SetTimeout(p)
  \/ p \in PaymentPages /\ UNCHANGED timers

-----------------------------------------------------------------------------
(* jQuery.                                                                 *)

\* Slip: status 0 passes for success, as the file protocol has it.
SuccessOrFile(status) == status \in 200 .. 299 \/ status \in {0, 304}

IsSuccess(status) == status \in 200 .. 299 \/ status = 304

\* Slip: the error handler is run after success as well.
DoneBoth(c, result) ==
  LET p == calls[c].page IN
  /\ calls' = [calls EXCEPT ![c] = Nil]
  /\ told' = IF result.data = "received" THEN told \cup {p} ELSE told
  /\ timers' = [timers EXCEPT ![p] = @ +
                  (IF result.data # "received" THEN 1 ELSE 0) +
                  (IF p \in PopPages THEN 1 ELSE 0)]
  /\ UNCHANGED <<serverVars, failed, lost>>

\* done: the call is over; resolving its deferred runs the page's success,
\* rejecting it the page's error, and the other one never runs.
Done(c, result) ==
  LET p == calls[c].page IN
  /\ calls' = [calls EXCEPT ![c] = Nil]
  /\ \/ /\ IsSuccess(result.status)
        /\ Success(p, result.data)
        /\ UNCHANGED <<failed, lost>>
     \/ /\ ~IsSuccess(result.status)
        /\ Error(p)
        /\ failed' = failed \cup {p}
        /\ lost' = IF calls[c].result = Received THEN lost \cup {p} ELSE lost
        /\ UNCHANGED told
  /\ UNCHANGED serverVars

\* Slip: pollPayment is run without a timer.
PollAnyTime(p, c) ==
  /\ calls[c] = Nil
  /\ timers' = [timers EXCEPT ![p] = @ - 1]
  /\ calls' = [calls EXCEPT ![c] = [page |-> p, at |-> "send", result |-> NoAnswer]]
  /\ UNCHANGED <<serverVars, told, failed, lost>>

\* A timer fires: pollPayment calls $.ajax, which creates the call ...
PollPayment(p, c) ==
  /\ timers[p] > 0
  /\ calls[c] = Nil
  /\ timers' = [timers EXCEPT ![p] = @ - 1]
  /\ calls' = [calls EXCEPT ![c] = [page |-> p, at |-> "send", result |-> NoAnswer]]
  /\ UNCHANGED <<serverVars, told, failed, lost>>

\* ... and sends the request.
Send(c) ==
  /\ calls[c] # Nil /\ calls[c].at = "send"
  /\ calls' = [calls EXCEPT ![c].at = "request"]
  /\ UNCHANGED <<serverVars, pageVars>>

\* send raises an exception; when the browser has reported an error before,
\* the exception is swallowed, so either way the call is done once.
SendRaises(c) ==
  /\ calls[c] # Nil /\ calls[c].at = "send"
  /\ Done(c, Raised)

\* The browser reports an answer (onload): done gets its status and text.
Load(c) ==
  /\ calls[c] # Nil /\ calls[c].at = "answer"
  /\ Done(c, calls[c].result)

\* The browser gives up (onerror), before or after the server has answered.
NetworkError(c) ==
  /\ calls[c] # Nil /\ calls[c].at \in {"request", "answer"}
  /\ Done(c, NoAnswer)

-----------------------------------------------------------------------------
(* The server, as far as the pages see it: Payments and PopLogin have the  *)
(* steps that one poll takes in a servlet.                                 *)

Answer(c, result) ==
  calls' = [calls EXCEPT ![c].at = "answer", ![c].result = result]

\* PaymentPoll.doGet leaves the entry of paidToAddresses where it is.
ServePaymentPoll(c) ==
  /\ calls[c] # Nil /\ calls[c].at = "request"
  /\ calls[c].page \in PaymentPages
  /\ Answer(c, IF calls[c].page \in ready THEN Received ELSE NotYet)
  /\ UNCHANGED <<serverVars, pageVars>>

\* PopPoll.doGet takes the verified PoP; the session stops waiting and is
\* granted access.
ServePopPoll(c) ==
  /\ calls[c] # Nil /\ calls[c].at = "request"
  /\ calls[c].page \in awaits
  /\ Answer(c, IF calls[c].page \in ready THEN Received ELSE NotYet)
  /\ granted' = granted \cup (ready \cap {calls[c].page})
  /\ awaits' = awaits \ (ready \cap {calls[c].page})
  /\ ready' = ready \ {calls[c].page}
  /\ UNCHANGED <<expired, pageVars>>

\* checkSessionPopRequestId fails, or the server cannot answer as it should:
\* the page gets the container's error page.
Refuse(c) ==
  /\ calls[c] # Nil /\ calls[c].at = "request"
  /\ Answer(c, Refused)
  /\ UNCHANGED <<serverVars, pageVars>>

\* storePayment puts the address into paidToAddresses, or storeVerifiedPop
\* the request id into verifiedPops.
BecomesReady(p) ==
  /\ p \notin ready \cup granted \cup expired
  /\ ready' = ready \cup {p}
  /\ UNCHANGED <<awaits, granted, expired, calls, pageVars>>

\* The entry expires, after 5 minutes in paidToAddresses.
Expire(p) ==
  /\ p \in ready
  /\ ready' = ready \ {p}
  /\ expired' = expired \cup {p}
  /\ UNCHANGED <<awaits, granted, calls, pageVars>>

\* The session ends or comes to wait for another PopRequest.
StopAwaiting(p) ==
  /\ p \in awaits
  /\ awaits' = awaits \ {p}
  /\ UNCHANGED <<ready, granted, expired, calls, pageVars>>

Serve(c) == ServePaymentPoll(c) \/ ServePopPoll(c)

CallsOf(p) == {c \in Calls : calls[c] # Nil /\ calls[c].page = p}

Next ==
  \/ \E p \in Pages, c \in Calls : PollPayment(p, c)
  \/ \E c \in Calls : \/ Send(c) \/ SendRaises(c) \/ Load(c) \/ NetworkError(c)
                      \/ Serve(c) \/ Refuse(c)
  \/ \E p \in Pages : BecomesReady(p) \/ Expire(p) \/ StopAwaiting(p)

Spec == Init /\ [][Next]_vars

\* A timer that is set fires; a call that is under way ends, whatever with.
\* Of a page that keeps polling, not every poll fails before it is served.
Fairness ==
  /\ \A p \in Pages :
       /\ WF_vars(\E c \in Calls : PollPayment(p, c))
       /\ SF_vars(\E c \in CallsOf(p) : Send(c))
       /\ SF_vars(\E c \in CallsOf(p) : Serve(c))
  /\ \A c \in Calls :
       /\ WF_vars(Send(c) \/ SendRaises(c))
       /\ WF_vars(Load(c) \/ NetworkError(c))

LiveSpec == Spec /\ Fairness

-----------------------------------------------------------------------------

\* Everything is of its type, and only what was shown as such is told.
TypeOK ==
  /\ ready \subseteq Pages /\ told \subseteq Pages
  /\ {failed, lost, expired} \subseteq SUBSET Pages
  /\ awaits \subseteq PopPages /\ granted \subseteq PopPages
  /\ calls \in [Calls -> Call \cup {Nil}]
  /\ timers \in [Pages -> Nat]

\* A page has never two polls under way or due, whatever sequence of answers,
\* refusals, network errors and exceptions its calls have ended with; and once
\* it has told the customer, none.
OnePoll ==
  \A p \in Pages :
    Cardinality(CallsOf(p)) + timers[p] <= IF p \in told THEN 0 ELSE 1

\* A page that waits always has a poll under way or due, so it cannot fall
\* silent, but for a payment page of which one poll has failed.
NeverSilent ==
  \A p \in Pages \ told :
    \/ CallsOf(p) # {} \/ timers[p] > 0
    \/ p \in PaymentPages /\ p \in failed

\* PopPoll gives the good answer once, and only to a page that gets access
\* with it.  A session that was granted access learns it from the page, unless
\* just that answer is lost: then the page says "Retrying..." for ever.
GrantIsTold ==
  \A p \in PopPages :
    p \in granted <=>
      \/ p \in told \cup lost
      \/ \E c \in CallsOf(p) : calls[c].result = Received

\* What the server has ready is told in the end, although polls fail, unless
\* the entry expires first, a poll of the payment page has failed, the answer
\* to the PoP page is lost, or its session has stopped waiting for it.
ReadyIsTold ==
  \A p \in Pages :
    p \in ready ~> \/ p \in told \cup expired \cup lost
                   \/ p \in PaymentPages /\ p \in failed
                   \/ p \in PopPages \ (awaits \cup granted)
=============================================================================
