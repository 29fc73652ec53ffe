---------------------------- MODULE PaidServices ----------------------------
(***************************************************************************)
(* How long a paid service lasts.  storePayment dates an order when its    *)
(* payment is added and, two puts later, stores it in paidServices with    *)
(* the lifespan of its kind; storeVerifiedPop reads the cache entry,       *)
(* computes what is left of the lifespan, and puts the updated service     *)
(* back with that.  A page that polls within the hour turns the verified   *)
(* PoP into access, and PayMess shows the message spaces that are live.    *)
(*                                                                         *)
(* PopLogin lets every entry go at any moment; here a clock decides.  Who  *)
(* may prove what is PopLogin's subject and left out: a PoP is a request   *)
(* and the transaction that it proves.  Amounts are the subject of         *)
(* Payments: every transaction here pays enough.  Nor do orders expire,    *)
(* which can only keep transactions from being stored.                     *)
(***************************************************************************)
EXTENDS Integers, SequencesExt

CONSTANTS
  Workers,       \* threads that serve POSTs to /Pop/<requestId>
  Orders,        \* ServiceTypes that wait for payment, by their addresses
  PayMessOrders, \* those for a message space
  Txids,         \* transactions
  Order,         \* txid -> the order that it pays for
  Requests,      \* PopRequests
  ServiceTime,   \* order -> getServiceTime of what was ordered
  PopLife,       \* lifespan in verifiedPops
  MaxDelay,      \* bound: time that one call of storeVerifiedPop takes
  MaxTime,       \* bound: how long the clock runs
  MaxRestarts,   \* bound: how often the server crashes
  Nil

ASSUME ShopAssumption ==
  /\ PayMessOrders \subseteq Orders
  /\ Order \in [Txids -> Orders]
  /\ ServiceTime \in [Orders -> Nat \ {0}]
  /\ PopLife \in Nat /\ MaxDelay \in Nat /\ MaxTime \in Nat
  /\ MaxRestarts \in Nat
ASSUME NilAssumption ==
  /\ Nil \notin Int
  /\ Nil \notin Txids \cup Requests
  /\ Nil \notin [paidDate : 0 .. MaxTime, created : 0 .. MaxTime,
                lifespan : Int]
  /\ Nil \notin [tx : Txids, at : 0 .. MaxTime]

VARIABLES
  now,           \* System.currentTimeMillis
  restarts,      \* crashes so far
  pending,       \* keys of paymentRequests
  paidDate,      \* order -> paidDate of its object, Nil until it is paid
  storedDate,    \* the same in the file store behind paymentRequests
  wallet,        \* the wallet's thread in storePayment
  paidServices,  \* txid -> entry: created, lifespan, paidDate of its service
  verifiedPops,  \* request -> entry: the transaction proven, and when put
  post,          \* threads in storeVerifiedPop
  used,          \* requests that a PoP has used up
  granted,       \* request -> the access it earned, and when (history)
  firstPut,      \* txid -> when storePayment put it first (history)
  lastPut,       \* txid -> when it did so last (history)
  updates,       \* txid -> how often replace has put it back (history)
  overlapped,    \* txids written by another thread during an update (history)
  broken         \* orders that a crash caught half moved (history)

bounded     == <<now, restarts>>
orderVars   == <<pending, paidDate, storedDate, wallet, broken>>
serviceVars == <<paidServices, firstPut, lastPut, updates, overlapped>>
loginVars   == <<verifiedPops, post, used, granted>>
vars == <<bounded, orderVars, serviceVars, loginVars>>

Steps == {"idle", "entry", "lifespan", "replace", "putVerified"}
Idle  == [pc |-> "idle", request |-> Nil, tx |-> Nil, since |-> Nil,
          entry |-> Nil, newLifespan |-> Nil]    \* its local variables

WalletSteps == {"idle", "replace", "paidService", "remove"}
Asleep == [pc |-> "idle", tx |-> Nil]

Init ==
  /\ now = 0 /\ restarts = 0
  /\ pending = Orders
  /\ paidDate = [o \in Orders |-> Nil] /\ storedDate = paidDate
  /\ wallet = Asleep /\ broken = {}
  /\ paidServices = [tx \in Txids |-> Nil]
  /\ firstPut = [tx \in Txids |-> Nil] /\ lastPut = firstPut
  /\ updates = [tx \in Txids |-> 0] /\ overlapped = {}
  /\ verifiedPops = [n \in Requests |-> Nil]
  /\ post = [w \in Workers |-> Idle]
  /\ used = {}
  /\ granted = [n \in Requests |-> Nil]

-----------------------------------------------------------------------------
(* Infinispan.                                                             *)

\* A negative lifespan is none: the entry never expires.
Mortal(entry) == entry.lifespan >= 0
Deadline(entry) == entry.created + entry.lifespan

\* What get finds: the entry unless it has expired.
InCache(tx) ==
  /\ paidServices[tx] # Nil
  /\ Mortal(paidServices[tx]) => now <= Deadline(paidServices[tx])

-----------------------------------------------------------------------------
(* storePayment, on the wallet's thread.                                   *)

Updating(tx) ==
  {w \in Workers : post[w].tx = tx /\ post[w].pc \in {"lifespan", "replace"}}

\* addPayment dates the order unless it is paid for already.
AddPayment(tx) ==
  /\ wallet.pc = "idle"
  /\ Order[tx] \in pending
  /\ wallet' = [pc |-> "replace", tx |-> tx]
  /\ paidDate' = [paidDate EXCEPT ![Order[tx]] = IF @ = Nil THEN now ELSE @]
  /\ UNCHANGED <<bounded, pending, storedDate, broken, serviceVars, loginVars>>

\* The order is put back, with its date.
ReplaceRequest ==
  /\ wallet.pc = "replace"
  /\ storedDate' = [storedDate EXCEPT
                      ![Order[wallet.tx]] = paidDate[Order[wallet.tx]]]
  /\ wallet' = [wallet EXCEPT !.pc = "paidService"]
  /\ UNCHANGED <<bounded, pending, paidDate, broken, serviceVars, loginVars>>

\* The lifespan starts now, whatever the paidDate.
PutPaidService ==
  LET tx == wallet.tx IN
  /\ wallet.pc = "paidService"
  /\ paidServices' = [paidServices EXCEPT ![tx] =
       [paidDate |-> paidDate[Order[tx]], created |-> now,
        lifespan |-> ServiceTime[Order[tx]]]]
  /\ firstPut' = [firstPut EXCEPT ![tx] = IF @ = Nil THEN now ELSE @]
  /\ lastPut' = [lastPut EXCEPT ![tx] = now]
  /\ overlapped' = IF Updating(tx) = {} THEN overlapped
                                        ELSE overlapped \cup {tx}
  /\ wallet' = [wallet EXCEPT !.pc = "remove"]
  /\ UNCHANGED <<bounded, pending, paidDate, storedDate, broken, updates,
                 loginVars>>

RemoveRequest ==
  /\ wallet.pc = "remove"
  /\ pending' = pending \ {Order[wallet.tx]}
  /\ wallet' = Asleep
  /\ UNCHANGED <<bounded, paidDate, storedDate, broken, serviceVars,
                 loginVars>>

-----------------------------------------------------------------------------
(* storeVerifiedPop and the poll.                                          *)

\* validatePop finds the paid service, and storeVerifiedPop takes the request.
AcceptPop(w, n, tx) ==
  /\ post[w].pc = "idle"
  /\ n \notin used
  /\ InCache(tx)
  /\ used' = used \cup {n}
  /\ post' = [post EXCEPT ![w] = [Idle EXCEPT !.pc = "entry", !.request = n,
                                              !.tx = tx, !.since = now]]
  /\ UNCHANGED <<bounded, orderVars, serviceVars, verifiedPops, granted>>

\* Slip: an entry that is gone is taken for one.
GetAnyEntry(w) ==
  /\ post[w].pc = "entry"
  /\ post' = [post EXCEPT ![w].pc = "lifespan",
       ![w].entry = IF InCache(post[w].tx) THEN paidServices[post[w].tx]
                                           ELSE Nil]
  /\ UNCHANGED <<bounded, orderVars, serviceVars, verifiedPops, used, granted>>

\* getCacheEntry returns a copy of the entry: lifespan and creation date.
GetCacheEntry(w) ==
  LET tx == post[w].tx IN
  /\ post[w].pc = "entry"
  /\ InCache(tx)
  /\ Mortal(paidServices[tx])
  /\ post' = [post EXCEPT ![w].pc = "lifespan", ![w].entry = paidServices[tx]]
  /\ overlapped' = IF Updating(tx) = {} THEN overlapped
                                        ELSE overlapped \cup {tx}
  /\ UNCHANGED <<bounded, orderVars, paidServices, firstPut, lastPut, updates,
                 verifiedPops, used, granted>>

\* null.getLifespan(), or the cast to MortalCacheEntry: the request is lost.
FailCacheEntry(w) ==
  /\ post[w].pc = "entry"
  /\ ~InCache(post[w].tx) \/ ~Mortal(paidServices[post[w].tx])
  /\ post' = [post EXCEPT ![w] = Idle]
  /\ UNCHANGED <<bounded, orderVars, serviceVars, verifiedPops, used, granted>>

\* Slip: the time since the payment, not since the entry was created.
RestSincePaid(entry) == entry.lifespan - (now - entry.paidDate)

RestOfLifespan(entry) == entry.lifespan - (now - entry.created)

ComputeLifespan(w) ==
  /\ post[w].pc = "lifespan"
  /\ post' = [post EXCEPT ![w].pc = "replace",
                          ![w].newLifespan = RestOfLifespan(post[w].entry),
                          ![w].entry = Nil]
  /\ UNCHANGED <<bounded, orderVars, serviceVars, verifiedPops, used, granted>>

\* Slip: put, which brings an expired entry back.
PutBack(w) ==
  /\ post[w].pc = "replace"
  /\ post' = [post EXCEPT ![w].pc = "putVerified", ![w].newLifespan = Nil]
  /\ paidServices' = [paidServices EXCEPT ![post[w].tx].created = now,
                        ![post[w].tx].lifespan = post[w].newLifespan]
  /\ updates' = [updates EXCEPT ![post[w].tx] = @ + 1]
  /\ UNCHANGED <<bounded, orderVars, firstPut, lastPut, overlapped,
                 verifiedPops, used, granted>>

\* replace does nothing if the entry is gone; else the entry starts anew.
Replace(w) ==
  LET tx == post[w].tx IN
  /\ post[w].pc = "replace"
  /\ post' = [post EXCEPT ![w].pc = "putVerified", ![w].newLifespan = Nil]
  /\ IF InCache(tx)
       THEN /\ paidServices' = [paidServices EXCEPT
                 ![tx].created = now, ![tx].lifespan = post[w].newLifespan]
            /\ updates' = [updates EXCEPT ![tx] = @ + 1]
       ELSE UNCHANGED <<paidServices, updates>>
  /\ UNCHANGED <<bounded, orderVars, firstPut, lastPut, overlapped,
                 verifiedPops, used, granted>>

PutVerifiedPop(w) ==
  /\ post[w].pc = "putVerified"
  /\ verifiedPops' = [verifiedPops EXCEPT
                        ![post[w].request] = [tx |-> post[w].tx, at |-> now]]
  /\ post' = [post EXCEPT ![w] = Idle]
  /\ UNCHANGED <<bounded, orderVars, serviceVars, used, granted>>

\* Slip: a verified PoP does not expire.
PollAnyTime(n) ==
  /\ verifiedPops[n] # Nil
  /\ granted' = [granted EXCEPT ![n] = [tx |-> verifiedPops[n].tx, at |-> now]]
  /\ verifiedPops' = [verifiedPops EXCEPT ![n] = Nil]
  /\ UNCHANGED <<bounded, orderVars, serviceVars, post, used>>

\* PopPoll.doGet finds the verified PoP and authorizes the session.
PopPoll(n) ==
  /\ verifiedPops[n] # Nil
  /\ now <= verifiedPops[n].at + PopLife
  /\ granted' = [granted EXCEPT ![n] = [tx |-> verifiedPops[n].tx, at |-> now]]
  /\ verifiedPops' = [verifiedPops EXCEPT ![n] = Nil]
  /\ UNCHANGED <<bounded, orderVars, serviceVars, post, used>>

-----------------------------------------------------------------------------

\* A crash: threads are gone, entries come back from the file stores with
\* their creation date, orders with the date that was stored.  An order whose
\* transaction was stored, or about to be, still waits: the next payment to
\* it, or the same one if the wallet comes to see it again, is stored anew.
Restart ==
  /\ restarts < MaxRestarts
  /\ restarts' = restarts + 1
  /\ post' = [w \in Workers |-> Idle]
  /\ wallet' = Asleep
  /\ paidDate' = storedDate
  /\ broken' = IF wallet.pc \in {"paidService", "remove"}
                 THEN broken \cup {Order[wallet.tx]} ELSE broken
  /\ UNCHANGED <<now, pending, storedDate, serviceVars, verifiedPops, used,
                 granted>>

Tick ==
  /\ now < MaxTime
  /\ \A w \in Workers : post[w] # Idle => now < post[w].since + MaxDelay
  /\ now' = now + 1
  /\ UNCHANGED <<restarts, orderVars, serviceVars, loginVars>>

Next ==
  \/ \E tx \in Txids : AddPayment(tx)
  \/ ReplaceRequest \/ PutPaidService \/ RemoveRequest
  \/ \E w \in Workers, n \in Requests, tx \in Txids : AcceptPop(w, n, tx)
  \/ \E w \in Workers :
       \/ GetCacheEntry(w)   \/ FailCacheEntry(w)
       \/ ComputeLifespan(w) \/ Replace(w) \/ PutVerifiedPop(w)
  \/ \E n \in Requests : PopPoll(n)
  \/ Restart
  \/ Tick

Spec == Init /\ [][Next]_vars

-----------------------------------------------------------------------------
(* The board of message spaces.                                            *)

\* getAllPaidServicesOfId(2): one entry for each transaction, so a space that
\* was ordered twice appears twice.
PaidSpaces == {tx \in Txids : Order[tx] \in PayMessOrders /\ InCache(tx)}

\* Slip: the space that was stored last comes first.
StoredFirst(t, u) == paidServices[t].created >= paidServices[u].created

\* The comparator of PayMess.getMessageSpaces, false when it wants u before t.
\* A paid service has a paidDate.
ComesFirst(t, u) == paidServices[t].paidDate >= paidServices[u].paidDate

\* Collections.sort leaves no two in an order that the comparator denies.
MessageSpaces ==
  CHOOSE board \in SetToSeqs(PaidSpaces) :
    \A i, j \in DOMAIN board : i < j => ComesFirst(board[i], board[j])

-----------------------------------------------------------------------------

Entry == [paidDate : 0 .. MaxTime, created : 0 .. MaxTime, lifespan : Int]
Proof == [tx : Txids, at : 0 .. MaxTime]
Date  == 0 .. MaxTime \cup {Nil}

\* Every cache and thread holds data of its type.
TypeOK ==
  /\ now \in 0 .. MaxTime /\ restarts \in 0 .. MaxRestarts
  /\ pending \subseteq Orders /\ broken \subseteq Orders
  /\ paidDate \in [Orders -> Date] /\ storedDate \in [Orders -> Date]
  /\ wallet.pc \in WalletSteps
  /\ wallet.pc # "idle" => wallet.tx \in Txids
  /\ \A tx \in Txids : paidServices[tx] # Nil => paidServices[tx] \in Entry
  /\ firstPut \in [Txids -> Date] /\ lastPut \in [Txids -> Date]
  /\ verifiedPops \in [Requests -> Proof \cup {Nil}]
  /\ granted \in [Requests -> Proof \cup {Nil}]
  /\ used \subseteq Requests /\ overlapped \subseteq Txids
  /\ updates \in [Txids -> Nat]
  /\ \A w \in Workers :
       /\ post[w].pc \in Steps
       /\ post[w].pc # "idle" =>
            post[w].tx \in Txids /\ post[w].request \in used
       /\ post[w].pc = "lifespan" => post[w].entry \in Entry
       /\ post[w].pc = "replace" => post[w].newLifespan \in Int

\* A service ends on time, counted from when storePayment put it last.  Each
\* update may prolong it by the time that the update itself takes between
\* reading the clock and replace, no more; and it becomes endless only if
\* somebody else writes it during the update: of two threads that update it at
\* once, one reads the entry just before the deadline and the clock just
\* after, while the other one prolongs it.  (Not counted from paidDate: after
\* a crash between the puts of storePayment the date stays, and the next
\* payment to the order starts a whole service time.)
EndsInTime ==
  \A tx \in Txids :
    LET entry == paidServices[tx] IN
    entry # Nil =>
      IF Mortal(entry)
        THEN Deadline(entry) <= lastPut[tx] + ServiceTime[Order[tx]]
                                + MaxDelay * updates[tx]
        ELSE tx \in overlapped

\* No sequence or race of updates, nor a crash, nor a second put of the same
\* transaction ends a service before its time, counted from its first put.
NotCutShort ==
  \A tx \in Txids :
    /\ firstPut[tx] # Nil
    /\ now <= firstPut[tx] + ServiceTime[Order[tx]]
    => InCache(tx)

\* The last moment at which a service is turned into the access of a session:
\* its time, the lifespan of a verified PoP, and what the threads took.  (How
\* long the session then keeps the access is not limited at all.)
GrantedInTime ==
  \A n \in Requests :
    granted[n] # Nil /\ granted[n].tx \notin overlapped =>
      LET tx == granted[n].tx IN
      granted[n].at <= lastPut[tx] + ServiceTime[Order[tx]] + PopLife
                       + MaxDelay * (updates[tx] + 1)

\* No update of a space, nor a crash, moves it up on the board: of two spaces
\* the one that was stored first comes last, unless both were paid in the same
\* moment, or a crash caught the order of the other one half moved, so that it
\* was stored again with the date of an earlier payment.
UpdatesMoveNoSpace ==
  \A i, j \in DOMAIN MessageSpaces :
    LET t == MessageSpaces[i]
        u == MessageSpaces[j]
    IN  i < j /\ firstPut[t] < firstPut[u] =>
          \/ paidServices[t].paidDate = paidServices[u].paidDate
          \/ Order[u] \in broken
=============================================================================
