# poppoc in TLA+

poppoc is a small Java web shop that sells two services for bitcoin and lets a
customer log in, or edit what was bought, with a *Proof of Payment* (PoP): a
signed document by which a wallet proves that it made a certain transaction.
This directory holds TLA+ models of it, the configurations with which TLC checks
them, and proofs checked by TLAPS.

## 1. The system

Paths are relative to `src/src/main/java/se/rosenbaum/poppoc/`.

| Component | State | Operations | Talks to |
|---|---|---|---|
| `core/Storage` | six Infinispan caches (`paymentRequests`, `paidServices`, `paidToAddresses`, `popRequests`, `verifiedPops`, `maxUniqueLong`), each behind a file store, and the counter `id` | steps 1 to 8 of its javadoc, `getUniqueLong`, `getAllPaidServicesOfId`, `contextInitialized` | called by all servlets and by the wallet's thread; no lock, no transaction |
| `core/StorageBitcoinjWallet` | the bitcoinj wallet, its listener | `onCoinsReceived`, `getNewReceiveAddress`, `sendFunds` | `storePayment` |
| `servlet/RequestPayment`, `PaymentPoll` | none | order a service at a fresh address; ask whether it is paid | `Storage` steps 1, 3; the page polls every 500 ms |
| `servlet/PopRequestServlet` (`AuthenticateToService`, `UpdateMessageSpace`) | session attribute: the request id waited for | make a PoP request for a service | `Storage` step 5 |
| `servlet/PopServlet` | none | receive a PoP from a wallet, validate it, store it | `Storage` steps 4, 6, 7; bitcoind by JSON-RPC |
| `servlet/PopPoll`, `Service`, `Logout` | session attributes: request id, one authorization per service | turn a verified PoP into access; use it; drop it | `Storage` step 8; the page polls every 500 ms |
| `servlet/paymess/*` | none | create a message space, show all, update one | `getUniqueLong`, `getAllPaidServicesOfId`, `PopRequestServlet` |
| `service/*` | `paidSatoshis`, message space | `isPaidFor`, `addPayment`, `isSameServiceType`, `update` | objects in the caches |
| `Config`, `ErrorHandler`, `GenerateQRCode`, `GeneratePopRequest`, `BitcoinRPCTransactionStore`, pages | constants | startup, logging, output, one RPC call | |

A sale is: `RequestPayment` stores an order under a fresh address; the wallet
credits what arrives there and, at the price, `storePayment` moves the order to
`paidServices` under the txid; the page is told. A login is: `createPopRequest`
stores a request with a nonce under a short id, and puts the id in the session;
a wallet POSTs a PoP to `/Pop/<id>`; `PopServlet` validates it against request
and payment, and `storeVerifiedPop` moves the request to `verifiedPops`,
updating the paid service on the way; the page's next poll removes it from there
and authorizes the session.

What makes this hard: every servlet request has a thread of its own, so several
PoPs for one request, several polls and tabs of one session interleave between
single cache operations; request ids are short integers that start over after a
restart, while wallets and sessions remember old ones; moves between caches take
two or three operations with a possible crash after each; objects in a cache are
changed in place and put back later; entries expire at any moment; and a
transaction may pay for several orders, in parts, or arrive again.

What makes it correct: a request earns at most one access, for the session and
the service that asked, after a payment for that very service; no live id is
reused; a paid service stays the one that was paid for; nothing is sold under
its price; no order, partial payment or update is lost or forgotten between two
steps; what is accepted is granted, and what is paid is delivered, in the end;
ids of message spaces are unique.

## 2. The modules

| Module | Models |
|---|---|
| `Services` | the service types: `isSameServiceType`, `update` |
| `PopLogin` | logging in: `PopRequestServlet`, `PopServlet`, `PopPoll`, `Logout`, `Storage` steps 4 to 8, expiry and restarts |
| `PopLoginProperties` | what should hold of it |
| `LoginTickets` | the abstract specification: a ticket is taken out, claimed, proven, and exchanged for access once |
| `PopLoginTickets` | the refinement mapping from `PopLogin` to `LoginTickets` |
| `Payments`, `PaymentProperties` | ordering and paying: `RequestPayment`, `PaymentPoll`, the wallet's thread, `storePayment`, `start` and `sendFunds`, expiry and crashes |
| `Orders` | the abstract specification of a sale: an order is placed, waits, and is delivered or dropped for good; `PaymentProperties` has the refinement mapping |
| `PaidServices` | the lifespan of what was paid: a clock, `getServiceTime`, the steps by which `storeVerifiedPop` puts a service back, and the board of message spaces |
| `MessageSpaces` | `getUniqueLong`, `NewMessageSpace`, `RequestPayment` with the id in the URL |
| `PagePolling` | the scripts of `requestPayment.jsp` and `popRequest.jsp`, and the part of jQuery under them |
| `Poppoc` | `Payments` and `PopLogin` composed over one `paidServices` and one process |
| `MC...` | constants for TLC |
| `PopLoginInvariant`, `PopLoginProofs`, `PopLoginTicketProofs`, `PaymentProofs`, `PaidServiceProofs`, `MessageSpaceProofs`, `PagePollingProofs`, `PoppocProofs` | invariants and theorems |
| `FiniteProofs` | lemmas about finite sets, sorting and sums |

### PopLogin

One action is one step between two points at which another thread can interfere,
in practice one cache operation with the local computation around it. `post[w]`
is what thread *w* holds in `PopServlet.doPost` and `storeVerifiedPop`:

    ReceivePop -> AcceptPop -> ClaimRequest -> UpdateService -> ReplacePaidService -> PutVerifiedPop
                  RejectPop    |               FailUpdate
                               CheckVerified -> CheckInvalidated -> FailNullRequest

`poll[n]` is the poll of the page of request *n* in `PopPoll.doGet`: `StartPoll`
(the session check), `TakeVerifiedPop`, `GrantAccess`. `StoreRequest` and
`AnswerBrowser` are the two halves of `createPopRequest`. `StorePayment` is the
one point where paying shows: the last put of `storePayment`. `paid` remembers
which transactions have paid, also after their service has expired.

Abstractions:

- A PopRequest is named by its nonce; six random bytes are taken as unique. The
  code makes requests without a txid only, so that check never fires.
- The PoP of a wallet is the nonce and the transaction that it carries; its
  signatures (`PopValidator`, a library) are assumed valid. `RejectPop` is
  possible for every PoP: bitcoind may not answer and the reply may fail.
- `paidServices` is the object in memory, `stored` the one in the file store: an
  update in place reaches `stored` with `replace` only.
- The authorization in a session is a `Date` that the code never compares; the
  model keeps the request that earned it, as history, and likewise the request
  behind a verified PoP.
- Every entry may expire at any moment, which covers lifespans and evictions of
  a full file store. `PaidServices` has the clock.
- `Crash` is a process that dies: threads and sessions are gone. `Redeploy` is
  an orderly stop: requests are finished, and sessions come back, as servlet
  containers do by default. Both reload the caches from their stores and
  set `id` one beyond the largest id still in `popRequests` or `verifiedPops`.

### Payments

The wallet calls `onCoinsReceived` on one thread, so `thread` is one record. An
order is its address, which is fresh for each. The listener goes through the list of
a transaction's outputs, in any order here, and credits each one that is the wallet's
with the value of the whole transaction (`ValueSentToMe`): two
outputs to one order are credited twice. `Outputs` says how many outputs a transaction
has to each address, `Counted` what the listener makes of the transactions that were
sent, and `Received` what they really sent. `paidSatoshis` and `storedSatoshis` are
again the object and its stored copy.

`onCoinsReceived` and `start` end with `sendFunds`: if an address is configured and the
confirmed balance is 10 mBTC or more, all of it is sent, unless `sendCoins` throws.
`Confirm` is a block. The comment at `context.xml:26-27` (parameter `sendFundsTo`) says
"On every payment to the server's wallet, empty the wallet and send to this address. If
not set, it will keep the funds on the server wallet"; what is not confirmed yet, the
payment at hand included, or less than 10 mBTC waits for a later payment or start
(`FundsMove` states what does happen).

The server is `down`, `starting` (the listener is attached, `sendFunds` is still
to run) or `up`, and only then do servlets run. The wallet is connected before
the listener is attached, so a payment that comes in between has no event and is
never credited. `Crash` loses queued events; the wallet's file may lag, and up to
`MaxLost` of its transactions then arrive `again`, and are credited twice.

`ImplementsOrders` maps all this to `Orders`: an order `Waits` while it is in
`paymentRequests` or in the hands of the thread, between the credit and the put into
`paidServices`, whatever expires meanwhile. It is delivered when it is on record, which
takes payments that are `Counted` for its price, and dropped when neither holds.
`Orders` has no crash and no cache: a crash is a drop, or nothing.

### PaidServices

Time is a counter. An Infinispan entry is its creation time, its lifespan and the
`paidDate` of its service; a negative lifespan is none. The wallet's thread goes through
`storePayment` with a crash possible after each step: `AddPayment` dates the order,
unless it has a date; `ReplaceRequest` stores it with its date; `PutPaidService` starts
the lifespan, whatever the date; `RemoveRequest` takes the order away. So after a crash
before the last step the order still waits, under its old date, and its next payment
starts a whole lifespan (`broken` has these orders). `firstPut` and `lastPut` remember
when `storePayment` put a service, and are what the properties count from.
`storeVerifiedPop` copies the entry (`GetCacheEntry`), computes what is left of the
lifespan (`ComputeLifespan`) and replaces the entry, which restarts its age (`Replace`).
No call takes longer than `MaxDelay`. What this shows of `Storage.java:123-129`, where
the comment says "preserving metadata, ie lifespan":

- each update prolongs the service by the time between lines 125 and 129;
- two updates at once, near the deadline, can leave an entry without a lifespan:
  the second computes a negative rest after the first has put the entry back. So
  can an update during which `storePayment` puts the service anew.
  Such a service never expires, and every later PoP for it fails at line 124,
  where the entry is cast to one that expires (`FailCacheEntry`).

So the comment does not hold to the letter: the lifespan is preserved up to the
running time of the call. `EndsInTime` says that nothing else happens; `overlapped` has
the services of the second case. The board is `MessageSpaces`: what
`Collections.sort` promises, some order of the live entries that agrees with
`ComesFirst`, the comparator of `PayMess.java`. It has an entry for each transaction, so
a space that was ordered twice appears twice. The comparator looks at `paidDate` only;
`UpdatesMoveNoSpace` relates the board to when the spaces were first stored, which
updates and crashes could disturb. Who may prove what is left to `PopLogin`.

### MessageSpaces

`getUniqueLong` has no lock, so any number of threads `get` and `put` in any order; a
put while another thread is between the two is `contended`. Then the redirect with the
id, the order at a fresh address when the browser follows it (`RequestPayment`), and
the payment. A customer may also load a `RequestPayment` URL again, or with any id at
all (`RequestAnyPayment`, with the ids `Longs`): `PayMessService.useParameters` takes
what the URL says, without asking whether it was ever drawn.

### PagePolling

A browser runs one event at a time to its end, so jQuery's `done` and the page's
handler are one action (`Done`), while `Send`, the answer and its arrival are
separate and may each fail. `calls` are the calls under way, `timers` the pending
`setTimeout`s of a page. `Done` runs `success` or `error`, never both; status 0 is
a network error, -1 an exception in `send`. `popRequest.jsp` retries on an error,
`requestPayment.jsp` has no handler and falls silent. `ServePopPoll` hands out its
good answer once: if that answer is lost, the session has access, and its page
shows "Retrying..." for ever, which `GrantIsTold` and `ReadyIsTold` name (`lost`).
After a network error (`NetworkError`) no answer can reach the page any more. The server
may in fact still serve an abandoned request, and hand out its good answer to nobody;
for the page that is the answer lost on its way, which `Serve` and then `NetworkError`
give. jQuery is modelled as far as these pages use it; the rest is a vendored library.

### Poppoc

`Payments` and `PopLogin` are instantiated side by side. `PutPaidService` is a step
of both: `completed` (the order paid by a transaction) and `paidServices` (the
service object) are two views of one cache. `Crash` is a step of both. Other
steps belong to one, and the login's need the server to be up.

## 3. What TLC checks

Violation runs check what a comment or a page of the repository says and the code
does not do.

| Run | Shows |
|---|---|
| `PopLogin` | 2 sessions, 2 threads, 2 requests, 2 transactions, a space nobody paid for, all expiries, crashes: `TypeOK`; a request is in at most one place on its way to access (`SingleHolder`); PoPs are credited to the request they answer (`CreditedAsAsked`); access is one's own and paid (`OwnAccess`); memory and store differ only inside an update (`UpdateDurable`); transactions keep their space (`SpacesStay`); a changed message was asked for by a used-up request (`ProvenMessage`); live entries are not overwritten (`NoOverwrite`); the refinement of `LoginTickets` (`ImplementsTickets`, `AccessIsEarned`) |
| `PopLoginRedeploy` | 1 thread, 3 requests, both kinds of restart, expiries: `SingleHolder`, `CreditedAsAsked`, `NoOverwrite` when ids are reused, with wallets and sessions that remember old ones |
| `PopLoginLive` | no faults: a claimed PoP becomes access for the page that awaits it (`AcceptedIsGranted`) |
| `Payments` | an order of each kind, 2 transactions, one of them with two outputs to one order, expiries, crashes, one payment lost and received again, funds that move: `TypeOK`; a page is told only of what is on record or still waits with its price stored (`ToldMeansPaid`); no order is delivered twice (`DeliveredOnce`), for less than the listener counts (`NoServiceUnpaid`) or lost on the way (`MoveNeverLoses`); partial payments survive (`PartialPaymentKept`); who pays is served (`PaymentHonoured`); confirmed funds leave (`FundsMove`); the refinement of `Orders` (`ImplementsOrders`) |
| `PaidServices` | the wallet's thread, 2 threads with PoPs, 2 message spaces, 2 requests, a crash: `TypeOK`; a service ends on time (`EndsInTime`) and not before (`NotCutShort`); access is not granted later than that (`GrantedInTime`); on the board, neither updates nor the crash move a space up (`UpdatesMoveNoSpace`) |
| `MessageSpaces` | 3 threads, 3 forms, 3 addresses, URLs with ids 0 and 1, restarts: `TypeOK`; ids drawn by one thread alone stay behind the counter (`IdsBelowMax`) and are given to one form only (`UniqueIds`) |
| `PagePolling` | a page of each kind, room for 3 calls, every way for a call to fail: `TypeOK`; polls never multiply (`OnePoll`) or stop (`NeverSilent`); access and page agree (`GrantIsTold`); what is ready is told (`ReadyIsTold`) |
| `Poppoc` | 2 orders, 3 transactions, 1 session, 1 thread, 1 request, crashes: access is traced back to payments that count for the price (`AccessIsPaid`); what was told can be proven (`ToldIsProvable`) |
| `PopLoginNullRequest` (violation) | `Storage.java:117,120`: a request that is gone returns. The two reads of `verifiedPops` straddle another thread's put; `popRequest` is null at line 127 |
| `PaymentsBatch` (violation) | `Storage.java:60` "move the record to paidServices". One transaction for two orders: the second put overwrites the first |
| `PaymentsHalves` (violation) | `requestPayment.jsp:30` "Please pay ${serviceType.priceTag} to" the address. Half the price to each of two addresses in one transaction pays for both (as two outputs of a quarter to one address pay for it) |
| `MessageSpacesRace` (violation) | `payMess.jsp:20` "one week exclusivity on the message space". Two threads in `getUniqueLong` draw one id |

Each property of a passing run has a mutant in `PROJECT.json`: the operator
"Slip: ..." that stands before the action in its module, and with which TLC
finds the property violated.

Bounds. Two threads are what it takes for every race on a cache entry, and two
requests for one to be confused with another, under ids that `Crash` starts over
(`MaxRequests` bounds the requests ever made, and so the ids). Reuse of an id
while a third request is live needs three, so `PopLoginRedeploy` has three, and
one thread. In `Payments` a message space costs three thirds; a transaction has two
outputs of a third to it, which count for four, or one of two thirds, which counts for
two: payments that come first, late, in excess or again, and an order that is completed
by the second output of a transaction, are the cases of `storePayment`. In
`PaidServices` a service, a verified PoP and a call last 1 tick, the clock runs to 4
(`MaxTime`), and there is one crash (`MaxRestarts`): enough for an update at the
deadline, a second one over it, access after the end, and an order that a crash leaves
half moved and that is stored again a lifespan later. Three threads can overlap so that
a put that was contended by one is followed by one that was not; the ids 0 and 1 are one
that is never drawn and one that is. Pages
share nothing but the calls that bound them; 3 calls leave room for polls that
should not exist. `Poppoc` checks what neither half can say alone, and has one
thread and one request, for the races are in the halves; a message space takes three
of the four outputs of two transactions, the login the third transaction, and `MaxLost`
is 0, since a payment received twice counts twice. Each of its transactions pays one
address, with any number of outputs. There,
neither orders nor paid services expire. `MaxIds` bounds the counter of message
spaces. Sessions, threads and transactions are declared symmetric where they are
interchangeable, in safety runs only.

Deadlock is not checked where the bounds make the system stop: all requests made
and expired, all orders told, the clock run out, all pages told.

What the properties leave out, knowingly:

- `AcceptedIsGranted` excludes a page that polls at that moment for an older
  request of the same session: `PopPoll.java:39` removes the session's request
  id, which may be that of the newer request by then.
- `DeliveredOnce` and `PaymentHonoured` hold until the first crash (`crashed`). A crash
  between `Storage.java:71` and `:72` leaves the order open for a second payment; and a
  payment whose event was queued or never made is not credited. A crash between `:69`
  and `:71` leaves a page told of a service that is not recorded: `ToldMeansPaid` and
  `ToldIsProvable` say that the order then waits with its price in the file store, for
  any further payment to deliver it, or has expired.
- `NoServiceUnpaid`, `AccessIsPaid` and `ImplementsOrders` count payments as the listener
  does, `Counted`, which may be more than customers have sent: `PaymentsHalves` refutes
  `PriceIsPaid`, which compares with `Received`, and `PriceIsPaidCorrect` says when it
  holds. They except payments received `again`.
- `EndsInTime` and `GrantedInTime` count from `lastPut`, not from `paidDate`, and except
  services that were `overlapped`.
- `UpdatesMoveNoSpace` excepts spaces whose order was half moved at a crash (`broken`):
  stored anew after others, they keep an older date.
- `NeverSilent` and `ReadyIsTold` except a payment page of which a poll has
  `failed`, and a PoP page whose one good answer is `lost`.
- `IdsBelowMax` and `UniqueIds` except ids that were put while another thread was drawing
  one (`contended`): then the counter can fall back, and two forms can get one id, as
  `MessageSpacesRace` shows. They are about what the code hands out. That two orders may
  be for one space because a customer loads a URL again, or writes one, follows from
  `RequestPayment.java:36`; the run of `ExclusiveSpace` leaves such URLs out (`Longs` is
  empty) to show the race.
- Request ids. `Storage.java:159` says "Make sure we don't reuse requestIds that
  are still in use." A session kept over an orderly restart may still wait for an
  id whose request has expired and which `store` gives out again; it is then
  granted the access of whoever made the new request. This is why `OwnAccess` is
  checked, and proved, for restarts that end the sessions.
- `BasicServlet.java:83` authorizes without limit although `index.jsp:12` promises
  "24h access"; `GrantedInTime` bounds when access begins, nothing when it ends.

Fairness. A thread of the servlet container that has started runs to its end
(`PopStep`, `AnswerBrowser`), so does the wallet's (`WalletStep`), and `start` ends
(`FinishStart`). The pages poll every 500 ms (`setTimeout`), which makes `StartPoll
... GrantAccess` and `PaymentPoll` weakly fair. For `PaymentPoll` this is more than
`requestPayment.jsp` guarantees, since it has no error handler and a poll that fails is
its last: `PaymentHonoured` is about pages none of whose polls fails. `PagePolling` looks
at the assumption: timers fire and calls end somehow (weak fairness), and of a page that
keeps polling not every poll fails on its way (strong fairness of `Send` and
`Serve`). Nobody has to order, pay, confirm, make a request, post a PoP or log out.

## 4. What is proved

For every value of the constants: any number of sessions, threads, transactions,
requests, orders, spaces and pages, any lifespans, and any set of faults.

| Theorem | Module | States | If |
|---|---|---|---|
| `TypeCorrect` | `PopLoginProofs` | `Spec => []TypeOK` | |
| `CreditedCorrect` | `PopLoginProofs` | `Spec => []CreditedAsAsked` | |
| `SpacesCorrect` | `PopLoginProofs` | `Spec => []SpacesStay` | |
| `OwnAccessCorrect` | `PopLoginProofs` | `Spec => []OwnAccess` | restarts end sessions |
| `PaidStaysCorrect` | `PopLoginProofs` | what is paid stays in `paidServices` | paid services do not expire |
| `SingleHolderCorrect` | `PopLoginTicketProofs` | `Spec => []SingleHolder` | |
| `NoOverwriteCorrect` | `PopLoginTicketProofs` | `Spec => NoOverwrite` | |
| `UpdateDurableCorrect` | `PopLoginTicketProofs` | `Spec => []UpdateDurable` | |
| `ProvenMessageCorrect` | `PopLoginTicketProofs` | `Spec => []ProvenMessage` | |
| `TicketsCorrect` | `PopLoginTicketProofs` | `Spec => ImplementsTickets` | restarts end sessions |
| `AccessIsEarnedCorrect` | `PopLoginTicketProofs` | `Spec => []AccessIsEarned` | restarts end sessions |
| `TypeCorrect` | `PaymentProofs` | `Spec => []TypeOK` | |
| `PartialPaymentCorrect` | `PaymentProofs` | `Spec => []PartialPaymentKept` | |
| `DeliveredCorrect` | `PaymentProofs` | `Spec => []DeliveredOnce` | |
| `MoveNeverLosesCorrect` | `PaymentProofs` | `Spec => []MoveNeverLoses` | `OneOrderEach` |
| `ToldCorrect` | `PaymentProofs` | `Spec => []ToldMeansPaid` | `OneOrderEach` |
| `NoServiceUnpaidCorrect` | `PaymentProofs` | `Spec => []NoServiceUnpaid` | |
| `PriceIsPaidCorrect` | `PaymentProofs` | `Spec => []PriceIsPaid` | `OneOutputEach`, `MaxLost = 0` |
| `OrdersCorrect` | `PaymentProofs` | `Spec => ImplementsOrders` | `OneOrderEach` |
| `TypeCorrect` | `PaidServiceProofs` | `Spec => []TypeOK` | |
| `NotCutShortCorrect` | `PaidServiceProofs` | `Spec => []NotCutShort` | |
| `EndsInTimeCorrect` | `PaidServiceProofs` | `Spec => []EndsInTime` | |
| `GrantedInTimeCorrect` | `PaidServiceProofs` | `Spec => []GrantedInTime` | |
| `UpdatesMoveNoSpaceCorrect` | `PaidServiceProofs` | `Spec => []UpdatesMoveNoSpace` | |
| `TypeCorrect` | `MessageSpaceProofs` | `Spec => []TypeOK` | |
| `IdsBelowMaxCorrect` | `MessageSpaceProofs` | `Spec => []IdsBelowMax` | |
| `UniqueIdsCorrect` | `MessageSpaceProofs` | `Spec => []UniqueIds` | |
| `TypeCorrect` | `PagePollingProofs` | `Spec => []TypeOK` | |
| `OnePollCorrect` | `PagePollingProofs` | `Spec => []OnePoll` | |
| `NeverSilentCorrect` | `PagePollingProofs` | `Spec => []NeverSilent` | |
| `GrantIsToldCorrect` | `PagePollingProofs` | `Spec => []GrantIsTold` | |
| `ShopIsPayments`, `LoginIsPopLogin` | `PoppocProofs` | `Spec` implies the `Spec` of either half | |
| `OrdersKept`, `TicketsKept` | `PoppocProofs` | `Spec =>` `ImplementsOrders` of the shop, `ImplementsTickets` of the login | |
| `AccessIsPaidCorrect` | `PoppocProofs` | `Spec => []AccessIsPaid` | |
| `ToldIsProvableCorrect` | `PoppocProofs` | `Spec => []ToldIsProvable` | |

Besides what the modules assume of their constants (null is not a value, bounds are
numbers, orders are for service types; TLC evaluates these in every run), the last
column has what a theorem needs: `"redeploy" \notin Faults`; `OneOrderEach`, that each
transaction pays for one order at most (`PaymentsBatch` is the other case);
`OneOutputEach`, that it has one output of the wallet besides (`PaymentsHalves` is the
other case) and that the wallet loses no payment. `Poppoc`
assumes that each transaction pays one order; it has no orderly restart, its wallet
loses no payment (`MaxLost` is 0), and orders and paid services do not expire in it.

**PopLogin.** `TypeOK` is inductive: besides the types it says that a thread has what
its next step reads, and that nothing refers to a request not yet made.
`CreditedAsAsked` is not: a thread past `ClaimRequest` holds whatever lay under the
posted id, and that is the right request only because of what happened before.
`CreditInv` adds

- `IdsBehind`: what lies in a cache under an id is a request made with that id,
  and the id is behind the counter, so `store` never writes over it; and
- `PostInv`: from validation to `ClaimRequest`, what lies under the posted id is
  the request that was validated, or nothing. This is where reuse would hurt, and
  why the proof needs that a restart ends the threads.

`SpacesStay` goes into the same induction, because a PoP for a space proves the
payment of that space only as long as transactions keep theirs.

`OwnAccess` needs the sessions and polls as well: `AccessInv`. A session may wait
for an id that belongs to another's request, once ids start over, unless nobody
else's request is *on its way* under it (`HeldBy`): pending, in the hands of a
thread, or verified. The steps of the proof are that no step puts an old request
back on its way (`LiveStays`), that a new request gets an id under which nothing
is on its way (`LiveBehind`, `StoreHeld`), and that therefore whoever holds an id
keeps it until a restart (`HeldStays`). A restart takes the counter back, so the
sessions must end with it.

`SingleHolder` follows from `HolderInv`: a request is in one place at a time
(`OnePlace`), and of the requests that ever had one id, one at most is on its way
(`OneLive`). The second half is what keeps `PutVerifiedPop` from overwriting. One
lemma per kind of step says which request moves from where to where and that the
others are `Same`; `NoOverwrite`, `ProvenMessage` (a request that is used up is
never pending again) and the refinement are read off those. For the refinement,
`Stage` is the status of a request by its place; each step moves one ticket along
(`TicketPasses`), issues one, grants one or changes none, and a crash closes those
that threads and polls had in hand. `AccessIsEarned` adds that a request that has
gone all the way stays nowhere (`ClosedStays`).

**Payments.** `KeepInv` relates the thread's step to the caches: what it has in hand
is an order its transaction pays to, memory and store differ only before `replace`,
and until a crash an order on record is pending only until the thread removes it
(`RecordedLeaves`), so that no later event finds it. `MoveInv` adds that a transaction
is on record for an order it pays to, with which a second put of the same key is a
put of the same order.

`NoServiceUnpaid` is about amounts. `CreditedOK` says that an order's `paidSatoshis`,
with the outputs that the thread is still to credit (`Rest`), are at most what the
transactions sent count for *without* those that are still in the queue (`Waiting`), so
that taking up a transaction and crediting an output leave the bound true; `EventsOK`,
that each transaction the wallet knows is in one event at most; `EnoughPaid`, that an
order that the thread completes has its price credited. Where each transaction has one
output, it counts for what it sent (`CreditIsPaid`), and `PriceIsPaid` follows. What was
sent is a sum over a set of transactions. `FiniteProofs` proves the laws of the
library's sums (`SumStep`, `SumAdd`, `SumMonotone`, `SumSingle`): a claim about every
finite set follows by looking at a smallest set that refutes it (`MinimalMember`), which
takes the place of an induction.

The refinement of `Orders` needs `MoveInv`, `PriceInv` and that a notice in
`paidToAddresses` is for a funded order (`NoticeOK`). The put into `paidServices` is
the delivery; expiry and crash are drops; every other step of the thread leaves the
status of all orders alone, because an order that it takes out of one cache is in its
hands or in another. Without `OneOrderEach` the put could take a delivered order back
(`PaymentsBatch`).

**PaidServices.** `LifeInv` bounds the deadlines of the entry, of the copy that a thread
has read, and of what it will put back, from both sides (`NotEarly`, `NotLate`); as long
as nobody else writes a service during an update, the entry that a thread has read is
still the one in the cache, and what it will put back ends no sooner (`Alone`); what
threads, verified PoPs and sessions hold was live when it was proven (`InTime`). The
board: any finite set can be sorted by a number (`SortedExists`, again by a smallest
counterexample), so the `CHOOSE` of `MessageSpaces` has something to choose; and `Dated`
follows the date of an order through the wallet's thread, the file store and the crash:
it is set once, before the space is stored and, for an order that no crash caught half
moved, after every space that is stored already.

**MessageSpaces.** A form `Owns` an id that was drawn for it by one thread alone. Neither
the counter nor what a thread has read and is still to put one more than is behind an id
that is owned (`Ahead`): it was put when no other thread was drawing, and who reads later
reads at least that. So the next id that is drawn alone is new (`Distinct`).

**PagePolling.** `PollInv`: a page has its timer, or one call, or has told its
customer, or is a payment page that has failed.

**Poppoc.** Every step of `Poppoc` is a step or a stutter of `Payments` with `completed`
for `paidServices`, and of `PopLogin`; with that, each theorem of a half holds of the
whole (`PayP`, `LoginP`: the proof modules, instantiated). The one link between the
halves is `Linked`: a transaction is `paid` in the login exactly if it has `completed`
an order in the shop. `AccessIsPaid` is then `OwnAccess` (access rests on a paid
transaction for the service asked for), `Linked`, and `NoServiceUnpaid` without its
exception (`Counted` is the same sum in both); `ToldIsProvable` is `ToldMeansPaid`,
`Linked`, `PaidStays` and `SpacesStay`.

Only model-checked is liveness: `AcceptedIsGranted`, `PaymentHonoured`, `FundsMove` and
`ReadyIsTold` rest on fairness, which is beyond the prover. Every invariant, action
property and refinement of a passing run has a theorem. No module declares a RECURSIVE
operator.

## 5. Not modelled

`Config`, `ErrorHandler`, `GenerateQRCode`, `BitcoinRPCTransactionStore` and the
pages' layout keep no state that other parts depend on. `PopServlet.getRequestId`
is a function of one string, with a table of unit tests. `GeneratePopRequest`
asks for service 1000 and always throws; `AuthenticateToService` with service 2
asks a `PayMessService` for a message space that it was not given, and throws.
Cryptography, bitcoin's scripts and reorganisations belong to libraries, and so
does jQuery beyond what the two polling pages reach. A full file store (1024
entries) appears as expiry.

## 6. Plan

Built in this order: `PopLogin` with its abstract specification, since all threads
meet in it; `Payments`, which feeds it; `MessageSpaces`; then `PaidServices`, the
board, `PagePolling`, and `Poppoc` over the two halves; then `Orders`. All invariants
are proved. Left:

1. An abstract specification of the two polling pages, with its refinement.
2. The steps of `storeVerifiedPop` in `PaidServices`, related to those in `PopLogin`.
