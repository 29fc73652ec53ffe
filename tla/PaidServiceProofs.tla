------------------------- MODULE PaidServiceProofs -------------------------
(***************************************************************************)
(* Proofs about the lifespan of paid services, for any number of threads,  *)
(* services, requests and updates.                                         *)
(***************************************************************************)
EXTENDS PaidServices, FiniteProofs, TLAPS

\* The time that was paid for, and the last end that updates can give it.
PaidUntil(tx) == firstPut[tx] + ServiceTime[Order[tx]]
Ends(tx)      == lastPut[tx] + ServiceTime[Order[tx]]
Latest(tx)    == Ends(tx) + MaxDelay * updates[tx]

Thread == [pc : Steps, request : Requests \cup {Nil}, tx : Txids \cup {Nil},
           since : Int \cup {Nil}, entry : Entry \cup {Nil},
           newLifespan : Int \cup {Nil}]

\* Caches and threads hold data of their types; a thread works on a service
\* on record, since at most MaxDelay.
Types ==
  /\ now \in 0 .. MaxTime /\ restarts \in 0 .. MaxRestarts
  /\ pending \subseteq Orders /\ broken \subseteq Orders
  /\ paidDate \in [Orders -> Date] /\ storedDate \in [Orders -> Date]
  /\ wallet \in [pc : WalletSteps, tx : Txids \cup {Nil}]
  /\ wallet.pc # "idle" =>
       wallet.tx \in Txids /\ paidDate[Order[wallet.tx]] \in 0 .. now
  /\ firstPut \in [Txids -> Date] /\ lastPut \in [Txids -> Date]
  /\ \A tx \in Txids : paidServices[tx] # Nil \/ firstPut[tx] # Nil =>
       /\ paidServices[tx] # Nil
       /\ firstPut[tx] \in 0 .. now /\ lastPut[tx] \in 0 .. now
  /\ \A o \in Orders : /\ paidDate[o] # Nil => paidDate[o] \in 0 .. now
                       /\ storedDate[o] # Nil => storedDate[o] \in 0 .. now
  /\ paidServices \in [Txids -> Entry \cup {Nil}]
  /\ verifiedPops \in [Requests -> Proof \cup {Nil}]
  /\ granted \in [Requests -> Proof \cup {Nil}]
  /\ used \subseteq Requests /\ overlapped \subseteq Txids
  /\ updates \in [Txids -> Nat]
  /\ post \in [Workers -> Thread]
  /\ \A w \in Workers :
       /\ post[w].pc # "idle" =>
            /\ post[w].tx \in Txids /\ post[w].request \in used
            /\ paidServices[post[w].tx] # Nil
            /\ post[w].since \in Int
            /\ post[w].since <= now /\ now <= post[w].since + MaxDelay
       /\ post[w].pc = "lifespan" => post[w].entry \in Entry
       /\ post[w].pc = "replace" => post[w].newLifespan \in Int
  /\ \A n \in Requests :
       /\ verifiedPops[n] # Nil => paidServices[verifiedPops[n].tx] # Nil
       /\ granted[n] # Nil => paidServices[granted[n].tx] # Nil

\* Nobody cuts a lifespan: not the entries, not what threads have read, and
\* not what they will put back.
NotEarly ==
  /\ \A tx \in Txids : paidServices[tx] # Nil /\ Mortal(paidServices[tx]) =>
       PaidUntil(tx) <= Deadline(paidServices[tx])
  /\ \A w \in Workers :
       /\ post[w].pc = "lifespan" =>
            PaidUntil(post[w].tx) <= Deadline(post[w].entry)
       /\ post[w].pc = "replace" =>
            PaidUntil(post[w].tx) <= now + post[w].newLifespan

\* Nor does anybody prolong one by more than the time since the thread began.
NotLate ==
  /\ \A tx \in Txids : paidServices[tx] # Nil /\ Mortal(paidServices[tx]) =>
       Deadline(paidServices[tx]) <= Latest(tx)
  /\ \A w \in Workers :
       /\ post[w].pc = "lifespan" => Deadline(post[w].entry) <= Latest(post[w].tx)
       /\ post[w].pc = "replace" =>
            post[w].newLifespan + post[w].since <= Latest(post[w].tx)

\* A service that is updated by one thread at a time stays mortal: what the
\* thread has read is what is there, and its end is not before the deadline.
Alone ==
  /\ \A v, w \in Workers :
       v # w /\ post[v].tx = post[w].tx
             /\ post[v].pc \in {"lifespan", "replace"}
             /\ post[w].pc \in {"lifespan", "replace"}
         => post[w].tx \in overlapped
  /\ \A tx \in Txids :
       paidServices[tx] # Nil /\ tx \notin overlapped => Mortal(paidServices[tx])
  /\ \A w \in Workers : post[w].tx \notin overlapped =>
       /\ post[w].pc = "lifespan" => post[w].entry = paidServices[post[w].tx]
       /\ post[w].pc = "replace" =>
            Deadline(paidServices[post[w].tx]) <= now + post[w].newLifespan

\* What threads, verified PoPs and sessions hold was live when it was proven.
InTime ==
  /\ \A w \in Workers : post[w].pc # "idle" /\ post[w].tx \notin overlapped =>
       post[w].since <= Latest(post[w].tx)
  /\ \A n \in Requests :
       /\ verifiedPops[n] # Nil /\ verifiedPops[n].tx \notin overlapped =>
            verifiedPops[n].at <= Latest(verifiedPops[n].tx) + MaxDelay
       /\ granted[n] # Nil /\ granted[n].tx \notin overlapped =>
            granted[n].at <= Latest(granted[n].tx) + MaxDelay + PopLife

LifeInv == Types /\ NotEarly /\ NotLate /\ Alone /\ InTime

-----------------------------------------------------------------------------

LEMMA NilFacts ==
  /\ Nil \notin Int /\ Nil \notin Txids /\ Nil \notin Requests
  /\ Nil \notin Entry /\ Nil \notin Proof
  /\ MaxDelay \in Nat /\ MaxTime \in Nat /\ PopLife \in Nat
  /\ MaxRestarts \in Nat
  /\ Order \in [Txids -> Orders]
  /\ \A tx \in Txids : ServiceTime[Order[tx]] \in Nat
BY NilAssumption, ShopAssumption DEF Entry, Proof

LEMMA NewEntry ==
  ASSUME NEW d \in 0 .. MaxTime, NEW t \in 0 .. MaxTime, NEW l \in Int
  PROVE  [paidDate |-> d, created |-> t, lifespan |-> l] \in Entry
BY DEF Entry

\* Updates can only prolong.
LEMMA DelayIsNat == \A k \in Nat : MaxDelay * k \in Nat
BY NilFacts

LEMMA WalletAsleep ==
  Asleep \in [pc : WalletSteps, tx : Txids \cup {Nil}] /\ Asleep.pc = "idle"
BY DEF Asleep, WalletSteps

LEMMA IdleThread == Idle \in Thread /\ Idle.pc = "idle"
BY DEF Idle, Thread, Steps

LEMMA LifeInit == Init => LifeInv
<1> SUFFICES ASSUME Init PROVE LifeInv
  OBVIOUS
<1>1. Types
  BY NilFacts, IdleThread, WalletAsleep DEF Init, Types, Date
<1>2. NotEarly /\ NotLate /\ Alone /\ InTime
  BY IdleThread, NilFacts DEF Init, NotEarly, NotLate, Alone, InTime
<1> QED BY <1>1, <1>2 DEF LifeInv

\* The moves of an order touch no entry, no thread and no clock.
LEMMA OrderStepKeeps ==
  ASSUME LifeInv, Types', UNCHANGED <<bounded, serviceVars, loginVars>>
  PROVE  LifeInv'
<1> USE DEF bounded, serviceVars, loginVars, LifeInv, PaidUntil, Ends, Latest,
            Mortal, Deadline
<1>1. NotEarly'
  BY DEF NotEarly
<1>2. NotLate'
  BY DEF NotLate
<1>3. Alone'
  BY DEF Alone
<1>4. InTime'
  BY DEF InTime
<1> QED BY <1>1, <1>2, <1>3, <1>4

LEMMA AddPaymentKeeps ==
  ASSUME LifeInv, NEW tx \in Txids, AddPayment(tx)
  PROVE  LifeInv'
<1>1. Types'
  BY NilFacts DEF LifeInv, Types, AddPayment, bounded, serviceVars, loginVars,
                  WalletSteps, Date
<1> QED BY <1>1, OrderStepKeeps DEF AddPayment

LEMMA ReplaceRequestKeeps ==
  ASSUME LifeInv, ReplaceRequest
  PROVE  LifeInv'
<1>1. Types'
  BY NilFacts DEF LifeInv, Types, ReplaceRequest, bounded, serviceVars,
                  loginVars, WalletSteps, Date
<1> QED BY <1>1, OrderStepKeeps DEF ReplaceRequest

LEMMA RemoveRequestKeeps ==
  ASSUME LifeInv, RemoveRequest
  PROVE  LifeInv'
<1>1. Types'
  BY NilFacts, WalletAsleep DEF LifeInv, Types, RemoveRequest, bounded,
                                serviceVars, loginVars
<1> QED BY <1>1, OrderStepKeeps DEF RemoveRequest

LEMMA PutPaidServiceKeeps ==
  ASSUME LifeInv, PutPaidService
  PROVE  LifeInv'
<1>0. PICK tx \in Txids : tx = wallet.tx
  BY DEF LifeInv, Types, PutPaidService
<1> DEFINE e == [paidDate |-> paidDate[Order[tx]], created |-> now,
                 lifespan |-> ServiceTime[Order[tx]]]
<1>1. /\ Types
      /\ tx \in Txids /\ e \in Entry /\ now \in Nat /\ now \in 0 .. MaxTime
      /\ e.created = now /\ e.lifespan = ServiceTime[Order[tx]]
      /\ e.lifespan \in Nat /\ Mortal(e) /\ e # Nil
  BY <1>0, NilFacts, NewEntry DEF LifeInv, Types, PutPaidService, Mortal
<1>2. /\ paidServices' = [paidServices EXCEPT ![tx] = e]
      /\ firstPut' = [firstPut EXCEPT ![tx] = IF @ = Nil THEN now ELSE @]
      /\ lastPut' = [lastPut EXCEPT ![tx] = now]
      /\ overlapped' = IF Updating(tx) = {} THEN overlapped
                                            ELSE overlapped \cup {tx}
      /\ wallet' = [wallet EXCEPT !.pc = "remove"]
      /\ UNCHANGED <<bounded, pending, paidDate, storedDate, broken, updates,
                     loginVars>>
  BY <1>0 DEF PutPaidService
<1> HIDE DEF e
<1>3. /\ paidServices'[tx] = e
      /\ \A u \in Txids \ {tx} : /\ paidServices'[u] = paidServices[u]
                                 /\ firstPut'[u] = firstPut[u]
                                 /\ lastPut'[u] = lastPut[u]
      /\ lastPut'[tx] = now
      /\ firstPut'[tx] = (IF firstPut[tx] = Nil THEN now ELSE firstPut[tx])
      /\ overlapped \subseteq overlapped'
  BY <1>1, <1>2 DEF Types
<1>4. Types'
  <2>1. /\ paidServices' \in [Txids -> Entry \cup {Nil}]
        /\ firstPut' \in [Txids -> Date] /\ lastPut' \in [Txids -> Date]
        /\ wallet' \in [pc : WalletSteps, tx : Txids \cup {Nil}]
        /\ wallet'.tx = wallet.tx /\ wallet.tx = tx
        /\ overlapped' \subseteq Txids
        /\ wallet.pc = "paidService"
    BY <1>0, <1>1, <1>2 DEF Types, Date, WalletSteps, PutPaidService
  <2>2. \A u \in Txids : paidServices'[u] # Nil \/ firstPut'[u] # Nil =>
          /\ paidServices'[u] # Nil
          /\ firstPut'[u] \in 0 .. now /\ lastPut'[u] \in 0 .. now
    BY <1>1, <1>3, NilFacts DEF Types
  <2>3. \A u \in Txids : paidServices[u] # Nil => paidServices'[u] # Nil
    BY <1>1, <1>3
  <2>4. \A n \in Requests :
          /\ verifiedPops[n] # Nil => verifiedPops[n].tx \in Txids
          /\ granted[n] # Nil => granted[n].tx \in Txids
    BY <1>1, NilFacts DEF Proof, Types
  <2> QED BY <1>1, <1>2, <2>1, <2>2, <2>3, <2>4
          DEF Types, bounded, loginVars
<1>5. \A u \in Txids : paidServices[u] # Nil =>
        /\ PaidUntil(u)' = PaidUntil(u)
        /\ Latest(u) \in Int /\ Latest(u)' \in Int /\ Latest(u) <= Latest(u)'
  <2> SUFFICES ASSUME NEW u \in Txids, paidServices[u] # Nil
               PROVE  /\ PaidUntil(u)' = PaidUntil(u)
                      /\ Latest(u) \in Int /\ Latest(u)' \in Int
                      /\ Latest(u) <= Latest(u)'
    OBVIOUS
  <2>1. /\ firstPut[u] \in 0 .. now /\ lastPut[u] \in 0 .. now
        /\ updates[u] \in Nat /\ updates' = updates
        /\ MaxDelay * updates[u] \in Nat
    BY <1>1, <1>2, DelayIsNat DEF Types
  <2>2. firstPut'[u] = firstPut[u] /\ lastPut[u] <= lastPut'[u]
        /\ lastPut'[u] \in Int
    BY <1>1, <1>3, <2>1, NilFacts
  <2>3. ServiceTime[Order[u]] \in Nat
    BY NilFacts
  <2> QED BY <2>1, <2>2, <2>3 DEF PaidUntil, Ends, Latest
<1>6. \A w \in Workers :
        /\ post' = post /\ now' = now
        /\ post[w].pc # "idle" => post[w].tx \in Txids
                                  /\ paidServices[post[w].tx] # Nil
  BY <1>1, <1>2 DEF loginVars, bounded, Types
<1>7. /\ firstPut'[tx] \in 0 .. now /\ PaidUntil(tx)' <= Deadline(e)
      /\ Deadline(e) <= Latest(tx)'
  <2>1. firstPut'[tx] \in 0 .. now
    BY <1>1, <1>3, NilFacts DEF Types
  <2>2. updates' = updates /\ MaxDelay * updates[tx] \in Nat
    BY <1>1, <1>2, DelayIsNat DEF Types
  <2> QED BY <1>1, <1>3, <2>1, <2>2, NilFacts DEF PaidUntil, Ends,
                                                  Latest, Deadline
<1>8. NotEarly'
  <2>1. \A u \in Txids : paidServices'[u] # Nil /\ Mortal(paidServices'[u]) =>
          PaidUntil(u)' <= Deadline(paidServices'[u])
    BY <1>1, <1>3, <1>5, <1>7 DEF NotEarly, LifeInv
  <2>2. ASSUME NEW w \in Workers
        PROVE  /\ post'[w].pc = "lifespan" =>
                    PaidUntil(post[w].tx)' <= Deadline(post'[w].entry)
               /\ post'[w].pc = "replace" =>
                    PaidUntil(post[w].tx)' <= now' + post'[w].newLifespan
    BY <1>5, <1>6 DEF NotEarly, LifeInv, PaidUntil
  <2> QED BY <2>1, <2>2, <1>6 DEF NotEarly, Mortal, Deadline, PaidUntil
<1>9. NotLate'
  <2>1. \A u \in Txids : paidServices'[u] # Nil /\ Mortal(paidServices'[u]) =>
          Deadline(paidServices'[u]) <= Latest(u)'
    BY <1>1, <1>3, <1>5, <1>7 DEF NotLate, LifeInv, Entry, Deadline, Types
  <2>2. ASSUME NEW w \in Workers
        PROVE  /\ post'[w].pc = "lifespan" =>
                    Deadline(post'[w].entry) <= Latest(post[w].tx)'
               /\ post'[w].pc = "replace" =>
                    post'[w].newLifespan + post'[w].since <= Latest(post[w].tx)'
    BY <1>1, <1>5, <1>6 DEF NotLate, LifeInv, Types, Entry, Deadline, Ends,
                            Latest
  <2> QED BY <2>1, <2>2, <1>6 DEF NotLate, Mortal, Deadline, Ends, Latest
<1>10. Alone'
  <2>1. \A w \in Workers :
          post[w].tx = tx /\ post[w].pc \in {"lifespan", "replace"} =>
            tx \in overlapped'
    BY <1>1, <1>2 DEF Updating
  <2>2. \A w \in Workers :
          post[w].tx \notin overlapped'
          /\ post[w].pc \in {"lifespan", "replace"} =>
            /\ post[w].tx # tx /\ post[w].tx \notin overlapped
            /\ paidServices'[post[w].tx] = paidServices[post[w].tx]
    BY <1>3, <1>6, <2>1
  <2>3. \A u \in Txids : paidServices'[u] # Nil /\ u \notin overlapped' =>
          Mortal(paidServices'[u])
    BY <1>1, <1>3 DEF Alone, LifeInv
  <2>4. ASSUME NEW w \in Workers, post[w].tx \notin overlapped'
        PROVE  /\ post[w].pc = "lifespan" =>
                    post[w].entry = paidServices'[post[w].tx]
               /\ post[w].pc = "replace" =>
                    Deadline(paidServices'[post[w].tx])
                      <= now + post[w].newLifespan
    BY <2>2, <2>4 DEF Alone, LifeInv
  <2>5. \A v, w \in Workers :
          v # w /\ post[v].tx = post[w].tx
                /\ post[v].pc \in {"lifespan", "replace"}
                /\ post[w].pc \in {"lifespan", "replace"}
            => post[w].tx \in overlapped'
    BY <1>3 DEF Alone, LifeInv
  <2> QED BY <2>3, <2>4, <2>5, <1>6 DEF Alone, Mortal, Deadline
<1>11. InTime'
  <2>1. \A w \in Workers : post[w].pc # "idle" /\ post[w].tx \notin overlapped' =>
          post[w].since <= Latest(post[w].tx)'
    BY <1>1, <1>3, <1>5, <1>6 DEF InTime, LifeInv, Types, Ends, Latest
  <2>2. ASSUME NEW n \in Requests
        PROVE  /\ verifiedPops[n] # Nil /\ verifiedPops[n].tx \notin overlapped' =>
                    verifiedPops[n].at <= Latest(verifiedPops[n].tx)' + MaxDelay
               /\ granted[n] # Nil /\ granted[n].tx \notin overlapped' =>
                    granted[n].at
                      <= Latest(granted[n].tx)' + MaxDelay + PopLife
    <3>1. /\ verifiedPops[n] # Nil =>
               /\ verifiedPops[n].tx \in Txids /\ verifiedPops[n].at \in Int
               /\ paidServices[verifiedPops[n].tx] # Nil
          /\ granted[n] # Nil =>
               /\ granted[n].tx \in Txids /\ granted[n].at \in Int
               /\ paidServices[granted[n].tx] # Nil
      BY <1>1, NilFacts DEF Types, Proof
    <3>2. verifiedPops' = verifiedPops /\ granted' = granted
      BY <1>2 DEF loginVars
    <3>3. ASSUME NEW u \in Txids, NEW at \in Int, paidServices[u] # Nil
          PROVE  /\ at <= Latest(u) + MaxDelay => at <= Latest(u)' + MaxDelay
                 /\ at <= Latest(u) + MaxDelay + PopLife =>
                      at <= Latest(u)' + MaxDelay + PopLife
      BY <1>5, <3>3, NilFacts
    <3>4. verifiedPops[n] # Nil /\ verifiedPops[n].tx \notin overlapped' =>
            verifiedPops[n].at <= Latest(verifiedPops[n].tx)' + MaxDelay
      BY <3>1, <3>2, <3>3, <1>3, NilFacts DEF InTime, LifeInv, Ends, Latest
    <3>5. granted[n] # Nil /\ granted[n].tx \notin overlapped' =>
            granted[n].at <= Latest(granted[n].tx)' + MaxDelay + PopLife
      BY <3>1, <3>2, <3>3, <1>3, NilFacts DEF InTime, LifeInv, Ends, Latest
    <3> QED BY <3>1, <3>2, <3>4, <3>5
  <2> QED BY <2>1, <2>2, <1>2, <1>6 DEF InTime, loginVars, Latest
<1> QED BY <1>4, <1>8, <1>9, <1>10, <1>11 DEF LifeInv

LEMMA AcceptPopKeeps ==
  ASSUME LifeInv, NEW w \in Workers, NEW n \in Requests, NEW tx \in Txids,
         AcceptPop(w, n, tx)
  PROVE  LifeInv'
<1> USE NilFacts DEF bounded, orderVars, serviceVars, loginVars, LifeInv,
                     Types, AcceptPop, PaidUntil, Ends, Latest, Mortal,
                     Deadline, InCache
<1> DEFINE p == [Idle EXCEPT !.pc = "entry", !.request = n, !.tx = tx,
                             !.since = now]
<1>1. /\ p \in Thread
      /\ p.pc = "entry" /\ p.tx = tx /\ p.request = n /\ p.since = now
  <2>1. now \in Int /\ n \in Requests /\ tx \in Txids
    OBVIOUS
  <2> QED BY ONLY <2>1, IdleThread DEF Thread, Steps
<1>2. /\ post' = [post EXCEPT ![w] = p] /\ used' = used \cup {n}
      /\ paidServices[tx] # Nil
      /\ UNCHANGED <<bounded, orderVars, serviceVars, verifiedPops, granted>>
  OBVIOUS
<1>3. Types'
  <2>2. now \in Int /\ now <= now + MaxDelay
    OBVIOUS
  <2> HIDE DEF p, AcceptPop
  <2>3. post' \in [Workers -> Thread] /\ used' \subseteq Requests
    BY <1>1, <1>2
  <2>4. post'[w] = p /\ \A v \in Workers \ {w} : post'[v] = post[v]
    BY <1>2
  <2> QED BY <1>1, <1>2, <2>2, <2>3, <2>4
<1>4. NotEarly'
  BY <1>3, <1>2 DEF NotEarly
<1>5. NotLate'
  BY <1>3, <1>2 DEF NotLate
<1>6. Alone'
  BY <1>3, <1>2 DEF Alone
<1>7. InTime'
  <2>1. tx \notin overlapped => now <= Latest(tx)
    BY DEF Alone, NotLate, Entry
  <2> QED BY <2>1, <1>3, <1>2 DEF InTime
<1> QED BY <1>3, <1>4, <1>5, <1>6, <1>7 DEF LifeInv

LEMMA GetCacheEntryKeeps ==
  ASSUME LifeInv, NEW w \in Workers, GetCacheEntry(w)
  PROVE  LifeInv'
<1> USE NilFacts DEF PaidUntil, Ends, Latest, Deadline
<1> DEFINE e == paidServices[post[w].tx]
           p == [post[w] EXCEPT !.pc = "lifespan", !.entry = e]
<1>1. /\ Types /\ post[w] \in Thread /\ post[w].pc = "entry"
      /\ post[w].tx \in Txids /\ e \in Entry /\ Mortal(e)
  BY DEF LifeInv, Types, GetCacheEntry, InCache
<1>2. /\ p \in Thread /\ p.pc = "lifespan" /\ p.entry = e
      /\ p.tx = post[w].tx /\ p.request = post[w].request
      /\ p.since = post[w].since
  BY <1>1 DEF Thread, Steps
<1>3. /\ post' = [post EXCEPT ![w] = p]
      /\ overlapped' = IF Updating(post[w].tx) = {} THEN overlapped
                       ELSE overlapped \cup {post[w].tx}
      /\ UNCHANGED <<now, restarts, orderVars, paidServices, firstPut, lastPut,
                     updates, verifiedPops, used, granted>>
  BY DEF GetCacheEntry, bounded
<1>4. /\ post'[w] = p /\ \A v \in Workers \ {w} : post'[v] = post[v]
      /\ overlapped \subseteq overlapped' /\ overlapped' \subseteq Txids
  BY <1>1, <1>3 DEF Types
<1> HIDE DEF p
<1>5. Types'
  <2>1. post' \in [Workers -> Thread]
    BY <1>1, <1>2, <1>3 DEF Types
  <2>2. \A v \in Workers : post'[v].pc # "idle" =>
          /\ post[v].pc # "idle"
          /\ post'[v].tx = post[v].tx /\ post'[v].request = post[v].request
          /\ post'[v].since = post[v].since
    BY <1>1, <1>2, <1>4
  <2>3. \A v \in Workers :
          /\ post'[v].pc = "lifespan" => post'[v].entry \in Entry
          /\ post'[v].pc = "replace" => post'[v].newLifespan \in Int
    BY <1>1, <1>2, <1>4 DEF Types
  <2> QED BY <1>1, <1>3, <1>4, <2>1, <2>2, <2>3 DEF Types, orderVars
<1>6. NotEarly'
  BY <1>1, <1>2, <1>3, <1>4 DEF NotEarly, LifeInv, Mortal
<1>7. NotLate'
  BY <1>1, <1>2, <1>3, <1>4 DEF NotLate, LifeInv, Mortal
<1>8. Alone'
  <2>1. \A v \in Workers \ {w} :
          post[v].tx = post[w].tx /\ post[v].pc \in {"lifespan", "replace"} =>
            post[w].tx \in overlapped'
    BY <1>3 DEF Updating
  <2> QED BY <1>1, <1>2, <1>3, <1>4, <2>1 DEF Alone, LifeInv, Mortal
<1>9. InTime'
  BY <1>1, <1>2, <1>3, <1>4 DEF InTime, LifeInv
<1> QED BY <1>5, <1>6, <1>7, <1>8, <1>9 DEF LifeInv

LEMMA FailCacheEntryKeeps ==
  ASSUME LifeInv, NEW w \in Workers, FailCacheEntry(w)
  PROVE  LifeInv'
<1> USE NilFacts, IdleThread DEF bounded, orderVars, serviceVars, loginVars,
                                 LifeInv, Types, FailCacheEntry, PaidUntil,
                                 Ends, Latest, Mortal, Deadline, InCache
<1>1. Types'
  OBVIOUS
<1>2. NotEarly'
  BY <1>1 DEF NotEarly
<1>3. NotLate'
  BY <1>1 DEF NotLate
<1>4. Alone'
  BY <1>1 DEF Alone
<1>5. InTime'
  BY <1>1 DEF InTime
<1> QED BY <1>1, <1>2, <1>3, <1>4, <1>5 DEF LifeInv

LEMMA ComputeLifespanKeeps ==
  ASSUME LifeInv, NEW w \in Workers, ComputeLifespan(w)
  PROVE  LifeInv'
<1> USE NilFacts DEF bounded, orderVars, serviceVars, loginVars, LifeInv,
                     Types, PaidUntil, Ends, Latest, Mortal, Deadline
<1> DEFINE rest == RestOfLifespan(post[w].entry)
           p == [post[w] EXCEPT !.pc = "replace", !.newLifespan = rest,
                                !.entry = Nil]
<1>1. post[w] \in Thread /\ post[w].pc = "lifespan" /\ post[w].entry \in Entry
  BY DEF ComputeLifespan
<1>2. rest \in Int /\ now + rest = Deadline(post[w].entry)
  BY <1>1 DEF RestOfLifespan, Entry
<1>3. /\ p \in Thread /\ p.pc = "replace" /\ p.newLifespan = rest
      /\ p.tx = post[w].tx /\ p.request = post[w].request
      /\ p.since = post[w].since
  BY <1>1, <1>2 DEF Thread, Steps
<1>4. /\ post' = [post EXCEPT ![w] = p]
      /\ UNCHANGED <<bounded, orderVars, serviceVars, verifiedPops, used,
                     granted>>
  BY DEF ComputeLifespan
<1>5. post'[w] = p /\ \A v \in Workers \ {w} : post'[v] = post[v]
  BY <1>4
<1> HIDE DEF p, rest
<1>6. Types'
  <2>1. post' \in [Workers -> Thread]
    BY <1>3, <1>4
  <2>2. \A v \in Workers : post'[v].pc # "idle" =>
          /\ post[v].pc # "idle"
          /\ post'[v].tx = post[v].tx /\ post'[v].request = post[v].request
          /\ post'[v].since = post[v].since
    BY <1>1, <1>3, <1>5
  <2>3. \A v \in Workers :
          /\ post'[v].pc = "lifespan" => post'[v].entry \in Entry
          /\ post'[v].pc = "replace" => post'[v].newLifespan \in Int
    BY <1>2, <1>3, <1>5
  <2> QED BY <1>4, <2>1, <2>2, <2>3
<1>7. NotEarly'
  BY <1>1, <1>2, <1>3, <1>4, <1>5 DEF NotEarly
<1>8. NotLate'
  BY <1>1, <1>2, <1>3, <1>4, <1>5 DEF NotLate, Entry
<1>9. Alone'
  BY <1>1, <1>2, <1>3, <1>4, <1>5 DEF Alone
<1>10. InTime'
  BY <1>1, <1>3, <1>4, <1>5 DEF InTime
<1> QED BY <1>6, <1>7, <1>8, <1>9, <1>10 DEF LifeInv

LEMMA ReplaceKeeps ==
  ASSUME LifeInv, NEW w \in Workers, Replace(w)
  PROVE  LifeInv'
<1> USE NilFacts, IdleThread DEF bounded, orderVars, serviceVars, loginVars,
                                 LifeInv, Types, Replace, PaidUntil, Ends,
                                 Latest, Mortal, Deadline, InCache, Entry,
                                 Thread, Steps
<1>1. Types'
  OBVIOUS
<1>2. NotEarly'
  BY <1>1 DEF NotEarly
<1>3. NotLate'
  BY <1>1 DEF NotLate
<1>4. Alone'
  BY <1>1 DEF Alone
<1>5. InTime'
  BY <1>1 DEF InTime
<1> QED BY <1>1, <1>2, <1>3, <1>4, <1>5 DEF LifeInv

LEMMA PutVerifiedPopKeeps ==
  ASSUME LifeInv, NEW w \in Workers, PutVerifiedPop(w)
  PROVE  LifeInv'
<1> USE NilFacts, IdleThread DEF bounded, orderVars, serviceVars, loginVars,
                                 LifeInv, Types, PutVerifiedPop, PaidUntil,
                                 Ends, Latest, Mortal, Deadline, Proof
<1>1. Types'
  OBVIOUS
<1>2. NotEarly'
  BY <1>1 DEF NotEarly
<1>3. NotLate'
  BY <1>1 DEF NotLate
<1>4. Alone'
  BY <1>1 DEF Alone
<1>5. InTime'
  <2>1. /\ verifiedPops'[post[w].request] = [tx |-> post[w].tx, at |-> now]
        /\ \A m \in Requests \ {post[w].request} :
             verifiedPops'[m] = verifiedPops[m]
    OBVIOUS
  <2>2. post[w].tx \notin overlapped => now <= Latest(post[w].tx) + MaxDelay
    BY DEF InTime, Entry
  <2> QED BY <2>1, <2>2, <1>1 DEF InTime
<1> QED BY <1>1, <1>2, <1>3, <1>4, <1>5 DEF LifeInv

LEMMA PopPollKeeps ==
  ASSUME LifeInv, NEW n \in Requests, PopPoll(n)
  PROVE  LifeInv'
<1> USE NilFacts, IdleThread DEF bounded, orderVars, serviceVars, loginVars,
                                 LifeInv, Types, PopPoll, PaidUntil, Ends,
                                 Latest, Mortal, Deadline, Proof
<1>1. Types'
  OBVIOUS
<1>2. NotEarly'
  BY <1>1 DEF NotEarly
<1>3. NotLate'
  BY <1>1 DEF NotLate
<1>4. Alone'
  BY <1>1 DEF Alone
<1>5. InTime'
  <2>1. /\ granted'[n] = [tx |-> verifiedPops[n].tx, at |-> now]
        /\ verifiedPops'[n] = Nil
        /\ \A m \in Requests \ {n} :
             verifiedPops'[m] = verifiedPops[m] /\ granted'[m] = granted[m]
    OBVIOUS
  <2>2. verifiedPops[n].tx \notin overlapped =>
          now <= Latest(verifiedPops[n].tx) + MaxDelay + PopLife
    BY DEF InTime, Entry
  <2> QED BY <2>1, <2>2, <1>1 DEF InTime
<1> QED BY <1>1, <1>2, <1>3, <1>4, <1>5 DEF LifeInv

LEMMA RestartKeeps ==
  ASSUME LifeInv, Restart
  PROVE  LifeInv'
<1> USE NilFacts, IdleThread, WalletAsleep DEF bounded, orderVars, serviceVars,
                                               loginVars, LifeInv, Types,
                                               Restart, PaidUntil, Ends,
                                               Latest, Mortal, Deadline, Entry
<1>1. Types'
  OBVIOUS
<1>2. NotEarly'
  BY <1>1 DEF NotEarly
<1>3. NotLate'
  BY <1>1 DEF NotLate
<1>4. Alone'
  BY <1>1 DEF Alone
<1>5. InTime'
  BY <1>1 DEF InTime
<1> QED BY <1>1, <1>2, <1>3, <1>4, <1>5 DEF LifeInv

LEMMA TickKeeps ==
  ASSUME LifeInv, Tick
  PROVE  LifeInv'
<1> USE NilFacts, IdleThread DEF bounded, orderVars, serviceVars, loginVars,
                                 LifeInv, Types, Tick, PaidUntil, Ends, Latest,
                                 Mortal, Deadline, Entry
<1>1. Types'
  OBVIOUS
<1>2. NotEarly'
  BY <1>1 DEF NotEarly
<1>3. NotLate'
  BY <1>1 DEF NotLate
<1>4. Alone'
  BY <1>1 DEF Alone
<1>5. InTime'
  BY <1>1 DEF InTime
<1> QED BY <1>1, <1>2, <1>3, <1>4, <1>5 DEF LifeInv

-----------------------------------------------------------------------------

LEMMA LifeStep == LifeInv /\ [Next]_vars => LifeInv'
<1> SUFFICES ASSUME LifeInv, [Next]_vars PROVE LifeInv'
  OBVIOUS
<1>1. CASE UNCHANGED vars
  BY <1>1 DEF vars, bounded, orderVars, serviceVars, loginVars, LifeInv,
              Types, NotEarly, NotLate, Alone, InTime,
              PaidUntil, Ends, Latest, Mortal, Deadline
<1>2. CASE Next
  BY <1>2, AddPaymentKeeps, ReplaceRequestKeeps, PutPaidServiceKeeps,
     RemoveRequestKeeps, AcceptPopKeeps, GetCacheEntryKeeps,
     FailCacheEntryKeeps, ComputeLifespanKeeps, ReplaceKeeps,
     PutVerifiedPopKeeps, PopPollKeeps, RestartKeeps, TickKeeps DEF Next
<1> QED BY <1>1, <1>2

LEMMA LifeCorrect == Spec => []LifeInv
BY LifeInit, LifeStep, PTL DEF Spec

\* Every cache and thread holds data of its type.
THEOREM TypeCorrect == Spec => []TypeOK
<1>1. LifeInv => TypeOK
  BY NilFacts DEF LifeInv, Types, TypeOK, Thread
<1> QED BY <1>1, LifeCorrect, PTL

\* No updates, overlapping or not, no crash and no second put of storePayment
\* end a service before its time, counted from its first put.
THEOREM NotCutShortCorrect == Spec => []NotCutShort
<1>1. LifeInv => NotCutShort
  BY NilFacts DEF LifeInv, Types, NotEarly, NotCutShort, InCache, PaidUntil,
                  Mortal, Deadline, Entry
<1> QED BY <1>1, LifeCorrect, PTL

\* storeVerifiedPop prolongs a service, counted from the last put of
\* storePayment, by no more than its own running time, and makes it endless
\* only if somebody else writes it at the same time.
THEOREM EndsInTimeCorrect == Spec => []EndsInTime
<1>1. LifeInv => EndsInTime
  BY NilFacts DEF LifeInv, Types, NotLate, Alone, EndsInTime, Ends, Latest,
                  Mortal, Deadline, Entry
<1> QED BY <1>1, LifeCorrect, PTL

\* What PopPoll grants, it grants in the time of the service, counted from the
\* last put of storePayment, the hour of the verified PoP, and the delays of
\* the threads.
THEOREM GrantedInTimeCorrect == Spec => []GrantedInTime
<1>1. LifeInv => GrantedInTime
  <2> SUFFICES ASSUME LifeInv, NEW n \in Requests, granted[n] # Nil,
                      granted[n].tx \notin overlapped
               PROVE  granted[n].at <= Ends(granted[n].tx) + PopLife
                        + MaxDelay * (updates[granted[n].tx] + 1)
    BY DEF GrantedInTime, Ends
  <2> DEFINE tx == granted[n].tx
  <2>1. tx \in Txids /\ updates[tx] \in Nat /\ Ends(tx) \in Int
        /\ granted[n].at \in Int
    BY NilFacts DEF LifeInv, Types, Proof, Ends
  <2>2. granted[n].at <= Ends(tx) + MaxDelay * updates[tx] + MaxDelay + PopLife
    BY DEF LifeInv, InTime, Latest, Ends
  <2> QED BY <2>1, <2>2, NilFacts
<1> QED BY <1>1, LifeCorrect, PTL

-----------------------------------------------------------------------------
(* The board.                                                              *)

OnRecord == {tx \in Txids : paidServices[tx] # Nil}

\* Each step stores one payment at most, so a finite number is on record,
\* however many transactions there may be.
LEMMA OnRecordStep ==
  ASSUME LifeInv, IsFiniteSet(OnRecord), [Next]_vars
  PROVE  IsFiniteSet(OnRecord')
<1>0. paidServices \in [Txids -> Entry \cup {Nil}]
  BY DEF LifeInv, Types
<1>1. ASSUME PutPaidService PROVE IsFiniteSet(OnRecord')
  <2>1. OnRecord' \in SUBSET (OnRecord \cup {wallet.tx})
    BY <1>0, <1>1 DEF PutPaidService, OnRecord
  <2>2. IsFiniteSet(OnRecord \cup {wallet.tx})
    BY FS_AddElement
  <2> QED BY <2>1, <2>2, FS_Subset
<1>2. ASSUME OnRecord' \in SUBSET OnRecord PROVE IsFiniteSet(OnRecord')
  BY <1>2, FS_Subset
<1>3. ASSUME NEW w \in Workers, Replace(w) PROVE OnRecord' \in SUBSET OnRecord
  <2>1. CASE InCache(post[w].tx)
    <3>1. /\ paidServices[post[w].tx] # Nil
          /\ \A u \in Txids : u # post[w].tx => paidServices'[u] = paidServices[u]
      BY <1>0, <1>3, <2>1 DEF Replace, InCache
    <3> QED BY <3>1 DEF OnRecord
  <2>2. CASE ~InCache(post[w].tx)
    BY <1>3, <2>2 DEF Replace, OnRecord
  <2> QED BY <2>1, <2>2
<1>4. UNCHANGED paidServices => OnRecord' \in SUBSET OnRecord
  BY DEF OnRecord
<1>5. ASSUME NEW w \in Workers,
             \/ \E n \in Requests, tx \in Txids : AcceptPop(w, n, tx)
             \/ GetCacheEntry(w) \/ FailCacheEntry(w)
             \/ ComputeLifespan(w) \/ PutVerifiedPop(w)
      PROVE  UNCHANGED paidServices
  BY <1>5 DEF AcceptPop, GetCacheEntry, FailCacheEntry, ComputeLifespan,
              PutVerifiedPop, serviceVars
<1>6. ASSUME \/ \E tx \in Txids : AddPayment(tx)
             \/ ReplaceRequest \/ RemoveRequest
             \/ \E n \in Requests : PopPoll(n)
             \/ Restart \/ Tick \/ UNCHANGED vars
      PROVE  UNCHANGED paidServices
  BY <1>6 DEF AddPayment, ReplaceRequest, RemoveRequest, PopPoll, Restart,
              Tick, vars, serviceVars
<1> QED BY <1>1, <1>2, <1>3, <1>4, <1>5, <1>6 DEF Next

LEMMA OnRecordAlways == Spec => []IsFiniteSet(OnRecord)
<1> DEFINE few == IsFiniteSet(OnRecord)
<1>1. Init => few
  <2>1. Init => OnRecord = {}
    BY DEF Init, OnRecord
  <2> QED BY <2>1, FS_EmptySet
<1>2. LifeInv /\ few /\ [Next]_vars => few'
  BY OnRecordStep
<1> HIDE DEF few
<1>3. Spec => []few
  BY <1>1, <1>2, LifeCorrect, PTL DEF Spec
<1> QED BY <1>3 DEF few

\* An order is dated once, when it is first paid for, which is before its
\* space is stored and, unless a crash caught it half moved, after every space
\* that is stored already.
Dated ==
  /\ \A o \in Orders :
       /\ storedDate[o] # Nil => paidDate[o] = storedDate[o]
       /\ paidDate[o] # Nil /\ o \in pending /\ o \notin broken =>
            wallet.pc # "idle" /\ Order[wallet.tx] = o
  /\ wallet.pc \in {"paidService", "remove"} =>
       storedDate[Order[wallet.tx]] = paidDate[Order[wallet.tx]]
  /\ wallet.pc # "idle" /\ Order[wallet.tx] \notin broken =>
       /\ wallet.pc = "replace" => storedDate[Order[wallet.tx]] = Nil
       /\ wallet.pc \in {"replace", "paidService"} =>
            \A tx \in Txids : firstPut[tx] # Nil =>
              firstPut[tx] <= paidDate[Order[wallet.tx]]
  /\ \A tx \in Txids : paidServices[tx] # Nil =>
       /\ paidServices[tx].paidDate = storedDate[Order[tx]]
       /\ paidServices[tx].paidDate <= firstPut[tx]
  /\ \A t, u \in Txids :
       /\ paidServices[t] # Nil /\ paidServices[u] # Nil
       /\ firstPut[t] < firstPut[u] /\ Order[u] \notin broken
       => firstPut[t] <= paidServices[u].paidDate

\* A step that leaves the orders alone, and the services all but their
\* lifespans.
LEMMA DatedFrame ==
  ASSUME LifeInv, Dated, UNCHANGED <<orderVars, firstPut>>,
         \A tx \in Txids :
           /\ paidServices'[tx] # Nil <=> paidServices[tx] # Nil
           /\ paidServices[tx] # Nil =>
                paidServices'[tx].paidDate = paidServices[tx].paidDate
  PROVE  Dated'
BY DEF Dated, orderVars

LEMMA DatedStep ==
  ASSUME LifeInv, Dated, [Next]_vars
  PROVE  Dated'
<1>0. Types /\ Order \in [Txids -> Orders]
  BY NilFacts DEF LifeInv
<1>1. ASSUME UNCHANGED <<orderVars, serviceVars>> PROVE Dated'
  BY <1>1, DatedFrame DEF serviceVars
<1>2. ASSUME NEW tx \in Txids, AddPayment(tx) PROVE Dated'
  <2>1. /\ wallet.pc = "idle" /\ Order[tx] \in pending /\ Order[tx] \in Orders
        /\ wallet'.pc = "replace" /\ wallet'.tx = tx
        /\ paidDate'[Order[tx]] = (IF paidDate[Order[tx]] = Nil THEN now
                                   ELSE paidDate[Order[tx]])
        /\ \A o \in Orders : o # Order[tx] => paidDate'[o] = paidDate[o]
        /\ UNCHANGED <<pending, storedDate, broken, paidServices, firstPut>>
    BY <1>0, <1>2 DEF AddPayment, serviceVars, Types
  <2>2. now \in Nat /\ \A u \in Txids : firstPut[u] # Nil => firstPut[u] <= now
    BY <1>0 DEF Types
  <2>3. Order[tx] \notin broken =>
          paidDate[Order[tx]] = Nil /\ storedDate[Order[tx]] = Nil
    BY <2>1 DEF Dated
  <2> QED BY <1>0, <2>1, <2>2, <2>3, NilFacts DEF Dated, Types
<1>3. ASSUME ReplaceRequest PROVE Dated'
  <2>1. /\ wallet.pc = "replace" /\ Order[wallet.tx] \in Orders
        /\ paidDate[Order[wallet.tx]] # Nil
        /\ wallet'.pc = "paidService" /\ wallet'.tx = wallet.tx
        /\ storedDate'[Order[wallet.tx]] = paidDate[Order[wallet.tx]]
        /\ \A o \in Orders : o # Order[wallet.tx] => storedDate'[o] = storedDate[o]
        /\ UNCHANGED <<pending, paidDate, broken, paidServices, firstPut>>
    BY <1>0, <1>3, NilFacts DEF ReplaceRequest, serviceVars, Types
  <2>2. \A tx \in Txids : paidServices[tx] # Nil =>
          storedDate[Order[tx]] # Nil /\ paidDate[Order[tx]] = storedDate[Order[tx]]
    BY <1>0, NilFacts DEF Dated, Types, Entry
  <2> QED BY <1>0, <2>1, <2>2 DEF Dated
<1>4. ASSUME PutPaidService PROVE Dated'
  <2> DEFINE tx == wallet.tx
             o == Order[tx]
             e == [paidDate |-> paidDate[o], created |-> now,
                   lifespan |-> ServiceTime[o]]
  <2>1. /\ wallet.pc = "paidService" /\ tx \in Txids /\ o \in Orders
        /\ now \in Nat
        /\ paidDate[o] \in 0 .. now /\ storedDate[o] = paidDate[o]
        /\ wallet'.pc = "remove" /\ wallet'.tx = tx
        /\ UNCHANGED <<pending, paidDate, storedDate, broken>>
        /\ paidServices'[tx] = e /\ e.paidDate = storedDate[o] /\ e # Nil
        /\ firstPut'[tx] = (IF firstPut[tx] = Nil THEN now ELSE firstPut[tx])
        /\ \A u \in Txids : u # tx => /\ paidServices'[u] = paidServices[u]
                                      /\ firstPut'[u] = firstPut[u]
    <3>1. e \in Entry
      BY <1>0, <1>4, NilFacts, NewEntry DEF PutPaidService, Types
    <3> QED BY <1>0, <1>4, <3>1, NilFacts DEF PutPaidService, Types, Dated
  <2> HIDE DEF tx, o, e
  <2>2. \A u \in Txids : /\ paidServices[u] # Nil <=> firstPut[u] # Nil
                         /\ firstPut[u] # Nil => firstPut[u] \in 0 .. now
    BY <1>0, NilFacts DEF Types
  <2>3. firstPut[tx] # Nil => paidServices[tx].paidDate = e.paidDate
    BY <2>1, <2>2 DEF Dated, o
  <2>4. e.paidDate <= firstPut'[tx]
    BY <2>1, <2>2, <2>3, NilFacts DEF Dated
  <2>5. \A u \in Txids : firstPut[u] # Nil /\ o \notin broken =>
          firstPut[u] <= e.paidDate
    BY <2>1 DEF Dated, o, tx
  <2>6. ASSUME NEW t \in Txids, NEW u \in Txids,
               paidServices'[t] # Nil, paidServices'[u] # Nil,
               firstPut'[t] < firstPut'[u], Order[u] \notin broken
        PROVE  firstPut'[t] <= paidServices'[u].paidDate
    <3>1. CASE u = tx /\ t # tx
      BY <3>1, <2>1, <2>2, <2>5, <2>6 DEF o
    <3>2. CASE t = tx /\ u # tx
      <4>1. firstPut[tx] # Nil
        BY <3>2, <2>1, <2>2, <2>6
      <4> QED BY <3>2, <4>1, <2>1, <2>2, <2>6 DEF Dated
    <3>3. CASE t # tx /\ u # tx
      BY <3>3, <2>1, <2>6 DEF Dated
    <3>4. CASE t = tx /\ u = tx
      BY <3>4, <2>1, <2>2, <2>6
    <3> QED BY <3>1, <3>2, <3>3, <3>4
  <2>7. \A u \in Txids : paidServices'[u] # Nil =>
          /\ paidServices'[u].paidDate = storedDate[Order[u]]
          /\ paidServices'[u].paidDate <= firstPut'[u]
    BY <2>1, <2>4 DEF Dated, o
  <2>8. \A p \in Orders :
          /\ storedDate[p] # Nil => paidDate[p] = storedDate[p]
          /\ paidDate[p] # Nil /\ p \in pending /\ p \notin broken => o = p
    BY DEF Dated, o, tx
  <2> QED BY <2>1, <2>6, <2>7, <2>8 DEF Dated, o
<1>5. ASSUME RemoveRequest PROVE Dated'
  <2>1. /\ wallet'.pc = "idle" /\ pending' = pending \ {Order[wallet.tx]}
        /\ UNCHANGED <<paidDate, storedDate, broken, paidServices, firstPut>>
    BY <1>5, WalletAsleep DEF RemoveRequest, serviceVars
  <2> QED BY <2>1 DEF Dated
<1>6. ASSUME Restart PROVE Dated'
  <2>1. /\ wallet'.pc = "idle" /\ paidDate' = storedDate
        /\ broken' = IF wallet.pc \in {"paidService", "remove"}
                       THEN broken \cup {Order[wallet.tx]} ELSE broken
        /\ UNCHANGED <<pending, storedDate, paidServices, firstPut>>
    BY <1>6, WalletAsleep DEF Restart, serviceVars
  <2>2. wallet.pc \in WalletSteps
    BY <1>0 DEF Types
  <2> QED BY <2>1, <2>2 DEF Dated, WalletSteps
<1>7. ASSUME NEW w \in Workers, Replace(w) PROVE Dated'
  <2>1. UNCHANGED <<orderVars, firstPut>>
    BY <1>7 DEF Replace
  <2>2. \A tx \in Txids :
          /\ paidServices'[tx] # Nil <=> paidServices[tx] # Nil
          /\ paidServices[tx] # Nil =>
               paidServices'[tx].paidDate = paidServices[tx].paidDate
    <3>1. CASE InCache(post[w].tx)
      <4> DEFINE e == [paidServices[post[w].tx] EXCEPT !.created = now,
                         !.lifespan = post[w].newLifespan]
      <4>1. /\ post[w].tx \in Txids /\ post[w].newLifespan \in Int
            /\ now \in 0 .. MaxTime
            /\ paidServices[post[w].tx] \in Entry
        BY <1>0, <1>7, <3>1 DEF Types, Replace, InCache
      <4>2. e \in Entry /\ e.paidDate = paidServices[post[w].tx].paidDate
        BY <4>1 DEF Entry
      <4>3. paidServices' = [paidServices EXCEPT ![post[w].tx] = e]
        BY <1>7, <3>1 DEF Replace
      <4> HIDE DEF e
      <4> QED BY <1>0, <4>1, <4>2, <4>3, NilFacts DEF Types
    <3>2. CASE ~InCache(post[w].tx)
      BY <1>7, <3>2 DEF Replace
    <3> QED BY <3>1, <3>2
  <2> QED BY <2>1, <2>2, DatedFrame
<1>8. ASSUME NEW w \in Workers,
             \/ \E n \in Requests, tx \in Txids : AcceptPop(w, n, tx)
             \/ GetCacheEntry(w) \/ FailCacheEntry(w)
             \/ ComputeLifespan(w) \/ PutVerifiedPop(w)
      PROVE  UNCHANGED <<orderVars, paidServices, firstPut>>
  BY <1>8 DEF AcceptPop, GetCacheEntry, FailCacheEntry, ComputeLifespan,
              PutVerifiedPop, serviceVars
<1>9. ASSUME (\E n \in Requests : PopPoll(n)) \/ Tick \/ UNCHANGED vars
      PROVE  UNCHANGED <<orderVars, paidServices, firstPut>>
  BY <1>9 DEF PopPoll, Tick, vars, serviceVars
<1>10. ASSUME UNCHANGED <<orderVars, paidServices, firstPut>> PROVE Dated'
  BY <1>10, DatedFrame
<1> QED BY <1>2, <1>3, <1>4, <1>5, <1>6, <1>7, <1>8, <1>9, <1>10 DEF Next

LEMMA DatedAlways == Spec => []Dated
<1>1. Init => Dated
  BY NilFacts, WalletAsleep DEF Init, Dated
<1>2. LifeInv /\ Dated /\ [Next]_vars => Dated'
  BY DatedStep
<1> QED BY <1>1, <1>2, LifeCorrect, PTL DEF Spec

\* The comparator of the board can be met, whatever the paidDates, equal ones
\* included; and a space that was stored first stays below the others,
\* whatever updates store it anew, unless its date is that of an earlier
\* payment to an order that a crash caught half moved.
THEOREM UpdatesMoveNoSpaceCorrect == Spec => []UpdatesMoveNoSpace
<1>1. ASSUME LifeInv, Dated, IsFiniteSet(OnRecord) PROVE UpdatesMoveNoSpace
  <2> DEFINE S == PaidSpaces
             n == Cardinality(S)
             key == [tx \in S |-> paidServices[tx].paidDate]
             sorted(board) == \A i, j \in DOMAIN board :
                                i < j => ComesFirst(board[i], board[j])
  <2>1. S \subseteq OnRecord /\ IsFiniteSet(S) /\ n \in Nat
    <3>1. S \in SUBSET OnRecord
      BY DEF PaidSpaces, InCache, OnRecord
    <3>2. IsFiniteSet(S)
      BY <1>1, <3>1, FS_Subset
    <3> QED BY <3>1, <3>2, FS_CardinalityType
  <2>2. \A tx \in S : paidServices[tx] \in Entry /\ key[tx] \in Int
    <3>1. \A tx \in S : paidServices[tx] \in Entry
      BY <1>1, <2>1 DEF LifeInv, Types, OnRecord
    <3> QED BY <3>1 DEF Entry
  <2>3. PICK f : Sorts(f, S, key)
    <3> HIDE DEF key, S
    <3> QED BY <2>1, <2>2, SortedExists
  <2>4. f \in SetToSeqs(S) /\ sorted(f)
    <3>1. f \in [1 .. n -> S] /\ \A i, j \in 1 .. n : i # j => f[i] # f[j]
      BY <2>3 DEF Sorts
    <3>2. f \in SetToSeqs(S)
      <4> HIDE DEF S
      <4> QED BY <3>1 DEF SetToSeqs
    <3>3. ASSUME NEW i \in DOMAIN f, NEW j \in DOMAIN f, i < j
          PROVE  ComesFirst(f[i], f[j])
      <4>1. i \in 1 .. n /\ j \in 1 .. n /\ f[i] \in S /\ f[j] \in S
        BY <3>1
      <4>2. key[f[i]] >= key[f[j]]
        <5> HIDE DEF key, S
        <5> QED BY <2>3, <3>3, <4>1 DEF Sorts
      <4> QED BY <4>1, <4>2 DEF ComesFirst
    <3> QED BY <3>2, <3>3
  <2> DEFINE board == MessageSpaces
  <2>5. board \in SetToSeqs(S) /\ sorted(board)
    <3>1. board = CHOOSE b \in SetToSeqs(S) : sorted(b)
      BY DEF MessageSpaces
    <3> HIDE DEF board, sorted, S
    <3> QED BY <2>4, <3>1
  <2>6. board \in [1 .. n -> S]
    BY <2>5 DEF SetToSeqs
  <2>7. ASSUME NEW i \in DOMAIN board, NEW j \in DOMAIN board, i < j,
               firstPut[board[i]] < firstPut[board[j]],
               Order[board[j]] \notin broken
        PROVE  paidServices[board[i]].paidDate = paidServices[board[j]].paidDate
    <3>1. PICK t \in OnRecord, u \in OnRecord : t = board[i] /\ u = board[j]
      BY <2>1, <2>6, <2>7
    <3>2. paidServices[t].paidDate >= paidServices[u].paidDate
      BY <2>5, <2>7, <3>1 DEF ComesFirst
    <3>3. /\ t \in Txids /\ u \in Txids
          /\ paidServices[t].paidDate \in Int /\ paidServices[u].paidDate \in Int
          /\ firstPut[t] \in Int
      BY <1>1, NilFacts DEF OnRecord, LifeInv, Types, Entry
    <3>4. paidServices[t].paidDate <= firstPut[t]
      BY <1>1, <3>3 DEF Dated, OnRecord
    <3>5. firstPut[t] <= paidServices[u].paidDate
      <4> HIDE DEF board
      <4> QED BY <1>1, <2>7, <3>1, <3>3 DEF Dated, OnRecord
    <3>6. paidServices[t].paidDate = paidServices[u].paidDate
      BY <3>2, <3>3, <3>4, <3>5
    <3> QED BY <3>1, <3>6
  <2> QED BY <2>7 DEF UpdatesMoveNoSpace
<1> QED BY <1>1, LifeCorrect, DatedAlways, OnRecordAlways, PTL
=============================================================================
