------------------------- MODULE MessageSpaceProofs -------------------------
(***************************************************************************)
(* Proofs about the ids of message spaces: for any forms, addresses, URLs  *)
(* and restarts, and any number of threads that draw ids at once.          *)
(***************************************************************************)
EXTENDS MessageSpaces, TLAPS

\* Form f has drawn the id i, alone.
Owns(f, i) ==
  /\ f \in Forms \ contended /\ i # Nil
  /\ \/ messageSpaceId[f] = i
     \/ \E w \in Workers : worker[w].form = f /\ worker[w].result = i

\* A thread that draws works for a form of its own, without an id.
DrawOK ==
  /\ \A w \in Workers : worker[w] # Idle =>
       /\ worker[w].form \in Forms /\ worker[w].maxLong \in Nat
       /\ messageSpaceId[worker[w].form] = Nil
  /\ \A v, w \in Workers :
       worker[v] # Idle /\ worker[w].form = worker[v].form => v = w

\* Neither the counter nor a thread that is still to put one more than it has
\* read is behind an id that was drawn alone.
Ahead ==
  \A f \in Forms, i \in Nat : Owns(f, i) =>
    /\ maxUniqueLong # Nil /\ i <= maxUniqueLong
    /\ \A w \in Drawing : i <= worker[w].maxLong

\* So the next one that is drawn alone is new.
Distinct == \A f, g \in Forms, i \in Nat : Owns(f, i) /\ Owns(g, i) => f = g

IdInv == TypeOK /\ DrawOK /\ Ahead /\ Distinct

LEMMA NilFacts == Nil \notin Int /\ Nil \notin Nat /\ Nil \notin Forms
BY NilAssumption

LEMMA IdInit == Init => IdInv
<1> SUFFICES ASSUME Init PROVE IdInv
  OBVIOUS
<1>1. TypeOK /\ DrawOK
  BY NilFacts DEF Init, TypeOK, DrawOK, Idle, Ids
<1>2. \A f \in Forms, i \in Nat : ~Owns(f, i)
  BY NilFacts DEF Init, Owns, Idle
<1> QED BY <1>1, <1>2 DEF IdInv, Ahead, Distinct

\* A step after which no form owns an id that it did not own before, and
\* threads that draw do so from where they were or from the counter.
LEMMA NothingNew ==
  ASSUME IdInv, TypeOK', DrawOK', UNCHANGED maxUniqueLong,
         \A f \in Forms, i \in Nat : Owns(f, i)' => Owns(f, i),
         \A w \in Drawing' :
           \/ w \in Drawing /\ worker'[w].maxLong = worker[w].maxLong
           \/ maxUniqueLong # Nil => worker'[w].maxLong = maxUniqueLong
  PROVE  IdInv'
<1>1. Ahead'
  BY DEF IdInv, Ahead
<1>2. Distinct'
  BY DEF IdInv, Distinct
<1> QED BY <1>1, <1>2 DEF IdInv

LEMMA IdGet ==
  ASSUME IdInv, NEW w \in Workers, NEW f \in Forms, GetMaxLong(w, f)
  PROVE  IdInv'
<1> USE NilFacts DEF IdInv, TypeOK, Ids
<1> DEFINE max == IF maxUniqueLong = Nil THEN 0 ELSE maxUniqueLong
           p == [form |-> f, maxLong |-> max, result |-> Nil]
<1>1. /\ worker' = [worker EXCEPT ![w] = p] /\ worker[w] = Idle
      /\ messageSpaceId[f] = Nil
      /\ \A v \in Workers : worker[v].form # f
      /\ UNCHANGED <<maxUniqueLong, messageSpaceId, ordered, paidServices,
                     contended>>
  BY DEF GetMaxLong
<1>2. /\ max \in Nat /\ p.form = f /\ p.maxLong = max /\ p.result = Nil
      /\ p # Idle
  BY DEF Idle
<1> HIDE DEF p
<1>3. worker'[w] = p /\ \A v \in Workers \ {w} : worker'[v] = worker[v]
  BY <1>1
<1>4. p \in [form : Forms \cup {Nil}, maxLong : Ids, result : Ids]
  BY <1>2 DEF p
<1>5. TypeOK'
  BY <1>1, <1>4
<1>6. DrawOK'
  BY <1>1, <1>2, <1>3 DEF DrawOK
<1>7. \A g \in Forms, i \in Nat : Owns(g, i)' => Owns(g, i)
  BY <1>1, <1>2, <1>3 DEF Owns
<1>8. \A v \in Drawing' :
        \/ v \in Drawing /\ worker'[v].maxLong = worker[v].maxLong
        \/ maxUniqueLong # Nil => worker'[v].maxLong = maxUniqueLong
  BY <1>1, <1>2, <1>3 DEF Drawing
<1> QED BY <1>1, <1>5, <1>6, <1>7, <1>8, NothingNew

LEMMA IdPut ==
  ASSUME IdInv, NEW w \in Workers, PutMaxLong(w)
  PROVE  IdInv'
<1> USE NilFacts DEF IdInv, TypeOK, Ids
<1>0. PICK h \in Forms, n \in Nat :
        /\ h = worker[w].form /\ n = worker[w].maxLong
        /\ worker[w] # Idle /\ w \in Drawing /\ messageSpaceId[h] = Nil
  BY DEF PutMaxLong, DrawOK, Drawing
<1> DEFINE p == [worker[w] EXCEPT !.result = n + 1]
<1>1. /\ worker' = [worker EXCEPT ![w] = p] /\ maxUniqueLong' = n + 1
      /\ contended' = IF Drawing = {w} THEN contended \ {h}
                                       ELSE contended \cup {h}
      /\ UNCHANGED <<messageSpaceId, ordered, paidServices>>
  BY <1>0 DEF PutMaxLong
<1>2. /\ p \in [form : Forms \cup {Nil}, maxLong : Ids, result : Ids]
      /\ p.form = h /\ p.maxLong = n /\ p.result = n + 1 /\ n + 1 \in Nat
      /\ p # Idle
  BY <1>0 DEF Idle
<1> HIDE DEF p
<1>3. worker'[w] = p /\ \A v \in Workers \ {w} : worker'[v] = worker[v]
  BY <1>1
<1>4. TypeOK'
  BY <1>1, <1>2
<1>5. DrawOK'
  BY <1>0, <1>1, <1>2, <1>3 DEF DrawOK
<1>6. \A v \in Workers \ {w} : worker[v].form # h
  BY <1>0 DEF DrawOK
<1>7. ASSUME NEW f \in Forms, NEW i \in Nat, Owns(f, i)'
      PROVE  Owns(f, i) \/ (f = h /\ i = n + 1 /\ Drawing = {w})
  <2>1. CASE f = h
    BY <1>0, <1>1, <1>2, <1>3, <1>6, <1>7, <2>1 DEF Owns
  <2>2. CASE f # h
    <3>1. f \notin contended
      BY <1>1, <1>7, <2>2 DEF Owns
    <3>2. ASSUME NEW v \in Workers, worker'[v].form = f, worker'[v].result = i
          PROVE  worker[v].form = f /\ worker[v].result = i
      BY <1>2, <1>3, <2>2, <3>2
    <3> QED BY <1>1, <1>7, <3>1, <3>2 DEF Owns
  <2> QED BY <2>1, <2>2
<1>8. \A f \in Forms, i \in Nat : Owns(f, i) => i <= n
  BY <1>0 DEF Ahead
<1>9. \A v \in Drawing' : v \in Drawing /\ v # w /\ worker'[v] = worker[v]
  <2>1. \A v \in Drawing' : v # w
    BY <1>2, <1>3 DEF Drawing
  <2> QED BY <2>1, <1>3 DEF Drawing
<1>10. Ahead'
  <2> SUFFICES ASSUME NEW f \in Forms, NEW i \in Nat, Owns(f, i)'
               PROVE  /\ maxUniqueLong' # Nil /\ i <= maxUniqueLong'
                      /\ \A v \in Drawing' : i <= worker'[v].maxLong
    BY DEF Ahead
  <2>1. CASE Owns(f, i)
    BY <2>1, <1>1, <1>2, <1>8, <1>9 DEF Ahead
  <2>2. CASE f = h /\ i = n + 1 /\ Drawing = {w}
    BY <2>2, <1>1, <1>2, <1>9
  <2> QED BY <1>7, <2>1, <2>2
<1>11. Distinct'
  <2> SUFFICES ASSUME NEW f \in Forms, NEW g \in Forms, NEW i \in Nat,
                      Owns(f, i)', Owns(g, i)'
               PROVE  f = g
    BY DEF Distinct
  <2>1. ~(i <= n /\ i = n + 1)
    OBVIOUS
  <2> QED BY <2>1, <1>7, <1>8 DEF Distinct
<1> QED BY <1>4, <1>5, <1>10, <1>11

LEMMA IdRedirect ==
  ASSUME IdInv, NEW w \in Workers, Redirect(w)
  PROVE  IdInv'
<1> USE NilFacts DEF IdInv, TypeOK, Ids
<1>0. PICK h \in Forms, n \in Nat :
        /\ h = worker[w].form /\ n = worker[w].result
        /\ worker[w] # Idle /\ messageSpaceId[h] = Nil
  BY DEF Redirect, DrawOK, Idle
<1>1. /\ worker' = [worker EXCEPT ![w] = Idle]
      /\ messageSpaceId' = [messageSpaceId EXCEPT ![h] = n]
      /\ UNCHANGED <<maxUniqueLong, ordered, paidServices, contended>>
  BY <1>0 DEF Redirect
<1>2. /\ worker'[w] = Idle /\ \A v \in Workers \ {w} : worker'[v] = worker[v]
      /\ messageSpaceId'[h] = n
      /\ \A f \in Forms \ {h} : messageSpaceId'[f] = messageSpaceId[f]
      /\ Idle \in [form : Forms \cup {Nil}, maxLong : Ids, result : Ids]
      /\ Idle.form = Nil /\ Idle.result = Nil
  BY <1>1 DEF Idle
<1>3. TypeOK'
  <2>1. \A a \in Addresses : ordered[a] # Nil => ordered[a].id \in Int
    OBVIOUS
  <2>2. \A a \in Addresses : ordered[a] # Nil => ordered[a].form # h
    BY <1>0, <2>1
  <2>3. \A a \in Addresses : ordered[a] # Nil /\ ordered[a].form # Nil =>
          ordered[a].id = messageSpaceId'[ordered[a].form]
    BY <1>2, <2>2
  <2> QED BY <1>1, <1>2, <2>3
<1>4. DrawOK'
  BY <1>0, <1>1, <1>2 DEF DrawOK
<1>5. \A f \in Forms, i \in Nat : Owns(f, i)' => Owns(f, i)
  BY <1>0, <1>1, <1>2 DEF Owns
<1>6. \A v \in Drawing' : v \in Drawing /\ worker'[v] = worker[v]
  BY <1>2 DEF Drawing
<1> QED BY <1>1, <1>3, <1>4, <1>5, <1>6, NothingNew

LEMMA IdRestart ==
  ASSUME IdInv, Restart
  PROVE  IdInv'
<1> USE NilFacts DEF IdInv, TypeOK, Ids, Restart
<1>1. /\ \A w \in Workers : worker'[w] = Idle
      /\ Idle.form = Nil /\ Idle.result = Nil
      /\ Idle \in [form : Forms \cup {Nil}, maxLong : Ids, result : Ids]
  BY DEF Idle
<1>2. TypeOK'
  BY <1>1
<1>3. DrawOK'
  BY <1>1 DEF DrawOK
<1>4. \A f \in Forms, i \in Nat : Owns(f, i)' => Owns(f, i)
  BY <1>1 DEF Owns
<1>5. Drawing' = {}
  BY <1>1 DEF Drawing
<1> QED BY <1>2, <1>3, <1>4, <1>5, NothingNew

LEMMA IdStep ==
  ASSUME IdInv, [Next]_vars
  PROVE  IdInv'
<1>1. ASSUME NEW w \in Workers, NEW f \in Forms, GetMaxLong(w, f) PROVE IdInv'
  BY <1>1, IdGet
<1>2. ASSUME NEW w \in Workers, PutMaxLong(w) PROVE IdInv'
  BY <1>2, IdPut
<1>3. ASSUME NEW w \in Workers, Redirect(w) PROVE IdInv'
  BY <1>3, IdRedirect
<1>4. ASSUME TypeOK',
             UNCHANGED <<maxUniqueLong, worker, messageSpaceId, contended>>
      PROVE  IdInv'
  <2>1. DrawOK'
    BY <1>4 DEF IdInv, DrawOK
  <2>2. Ahead' /\ Distinct'
    BY <1>4 DEF IdInv, Ahead, Distinct, Owns, Drawing
  <2> QED BY <1>4, <2>1, <2>2 DEF IdInv
<1>5. ASSUME NEW a \in Addresses, NEW f \in Forms, RequestPayment(f, a)
      PROVE  IdInv'
  <2>1. [id |-> messageSpaceId[f], form |-> f]
          \in [id : Int, form : Forms \cup {Nil}]
    BY <1>5 DEF RequestPayment, IdInv, TypeOK, Ids
  <2>2. TypeOK'
    BY <1>5, <2>1, NilFacts DEF RequestPayment, IdInv, TypeOK
  <2> QED BY <1>4, <1>5, <2>2 DEF RequestPayment
<1>6. ASSUME NEW a \in Addresses, NEW i \in Longs, RequestAnyPayment(i, a)
      PROVE  IdInv'
  <2>1. [id |-> i, form |-> Nil] \in [id : Int, form : Forms \cup {Nil}]
    BY LongAssumption
  <2>2. TypeOK'
    BY <1>6, <2>1, NilFacts DEF RequestAnyPayment, IdInv, TypeOK
  <2> QED BY <1>4, <1>6, <2>2 DEF RequestAnyPayment
<1>7. ASSUME NEW a \in Addresses, StorePayment(a) PROVE IdInv'
  <2>1. TypeOK'
    BY <1>7 DEF StorePayment, IdInv, TypeOK
  <2> QED BY <1>4, <1>7, <2>1 DEF StorePayment
<1>8. CASE Restart
  BY <1>8, IdRestart
<1>9. CASE UNCHANGED vars
  <2>1. TypeOK'
    BY <1>9 DEF vars, IdInv, TypeOK
  <2> QED BY <1>4, <1>9, <2>1 DEF vars
<1> QED BY <1>1, <1>2, <1>3, <1>5, <1>6, <1>7, <1>8, <1>9 DEF Next

LEMMA IdCorrect == Spec => []IdInv
<1>1. IdInv /\ [Next]_vars => IdInv'
  BY IdStep
<1> QED BY <1>1, IdInit, PTL DEF Spec

\* However many threads draw ids at once: cache, threads and orders hold data
\* of their types, and what was ordered through a form has its id.
THEOREM TypeCorrect == Spec => []TypeOK
<1>1. IdInv => TypeOK
  BY DEF IdInv
<1> QED BY <1>1, IdCorrect, PTL

\* However many threads draw ids at once, and wherever the server restarts,
\* the counter never falls behind an id that was drawn alone.
THEOREM IdsBelowMaxCorrect == Spec => []IdsBelowMax
<1>1. IdInv => IdsBelowMax
  <2> SUFFICES ASSUME IdInv PROVE IdsBelowMax
    OBVIOUS
  <2>1. ASSUME NEW f \in Forms \ contended, messageSpaceId[f] # Nil
        PROVE  maxUniqueLong # Nil /\ messageSpaceId[f] <= maxUniqueLong
    BY <2>1, NilFacts DEF IdInv, TypeOK, Ids, Ahead, Owns
  <2>2. ASSUME NEW w \in Workers, worker[w].result # Nil,
               worker[w].form \notin contended
        PROVE  maxUniqueLong # Nil /\ worker[w].result <= maxUniqueLong
    <3>1. worker[w].form \in Forms /\ worker[w].result \in Nat
      BY <2>2, NilFacts DEF IdInv, TypeOK, Ids, DrawOK, Idle
    <3>2. Owns(worker[w].form, worker[w].result)
      BY <2>2, <3>1 DEF Owns
    <3> QED BY <3>1, <3>2 DEF IdInv, Ahead
  <2> QED BY <2>1, <2>2 DEF IdsBelowMax
<1> QED BY <1>1, IdCorrect, PTL

\* However many threads draw ids at once, two forms that drew theirs alone are
\* never given the same message space.
THEOREM UniqueIdsCorrect == Spec => []UniqueIds
<1>1. IdInv => UniqueIds
  BY NilFacts DEF IdInv, TypeOK, Ids, Distinct, Owns, UniqueIds
<1> QED BY <1>1, IdCorrect, PTL
=============================================================================
