----------------------------- MODULE SubjectProofs -----------------------------
(***************************************************************************)
(* No holder loses its subscription to an index that is given out twice,   *)
(* for any number of publishers, holders, values and start-ups.  The tasks *)
(* subscribe once, so their index is their place; QtControl comes after    *)
(* them, so its entries are the last ones, and their indices are too high  *)
(* to meet a task: the first observer with the index is QtControl's.       *)
(***************************************************************************)
EXTENDS Subject, SequenceTheorems, FiniteSetTheorems, TLAPS

USE SubjectAssumption

(* The tasks are at their places, from which they are never moved. *)
TasksStay ==
  /\ \A h \in Holders \ {Renewer} : dropping[h] = 0 /\ turn[h] \in {0, 1}
  /\ \A h \in Holders \ {Renewer} : turn[h] = 1 =>
       /\ handle[h] \in DOMAIN observers
       /\ observers[handle[h]] = [index |-> handle[h], holder |-> h, turn |-> 1]
  /\ \A i \in DOMAIN observers : LET o == observers[i] IN
       o.holder # Renewer => o.index = i /\ turn[o.holder] = 1 /\ handle[o.holder] = i

(* the first entry of the renewer *)
First == IF dropping[Renewer] = 0 THEN Len(observers) ELSE Len(observers) - 1

(* Once QtControl has subscribed it is the last observer, and the one before  *)
(* it while it drops that.                                                    *)
ControlIsLast ==
  /\ 1 <= First
  /\ observers[Len(observers)] =
       [index |-> handle[Renewer], holder |-> Renewer, turn |-> turn[Renewer]]
  /\ handle[Renewer] >= Len(observers)
  /\ \A i \in 1 .. First - 1 : observers[i].holder # Renewer
  /\ dropping[Renewer] # 0 =>
       /\ observers[First].holder = Renewer /\ observers[First].index = dropping[Renewer]
       /\ observers[First].turn < turn[Renewer]
       /\ dropping[Renewer] >= First /\ handle[Renewer] = Len(observers)

IInv ==
  /\ TypeOK
  /\ \A h \in Holders : turn[h] = 0 => handle[h] = 0 /\ dropping[h] = 0
  /\ TasksStay
  /\ turn[Renewer] = 0 => \A i \in DOMAIN observers : observers[i].holder # Renewer
  /\ turn[Renewer] > 0 => ControlIsLast /\ \A h \in Holders \ {Renewer} : turn[h] = 1

-----------------------------------------------------------------------------

(* Erasing the first observer with an index keeps the order of the others. *)
LEMMA FirstIsRemoved ==
  ASSUME NEW list \in Seq(Observer), NEW k \in 1 .. Len(list),
         \A i \in 1 .. k - 1 : list[i].index # list[k].index
  PROVE  RemoveObserver(list, list[k].index) =
           [i \in 1 .. Len(list) - 1 |-> IF i < k THEN list[i] ELSE list[i + 1]]
  <1> DEFINE found == {i \in DOMAIN list : list[i].index = list[k].index}
  <1>1. k \in found /\ \A i \in found : i \in 1 .. Len(list) /\ k <= i
    OBVIOUS
  <1>2. Min(found) = k
    BY <1>1 DEF Min
  <1>3. RemoveAt(list, k) = [i \in 1 .. Len(list) - 1 |-> IF i < k THEN list[i] ELSE list[i + 1]]
    <2> DEFINE before == SubSeq(list, 1, k - 1)
               behind == SubSeq(list, k + 1, Len(list))
    <2>1. before \in Seq(Observer) /\ Len(before) = k - 1 /\ \A i \in 1 .. k - 1 : before[i] = list[i]
      OBVIOUS
    <2>2. /\ behind \in Seq(Observer) /\ Len(behind) = Len(list) - k
          /\ \A i \in 1 .. Len(list) - k : behind[i] = list[i + k]
      OBVIOUS
    <2> HIDE DEF before, behind
    <2>3. /\ before \o behind \in Seq(Observer) /\ Len(before \o behind) = Len(list) - 1
          /\ \A i \in 1 .. Len(list) - 1 : (before \o behind)[i] =
               IF i <= Len(before) THEN before[i] ELSE behind[i - Len(before)]
      <3>1. /\ before \o behind \in Seq(Observer)
            /\ Len(before \o behind) = Len(before) + Len(behind)
            /\ \A i \in 1 .. Len(before) + Len(behind) : (before \o behind)[i] =
                 IF i <= Len(before) THEN before[i] ELSE behind[i - Len(before)]
        BY <2>1, <2>2, ConcatProperties
      <3>2. Len(before) + Len(behind) = Len(list) - 1
        BY <2>1, <2>2
      <3> QED
        BY <3>1, <3>2
    <2>4. ASSUME NEW i \in 1 .. Len(list) - 1
          PROVE  (before \o behind)[i] = IF i < k THEN list[i] ELSE list[i + 1]
      <3>1. CASE i < k
        BY <3>1, <2>1, <2>3
      <3>2. CASE ~(i < k)
        <4>1. i - (k - 1) \in 1 .. Len(list) - k /\ (i - (k - 1)) + k = i + 1
          BY <3>2
        <4> QED
          BY <4>1, <3>2, <2>1, <2>2, <2>3
      <3> QED
        BY <3>1, <3>2
    <2>5. before \o behind = [i \in 1 .. Len(list) - 1 |-> (before \o behind)[i]]
      BY <2>3, LenProperties
    <2> QED
      BY <2>4, <2>5 DEF RemoveAt, before, behind
  <1> QED
    BY <1>1, <1>2, <1>3 DEF RemoveObserver
-----------------------------------------------------------------------------
(* Publications leave the observers alone. *)

observerVars == <<observers, handle, dropping, turn>>

(* next() takes a copy of the observers.                                     *)
LEMMA PublishTyped ==
  ASSUME TypeOK, NEW p \in Publishers, NEW retain \in BOOLEAN, Publish(p, retain)
  PROVE  TypeOK' /\ UNCHANGED observerVars
  <1>1. [number |-> sending[p].number + 1, active |-> TRUE,
         retain |-> retain, todo |-> observers] \in Call
    BY DEF TypeOK, Call
  <1> QED
    BY <1>1 DEF TypeOK, Publish, observerVars

(* An observer of the copy is a holder.                                      *)
LEMMA DeliverTyped ==
  ASSUME TypeOK, NEW p \in Publishers, Deliver(p)
  PROVE  TypeOK' /\ UNCHANGED observerVars
  <1> DEFINE observer == Head(sending[p].todo)
             item == Received(Current(p), FALSE)
  <1>1. sending[p] \in Call /\ sending[p].todo \in Seq(Observer) /\ sending[p].todo # <<>>
    BY DEF TypeOK, Deliver, Call
  <1>2. observer \in Observer /\ observer.holder \in Holders /\ Tail(sending[p].todo) \in Seq(Observer)
    <2>1. observer \in Observer /\ Tail(sending[p].todo) \in Seq(Observer)
      BY <1>1, HeadTailProperties
    <2> QED
      BY <2>1 DEF Observer
  <1>3. item \in [value : Value, replayed : BOOLEAN]
    BY <1>1 DEF Received, Current, Value, Call
  <1>4. sending' \in [Publishers -> Call]
    BY <1>1, <1>2 DEF TypeOK, Deliver, Call
  <1>5. got' \in [Holders -> Seq([value : Value, replayed : BOOLEAN])]
    <2> HIDE DEF observer, item
    <2>1. got[observer.holder] \in Seq([value : Value, replayed : BOOLEAN])
      BY <1>2 DEF TypeOK
    <2>2. Append(got[observer.holder], item) \in Seq([value : Value, replayed : BOOLEAN])
      BY <1>3, <2>1
    <2>3. got' = IF observer.turn = turn[observer.holder]
                 THEN [got EXCEPT ![observer.holder] = Append(got[observer.holder], item)] ELSE got
      BY DEF Deliver, observer, item
    <2> QED
      BY <1>2, <2>2, <2>3 DEF TypeOK
  <1> QED
    BY <1>4, <1>5 DEF TypeOK, Deliver, observerVars

(* What is kept is what has been published.                                  *)
LEMMA RetainTyped ==
  ASSUME TypeOK, NEW p \in Publishers, Retain(p)
  PROVE  TypeOK' /\ UNCHANGED observerVars
  <1>1. sending[p] \in Call
    BY DEF TypeOK
  <1>2. Current(p) \in Value
    BY <1>1 DEF Current, Value, Call
  <1>3. sending' \in [Publishers -> Call]
    BY <1>1 DEF TypeOK, Retain, Call
  <1>4. retained' \in Seq(Value) /\ Len(retained') <= 1
    <2>1. CASE sending[p].retain
      <3>1. retained' = <<Current(p)>>
        BY <2>1 DEF Retain
      <3> QED
        BY <3>1, <1>2
    <2>2. CASE ~sending[p].retain
      BY <2>2 DEF Retain, TypeOK
    <2> QED
      BY <2>1, <2>2
  <1> QED
    BY <1>3, <1>4 DEF TypeOK, Retain, observerVars
-----------------------------------------------------------------------------
(* Subscriptions *)

(* A new observer, its replay and its finisher are well typed.               *)
LEMMA SubscribeTyped ==
  ASSUME TypeOK, NEW h \in Holders, Subscribe(h)
  PROVE  TypeOK'
  <1> DEFINE entry == [index |-> Len(observers) + 1, holder |-> h, turn |-> turn[h] + 1]
  <1>1. entry \in Observer /\ Len(observers) + 1 \in Nat
    BY DEF TypeOK, Observer
  <1>2. observers' = Append(observers, entry) /\ observers' \in Seq(Observer)
    BY <1>1 DEF TypeOK, Subscribe
  <1>3. /\ handle' \in [Holders -> Nat] /\ dropping' \in [Holders -> Nat]
        /\ turn' \in [Holders -> Nat] /\ raced' \in [Holders -> BOOLEAN]
    BY <1>1 DEF TypeOK, Subscribe
  <1>4. got' \in [Holders -> Seq([value : Value, replayed : BOOLEAN])]
    <2> DEFINE replay == IF retained = <<>> THEN <<>> ELSE <<Received(retained[1], TRUE)>>
    <2>1. replay \in Seq([value : Value, replayed : BOOLEAN])
      <3>1. CASE retained = <<>>
        BY <3>1
      <3>2. CASE retained # <<>>
        <4>1. retained[1] \in Value
          BY <3>2 DEF TypeOK
        <4>2. Received(retained[1], TRUE) \in [value : Value, replayed : BOOLEAN]
          BY <4>1 DEF Received
        <4> DEFINE item == Received(retained[1], TRUE)
        <4>3. replay = <<item>>
          BY <3>2
        <4>4. item \in [value : Value, replayed : BOOLEAN]
          BY <4>2
        <4> HIDE DEF replay, item
        <4> QED
          BY <4>3, <4>4
      <3> QED
        BY <3>1, <3>2
    <2>2. got' = [got EXCEPT ![h] = replay]
      BY DEF Subscribe
    <2> QED
      BY <2>1, <2>2 DEF TypeOK
  <1>5. since' \in [Holders -> [Publishers -> Nat]]
    <2>1. [p \in Publishers |-> sending[p].number] \in [Publishers -> Nat]
      BY DEF TypeOK, Call
    <2> QED
      BY <2>1 DEF TypeOK, Subscribe
  <1> QED
    BY <1>2, <1>3, <1>4, <1>5 DEF TypeOK, Subscribe

(* The new observer is the last one. *)
LEMMA Subscribed ==
  ASSUME TypeOK, NEW h \in Holders, Subscribe(h)
  PROVE  /\ Len(observers') = Len(observers) + 1
         /\ DOMAIN observers' = 1 .. Len(observers) + 1
         /\ \A i \in 1 .. Len(observers) : observers'[i] = observers[i]
         /\ observers'[Len(observers) + 1] =
              [index |-> Len(observers) + 1, holder |-> h, turn |-> turn[h] + 1]
  BY DEF TypeOK, Subscribe

(* subscribe(): a task takes the next place, QtControl the last one.         *)
LEMMA SubscribeKeeps ==
  ASSUME IInv, NEW h \in Holders, Subscribe(h)
  PROVE  IInv'
  <1> DEFINE L == Len(observers)
  <1> USE DEF IInv
  <1>1. TypeOK' /\ L \in Nat /\ DOMAIN observers = 1 .. L
    <2>1. TypeOK'
      BY SubscribeTyped
    <2>2. L \in Nat /\ DOMAIN observers = 1 .. L
      BY DEF TypeOK
    <2> QED
      BY <2>1, <2>2
  <1>2. /\ Len(observers') = L + 1 /\ DOMAIN observers' = 1 .. L + 1
        /\ \A i \in 1 .. L : observers'[i] = observers[i]
        /\ observers'[L + 1] = [index |-> L + 1, holder |-> h, turn |-> turn[h] + 1]
    BY Subscribed
  <1>3. /\ \A g \in Holders : g # h => turn'[g] = turn[g] /\ handle'[g] = handle[g]
                                        /\ dropping'[g] = dropping[g]
        /\ turn'[h] = turn[h] + 1 /\ handle'[h] = L + 1 /\ dropping'[h] = handle[h]
        /\ turn[h] \in Nat /\ handle[h] \in Nat /\ dropping[h] = 0
    BY DEF TypeOK, Subscribe
  <1>4. \A i \in 1 .. L : observers[i] \in Observer
    BY DEF TypeOK
  <1> HIDE DEF L
  <1>5. \A g \in Holders : turn'[g] = 0 => handle'[g] = 0 /\ dropping'[g] = 0
    BY <1>3
  <1>6. CASE h # Renewer
    <2>1. turn[h] = 0 /\ turn[Renewer] = 0
      <3>1. turn[h] = 0
        BY <1>6 DEF Subscribe, MaySubscribe
      <3> QED
        BY <3>1, <1>6 DEF TypeOK
    <2>2. \A i \in 1 .. L : observers[i].holder # Renewer /\ observers[i].holder # h
      BY <2>1, <1>1, <1>6 DEF TasksStay
    <2>3. TasksStay'
      <3>1. ASSUME NEW i \in 1 .. L + 1
            PROVE  LET o == observers'[i] IN
                   o.holder # Renewer => o.index = i /\ turn'[o.holder] = 1 /\ handle'[o.holder] = i
        <4>1. CASE i = L + 1
          BY <4>1, <1>2, <1>3, <2>1
        <4>2. CASE i \in 1 .. L
          <5>1. observers[i].holder \in Holders \ {h, Renewer}
            BY <4>2, <2>2, <1>4 DEF Observer
          <5> QED
            BY <5>1, <4>2, <1>1, <1>2, <1>3 DEF TasksStay
        <4> QED
          BY <4>1, <4>2, <1>1
      <3>2. ASSUME NEW g \in Holders \ {Renewer}, turn'[g] = 1
            PROVE  /\ handle'[g] \in 1 .. L + 1
                   /\ observers'[handle'[g]] = [index |-> handle'[g], holder |-> g, turn |-> 1]
        <4>1. CASE g = h
          BY <4>1, <1>1, <1>2, <1>3, <2>1
        <4>2. CASE g # h
          BY <4>2, <3>2, <1>1, <1>2, <1>3 DEF TasksStay
        <4> QED
          BY <4>1, <4>2
      <3>3. \A g \in Holders \ {Renewer} : dropping'[g] = 0 /\ turn'[g] \in {0, 1}
        BY <1>3, <2>1 DEF TasksStay
      <3> QED
        BY <3>1, <3>2, <3>3, <1>2 DEF TasksStay
    <2>4. turn'[Renewer] = 0 /\ \A i \in 1 .. L + 1 : observers'[i].holder # Renewer
      BY <2>1, <2>2, <1>1, <1>2, <1>3, <1>6
    <2> QED
      BY <1>1, <1>2, <1>5, <2>3, <2>4
  <1>7. CASE h = Renewer
    <2>1. \A g \in Holders \ {Renewer} : turn[g] = 1
      BY <1>7 DEF Subscribe, MaySubscribe
    <2>2. TasksStay'
      <3>1. ASSUME NEW i \in 1 .. L + 1
            PROVE  LET o == observers'[i] IN
                   o.holder # Renewer => o.index = i /\ turn'[o.holder] = 1 /\ handle'[o.holder] = i
        <4>1. CASE i = L + 1
          BY <4>1, <1>2, <1>7
        <4>2. CASE i \in 1 .. L
          <5> SUFFICES ASSUME observers[i].holder # Renewer
                       PROVE  /\ observers[i].index = i
                              /\ turn'[observers[i].holder] = 1 /\ handle'[observers[i].holder] = i
            BY <4>2, <1>2
          <5>1. observers[i].holder \in Holders \ {Renewer}
            BY <4>2, <1>4 DEF Observer
          <5> QED
            BY <5>1, <4>2, <1>1, <1>3, <1>7 DEF TasksStay
        <4> QED
          BY <4>1, <4>2, <1>1
      <3>2. ASSUME NEW g \in Holders \ {Renewer}, turn'[g] = 1
            PROVE  /\ handle'[g] \in 1 .. L + 1
                   /\ observers'[handle'[g]] = [index |-> handle'[g], holder |-> g, turn |-> 1]
        BY <3>2, <1>1, <1>2, <1>3, <1>7 DEF TasksStay
      <3>3. \A g \in Holders \ {Renewer} : dropping'[g] = 0 /\ turn'[g] \in {0, 1}
        BY <1>3, <1>7 DEF TasksStay
      <3> QED
        BY <3>1, <3>2, <3>3, <1>2 DEF TasksStay
    <2>3. ControlIsLast'
      <3>1. CASE turn[Renewer] = 0
        <4>1. dropping'[Renewer] = 0 /\ First' = L + 1
          BY <3>1, <1>2, <1>3, <1>7 DEF First
        <4>2. \A i \in 1 .. L : observers'[i].holder # Renewer
          BY <3>1, <1>1, <1>2
        <4> QED
          BY <4>1, <4>2, <1>1, <1>2, <1>3, <1>7 DEF ControlIsLast
      <3>2. CASE turn[Renewer] > 0
        <4>1. /\ First = L /\ 1 <= L /\ handle[Renewer] >= L
              /\ observers[L] = [index |-> handle[Renewer], holder |-> Renewer, turn |-> turn[Renewer]]
              /\ \A i \in 1 .. L - 1 : observers[i].holder # Renewer
          BY <3>2, <1>3, <1>7 DEF ControlIsLast, First, L
        <4>2. dropping'[Renewer] # 0 /\ First' = L
          BY <4>1, <1>1, <1>2, <1>3, <1>7 DEF First
        <4>3. observers'[L] = observers[L] /\ \A i \in 1 .. L - 1 : observers'[i] = observers[i]
          BY <4>1, <1>1, <1>2
        <4> QED
          BY <4>1, <4>2, <4>3, <1>1, <1>2, <1>3, <1>7 DEF ControlIsLast
      <3> QED
        BY <3>1, <3>2, <1>3, <1>7
    <2> QED
      BY <1>1, <1>3, <1>5, <1>7, <2>1, <2>2, <2>3
  <1> QED
    BY <1>6, <1>7

(* Only QtControl drops an observer, and it is the one before the last.       *)
LEMMA DropKeeps ==
  ASSUME IInv, NEW h \in Holders, DropOld(h)
  PROVE  IInv'
  <1> DEFINE L == Len(observers)
  <1> USE DEF IInv
  <1>1. observers \in Seq(Observer) /\ L \in Nat /\ DOMAIN observers = 1 .. L
    BY DEF TypeOK
  <1>2. h = Renewer /\ dropping[Renewer] # 0 /\ turn[Renewer] > 0
    <2>1. h = Renewer /\ dropping[Renewer] # 0
      BY DEF DropOld, TasksStay
    <2> QED
      BY <2>1 DEF TypeOK
  <1>3. \A i \in 1 .. L : observers[i] \in Observer
    BY <1>1
  <1>4. /\ L - 1 \in 1 .. L /\ dropping[Renewer] = observers[L - 1].index
        /\ observers[L] = [index |-> handle[Renewer], holder |-> Renewer, turn |-> turn[Renewer]]
        /\ handle[Renewer] = L /\ dropping[Renewer] >= L - 1
        /\ \A i \in 1 .. L - 2 : observers[i].holder # Renewer
    BY <1>1, <1>2 DEF ControlIsLast, First
  <1>5. \A i \in 1 .. L - 2 : observers[i].index = i
    BY <1>1, <1>4 DEF TasksStay
  <1>6. observers' = [i \in 1 .. L - 1 |-> IF i < L - 1 THEN observers[i] ELSE observers[i + 1]]
    <2>1. \A i \in 1 .. (L - 1) - 1 : observers[i].index # observers[L - 1].index
      BY <1>1, <1>4, <1>5
    <2>2. RemoveObserver(observers, observers[L - 1].index) =
            [i \in 1 .. L - 1 |-> IF i < L - 1 THEN observers[i] ELSE observers[i + 1]]
      BY <1>1, <1>4, <2>1, FirstIsRemoved
    <2> QED
      BY <1>2, <1>4, <2>2 DEF DropOld
  <1>7. /\ observers' \in Seq(Observer) /\ Len(observers') = L - 1 /\ DOMAIN observers' = 1 .. L - 1
        /\ \A i \in 1 .. L - 2 : observers'[i] = observers[i]
        /\ observers'[L - 1] = observers[L]
    <2>1. \A i \in 1 .. L - 1 : (IF i < L - 1 THEN observers[i] ELSE observers[i + 1]) \in Observer
      BY <1>1, <1>3
    <2>2. observers' \in [1 .. L - 1 -> Observer] /\ L - 1 \in Nat
      BY <1>1, <1>4, <1>6, <2>1
    <2>3. observers' \in Seq(Observer) /\ Len(observers') = L - 1 /\ DOMAIN observers' = 1 .. L - 1
      BY <2>2, SeqDef
    <2>4. \A i \in 1 .. L - 2 : observers'[i] = observers[i]
      BY <1>1, <1>4, <1>6
    <2>5. observers'[L - 1] = observers[L]
      BY <1>1, <1>4, <1>6
    <2> QED
      BY <2>3, <2>4, <2>5
  <1>8. /\ \A g \in Holders : g # Renewer => dropping'[g] = dropping[g]
        /\ dropping'[Renewer] = 0 /\ UNCHANGED <<handle, turn>>
        /\ dropping' \in [Holders -> Nat]
    BY <1>2 DEF DropOld, TypeOK
  <1>9. TypeOK'
    BY <1>7, <1>8 DEF TypeOK, DropOld
  <1> HIDE DEF L
  <1>10. TasksStay'
    <2>1. ASSUME NEW i \in 1 .. L - 1
          PROVE  LET o == observers'[i] IN
                 o.holder # Renewer => o.index = i /\ turn[o.holder] = 1 /\ handle[o.holder] = i
      <3>1. CASE i = L - 1
        BY <3>1, <1>4, <1>7
      <3>2. CASE i \in 1 .. L - 2
        BY <3>2, <1>1, <1>7 DEF TasksStay
      <3> QED
        BY <3>1, <3>2, <1>1
    <2>2. ASSUME NEW g \in Holders \ {Renewer}, turn[g] = 1
          PROVE  /\ handle[g] \in 1 .. L - 1
                 /\ observers'[handle[g]] = [index |-> handle[g], holder |-> g, turn |-> 1]
      <3>1. handle[g] \in 1 .. L /\ observers[handle[g]].holder = g
            /\ observers[handle[g]] = [index |-> handle[g], holder |-> g, turn |-> 1]
        BY <2>2, <1>1 DEF TasksStay
      <3>2. handle[g] # L /\ handle[g] # L - 1
        <4>1. observers[L].holder = Renewer /\ observers[L - 1].holder = Renewer
          BY <1>1, <1>2, <1>4 DEF ControlIsLast, First, L
        <4> QED
          BY <3>1, <4>1
      <3>3. handle[g] \in 1 .. L - 2
        BY <3>1, <3>2, <1>1
      <3> QED
        BY <3>1, <3>3, <1>1, <1>7
    <2>3. \A g \in Holders \ {Renewer} : dropping'[g] = 0 /\ turn[g] \in {0, 1}
      BY <1>8 DEF TasksStay
    <2> QED
      BY <2>1, <2>2, <2>3, <1>7, <1>8 DEF TasksStay
  <1>11. ControlIsLast'
    <2>1. First' = L - 1
      BY <1>7, <1>8 DEF First
    <2> QED
      BY <2>1, <1>1, <1>4, <1>7, <1>8 DEF ControlIsLast
  <1> QED
    BY <1>2, <1>8, <1>9, <1>10, <1>11

-----------------------------------------------------------------------------

(* The invariant speaks of the observers only.                               *)
LEMMA PublicationKeeps ==
  ASSUME IInv, TypeOK', UNCHANGED observerVars
  PROVE  IInv'
  BY DEF IInv, observerVars, TasksStay, ControlIsLast, First

(* The invariant is inductive.                                               *)
LEMMA Invariance == Spec => []IInv
  <1>1. Init => IInv
    BY DEF Init, IInv, TypeOK, TasksStay, Call
  <1>2. IInv /\ [Next]_vars => IInv'
    <2> SUFFICES ASSUME IInv, [Next]_vars PROVE IInv'
      OBVIOUS
    <2>1. ASSUME NEW p \in Publishers, NEW retain \in BOOLEAN, Publish(p, retain) PROVE IInv'
      BY <2>1, PublishTyped, PublicationKeeps DEF IInv
    <2>2. ASSUME NEW p \in Publishers, Deliver(p) PROVE IInv'
      BY <2>2, DeliverTyped, PublicationKeeps DEF IInv
    <2>3. ASSUME NEW p \in Publishers, Retain(p) PROVE IInv'
      BY <2>3, RetainTyped, PublicationKeeps DEF IInv
    <2>4. ASSUME NEW h \in Holders, Subscribe(h) PROVE IInv'
      BY <2>4, SubscribeKeeps
    <2>5. ASSUME NEW h \in Holders, DropOld(h) PROVE IInv'
      BY <2>5, DropKeeps
    <2>6. CASE UNCHANGED vars
      BY <2>6 DEF vars, IInv, TypeOK, TasksStay, ControlIsLast, First
    <2> QED
      BY <2>1, <2>2, <2>3, <2>4, <2>5, <2>6 DEF Next
  <1> QED
    BY <1>1, <1>2, PTL DEF Spec

(* The invariant says that every holder is observed. *)
LEMMA Observed ==
  ASSUME IInv
  PROVE  EveryHolderObserves
  <1> SUFFICES ASSUME NEW h \in Holders, turn[h] > 0
               PROVE  \E i \in DOMAIN observers :
                        /\ observers[i] = [index |-> handle[h], holder |-> h, turn |-> turn[h]]
                        /\ \A j \in DOMAIN observers \ {i} : observers[j].holder = h =>
                             /\ dropping[h] # 0 /\ observers[j].index = dropping[h]
                             /\ observers[j].turn < turn[h]
    BY DEF EveryHolderObserves
  <1>1. Len(observers) \in Nat /\ DOMAIN observers = 1 .. Len(observers)
    BY DEF IInv, TypeOK
  <1>2. CASE h = Renewer
    <2>1. ControlIsLast
      BY <1>2 DEF IInv
    <2>2. Len(observers) \in DOMAIN observers
      BY <1>1, <2>1 DEF ControlIsLast, First
    <2>3. ASSUME NEW j \in DOMAIN observers \ {Len(observers)}, observers[j].holder = h
          PROVE  /\ dropping[h] # 0 /\ observers[j].index = dropping[h]
                 /\ observers[j].turn < turn[h]
      <3>1. j \in 1 .. Len(observers) - 1
        BY <1>1, <2>3
      <3>2. CASE dropping[Renewer] = 0
        BY <1>1, <1>2, <2>1, <2>3, <3>1, <3>2 DEF ControlIsLast, First
      <3>3. CASE dropping[Renewer] # 0
        <4>1. j = Len(observers) - 1
          BY <1>1, <1>2, <2>1, <2>3, <3>1, <3>3 DEF ControlIsLast, First
        <4> QED
          BY <1>2, <2>1, <3>3, <4>1 DEF ControlIsLast, First
      <3> QED
        BY <3>2, <3>3
    <2>4. observers[Len(observers)] =
            [index |-> handle[h], holder |-> h, turn |-> turn[h]]
      BY <1>2, <2>1 DEF ControlIsLast
    <2> QED
      BY <2>2, <2>3, <2>4
  <1>3. CASE h # Renewer
    <2>1. /\ turn[h] = 1 /\ handle[h] \in DOMAIN observers
          /\ observers[handle[h]] = [index |-> handle[h], holder |-> h, turn |-> 1]
      BY <1>3 DEF IInv, TasksStay
    <2>2. ASSUME NEW j \in DOMAIN observers \ {handle[h]} PROVE observers[j].holder # h
      BY <1>3 DEF IInv, TasksStay
    <2> DEFINE i == handle[h]
    <2>3. /\ i \in DOMAIN observers
          /\ observers[i] = [index |-> handle[h], holder |-> h, turn |-> turn[h]]
          /\ \A j \in DOMAIN observers \ {i} : observers[j].holder # h
      BY <2>1, <2>2
    <2> HIDE DEF i
    <2> QED
      BY <2>3
  <1> QED
    BY <1>2, <1>3

(* Subject::subscribe: whoever has subscribed stays an observer under the      *)
(* index it got, however often QtControl subscribes again.                     *)
THEOREM NobodyIsDropped == Spec => []EveryHolderObserves
  <1>1. IInv => EveryHolderObserves
    BY Observed
  <1> QED
    BY <1>1, Invariance, PTL

(* The state of the subject is well typed for any number of publishers.       *)
THEOREM TypeCorrect == Spec => []TypeOK
  <1>1. IInv => TypeOK
    BY DEF IInv
  <1> QED
    BY <1>1, Invariance, PTL
-----------------------------------------------------------------------------
(* Deliveries *)

Todo(p) == sending[p].todo
Count(h, p) == Cardinality(Heard(h, p))

(* the last subscription of h is among those that p has still to call *)
Pending(h, p) ==
  \E i \in DOMAIN Todo(p) : Todo(p)[i].holder = h /\ Todo(p)[i].turn = turn[h]

(* A copy of the observers holds each subscription once, and none to come. *)
Copy(p) ==
  /\ ~sending[p].active => Todo(p) = <<>>
  /\ \A i \in DOMAIN Todo(p) :
       turn[Todo(p)[i].holder] > 0 /\ Todo(p)[i].turn <= turn[Todo(p)[i].holder]
  /\ \A i, j \in DOMAIN Todo(p) :
       Todo(p)[i].holder = Todo(p)[j].holder /\ Todo(p)[i].turn = Todo(p)[j].turn => i = j

(* A subscription has been called with all values since it was made, but for *)
(* the one it is pending for, and the last of them is the one before that.   *)
Told(h, p) ==
  turn[h] > 0 =>
    /\ since[h][p] <= sending[p].number
    /\ Count(h, p) = sending[p].number - since[h][p] - (IF Pending(h, p) THEN 1 ELSE 0)
    /\ sending[p].active /\ ~raced[h] => since[h][p] < sending[p].number
    /\ Count(h, p) > 0 =>
         \E i \in Heard(h, p) :
           got[h][i].value = [publisher |-> p, number |-> since[h][p] + Count(h, p)]

(* the value that is retained has arrived *)
Replayed(h) ==
  turn[h] > 0 /\ ~raced[h] /\ retained # <<>> =>
    \E i \in DOMAIN got[h] : got[h][i].value = retained[1]

Delivery ==
  /\ \A p \in Publishers : Copy(p)
  /\ \A h \in Holders : Replayed(h)
  /\ \A h \in Holders, p \in Publishers : Told(h, p)
  /\ InOrder

(* What is counted is finite. *)
LEMMA Counted ==
  ASSUME TypeOK, NEW h \in Holders, NEW p \in Publishers
  PROVE  IsFiniteSet(Heard(h, p)) /\ Count(h, p) \in Nat
  <1>1. Len(got[h]) \in Nat /\ DOMAIN got[h] = 1 .. Len(got[h])
    BY DEF TypeOK
  <1>2. IsFiniteSet(1 .. Len(got[h])) /\ Heard(h, p) \in SUBSET (1 .. Len(got[h]))
    BY <1>1, FS_Interval DEF Heard
  <1>3. IsFiniteSet(Heard(h, p))
    BY <1>2, FS_Subset
  <1> QED
    BY <1>3, FS_CardinalityType DEF Count

(* What Told says of a subscription with a value pending, or without. *)
LEMMA CountedSince ==
  ASSUME TypeOK, NEW h \in Holders, NEW p \in Publishers, turn[h] > 0, Told(h, p)
  PROVE  /\ since[h][p] \in Nat /\ sending[p].number \in Nat /\ Count(h, p) \in Nat
         /\ since[h][p] <= sending[p].number
         /\ Pending(h, p) => Count(h, p) = sending[p].number - since[h][p] - 1
         /\ ~Pending(h, p) => Count(h, p) = sending[p].number - since[h][p]
  <1>1. since[h][p] \in Nat /\ sending[p].number \in Nat
    BY DEF TypeOK, Call
  <1>2. Count(h, p) \in Nat
    BY Counted
  <1> QED
    BY <1>1, <1>2 DEF Told

(* At different places of the list there are different subscriptions. *)
LEMMA ObserversDiffer ==
  ASSUME IInv
  PROVE  /\ \A i \in DOMAIN observers :
              turn[observers[i].holder] > 0 /\ observers[i].turn <= turn[observers[i].holder]
         /\ \A i, j \in DOMAIN observers :
              observers[i].holder = observers[j].holder /\ observers[i].turn = observers[j].turn => i = j
  <1> USE DEF IInv
  <1>0. /\ Len(observers) \in Nat /\ DOMAIN observers = 1 .. Len(observers)
        /\ \A i \in DOMAIN observers : observers[i] \in Observer
        /\ turn[Renewer] \in Nat
    BY DEF TypeOK
  <1>1. ASSUME NEW i \in DOMAIN observers, observers[i].holder # Renewer
        PROVE  /\ turn[observers[i].holder] = 1 /\ handle[observers[i].holder] = i
               /\ observers[i].turn = 1
    <2>1. observers[i].holder \in Holders \ {Renewer}
      BY <1>0, <1>1 DEF Observer
    <2>2. turn[observers[i].holder] = 1 /\ handle[observers[i].holder] = i
      BY <1>1 DEF TasksStay
    <2>3. observers[handle[observers[i].holder]] =
            [index |-> handle[observers[i].holder], holder |-> observers[i].holder, turn |-> 1]
      BY <2>1, <2>2 DEF TasksStay
    <2>4. observers[i] = [index |-> i, holder |-> observers[i].holder, turn |-> 1]
      BY <2>2, <2>3
    <2>5. observers[i].turn = 1
      BY <2>4
    <2> QED
      BY <2>2, <2>5
  <1>2. ASSUME NEW i \in DOMAIN observers, observers[i].holder = Renewer
        PROVE  /\ turn[Renewer] > 0
               /\ \/ i = Len(observers) /\ observers[i].turn = turn[Renewer]
                  \/ i = Len(observers) - 1 /\ observers[i].turn < turn[Renewer]
    <2>1. turn[Renewer] > 0 /\ ControlIsLast
      BY <1>0, <1>2
    <2>2. i >= First
      BY <1>0, <1>2, <2>1 DEF ControlIsLast, First
    <2>3. i = Len(observers) \/ (i = Len(observers) - 1 /\ dropping[Renewer] # 0 /\ i = First)
      BY <1>0, <2>1, <2>2 DEF First
    <2> QED
      BY <2>1, <2>3 DEF ControlIsLast
  <1>3. ASSUME NEW i \in DOMAIN observers
        PROVE  turn[observers[i].holder] > 0 /\ observers[i].turn <= turn[observers[i].holder]
    <2>1. CASE observers[i].holder # Renewer
      BY <1>1, <2>1
    <2>2. CASE observers[i].holder = Renewer
      <3>1. observers[i].turn \in Nat
        BY <1>0 DEF Observer
      <3> QED
        BY <1>0, <1>2, <2>2, <3>1
    <2> QED
      BY <2>1, <2>2
  <1>4. ASSUME NEW i \in DOMAIN observers, NEW j \in DOMAIN observers,
               observers[i].holder = observers[j].holder, observers[i].turn = observers[j].turn
        PROVE  i = j
    <2>1. CASE observers[i].holder # Renewer
      BY <1>1, <1>4, <2>1
    <2>2. CASE observers[i].holder = Renewer
      <3>1. observers[j].holder = Renewer
        BY <1>4, <2>2
      <3>2. /\ \/ i = Len(observers) /\ observers[i].turn = turn[Renewer]
               \/ i = Len(observers) - 1 /\ observers[i].turn < turn[Renewer]
            /\ \/ j = Len(observers) /\ observers[j].turn = turn[Renewer]
               \/ j = Len(observers) - 1 /\ observers[j].turn < turn[Renewer]
        BY <1>2, <2>2, <3>1
      <3>3. ~(turn[Renewer] < turn[Renewer])
        BY <1>0
      <3> QED
        BY <1>4, <3>2, <3>3
    <2> QED
      BY <2>1, <2>2
  <1> QED
    BY <1>3, <1>4

(* next() takes a copy in which every subscription is pending. *)
LEMMA PublishDelivers ==
  ASSUME IInv, Delivery, NEW p \in Publishers, NEW retain \in BOOLEAN, Publish(p, retain)
  PROVE  Delivery'
  <1>0. TypeOK /\ TypeOK' /\ EveryHolderObserves
    BY Observed, PublishTyped DEF IInv
  <1>1. /\ sending'[p].number = sending[p].number + 1 /\ sending'[p].active /\ sending'[p].todo = observers
        /\ \A q \in Publishers \ {p} : sending'[q] = sending[q]
        /\ ~sending[p].active /\ sending[p].number \in Nat
        /\ UNCHANGED <<observers, retained, turn, got, since, raced>>
    BY <1>0 DEF Publish, TypeOK, Call
  <1>2. /\ \A q \in Publishers : q # p => Todo(q)' = Todo(q)
        /\ Todo(p)' = observers /\ Todo(p) = <<>>
    BY <1>1 DEF Todo, Delivery, Copy
  <1>3. \A q \in Publishers : Copy(q)'
    <2>1. \A q \in Publishers : q # p => Copy(q)'
      BY <1>1, <1>2 DEF Delivery, Copy
    <2>2. Copy(p)'
      BY <1>1, <1>2, ObserversDiffer DEF Copy
    <2> QED
      BY <2>1, <2>2
  <1>4. \A h \in Holders : Replayed(h)'
    BY <1>1 DEF Delivery, Replayed
  <1>5. \A h \in Holders, q \in Publishers : Heard(h, q)' = Heard(h, q) /\ Count(h, q)' = Count(h, q)
    BY <1>1 DEF Heard, Count
  <1>6. ASSUME NEW h \in Holders, NEW q \in Publishers
        PROVE  Told(h, q)'
    <2>1. CASE q # p
      <3>1. Pending(h, q)' = Pending(h, q)
        BY <1>1, <1>2, <2>1 DEF Pending
      <3> QED
        BY <1>1, <1>5, <2>1, <3>1 DEF Delivery, Told
    <2>2. CASE q = p
      <3> SUFFICES ASSUME turn[h] > 0 PROVE Told(h, p)'
        BY <1>1, <2>2 DEF Told
      <3>1. ~Pending(h, p)
        BY <1>2 DEF Pending
      <3>2. Pending(h, p)'
        <4>1. PICK i \in DOMAIN observers : observers[i] = [index |-> handle[h], holder |-> h, turn |-> turn[h]]
          BY <1>0 DEF EveryHolderObserves
        <4> QED
          BY <1>1, <1>2, <4>1 DEF Pending
      <3>3. /\ since[h][p] \in Nat /\ Count(h, p) \in Nat
            /\ since[h][p] <= sending[p].number /\ Count(h, p) = sending[p].number - since[h][p]
        BY <1>0, <1>1, <3>1, CountedSince DEF Delivery
      <3>4. Count(h, p) > 0 => \E i \in Heard(h, p) :
              got[h][i].value = [publisher |-> p, number |-> since[h][p] + Count(h, p)]
        BY DEF Delivery, Told
      <3>5. /\ since[h][p] <= sending'[p].number /\ since[h][p] < sending'[p].number
            /\ Count(h, p) = sending'[p].number - since[h][p] - 1
        BY <1>1, <3>3
      <3> QED
        BY <1>1, <1>5, <3>2, <3>4, <3>5 DEF Told
    <2> QED
      BY <2>1, <2>2
  <1>7. InOrder'
    BY <1>1, <1>5 DEF Delivery, InOrder
  <1> QED
    BY <1>3, <1>4, <1>6, <1>7 DEF Delivery

(* One more call of a subscription. *)
LEMMA HeardMore ==
  ASSUME TypeOK, NEW h \in Holders, NEW p \in Publishers, NEW item,
         item.value.publisher = p, ~item.replayed, got'[h] = Append(got[h], item),
         got[h] \in Seq([value : Value, replayed : BOOLEAN])
  PROVE  /\ Heard(h, p)' = Heard(h, p) \cup {Len(got[h]) + 1} /\ Count(h, p)' = Count(h, p) + 1
         /\ \A i \in Heard(h, p) :
              /\ got'[h][i] = got[h][i]
              /\ {j \in Heard(h, p)' : j <= i} = {j \in Heard(h, p) : j <= i}
         /\ {j \in Heard(h, p)' : j <= Len(got[h]) + 1} = Heard(h, p)'
         /\ \A q \in Publishers : q # p => Heard(h, q)' = Heard(h, q)
  <1>1. /\ Len(got[h]) \in Nat /\ DOMAIN got[h] = 1 .. Len(got[h])
        /\ DOMAIN got'[h] = 1 .. Len(got[h]) + 1
        /\ \A i \in 1 .. Len(got[h]) : got'[h][i] = got[h][i]
        /\ got'[h][Len(got[h]) + 1] = item
    OBVIOUS
  <1>2. Heard(h, p)' = Heard(h, p) \cup {Len(got[h]) + 1}
    BY <1>1 DEF Heard
  <1>3. \A i \in Heard(h, p) : i \in 1 .. Len(got[h])
    BY <1>1 DEF Heard
  <1>4. Count(h, p)' = Count(h, p) + 1
    <2>1. Len(got[h]) + 1 \notin Heard(h, p)
      BY <1>1, <1>3
    <2> QED
      BY <1>2, <2>1, Counted, FS_AddElement DEF Count
  <1>5. \A q \in Publishers : q # p => Heard(h, q)' = Heard(h, q)
    BY <1>1 DEF Heard
  <1>6. \A i \in Heard(h, p) : {j \in Heard(h, p)' : j <= i} = {j \in Heard(h, p) : j <= i}
    BY <1>1, <1>2, <1>3
  <1>7. {j \in Heard(h, p)' : j <= Len(got[h]) + 1} = Heard(h, p)'
    BY <1>1, <1>2, <1>3
  <1> QED
    BY <1>1, <1>2, <1>3, <1>4, <1>5, <1>6, <1>7

(* The next observer of the copy is called, if it is still subscribed. *)
LEMMA DeliverDelivers ==
  ASSUME IInv, Delivery, NEW p \in Publishers, Deliver(p)
  PROVE  Delivery'
  <1> DEFINE o == Head(Todo(p))
             item == Received(Current(p), FALSE)
             Result == Seq([value : Value, replayed : BOOLEAN])
  <1>0. TypeOK /\ TypeOK'
    BY DeliverTyped DEF IInv
  <1>1. /\ Todo(p) \in Seq(Observer) /\ Todo(p) # <<>> /\ sending[p].active
        /\ sending'[p] = [sending[p] EXCEPT !.todo = Tail(Todo(p))]
        /\ sending[p] \in Call /\ sending[p].number \in Nat
        /\ \A q \in Publishers : q # p => sending'[q] = sending[q]
        /\ UNCHANGED <<observers, retained, turn, since, raced>>
    BY <1>0 DEF Deliver, TypeOK, Call, Todo
  <1>2. /\ sending'[p].number = sending[p].number /\ sending'[p].active
        /\ Todo(p)' = Tail(Todo(p)) /\ \A q \in Publishers : q # p => Todo(q)' = Todo(q)
    BY <1>1 DEF Call, Todo
  <1>3. /\ Len(Todo(p)) \in Nat /\ Len(Todo(p)) > 0 /\ DOMAIN Todo(p) = 1 .. Len(Todo(p))
        /\ DOMAIN Todo(p)' = 1 .. Len(Todo(p)) - 1 /\ o = Todo(p)[1]
        /\ \A i \in 1 .. Len(Todo(p)) - 1 : Todo(p)'[i] = Todo(p)[i + 1]
        /\ o \in Observer /\ o.holder \in Holders
    <2>1. o \in Observer
      BY <1>1, HeadTailProperties
    <2>2. o.holder \in Holders
      BY <2>1 DEF Observer
    <2> HIDE DEF o
    <2>3. Len(Todo(p)) \in Nat /\ Len(Todo(p)) > 0 /\ DOMAIN Todo(p) = 1 .. Len(Todo(p))
      BY <1>1
    <2>4. /\ DOMAIN Tail(Todo(p)) = 1 .. Len(Todo(p)) - 1
          /\ \A i \in 1 .. Len(Todo(p)) - 1 : Tail(Todo(p))[i] = Todo(p)[i + 1]
      BY <1>1
    <2>5. o = Todo(p)[1]
      BY <1>1 DEF o
    <2> QED
      BY <1>2, <2>1, <2>2, <2>3, <2>4, <2>5
  <1> HIDE DEF o
  <1>4. /\ \A i \in 1 .. Len(Todo(p)) :
             turn[Todo(p)[i].holder] > 0 /\ Todo(p)[i].turn <= turn[Todo(p)[i].holder]
        /\ \A i, j \in 1 .. Len(Todo(p)) :
             Todo(p)[i].holder = Todo(p)[j].holder /\ Todo(p)[i].turn = Todo(p)[j].turn => i = j
    BY <1>3 DEF Delivery, Copy
  <1>5. \A q \in Publishers : Copy(q)'
    <2>1. \A q \in Publishers : q # p => Copy(q)'
      BY <1>1, <1>2 DEF Delivery, Copy
    <2>2. \A i \in 1 .. Len(Todo(p)) - 1 : i + 1 \in 1 .. Len(Todo(p))
      BY <1>3
    <2>3. \A i, j \in 1 .. Len(Todo(p)) - 1 : i + 1 = j + 1 => i = j
      BY <1>3
    <2>4. Copy(p)'
      BY <1>1, <1>2, <1>3, <1>4, <2>2, <2>3 DEF Copy
    <2> QED
      BY <2>1, <2>4
  <1>6. ASSUME NEW h \in Holders, h # o.holder \/ o.turn # turn[h]
        PROVE  Pending(h, p)' = Pending(h, p)
    <2>1. Pending(h, p)' => Pending(h, p)
      <3>1. \A i \in 1 .. Len(Todo(p)) - 1 : i + 1 \in 1 .. Len(Todo(p))
        BY <1>3
      <3> QED
        BY <1>1, <1>3, <3>1 DEF Pending
    <2>2. Pending(h, p) => Pending(h, p)'
      <3> SUFFICES ASSUME NEW i \in 1 .. Len(Todo(p)), Todo(p)[i].holder = h, Todo(p)[i].turn = turn[h]
                   PROVE  Pending(h, p)'
        BY <1>3 DEF Pending
      <3>1. i # 1
        BY <1>3, <1>6
      <3>2. i - 1 \in 1 .. Len(Todo(p)) - 1 /\ (i - 1) + 1 = i
        BY <1>3, <3>1
      <3>3. Todo(p)'[i - 1] = Todo(p)[i]
        BY <1>3, <3>2
      <3> QED
        BY <1>1, <1>3, <3>2, <3>3 DEF Pending
    <2> QED
      BY <2>1, <2>2 DEF Pending
  <1>7. \A h \in Holders, q \in Publishers : q # p => Pending(h, q)' = Pending(h, q)
    BY <1>1, <1>2 DEF Pending
  <1>8. CASE o.turn # turn[o.holder]
    <2>1. got' = got
      BY <1>8 DEF Deliver, o, Todo
    <2>2. \A h \in Holders, q \in Publishers :
            /\ Heard(h, q)' = Heard(h, q) /\ Count(h, q)' = Count(h, q)
            /\ Pending(h, q)' = Pending(h, q)
      BY <1>6, <1>7, <1>8, <2>1 DEF Heard, Count
    <2>3. \A q \in Publishers : sending'[q].number = sending[q].number /\ sending'[q].active = sending[q].active
      BY <1>1, <1>2
    <2>4. \A h \in Holders, q \in Publishers : Told(h, q)'
      BY <1>1, <2>1, <2>2, <2>3 DEF Delivery, Told
    <2>5. InOrder' /\ \A h \in Holders : Replayed(h)'
      BY <1>1, <2>1, <2>2 DEF Delivery, InOrder, Replayed
    <2> QED
      BY <1>5, <2>4, <2>5 DEF Delivery
  <1>9. CASE o.turn = turn[o.holder]
    <2>0. PICK g \in Holders : g = o.holder
      BY <1>3
    <2>1. /\ got'[g] = Append(got[g], item) /\ \A h \in Holders : h # g => got'[h] = got[h]
          /\ got[g] \in Result /\ turn[g] > 0
      <3>1. got \in [Holders -> Result]
        BY <1>0 DEF TypeOK
      <3>2. got' = [got EXCEPT ![g] = Append(got[g], item)]
        BY <1>9, <2>0 DEF Deliver, o, Todo
      <3>3. turn[g] > 0
        <4>1. 1 \in 1 .. Len(Todo(p))
          BY <1>3
        <4> QED
          BY <1>3, <1>4, <2>0, <4>1
      <3> QED
        BY <3>1, <3>2, <3>3
    <2>2. item.value = [publisher |-> p, number |-> sending[p].number] /\ item.value.publisher = p /\ ~item.replayed
      BY DEF Received, Current
    <2> HIDE DEF item, Result
    <2>3. /\ Heard(g, p)' = Heard(g, p) \cup {Len(got[g]) + 1} /\ Count(g, p)' = Count(g, p) + 1
          /\ \A i \in Heard(g, p) :
              /\ got'[g][i] = got[g][i]
              /\ {j \in Heard(g, p)' : j <= i} = {j \in Heard(g, p) : j <= i}
          /\ {j \in Heard(g, p)' : j <= Len(got[g]) + 1} = Heard(g, p)'
          /\ \A q \in Publishers : q # p => Heard(g, q)' = Heard(g, q)
      BY <1>0, <2>1, <2>2, HeardMore DEF Result
    <2>4. got'[g][Len(got[g]) + 1] = item /\ \A i \in DOMAIN got[g] : i \in DOMAIN got'[g] /\ got'[g][i] = got[g][i]
      <3>1. \A s \in Result : /\ Append(s, item)[Len(s) + 1] = item
                              /\ \A i \in DOMAIN s : i \in DOMAIN Append(s, item) /\ Append(s, item)[i] = s[i]
        BY DEF Result
      <3> QED
        BY <2>1, <3>1
    <2>5. \A h \in Holders, q \in Publishers : h # g \/ q # p =>
            Heard(h, q)' = Heard(h, q) /\ Count(h, q)' = Count(h, q)
      <3>1. \A h \in Holders, q \in Publishers : h # g => Heard(h, q)' = Heard(h, q)
        BY <2>1 DEF Heard
      <3>2. \A h \in Holders, q \in Publishers : h # g \/ q # p => Heard(h, q)' = Heard(h, q)
        BY <2>3, <3>1
      <3> QED
        BY <3>2 DEF Count
    <2>6. Pending(g, p) /\ ~Pending(g, p)'
      <3>1. Pending(g, p)
        BY <1>3, <1>9, <2>0 DEF Pending
      <3>2. ASSUME NEW i \in 1 .. Len(Todo(p)) - 1, Todo(p)'[i].holder = g, Todo(p)'[i].turn = turn[g]
            PROVE  FALSE
        <4>1. i + 1 \in 1 .. Len(Todo(p)) /\ 1 \in 1 .. Len(Todo(p)) /\ i + 1 # 1
          BY <1>3
        <4>2. Todo(p)[i + 1].holder = Todo(p)[1].holder /\ Todo(p)[i + 1].turn = Todo(p)[1].turn
          BY <1>3, <1>9, <2>0, <3>2
        <4> QED
          BY <1>4, <4>1, <4>2
      <3> QED
        BY <1>1, <1>3, <3>1, <3>2 DEF Pending
    <2>7. /\ since[g][p] \in Nat /\ Count(g, p) \in Nat /\ since[g][p] <= sending[p].number
          /\ Count(g, p) = sending[p].number - since[g][p] - 1
      BY <1>0, <2>1, <2>6, CountedSince DEF Delivery
    <2>8. sending[p].number = since[g][p] + (Count(g, p) + 1) /\ Count(g, p) + 1 = sending[p].number - since[g][p]
      BY <1>1, <2>7
    <2>9. ASSUME NEW h \in Holders, NEW q \in Publishers
          PROVE  Told(h, q)'
      <3>1. CASE h # g \/ q # p
        <4>1. Pending(h, q)' = Pending(h, q)
          BY <1>6, <1>7, <2>0, <3>1
        <4>2. sending'[q].number = sending[q].number /\ sending'[q].active = sending[q].active
          BY <1>1, <1>2
        <4>3. Heard(h, q)' = Heard(h, q) /\ Count(h, q)' = Count(h, q)
          BY <2>5, <3>1
        <4>4. \A i \in Heard(h, q) : got'[h][i] = got[h][i]
          BY <2>1, <2>4 DEF Heard
        <4>5. Told(h, q)
          BY DEF Delivery
        <4> QED
          BY <1>1, <4>1, <4>2, <4>3, <4>4, <4>5 DEF Told
      <3>2. CASE h = g /\ q = p
        <4>1. since[g][p] <= sending'[p].number
              /\ (sending'[p].active /\ ~raced'[g] => since[g][p] < sending'[p].number)
          BY <1>1, <1>2, <2>1 DEF Delivery, Told
        <4>2. Count(g, p)' = sending'[p].number - since[g][p] - 0
          <5>1. sending[p].number - since[g][p] = sending[p].number - since[g][p] - 0
            BY <1>1, <2>7
          <5> QED
            BY <1>2, <2>3, <2>8, <5>1
        <4>3. Len(got[g]) + 1 \in Heard(g, p)'
          BY <2>3
        <4>4. got'[g][Len(got[g]) + 1].value = [publisher |-> p, number |-> since[g][p] + Count(g, p)']
          BY <2>2, <2>3, <2>4, <2>8
        <4> QED
          BY <1>1, <2>6, <3>2, <4>1, <4>2, <4>3, <4>4 DEF Told
      <3> QED
        BY <3>1, <3>2
    <2>10. ASSUME NEW h \in Holders PROVE Replayed(h)'
      BY <1>1, <2>1, <2>4 DEF Delivery, Replayed
    <2>11. ASSUME NEW h \in Holders, NEW q \in Publishers, NEW i \in Heard(h, q)'
           PROVE  got'[h][i].value.number = since[h][q] + Cardinality({j \in Heard(h, q)' : j <= i})
      <3>1. CASE h # g \/ q # p
        <4>1. Heard(h, q)' = Heard(h, q) /\ i \in Heard(h, q)
          BY <2>5, <2>11, <3>1
        <4>2. got'[h][i] = got[h][i]
          BY <2>1, <2>4, <4>1 DEF Heard
        <4> QED
          BY <4>1, <4>2 DEF Delivery, InOrder
      <3>2. CASE h = g /\ q = p /\ i \in Heard(g, p)
        <4>1. got[g][i].value.number = since[g][p] + Cardinality({j \in Heard(g, p) : j <= i})
          BY <3>2 DEF Delivery, InOrder
        <4>2. {j \in Heard(g, p)' : j <= i} = {j \in Heard(g, p) : j <= i} /\ got'[g][i] = got[g][i]
          BY <2>3, <3>2
        <4> QED
          BY <3>2, <4>1, <4>2
      <3>3. CASE h = g /\ q = p /\ i = Len(got[g]) + 1
        <4>1. got'[g][i].value.number = sending[p].number
          BY <2>2, <2>4, <3>3
        <4>2. Cardinality({j \in Heard(g, p)' : j <= i}) = Count(g, p) + 1
          BY <2>3, <3>3 DEF Count
        <4> QED
          BY <2>8, <3>3, <4>1, <4>2
      <3> QED
        BY <2>3, <2>11, <3>1, <3>2, <3>3
    <2>12. InOrder'
      BY <1>1, <2>11 DEF InOrder
    <2> QED
      BY <1>5, <2>9, <2>10, <2>12 DEF Delivery
  <1> QED
    BY <1>8, <1>9

(* What is kept is what every subscription has been called with last. *)
LEMMA RetainDelivers ==
  ASSUME IInv, Delivery, NEW p \in Publishers, Retain(p)
  PROVE  Delivery'
  <1>0. TypeOK
    BY DEF IInv
  <1>1. /\ Todo(p) = <<>> /\ sending[p].active /\ sending[p].number \in Nat
        /\ \A q \in Publishers : sending'[q].number = sending[q].number /\ Todo(q)' = Todo(q)
        /\ \A q \in Publishers : q # p => sending'[q].active = sending[q].active
        /\ ~sending'[p].active
        /\ UNCHANGED <<observers, turn, got, since, raced>>
    BY <1>0 DEF Retain, TypeOK, Call, Todo
  <1>2. \A h \in Holders, q \in Publishers :
          /\ Heard(h, q)' = Heard(h, q) /\ Count(h, q)' = Count(h, q)
          /\ Pending(h, q)' = Pending(h, q)
    BY <1>1 DEF Heard, Count, Pending
  <1>3. \A q \in Publishers : Copy(q)'
    BY <1>1 DEF Delivery, Copy
  <1>4. ASSUME NEW h \in Holders, NEW q \in Publishers PROVE Told(h, q)'
    <2>1. Told(h, q) /\ (sending'[q].active => sending[q].active)
      BY <1>1 DEF Delivery
    <2> QED
      BY <1>1, <1>2, <2>1 DEF Told
  <1>5. InOrder'
    BY <1>1, <1>2 DEF Delivery, InOrder
  <1>6. ASSUME NEW h \in Holders PROVE Replayed(h)'
    <2> SUFFICES ASSUME turn[h] > 0, ~raced[h], retained' # <<>>
                 PROVE  \E i \in DOMAIN got[h] : got[h][i].value = retained'[1]
      BY <1>1 DEF Replayed
    <2>1. CASE retained' = retained
      BY <2>1 DEF Delivery, Replayed
    <2>2. CASE retained' = <<Current(p)>>
      <3>1. ~Pending(h, p)
        BY <1>1 DEF Pending
      <3>2. since[h][p] < sending[p].number /\ Count(h, p) = sending[p].number - since[h][p]
            /\ since[h][p] \in Nat
        <4>1. Told(h, p)
          BY DEF Delivery
        <4>2. since[h][p] < sending[p].number
          BY <1>1, <4>1 DEF Told
        <4> QED
          BY <1>0, <3>1, <4>1, <4>2, CountedSince
      <3>3. Count(h, p) > 0 /\ since[h][p] + Count(h, p) = sending[p].number
        BY <1>1, <3>2
      <3>4. PICK i \in Heard(h, p) :
              got[h][i].value = [publisher |-> p, number |-> since[h][p] + Count(h, p)]
        BY <3>3 DEF Delivery, Told
      <3>5. i \in DOMAIN got[h] /\ got[h][i].value = Current(p)
        BY <3>3, <3>4 DEF Heard, Current
      <3>6. retained'[1] = Current(p)
        BY <2>2
      <3> QED
        BY <3>5, <3>6
    <2> QED
      BY <2>1, <2>2 DEF Retain
  <1> QED
    BY <1>3, <1>4, <1>5, <1>6 DEF Delivery

(* A new subscription is in no copy yet, and gets the value retained. *)
LEMMA SubscribeDelivers ==
  ASSUME IInv, Delivery, NEW h \in Holders, Subscribe(h)
  PROVE  Delivery'
  <1>0. TypeOK
    BY DEF IInv
  <1>1. /\ UNCHANGED <<sending, retained>> /\ turn'[h] = turn[h] + 1 /\ turn[h] \in Nat
        /\ \A g \in Holders : turn[g] \in Nat /\ turn'[g] \in Nat /\ turn[g] <= turn'[g]
        /\ \A g \in Holders : g # h =>
             turn'[g] = turn[g] /\ got'[g] = got[g] /\ since'[g] = since[g] /\ raced'[g] = raced[g]
        /\ \A p \in Publishers : since'[h][p] = sending[p].number /\ sending[p].number \in Nat
        /\ raced'[h] = \E p \in Publishers : sending[p].active
        /\ got'[h] = IF retained = <<>> THEN <<>> ELSE <<Received(retained[1], TRUE)>>
    <2>1. UNCHANGED <<sending, retained>>
      BY DEF Subscribe
    <2>2. /\ turn \in [Holders -> Nat] /\ turn' = [turn EXCEPT ![h] = turn[h] + 1]
          /\ \A p \in Publishers : sending[p].number \in Nat
      BY <1>0 DEF Subscribe, TypeOK, Call
    <2>3. /\ DOMAIN got = Holders /\ DOMAIN since = Holders /\ DOMAIN raced = Holders
          /\ got' = [got EXCEPT ![h] = IF retained = <<>> THEN <<>> ELSE <<Received(retained[1], TRUE)>>]
          /\ since' = [since EXCEPT ![h] = [p \in Publishers |-> sending[p].number]]
          /\ raced' = [raced EXCEPT ![h] = \E p \in Publishers : sending[p].active]
      BY <1>0 DEF Subscribe, TypeOK
    <2>4. \A g \in Holders : turn[g] \in Nat /\ turn'[g] \in Nat /\ turn[g] <= turn'[g]
      BY <2>2
    <2>5. \A g \in Holders : g # h =>
            turn'[g] = turn[g] /\ got'[g] = got[g] /\ since'[g] = since[g] /\ raced'[g] = raced[g]
      BY <2>2, <2>3
    <2> QED
      BY <2>1, <2>2, <2>3, <2>4, <2>5
  <1>2. \A p \in Publishers : Todo(p) \in Seq(Observer) /\ Todo(p)' = Todo(p)
    BY <1>0, <1>1 DEF TypeOK, Call, Todo
  <1>3. \A p \in Publishers : \A i \in DOMAIN Todo(p) :
          Todo(p)[i] \in Observer /\ Todo(p)[i].holder \in Holders /\ Todo(p)[i].turn \in Nat
    <2>1. \A p \in Publishers : \A i \in DOMAIN Todo(p) : Todo(p)[i] \in Observer
      BY <1>2
    <2>2. \A o \in Observer : o.holder \in Holders /\ o.turn \in Nat
      BY DEF Observer
    <2> QED
      BY <2>1, <2>2
  <1>4. \A p \in Publishers : Copy(p)'
    BY <1>1, <1>2, <1>3 DEF Delivery, Copy
  <1>5. \A p \in Publishers : Heard(h, p)' = {} /\ Count(h, p)' = 0
    <2>1. \A p \in Publishers : Heard(h, p)' = {}
      BY <1>1 DEF Heard, Received
    <2> QED
      BY <2>1, FS_EmptySet DEF Count
  <1>6. \A p \in Publishers : ~Pending(h, p)'
    BY <1>1, <1>2, <1>3 DEF Delivery, Copy, Pending
  <1>7. \A g \in Holders, p \in Publishers : g # h =>
          /\ Heard(g, p)' = Heard(g, p) /\ Count(g, p)' = Count(g, p)
          /\ Pending(g, p)' = Pending(g, p)
    <2>1. \A g \in Holders, p \in Publishers : g # h => Heard(g, p)' = Heard(g, p)
      BY <1>1 DEF Heard
    <2>2. \A g \in Holders, p \in Publishers : g # h => Pending(g, p)' = Pending(g, p)
      BY <1>1, <1>2 DEF Pending
    <2> QED
      BY <2>1, <2>2 DEF Count
  <1>8. ASSUME NEW g \in Holders, NEW p \in Publishers PROVE Told(g, p)'
    <2>1. CASE g = h
      <3>1. since'[h][p] = sending'[p].number /\ sending'[p].number \in Nat
        BY <1>1
      <3>2. sending'[p].active => raced'[h]
        BY <1>1
      <3>3. sending'[p].number - sending'[p].number - 0 = 0
        BY <3>1
      <3> QED
        BY <1>5, <1>6, <2>1, <3>1, <3>2, <3>3 DEF Told
    <2>2. CASE g # h
      BY <1>1, <1>7, <2>2 DEF Delivery, Told
    <2> QED
      BY <2>1, <2>2
  <1>9. ASSUME NEW g \in Holders PROVE Replayed(g)'
    <2>1. CASE g = h
      <3> SUFFICES ASSUME retained # <<>> PROVE \E i \in DOMAIN got'[h] : got'[h][i].value = retained[1]
        BY <1>1, <2>1 DEF Replayed
      <3>1. got'[h] = <<Received(retained[1], TRUE)>>
        BY <1>1
      <3>2. 1 \in DOMAIN got'[h] /\ got'[h][1] = Received(retained[1], TRUE)
        BY <3>1
      <3> QED
        BY <3>2 DEF Received
    <2>2. CASE g # h
      BY <1>1, <2>2 DEF Delivery, Replayed
    <2> QED
      BY <2>1, <2>2
  <1>10. InOrder'
    <2>1. ASSUME NEW g \in Holders, NEW p \in Publishers, NEW i \in Heard(g, p)'
          PROVE  got'[g][i].value.number = since'[g][p] + Cardinality({j \in Heard(g, p)' : j <= i})
      <3>1. g # h /\ Heard(g, p)' = Heard(g, p)
        BY <1>5, <1>7, <2>1
      <3>2. got'[g] = got[g] /\ since'[g] = since[g]
        BY <1>1, <3>1
      <3> QED
        BY <2>1, <3>1, <3>2 DEF Delivery, InOrder
    <2> QED
      BY <2>1 DEF InOrder
  <1> QED
    BY <1>4, <1>8, <1>9, <1>10 DEF Delivery

(* Deliveries stay right, whoever subscribes and publishes. *)
LEMMA DeliveryHolds == Spec => []Delivery
  <1>1. Init => Delivery
    <2> SUFFICES ASSUME Init PROVE Delivery
      OBVIOUS
    <2>1. \A h \in Holders, p \in Publishers : Heard(h, p) = {}
      BY DEF Init, Heard
    <2>2. \A p \in Publishers : Todo(p) = <<>>
      BY DEF Init, Todo
    <2> QED
      BY <2>1, <2>2 DEF Init, Delivery, Copy, Told, Replayed, InOrder
  <1>2. IInv /\ Delivery /\ [Next]_vars => Delivery'
    <2> SUFFICES ASSUME IInv, Delivery, [Next]_vars PROVE Delivery'
      OBVIOUS
    <2>1. ASSUME UNCHANGED <<retained, sending, turn, got, since, raced>> PROVE Delivery'
      <3>1. \A h \in Holders, p \in Publishers :
              /\ Heard(h, p)' = Heard(h, p) /\ Count(h, p)' = Count(h, p)
              /\ Pending(h, p)' = Pending(h, p) /\ Todo(p)' = Todo(p)
        BY <2>1 DEF Heard, Count, Pending, Todo
      <3>2. \A p \in Publishers : Copy(p)'
        BY <2>1 DEF Delivery, Copy, Todo
      <3>3. \A h \in Holders, p \in Publishers : Told(h, p)'
        BY <2>1, <3>1 DEF Delivery, Told
      <3>4. InOrder' /\ \A h \in Holders : Replayed(h)'
        BY <2>1, <3>1 DEF Delivery, InOrder, Replayed
      <3> QED
        BY <3>2, <3>3, <3>4 DEF Delivery
    <2>2. CASE UNCHANGED vars \/ \E h \in Holders : DropOld(h)
      BY <2>1, <2>2 DEF vars, DropOld
    <2> QED
      BY <2>2, PublishDelivers, DeliverDelivers, RetainDelivers, SubscribeDelivers DEF Next
  <1> QED
    BY <1>1, <1>2, Invariance, PTL DEF Spec

(***************************************************************************)
(* Subject::next: a subscription is called with the values of a publisher  *)
(* in their order, each once, from the first one published after it was    *)
(* made.                                                                   *)
(***************************************************************************)
THEOREM CalledInOrder == Spec => []InOrder
  <1>1. Delivery => InOrder
    BY DEF Delivery
  <1> QED
    BY <1>1, DeliveryHolds, PTL

(***************************************************************************)
(* Subject::next and subscribe: when nobody is publishing, every           *)
(* subscription has received everything published since it was made, and   *)
(* the value that is retained unless it was made during a publication.     *)
(***************************************************************************)
THEOREM EverythingArrives == Spec => []CaughtUp
  <1>1. IInv /\ Delivery => CaughtUp
    <2> SUFFICES ASSUME IInv, Delivery, \A p \in Publishers : ~sending[p].active, NEW h \in Holders, turn[h] > 0
                 PROVE  /\ \A p \in Publishers : Cardinality(Heard(h, p)) = sending[p].number - since[h][p]
                        /\ retained # <<>> /\ ~raced[h] =>
                             \E i \in DOMAIN got[h] : got[h][i].value = retained[1]
      BY DEF CaughtUp
    <2>1. \A p \in Publishers : ~Pending(h, p)
      BY DEF Delivery, Copy, Pending
    <2>2. ASSUME NEW p \in Publishers PROVE Cardinality(Heard(h, p)) = sending[p].number - since[h][p]
      BY <2>1, CountedSince DEF IInv, Delivery, Count
    <2> QED
      BY <2>2 DEF Delivery, Replayed
  <1> QED
    BY <1>1, Invariance, DeliveryHolds, PTL
=============================================================================
