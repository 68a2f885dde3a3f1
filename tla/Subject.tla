------------------------------- MODULE Subject -------------------------------
(***************************************************************************)
(* rt::Subject, the publish/subscribe channel between all threads.  next() *)
(* copies the list of observers under the lock and calls them without it,  *)
(* then keeps a retained value; subscribe() adds an observer and replays   *)
(* the retained value under the lock.  The returned Finally removes the    *)
(* observer by its index when it is replaced: QtControl subscribes again   *)
(* whenever the application starts up or reloads, everybody else once and  *)
(* before, for startApp constructs the tasks before events are handled.    *)
(***************************************************************************)
EXTENDS Naturals, Sequences, SequencesExt

CONSTANTS
  Publishers,        (* threads that call next(), one call at a time each   *)
  Holders,           (* objects that hold one subscription each             *)
  Renewer,           (* the holder that subscribes again: QtControl         *)
  MaxSubscriptions,  (* bound: subscriptions of the renewer                 *)
  MaxValues          (* bound: values of a publisher                        *)

ASSUME SubjectAssumption ==
  Renewer \in Holders /\ MaxSubscriptions \in Nat /\ MaxValues \in Nat

VARIABLES
  observers,  (* Subject: observers                                         *)
  retained,   (* Subject: retained, empty or the value kept                 *)
  sending,    (* per publisher: its call of next() and whom it has to call  *)
  handle,     (* per holder: the index its Finally removes, 0 for none      *)
  dropping,   (* per holder: the index of the Finally being replaced        *)
  turn,       (* per holder: how often it has subscribed                    *)
  got,        (* history: what the last subscription has received           *)
  since,      (* history: what had been published when it was made          *)
  raced       (* history: it was made while a value was being published     *)

vars == <<observers, retained, sending, handle, dropping, turn, got, since, raced>>

Observer == [index : Nat, holder : Holders, turn : Nat]
Value == [publisher : Publishers, number : Nat]
Call == [number : Nat, active : BOOLEAN, retain : BOOLEAN, todo : Seq(Observer)]

TypeOK ==
  /\ observers \in Seq(Observer)
  /\ retained \in Seq(Value) /\ Len(retained) <= 1
  /\ sending \in [Publishers -> Call]
  /\ handle \in [Holders -> Nat]
  /\ dropping \in [Holders -> Nat]
  /\ turn \in [Holders -> Nat]
  /\ got \in [Holders -> Seq([value : Value, replayed : BOOLEAN])]
  /\ since \in [Holders -> [Publishers -> Nat]]
  /\ raced \in [Holders -> BOOLEAN]

Init ==
  /\ observers = <<>>
  /\ retained = <<>>
  /\ sending = [p \in Publishers |->
                  [number |-> 0, active |-> FALSE, retain |-> FALSE, todo |-> <<>>]]
  /\ handle = [h \in Holders |-> 0]
  /\ dropping = [h \in Holders |-> 0]
  /\ turn = [h \in Holders |-> 0]
  /\ got = [h \in Holders |-> <<>>]
  /\ since = [h \in Holders |-> [p \in Publishers |-> 0]]
  /\ raced = [h \in Holders |-> FALSE]

-----------------------------------------------------------------------------
(* the value a publisher is publishing, or has published last *)
Current(p) == [publisher |-> p, number |-> sending[p].number]

Received(value, replayed) == [value |-> value, replayed |-> replayed]

(* changed: a value is published before the last one has reached everybody *)
PublishOver(p, retain) ==
  /\ sending[p].number < MaxValues
  /\ sending' = [sending EXCEPT ![p] = [number |-> @.number + 1, active |-> TRUE,
                                        retain |-> retain, todo |-> observers]]
  /\ UNCHANGED <<observers, retained, handle, dropping, turn, got, since, raced>>

(* next: copy the observers under the lock *)
Publish(p, retain) ==
  /\ ~sending[p].active
  /\ sending[p].number < MaxValues
  /\ sending' = [sending EXCEPT ![p] = [number |-> @.number + 1, active |-> TRUE,
                                        retain |-> retain, todo |-> observers]]
  /\ UNCHANGED <<observers, retained, handle, dropping, turn, got, since, raced>>

(* next: call the next observer of the copy, who may have been replaced *)
Deliver(p) ==
  /\ sending[p].active /\ sending[p].todo # <<>>
  /\ sending' = [sending EXCEPT ![p].todo = Tail(@)]
  /\ LET observer == Head(sending[p].todo) IN
     got' = IF observer.turn = turn[observer.holder]
            THEN [got EXCEPT ![observer.holder] =
                    Append(@, Received(Current(p), FALSE))]
            ELSE got
  /\ UNCHANGED <<observers, retained, handle, dropping, turn, since, raced>>

(* changed: the value is kept beside the earlier one *)
RetainBoth(p) ==
  /\ sending[p].active /\ sending[p].todo = <<>>
  /\ sending' = [sending EXCEPT ![p].active = FALSE]
  /\ retained' = IF sending[p].retain THEN Append(retained, Current(p)) ELSE retained
  /\ UNCHANGED <<observers, handle, dropping, turn, got, since, raced>>

(* next: all are called, keep the value *)
Retain(p) ==
  /\ sending[p].active /\ sending[p].todo = <<>>
  /\ sending' = [sending EXCEPT ![p].active = FALSE]
  /\ retained' = IF sending[p].retain THEN <<Current(p)>> ELSE retained
  /\ UNCHANGED <<observers, handle, dropping, turn, got, since, raced>>

(* startApp: the tasks subscribe once, then QtControl at every start-up *)
MaySubscribe(h) ==
  IF h = Renewer THEN turn[h] < MaxSubscriptions /\ \A other \in Holders \ {h} : turn[other] = 1
                 ELSE turn[h] = 0

(* changed: the retained value is not replayed *)
SubscribeOnly(h) ==
  /\ dropping[h] = 0
  /\ MaySubscribe(h)
  /\ turn' = [turn EXCEPT ![h] = @ + 1]
  /\ LET index == Len(observers) + 1 IN
     /\ observers' = Append(observers, [index |-> index, holder |-> h,
                                        turn |-> turn[h] + 1])
     /\ handle' = [handle EXCEPT ![h] = index]
  /\ dropping' = [dropping EXCEPT ![h] = handle[h]]
  /\ got' = [got EXCEPT ![h] = <<>>]
  /\ since' = [since EXCEPT ![h] = [p \in Publishers |-> sending[p].number]]
  /\ raced' = [raced EXCEPT ![h] = \E p \in Publishers : sending[p].active]
  /\ UNCHANGED <<retained, sending>>

(* subscribe: add the observer, replay the retained value to it, and hand    *)
(* out the finisher that will remove its index                               *)
Subscribe(h) ==
  /\ dropping[h] = 0
  /\ MaySubscribe(h)
  /\ turn' = [turn EXCEPT ![h] = @ + 1]
  /\ LET index == Len(observers) + 1 IN
     /\ observers' = Append(observers, [index |-> index, holder |-> h,
                                        turn |-> turn[h] + 1])
     /\ handle' = [handle EXCEPT ![h] = index]
  /\ dropping' = [dropping EXCEPT ![h] = handle[h]]
  /\ got' = [got EXCEPT ![h] = IF retained = <<>> THEN <<>>
                               ELSE <<Received(retained[1], TRUE)>>]
  /\ since' = [since EXCEPT ![h] = [p \in Publishers |-> sending[p].number]]
  /\ raced' = [raced EXCEPT ![h] = \E p \in Publishers : sending[p].active]
  /\ UNCHANGED <<retained, sending>>

(* changed: the last observer with the index is erased *)
RemoveLastObserver(list, index) ==
  LET found == {i \in DOMAIN list : list[i].index = index}
  IN IF found = {} THEN list ELSE RemoveAt(list, Max(found))

(* the finisher erases the first observer with its index *)
RemoveObserver(list, index) ==
  LET found == {i \in DOMAIN list : list[i].index = index}
  IN IF found = {} THEN list ELSE RemoveAt(list, Min(found))

(* the assignment of the new subscription destroys the old one *)
DropOld(h) ==
  /\ dropping[h] # 0
  /\ observers' = RemoveObserver(observers, dropping[h])
  /\ dropping' = [dropping EXCEPT ![h] = 0]
  /\ UNCHANGED <<retained, sending, handle, turn, got, since, raced>>

Next ==
  \/ \E p \in Publishers :
       \/ \E retain \in BOOLEAN : Publish(p, retain)
       \/ Deliver(p)
       \/ Retain(p)
  \/ \E h \in Holders : Subscribe(h) \/ DropOld(h)

Spec == Init /\ [][Next]_vars

-----------------------------------------------------------------------------
(* Properties *)

(* The last subscription of every holder is among the observers, with the    *)
(* index its finisher will remove, and beside it only the one that is just   *)
(* being replaced: an index that is used a second time never removes the     *)
(* observer of somebody else, and no old observer stays.                     *)
EveryHolderObserves ==
  \A h \in Holders : turn[h] > 0 =>
    \E i \in DOMAIN observers :
      /\ observers[i] = [index |-> handle[h], holder |-> h, turn |-> turn[h]]
      /\ \A j \in DOMAIN observers \ {i} : observers[j].holder = h =>
           dropping[h] # 0 /\ observers[j].index = dropping[h] /\ observers[j].turn < turn[h]

(* which of its calls gave the last subscription of h a value of p *)
Heard(h, p) ==
  {i \in DOMAIN got[h] : got[h][i].value.publisher = p /\ ~got[h][i].replayed}

(* A subscription is called with the values of a publisher in their order,   *)
(* each once, from the first one published after it was made.                *)
InOrder ==
  \A h \in Holders : \A p \in Publishers : \A i \in Heard(h, p) :
    got[h][i].value.number = since[h][p] + Cardinality({j \in Heard(h, p) : j <= i})

(* When nobody is publishing, every subscription has received everything     *)
(* published since it was made, and, unless it was made in the middle of a   *)
(* publication, the value that is retained.                                  *)
CaughtUp ==
  (\A p \in Publishers : ~sending[p].active) =>
    \A h \in Holders : turn[h] > 0 =>
      /\ \A p \in Publishers : Cardinality(Heard(h, p)) = sending[p].number - since[h][p]
      /\ retained # <<>> /\ ~raced[h] =>
           \E i \in DOMAIN got[h] : got[h][i].value = retained[1]
=============================================================================
