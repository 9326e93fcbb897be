--------------------------- MODULE EventListeners ---------------------------
(***************************************************************************)
(* CommonAPI::Event and the FDBusEvent beneath it: the listeners of one    *)
(* event of the bridge's proxy.  The application's thread (ClusterData's   *)
(* IPC thread) subscribes and unsubscribes, and so may a callback, in the  *)
(* thread that notifies it; one such call at a time.  Any of Notifiers     *)
(* brings signals and errors from the bus.  subscribe() and unsubscribe()  *)
(* touch the pending sets alone; a notification brings the map of          *)
(* listeners up to date and walks it with the callbacks, under             *)
(* notificationMutex_, which neither call takes.                           *)
(* A critical section of subscriptionMutex_ waits for nothing, so it is    *)
(* one step; what the code does after it unlocked is a step of its own.    *)
(***************************************************************************)
EXTENDS Integers, FiniteSets

CONSTANTS Notifiers, Nobody, MaxSubscriptions
ASSUME NotifiersAssumption == Nobody \notin Notifiers
ASSUME MaxSubscriptionsAssumption == MaxSubscriptions \in Nat

Keys == 0..MaxSubscriptions - 1
\* notifyListeners, notifyErrorListeners; notifySpecificListener;
\* notifySpecificError with SUCCESS is like the latter, with an error it
\* unsubscribes as well.
Kinds == {"all", "one", "failed"}

VARIABLES
  subscriptions,            \* the keys of the maps of the event
  pendingSubscriptions,
  pendingUnsubscriptions,
  nextSubscription,
  attached,                 \* the proxy has the event's signal handler
  app,                      \* the call of subscribe() or unsubscribe() under way: [at, flag, by]
  notifying,                \* who holds notificationMutex_
  note,                     \* [Notifiers -> the call it makes: at, kind, key, pos]
  owed,                     \* history: the listeners a notification has yet to reach
  removed                   \* history: the listeners removed before it walked the map

eventVars == <<subscriptions, pendingSubscriptions, pendingUnsubscriptions>>
notifierVars == <<notifying, note>>
vars == <<eventVars, nextSubscription, attached, app, notifierVars, owed, removed>>

\* No call is under way; by tells whose a call is, Nobody's the application's.
Rest == [at |-> "idle", flag |-> FALSE, by |-> Nobody]
Idle == [at |-> "idle", kind |-> "all", key |-> 0, pos |-> -1]

Init ==
  /\ subscriptions = {} /\ pendingSubscriptions = {} /\ pendingUnsubscriptions = {}
  /\ nextSubscription = 0
  /\ attached = FALSE
  /\ app = Rest
  /\ notifying = Nobody
  /\ note = [n \in Notifiers |-> Idle]
  /\ owed = [n \in Notifiers |-> {}]
  /\ removed = [n \in Notifiers |-> {}]

\* Who is subscribed once the pending calls are done.
Listening == (subscriptions \ pendingUnsubscriptions) \union pendingSubscriptions
NoneLeft == Cardinality(pendingUnsubscriptions) = Cardinality(subscriptions)

--------------------------------------------------------------------------------
(* The application's thread, and the callback of a listener.               *)

\* The iterator of notification n stands at a listener it calls; the callback lasts
\* until the iterator moves on.
InCallback(n) ==
  note[n].at = "calling" /\ note[n].pos >= 0 /\ (note[n].kind = "all" \/ note[n].key = note[n].pos)

MayCall(by) == app.at = "idle" /\ (by \in Notifiers => InCallback(by))

Subscribe(by) ==
  /\ MayCall(by) /\ nextSubscription < MaxSubscriptions
  /\ app' = [at |-> "added", flag |-> pendingSubscriptions = {} /\ NoneLeft, by |-> by]
  /\ pendingSubscriptions' = pendingSubscriptions \union {nextSubscription}
  /\ nextSubscription' = nextSubscription + 1
  /\ UNCHANGED <<subscriptions, pendingUnsubscriptions, attached, notifierVars, owed, removed>>

\* pendingUnsubscriptions_ is read without its mutex.  The state handler each
\* listener gets or loses besides (onListenerAdded, onListenerRemoved) is the
\* proxy's.
Added ==
  /\ app.at = "added"
  /\ IF ~app.flag
       THEN app' = Rest /\ UNCHANGED attached
       ELSE /\ app' = [app EXCEPT !.at = "attach"]
            /\ attached' = IF pendingUnsubscriptions # {} THEN FALSE ELSE attached
  /\ UNCHANGED <<eventVars, nextSubscription, notifierVars, owed, removed>>

OnFirstListenerAdded ==
  /\ app.at = "attach"
  /\ attached' = TRUE
  /\ app' = Rest
  /\ UNCHANGED <<eventVars, nextSubscription, notifierVars, owed, removed>>

\* Mutant: a listener still pending is entered among the removed ones too.
RemovesUnchecked(k) ==
  /\ pendingSubscriptions' = pendingSubscriptions \ {k}
  /\ pendingUnsubscriptions' = pendingUnsubscriptions \union {k}
  /\ owed' = [n \in Notifiers |-> owed[n] \ {k}]
  /\ UNCHANGED subscriptions

\* What unsubscribe() and the end of notifySpecificError() do to the maps.
Removes(k) ==
  /\ pendingSubscriptions' = pendingSubscriptions \ {k}
  /\ pendingUnsubscriptions' =
       IF k \in subscriptions THEN pendingUnsubscriptions \union {k} ELSE pendingUnsubscriptions
  /\ owed' = [n \in Notifiers |-> owed[n] \ {k}]
  /\ UNCHANGED subscriptions

\* Mutants: the listener leaves the map at once; the last listener is the one
\* that leaves the map empty but for those on their way out.
UnsubscribeAtOnce(by, k) ==
  /\ MayCall(by) /\ k < nextSubscription
  /\ subscriptions' = subscriptions \ {k}
  /\ pendingSubscriptions' = pendingSubscriptions \ {k}
  /\ owed' = [n \in Notifiers |-> owed[n] \ {k}]
  /\ app' = IF k \in Listening THEN [at |-> "removed", flag |-> Listening = {k}, by |-> by] ELSE app
  /\ UNCHANGED <<pendingUnsubscriptions, nextSubscription, attached, notifierVars, removed>>

UnsubscribeForgetsPending(by, k) ==
  /\ MayCall(by) /\ k < nextSubscription
  /\ Removes(k)
  /\ app' = IF k \in Listening
              THEN [at |-> "removed",
                    flag |-> Cardinality(pendingUnsubscriptions') = Cardinality(subscriptions),
                    by |-> by]
              ELSE app
  /\ UNCHANGED <<nextSubscription, attached, notifierVars, removed>>

Unsubscribe(by, k) ==
  /\ MayCall(by) /\ k < nextSubscription
  /\ Removes(k)
  /\ app' = IF k \in Listening
              THEN [at |-> "removed",
                    flag |-> /\ Cardinality(pendingUnsubscriptions') = Cardinality(subscriptions)
                             /\ pendingSubscriptions' = {},
                    by |-> by]
              ELSE app
  /\ UNCHANGED <<nextSubscription, attached, notifierVars, removed>>

OnLastListenerRemoved ==
  /\ app.at = "removed"
  /\ attached' = IF app.flag THEN FALSE ELSE attached
  /\ app' = Rest
  /\ UNCHANGED <<eventVars, nextSubscription, notifierVars, owed, removed>>

--------------------------------------------------------------------------------
(* A thread that notifies.                                                 *)

\* A signal reaches the event through its handler; a reply or an error for one
\* subscription comes back by its key.
Arrive(n, kind, k) ==
  /\ note[n].at = "idle" /\ k < nextSubscription
  /\ kind = "all" => attached
  /\ note' = [note EXCEPT ![n] = [at |-> "waiting", kind |-> kind, key |-> k, pos |-> -1]]
  /\ owed' = [owed EXCEPT ![n] = IF kind = "all" THEN Listening ELSE Listening \intersect {k}]
  /\ removed' = [removed EXCEPT ![n] = {}]
  /\ UNCHANGED <<eventVars, nextSubscription, attached, app, notifying>>

\* Mutants: the new listeners are dropped; the removed ones stay.
DrainUnsubscriptionsOnly(n) ==
  /\ note[n].at = "waiting" /\ notifying = Nobody
  /\ notifying' = n
  /\ subscriptions' = subscriptions \ pendingUnsubscriptions
  /\ pendingUnsubscriptions' = {} /\ pendingSubscriptions' = {}
  /\ note' = [note EXCEPT ![n].at = "calling"]
  /\ removed' = [removed EXCEPT ![n] = (0..nextSubscription - 1) \ Listening]
  /\ UNCHANGED <<nextSubscription, attached, app, owed>>

DrainSubscriptionsOnly(n) ==
  /\ note[n].at = "waiting" /\ notifying = Nobody
  /\ notifying' = n
  /\ subscriptions' = subscriptions \union pendingSubscriptions
  /\ pendingSubscriptions' = {}
  /\ note' = [note EXCEPT ![n].at = "calling"]
  /\ removed' = [removed EXCEPT ![n] = (0..nextSubscription - 1) \ Listening]
  /\ UNCHANGED <<pendingUnsubscriptions, nextSubscription, attached, app, owed>>

Drain(n) ==
  /\ note[n].at = "waiting" /\ notifying = Nobody
  /\ notifying' = n
  /\ subscriptions' = (subscriptions \ pendingUnsubscriptions) \union pendingSubscriptions
  /\ pendingUnsubscriptions' = {} /\ pendingSubscriptions' = {}
  /\ note' = [note EXCEPT ![n].at = "calling"]
  /\ removed' = [removed EXCEPT ![n] = (0..nextSubscription - 1) \ Listening]
  /\ UNCHANGED <<nextSubscription, attached, app, owed>>

\* The iterator stands between pos and the next key of the map as it is now.
Ahead(n) == {k \in subscriptions : k > note[n].pos}

\* Once the callback is through with the calls it made, the iterator moves on; its
\* listener is called unless the notification is for another one.
Step(n) ==
  /\ note[n].at = "calling" /\ app.by # n
  /\ \E k \in Ahead(n) :
       /\ \A j \in Ahead(n) : k <= j
       /\ note' = [note EXCEPT ![n].pos = k]
       /\ owed' = [owed EXCEPT ![n] =
                     IF note[n].kind = "all" \/ note[n].key = k THEN @ \ {k} ELSE @]
  /\ UNCHANGED <<eventVars, nextSubscription, attached, app, notifying, removed>>

Finish(n) ==
  /\ note[n].at = "calling" /\ app.by # n /\ Ahead(n) = {}
  /\ notifying' = Nobody
  /\ note' = [note EXCEPT ![n] = IF @.kind = "failed" THEN [@ EXCEPT !.at = "forgetting"] ELSE Idle]
  /\ UNCHANGED <<eventVars, nextSubscription, attached, app, owed, removed>>

\* A subscription the service refused is dropped without a word to the proxy.
Forget(n) ==
  /\ note[n].at = "forgetting"
  /\ Removes(note[n].key)
  /\ note' = [note EXCEPT ![n] = Idle]
  /\ UNCHANGED <<nextSubscription, attached, app, notifying, removed>>

--------------------------------------------------------------------------------
Call ==
  \/ \E by \in Notifiers \union {Nobody} : Subscribe(by) \/ \E k \in Keys : Unsubscribe(by, k)
  \/ Added \/ OnFirstListenerAdded \/ OnLastListenerRemoved

Notification(n) == Drain(n) \/ Step(n) \/ Finish(n) \/ Forget(n)

Next ==
  \/ Call
  \/ \E n \in Notifiers :
       \/ \E kind \in Kinds, k \in Keys : Arrive(n, kind, k)
       \/ Notification(n)

Spec == Init /\ [][Next]_vars

Phases == {"idle", "waiting", "calling", "forgetting"}

\* The type of the state.
TypeOK ==
  /\ subscriptions \subseteq Keys /\ pendingSubscriptions \subseteq Keys
  /\ pendingUnsubscriptions \subseteq subscriptions
  /\ nextSubscription \in 0..MaxSubscriptions
  /\ attached \in BOOLEAN
  /\ app \in [at : {"idle", "added", "attach", "removed"}, flag : BOOLEAN,
             by : Notifiers \union {Nobody}]
  /\ notifying \in Notifiers \union {Nobody}
  /\ note \in [Notifiers -> [at : Phases, kind : Kinds, key : Int, pos : Int]]
  /\ owed \in [Notifiers -> SUBSET Keys] /\ removed \in [Notifiers -> SUBSET Keys]

\* Whenever no call of subscribe() or unsubscribe() is under way and a listener is
\* subscribed, the proxy has the event's handler: no mixture of
\* pending calls, drains and errors leaves a listener the bus cannot reach
\* (Event.hpp 104-164, FDBusEvent.hpp 134-160).
HeardOf == app.at = "idle" /\ Listening # {} => attached

\* Every listener subscribed when a signal arrived, and not removed since, has
\* been called when the notification ends (Event.hpp 166-191).
ReachesAll == \A n \in Notifiers : note[n].at = "calling" /\ Ahead(n) = {} => owed[n] = {}

\* A listener removed before the notification took its turn is not called by it
\* (Event.hpp 170-174).
RemovedIsSilent == \A n \in Notifiers : note[n].at = "calling" => Ahead(n) \intersect removed[n] = {}

\* The maps and pending sets are one set of listeners; what the iterator has ahead
\* is whom the notification that holds the mutex has yet to come to.
Promise == INSTANCE ListenerSet WITH
  given <- nextSubscription,
  listening <- Listening,
  turn <- notifying,
  due <- IF notifying \in Notifiers THEN Ahead(notifying) ELSE {}

\* A notification comes to exactly those who were subscribed when it took its turn,
\* in order, whatever its own callbacks, the application's thread and the errors of
\* other threads subscribe and remove meanwhile; and no subscription or removal is
\* ever undone or lost by it.  A removal inside a callback is one such: the event
\* takes it at once, for all that Event.hpp 63 says it will deadlock (Event.hpp
\* 104-191, 253-273).
ImplementsPromise == Promise!Spec
=============================================================================
