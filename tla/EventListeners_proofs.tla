------------------------ MODULE EventListeners_proofs ------------------------
(***************************************************************************)
(* The listeners of an event, for any number of notifying threads and of   *)
(* subscriptions.                                                          *)
(***************************************************************************)
EXTENDS EventListeners, FiniteSetTheorems, TLAPS

\* The handler is registered, or about to be, while anyone listens.  A thread
\* that is about to remove it knows that nobody does: no other call could
\* subscribe before this one is over.
Handler ==
  /\ app.at = "idle" /\ Listening # {} => attached
  /\ app.at = "added" /\ ~app.flag /\ Listening # {} => attached
  /\ app.at = "removed" /\ app.flag => Listening = {}
  /\ app.at = "removed" /\ ~app.flag /\ Listening # {} => attached

Calls == [at : {"idle", "added", "attach", "removed"}, flag : BOOLEAN, by : Notifiers \union {Nobody}]

\* One notification at a time walks the map, and finds there the listeners it
\* owes a call and none that was removed before.
Walk ==
  \A n \in Notifiers :
    /\ note[n].at = "calling" <=> notifying = n
    /\ note[n].at = "waiting" => owed[n] \subseteq Listening
    /\ note[n].at = "waiting" => note[n].pos = -1
    /\ note[n].at = "calling" => owed[n] \subseteq Ahead(n)
    /\ note[n].at = "calling" => subscriptions \intersect removed[n] = {}

\* Every key in a map was given out.
Given ==
  /\ subscriptions \subseteq 0..nextSubscription - 1
  /\ pendingSubscriptions \subseteq 0..nextSubscription - 1
  /\ subscriptions \intersect pendingSubscriptions = {}

\* A notification for one listener owes it alone.
Aimed ==
  \A n \in Notifiers :
    note[n].at \in {"waiting", "calling"} /\ note[n].kind # "all" => owed[n] \subseteq {note[n].key}

EventInv == TypeOK /\ Given /\ Handler /\ Walk /\ Aimed

LEMMA InitInv == Init => EventInv
<1> SUFFICES ASSUME Init PROVE EventInv
  OBVIOUS
<1>1. TypeOK
  <2>1. attached \in BOOLEAN /\ app \in Calls
    BY Zenon DEF Init, Rest, Calls
  <2>2. note \in [Notifiers -> [at : Phases, kind : Kinds, key : Int, pos : Int]]
    BY DEF Init, Idle, Phases, Kinds
  <2> QED BY <2>1, <2>2, MaxSubscriptionsAssumption DEF Init, TypeOK, Calls
<1>2. Given /\ Listening = {}
  BY DEF Init, Given, Listening
<1>3. app.at = "idle"
  BY DEF Init, Rest
<1>4. \A n \in Notifiers : note[n].at = "idle" /\ notifying # n
  BY NotifiersAssumption DEF Init, Idle
<1> QED BY <1>1, <1>2, <1>3, <1>4 DEF EventInv, Handler, Walk, Aimed

\* The sizes agree only when every listener of the map is on its way out.
LEMMA NoneLeftMeans ==
  ASSUME NEW S \in SUBSET Keys, NEW T \in SUBSET S, Cardinality(T) = Cardinality(S)
  PROVE  S = T
<1>1. IsFiniteSet(S)
  <2>1. MaxSubscriptions - 1 \in Int
    BY MaxSubscriptionsAssumption
  <2>2. IsFiniteSet(Keys)
    BY <2>1, FS_Interval DEF Keys
  <2> QED BY <2>2, FS_Subset
<1> QED BY <1>1, FS_Subset

\* Removing a listener takes it out of what is listened to and owed, and leaves
\* the map alone.
LEMMA RemovesStep ==
  ASSUME EventInv, NEW k \in Keys, Removes(k)
  PROVE  /\ Listening' = Listening \ {k} /\ subscriptions' = subscriptions
         /\ pendingSubscriptions' \subseteq pendingSubscriptions
         /\ pendingUnsubscriptions' \subseteq subscriptions
         /\ owed' \in [Notifiers -> SUBSET Keys]
         /\ \A n \in Notifiers : owed'[n] = owed[n] \ {k}
  BY DEF EventInv, TypeOK, Given, Removes, Listening

--------------------------------------------------------------------------------
LEMMA SubscribeStep ==
  ASSUME EventInv, NEW by \in Notifiers \union {Nobody}, Subscribe(by) PROVE EventInv'
<1>1. /\ app.at = "idle" /\ nextSubscription < MaxSubscriptions
      /\ app' = [at |-> "added", flag |-> pendingSubscriptions = {} /\ NoneLeft, by |-> by]
      /\ pendingSubscriptions' = pendingSubscriptions \union {nextSubscription}
      /\ nextSubscription' = nextSubscription + 1
      /\ UNCHANGED <<subscriptions, pendingUnsubscriptions, attached, notifying, note, owed, removed>>
  BY DEF Subscribe, MayCall, notifierVars
<1>2. Listening' = Listening \union {nextSubscription}
  BY <1>1 DEF Listening
<1>3. TypeOK'
  <2>1. nextSubscription \in Keys /\ nextSubscription' \in 0..MaxSubscriptions
    BY <1>1, MaxSubscriptionsAssumption DEF EventInv, TypeOK, Keys
  <2>2. app' \in Calls
    BY <1>1, Zenon DEF Calls
  <2> QED BY <1>1, <2>1, <2>2 DEF EventInv, TypeOK, Calls
<1>4. Given'
  BY <1>1, MaxSubscriptionsAssumption DEF EventInv, TypeOK, Given
<1>5. Handler'
  <2>1. app'.at = "added" /\ (~app'.flag => ~(pendingSubscriptions = {} /\ NoneLeft))
    BY <1>1, Zenon
  <2>2. ~(pendingSubscriptions = {} /\ NoneLeft) => Listening # {}
    BY DEF NoneLeft, Listening, EventInv, TypeOK
  <2> QED BY <1>1, <2>1, <2>2 DEF Handler, EventInv
<1>6. Walk' /\ Aimed'
  BY <1>1, <1>2 DEF EventInv, Walk, Aimed, Ahead
<1> QED BY <1>3, <1>4, <1>5, <1>6 DEF EventInv

LEMMA UnsubscribeStep ==
  ASSUME EventInv, NEW by \in Notifiers \union {Nobody}, NEW k \in Keys, Unsubscribe(by, k)
  PROVE  EventInv'
<1>1. /\ app.at = "idle"
      /\ Removes(k)
      /\ UNCHANGED <<nextSubscription, attached, notifying, note, removed>>
  BY DEF Unsubscribe, MayCall, notifierVars
<1>2. \/ k \notin Listening /\ app' = app
      \/ app' = [at |-> "removed",
                 flag |-> /\ Cardinality(pendingUnsubscriptions') = Cardinality(subscriptions)
                          /\ pendingSubscriptions' = {}, by |-> by]
  BY Zenon DEF Unsubscribe
<1>3. TypeOK'
  <2>1. CASE app' = app
    BY <1>1, <2>1, RemovesStep DEF EventInv, TypeOK
  <2>2. CASE app' = [at |-> "removed",
                     flag |-> /\ Cardinality(pendingUnsubscriptions') = Cardinality(subscriptions)
                              /\ pendingSubscriptions' = {}, by |-> by]
    <3>1. app' \in Calls
      BY <2>2, Zenon DEF Calls
    <3> QED BY <1>1, <3>1, RemovesStep DEF EventInv, TypeOK, Calls
  <2> QED BY <1>2, <2>1, <2>2
<1>4. Given'
  BY <1>1, RemovesStep DEF EventInv, Given
<1>5. Handler'
  <2>1. CASE k \notin Listening /\ app' = app
    BY <1>1, <2>1, RemovesStep DEF EventInv, Handler
  <2>2. CASE app' = [at |-> "removed",
                     flag |-> /\ Cardinality(pendingUnsubscriptions') = Cardinality(subscriptions)
                              /\ pendingSubscriptions' = {}, by |-> by]
    <3>1. /\ app'.at = "removed"
          /\ app'.flag => /\ Cardinality(pendingUnsubscriptions') = Cardinality(subscriptions)
                          /\ pendingSubscriptions' = {}
      BY <2>2, Zenon
    <3>2. subscriptions \in SUBSET Keys /\ pendingUnsubscriptions' \in SUBSET subscriptions
      BY <1>1, RemovesStep DEF EventInv, TypeOK
    <3>3. app'.flag => subscriptions = pendingUnsubscriptions'
      BY <3>1, <3>2, NoneLeftMeans
    <3>4. app'.flag => Listening' = {}
      BY <1>1, <3>1, <3>3, RemovesStep DEF Listening
    <3>5. Listening' # {} => attached'
      BY <1>1, RemovesStep DEF EventInv, Handler
    <3> QED BY <3>1, <3>4, <3>5 DEF Handler
  <2> QED BY <1>2, <2>1, <2>2
<1>6. Walk' /\ Aimed'
  BY <1>1, RemovesStep DEF EventInv, Walk, Aimed, Ahead
<1> QED BY <1>3, <1>4, <1>5, <1>6 DEF EventInv

LEMMA HandlerStep ==
  ASSUME EventInv, Added \/ OnFirstListenerAdded \/ OnLastListenerRemoved PROVE EventInv'
<1>1. UNCHANGED <<subscriptions, pendingSubscriptions, pendingUnsubscriptions, nextSubscription,
                  notifying, note, owed, removed>>
  BY DEF Added, OnFirstListenerAdded, OnLastListenerRemoved, eventVars, notifierVars
<1>2. TypeOK'
  <2>1. attached' \in BOOLEAN
    BY Zenon DEF Added, OnFirstListenerAdded, OnLastListenerRemoved, EventInv, TypeOK
  <2>2. app' \in Calls
    <3>1. CASE app' = Rest
      BY <3>1, Zenon DEF Rest, Calls
    <3>2. CASE app' = [app EXCEPT !.at = "attach"]
      BY <3>2, Zenon DEF EventInv, TypeOK, Calls
    <3> QED BY <3>1, <3>2, Zenon DEF Added, OnFirstListenerAdded, OnLastListenerRemoved
  <2> QED BY <1>1, <2>1, <2>2 DEF EventInv, TypeOK, Calls
<1>3. Handler'
  <2>1. Listening' = Listening
    BY <1>1 DEF Listening
  <2>2. CASE Added /\ ~app.flag
    BY <2>1, <2>2 DEF Added, Rest, Handler, EventInv
  <2>3. CASE Added /\ app.flag
    <3>1. app'.at = "attach"
      BY <2>3 DEF Added, EventInv, TypeOK
    <3> QED BY <3>1 DEF Handler
  <2>4. CASE OnFirstListenerAdded
    BY <2>4 DEF OnFirstListenerAdded, Rest, Handler
  <2>5. CASE OnLastListenerRemoved
    BY <2>1, <2>5 DEF OnLastListenerRemoved, Rest, Handler, EventInv
  <2> QED BY <2>2, <2>3, <2>4, <2>5
<1>4. Given' /\ Walk' /\ Aimed'
  BY <1>1 DEF EventInv, Given, Walk, Aimed, Ahead, Listening
<1> QED BY <1>2, <1>3, <1>4 DEF EventInv

--------------------------------------------------------------------------------
LEMMA ArriveStep ==
  ASSUME EventInv, NEW n \in Notifiers, NEW kind \in Kinds, NEW k \in Keys, Arrive(n, kind, k)
  PROVE  EventInv'
<1>1. /\ note[n].at = "idle"
      /\ note' = [note EXCEPT ![n] = [at |-> "waiting", kind |-> kind, key |-> k, pos |-> -1]]
      /\ owed' = [owed EXCEPT ![n] = IF kind = "all" THEN Listening ELSE Listening \intersect {k}]
      /\ removed' = [removed EXCEPT ![n] = {}]
      /\ UNCHANGED <<subscriptions, pendingSubscriptions, pendingUnsubscriptions, nextSubscription,
                     attached, app, notifying>>
  BY DEF Arrive, eventVars
<1>2. Listening' = Listening /\ Listening \subseteq Keys
  BY <1>1 DEF Listening, EventInv, TypeOK
<1>3. TypeOK'
  <2>1. note' \in [Notifiers -> [at : Phases, kind : Kinds, key : Int, pos : Int]]
    BY <1>1, MaxSubscriptionsAssumption DEF EventInv, TypeOK, Phases, Keys
  <2>2. owed' \in [Notifiers -> SUBSET Keys] /\ removed' \in [Notifiers -> SUBSET Keys]
    BY <1>1, <1>2 DEF EventInv, TypeOK
  <2> QED BY <1>1, <2>1, <2>2 DEF EventInv, TypeOK
<1>4. Given' /\ Handler'
  BY <1>1, <1>2 DEF EventInv, Given, Handler
<1>5. ASSUME NEW m \in Notifiers, m # n
      PROVE  note'[m] = note[m] /\ owed'[m] = owed[m] /\ removed'[m] = removed[m]
  BY <1>1, <1>5 DEF EventInv, TypeOK
<1>6. /\ note'[n] = [at |-> "waiting", kind |-> kind, key |-> k, pos |-> -1]
      /\ owed'[n] = IF kind = "all" THEN Listening ELSE Listening \intersect {k}
  BY <1>1 DEF EventInv, TypeOK
<1>7. Walk'
  <2>1. notifying # n
    BY <1>1 DEF EventInv, Walk
  <2> QED BY <1>1, <1>2, <1>5, <1>6, <2>1 DEF EventInv, Walk, Ahead
<1>8. Aimed'
  BY <1>5, <1>6 DEF EventInv, Aimed
<1> QED BY <1>3, <1>4, <1>7, <1>8 DEF EventInv

LEMMA DrainStep ==
  ASSUME EventInv, NEW n \in Notifiers, Drain(n) PROVE EventInv'
<1>1. /\ note[n].at = "waiting" /\ notifying = Nobody
      /\ notifying' = n
      /\ subscriptions' = Listening
      /\ pendingUnsubscriptions' = {} /\ pendingSubscriptions' = {}
      /\ note' = [note EXCEPT ![n].at = "calling"]
      /\ removed' = [removed EXCEPT ![n] = (0..nextSubscription - 1) \ Listening]
      /\ UNCHANGED <<nextSubscription, attached, app, owed>>
  BY DEF Drain, Listening
<1>2. Listening' = Listening /\ Listening \subseteq Keys /\ Listening \subseteq 0..nextSubscription - 1
  BY <1>1 DEF Listening, EventInv, TypeOK, Given
<1>3. TypeOK'
  <2>1. note' \in [Notifiers -> [at : Phases, kind : Kinds, key : Int, pos : Int]]
    BY <1>1 DEF EventInv, TypeOK, Phases
  <2>2. 0..nextSubscription - 1 \subseteq Keys
    BY MaxSubscriptionsAssumption DEF EventInv, TypeOK, Keys
  <2>3. removed' \in [Notifiers -> SUBSET Keys]
    BY <1>1, <2>2 DEF EventInv, TypeOK
  <2> QED BY <1>1, <1>2, <2>1, <2>3 DEF EventInv, TypeOK
<1>4. Given' /\ Handler'
  BY <1>1, <1>2 DEF EventInv, Given, Handler
<1>5. ASSUME NEW m \in Notifiers, m # n
      PROVE  note'[m] = note[m] /\ removed'[m] = removed[m] /\ note[m].at # "calling"
  BY <1>1, <1>5, NotifiersAssumption DEF EventInv, TypeOK, Walk
<1>6. /\ note'[n].at = "calling" /\ note'[n].pos = -1
      /\ note'[n].kind = note[n].kind /\ note'[n].key = note[n].key
      /\ removed'[n] = (0..nextSubscription - 1) \ Listening
  BY <1>1 DEF EventInv, TypeOK, Walk
<1>7. Ahead(n)' = Listening
  BY <1>1, <1>2, <1>6, MaxSubscriptionsAssumption DEF Ahead, Keys
<1>8. Walk'
  <2>1. ASSUME NEW m \in Notifiers, m # n
        PROVE  /\ note'[m].at = "calling" <=> notifying' = m
               /\ note'[m].at = "waiting" => owed'[m] \subseteq Listening'
               /\ note'[m].at = "waiting" => note'[m].pos = -1
               /\ note'[m].at # "calling"
    BY <1>1, <1>2, <1>5, <2>1 DEF EventInv, Walk
  <2>2. /\ owed'[n] \subseteq Ahead(n)'
        /\ subscriptions' \intersect removed'[n] = {}
    BY <1>1, <1>6, <1>7 DEF EventInv, Walk
  <2> QED BY <1>1, <1>6, <2>1, <2>2 DEF Walk
<1>9. Aimed'
  BY <1>1, <1>5, <1>6 DEF EventInv, Aimed
<1> QED BY <1>3, <1>4, <1>8, <1>9 DEF EventInv

\* The iterator moves to the least key ahead, which it then has behind it.
LEMMA WalkAhead ==
  ASSUME EventInv, NEW n \in Notifiers, NEW k \in Ahead(n), \A j \in Ahead(n) : k <= j,
         subscriptions' = subscriptions, note' = [note EXCEPT ![n].pos = k]
  PROVE  Ahead(n)' = Ahead(n) \ {k}
<1>1. subscriptions \subseteq Int /\ note[n].pos \in Int /\ k \in Int
  BY MaxSubscriptionsAssumption DEF EventInv, TypeOK, Keys, Ahead
<1>2. note'[n].pos = k /\ k > note[n].pos
  BY DEF EventInv, TypeOK, Ahead
<1>3. ASSUME NEW j \in Int PROVE j \in Ahead(n)' <=> j \in Ahead(n) \ {k}
  BY <1>1, <1>2, <1>3 DEF Ahead
<1>4. Ahead(n) \subseteq Int /\ Ahead(n)' \subseteq Int
  BY <1>1 DEF Ahead
<1> QED BY <1>3, <1>4, Zenon

LEMMA WalkStep ==
  ASSUME EventInv, NEW n \in Notifiers, Step(n) PROVE EventInv'
<1>1. PICK k \in Ahead(n) :
        /\ \A j \in Ahead(n) : k <= j
        /\ note' = [note EXCEPT ![n].pos = k]
        /\ owed' = [owed EXCEPT ![n] =
                      IF note[n].kind = "all" \/ note[n].key = k THEN @ \ {k} ELSE @]
  BY DEF Step
<1>2. /\ note[n].at = "calling"
      /\ UNCHANGED <<subscriptions, pendingSubscriptions, pendingUnsubscriptions, nextSubscription,
                     attached, app, notifying, removed>>
  BY DEF Step, eventVars
<1>3. k \in Int
  BY MaxSubscriptionsAssumption DEF Ahead, EventInv, TypeOK, Keys
<1>4. TypeOK'
  <2>1. note' \in [Notifiers -> [at : Phases, kind : Kinds, key : Int, pos : Int]]
    BY <1>1, <1>3 DEF EventInv, TypeOK
  <2>2. owed' \in [Notifiers -> SUBSET Keys]
    BY <1>1 DEF EventInv, TypeOK
  <2> QED BY <1>2, <2>1, <2>2 DEF EventInv, TypeOK
<1>5. Given' /\ Handler' /\ Listening' = Listening
  BY <1>2 DEF EventInv, Given, Handler, Listening
<1>6. ASSUME NEW m \in Notifiers, m # n
      PROVE  note'[m] = note[m] /\ owed'[m] = owed[m] /\ Ahead(m)' = Ahead(m)
  BY <1>1, <1>2, <1>6 DEF EventInv, TypeOK, Ahead
<1>7. /\ note'[n].at = "calling" /\ note'[n].pos = k
      /\ note'[n].kind = note[n].kind /\ note'[n].key = note[n].key
      /\ owed'[n] = IF note[n].kind = "all" \/ note[n].key = k THEN owed[n] \ {k} ELSE owed[n]
  BY <1>1, <1>2 DEF EventInv, TypeOK
<1>8. owed'[n] \subseteq Ahead(n)'
  <2>1. Ahead(n)' = Ahead(n) \ {k}
    BY <1>1, <1>2, WalkAhead
  <2>2. owed[n] \subseteq Ahead(n)
    BY <1>2 DEF EventInv, Walk
  <2>3. k \notin owed'[n]
    BY <1>2, <1>7 DEF EventInv, Aimed
  <2> QED BY <1>7, <2>1, <2>2, <2>3
<1>9. Walk'
  BY <1>2, <1>5, <1>6, <1>7, <1>8 DEF EventInv, Walk
<1>10. Aimed'
  BY <1>2, <1>6, <1>7 DEF EventInv, Aimed
<1> QED BY <1>4, <1>5, <1>9, <1>10 DEF EventInv

LEMMA FinishStep ==
  ASSUME EventInv, NEW n \in Notifiers, Finish(n) PROVE EventInv'
<1>1. /\ note[n].at = "calling"
      /\ notifying' = Nobody
      /\ UNCHANGED <<subscriptions, pendingSubscriptions, pendingUnsubscriptions, nextSubscription,
                     attached, app, owed, removed>>
  BY DEF Finish, eventVars
<1>2. /\ note' \in [Notifiers -> [at : Phases, kind : Kinds, key : Int, pos : Int]]
      /\ note'[n].at \in {"idle", "forgetting"}
      /\ \A m \in Notifiers : m # n => note'[m] = note[m]
  BY DEF Finish, EventInv, TypeOK, Idle, Phases, Kinds
<1>3. TypeOK' /\ Given' /\ Handler'
  BY <1>1, <1>2 DEF EventInv, TypeOK, Given, Handler, Listening
<1>4. notifying = n
  BY <1>1 DEF EventInv, Walk
<1>5. Walk'
  BY <1>1, <1>2, <1>4, NotifiersAssumption DEF EventInv, Walk, Ahead, Listening
<1>6. Aimed'
  BY <1>1, <1>2 DEF EventInv, Aimed
<1> QED BY <1>3, <1>5, <1>6 DEF EventInv

LEMMA ForgetStep ==
  ASSUME EventInv, NEW n \in Notifiers, Forget(n) PROVE EventInv'
<1>1. /\ note[n].at = "forgetting"
      /\ Removes(note[n].key)
      /\ note' = [note EXCEPT ![n] = Idle]
      /\ UNCHANGED <<nextSubscription, attached, app, notifying, removed>>
  BY DEF Forget
<1> DEFINE k == note[n].key
<1>2. /\ Listening' = Listening \ {k} /\ subscriptions' = subscriptions
      /\ pendingSubscriptions' \subseteq pendingSubscriptions
      /\ pendingUnsubscriptions' \subseteq subscriptions
      /\ owed' \in [Notifiers -> SUBSET Keys]
      /\ \A m \in Notifiers : owed'[m] = owed[m] \ {k}
  BY <1>1 DEF EventInv, TypeOK, Given, Removes, Listening
<1> HIDE DEF k
<1>3. /\ note' \in [Notifiers -> [at : Phases, kind : Kinds, key : Int, pos : Int]]
      /\ note'[n].at = "idle"
      /\ \A m \in Notifiers : m # n => note'[m] = note[m]
  BY <1>1 DEF EventInv, TypeOK, Idle, Phases, Kinds
<1>4. TypeOK' /\ Given'
  BY <1>1, <1>2, <1>3 DEF EventInv, TypeOK, Given
<1>5. Handler'
  BY <1>1, <1>2 DEF EventInv, Handler
<1>6. Walk'
  BY <1>1, <1>2, <1>3 DEF EventInv, Walk, Ahead
<1>7. Aimed'
  BY <1>1, <1>2, <1>3 DEF EventInv, Aimed
<1> QED BY <1>4, <1>5, <1>6, <1>7 DEF EventInv

--------------------------------------------------------------------------------
LEMMA NextInv == EventInv /\ [Next]_vars => EventInv'
<1> SUFFICES ASSUME EventInv, [Next]_vars PROVE EventInv'
  OBVIOUS
<1>1. CASE Next
  BY <1>1, SubscribeStep, UnsubscribeStep, HandlerStep, ArriveStep, DrainStep, WalkStep,
     FinishStep, ForgetStep
  DEF Next, Call, Notification
<1>2. CASE UNCHANGED vars
  BY <1>2 DEF vars, eventVars, notifierVars, EventInv, TypeOK, Given, Handler, Walk, Aimed, Ahead,
     Listening
<1> QED BY <1>1, <1>2

LEMMA Invariant == Spec => []EventInv
  BY InitInv, NextInv, PTL DEF Spec

\* The state keeps its type.
THEOREM TypeCorrect == Spec => []TypeOK
<1>1. EventInv => TypeOK
  BY DEF EventInv
<1> QED BY <1>1, Invariant, PTL

\* A listener at rest is always within reach of the bus.
THEOREM AlwaysHeardOf == Spec => []HeardOf
<1>1. EventInv => HeardOf
  BY DEF EventInv, Handler, HeardOf
<1> QED BY <1>1, Invariant, PTL

\* A signal reaches everyone who was subscribed when it arrived and stayed so.
THEOREM AlwaysReachesAll == Spec => []ReachesAll
<1>1. EventInv => ReachesAll
  BY DEF EventInv, Walk, ReachesAll
<1> QED BY <1>1, Invariant, PTL

\* Nobody is called by a notification that began after the removal.
THEOREM AlwaysSilent == Spec => []RemovedIsSilent
<1>1. EventInv => RemovedIsSilent
  BY DEF EventInv, Walk, Ahead, RemovedIsSilent
<1> QED BY <1>1, Invariant, PTL

\* While a notification walks the map of listeners nobody else changes it: the
\* iterator stays valid through the callbacks (Event.hpp 186-190).
MapStands ==
  [][\A n \in Notifiers :
       note[n].at = "calling" /\ note'[n].at = "calling" => subscriptions' = subscriptions]_vars

\* notificationMutex_ and the pending sets keep the iterator valid: it follows from
\* EventInv, which says who holds the mutex.
THEOREM MapAlwaysStands == Spec => MapStands
<1>1. ASSUME EventInv, [Next]_vars, NEW n \in Notifiers,
             note[n].at = "calling", note'[n].at = "calling"
      PROVE  subscriptions' = subscriptions
  <2>1. ASSUME NEW m \in Notifiers PROVE ~Drain(m)
    <3>1. notifying = n
      BY <1>1 DEF EventInv, Walk
    <3> QED BY <1>1, <3>1, NotifiersAssumption DEF Drain
  <2>2. CASE Call
    BY <2>2 DEF Call, Subscribe, Added, OnFirstListenerAdded, OnLastListenerRemoved,
       Unsubscribe, Removes, eventVars
  <2>3. CASE \E m \in Notifiers : \/ \E kind \in Kinds, k \in Keys : Arrive(m, kind, k)
                                  \/ Notification(m)
    BY <2>1, <2>3 DEF Arrive, Notification, Step, Finish, Forget, Removes, eventVars
  <2>4. CASE UNCHANGED vars
    BY <2>4 DEF vars, eventVars
  <2> QED BY <1>1, <2>2, <2>3, <2>4 DEF Next
<1>2. EventInv /\ [Next]_vars =>
        [\A n \in Notifiers :
           note[n].at = "calling" /\ note'[n].at = "calling" => subscriptions' = subscriptions]_vars
  BY <1>1
<1> QED BY <1>2, Invariant, PTL DEF Spec, MapStands

--------------------------------------------------------------------------------
(* The maps and pending sets are one set of listeners: ListenerSet.        *)

Due == IF notifying \in Notifiers THEN Ahead(notifying) ELSE {}

LEMMA InitPromise == Init => Promise!Init
<1> SUFFICES ASSUME Init PROVE Promise!Init
  OBVIOUS
<1>1. nextSubscription = 0 /\ Listening = {} /\ notifying = Nobody
  BY DEF Init, Listening
<1> QED BY <1>1, NotifiersAssumption DEF Promise!Init

\* A step that leaves the map and the notifications alone leaves what is due.
LEMMA DueStays ==
  ASSUME UNCHANGED <<subscriptions, notifying, note>> PROVE Due' = Due
  BY DEF Due, Ahead

\* A removal is one step of the promise, or none when the listener was not there.
LEMMA RemovesOne ==
  ASSUME EventInv, NEW k \in Keys, Removes(k), UNCHANGED <<nextSubscription, notifying>>, Due' = Due
  PROVE  Promise!Unsubscribe \/ UNCHANGED <<nextSubscription, Listening, notifying, Due>>
<1>1. Listening' = Listening \ {k}
  BY RemovesStep
<1>2. CASE k \in Listening
  BY <1>1, <1>2 DEF Promise!Unsubscribe, Due
<1>3. CASE k \notin Listening
  <2>1. Listening' = Listening
    BY <1>1, <1>3
  <2> QED BY <2>1
<1> QED BY <1>2, <1>3

\* What a caller does is a subscription, a removal or no step.
LEMMA CallKeeps ==
  ASSUME EventInv, Call
  PROVE  Promise!Next \/ UNCHANGED <<nextSubscription, Listening, notifying, Due>>
<1>1. CASE \E by \in Notifiers \union {Nobody} : Subscribe(by)
  <2>1. /\ Listening' = Listening \union {nextSubscription}
        /\ nextSubscription' = nextSubscription + 1
        /\ UNCHANGED <<subscriptions, notifying, note>>
    BY <1>1 DEF Subscribe, Listening, notifierVars
  <2> QED BY <2>1, DueStays DEF Promise!Next, Promise!Subscribe, Due
<1>2. CASE Added \/ OnFirstListenerAdded \/ OnLastListenerRemoved
  <2>1. UNCHANGED <<subscriptions, pendingSubscriptions, pendingUnsubscriptions, nextSubscription,
                    notifying, note>>
    BY <1>2 DEF Added, OnFirstListenerAdded, OnLastListenerRemoved, eventVars, notifierVars
  <2> QED BY <2>1, DueStays DEF Listening
<1>3. CASE \E by \in Notifiers \union {Nobody}, k \in Keys : Unsubscribe(by, k)
  <2>1. PICK by \in Notifiers \union {Nobody}, k \in Keys : Unsubscribe(by, k)
    BY <1>3
  <2>2. Removes(k) /\ UNCHANGED <<nextSubscription, notifying, note>>
    BY <2>1 DEF Unsubscribe, notifierVars
  <2>3. Due' = Due
    BY <2>2, DueStays, RemovesStep
  <2> QED BY <2>2, <2>3, RemovesOne DEF Promise!Next
<1> QED BY <1>1, <1>2, <1>3 DEF Call

LEMMA DrainBegins == ASSUME EventInv, NEW n \in Notifiers, Drain(n) PROVE Promise!Begin
<1>1. /\ note[n].at = "waiting" /\ notifying = Nobody /\ notifying' = n
      /\ subscriptions' = Listening
      /\ pendingUnsubscriptions' = {} /\ pendingSubscriptions' = {}
      /\ note' = [note EXCEPT ![n].at = "calling"]
      /\ nextSubscription' = nextSubscription
  BY DEF Drain, Listening
<1>2. Listening' = Listening /\ Listening \subseteq Keys
  BY <1>1 DEF Listening, EventInv, TypeOK
<1>3. note'[n].pos = -1
  BY <1>1 DEF EventInv, TypeOK, Walk
<1>4. Ahead(n)' = Listening
  BY <1>1, <1>2, <1>3, MaxSubscriptionsAssumption DEF Ahead, Keys
<1>5. Due' = Listening
  BY <1>1, <1>4 DEF Due
<1> QED BY <1>1, <1>2, <1>5 DEF Promise!Begin, Due

LEMMA StepVisits == ASSUME EventInv, NEW n \in Notifiers, Step(n) PROVE Promise!Visit
<1>1. PICK k \in Ahead(n) : /\ \A j \in Ahead(n) : k <= j
                            /\ note' = [note EXCEPT ![n].pos = k]
  BY DEF Step
<1>2. /\ note[n].at = "calling"
      /\ UNCHANGED <<subscriptions, pendingSubscriptions, pendingUnsubscriptions, nextSubscription,
                     notifying>>
  BY DEF Step, eventVars
<1>3. notifying = n /\ n # Nobody
  BY <1>2, NotifiersAssumption DEF EventInv, Walk
<1>4. Ahead(n)' = Ahead(n) \ {k}
  BY <1>1, <1>2, WalkAhead
<1>5. Due = Ahead(n) /\ Due' = Due \ {k} /\ Listening' = Listening
  BY <1>2, <1>3, <1>4 DEF Due, Listening
<1> QED BY <1>1, <1>2, <1>3, <1>5 DEF Promise!Visit, Due

LEMMA FinishEnds == ASSUME EventInv, NEW n \in Notifiers, Finish(n) PROVE Promise!End
<1>1. /\ note[n].at = "calling" /\ Ahead(n) = {} /\ notifying' = Nobody
      /\ UNCHANGED <<subscriptions, pendingSubscriptions, pendingUnsubscriptions, nextSubscription>>
  BY DEF Finish, eventVars
<1>2. notifying = n /\ n # Nobody
  BY <1>1, NotifiersAssumption DEF EventInv, Walk
<1>3. Due = {} /\ Due' = {} /\ Listening' = Listening
  BY <1>1, <1>2, NotifiersAssumption DEF Due, Listening
<1> QED BY <1>1, <1>2, <1>3 DEF Promise!End, Due

\* A notification that arrives, or gives a refused listener up, is not walking:
\* what is due to the one that walks stays.
LEMMA OthersWalkOn ==
  ASSUME EventInv, NEW n \in Notifiers, note[n].at # "calling",
         UNCHANGED <<subscriptions, notifying>>, NEW r, note' = [note EXCEPT ![n] = r]
  PROVE  Due' = Due
<1>1. CASE notifying \in Notifiers
  <2>1. notifying # n
    BY DEF EventInv, Walk
  <2>2. note'[notifying] = note[notifying]
    BY <1>1, <2>1 DEF EventInv, TypeOK
  <2> QED BY <1>1, <2>2 DEF Due, Ahead
<1>2. CASE notifying \notin Notifiers
  BY <1>2 DEF Due
<1> QED BY <1>1, <1>2

LEMMA NotifierKeeps ==
  ASSUME EventInv, NEW n \in Notifiers,
         (\E kind \in Kinds, k \in Keys : Arrive(n, kind, k)) \/ Notification(n)
  PROVE  Promise!Next \/ UNCHANGED <<nextSubscription, Listening, notifying, Due>>
<1>1. CASE \E kind \in Kinds, k \in Keys : Arrive(n, kind, k)
  <2>1. PICK kind \in Kinds, k \in Keys : Arrive(n, kind, k)
    BY <1>1
  <2>2. /\ note[n].at = "idle"
        /\ note' = [note EXCEPT ![n] = [at |-> "waiting", kind |-> kind, key |-> k, pos |-> -1]]
        /\ UNCHANGED <<subscriptions, pendingSubscriptions, pendingUnsubscriptions, nextSubscription,
                       notifying>>
    BY <2>1 DEF Arrive, eventVars
  <2> QED BY <2>2, OthersWalkOn DEF Listening
<1>2. CASE Forget(n)
  <2>1. /\ note[n].at = "forgetting" /\ Removes(note[n].key)
        /\ note' = [note EXCEPT ![n] = Idle]
        /\ UNCHANGED <<subscriptions, nextSubscription, notifying>>
    BY <1>2 DEF Forget, Removes
  <2>2. Due' = Due
    BY <2>1, OthersWalkOn
  <2>3. CASE note[n].key \in Keys
    BY <2>1, <2>2, <2>3, RemovesOne DEF Promise!Next
  <2>4. CASE note[n].key \notin Keys
    <3>1. Listening' = Listening
      BY <2>1, <2>4 DEF Removes, Listening, EventInv, TypeOK
    <3> QED BY <2>1, <2>2, <3>1
  <2> QED BY <2>3, <2>4
<1>3. CASE Drain(n) \/ Step(n) \/ Finish(n)
  BY <1>3, DrainBegins, StepVisits, FinishEnds DEF Promise!Next
<1> QED BY <1>1, <1>2, <1>3 DEF Notification

\* The event implements the set of listeners its callers think of: its maps, its
\* pending sets and its two locks are no more than that.
THEOREM KeepsPromise == Spec => ImplementsPromise
<1>1. ASSUME EventInv, [Next]_vars PROVE [Promise!Next]_(Promise!listenerVars)
  <2>0. ASSUME UNCHANGED <<nextSubscription, Listening, notifying, Due>>
        PROVE  UNCHANGED Promise!listenerVars
    BY <2>0 DEF Promise!listenerVars, Due
  <2>1. CASE Call
    BY <1>1, <2>0, <2>1, CallKeeps
  <2>2. CASE \E n \in Notifiers : \/ \E kind \in Kinds, k \in Keys : Arrive(n, kind, k)
                                  \/ Notification(n)
    BY <1>1, <2>0, <2>2, NotifierKeeps
  <2>3. CASE UNCHANGED vars
    BY <2>3 DEF vars, eventVars, notifierVars, Listening, Ahead, Promise!listenerVars
  <2> QED BY <1>1, <2>1, <2>2, <2>3 DEF Next
<1>2. EventInv /\ [Next]_vars => [Promise!Next]_(Promise!listenerVars)
  BY <1>1
<1> QED BY <1>2, InitPromise, Invariant, PTL DEF Spec, ImplementsPromise, Promise!Spec
=============================================================================
