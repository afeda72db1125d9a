--------------------------- MODULE NotifierProofs ---------------------------
(***************************************************************************)
(* What Notifier guarantees for any number of threads, listeners, states   *)
(* and depth of re-entrancy.                                               *)
(***************************************************************************)
EXTENDS Notifier, SequenceTheorems, TLAPS

\* Removing an element leaves a sequence over the same set: what unsubscribing
\* does to listeners_.
LEMMA RemoveAtType ==
  ASSUME NEW S, NEW s \in Seq(S), NEW i \in DOMAIN s
  PROVE  RemoveAt(s, i) \in Seq(S)
<1>1. i \in 1 .. Len(s) /\ Len(s) \in Nat
  BY LenProperties
<1>2. SubSeq(s, 1, i - 1) \in Seq(S)
  BY <1>1, SMT
<1>3. SubSeq(s, i + 1, Len(s)) \in Seq(S)
  BY <1>1, SMT
<1> QED
  BY <1>2, <1>3, ConcatProperties DEF RemoveAt

----------------------------------------------------------------------------
\* A client that has just been constructed: nothing queued, nobody delivering.
LEMMA TypeInit == Init => TypeOK
<1> USE StatesAssumption
<1> SUFFICES ASSUME Init PROVE TypeOK
  OBVIOUS
<1>1. state \in States
  BY DEF Init, state
<1>2. [nth |-> 0, value |-> Invalid] \in Event
  BY DEF Event
<1>3. sent \in Seq(States) /\ got \in Seq(States)
  BY <1>1 DEF Init
<1>4. mutex \in Frames \cup {Nobody} /\ pc \in [Frames -> PC]
  BY DEF Init, PC
<1>5. ev \in [Frames -> Event] /\ cbs \in [Frames -> Seq(Listeners)]
  BY <1>2 DEF Init
<1>6. seen \in [Listeners -> Seq(Event)] /\ pending \in Seq(Event)
  BY DEF Init
<1>7. listeners \in Seq(Listeners) /\ changes \in Nat
  BY DEF Init
<1>8. raw \in States /\ last_reported \in States
  BY <1>1 DEF Init
<1>9. untrusted \in BOOLEAN /\ guard \in BOOLEAN /\ delivering \in BOOLEAN
      /\ stale \in BOOLEAN
  BY DEF Init
<1> QED
  BY <1>3, <1>4, <1>5, <1>6, <1>7, <1>8, <1>9 DEF TypeOK

\* No step of any frame, of the clock or of a subscription breaks a type.
LEMMA TypeStep == TypeOK /\ [Next]_vars => TypeOK'
<1> USE StatesAssumption, BoundsAssumption
<1> SUFFICES ASSUME TypeOK, [Next]_vars PROVE TypeOK'
  OBVIOUS
<1> USE DEF TypeOK, chan, Goto, PC, Draining
<1>1. ASSUME NEW f \in Frames, NEW s \in States, SetState(f, s)
      PROVE  TypeOK'
  <2>1. changes' \in Nat
    BY <1>1 DEF SetState
  <2> QED
    BY <1>1, <2>1 DEF SetState
<1>2. ASSUME NEW f \in Frames, Poll(f)
      PROVE  TypeOK'
  BY <1>2 DEF Poll
<1>3. ASSUME NEW f \in Frames, Lock(f)
      PROVE  TypeOK'
  BY <1>3 DEF Lock
<1>4. ASSUME NEW f \in Frames, Decide(f)
      PROVE  TypeOK'
  <2>1. Reported \in States
    BY DEF Reported
  <2>2. CASE last_reported = Reported /\ UNCHANGED chan
    BY <1>4, <2>2 DEF Decide
  <2>3. CASE last_reported # Reported
    <3>1. [nth |-> Len(sent) + 1, value |-> Reported] \in Event
      BY <2>1 DEF Event
    <3>2. pending' \in Seq(Event)
      <4>1. pending' = Append(pending, [nth |-> Len(sent) + 1,
                                        value |-> Reported])
        BY <1>4, <2>3 DEF Decide
      <4> QED
        BY <3>1, <4>1, AppendProperties
    <3>3. sent' \in Seq(States)
      <4>1. sent' = Append(sent, Reported)
        BY <1>4, <2>3 DEF Decide
      <4> QED
        BY <2>1, <4>1, AppendProperties
    <3> QED
      BY <1>4, <2>1, <2>3, <3>2, <3>3 DEF Decide
  <2> QED
    BY <1>4, <2>2, <2>3 DEF Decide
<1>5. ASSUME NEW f \in Frames, PushFails(f)
      PROVE  TypeOK'
  BY <1>5 DEF PushFails
<1>6. ASSUME NEW f \in Frames, Take(f)
      PROVE  TypeOK'
  <2>1. CASE pending = <<>>
    BY <1>6, <2>1 DEF Take
  <2>2. CASE pending # <<>>
    <3>1. Head(pending) \in Event /\ Tail(pending) \in Seq(Event)
      BY <2>2, HeadTailProperties
    <3>2. Head(pending).value \in States
      BY <3>1 DEF Event
    <3>3. got' \in Seq(States)
      <4>1. got' = Append(got, Head(pending).value)
        BY <1>6, <2>2 DEF Take
      <4> QED
        BY <3>2, <4>1, AppendProperties
    <3> QED
      BY <1>6, <2>2, <3>1, <3>3 DEF Take
  <2> QED
    BY <2>1, <2>2
<1>7. ASSUME NEW f \in Frames, CopyListeners(f)
      PROVE  TypeOK'
  BY <1>7 DEF CopyListeners
<1>8. ASSUME NEW f \in Frames, Unwind(f)
      PROVE  TypeOK'
  BY <1>8 DEF Unwind
<1>9. ASSUME NEW f \in Frames, Call(f)
      PROVE  TypeOK'
  <2>1. Head(cbs[f]) \in Listeners /\ Tail(cbs[f]) \in Seq(Listeners)
    BY <1>9, HeadTailProperties DEF Call
  <2>2. Append(seen[Head(cbs[f])], ev[f]) \in Seq(Event)
    BY <2>1, AppendProperties
  <2> QED
    BY <1>9, <2>1, <2>2 DEF Call
<1>10. ASSUME NEW f \in Frames, Return(f)
       PROVE  TypeOK'
  BY <1>10 DEF Return
<1>11. ASSUME NEW f \in Frames, Delivered(f)
       PROVE  TypeOK'
  BY <1>11 DEF Delivered
<1>12. CASE ClockMoves
  <2>1. changes' \in Nat
    BY <1>12 DEF ClockMoves
  <2> QED
    BY <1>12, <2>1 DEF ClockMoves
<1>13. ASSUME NEW l \in Listeners, Subscribe(l)
       PROVE  TypeOK'
  BY <1>13, AppendProperties DEF Subscribe
<1>14. ASSUME NEW l \in Listeners, Unsubscribe(l)
       PROVE  TypeOK'
  <2>1. listeners' \in Seq(Listeners)
    BY <1>14, RemoveAtType DEF Unsubscribe
  <2> QED
    BY <1>14, <2>1 DEF Unsubscribe
<1>15. CASE UNCHANGED vars
  BY <1>15 DEF vars
<1> QED
  BY <1>1, <1>2, <1>3, <1>4, <1>5, <1>6, <1>7, <1>8, <1>9, <1>10, <1>11,
     <1>12, <1>13, <1>14, <1>15 DEF Next, FrameNext

\* Every variable keeps its type: in particular pending_ holds tagged events
\* only, and a frame is never left at a place notify_() does not have.
THEOREM TypeCorrect == Spec => []TypeOK
BY TypeInit, TypeStep, PTL DEF Spec

----------------------------------------------------------------------------
\* The mutex is held by the frame that is between its two reads, and a frame
\* is active at depth d > 0 only inside a listener its caller is running.
MutexHeld == \A f \in Frames : pc[f] = "decide" <=> mutex = f

Nesting == \A f \in Frames :
             Depth(f) > 0 /\ pc[f] # "idle" => pc[Caller(f)] = "inside"

Control == TypeOK /\ MutexHeld /\ OneBaton /\ Nesting

\* A frame inside a listener was called by another frame of the same thread.
LEMMA CallerIsFrame ==
  ASSUME NEW f \in Frames, Depth(f) > 0
  PROVE  Caller(f) \in Frames /\ Caller(f) # f
BY BoundsAssumption DEF Frames, Depth, Caller

\* A frame called from inside a listener is the callee of its caller.
LEMMA CalleeOfCaller ==
  ASSUME NEW f \in Frames, Depth(f) > 0, NEW g \in Frames, Caller(f) = g
  PROVE  Depth(g) < MaxDepth /\ Callee(g) = f
BY BoundsAssumption DEF Frames, Depth, Caller, Callee

\* At construction the mutex and the baton are free and every frame is idle.
LEMMA ControlInit == Init => Control
<1> SUFFICES ASSUME Init PROVE Control
  OBVIOUS
<1>1. TypeOK
  BY TypeInit
<1>2. MutexHeld
  BY NobodyAssumption DEF Init, MutexHeld
<1>3. OneBaton /\ Nesting
  BY DEF Init, OneBaton, Nesting, Draining
<1> QED
  BY <1>1, <1>2, <1>3 DEF Control

\* Every step keeps the mutex, the baton and the nesting of frames together:
\* the baton alone is not inductive, since a frame that returns from a listener
\* drains on only if its callee is idle.
LEMMA ControlStep == Control /\ [Next]_vars => Control'
<1> SUFFICES ASSUME Control, [Next]_vars PROVE Control'
  OBVIOUS
<1>0. TypeOK /\ TypeOK'
  BY TypeStep DEF Control
<1>a. pc \in [Frames -> PC]
  BY <1>0 DEF TypeOK
<1> USE DEF Control, Goto
<1>1. ASSUME NEW f \in Frames, pc[f] \notin {"decide"}, pc'[f] \notin {"decide"},
             pc' = [pc EXCEPT ![f] = pc'[f]], UNCHANGED mutex
      PROVE  MutexHeld'
  BY <1>1, <1>a DEF MutexHeld
<1>2. ASSUME NEW f \in Frames, pc' = [pc EXCEPT ![f] = pc'[f]],
             UNCHANGED delivering, pc[f] \in Draining <=> pc'[f] \in Draining
      PROVE  OneBaton'
  BY <1>2, <1>a DEF OneBaton
<1>3. ASSUME NEW f \in Frames, pc' = [pc EXCEPT ![f] = pc'[f]],
             pc[f] # "idle", pc[f] # "inside"
      PROVE  Nesting'
  BY <1>3, <1>a, CallerIsFrame DEF Nesting
<1> HIDE DEF Goto
<1>11. ASSUME NEW f \in Frames, MayCall(f), Goto(f, "lock"),
              UNCHANGED <<mutex, delivering>>
       PROVE  Control'
  <2>1. pc[f] = "idle" /\ pc'[f] = "lock" /\ pc' = [pc EXCEPT ![f] = pc'[f]]
    BY <1>11, <1>a DEF MayCall, Goto
  <2>2. Nesting'
    BY <1>11, <1>a, CallerIsFrame DEF Nesting, MayCall, Goto
  <2> QED
    BY <2>1, <2>2, <1>0, <1>1, <1>2, <1>11 DEF Draining
<1>12. ASSUME NEW f \in Frames, Lock(f)
       PROVE  Control'
  <2>1. pc[f] = "lock" /\ pc'[f] = "decide" /\ pc' = [pc EXCEPT ![f] = pc'[f]]
        /\ mutex = Nobody /\ mutex' = f /\ UNCHANGED delivering
    BY <1>12, <1>a DEF Lock, Goto, chan
  <2>2. MutexHeld'
    BY <2>1, <1>a, NobodyAssumption DEF MutexHeld
  <2> QED
    BY <2>1, <2>2, <1>0, <1>2, <1>3 DEF Draining
<1>13. ASSUME NEW f \in Frames, Decide(f) \/ PushFails(f)
       PROVE  Control'
  <2>1. pc[f] = "decide" /\ mutex' = Nobody /\ pc' = [pc EXCEPT ![f] = pc'[f]]
        /\ \/ pc'[f] = "idle" /\ UNCHANGED delivering
           \/ pc'[f] = "idle" /\ delivering /\ delivering'
           \/ pc'[f] = "take" /\ ~delivering /\ delivering'
    BY <1>13, <1>a, <1>0 DEF Decide, PushFails, Goto, chan, TypeOK
  <2>2. MutexHeld'
    BY <2>1, <1>a, NobodyAssumption DEF MutexHeld
  <2>3. OneBaton'
    BY <2>1, <1>a DEF OneBaton, Draining
  <2> QED
    BY <2>1, <2>2, <2>3, <1>0, <1>3
<1>14. ASSUME NEW f \in Frames, pc[f] \in Draining, Goto(f, "idle"),
              pc[f] # "inside", UNCHANGED mutex, delivering' = FALSE
       PROVE  Control'
  <2>1. pc'[f] = "idle" /\ pc' = [pc EXCEPT ![f] = pc'[f]]
    BY <1>14, <1>a DEF Goto
  <2>2. OneBaton'
    BY <2>1, <1>14, <1>a DEF OneBaton, Draining
  <2> QED
    BY <2>1, <2>2, <1>0, <1>1, <1>3, <1>14 DEF Draining
<1>15. ASSUME NEW f \in Frames, NEW l \in Draining, pc[f] \in Draining,
              pc[f] # "inside", Goto(f, l), UNCHANGED <<mutex, delivering>>
       PROVE  Control'
  <2>1. pc'[f] = l /\ pc' = [pc EXCEPT ![f] = pc'[f]]
    BY <1>15, <1>a DEF Goto
  <2> QED
    BY <2>1, <1>0, <1>1, <1>2, <1>3, <1>15 DEF Draining
<1>16. ASSUME NEW f \in Frames, Return(f)
       PROVE  Control'
  <2>1. pc[f] = "inside" /\ pc'[f] = "deliver" /\ pc' = [pc EXCEPT ![f] = pc'[f]]
        /\ UNCHANGED <<mutex, delivering>>
    BY <1>16, <1>a DEF Return, Goto, chan
  <2>2. ASSUME NEW g \in Frames, Depth(g) > 0, pc'[g] # "idle"
        PROVE  pc'[Caller(g)] = "inside"
    <3>1. CASE g = f
      BY <3>1, <2>1, <2>2, <1>a, CallerIsFrame DEF Nesting
    <3>2. CASE g # f
      BY <3>2, <2>1, <2>2, <1>16, <1>a, CallerIsFrame, CalleeOfCaller
         DEF Nesting, Return
    <3> QED
      BY <3>1, <3>2
  <2> QED
    BY <2>1, <2>2, <1>0, <1>1, <1>2 DEF Draining, Nesting
<1>17. ASSUME UNCHANGED <<pc, mutex, delivering>>
       PROVE  Control'
  BY <1>17, <1>0 DEF MutexHeld, OneBaton, Nesting
<1>21. ASSUME NEW f \in Frames, FrameNext(f)
       PROVE  Control'
  <2>1. CASE (\E s \in States : SetState(f, s)) \/ Poll(f)
    BY <2>1, <1>11 DEF SetState, Poll, chan
  <2>2. CASE Take(f)
    BY <2>2, <1>14, <1>15 DEF Take, Draining
  <2>3. CASE Unwind(f)
    BY <2>3, <1>14 DEF Unwind, Draining
  <2>4. CASE CopyListeners(f) \/ Call(f) \/ Delivered(f)
    BY <2>4, <1>15 DEF CopyListeners, Call, Delivered, Draining, chan
  <2> QED
    BY <2>1, <2>2, <2>3, <2>4, <1>12, <1>13, <1>16, <1>21 DEF FrameNext
<1>22. CASE ClockMoves \/ \E l \in Listeners : Subscribe(l) \/ Unsubscribe(l)
  BY <1>22, <1>17 DEF ClockMoves, Subscribe, Unsubscribe, chan
<1>23. CASE UNCHANGED vars
  BY <1>23, <1>17 DEF vars, chan
<1> QED
  BY <1>21, <1>22, <1>23 DEF Next

\* So mutex, baton and nesting are right in every state notify_() can reach.
LEMMA ControlHolds == Spec => []Control
BY ControlInit, ControlStep, PTL DEF Spec

\* The baton is held exactly while one frame drains the queue.
THEOREM BatonIsUnique == Spec => []OneBaton
<1>1. Control => OneBaton
  BY DEF Control
<1> QED
  BY <1>1, ControlHolds, PTL

\* A call made from inside a listener never drains the queue: its caller is
\* inside a listener, so it holds the one baton.
THEOREM NoRecursion == Spec => []NoRecursiveDelivery
<1>1. Control => NoRecursiveDelivery
  BY CallerIsFrame DEF Control, Nesting, OneBaton, NoRecursiveDelivery, Draining
<1> QED
  BY <1>1, ControlHolds, PTL

----------------------------------------------------------------------------
\* What is queued is the part of the published events that has not been handed
\* over yet, in order.
QueueInv == /\ Len(sent) = Len(got) + Len(pending)
            /\ \A i \in 1 .. Len(pending) : pending[i].value = sent[Len(got) + i]

Queue == TypeOK /\ QueueInv /\ sent # <<>> /\ DedupeIsPublished

\* The queue of a new client is empty and its dedupe is what it booted with.
LEMMA QueueInit == Init => Queue
<1> SUFFICES ASSUME Init PROVE Queue
  OBVIOUS
<1>1. TypeOK
  BY TypeInit
<1>2. sent = <<last_reported>> /\ got = <<last_reported>> /\ pending = <<>>
  BY DEF Init
<1> QED
  BY <1>1, <1>2 DEF Queue, QueueInv, DedupeIsPublished

\* The only two steps that touch the queue: a push and a take.
LEMMA PushStep ==
  ASSUME Queue, NEW v \in States, NEW e \in Event, e.value = v,
         pending' = Append(pending, e), sent' = Append(sent, v),
         last_reported' = v, got' = got
  PROVE  QueueInv' /\ sent' # <<>> /\ DedupeIsPublished'
<1>1. /\ Len(sent') = Len(sent) + 1 /\ sent'[Len(sent) + 1] = v
      /\ \A i \in 1 .. Len(sent) : sent'[i] = sent[i]
  BY AppendProperties DEF Queue, TypeOK
<1>2. /\ Len(pending') = Len(pending) + 1 /\ pending'[Len(pending) + 1] = e
      /\ \A i \in 1 .. Len(pending) : pending'[i] = pending[i]
  BY AppendProperties DEF Queue, TypeOK
<1>3. Len(sent) \in Nat /\ Len(got) \in Nat /\ Len(pending) \in Nat
  BY LenProperties DEF Queue, TypeOK
<1>4. Len(sent') = Len(got') + Len(pending')
  BY <1>1, <1>2, <1>3 DEF Queue, QueueInv
<1>5. ASSUME NEW i \in 1 .. Len(pending')
      PROVE  pending'[i].value = sent'[Len(got') + i]
  <2>1. CASE i \in 1 .. Len(pending)
    <3>1. Len(got) + i \in 1 .. Len(sent)
      BY <2>1, <1>3 DEF Queue, QueueInv
    <3> QED
      BY <2>1, <3>1, <1>1, <1>2 DEF Queue, QueueInv
  <2>2. CASE i = Len(pending) + 1
    <3>1. Len(got) + i = Len(sent) + 1
      BY <2>2, <1>3 DEF Queue, QueueInv
    <3> QED
      BY <2>2, <3>1, <1>1, <1>2
  <2>3. Len(pending') = Len(pending) + 1
    BY <1>2
  <2>4. i \in 1 .. Len(pending) \/ i = Len(pending) + 1
    BY <1>3, <2>3
  <2> QED
    BY <2>1, <2>2, <2>4
<1>6. sent' # <<>>
  BY <1>1, <1>3
<1>7. DedupeIsPublished'
  BY <1>1 DEF DedupeIsPublished
<1> QED
  BY <1>4, <1>5, <1>6, <1>7 DEF QueueInv

\* A take hands over the event that is next in the order of publication.
LEMMA TakeStep ==
  ASSUME Queue, pending # <<>>, pending' = Tail(pending),
         got' = Append(got, Head(pending).value), sent' = sent,
         last_reported' = last_reported
  PROVE  /\ QueueInv' /\ sent' # <<>> /\ DedupeIsPublished'
         /\ Len(got) < Len(sent) /\ Head(pending).value = sent[Len(got) + 1]
<1>1. /\ Len(pending) \in Nat \ {0} /\ Len(pending') = Len(pending) - 1
      /\ \A i \in 1 .. Len(pending') : pending'[i] = pending[i + 1]
      /\ Head(pending) = pending[1] /\ Head(pending) \in Event
  BY HeadTailProperties, LenProperties, EmptySeq DEF Queue, TypeOK
<1>2. Head(pending).value \in States
  BY <1>1 DEF Event
<1>3. Len(got) \in Nat /\ Len(got') = Len(got) + 1
  BY <1>2, AppendProperties, LenProperties DEF Queue, TypeOK
<1>4. Len(sent') = Len(got') + Len(pending')
  <2>1. Len(sent) = Len(got) + Len(pending)
    BY DEF Queue, QueueInv
  <2>2. Len(pending) \in Nat /\ Len(pending') = Len(pending) - 1
    BY <1>1
  <2> QED
    BY <2>1, <2>2, <1>3
<1>5. ASSUME NEW i \in 1 .. Len(pending')
      PROVE  pending'[i].value = sent'[Len(got') + i]
  <2>1. i + 1 \in 1 .. Len(pending) /\ Len(got') + i = Len(got) + (i + 1)
    BY <1>1, <1>3
  <2> QED
    BY <2>1, <1>1 DEF Queue, QueueInv
<1>6. Len(got) < Len(sent) /\ Head(pending).value = sent[Len(got) + 1]
  BY <1>1, <1>3 DEF Queue, QueueInv
<1>7. DedupeIsPublished' /\ sent' # <<>>
  BY DEF Queue, DedupeIsPublished
<1> QED
  BY <1>4, <1>5, <1>6, <1>7 DEF QueueInv

\* Every step keeps the queue invariant and is a step of the abstract channel.
LEMMA QueueStep ==
  Queue /\ [Next]_vars => Queue' /\ [Channel!Next]_(Channel!chanVars)
<1> SUFFICES ASSUME Queue, [Next]_vars
             PROVE  Queue' /\ [Channel!Next]_(Channel!chanVars)
  OBVIOUS
<1>0. TypeOK /\ TypeOK'
  BY TypeStep DEF Queue
<1>1. ASSUME UNCHANGED <<pending, sent, got, last_reported>>
      PROVE  Queue' /\ [Channel!Next]_(Channel!chanVars)
  BY <1>0, <1>1 DEF Queue, QueueInv, DedupeIsPublished, Channel!chanVars
<1>2. ASSUME NEW f \in Frames, Decide(f)
      PROVE  Queue' /\ [Channel!Next]_(Channel!chanVars)
  <2>1. CASE UNCHANGED chan
    BY <2>1, <1>1 DEF chan
  <2>2. CASE /\ last_reported # Reported
             /\ pending' = Append(pending, [nth |-> Len(sent) + 1,
                                            value |-> Reported])
             /\ sent' = Append(sent, Reported)
             /\ last_reported' = Reported
             /\ UNCHANGED got
    <3>1. Reported \in States
      BY <1>0, StatesAssumption DEF TypeOK, Reported
    <3>2. [nth |-> Len(sent) + 1, value |-> Reported] \in Event
      BY <1>0, <3>1, LenProperties DEF TypeOK, Event
    <3>3. [nth |-> Len(sent) + 1, value |-> Reported].value = Reported
      OBVIOUS
    <3>4. QueueInv' /\ sent' # <<>> /\ DedupeIsPublished'
      BY <2>2, <3>1, <3>2, <3>3, PushStep
    <3>5. Channel!Publish(Reported)
      BY <2>2 DEF Queue, DedupeIsPublished, Channel!Publish
    <3> QED
      BY <1>0, <3>1, <3>4, <3>5 DEF Queue, Channel!Next
  <2> QED
    BY <1>2, <2>1, <2>2 DEF Decide
<1>3. ASSUME NEW f \in Frames, Take(f)
      PROVE  Queue' /\ [Channel!Next]_(Channel!chanVars)
  <2>1. CASE pending = <<>>
    BY <1>3, <2>1, <1>1 DEF Take
  <2>2. CASE pending # <<>>
    <3>1. /\ pending' = Tail(pending) /\ got' = Append(got, Head(pending).value)
          /\ sent' = sent /\ last_reported' = last_reported
      BY <1>3, <2>2 DEF Take
    <3>2. /\ QueueInv' /\ sent' # <<>> /\ DedupeIsPublished'
          /\ Len(got) < Len(sent) /\ Head(pending).value = sent[Len(got) + 1]
      BY <2>2, <3>1, TakeStep
    <3>3. Channel!HandOver
      BY <3>1, <3>2 DEF Channel!HandOver
    <3> QED
      BY <1>0, <3>2, <3>3 DEF Queue, Channel!Next
  <2> QED
    BY <2>1, <2>2
<1>4. ASSUME NEW f \in Frames, FrameNext(f)
      PROVE  Queue' /\ [Channel!Next]_(Channel!chanVars)
  BY <1>1, <1>2, <1>3, <1>4
     DEF FrameNext, SetState, Poll, Lock, PushFails, CopyListeners, Unwind, Call,
         Return, Delivered, chan
<1>5. CASE ClockMoves \/ \E l \in Listeners : Subscribe(l) \/ Unsubscribe(l)
  BY <1>1, <1>5 DEF ClockMoves, Subscribe, Unsubscribe, chan
<1>6. CASE UNCHANGED vars
  BY <1>1, <1>6 DEF vars, chan
<1> QED
  BY <1>4, <1>5, <1>6 DEF Next

\* The dedupe always holds the value published last.
THEOREM DedupePublished == Spec => []DedupeIsPublished
<1>1. Queue => DedupeIsPublished
  BY DEF Queue
<1> QED
  BY <1>1, QueueInit, QueueStep, PTL DEF Spec

\* notify_() implements the abstract channel: whatever the interleaving, the
\* re-entrancy and the failing allocations, the values published differ from
\* their predecessors and are handed over one by one in that order.
THEOREM Implements == Spec => Refines
<1>1. Init => Channel!Init
  <2> SUFFICES ASSUME Init PROVE Channel!Init
    OBVIOUS
  <2>1. last_reported \in States
    BY TypeInit DEF TypeOK
  <2> QED
    BY <2>1 DEF Init, Channel!Init
<1> QED
  BY <1>1, QueueInit, QueueStep, PTL DEF Spec, Refines, Channel!Spec

----------------------------------------------------------------------------
\* As long as no allocation fails, an event in the queue always has a thread
\* that will drain it.
THEOREM NoStrandedEvent ==
  ASSUME ~OutOfMemory PROVE Spec => []NothingStranded
<1>1. Init => NothingStranded
  BY DEF Init, NothingStranded
<1>2. NothingStranded /\ [Next]_vars => NothingStranded'
  <2> SUFFICES ASSUME NothingStranded, [Next]_vars PROVE NothingStranded'
    OBVIOUS
  <2>1. ASSUME UNCHANGED <<pending, delivering>>
        PROVE  NothingStranded'
    BY <2>1 DEF NothingStranded
  <2>2. ASSUME NEW f \in Frames, Decide(f)
        PROVE  NothingStranded'
    BY <2>1, <2>2 DEF Decide, chan, NothingStranded
  <2>3. ASSUME NEW f \in Frames, Take(f)
        PROVE  NothingStranded'
    BY <2>3 DEF Take, NothingStranded
  <2>4. ASSUME NEW f \in Frames, FrameNext(f)
        PROVE  NothingStranded'
    BY <2>1, <2>2, <2>3, <2>4
       DEF FrameNext, SetState, Poll, Lock, PushFails, CopyListeners, Unwind,
           Call, Return, Delivered, chan
  <2>5. CASE ClockMoves \/ \E l \in Listeners : Subscribe(l) \/ Unsubscribe(l)
    BY <2>1, <2>5 DEF ClockMoves, Subscribe, Unsubscribe, chan
  <2>6. CASE UNCHANGED vars
    BY <2>1, <2>6 DEF vars, chan
  <2> QED
    BY <2>4, <2>5, <2>6 DEF Next
<1> QED
  BY <1>1, <1>2, PTL DEF Spec

\* The guard a frame read is the guard of now, or the clock has moved since and
\* the next poll is still to come.
Fresh == /\ DedupeIsCurrent
         /\ \A f \in Frames : pc[f] = "decide" => guard = untrusted \/ stale

\* The dedupe differs from what state() answers only while someone is on the
\* way to publish it or the clock has moved unpolled.
THEOREM DedupeCurrent == Spec => []DedupeIsCurrent
<1>1. Init => Fresh
  BY DEF Init, Fresh, DedupeIsCurrent
<1>2. TypeOK /\ Control /\ Fresh /\ [Next]_vars => Fresh'
  <2> SUFFICES ASSUME TypeOK, Control, Fresh, [Next]_vars PROVE Fresh'
    OBVIOUS
  <2>a. pc \in [Frames -> PC]
    BY DEF TypeOK
  <2> USE DEF Fresh, DedupeIsCurrent
  <2>1. ASSUME NEW f \in Frames, pc[f] # "decide", pc[f] # "lock",
               pc'[f] # "decide", pc' = [pc EXCEPT ![f] = pc'[f]],
               UNCHANGED <<raw, untrusted, guard, last_reported, stale>>
        PROVE  Fresh'
    BY <2>1, <2>a DEF state
  <2>2. ASSUME NEW f \in Frames, NEW s \in States, SetState(f, s)
        PROVE  Fresh'
    <3>1. pc'[f] = "lock" /\ pc' = [pc EXCEPT ![f] = "lock"]
      BY <2>2, <2>a DEF SetState, Goto
    <3> QED
      BY <2>2, <3>1, <2>a DEF SetState
  <2>3. ASSUME NEW f \in Frames, Poll(f)
        PROVE  Fresh'
    <3>1. pc'[f] = "lock" /\ pc' = [pc EXCEPT ![f] = "lock"]
      BY <2>3, <2>a DEF Poll, Goto
    <3> QED
      BY <2>3, <3>1, <2>a DEF Poll
  <2>4. ASSUME NEW f \in Frames, Lock(f)
        PROVE  Fresh'
    <3>1. pc'[f] = "decide" /\ guard' = untrusted /\ untrusted' = untrusted
      BY <2>4, <2>a DEF Lock, Goto
    <3> QED
      BY <3>1
  <2>5. ASSUME NEW f \in Frames, Decide(f)
        PROVE  Fresh'
    <3>1. last_reported' = Reported
      BY <2>5 DEF Decide, chan
    <3>2. UNCHANGED <<raw, untrusted, guard, stale>>
      BY <2>5 DEF Decide
    <3>3. guard = untrusted \/ stale
      BY <2>5 DEF Decide
    <3>4. last_reported' # state' => stale'
      BY <3>1, <3>2, <3>3 DEF Reported, state
    <3>5. \A g \in Frames : pc'[g] = "decide" => pc[g] = "decide"
      BY <2>5, <2>a DEF Decide, Goto
    <3> QED
      BY <3>2, <3>4, <3>5
  <2>6. ASSUME NEW f \in Frames, PushFails(f)
        PROVE  Fresh'
    BY <2>6 DEF PushFails
  <2>7. ASSUME NEW f \in Frames, FrameNext(f)
        PROVE  Fresh'
    <3>1. CASE Take(f) \/ CopyListeners(f) \/ Unwind(f) \/ Call(f) \/ Return(f)
               \/ Delivered(f)
      <4>1. /\ pc[f] \in Draining
            /\ pc' = [pc EXCEPT ![f] = pc'[f]] /\ pc'[f] # "decide"
            /\ UNCHANGED <<raw, untrusted, guard, last_reported, stale>>
        BY <3>1, <2>a DEF Take, CopyListeners, Unwind, Call, Return, Delivered,
                          Goto, chan, Draining
      <4> QED
        BY <4>1, <2>1 DEF Draining
    <3> QED
      BY <3>1, <2>2, <2>3, <2>4, <2>5, <2>6, <2>7 DEF FrameNext
  <2>8. CASE ClockMoves
    BY <2>8 DEF ClockMoves
  <2>9. CASE \/ \E l \in Listeners : Subscribe(l) \/ Unsubscribe(l)
             \/ UNCHANGED vars
    BY <2>9 DEF Subscribe, Unsubscribe, vars, chan, state
  <2> QED
    BY <2>7, <2>8, <2>9 DEF Next
<1>3. Fresh => DedupeIsCurrent
  BY DEF Fresh
<1> QED
  BY <1>1, <1>2, <1>3, TypeCorrect, ControlHolds, PTL DEF Spec
----------------------------------------------------------------------------
\* A frame with an event at hand, from the take to the last listener.
InHand == {"copy", "deliver", "inside"}

\* l is an element of the sequence s, as Subscribed(l) says of listeners_.
In(l, s) == \E i \in DOMAIN s : s[i] = l

\* Frame f has yet to call listener l with its event, if l is registered in time.
Due(f, l) == \/ pc[f] = "copy"
             \/ pc[f] \in {"deliver", "inside"} /\ In(l, cbs[f])

\* What is queued goes on where what was handed over ends.
Numbered == \A i \in DOMAIN pending : pending[i].nth = Len(got) + i

\* The event at hand is the one handed over last.
Held == \A f \in Frames :
          pc[f] \in InHand => ev[f].nth = Len(got) /\ ev[f].value = got[Len(got)]

\* No id is registered twice, and none is left to be called twice.
Once == IsInjective(listeners) /\ \A f \in Frames : IsInjective(cbs[f])

\* No listener is ahead of what was handed over, and one that is still to be called
\* with the event at hand has seen older ones only.
Behind == \A l \in Listeners : \A i \in 1 .. Len(seen[l]) :
            /\ seen[l][i].nth <= Len(got)
            /\ \A f \in Frames : Due(f, l) => seen[l][i].nth < Len(got)

Order == Numbered /\ Held /\ Once /\ Behind /\ ListenersNeverBackwards

----------------------------------------------------------------------------
\* What unsubscribing leaves of the list: nobody twice, and nobody new.
LEMMA RemoveOnce ==
  ASSUME NEW S, NEW s \in Seq(S), NEW i \in DOMAIN s, IsInjective(s)
  PROVE  IsInjective(RemoveAt(s, i)) /\ \A l : In(l, RemoveAt(s, i)) => In(l, s)
<1> DEFINE r == RemoveAt(s, i)
<1>1. i \in 1 .. Len(s) /\ Len(s) \in Nat /\ DOMAIN s = 1 .. Len(s)
  BY LenProperties
<1>2. /\ r \in Seq(S) /\ Len(r) = Len(s) - 1
      /\ \A j \in 1 .. Len(r) : r[j] = s[IF j < i THEN j ELSE j + 1]
  <2> DEFINE a == SubSeq(s, 1, i - 1)
             b == SubSeq(s, i + 1, Len(s))
  <2>1. /\ a \in Seq(S) /\ Len(a) = i - 1 /\ \A j \in 1 .. i - 1 : a[j] = s[j]
        /\ b \in Seq(S) /\ Len(b) = Len(s) - i
        /\ \A j \in 1 .. Len(s) - i : b[j] = s[i + j]
    <3>1. \A j \in 1 .. Len(s) : s[j] \in S
      BY ElementOfSeq
    <3>2. a \in Seq(S) /\ Len(a) = i - 1 /\ \A j \in 1 .. i - 1 : a[j] = s[j]
      <4>1. \A j \in 1 .. i - 1 : s[j] \in S
        BY <1>1, <3>1
      <4>2. /\ a \in Seq(S) /\ Len(a) = IF 1 <= i - 1 THEN (i - 1) - 1 + 1 ELSE 0
            /\ \A j \in 1 .. (i - 1) - 1 + 1 : a[j] = s[1 + j - 1]
        BY <1>1, <4>1, SubSeqProperties
      <4> HIDE DEF a
      <4> QED BY <1>1, <4>2
    <3>3. b \in Seq(S) /\ Len(b) = Len(s) - i /\ \A j \in 1 .. Len(s) - i : b[j] = s[i + j]
      <4>1. \A j \in i + 1 .. Len(s) : s[j] \in S
        BY <1>1, <3>1
      <4>2. /\ b \in Seq(S) /\ Len(b) = IF i + 1 <= Len(s) THEN Len(s) - (i + 1) + 1 ELSE 0
            /\ \A j \in 1 .. Len(s) - (i + 1) + 1 : b[j] = s[(i + 1) + j - 1]
        BY <1>1, <4>1, SubSeqProperties
      <4> HIDE DEF b
      <4>3. Len(b) = Len(s) - i /\ Len(s) - (i + 1) + 1 = Len(s) - i
        BY <1>1, <4>2
      <4>4. \A j \in 1 .. Len(s) - i : b[j] = s[i + j]
        <5> TAKE j \in 1 .. Len(s) - i
        <5>1. (i + 1) + j - 1 = i + j
          BY <1>1
        <5> QED BY <4>2, <4>3, <5>1
      <4> QED BY <4>2, <4>3, <4>4
    <3> QED BY <3>2, <3>3
  <2>2. r = a \o b
    BY DEF RemoveAt
  <2> HIDE DEF a, b, r
  <2>3. /\ r \in Seq(S) /\ Len(r) = Len(a) + Len(b)
        /\ \A j \in 1 .. Len(a) + Len(b) : r[j] = IF j <= Len(a) THEN a[j] ELSE b[j - Len(a)]
    BY <2>1, <2>2, ConcatProperties
  <2>4. Len(a) = i - 1 /\ Len(b) = Len(s) - i /\ Len(r) = Len(s) - 1
    BY <1>1, <2>1, <2>3
  <2>5. ASSUME NEW j \in 1 .. Len(r) PROVE r[j] = s[IF j < i THEN j ELSE j + 1]
    <3>1. CASE j < i
      BY <1>1, <2>1, <2>3, <2>4, <3>1
    <3>2. CASE ~(j < i)
      <4>1. j - Len(a) \in 1 .. Len(s) - i /\ ~(j <= Len(a)) /\ i + (j - Len(a)) = j + 1
        BY <1>1, <2>4, <3>2
      <4> QED BY <2>1, <2>3, <2>4, <3>2, <4>1
    <3> QED BY <3>1, <3>2
  <2> QED BY <2>3, <2>4, <2>5
<1>3. DOMAIN r = 1 .. Len(s) - 1
  BY <1>2, LenProperties
<1> HIDE DEF r
<1>4. ASSUME NEW j \in DOMAIN r
      PROVE  /\ (IF j < i THEN j ELSE j + 1) \in DOMAIN s
             /\ r[j] = s[IF j < i THEN j ELSE j + 1]
  BY <1>1, <1>2, <1>3
<1>5. IsInjective(r)
  <2> SUFFICES ASSUME NEW j \in DOMAIN r, NEW k \in DOMAIN r, r[j] = r[k] PROVE j = k
    BY DEF IsInjective
  <2>1. (IF j < i THEN j ELSE j + 1) = (IF k < i THEN k ELSE k + 1)
    BY <1>4 DEF IsInjective
  <2> QED BY <1>1, <1>3, <2>1
<1>6. \A l : In(l, r) => In(l, s)
  BY <1>4 DEF In
<1> QED BY <1>5, <1>6 DEF r

\* Calling the first listener leaves the others to be called, and not that one.
LEMMA TailOnce ==
  ASSUME NEW S, NEW s \in Seq(S), s # <<>>, IsInjective(s)
  PROVE  /\ IsInjective(Tail(s)) /\ In(Head(s), s)
         /\ \A l : In(l, Tail(s)) <=> In(l, s) /\ l # Head(s)
<1>1. /\ Len(s) \in Nat \ {0} /\ DOMAIN s = 1 .. Len(s) /\ Head(s) = s[1]
      /\ DOMAIN Tail(s) = 1 .. Len(s) - 1
      /\ \A i \in 1 .. Len(s) - 1 : Tail(s)[i] = s[i + 1]
  BY HeadTailProperties, LenProperties, EmptySeq
<1>2. IsInjective(Tail(s))
  <2> SUFFICES ASSUME NEW j \in DOMAIN Tail(s), NEW k \in DOMAIN Tail(s),
                      Tail(s)[j] = Tail(s)[k]
               PROVE  j = k
    BY DEF IsInjective
  <2>1. s[j + 1] = s[k + 1] /\ j + 1 \in DOMAIN s /\ k + 1 \in DOMAIN s
    BY <1>1
  <2>2. j + 1 = k + 1
    BY <2>1 DEF IsInjective
  <2> QED BY <1>1, <2>2
<1>3. In(Head(s), s)
  BY <1>1 DEF In
<1>4. ASSUME NEW l, In(l, Tail(s)) PROVE In(l, s) /\ l # Head(s)
  <2>1. PICK i \in 1 .. Len(s) - 1 : Tail(s)[i] = l
    BY <1>1, <1>4 DEF In
  <2>2. i + 1 \in DOMAIN s /\ s[i + 1] = l /\ 1 \in DOMAIN s /\ i + 1 # 1
    BY <1>1, <2>1
  <2> QED BY <1>1, <2>2 DEF In, IsInjective
<1>5. ASSUME NEW l, In(l, s), l # Head(s) PROVE In(l, Tail(s))
  <2>1. PICK i \in 1 .. Len(s) : s[i] = l
    BY <1>1, <1>5 DEF In
  <2>2. i - 1 \in 1 .. Len(s) - 1 /\ (i - 1) + 1 = i
    BY <1>1, <1>5, <2>1
  <2>3. Tail(s)[i - 1] = l
    BY <1>1, <2>1, <2>2
  <2> QED BY <1>1, <2>2, <2>3 DEF In
<1> QED BY <1>2, <1>3, <1>4, <1>5

\* A fresh id at the end of the list: nobody twice, and nobody else new.
LEMMA AppendOnce ==
  ASSUME NEW S, NEW s \in Seq(S), NEW e \in S, ~In(e, s), IsInjective(s)
  PROVE  IsInjective(Append(s, e)) /\ \A l : In(l, Append(s, e)) => In(l, s) \/ l = e
<1> DEFINE r == Append(s, e)
<1>1. /\ Len(s) \in Nat /\ DOMAIN s = 1 .. Len(s) /\ DOMAIN r = 1 .. Len(s) + 1
      /\ r[Len(s) + 1] = e /\ \A i \in 1 .. Len(s) : r[i] = s[i]
  BY AppendProperties, LenProperties
<1> HIDE DEF r
<1>2. ASSUME NEW i \in DOMAIN r PROVE (i \in DOMAIN s /\ r[i] = s[i]) \/ i = Len(s) + 1
  BY <1>1
<1>3. IsInjective(r)
  <2> SUFFICES ASSUME NEW j \in DOMAIN r, NEW k \in DOMAIN r, r[j] = r[k] PROVE j = k
    BY DEF IsInjective
  <2> QED BY <1>1, <1>2 DEF IsInjective, In
<1>4. \A l : In(l, r) => In(l, s) \/ l = e
  BY <1>1, <1>2 DEF In
<1> QED BY <1>3, <1>4 DEF r
----------------------------------------------------------------------------
\* A new client has handed over its first state and called nobody.
LEMMA OrderInit == Init => Order
<1> SUFFICES ASSUME Init PROVE Order
  OBVIOUS
<1>1. /\ pending = <<>> /\ listeners = <<>>
      /\ \A f \in Frames : pc[f] = "idle" /\ cbs[f] = <<>>
  BY DEF Init
<1>2. \A l \in Listeners : seen[l] = <<>> /\ Len(seen[l]) = 0
  BY EmptySeq DEF Init
<1>3. \A l \in Listeners : 1 .. Len(seen[l]) = {} /\ 1 .. Len(seen[l]) - 1 = {}
  BY <1>2
<1>4. Numbered /\ Held /\ Once
  BY <1>1 DEF Numbered, Held, InHand, Once, IsInjective
<1>5. Behind /\ ListenersNeverBackwards
  BY <1>3 DEF Behind, ListenersNeverBackwards
<1> QED BY <1>4, <1>5 DEF Order

\* A step that hands nothing over and calls nobody.
LEMMA OrderPasses ==
  ASSUME Order, Numbered', Once', UNCHANGED <<ev, got, seen>>,
         \A f \in Frames : /\ pc'[f] \in InHand => pc[f] \in InHand
                          /\ \A l \in Listeners : Due(f, l)' => Due(f, l)
  PROVE  Order'
<1>1. Held'
  BY DEF Order, Held
<1>2. Behind'
  BY DEF Order, Behind
<1>3. ListenersNeverBackwards'
  BY DEF Order, ListenersNeverBackwards
<1> QED BY <1>1, <1>2, <1>3 DEF Order

\* What a listener was called with is an event, numbered.
LEMMA SeenNat ==
  ASSUME TypeOK, NEW l \in Listeners, NEW i \in 1 .. Len(seen[l])
  PROVE  seen[l][i].nth \in Nat
<1>1. seen[l] \in Seq(Event)
  BY DEF TypeOK
<1>2. seen[l][i] \in Event
  BY <1>1, ElementOfSeq
<1> QED BY <1>2 DEF Event

\* What a frame takes off the queue is an event.
LEMMA HeadEvent ==
  ASSUME TypeOK, pending # <<>>
  PROVE  Head(pending) \in Event /\ Head(pending).value \in States
<1>1. Head(pending) \in Event
  BY HeadTailProperties DEF TypeOK
<1> QED BY <1>1 DEF Event

\* The take: everybody is due the event handed over, and nobody has seen it.
LEMMA OrderTake ==
  ASSUME Control, Order, NEW f \in Frames, Take(f), pending # <<>>
  PROVE  Order'
<1>0. TypeOK /\ OneBaton
  BY DEF Control
<1>1. /\ pc[f] = "take" /\ ev' = [ev EXCEPT ![f] = Head(pending)]
      /\ got' = Append(got, Head(pending).value) /\ pending' = Tail(pending)
      /\ Goto(f, "copy") /\ UNCHANGED <<listeners, cbs, seen>>
  BY DEF Take
<1>2. /\ Len(pending) \in Nat \ {0} /\ DOMAIN pending = 1 .. Len(pending)
      /\ DOMAIN pending' = 1 .. Len(pending) - 1
      /\ \A i \in 1 .. Len(pending) - 1 : pending'[i] = pending[i + 1]
      /\ Head(pending) = pending[1] /\ Head(pending) \in Event
  BY <1>0, <1>1, HeadTailProperties, LenProperties, EmptySeq DEF TypeOK
<1>3. /\ Len(got) \in Nat /\ Len(got') = Len(got) + 1
      /\ got'[Len(got')] = Head(pending).value
  <2>1. Head(pending).value \in States
    BY <1>2 DEF Event
  <2> QED BY <1>0, <1>1, <2>1, AppendProperties, LenProperties DEF TypeOK
<1>4. Numbered'
  <2>1. ASSUME NEW i \in 1 .. Len(pending) - 1 PROVE pending'[i].nth = Len(got') + i
    <3>1. i + 1 \in DOMAIN pending /\ Len(got') + i = Len(got) + (i + 1)
      BY <1>2, <1>3
    <3> QED BY <1>2, <3>1 DEF Order, Numbered
  <2> QED BY <1>2, <2>1 DEF Numbered
<1>5. \A g \in Frames : pc'[g] \in InHand => g = f
  BY <1>0, <1>1 DEF TypeOK, OneBaton, Draining, InHand, Goto
<1>6. Held'
  <2>1. pending[1].nth = Len(got) + 1
    BY <1>2 DEF Order, Numbered
  <2>2. ev'[f] = Head(pending)
    BY <1>0, <1>1 DEF TypeOK
  <2> QED BY <1>2, <1>3, <1>5, <2>1, <2>2 DEF Held
<1>7. Once'
  BY <1>1 DEF Order, Once
<1>8. Behind'
  <2>1. ASSUME NEW l \in Listeners, NEW i \in 1 .. Len(seen[l])
        PROVE  seen[l][i].nth <= Len(got') /\ seen[l][i].nth < Len(got')
    <3>1. seen[l][i].nth <= Len(got)
      BY DEF Order, Behind
    <3>2. seen[l][i].nth \in Nat
      BY <1>0, SeenNat
    <3> QED BY <1>3, <3>1, <3>2
  <2> QED BY <1>1, <2>1 DEF Behind
<1>9. ListenersNeverBackwards'
  BY <1>1 DEF Order, ListenersNeverBackwards
<1> QED BY <1>4, <1>6, <1>7, <1>8, <1>9 DEF Order

\* The call of a listener: what it is called with is newer than all it has seen, and
\* it is not due that event again.
LEMMA OrderCall ==
  ASSUME Control, Order, NEW f \in Frames, Call(f)
  PROVE  Order'
<1>0. TypeOK /\ OneBaton
  BY DEF Control
<1> DEFINE k == Head(cbs[f])
<1>1. /\ pc[f] = "deliver" /\ cbs[f] # <<>>
      /\ seen' = [seen EXCEPT ![k] = Append(seen[k], ev[f])]
      /\ cbs' = [cbs EXCEPT ![f] = Tail(cbs[f])] /\ Goto(f, "inside")
      /\ UNCHANGED <<listeners, ev, got, pending>>
  BY DEF Call, chan
<1>2. cbs[f] \in Seq(Listeners) /\ IsInjective(cbs[f]) /\ k \in Listeners
  BY <1>0, <1>1, HeadTailProperties DEF TypeOK, Order, Once
<1>3. /\ IsInjective(Tail(cbs[f])) /\ In(k, cbs[f])
      /\ \A l : In(l, Tail(cbs[f])) <=> In(l, cbs[f]) /\ l # k
  BY <1>1, <1>2, TailOnce
<1> HIDE DEF k
<1>4. ev[f].nth = Len(got) /\ Len(got) \in Nat
  BY <1>0, <1>1, LenProperties DEF TypeOK, Order, Held, InHand
<1>5. /\ Len(seen[k]) \in Nat /\ Len(seen'[k]) = Len(seen[k]) + 1
      /\ seen'[k][Len(seen[k]) + 1] = ev[f]
      /\ \A i \in 1 .. Len(seen[k]) : seen'[k][i] = seen[k][i]
      /\ \A l \in Listeners : l # k => seen'[l] = seen[l]
  BY <1>0, <1>1, <1>2, AppendProperties, LenProperties DEF TypeOK
<1>6. /\ pc'[f] = "inside" /\ cbs'[f] = Tail(cbs[f])
      /\ \A g \in Frames : g # f => pc'[g] = pc[g] /\ pc[g] \notin InHand /\ cbs'[g] = cbs[g]
  BY <1>0, <1>1 DEF TypeOK, OneBaton, Draining, InHand, Goto
<1>7. \A g \in Frames : \A l \in Listeners :
        Due(g, l)' => g = f /\ l # k /\ Due(f, l)
  BY <1>1, <1>3, <1>6 DEF Due, InHand
<1>8. \A i \in 1 .. Len(seen[k]) : seen[k][i].nth \in Nat /\ seen[k][i].nth < Len(got)
  <2>1. Due(f, k)
    BY <1>1, <1>3 DEF Due
  <2> QED BY <1>0, <1>2, <2>1, SeenNat DEF Order, Behind
<1>9. Numbered' /\ Held'
  BY <1>1, <1>6 DEF Order, Numbered, Held, InHand
<1>10. Once'
  BY <1>1, <1>3, <1>6 DEF Order, Once
<1>11. \A i \in 1 .. Len(seen'[k]) : i \in 1 .. Len(seen[k]) \/ i = Len(seen[k]) + 1
  BY <1>5
<1>12. Behind'
  <2> SUFFICES ASSUME NEW l \in Listeners, NEW i \in 1 .. Len(seen'[l])
               PROVE  /\ seen'[l][i].nth <= Len(got)
                      /\ \A g \in Frames : Due(g, l)' => seen'[l][i].nth < Len(got)
    BY <1>1 DEF Behind
  <2>1. CASE l # k
    BY <1>5, <1>7, <2>1 DEF Order, Behind
  <2>2. CASE l = k
    <3>1. \A g \in Frames : ~Due(g, l)'
      BY <1>7, <2>2
    <3>2. seen'[l][i].nth <= Len(got)
      BY <1>4, <1>5, <1>8, <1>11, <2>2
    <3> QED BY <3>1, <3>2
  <2> QED BY <2>1, <2>2
<1>13. ListenersNeverBackwards'
  <2> SUFFICES ASSUME NEW l \in Listeners, NEW i \in 1 .. Len(seen'[l]) - 1
               PROVE  seen'[l][i + 1].nth > seen'[l][i].nth
    BY DEF ListenersNeverBackwards
  <2>1. CASE l # k
    BY <1>5, <2>1 DEF Order, ListenersNeverBackwards
  <2>2. CASE l = k /\ i \in 1 .. Len(seen[k]) - 1
    <3>1. i \in 1 .. Len(seen[k]) /\ i + 1 \in 1 .. Len(seen[k])
      BY <1>5, <2>2
    <3> QED BY <1>2, <1>5, <2>2, <3>1 DEF Order, ListenersNeverBackwards
  <2>3. CASE l = k /\ i = Len(seen[k])
    BY <1>4, <1>5, <1>8, <2>3
  <2> QED BY <1>5, <2>1, <2>2, <2>3
<1> QED BY <1>9, <1>10, <1>12, <1>13 DEF Order
\* Every step keeps the order, also when an allocation fails: an event that is lost
\* was handed over all the same, so it leaves its place empty.
LEMMA OrderStep == Control /\ Queue /\ Order /\ [Next]_vars => Order'
<1> SUFFICES ASSUME Control, Queue, Order, [Next]_vars PROVE Order'
  OBVIOUS
<1>0. TypeOK
  BY DEF Control
<1>a. pc \in [Frames -> PC]
  BY <1>0 DEF TypeOK
\* A frame that goes on to a place where it has no event at hand.
<1>1. ASSUME NEW f \in Frames, NEW p, Goto(f, p), p \notin InHand, Numbered',
             UNCHANGED <<listeners, ev, cbs, got, seen>>
      PROVE  Order'
  <2>1. \A g \in Frames : pc'[g] = pc[g] \/ pc'[g] \notin InHand
    BY <1>1, <1>a DEF Goto
  <2>2. Once'
    BY <1>1 DEF Order, Once
  <2>3. \A g \in Frames : \A l \in Listeners : Due(g, l)' => Due(g, l)
    BY <1>1, <2>1 DEF Due, InHand
  <2> QED BY <1>1, <2>1, <2>2, <2>3, OrderPasses
<1>2. Numbered' \/ pending' # pending \/ got' # got
  BY DEF Order, Numbered
<1>3. ASSUME NEW f \in Frames, Decide(f)
      PROVE  Order'
  <2>1. CASE UNCHANGED chan
    BY <1>1, <1>2, <1>3, <2>1 DEF Decide, chan, InHand
  <2>2. CASE /\ pending' = Append(pending, [nth |-> Len(sent) + 1, value |-> Reported])
             /\ Goto(f, IF delivering THEN "idle" ELSE "take") /\ UNCHANGED got
    <3>1. [nth |-> Len(sent) + 1, value |-> Reported] \in Event
      BY <1>0, StatesAssumption, LenProperties DEF TypeOK, Event, Reported
    <3>2. /\ Len(pending) \in Nat /\ DOMAIN pending = 1 .. Len(pending)
          /\ DOMAIN pending' = 1 .. Len(pending) + 1
          /\ pending'[Len(pending) + 1].nth = Len(sent) + 1
          /\ \A i \in 1 .. Len(pending) : pending'[i] = pending[i]
      BY <1>0, <2>2, <3>1, AppendProperties, LenProperties DEF TypeOK
    <3>3. Len(sent) + 1 = Len(got) + (Len(pending) + 1)
      BY <1>0, <3>2, LenProperties DEF TypeOK, Queue, QueueInv
    <3>4. Numbered'
      BY <2>2, <3>2, <3>3 DEF Order, Numbered
    <3> QED BY <1>1, <1>3, <2>2, <3>4 DEF Decide, InHand
  <2> QED BY <1>3, <2>1, <2>2 DEF Decide
<1>4. ASSUME NEW f \in Frames, Take(f)
      PROVE  Order'
  <2>1. CASE pending = <<>>
    BY <1>1, <1>2, <1>4, <2>1 DEF Take, InHand
  <2> QED BY <1>4, <2>1, OrderTake
<1>5. ASSUME NEW f \in Frames, CopyListeners(f)
      PROVE  Order'
  <2>1. /\ pc[f] = "copy" /\ pc' = [pc EXCEPT ![f] = "deliver"]
        /\ cbs' = [cbs EXCEPT ![f] = listeners]
        /\ UNCHANGED <<listeners, ev, got, seen, pending>>
    BY <1>5 DEF CopyListeners, Goto, chan
  <2>2. Once'
    BY <1>0, <2>1 DEF Order, Once, TypeOK
  <2>3. ASSUME NEW g \in Frames
        PROVE  /\ pc'[g] \in InHand => pc[g] \in InHand
               /\ \A l \in Listeners : Due(g, l)' => Due(g, l)
    BY <1>0, <2>1 DEF Due, InHand, TypeOK
  <2> QED BY <1>2, <2>1, <2>2, <2>3, OrderPasses
<1>6. ASSUME NEW f \in Frames, Return(f)
      PROVE  Order'
  <2>1. /\ pc[f] = "inside" /\ pc' = [pc EXCEPT ![f] = "deliver"]
        /\ UNCHANGED <<listeners, cbs, ev, got, seen, pending>>
    BY <1>6 DEF Return, Goto, chan
  <2>2. Once'
    BY <2>1 DEF Order, Once
  <2>3. ASSUME NEW g \in Frames
        PROVE  /\ pc'[g] \in InHand => pc[g] \in InHand
               /\ \A l \in Listeners : Due(g, l)' => Due(g, l)
    BY <1>a, <2>1 DEF Due, InHand
  <2> QED BY <1>2, <2>1, <2>2, <2>3, OrderPasses
<1>7. ASSUME NEW f \in Frames, FrameNext(f)
      PROVE  Order'
  <2>1. CASE (\E s \in States : SetState(f, s)) \/ Poll(f)
    BY <1>1, <1>2, <2>1 DEF SetState, Poll, chan, InHand
  <2>2. CASE Lock(f) \/ PushFails(f) \/ Unwind(f) \/ Delivered(f)
    BY <1>1, <1>2, <2>2 DEF Lock, PushFails, Unwind, Delivered, chan, InHand
  <2> QED BY <1>3, <1>4, <1>5, <1>6, <1>7, <2>1, <2>2, OrderCall DEF FrameNext
<1>8. ASSUME Once', UNCHANGED <<pc, cbs, ev, got, seen, pending>>
      PROVE  Order'
  BY <1>2, <1>8, OrderPasses DEF Due
<1>9. ASSUME NEW l \in Listeners, Subscribe(l)
      PROVE  Order'
  <2>1. ~In(l, listeners) /\ listeners' = Append(listeners, l) /\ UNCHANGED cbs
    BY <1>9 DEF Subscribe, Subscribed, In
  <2>2. Once'
    BY <1>0, <2>1, AppendOnce DEF Order, Once, TypeOK
  <2> QED BY <1>8, <1>9, <2>2 DEF Subscribe, chan
<1>10. ASSUME NEW l \in Listeners, Unsubscribe(l)
       PROVE  Order'
  <2>1. PICK i \in DOMAIN listeners : listeners' = RemoveAt(listeners, i)
    BY <1>10 DEF Unsubscribe
  <2>2. Once'
    BY <1>0, <1>10, <2>1, RemoveOnce DEF Order, Once, TypeOK, Unsubscribe
  <2> QED BY <1>8, <1>10, <2>2 DEF Unsubscribe, chan
<1>11. CASE ClockMoves \/ UNCHANGED vars
  BY <1>8, <1>11 DEF ClockMoves, vars, chan, Order, Once
<1> QED BY <1>7, <1>9, <1>10, <1>11 DEF Next

\* Whatever fails to allocate, no listener is ever called with an event published
\* before one it has been called with, whichever threads deliver.
THEOREM NeverBackwards == Spec => []ListenersNeverBackwards
<1>1. Order => ListenersNeverBackwards
  BY DEF Order
<1> QED
  BY <1>1, OrderInit, OrderStep, QueueInit, QueueStep, ControlInit, ControlStep, PTL
     DEF Spec
----------------------------------------------------------------------------
\* A registered listener waits for the event at hand.
Waits(l) == \E f \in Frames : \/ pc[f] = "copy" /\ Subscribed(l)
                              \/ pc[f] \in {"deliver", "inside"} /\ In(l, cbs[f])

\* Who has been called before waits for the event at hand and has seen the one before
\* it, or is registered, does not wait, and has seen the last.
CaughtUp == \A l \in Listeners : seen[l] # <<>> =>
  /\ Waits(l) => Last(seen[l]).nth + 1 = Len(got)
  /\ Subscribed(l) /\ ~Waits(l) =>
       Last(seen[l]).nth = Len(got) /\ Last(seen[l]).value = got[Len(got)]

\* What was handed over last is what was published at that place.
HandedOver == got # <<>> /\ Len(got) <= Len(sent) /\ got[Len(got)] = sent[Len(got)]

\* A new client has called nobody, and what it hands over is what it published.
LEMMA CaughtInit == Init => CaughtUp /\ ListenersInOrder /\ HandedOver
<1> SUFFICES ASSUME Init PROVE CaughtUp /\ ListenersInOrder /\ HandedOver
  OBVIOUS
<1>1. \A l \in Listeners : seen[l] = <<>> /\ Len(seen[l]) = 0
  BY EmptySeq DEF Init
<1>2. \A l \in Listeners : 1 .. Len(seen[l]) - 1 = {}
  BY <1>1
<1>3. HandedOver
  BY DEF Init, HandedOver
<1> QED BY <1>1, <1>2, <1>3 DEF CaughtUp, ListenersInOrder

\* What was handed over last is what was published at that place.
LEMMA HandedStep == Queue /\ HandedOver /\ [Next]_vars => HandedOver'
<1> SUFFICES ASSUME Queue, HandedOver, [Next]_vars PROVE HandedOver'
  OBVIOUS
<1>0. TypeOK /\ Len(got) \in Nat \ {0} /\ Len(sent) \in Nat
  BY LenProperties, EmptySeq DEF Queue, TypeOK, HandedOver
<1>1. ASSUME UNCHANGED <<sent, got>>
      PROVE  HandedOver'
  BY <1>1 DEF HandedOver
<1>2. ASSUME NEW f \in Frames, Decide(f)
      PROVE  HandedOver'
  <2>1. CASE UNCHANGED chan
    BY <1>1, <2>1 DEF chan
  <2>2. CASE sent' = Append(sent, Reported) /\ UNCHANGED got
    <3>1. /\ Len(sent') = Len(sent) + 1
          /\ \A i \in 1 .. Len(sent) : sent'[i] = sent[i]
      BY <1>0, <2>2, StatesAssumption, AppendProperties DEF TypeOK, Reported
    <3>2. Len(got) \in 1 .. Len(sent)
      BY <1>0 DEF HandedOver
    <3> QED BY <1>0, <2>2, <3>1, <3>2 DEF HandedOver
  <2> QED BY <1>2, <2>1, <2>2 DEF Decide
<1>3. ASSUME NEW f \in Frames, Take(f)
      PROVE  HandedOver'
  <2>1. CASE pending = <<>>
    BY <1>1, <1>3, <2>1 DEF Take
  <2>2. CASE pending # <<>>
    <3>1. /\ pending' = Tail(pending) /\ got' = Append(got, Head(pending).value)
          /\ sent' = sent /\ last_reported' = last_reported
      BY <1>3, <2>2 DEF Take
    <3>2. Len(got) < Len(sent) /\ Head(pending).value = sent[Len(got) + 1]
      BY <2>2, <3>1, TakeStep
    <3>3. Head(pending).value \in States
      BY <1>0, <2>2, HeadEvent
    <3>4. Len(got') = Len(got) + 1 /\ got'[Len(got) + 1] = Head(pending).value
      BY <1>0, <3>1, <3>3, AppendProperties DEF TypeOK
    <3>5. got' # <<>> /\ Len(got') <= Len(sent')
      BY <1>0, <3>1, <3>2, <3>4, EmptySeq
    <3> QED BY <3>1, <3>2, <3>4, <3>5 DEF HandedOver
  <2> QED BY <2>1, <2>2
<1>4. ASSUME NEW f \in Frames, FrameNext(f)
      PROVE  HandedOver'
  BY <1>1, <1>2, <1>3, <1>4
     DEF FrameNext, SetState, Poll, Lock, PushFails, CopyListeners, Unwind, Call,
         Return, Delivered, chan
<1>5. CASE ClockMoves \/ \E l \in Listeners : Subscribe(l) \/ Unsubscribe(l)
  BY <1>1, <1>5 DEF ClockMoves, Subscribe, Unsubscribe, chan
<1>6. CASE UNCHANGED vars
  BY <1>1, <1>6 DEF vars, chan
<1> QED BY <1>4, <1>5, <1>6 DEF Next

\* A step that hands nothing over and calls nobody.
LEMMA CaughtPasses ==
  ASSUME CaughtUp, ListenersInOrder, UNCHANGED <<got, seen>>,
         \A l \in Listeners : seen[l] # <<>> =>
           /\ Waits(l)' => Waits(l)
           /\ Subscribed(l)' /\ ~Waits(l)' => Subscribed(l) /\ ~Waits(l)
  PROVE  CaughtUp' /\ ListenersInOrder'
<1>1. CaughtUp'
  BY DEF CaughtUp
<1>2. ListenersInOrder'
  BY DEF ListenersInOrder
<1> QED BY <1>1, <1>2

\* The take: those that are registered now wait for the event.
LEMMA CaughtTake ==
  ASSUME Control, CaughtUp, ListenersInOrder, NEW f \in Frames, Take(f), pending # <<>>
  PROVE  CaughtUp' /\ ListenersInOrder'
<1>0. TypeOK /\ OneBaton
  BY DEF Control
<1>1. /\ pc[f] = "take" /\ pc' = [pc EXCEPT ![f] = "copy"]
      /\ got' = Append(got, Head(pending).value)
      /\ UNCHANGED <<listeners, seen>>
  BY DEF Take, Goto
<1>2. Len(got) \in Nat /\ Len(got') = Len(got) + 1
  <2>1. Head(pending).value \in States
    BY <1>0, HeadEvent
  <2> QED BY <1>0, <1>1, <2>1, AppendProperties, LenProperties DEF TypeOK
<1>3. \A g \in Frames : pc[g] \notin InHand
  BY <1>0, <1>1 DEF OneBaton, Draining, InHand
<1>4. pc'[f] = "copy"
  BY <1>0, <1>1 DEF TypeOK
<1>5. ASSUME NEW l \in Listeners
      PROVE  /\ ~Waits(l) /\ (Subscribed(l)' => Waits(l)')
             /\ (Subscribed(l)' <=> Subscribed(l)) /\ (Waits(l)' => Subscribed(l))
  <2>1. ~Waits(l)
    BY <1>3 DEF Waits, InHand
  <2>2. Subscribed(l)' <=> Subscribed(l)
    BY <1>1 DEF Subscribed
  <2>3. Subscribed(l)' => Waits(l)'
    BY <1>4 DEF Waits
  <2>4. \A g \in Frames : g # f => pc'[g] \notin InHand
    BY <1>0, <1>1, <1>3 DEF TypeOK
  <2>5. Waits(l)' => Subscribed(l)'
    BY <1>4, <2>4 DEF Waits, InHand
  <2> QED BY <2>1, <2>2, <2>3, <2>5
<1>6. CaughtUp'
  BY <1>1, <1>2, <1>5 DEF CaughtUp
<1>7. ListenersInOrder'
  BY <1>1 DEF ListenersInOrder
<1> QED BY <1>6, <1>7

\* The call: the one called has now seen all that was handed over.
LEMMA CaughtCall ==
  ASSUME Control, Order, CaughtUp, ListenersInOrder, NEW f \in Frames, Call(f)
  PROVE  CaughtUp' /\ ListenersInOrder'
<1>0. TypeOK /\ OneBaton
  BY DEF Control
<1> DEFINE k == Head(cbs[f])
<1>1. /\ pc[f] = "deliver" /\ cbs[f] # <<>>
      /\ seen' = [seen EXCEPT ![k] = Append(seen[k], ev[f])]
      /\ cbs' = [cbs EXCEPT ![f] = Tail(cbs[f])] /\ Goto(f, "inside")
      /\ UNCHANGED <<listeners, ev, got, pending>>
  BY DEF Call, chan
<1>2. cbs[f] \in Seq(Listeners) /\ IsInjective(cbs[f]) /\ k \in Listeners
  BY <1>0, <1>1, HeadTailProperties DEF TypeOK, Order, Once
<1>3. /\ In(k, cbs[f])
      /\ \A l : In(l, Tail(cbs[f])) <=> In(l, cbs[f]) /\ l # k
  BY <1>1, <1>2, TailOnce
<1> HIDE DEF k
<1>4. ev[f].nth = Len(got) /\ ev[f].value = got[Len(got)]
  BY <1>1 DEF Order, Held, InHand
<1>5. /\ Len(seen[k]) \in Nat /\ Len(seen'[k]) = Len(seen[k]) + 1
      /\ seen'[k][Len(seen[k]) + 1] = ev[f]
      /\ \A i \in 1 .. Len(seen[k]) : seen'[k][i] = seen[k][i]
      /\ \A l \in Listeners : l # k => seen'[l] = seen[l]
  BY <1>0, <1>1, <1>2, AppendProperties, LenProperties DEF TypeOK
<1>6. /\ pc'[f] = "inside" /\ cbs'[f] = Tail(cbs[f])
      /\ \A g \in Frames : g # f => pc'[g] \notin InHand /\ pc[g] \notin InHand
  BY <1>0, <1>1 DEF TypeOK, OneBaton, Draining, InHand, Goto
<1>7. \A l \in Listeners : Waits(l)' <=> In(l, cbs[f]) /\ l # k
  BY <1>3, <1>6 DEF Waits, InHand
<1>8. \A l \in Listeners : Waits(l) <=> In(l, cbs[f])
  BY <1>1, <1>6 DEF Waits, InHand
<1>9. \A l \in Listeners : Subscribed(l)' <=> Subscribed(l)
  BY <1>1 DEF Subscribed
<1>10. CaughtUp'
  <2> SUFFICES ASSUME NEW l \in Listeners, seen'[l] # <<>>
               PROVE  /\ Waits(l)' => Last(seen'[l]).nth + 1 = Len(got)
                      /\ Subscribed(l)' /\ ~Waits(l)' =>
                           Last(seen'[l]).nth = Len(got) /\ Last(seen'[l]).value = got[Len(got)]
    BY <1>1 DEF CaughtUp
  <2>1. CASE l # k
    BY <1>5, <1>7, <1>8, <1>9, <2>1 DEF CaughtUp
  <2>2. CASE l = k
    <3>1. Last(seen'[k]) = ev[f]
      BY <1>5 DEF Last
    <3> QED BY <1>4, <1>7, <2>2, <3>1
  <2> QED BY <2>1, <2>2
<1>11. ListenersInOrder'
  <2> SUFFICES ASSUME NEW l \in Listeners, NEW i \in 1 .. Len(seen'[l]) - 1
               PROVE  seen'[l][i + 1].nth = seen'[l][i].nth + 1
    BY DEF ListenersInOrder
  <2>1. CASE l # k
    BY <1>5, <2>1 DEF ListenersInOrder
  <2>2. CASE l = k /\ i \in 1 .. Len(seen[k]) - 1
    <3>1. i \in 1 .. Len(seen[k]) /\ i + 1 \in 1 .. Len(seen[k])
      BY <1>5, <2>2
    <3> QED BY <1>2, <1>5, <2>2, <3>1 DEF ListenersInOrder
  <2>3. CASE l = k /\ i = Len(seen[k])
    <3>1. seen[k] # <<>> /\ i \in 1 .. Len(seen[k])
      BY <1>5, <2>3, EmptySeq
    <3>2. seen[k][i].nth + 1 = Len(got)
      BY <1>2, <1>3, <1>8, <2>3, <3>1 DEF CaughtUp, Last
    <3> QED BY <1>4, <1>5, <2>3, <3>1, <3>2
  <2> QED BY <1>5, <2>1, <2>2, <2>3
<1> QED BY <1>10, <1>11
\* Every step that loses no event keeps every listener caught up.
LEMMA CaughtStep ==
  ASSUME ~OutOfMemory
  PROVE  Control /\ Order /\ CaughtUp /\ ListenersInOrder /\ [Next]_vars
           => CaughtUp' /\ ListenersInOrder'
<1> SUFFICES ASSUME Control, Order, CaughtUp, ListenersInOrder, [Next]_vars
             PROVE  CaughtUp' /\ ListenersInOrder'
  OBVIOUS
<1>0. TypeOK
  BY DEF Control
<1>a. pc \in [Frames -> PC]
  BY <1>0 DEF TypeOK
\* A frame that nobody waits for, before the step and after it.
<1>1. ASSUME NEW f \in Frames, NEW p, Goto(f, p), p \notin InHand,
             pc[f] \notin InHand \/ cbs[f] = <<>>, pc[f] # "copy",
             UNCHANGED <<listeners, cbs, got, seen>>
      PROVE  CaughtUp' /\ ListenersInOrder'
  <2>1. pc'[f] = p /\ \A g \in Frames : g # f => pc'[g] = pc[g]
    BY <1>1, <1>a DEF Goto
  <2>2. ASSUME NEW l \in Listeners
        PROVE  (Waits(l)' <=> Waits(l)) /\ (Subscribed(l)' <=> Subscribed(l))
    <3>1. ~(pc[f] \in {"deliver", "inside"} /\ In(l, cbs[f]))
      BY <1>1 DEF In, InHand
    <3>2. Subscribed(l)' <=> Subscribed(l)
      BY <1>1 DEF Subscribed
    <3>3. Waits(l)' => Waits(l)
      BY <1>1, <2>1, <3>2 DEF Waits, InHand
    <3>4. Waits(l) => Waits(l)'
      BY <1>1, <2>1, <3>1, <3>2 DEF Waits, InHand
    <3> QED BY <3>2, <3>3, <3>4
  <2> QED BY <1>1, <2>2, CaughtPasses
\* Nor does the copy of the list change who waits, or the return of a listener.
<1>2. ASSUME NEW f \in Frames, CopyListeners(f) \/ Return(f)
      PROVE  CaughtUp' /\ ListenersInOrder'
  <2>1. /\ pc'[f] = "deliver" /\ \A g \in Frames : g # f => pc'[g] = pc[g] /\ cbs'[g] = cbs[g]
        /\ \/ pc[f] = "copy" /\ cbs'[f] = listeners
           \/ pc[f] = "inside" /\ cbs'[f] = cbs[f]
        /\ UNCHANGED <<listeners, got, seen>>
    BY <1>0, <1>2 DEF CopyListeners, Return, Goto, chan, TypeOK
  <2>2. ASSUME NEW l \in Listeners
        PROVE  (Waits(l)' <=> Waits(l)) /\ (Subscribed(l)' <=> Subscribed(l))
    <3>1. /\ Subscribed(l)' <=> Subscribed(l)
          /\ Subscribed(l) <=> In(l, listeners)
      BY <2>1 DEF Subscribed, In
    <3>2. Waits(l)' => Waits(l)
      BY <2>1, <3>1 DEF Waits
    <3>3. Waits(l) => Waits(l)'
      BY <2>1, <3>1 DEF Waits
    <3> QED BY <3>1, <3>2, <3>3
  <2> QED BY <2>1, <2>2, CaughtPasses
<1>3. ASSUME NEW f \in Frames, FrameNext(f)
      PROVE  CaughtUp' /\ ListenersInOrder'
  <2>1. CASE (\E s \in States : SetState(f, s)) \/ Poll(f)
    BY <1>1, <2>1 DEF SetState, Poll, MayCall, chan, InHand
  <2>2. CASE Lock(f) \/ PushFails(f) \/ Delivered(f)
    BY <1>1, <2>2 DEF Lock, PushFails, Delivered, chan, InHand
  <2>3. CASE Decide(f)
    BY <1>1, <2>3 DEF Decide, chan, InHand
  <2>4. CASE Take(f)
    <3>1. CASE pending = <<>>
      BY <1>1, <2>4, <3>1 DEF Take, InHand
    <3> QED BY <2>4, <3>1, CaughtTake
  <2>5. ~Unwind(f)
    BY DEF Unwind
  <2> QED BY <1>2, <1>3, <2>1, <2>2, <2>3, <2>4, <2>5, CaughtCall DEF FrameNext
<1>4. ASSUME UNCHANGED <<pc, cbs, got, seen>>,
             \A l \in Listeners : seen[l] # <<>> /\ Subscribed(l)' => Subscribed(l)
      PROVE  CaughtUp' /\ ListenersInOrder'
  <2>1. ASSUME NEW l \in Listeners, seen[l] # <<>>
        PROVE  /\ Waits(l)' => Waits(l)
               /\ Subscribed(l)' /\ ~Waits(l)' => Subscribed(l) /\ ~Waits(l)
    BY <1>4, <2>1 DEF Waits
  <2> QED BY <1>4, <2>1, CaughtPasses
<1>5. ASSUME NEW k \in Listeners, Subscribe(k)
      PROVE  CaughtUp' /\ ListenersInOrder'
  <2>1. ASSUME NEW l \in Listeners, seen[l] # <<>>, Subscribed(l)'
        PROVE  Subscribed(l)
    <3>1. listeners' = Append(listeners, k) /\ l # k
      BY <1>5, <2>1 DEF Subscribe
    <3>2. PICK i \in DOMAIN Append(listeners, k) : Append(listeners, k)[i] = l
      BY <2>1, <3>1 DEF Subscribed
    <3>3. /\ DOMAIN listeners = 1 .. Len(listeners) /\ Len(listeners) \in Nat
          /\ DOMAIN Append(listeners, k) = 1 .. Len(listeners) + 1
          /\ Append(listeners, k)[Len(listeners) + 1] = k
          /\ \A j \in 1 .. Len(listeners) : Append(listeners, k)[j] = listeners[j]
      BY <1>0, AppendProperties, LenProperties DEF TypeOK
    <3>4. i \in DOMAIN listeners /\ listeners[i] = l
      BY <3>1, <3>2, <3>3
    <3> QED BY <3>4 DEF Subscribed
  <2> QED BY <1>4, <1>5, <2>1 DEF Subscribe, chan
<1>6. ASSUME NEW k \in Listeners, Unsubscribe(k)
      PROVE  CaughtUp' /\ ListenersInOrder'
  <2>1. PICK i \in DOMAIN listeners : listeners' = RemoveAt(listeners, i)
    BY <1>6 DEF Unsubscribe
  <2>2. \A l : In(l, listeners') => In(l, listeners)
    BY <1>0, <2>1, RemoveOnce DEF Order, Once, TypeOK
  <2>3. \A l \in Listeners : Subscribed(l)' => Subscribed(l)
    BY <2>2 DEF Subscribed, In
  <2> QED BY <1>4, <1>6, <2>3 DEF Unsubscribe, chan
<1>7. CASE ClockMoves \/ UNCHANGED vars
  BY <1>4, <1>7 DEF ClockMoves, vars, chan, Subscribed
<1> QED BY <1>3, <1>5, <1>6, <1>7 DEF Next

\* As long as no allocation fails, a listener is called with every event from its
\* first on, in the order they were published.
THEOREM InOrder ==
  ASSUME ~OutOfMemory PROVE Spec => []ListenersInOrder
<1>1. Control /\ Order /\ CaughtUp /\ ListenersInOrder /\ [Next]_vars
        => CaughtUp' /\ ListenersInOrder'
  BY CaughtStep
<1>2. Init => CaughtUp /\ ListenersInOrder
  BY CaughtInit
<1> QED
  BY <1>1, <1>2, OrderInit, OrderStep, QueueInit, QueueStep, ControlInit, ControlStep,
     PTL DEF Spec

\* "An event-driven paywall and a query-driven one cannot disagree": as long as no
\* allocation fails, what a listener heard last is what state() answers once no
\* call is in progress and the clock has not moved since a poll.
THEOREM NobodyDisagrees ==
  ASSUME ~OutOfMemory PROVE Spec => []SubscribersAgree
<1>1. Control /\ Order /\ CaughtUp /\ ListenersInOrder /\ [Next]_vars
        => CaughtUp' /\ ListenersInOrder'
  BY CaughtStep
<1>2. Init => CaughtUp /\ ListenersInOrder /\ HandedOver
  BY CaughtInit
<1>3. Control /\ Queue /\ CaughtUp /\ HandedOver /\ NothingStranded /\ DedupeIsCurrent
        => SubscribersAgree
  <2> SUFFICES ASSUME Control, Queue, CaughtUp, HandedOver, NothingStranded,
                      DedupeIsCurrent, Quiet,
                      NEW l \in Listeners, Subscribed(l), seen[l] # <<>>
               PROVE  Last(seen[l]).value = state
    BY DEF SubscribersAgree
  <2>1. last_reported = state
    BY DEF Quiet, DedupeIsCurrent
  <2>2. pending = <<>>
    BY DEF Control, OneBaton, Quiet, NothingStranded, Draining
  <2>3. Len(got) = Len(sent)
    BY <2>2, LenProperties DEF Queue, QueueInv, TypeOK
  <2>4. got[Len(got)] = last_reported
    BY <2>3 DEF HandedOver, Queue, DedupeIsPublished
  <2>5. ~Waits(l)
    BY DEF Waits, Quiet
  <2> QED BY <2>1, <2>4, <2>5 DEF CaughtUp
<1>4. Spec => []NothingStranded
  BY NoStrandedEvent
<1> QED
  BY <1>1, <1>2, <1>3, <1>4, DedupeCurrent, OrderInit, OrderStep, QueueInit, QueueStep,
     HandedStep, ControlInit, ControlStep, PTL DEF Spec
=============================================================================
