------------------------------ MODULE Notifier ------------------------------
(***************************************************************************)
(* The event channel of keylight::Client: set_state_(), the poll of        *)
(* validate() and refreshIfNeeded(), notify_() with its dedupe, its queue  *)
(* and its delivery baton, subscribe() and unsubscribe().                  *)
(*                                                                         *)
(* A frame <<t, d>> is an SDK call of thread t: the thread's own at depth  *)
(* 0, one made from inside a listener at depth d > 0.  A step is what runs *)
(* between two scheduling points: a critical section of notify_mutex_ is   *)
(* two steps where the code reads the clock guard and then state_, both of *)
(* which other threads change without the mutex, and one step elsewhere.   *)
(***************************************************************************)
EXTENDS Naturals, Sequences, SequencesExt

CONSTANTS Threads,        \* application threads and the SDK's own workers
          Pollers,        \* the threads that poll forever (auto-validation)
          Listeners,      \* the ids subscribe() hands out, each used once
          States, Invalid,
          MaxDepth,       \* bound: how deep listeners re-enter the client
          MaxChanges,     \* bound: set_state_() calls and clock jumps
          OutOfMemory,    \* may an allocation inside notify_() throw?
          Nobody          \* the holder of a free notify_mutex_

ASSUME ThreadsAssumption == Pollers \subseteq Threads
ASSUME StatesAssumption == Invalid \in States
ASSUME BoundsAssumption == MaxDepth \in Nat /\ MaxChanges \in Nat
ASSUME OutOfMemoryAssumption == OutOfMemory \in BOOLEAN

Frames == Threads \X (0 .. MaxDepth)

ASSUME NobodyAssumption == Nobody \notin Frames

VARIABLES
  raw,           \* state_, the resolved state before the clock guard
  untrusted,     \* what clock_untrusted_() answers
  last_reported, \* last_reported_, the dedupe
  pending,       \* pending_, each event tagged with its place in sent
  delivering,    \* delivering_, the baton
  mutex,         \* the frame inside the first section of notify_(), or Nobody
  guard,         \* what that frame's state() read of the clock guard
  listeners,     \* listeners_, in order of registration
  pc, ev, cbs,   \* per frame: where it is, the event it delivers, who is left
  changes,       \* set_state_() calls and clock jumps so far
  sent, got,     \* history: events published; events taken off the queue
  seen,          \* history: the events each listener was called with
  stale          \* the clock moved, or a publication failed, and no poll since

chan == <<last_reported, pending, delivering, sent, got>>
vars == <<raw, untrusted, chan, mutex, guard, listeners, pc, ev, cbs,
          changes, seen, stale>>

\* state(): the clock guard applied to the raw state.
state == IF untrusted THEN Invalid ELSE raw

Depth(f)  == f[2]
Caller(f) == <<f[1], f[2] - 1>>
Callee(f) == <<f[1], f[2] + 1>>

Draining == {"take", "copy", "deliver", "inside"}
PC == Draining \cup {"idle", "lock", "decide"}

\* An event: the value reported, and (history) its place in sent.
Event == [nth : Nat, value : States]

\* A thread enters the SDK when it is outside it, or from inside a listener.
MayCall(f) == /\ pc[f] = "idle"
              /\ Depth(f) > 0 => pc[Caller(f)] = "inside"

Goto(f, l) == pc' = [pc EXCEPT ![f] = l]

Subscribed(l) == \E i \in DOMAIN listeners : listeners[i] = l

Init == /\ raw \in States
        /\ untrusted \in BOOLEAN
        /\ last_reported = state
        /\ pending = <<>>
        /\ delivering = FALSE
        /\ mutex = Nobody
        /\ guard = FALSE
        /\ listeners = <<>>
        /\ pc = [f \in Frames |-> "idle"]
        /\ ev = [f \in Frames |-> [nth |-> 0, value |-> Invalid]]
        /\ cbs = [f \in Frames |-> <<>>]
        /\ changes = 0
        /\ sent = <<last_reported>>
        /\ got = sent
        /\ seen = [l \in Listeners |-> <<>>]
        /\ stale = FALSE

----------------------------------------------------------------------------
(* Seeded faults: forms of the definitions below that the runs must refuse. *)

\* The raw state is stored past set_state_(): nothing is reported.
StoreOnly(f, s) == /\ MayCall(f)
                   /\ changes < MaxChanges
                   /\ changes' = changes + 1
                   /\ raw' = s
                   /\ UNCHANGED <<untrusted, chan, mutex, guard, listeners, pc,
                                  ev, cbs, seen, stale>>

\* The poll compares raw states, so the guard gets no event of its own.
PollRaw(f) == /\ MayCall(f)
              /\ raw # last_reported
              /\ Goto(f, "lock")
              /\ UNCHANGED <<raw, untrusted, chan, mutex, guard, listeners, ev,
                             cbs, changes, seen, stale>>

\* What is reported is the raw state.
ReportedRaw == raw

Push(v) == /\ pending' = Append(pending, [nth |-> Len(sent) + 1, value |-> v])
           /\ sent' = Append(sent, v)
           /\ last_reported' = v
           /\ UNCHANGED got

\* The one who starts to drain forgets to claim the baton.
BatonNotClaimed(f) == LET v == IF guard THEN Invalid ELSE raw IN
  /\ pc[f] = "decide"
  /\ mutex' = Nobody
  /\ IF last_reported = v THEN Goto(f, "idle") /\ UNCHANGED chan
                          ELSE Goto(f, "take") /\ Push(v) /\ UNCHANGED delivering
  /\ UNCHANGED <<raw, untrusted, guard, listeners, ev, cbs, changes, seen, stale>>

\* The dedupe is consumed before the push that throws.
DedupeBeforePush(f) == /\ OutOfMemory
                       /\ pc[f] = "decide"
                       /\ last_reported' = IF guard THEN Invalid ELSE raw
                       /\ mutex' = Nobody
                       /\ stale' = TRUE
                       /\ Goto(f, "idle")
                       /\ UNCHANGED <<raw, untrusted, pending, delivering, sent,
                                      got, guard, listeners, ev, cbs, changes,
                                      seen>>

\* The newest event first.
TakeLast(f) ==
  /\ pc[f] = "take"
  /\ mutex = Nobody
  /\ \/ /\ pending = <<>>
        /\ delivering' = FALSE
        /\ Goto(f, "idle")
        /\ UNCHANGED <<pending, got, ev>>
     \/ /\ pending # <<>>
        /\ ev' = [ev EXCEPT ![f] = Last(pending)]
        /\ got' = Append(got, Last(pending).value)
        /\ pending' = Front(pending)
        /\ Goto(f, "copy")
        /\ UNCHANGED delivering
  /\ UNCHANGED <<raw, untrusted, last_reported, sent, mutex, guard, listeners,
                 cbs, changes, seen, stale>>

\* The baton is not released on unwind.
UnwindKeepsBaton(f) == /\ OutOfMemory
                       /\ pc[f] = "copy"
                       /\ Goto(f, "idle")
                       /\ UNCHANGED <<raw, untrusted, chan, mutex, guard,
                                      listeners, ev, cbs, changes, seen, stale>>

\* The event whose delivery failed is queued again, behind the others.
UnwindRequeues(f) == /\ OutOfMemory
                     /\ pc[f] = "copy"
                     /\ mutex = Nobody
                     /\ delivering' = FALSE
                     /\ pending' = Append(pending, ev[f])
                     /\ Goto(f, "idle")
                     /\ UNCHANGED <<raw, untrusted, last_reported, sent, got,
                                    mutex, guard, listeners, ev, cbs, changes,
                                    seen, stale>>

\* The drain stops after one event and takes the baton with it.
DeliveredKeepsBaton(f) == /\ pc[f] = "deliver"
                          /\ cbs[f] = <<>>
                          /\ Goto(f, "idle")
                          /\ UNCHANGED <<raw, untrusted, chan, mutex, guard,
                                         listeners, ev, cbs, changes, seen,
                                         stale>>

----------------------------------------------------------------------------
\* set_state_(s) up to its call of notify_().  The lifecycle event it derives
\* goes to listeners of its own and never through this channel.
SetState(f, s) == /\ MayCall(f)
                  /\ changes < MaxChanges
                  /\ changes' = changes + 1
                  /\ raw' = s
                  /\ Goto(f, "lock")
                  /\ UNCHANGED <<untrusted, chan, mutex, guard, listeners, ev,
                                 cbs, seen, stale>>

\* validate() and refreshIfNeeded() begin with a bare notify_().
Poll(f) == /\ MayCall(f)
           /\ Goto(f, "lock")
           /\ UNCHANGED <<raw, untrusted, chan, mutex, guard, listeners, ev,
                          cbs, changes, seen, stale>>

\* The wall clock is rolled back beyond the tolerance, or corrected.
ClockMoves == /\ changes < MaxChanges
              /\ changes' = changes + 1
              /\ untrusted' = ~untrusted
              /\ stale' = TRUE
              /\ UNCHANGED <<raw, chan, mutex, guard, listeners, pc, ev, cbs,
                             seen>>

\* notify_(): takes notify_mutex_; its state() reads the clock guard first...
Lock(f) == /\ pc[f] = "lock"
           /\ mutex = Nobody
           /\ mutex' = f
           /\ guard' = untrusted
           /\ stale' = FALSE
           /\ Goto(f, "decide")
           /\ UNCHANGED <<raw, untrusted, chan, listeners, ev, cbs, changes,
                          seen>>

\* ... and then state_.
Reported == IF guard THEN Invalid ELSE raw

\* The dedupe, the push, and the decision who drains the queue.
Decide(f) ==
  /\ pc[f] = "decide"
  /\ mutex' = Nobody
  /\ \/ /\ last_reported = Reported
        /\ Goto(f, "idle")
        /\ UNCHANGED chan
     \/ /\ last_reported # Reported
        /\ pending' = Append(pending, [nth |-> Len(sent) + 1, value |-> Reported])
        /\ sent' = Append(sent, Reported)
        /\ last_reported' = Reported
        /\ delivering' = TRUE
        /\ Goto(f, IF delivering THEN "idle" ELSE "take")
        /\ UNCHANGED got
  /\ UNCHANGED <<raw, untrusted, guard, listeners, ev, cbs, changes, seen, stale>>

\* The push throws bad_alloc before the dedupe is consumed.
PushFails(f) == /\ OutOfMemory
                /\ pc[f] = "decide"
                /\ last_reported # Reported
                /\ mutex' = Nobody
                /\ stale' = TRUE
                /\ Goto(f, "idle")
                /\ UNCHANGED <<raw, untrusted, chan, guard, listeners, ev, cbs,
                               changes, seen>>

\* The baton holder takes the next event, or hands the baton back in the same
\* critical section that finds the queue empty.
Take(f) ==
  /\ pc[f] = "take"
  /\ mutex = Nobody
  /\ \/ /\ pending = <<>>
        /\ delivering' = FALSE
        /\ Goto(f, "idle")
        /\ UNCHANGED <<pending, got, ev>>
     \/ /\ pending # <<>>
        /\ ev' = [ev EXCEPT ![f] = Head(pending)]
        /\ got' = Append(got, Head(pending).value)
        /\ pending' = Tail(pending)
        /\ Goto(f, "copy")
        /\ UNCHANGED delivering
  /\ UNCHANGED <<raw, untrusted, last_reported, sent, mutex, guard, listeners,
                 cbs, changes, seen, stale>>

\* The callbacks are copied under listeners_mutex_.
CopyListeners(f) == /\ pc[f] = "copy"
                    /\ cbs' = [cbs EXCEPT ![f] = listeners]
                    /\ Goto(f, "deliver")
                    /\ UNCHANGED <<raw, untrusted, chan, mutex, guard,
                                   listeners, ev, changes, seen, stale>>

\* The copy throws bad_alloc: BatonGuard hands the baton back.  The event
\* already taken off the queue is lost, the rest stay in the queue.
Unwind(f) == /\ OutOfMemory
             /\ pc[f] = "copy"
             /\ mutex = Nobody
             /\ delivering' = FALSE
             /\ Goto(f, "idle")
             /\ UNCHANGED <<raw, untrusted, last_reported, pending, sent, got,
                            mutex, guard, listeners, ev, cbs, changes, seen,
                            stale>>

\* cb(ev), with no lock held.
Call(f) == /\ pc[f] = "deliver"
           /\ cbs[f] # <<>>
           /\ seen' = [seen EXCEPT ![Head(cbs[f])] = Append(@, ev[f])]
           /\ cbs' = [cbs EXCEPT ![f] = Tail(@)]
           /\ Goto(f, "inside")
           /\ UNCHANGED <<raw, untrusted, chan, mutex, guard, listeners, ev,
                          changes, stale>>

\* The listener returns, or throws and is contained.
Return(f) == /\ pc[f] = "inside"
             /\ Depth(f) < MaxDepth => pc[Callee(f)] = "idle"
             /\ Goto(f, "deliver")
             /\ UNCHANGED <<raw, untrusted, chan, mutex, guard, listeners, ev,
                            cbs, changes, seen, stale>>

Delivered(f) == /\ pc[f] = "deliver"
                /\ cbs[f] = <<>>
                /\ Goto(f, "take")
                /\ UNCHANGED <<raw, untrusted, chan, mutex, guard, listeners,
                               ev, cbs, changes, seen, stale>>

\* subscribe(): a fresh id at the end of the list.
Subscribe(l) == /\ ~Subscribed(l)
                /\ seen[l] = <<>>
                /\ listeners' = Append(listeners, l)
                /\ UNCHANGED <<raw, untrusted, chan, mutex, guard, pc, ev, cbs,
                               changes, seen, stale>>

\* remove_listener_(): does not fence a delivery in flight.
Unsubscribe(l) == \E i \in DOMAIN listeners :
  /\ listeners[i] = l
  /\ listeners' = RemoveAt(listeners, i)
  /\ UNCHANGED <<raw, untrusted, chan, mutex, guard, pc, ev, cbs, changes, seen,
                 stale>>

----------------------------------------------------------------------------
Progress(f) == \/ Lock(f) \/ Decide(f) \/ Take(f) \/ CopyListeners(f)
               \/ Call(f) \/ Return(f) \/ Delivered(f)

FrameNext(f) == \/ \E s \in States : SetState(f, s)
                \/ Poll(f)
                \/ Lock(f)
                \/ Decide(f)
                \/ PushFails(f)
                \/ Take(f)
                \/ CopyListeners(f)
                \/ Unwind(f)
                \/ Call(f)
                \/ Return(f)
                \/ Delivered(f)

Next == \/ \E f \in Frames : FrameNext(f)
        \/ ClockMoves
        \/ \E l \in Listeners : Subscribe(l) \/ Unsubscribe(l)

Spec == Init /\ [][Next]_vars

\* A thread inside the SDK runs on and a listener returns; whoever waits for
\* notify_mutex_ gets it some time, since its sections are a few instructions
\* and its users leave it between polls; the workers keep polling.
Fairness == /\ \A f \in Frames : SF_vars(Progress(f))
            /\ \A t \in Pollers : SF_vars(Poll(<<t, 0>>))

LiveSpec == Spec /\ Fairness

----------------------------------------------------------------------------
TypeOK == /\ raw \in States /\ last_reported \in States
          /\ untrusted \in BOOLEAN /\ guard \in BOOLEAN
          /\ delivering \in BOOLEAN /\ stale \in BOOLEAN
          /\ pending \in Seq(Event)
          /\ sent \in Seq(States) /\ got \in Seq(States)
          /\ mutex \in Frames \cup {Nobody}
          /\ listeners \in Seq(Listeners)
          /\ pc \in [Frames -> PC]
          /\ ev \in [Frames -> Event]
          /\ cbs \in [Frames -> Seq(Listeners)]
          /\ changes \in Nat
          /\ seen \in [Listeners -> Seq(Event)]

\* The baton (BatonGuard, delivering_): it is held exactly while some frame
\* drains the queue, and never by two frames.
OneBaton == /\ delivering <=> \E f \in Frames : pc[f] \in Draining
            /\ \A f, g \in Frames :
                 pc[f] \in Draining /\ pc[g] \in Draining => f = g

\* notify_() promises that a re-entrant call queues its event instead of
\* recursing: no frame entered from inside a listener ever drains.
NoRecursiveDelivery == \A f \in Frames : Depth(f) > 0 => pc[f] \notin Draining

\* No event is stranded in the queue without anyone to drain it, the window
\* that clearing delivering_ in a second critical section would open.
NothingStranded == pending # <<>> => delivering

\* What notify_() reports and what state() answers: they differ only while a
\* call that will report is still on its way to the dedupe, or the clock has
\* moved since the last poll.
DedupeIsCurrent ==
  last_reported # state => stale \/ \E f \in Frames : pc[f] \in {"lock", "decide"}

\* The dedupe never claims an event nobody queued: what it holds is what was
\* published last, also when the push throws.
DedupeIsPublished == last_reported = sent[Len(sent)]

\* Each listener is called in the order of publication, skipping nothing
\* between its first event and its last, whichever threads delivered them.
ListenersInOrder ==
  \A l \in Listeners : \A i \in 1 .. Len(seen[l]) - 1 :
    seen[l][i + 1].nth = seen[l][i].nth + 1

\* The same when an allocation may fail: events may be skipped, never swapped.
ListenersNeverBackwards ==
  \A l \in Listeners : \A i \in 1 .. Len(seen[l]) - 1 :
    seen[l][i + 1].nth > seen[l][i].nth

Quiet == ~stale /\ \A f \in Frames : pc[f] = "idle"

\* "An event-driven paywall and a query-driven one cannot disagree": with no
\* call in progress, the last value a subscriber got is what state() answers.
SubscribersAgree ==
  Quiet => \A l \in Listeners :
             Subscribed(l) /\ seen[l] # <<>> => Last(seen[l]).value = state

\* The channel is an EventChannel: one order, no repeats, each handed over once.
Channel == INSTANCE EventChannel
Refines == Channel!Spec
RefinesFairly == Channel!FairSpec

\* While the workers poll, a clock that has moved does not stay unreported: a
\* rolled-back or a corrected clock reaches the dedupe, and so the subscribers.
ClockIsReported == stale ~> ~stale

\* Changes are finitely many: after the last of them every subscriber that
\* has heard an event ends up holding what state() answers, and keeps it.
EventuallyAgree ==
  <>[](\A l \in Listeners :
         Subscribed(l) /\ seen[l] # <<>> => Last(seen[l]).value = state)
=============================================================================
