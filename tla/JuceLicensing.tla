---------------------------- MODULE JuceLicensing ----------------------------
(***************************************************************************)
(* The JUCE adapter (integrations/juce/KeylightJuce.h): a Licensing object *)
(* owns a Client, mirrors its state into atomics from the subscription     *)
(* callback, runs its calls on one worker thread at a time and posts what  *)
(* they answer to the message thread, which also destroys it.              *)
(*                                                                         *)
(* The Client is what EventChannel promises of it: a transition queues one *)
(* event, and one thread at a time delivers them in order.  A thread is    *)
(* "work" (worker_thread_), "tick" (the Client's auto-validation worker),  *)
(* "beat" (its keyless heartbeat) or "app" (the host calling underlying()  *)
(* from a thread of its own).                                              *)
(***************************************************************************)
EXTENDS Naturals, Sequences, SequencesExt

CONSTANTS States,     \* what the Client may report
          Keyless,    \* those the funnel beacon is sent for
          HostThread, \* does the host call underlying() from its own thread?
          MaxEvents,  \* bound: transitions of the Client
          MaxCalls    \* bound: calls of the host

ASSUME JuceAssumption ==
  /\ States # {} /\ Keyless \subseteq States
  /\ HostThread \in BOOLEAN /\ MaxEvents \in Nat /\ MaxCalls \in Nat

Threads == {"work", "tick", "beat", "app"}
Ops     == {"call", "beacon"}   \* those that answer always, and reportKeylessState()

VARIABLES
  state_, granted,    \* the Client: its state, and hasEntitlement("pro")
  events, baton,      \* its queue, and the thread that delivers it
  subscribed, retired,\* is the callback registered; is the worker retired?
  alive,              \* *alive_
  snapshot, pro,      \* state_snapshot_, pro_enabled_
  at, val,            \* where each thread is, and the event it delivers
  op,                 \* the call worker_thread_ runs
  ui, next,           \* the message thread, and the call it dispatches
  posted,             \* lambdas given to callAsync and not run yet
  told, touched,      \* history: last onStateChanged; was a member used too late?
  made                \* how many transitions and calls there were

sdk  == <<state_, granted, events, baton, subscribed, retired>>
mine == <<alive, snapshot, pro>>
vars == <<sdk, mine, at, val, op, ui, next, posted, told, touched, made>>

None == "none"

Gone == ui = "gone"

\* ~Client() has begun: it has stopped its heartbeat.
Closing == ui \in {"join_client", "gone"}

\* A step that uses a member, or the Client, of an object that is no more.
Touch == touched' = (touched \/ Gone)

\* Constructor: the snapshots are seeded before the callback is registered.
Init ==
  /\ state_ \in States /\ granted \in BOOLEAN
  /\ snapshot = state_ /\ pro = granted
  /\ events = <<>> /\ baton = None /\ subscribed = TRUE /\ retired = FALSE
  /\ alive = TRUE
  /\ at = [t \in Threads |-> "idle"] /\ val = [t \in Threads |-> None]
  /\ op = None /\ ui = "idle" /\ next = None
  /\ posted = <<>> /\ told = state_ /\ touched = FALSE
  /\ made = [events |-> 0, calls |-> 0]

Goes(t, where) == at' = [at EXCEPT ![t] = where]

----------------------------------------------------------------------------
\* dispatch_(): the message thread waits for the worker thread it started
\* before, then starts the next one.
Dispatch(o) ==
  /\ ui = "idle" /\ made.calls < MaxCalls
  /\ made' = [made EXCEPT !.calls = @ + 1]
  /\ ui' = "join" /\ next' = o
  /\ UNCHANGED <<sdk, mine, at, val, op, posted, told, touched>>

Join ==
  /\ ui = "join" /\ at["work"] = "idle"
  /\ op' = next /\ next' = None
  /\ Goes("work", "call") /\ ui' = "idle"
  /\ UNCHANGED <<sdk, mine, val, posted, told, touched, made>>

\* startAutoValidation() has been called, the heartbeat started itself; the host's
\* own thread may call too.
Begin(t) ==
  /\ at[t] = "idle"
  /\ \/ t = "tick" /\ ~retired
     \/ t = "beat" /\ ~Closing
     \/ t = "app" /\ HostThread /\ ~Gone
  /\ Goes(t, "call")
  /\ UNCHANGED <<sdk, mine, val, op, ui, next, posted, told, touched, made>>

\* The Client stores what a call made of the state and the lease, queues an
\* event if the state is another one, and delivers it unless somebody does.
SetState(t, s, g) ==
  /\ state_' = s /\ granted' = g
  /\ made' = IF s = state_ THEN made ELSE [made EXCEPT !.events = @ + 1]
  /\ made'.events <= MaxEvents
  /\ events' = IF s = state_ THEN events ELSE Append(events, s)

Work(t) ==
  /\ at[t] = "call"
  /\ \E s \in States, g \in BOOLEAN :
       /\ SetState(t, s, g)
       /\ baton' = IF baton = None THEN t ELSE baton
       /\ Goes(t, IF baton = None THEN "drain" ELSE "done")
  /\ Touch
  /\ UNCHANGED <<subscribed, retired, mine, val, op, ui, next, posted, told>>

\* A listener that is registered gets the oldest event.
Deliver(t) ==
  /\ at[t] = "drain" /\ events # <<>>
  /\ events' = Tail(events)
  /\ val' = [val EXCEPT ![t] = Head(events)]
  /\ Goes(t, IF subscribed THEN "check" ELSE "drain")
  /\ UNCHANGED <<state_, granted, baton, subscribed, retired, mine, op, ui, next,
                 posted, told, touched, made>>

Drained(t) ==
  /\ at[t] = "drain" /\ events = <<>>
  /\ baton' = None
  /\ Goes(t, "done") /\ val' = [val EXCEPT ![t] = None]
  /\ UNCHANGED <<state_, granted, events, subscribed, retired, mine, op, ui, next,
                 posted, told, touched, made>>

----------------------------------------------------------------------------
\* The subscription callback, with other threads between its steps.
CheckAlive(t) ==
  /\ at[t] = "check"
  /\ Goes(t, IF alive THEN "latch" ELSE "drain")
  /\ UNCHANGED <<sdk, mine, val, op, ui, next, posted, told, touched, made>>

Latch(t) ==
  /\ at[t] = "latch" /\ Goes(t, "cache")
  /\ snapshot' = val[t] /\ Touch
  /\ UNCHANGED <<sdk, alive, pro, val, op, ui, next, posted, told, made>>

\* refresh_entitlement_cache_()
RefreshCache(t) ==
  /\ at[t] = "cache" /\ Goes(t, "beacon")
  /\ pro' = granted /\ Touch
  /\ UNCHANGED <<sdk, alive, snapshot, val, op, ui, next, posted, told, made>>

\* Seeded fault: the beacon goes through dispatch_(), which joins the worker.
BeaconDispatched(t) ==
  /\ at[t] = "beacon"
  /\ val[t] \in Keyless => at["work"] = "idle"
  /\ Goes(t, "post") /\ Touch
  /\ UNCHANGED <<sdk, mine, val, op, ui, next, posted, told, made>>

\* reportKeylessState(), inline: its reply may change the state, which queues an
\* event for the delivery that is under way.
Beacon(t) ==
  /\ at[t] = "beacon" /\ Goes(t, "post") /\ Touch
  /\ \E s \in States : (s = state_ \/ val[t] \in Keyless) /\ SetState(t, s, granted)
  /\ UNCHANGED <<baton, subscribed, retired, mine, val, op, ui, next, posted, told>>

\* Seeded fault: the lambda is given what client_->state() says by then.
PostReread(t) ==
  /\ at[t] = "post" /\ Goes(t, "drain")
  /\ posted' = Append(posted, [kind |-> "changed", value |-> state_])
  /\ UNCHANGED <<sdk, mine, val, op, ui, next, told, touched, made>>

PostChange(t) ==
  /\ at[t] = "post" /\ Goes(t, "drain")
  /\ posted' = Append(posted, [kind |-> "changed", value |-> val[t]])
  /\ UNCHANGED <<sdk, mine, val, op, ui, next, told, touched, made>>

\* The call returns.  Its answer goes to the message thread, which runs the
\* host's callback without asking alive_, reportKeylessState()'s excepted.
Finish(t) ==
  /\ at[t] = "done" /\ Goes(t, "idle")
  /\ posted' = IF t = "work" THEN Append(posted, [kind |-> op, value |-> None]) ELSE posted
  /\ op' = IF t = "work" THEN None ELSE op
  /\ UNCHANGED <<sdk, mine, val, ui, next, told, touched, made>>

----------------------------------------------------------------------------
\* The message thread runs a lambda, also after the object is gone.
RunPosted ==
  /\ ui \in {"idle", "gone"} /\ posted # <<>>
  /\ posted' = Tail(posted)
  /\ IF Head(posted).kind = "changed" /\ alive
     THEN told' = Head(posted).value /\ Touch
     ELSE UNCHANGED <<told, touched>>
  /\ UNCHANGED <<sdk, mine, at, val, op, ui, next, made>>

\* ~Licensing(), in its five steps; the fifth is ~Client().
Destroy ==
  /\ ui = "idle" /\ ui' = "unsubscribe"
  /\ alive' = FALSE
  /\ UNCHANGED <<sdk, snapshot, pro, at, val, op, next, posted, told, touched, made>>

Unsubscribe ==
  /\ ui = "unsubscribe" /\ ui' = "retire"
  /\ subscribed' = FALSE
  /\ UNCHANGED <<state_, granted, events, baton, retired, mine, at, val, op, next,
                 posted, told, touched, made>>

Retire ==
  /\ ui = "retire" /\ ui' = "join_worker"
  /\ retired' = TRUE
  /\ UNCHANGED <<state_, granted, events, baton, subscribed, mine, at, val, op, next,
                 posted, told, touched, made>>

JoinWorker ==
  /\ ui = "join_worker" /\ at["work"] = "idle" /\ ui' = "reset"
  /\ UNCHANGED <<sdk, mine, at, val, op, next, posted, told, touched, made>>

\* Seeded fault: the Client goes with the members, after the atomics.
ResetClientLate ==
  /\ ui = "reset" /\ ui' = "gone"
  /\ UNCHANGED <<sdk, mine, at, val, op, next, posted, told, touched, made>>

\* client_.reset(): ~Client() stops its heartbeat and retires its worker,
ResetClient ==
  /\ ui = "reset" /\ ui' = "join_client"
  /\ retired' = TRUE
  /\ UNCHANGED <<state_, granted, events, baton, subscribed, mine, at, val, op, next,
                 posted, told, touched, made>>

\* and joins them both.
JoinClient ==
  /\ ui = "join_client" /\ at["beat"] = "idle" /\ at["tick"] = "idle" /\ ui' = "gone"
  /\ UNCHANGED <<sdk, mine, at, val, op, next, posted, told, touched, made>>

Callback(t) == \/ CheckAlive(t) \/ Latch(t) \/ RefreshCache(t)
               \/ Beacon(t) \/ PostChange(t)

Runs(t) == Work(t) \/ Deliver(t) \/ Drained(t) \/ Callback(t) \/ Finish(t)

Destructor == Unsubscribe \/ Retire \/ JoinWorker \/ ResetClient \/ JoinClient

Next == \/ \E o \in Ops : Dispatch(o)
        \/ Join \/ RunPosted \/ Destroy \/ Destructor
        \/ \E t \in Threads : Begin(t) \/ Runs(t)

Spec == Init /\ [][Next]_vars

\* Threads run, requests end (the transport has a timeout), the message loop runs.
FairSpec == /\ Spec
            /\ WF_vars(Join) /\ WF_vars(RunPosted) /\ WF_vars(Destructor)
            /\ \A t \in Threads : WF_vars(Runs(t))

----------------------------------------------------------------------------
(* What is required of it. *)

\* The type of every variable.
TypeOK ==
  /\ state_ \in States /\ granted \in BOOLEAN /\ events \in Seq(States)
  /\ baton \in Threads \cup {None} /\ subscribed \in BOOLEAN /\ retired \in BOOLEAN
  /\ alive \in BOOLEAN /\ snapshot \in States /\ pro \in BOOLEAN
  /\ at \in [Threads -> {"idle", "call", "drain", "check", "latch", "cache",
                         "beacon", "post", "done"}]
  /\ val \in [Threads -> States \cup {None}]
  /\ op \in Ops \cup {None} /\ next \in Ops \cup {None}
  /\ ui \in {"idle", "join", "unsubscribe", "retire", "join_worker", "reset", "join_client",
            "gone"}
  /\ \A i \in 1 .. Len(posted) :
       posted[i] \in [kind : Ops \cup {"changed"}, value : States \cup {None}]
  /\ told \in States /\ touched \in BOOLEAN
  /\ made \in [events : 0 .. MaxEvents, calls : 0 .. MaxCalls]

\* No thread of the adapter or of the Client uses an atomic, the Client or
\* onStateChanged after ~Licensing(): the two joins close what the alive_ check
\* leaves open (KeylightJuce.h, "check-then-use").
NoLateUse == ~touched

\* hasFeature(): there is one cache, for "pro"; any other key reads an atomic
\* nothing writes.
HasFeature(feature) == feature = "pro" /\ pro

\* The Client has nothing to deliver and no callback is under way.
Settled == alive /\ events = <<>> /\ baton = None

\* What the audio thread reads is the state the Client reports, and what the
\* message thread was told last, once its lambdas have run.
SnapshotSettles ==
  Settled => /\ snapshot = state_
             /\ (\A i \in 1 .. Len(posted) : posted[i].kind # "changed") => told = state_

\* A state is on its way to the snapshot from the Client's queue until its callback
\* has latched it, and from there on its way to the message thread until the lambda
\* that tells of it has run.
InHand(places) ==
  IF baton \in Threads /\ at[baton] \in places THEN <<val[baton]>> ELSE <<>>

Change(changes, p) == IF p.kind = "changed" THEN Append(changes, p.value) ELSE changes

Changes == FoldLeft(Change, <<>>, posted)

Mirror == INSTANCE StateMirror WITH
  pending <- InHand({"check", "latch"}) \o events,
  telling <- Changes \o InHand({"cache", "beacon", "post"}),
  open    <- alive

\* The object implements StateMirror: the audio thread and then the message thread
\* see the Client's states in their order and all of them while it lives; what is
\* posted is what was latched, not what the Client says by then.
Refines == Mirror!Spec

\* A call dispatched while another runs is started in the end: the message
\* thread never waits for a thread that waits for it.
DispatchReturns == ui = "join" ~> ui = "idle"

\* ~Licensing() comes to its end, whatever was in flight.
DestructorReturns == ui = "unsubscribe" ~> Gone
=============================================================================
