--------------------------- MODULE AutoValidation ---------------------------
(***************************************************************************)
(* The background threads of keylight::Client: the auto-validation worker, *)
(* which start and stop retire by epoch and never wait for while it runs,  *)
(* the keyless heartbeat, which set_state_() starts, and ~Client(), which  *)
(* joins them all.  Their listeners call start and stop themselves.        *)
(*                                                                         *)
(* A worker is named by the epoch it was spawned with.  A step is a        *)
(* critical section of av_mutex_ or kh_mutex_, or what a thread does       *)
(* between two of them.                                                    *)
(***************************************************************************)
EXTENDS Naturals

CONSTANTS Hosts,       \* the application's threads
          Beats,       \* names for heartbeat threads, each used once
          NoBeat,      \* kh_thread_ when it is not joinable
          MaxEpoch,    \* bound: the last epoch that start may hand out
          HeartbeatOn  \* keylessHeartbeatIntervalMs > 0

Workers == 1 .. MaxEpoch
Loops   == Workers \cup Beats
Threads == Hosts \cup Loops

ASSUME BoundAssumption == MaxEpoch \in Nat
ASSUME ThreadsAssumption == /\ Beats \cap Nat = {} /\ Hosts \cap Loops = {}
                             /\ NoBeat \notin Loops
ASSUME SwitchAssumption == HeartbeatOn \in BOOLEAN

VARIABLES
  epoch,       \* av_epoch_
  current,     \* av_current_, 0 when its thread is not joinable
  retired,     \* av_retired_
  reap,        \* per thread: what the Reaper of its start or stop still joins
  phase,       \* where each worker and heartbeat thread is
  kh_thread,   \* kh_thread_
  kh_stop,     \* kh_stop_
  kh_shutdown, \* kh_shutdown_
  victim,      \* the heartbeat that stop_heartbeat_() joins
  life,        \* how far ~Client() is
  teardown,    \* its to_join
  collected    \* history: the epoch to which it has collected the workers

av   == <<epoch, current, retired>>
kh   == <<kh_thread, kh_stop, kh_shutdown, victim>>
dtor == <<life, teardown, collected>>
vars == <<av, reap, phase, kh, dtor>>

Phases == {"unborn", "born", "parked", "woken", "cycle", "leaving", "done",
           "joined"}

Init == /\ epoch = 0 /\ current = 0 /\ retired = {}
        /\ reap = [t \in Threads |-> {}]
        /\ phase = [x \in Loops |-> "unborn"]
        /\ kh_thread = NoBeat /\ victim = NoBeat
        /\ kh_stop = FALSE /\ kh_shutdown = FALSE
        /\ life = "alive" /\ teardown = {} /\ collected = 0

\* std::terminate() takes every thread with it.
Running == life # "terminated"

----------------------------------------------------------------------------
(* The two loops, av_loop_() and kh_loop_(): one discipline.                *)

\* The condition a loop tests each time it holds its mutex.
Over(x) == IF x \in Workers THEN epoch # x ELSE kh_stop

\* Seeded fault: nobody is notified.
NotNotified(S) == phase

\* notify_all() on the condition variable of the threads S.
Notified(S) == [x \in Loops |-> IF x \in S /\ phase[x] = "parked" THEN "woken"
                                ELSE phase[x]]

\* Takes the mutex, tests, and waits out an interval or leaves the loop.
LoopTop(x) ==
  /\ Running
  /\ phase' = [phase EXCEPT ![x] = IF Over(x) THEN "leaving" ELSE "parked"]
  /\ UNCHANGED <<av, reap, kh, dtor>>

\* Seeded fault: the epoch is not tested again after the wait.
LookUntested(x) ==
  \/ phase[x] = "born" /\ LoopTop(x)
  \/ /\ Running /\ phase[x] = "woken"
     /\ phase' = [phase EXCEPT ![x] = "cycle"]
     /\ UNCHANGED <<av, reap, kh, dtor>>

Look(x) == phase[x] \in {"born", "woken"} /\ LoopTop(x)

\* The interval is over, or the wait ends spuriously with nothing to do.
Elapse(x) ==
  /\ Running /\ phase[x] = "parked"
  /\ phase' = [phase EXCEPT ![x] = IF Over(x) THEN "leaving" ELSE "cycle"]
  /\ UNCHANGED <<av, reap, kh, dtor>>

\* refreshIfNeeded() or reportKeylessState() returns, or throws: it is caught.
EndCycle(x) == phase[x] = "cycle" /\ reap[x] = {} /\ LoopTop(x)

\* A worker publishes done as its last act; a heartbeat thread just ends.
Leave(x) == /\ Running /\ phase[x] = "leaving"
            /\ phase' = [phase EXCEPT ![x] = "done"]
            /\ UNCHANGED <<av, reap, kh, dtor>>

----------------------------------------------------------------------------
(* start and stop, called by the application or from a listener on a loop.  *)

CanCall(t) == /\ Running /\ reap[t] = {}
              /\ IF t \in Hosts THEN life = "alive" ELSE phase[t] = "cycle"

\* take_exited_(), into the Reaper of the thread t.
Exited == {w \in retired : phase[w] = "done"}

TakeExited(t, kept) == /\ reap' = [reap EXCEPT ![t] = Exited]
                       /\ retired' = kept \ Exited

\* A thread that cannot be created leaves the epoch advanced.
Spawn == /\ current = 0 /\ epoch < MaxEpoch
         /\ epoch' = epoch + 1
         /\ \/ /\ current' = epoch + 1
               /\ phase' = [phase EXCEPT ![epoch + 1] = "born"]
            \/ UNCHANGED <<current, phase>>

Start(t) == /\ CanCall(t)
            /\ TakeExited(t, retired)
            /\ \/ Spawn
               \/ current # 0 /\ UNCHANGED <<epoch, current, phase>>
            /\ UNCHANGED <<kh, dtor>>

\* What stop does to a worker, unless the reservation before it throws.
Retire == /\ epoch' = epoch + 1
          /\ current' = 0
          /\ phase' = Notified(Workers)

Stop(t) == /\ CanCall(t)
           /\ \/ current # 0 /\ Retire /\ TakeExited(t, retired \cup {current})
              \/ UNCHANGED <<epoch, current, phase>> /\ TakeExited(t, retired)
           /\ UNCHANGED <<kh, dtor>>

\* ~Reaper: one join.
Join(t, w) == /\ Running /\ w \in reap[t] /\ phase[w] = "done"
              /\ reap' = [reap EXCEPT ![t] = @ \ {w}]
              /\ phase' = [phase EXCEPT ![w] = "joined"]
              /\ UNCHANGED <<av, kh, dtor>>

----------------------------------------------------------------------------
(* start_heartbeat_(), which ends every set_state_(), and ~Client().        *)

\* Seeded fault: the shutdown is not latched.
StartUnlatched(t) ==
  /\ CanCall(t)
  /\ HeartbeatOn /\ kh_thread = NoBeat
  /\ kh_stop' = FALSE
  /\ \E b \in Beats : /\ phase[b] = "unborn"
                      /\ kh_thread' = b
                      /\ phase' = [phase EXCEPT ![b] = "born"]
  /\ UNCHANGED <<av, reap, kh_shutdown, victim, dtor>>

StartHeartbeat(t) ==
  /\ CanCall(t)
  /\ HeartbeatOn /\ ~kh_shutdown /\ kh_thread = NoBeat
  /\ kh_stop' = FALSE
  /\ \E b \in Beats : /\ phase[b] = "unborn"
                      /\ kh_thread' = b
                      /\ phase' = [phase EXCEPT ![b] = "born"]
  /\ UNCHANGED <<av, reap, kh_shutdown, victim, dtor>>

\* Seeded fault: the heartbeat is told to stop and left in its wait.
StopSilently ==
  /\ life = "alive" /\ \A h \in Hosts : reap[h] = {}
  /\ life' = "beat"
  /\ kh_stop' = TRUE /\ kh_shutdown' = TRUE
  /\ victim' = kh_thread /\ kh_thread' = NoBeat
  /\ UNCHANGED <<av, reap, phase, teardown, collected>>

\* stop_heartbeat_().  Nobody destroys a Client that another thread is still
\* calling: the comment on ~Client() leaves that to its owner.
StopHeartbeat ==
  /\ life = "alive" /\ \A h \in Hosts : reap[h] = {}
  /\ life' = "beat"
  /\ kh_stop' = TRUE /\ kh_shutdown' = TRUE
  /\ victim' = kh_thread /\ kh_thread' = NoBeat
  /\ phase' = Notified(Beats)
  /\ UNCHANGED <<av, reap, teardown, collected>>

\* Joins the heartbeat, then retires and collects every worker.
Collect ==
  /\ life = "beat" /\ (victim # NoBeat => phase[victim] = "done")
  /\ life' = "workers"
  /\ epoch' = epoch + 1 /\ collected' = epoch + 1
  /\ teardown' = retired \cup ({current} \ {0})
  /\ current' = 0 /\ retired' = {}
  /\ phase' = [x \in Loops |-> IF x = victim THEN "joined"
                               ELSE Notified(Workers)[x]]
  /\ victim' = NoBeat
  /\ UNCHANGED <<reap, kh_thread, kh_stop, kh_shutdown>>

\* ~Reaper of the destructor: the only place that waits for a live worker.
JoinLast(w) == /\ w \in teardown /\ phase[w] = "done"
               /\ teardown' = teardown \ {w}
               /\ phase' = [phase EXCEPT ![w] = "joined"]
               /\ UNCHANGED <<av, reap, kh, life, collected>>

\* The members go: one that still holds a joinable thread, a worker that some
\* listener started after the others were collected, is std::terminate().
Destroyed == /\ life = "workers" /\ teardown = {}
             /\ life' = IF current = 0 /\ retired = {} THEN "gone" ELSE "terminated"
             /\ UNCHANGED <<av, reap, phase, kh, teardown, collected>>

Ended == life \in {"gone", "terminated"}

\* Nothing is left to do.
Rest == Ended /\ UNCHANGED vars

Next == \/ \E x \in Loops : Look(x) \/ Elapse(x) \/ EndCycle(x) \/ Leave(x)
        \/ \E t \in Threads : \/ Start(t) \/ Stop(t) \/ StartHeartbeat(t)
                              \/ \E w \in Workers : Join(t, w)
        \/ StopHeartbeat \/ Collect \/ Destroyed \/ Rest
        \/ \E w \in Workers : JoinLast(w)

Spec == Init /\ [][Next]_vars

\* Threads run on and cycles end: requests time out, listeners return.  No
\* interval need ever elapse, and nobody need call anything.
LiveSpec == /\ Spec
            /\ \A x \in Loops : WF_vars(Look(x)) /\ WF_vars(EndCycle(x))
                                /\ WF_vars(Leave(x))
            /\ \A t \in Threads, w \in Workers : WF_vars(Join(t, w))
            /\ \A w \in Workers : WF_vars(JoinLast(w))
            /\ WF_vars(Collect) /\ WF_vars(Destroyed)
----------------------------------------------------------------------------
TypeOK == /\ epoch \in Nat /\ current \in {0} \cup Workers
          /\ retired \subseteq Workers /\ teardown \subseteq Workers
          /\ reap \in [Threads -> SUBSET Workers]
          /\ phase \in [Loops -> Phases]
          /\ kh_thread \in Beats \cup {NoBeat} /\ victim \in Beats \cup {NoBeat}
          /\ kh_stop \in BOOLEAN /\ kh_shutdown \in BOOLEAN
          /\ life \in {"alive", "beat", "workers", "gone", "terminated"}
          /\ collected \in Nat

\* A joinable current worker is the definition of running: it will begin
\* another cycle, so that a start which finds one has nothing to do.
RunningIsAlive ==
  current # 0 => /\ epoch = current
                 /\ phase[current] \in {"born", "parked", "woken", "cycle"}

Live(x) == phase[x] \notin {"unborn", "joined"}

\* Every worker is held for a join in one place: a thread object that went
\* away joinable would terminate the process, one joined twice throws.
HeldOnce ==
  /\ {w \in Workers : Live(w)} =
       ({current} \ {0}) \cup retired \cup teardown \cup UNION {reap[t] : t \in Threads}
  /\ current \notin retired \cup teardown /\ retired \cap teardown = {}
  /\ \A t \in Threads :
       /\ reap[t] \cap ({current} \cup retired \cup teardown) = {}
       /\ \A u \in Threads \ {t} : reap[t] \cap reap[u] = {}

\* No start or stop waits for work that another thread has yet to do, nor a
\* worker for itself: what a Reaper joins has left its loop.
JoinsAreBounded ==
  \A t \in Threads : \A w \in reap[t] : phase[w] = "done"

\* ~Client() leaves no thread behind but a worker that some listener started once
\* the destructor had collected them, and that one takes the process with it: all
\* that ran before, retired or reaped by each other, and every heartbeat, are joined.
OnlyLateOnesOutlive ==
  /\ life = "gone" => \A x \in Loops : ~Live(x)
  /\ life = "terminated" => \A x \in Loops : Live(x) => x \in Workers /\ x > collected

\* client.hpp, ~Client(): the thread cannot outlive the Client (no detached threads,
\* no std::terminate).
NeverTerminates == life # "terminated"

Switch == INSTANCE CycleSwitch
            WITH Ids <- Workers, on <- current,
                 past <- {w \in Workers : phase[w] # "unborn"},
                 cycling <- {w \in Workers : phase[w] = "cycle"}
\* What start and stop promise: no cycle begins after a stop, whoever calls it.
Refines == Switch!Spec

\* A retired loop ends without waiting out its interval.
StopIsHeeded ==
  \A x \in Loops : (Live(x) /\ Over(x)) ~> ~Live(x) \/ phase[x] = "done" \/ ~Running

\* Destruction waits for cycles under way and for nothing else.
DestructorReturns == life # "alive" ~> Ended
=============================================================================
