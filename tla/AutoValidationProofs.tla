------------------------ MODULE AutoValidationProofs ------------------------
(***************************************************************************)
(* What AutoValidation guarantees for any threads and any number of        *)
(* epochs, whatever the listeners call and whichever thread runs first.    *)
(***************************************************************************)
EXTENDS AutoValidation, TLAPS

Reaped(w) == \E t \in Threads : w \in reap[t]

\* HeldOnce, worker by worker.
Held ==
  \A w \in Workers :
    /\ Live(w) <=> w = current \/ w \in retired \/ w \in teardown \/ Reaped(w)
    /\ ~(w = current /\ w \in retired) /\ ~(w = current /\ w \in teardown)
    /\ ~(w \in retired /\ w \in teardown)
    /\ Reaped(w) => w # current /\ w \notin retired /\ w \notin teardown
    /\ \A t, u \in Threads : w \in reap[t] /\ w \in reap[u] => t = u

\* Whoever has been spawned has an epoch that was reached, and whoever is not
\* current one that is past: it will not begin another cycle.
Epochs == \A w \in Workers : /\ phase[w] # "unborn" => w <= epoch
                             /\ Live(w) /\ w # current => w < epoch

\* A thread joins in the course of a call.
Calling == \A t \in Threads :
             reap[t] # {} => IF t \in Hosts THEN life = "alive"
                             ELSE phase[t] = "cycle"

\* The inductive invariant.
Control == TypeOK /\ RunningIsAlive /\ Held /\ JoinsAreBounded /\ Epochs /\ Calling

\* Until ~Client() collects the workers it holds none.
Unclaimed == life \in {"alive", "beat"} => teardown = {}

----------------------------------------------------------------------------
\* notify_all() wakes threads and does nothing else to them.
LEMMA NotifiedOnlyWakes ==
  ASSUME TypeOK, NEW S, NEW x \in Loops
  PROVE  /\ Notified(S) \in [Loops -> Phases]
         /\ Notified(S)[x] # phase[x] => phase[x] = "parked" /\ Notified(S)[x] = "woken"
BY DEF TypeOK, Notified, Phases

\* The handle of no thread is not that of one.
LEMMA ZeroIsNobody == 0 \notin Loops
BY ThreadsAssumption DEF Loops, Workers

\* Held says what HeldOnce says.
LEMMA HeldIsOnce == TypeOK /\ Held => HeldOnce
<1> SUFFICES ASSUME TypeOK, Held PROVE HeldOnce
  OBVIOUS
<1> DEFINE R == UNION {reap[t] : t \in Threads}
<1>1. \A w : w \in R <=> \E t \in Threads : w \in reap[t]
  OBVIOUS
<1>2. R \subseteq Workers
  BY <1>1 DEF TypeOK
<1>3. 0 \notin Workers
  BY DEF Workers
<1>4. \A w : w \in ({current} \ {0}) \cup retired \cup teardown \cup R
             <=> w \in Workers /\ Live(w)
  BY <1>1, <1>2, <1>3 DEF Held, Reaped, TypeOK
<1>5. current \notin retired \cup teardown /\ retired \cap teardown = {}
  BY <1>3 DEF Held, TypeOK
<1>6. ASSUME NEW t \in Threads
      PROVE  /\ reap[t] \cap ({current} \cup retired \cup teardown) = {}
             /\ \A u \in Threads \ {t} : reap[t] \cap reap[u] = {}
  BY <1>3 DEF Held, Reaped, TypeOK
<1> QED
  BY <1>4, <1>5, <1>6 DEF HeldOnce

\* At first there is no thread.
LEMMA ControlInit == Init => Control
<1> SUFFICES ASSUME Init PROVE Control
  OBVIOUS
<1>1. TypeOK
  BY DEF Init, TypeOK, Phases
<1>2. \A w \in Workers : ~Live(w) /\ w # 0
  BY DEF Init, Live, Workers, Loops
<1> QED
  BY <1>1, <1>2 DEF Init, Control, RunningIsAlive, Held, Reaped, JoinsAreBounded,
                    Epochs, Calling, Loops

\* A loop that goes on, or ends, disturbs nobody's handle.
LEMMA LoopMoves ==
  ASSUME Control, NEW x \in Loops, NEW p \in Phases \ {"unborn", "joined"},
         Live(x), phase[x] # "done", phase[x] = "cycle" => reap[x] = {},
         x = current => p \in {"born", "parked", "woken", "cycle"},
         phase' = [phase EXCEPT ![x] = p], UNCHANGED <<av, reap, kh, dtor>>
  PROVE  Control'
<1>1. /\ epoch' = epoch /\ current' = current /\ retired' = retired
      /\ reap' = reap /\ life' = life /\ teardown' = teardown /\ collected' = collected
      /\ UNCHANGED <<kh_thread, kh_stop, kh_shutdown, victim>>
  BY DEF av, kh, dtor
<1>2. /\ phase' \in [Loops -> Phases]
      /\ \A y \in Loops : phase'[y] = IF y = x THEN p ELSE phase[y]
  BY DEF Control, TypeOK
<1>3. Workers \subseteq Loops
  BY DEF Loops
<1>4. \A y \in Loops : /\ Live(y)' <=> Live(y)
                       /\ phase'[y] = "unborn" <=> phase[y] = "unborn"
  BY <1>2 DEF Live
<1>5. TypeOK'
  BY <1>1, <1>2 DEF Control, TypeOK
<1>6. RunningIsAlive'
  BY <1>1, <1>2, <1>3 DEF Control, TypeOK, RunningIsAlive
<1>7. Held'
  BY <1>1, <1>3, <1>4 DEF Control, Held, Reaped
<1>8. JoinsAreBounded'
  BY <1>1, <1>2, <1>3 DEF Control, TypeOK, JoinsAreBounded
<1>9. Epochs'
  BY <1>1, <1>3, <1>4 DEF Control, Epochs
<1>10. Calling'
  BY <1>1, <1>2 DEF Control, Calling, Threads
<1> QED
  BY <1>5, <1>6, <1>7, <1>8, <1>9, <1>10 DEF Control

\* Each step of a loop is such a move.
LEMMA LoopControl ==
  ASSUME Control, NEW x \in Loops, Look(x) \/ Elapse(x) \/ EndCycle(x) \/ Leave(x)
  PROVE  Control'
<1>1. x = current => /\ epoch = x /\ ~Over(x)
                     /\ phase[x] \in {"born", "parked", "woken", "cycle"}
  BY ZeroIsNobody DEF Control, RunningIsAlive, Over, TypeOK
<1>2. CASE Look(x) \/ EndCycle(x)
  BY <1>1, <1>2, LoopMoves DEF Look, EndCycle, LoopTop, Live, Phases
<1>3. CASE Elapse(x)
  BY <1>1, <1>3, LoopMoves DEF Elapse, Live, Phases
<1>4. CASE Leave(x)
  BY <1>1, <1>4, LoopMoves DEF Leave, Live, Phases
<1> QED
  BY <1>2, <1>3, <1>4

\* What the exited workers of a call are: they go from retired to its Reaper.
LEMMA ExitedMove ==
  ASSUME Control, NEW t \in Threads, CanCall(t), NEW S, TakeExited(t, S)
  PROVE  /\ Exited \subseteq retired /\ retired' = S \ Exited
         /\ reap' \in [Threads -> SUBSET Workers]
         /\ \A u \in Threads : reap'[u] = IF u = t THEN Exited ELSE reap[u]
         /\ \A w \in Workers : Reaped(w)' <=> w \in Exited \/ Reaped(w)
         /\ \A w \in Exited : phase[w] = "done"
         /\ reap[t] = {}
<1>1. Exited \subseteq retired /\ Exited \subseteq Workers /\ reap[t] = {}
  BY DEF Exited, Control, TypeOK, CanCall
<1>2. /\ reap' \in [Threads -> SUBSET Workers]
      /\ \A u \in Threads : reap'[u] = IF u = t THEN Exited ELSE reap[u]
      /\ retired' = S \ Exited
  BY <1>1 DEF TakeExited, Control, TypeOK
<1>3. \A w \in Workers : Reaped(w)' <=> w \in Exited \/ Reaped(w)
  BY <1>1, <1>2 DEF Reaped
<1> QED
  BY <1>1, <1>2, <1>3 DEF Exited

\* start: what has exited is reaped, and a new worker takes the next epoch.
LEMMA StartControl ==
  ASSUME Control, NEW t \in Threads, Start(t)
  PROVE  Control'
<1>1. CanCall(t) /\ TakeExited(t, retired)
  BY DEF Start
<1>2. /\ Exited \subseteq retired /\ retired' = retired \ Exited
      /\ reap' \in [Threads -> SUBSET Workers]
      /\ \A u \in Threads : reap'[u] = IF u = t THEN Exited ELSE reap[u]
      /\ \A w \in Workers : Reaped(w)' <=> w \in Exited \/ Reaped(w)
      /\ \A w \in Exited : phase[w] = "done"
      /\ reap[t] = {}
  BY <1>1, ExitedMove
<1>3. UNCHANGED <<kh_thread, kh_stop, kh_shutdown, victim, life, teardown, collected>>
  BY DEF Start, kh, dtor
<1>4. Workers \subseteq Loops /\ Workers \subseteq Nat \ {0}
  BY DEF Loops, Workers
<1>5. epoch \in Nat /\ current \in {0} \cup Workers /\ phase \in [Loops -> Phases]
  BY DEF Control, TypeOK
<1>6. CASE UNCHANGED <<epoch, current, phase>>
  <2>1. TypeOK'
    BY <1>2, <1>3, <1>6 DEF Control, TypeOK
  <2>2. RunningIsAlive' /\ Epochs'
    BY <1>6 DEF Control, RunningIsAlive, Epochs, Live
  <2>3. Held'
    BY <1>2, <1>3, <1>4, <1>5, <1>6 DEF Control, Held, Reaped, Live
  <2>4. JoinsAreBounded'
    BY <1>2, <1>6 DEF Control, JoinsAreBounded
  <2>5. Calling'
    BY <1>1, <1>2, <1>3, <1>6 DEF Control, Calling, CanCall
  <2> QED
    BY <2>1, <2>2, <2>3, <2>4, <2>5 DEF Control
<1>7. CASE current = 0 /\ epoch < MaxEpoch /\ epoch' = epoch + 1
           /\ UNCHANGED <<current, phase>>
  <2>1. TypeOK'
    BY <1>2, <1>3, <1>7 DEF Control, TypeOK
  <2>2. RunningIsAlive'
    BY <1>7 DEF RunningIsAlive
  <2>3. Epochs'
    BY <1>4, <1>5, <1>7 DEF Control, Epochs, Live
  <2>4. Held'
    BY <1>2, <1>3, <1>4, <1>5, <1>7 DEF Control, Held, Reaped, Live
  <2>5. JoinsAreBounded'
    BY <1>2, <1>7 DEF Control, JoinsAreBounded
  <2>6. Calling'
    BY <1>1, <1>2, <1>3, <1>7 DEF Control, Calling, CanCall
  <2> QED
    BY <2>1, <2>2, <2>3, <2>4, <2>5, <2>6 DEF Control
<1>8. CASE current = 0 /\ epoch < MaxEpoch /\ epoch' = epoch + 1
           /\ current' = epoch + 1 /\ phase' = [phase EXCEPT ![epoch + 1] = "born"]
  <2> DEFINE n == epoch + 1
  <2>1. n \in Workers
    BY <1>5, <1>8, BoundAssumption DEF Workers
  <2>2. phase[n] = "unborn"
    BY <1>5, <2>1 DEF Control, Epochs
  <2>3. /\ phase' \in [Loops -> Phases]
        /\ \A x \in Loops : phase'[x] = IF x = n THEN "born" ELSE phase[x]
    BY <1>4, <1>5, <1>8, <2>1 DEF Phases
  <2>4. TypeOK'
    BY <1>2, <1>3, <1>5, <1>8, <2>1, <2>3 DEF Control, TypeOK
  <2>5. RunningIsAlive'
    BY <1>4, <1>8, <2>1, <2>3 DEF RunningIsAlive
  <2>6. Epochs'
    <3>1. \A w \in Workers : phase[w] # "unborn" => w <= epoch
      BY DEF Control, Epochs
    <3>2. \A w \in Workers : phase'[w] # "unborn" => w <= epoch'
      BY <1>4, <1>5, <1>8, <2>3, <3>1
    <3>3. \A w \in Workers : Live(w)' /\ w # current' => w < epoch'
      BY <1>4, <1>5, <1>8, <2>3, <3>1 DEF Live
    <3> QED
      BY <3>2, <3>3 DEF Epochs
  <2>7. n \notin retired /\ n \notin teardown /\ ~Reaped(n)
    BY <2>1, <2>2 DEF Control, Held, Live
  <2>8. Held'
    <3>1. \A w \in Workers : Live(w)' <=> w = n \/ Live(w)
      BY <1>4, <2>3 DEF Live
    <3> QED
      BY <1>2, <1>3, <1>4, <1>5, <1>8, <2>1, <2>7, <3>1 DEF Control, Held, Reaped
  <2>9. JoinsAreBounded'
    BY <1>2, <1>4, <2>2, <2>3 DEF Control, JoinsAreBounded, TypeOK
  <2>10. Calling'
    BY <1>1, <1>2, <1>3, <2>2, <2>3 DEF Control, Calling, CanCall, Threads
  <2> QED
    BY <2>4, <2>5, <2>6, <2>8, <2>9, <2>10 DEF Control
<1> QED
  BY <1>6, <1>7, <1>8 DEF Start, Spawn

\* stop: the current worker joins the retired ones, woken if it was waiting.
LEMMA StopControl ==
  ASSUME Control, NEW t \in Threads, Stop(t)
  PROVE  Control'
<1>1. CanCall(t)
  BY DEF Stop
<1>2. UNCHANGED <<kh_thread, kh_stop, kh_shutdown, victim, life, teardown, collected>>
  BY DEF Stop, kh, dtor
<1>3. Workers \subseteq Loops /\ Workers \subseteq Nat \ {0}
  BY DEF Loops, Workers
<1>4. epoch \in Nat /\ current \in {0} \cup Workers /\ phase \in [Loops -> Phases]
  BY DEF Control, TypeOK
<1>5. CASE UNCHANGED <<epoch, current, phase>> /\ TakeExited(t, retired)
  <2>1. /\ Exited \subseteq retired /\ retired' = retired \ Exited
        /\ reap' \in [Threads -> SUBSET Workers]
        /\ \A u \in Threads : reap'[u] = IF u = t THEN Exited ELSE reap[u]
        /\ \A w \in Workers : Reaped(w)' <=> w \in Exited \/ Reaped(w)
        /\ \A w \in Exited : phase[w] = "done"
        /\ reap[t] = {}
    BY <1>1, <1>5, ExitedMove
  <2>2. TypeOK'
    BY <1>2, <1>5, <2>1 DEF Control, TypeOK
  <2>3. RunningIsAlive' /\ Epochs'
    BY <1>5 DEF Control, RunningIsAlive, Epochs, Live
  <2>4. Held'
    BY <1>2, <1>3, <1>4, <1>5, <2>1, ZenonT(40) DEF Control, Held, Reaped, Live
  <2>5. JoinsAreBounded'
    BY <1>5, <2>1 DEF Control, JoinsAreBounded
  <2>6. Calling'
    BY <1>1, <1>2, <1>5, <2>1 DEF Control, Calling, CanCall
  <2> QED
    BY <2>2, <2>3, <2>4, <2>5, <2>6 DEF Control
<1>6. CASE current # 0 /\ Retire /\ TakeExited(t, retired \cup {current})
  <2>1. /\ Exited \subseteq retired /\ retired' = (retired \cup {current}) \ Exited
        /\ reap' \in [Threads -> SUBSET Workers]
        /\ \A u \in Threads : reap'[u] = IF u = t THEN Exited ELSE reap[u]
        /\ \A w \in Workers : Reaped(w)' <=> w \in Exited \/ Reaped(w)
        /\ \A w \in Exited : phase[w] = "done"
        /\ reap[t] = {}
    BY <1>1, <1>6, ExitedMove
  <2>2. epoch' = epoch + 1 /\ current' = 0 /\ phase' = Notified(Workers)
    BY <1>6 DEF Retire
  <2>3. /\ phase' \in [Loops -> Phases]
        /\ \A x \in Loops : phase'[x] # phase[x] =>
                              phase[x] = "parked" /\ phase'[x] = "woken"
    BY <2>2, NotifiedOnlyWakes, <1>4 DEF Control, Notified, Phases
  <2>4. current \notin Exited /\ current \in Workers
    BY <1>4, <1>6, <2>1 DEF Control, RunningIsAlive
  <2>5. \A w \in Workers : Live(w)' <=> Live(w)
    BY <1>3, <2>3 DEF Live
  <2>6. TypeOK'
    BY <1>2, <1>4, <2>1, <2>2, <2>3, <2>4 DEF Control, TypeOK
  <2>7. RunningIsAlive'
    BY <2>2 DEF RunningIsAlive
  <2>8. Epochs'
    <3>1. current = epoch
      BY <1>6 DEF Control, RunningIsAlive
    <3> QED
      BY <1>3, <1>4, <2>2, <2>3, <2>5, <3>1 DEF Control, Epochs
  <2>9. Held'
    <3>1. \A w \in Workers : w # current'
      BY <1>3, <2>2
    <3>2. \A w \in Workers : w \in retired' <=> (w \in retired \/ w = current) /\ w \notin Exited
      BY <2>1
    <3>3. \A w \in Exited : w \in Workers /\ w \in retired
      BY <2>1 DEF Control, TypeOK
    <3>4. \A w \in Workers : w \in teardown' <=> w \in teardown
      BY <1>2
    <3>5. ASSUME NEW w \in Workers
          PROVE  \A u, v \in Threads : w \in reap'[u] /\ w \in reap'[v] => u = v
      BY <2>1, <3>3 DEF Control, Held, Reaped
    <3> QED
      BY <2>1, <2>4, <2>5, <3>1, <3>2, <3>3, <3>4, <3>5 DEF Control, Held
  <2>10. JoinsAreBounded'
    BY <1>3, <2>1, <2>3 DEF Control, JoinsAreBounded, TypeOK
  <2>11. Calling'
    BY <1>1, <1>2, <2>1, <2>3 DEF Control, Calling, CanCall, Threads
  <2> QED
    BY <2>6, <2>7, <2>8, <2>9, <2>10, <2>11 DEF Control
<1> QED
  BY <1>5, <1>6 DEF Stop

\* A join takes a worker out of the one place that holds it.
LEMMA JoinControl ==
  ASSUME Control, NEW t \in Threads, NEW w \in Workers, Join(t, w)
  PROVE  Control'
<1>1. /\ epoch' = epoch /\ current' = current /\ retired' = retired
      /\ UNCHANGED <<kh_thread, kh_stop, kh_shutdown, victim, life, teardown, collected>>
  BY DEF Join, av, kh, dtor
<1>2. Workers \subseteq Loops /\ phase[w] = "done" /\ w \in reap[t]
  BY DEF Loops, Join
<1>3. /\ phase' \in [Loops -> Phases]
      /\ \A x \in Loops : phase'[x] = IF x = w THEN "joined" ELSE phase[x]
  BY <1>2 DEF Join, Control, TypeOK, Phases
<1>4. /\ reap' \in [Threads -> SUBSET Workers]
      /\ \A u \in Threads : reap'[u] = IF u = t THEN reap[t] \ {w} ELSE reap[u]
  BY DEF Join, Control, TypeOK
<1>5. /\ w # current /\ w \notin retired /\ w \notin teardown
      /\ \A u \in Threads : w \in reap[u] => u = t
  BY <1>2 DEF Control, Held, Reaped
<1>6. \A x \in Workers : Reaped(x)' <=> x # w /\ Reaped(x)
  BY <1>4, <1>5 DEF Reaped
<1>7. \A x \in Workers : Live(x)' <=> x # w /\ Live(x)
  BY <1>2, <1>3 DEF Live
<1>8. TypeOK'
  BY <1>1, <1>3, <1>4 DEF Control, TypeOK
<1>9. RunningIsAlive'
  BY <1>1, <1>2, <1>3, <1>5 DEF Control, TypeOK, RunningIsAlive
<1>10. Held'
  BY <1>1, <1>4, <1>5, <1>6, <1>7 DEF Control, Held
<1>11. JoinsAreBounded'
  BY <1>2, <1>3, <1>4, <1>5 DEF Control, JoinsAreBounded, TypeOK
<1>12. Epochs'
  BY <1>1, <1>2, <1>3, <1>7 DEF Control, Epochs
<1>13. Calling'
  BY <1>1, <1>2, <1>3, <1>4 DEF Control, Calling, Threads
<1> QED
  BY <1>8, <1>9, <1>10, <1>11, <1>12, <1>13 DEF Control

\* The heartbeat's own steps: no worker's handle moves, and no worker does more
\* than wake.
LEMMA BeatMoves ==
  ASSUME Control, TypeOK', UNCHANGED <<av, reap, teardown>>,
         \A w \in Workers : phase'[w] = phase[w],
         \A b \in Beats : phase[b] = "cycle" => phase'[b] = "cycle",
         life' = life \/ \A h \in Hosts : reap[h] = {}
  PROVE  Control'
<1>1. /\ epoch' = epoch /\ current' = current /\ retired' = retired
      /\ reap' = reap /\ teardown' = teardown
  BY DEF av
<1>2. \A w \in Workers : Live(w)' <=> Live(w)
  BY DEF Live
<1>3. RunningIsAlive'
  BY <1>1 DEF Control, TypeOK, RunningIsAlive
<1>4. Held'
  BY <1>1, <1>2 DEF Control, Held, Reaped
<1>5. JoinsAreBounded' /\ Epochs'
  BY <1>1, <1>2 DEF Control, TypeOK, JoinsAreBounded, Epochs
<1>6. Calling'
  BY <1>1 DEF Control, Calling, Threads, Loops
<1> QED
  BY <1>3, <1>4, <1>5, <1>6 DEF Control

\* start_heartbeat_() and stop_heartbeat_().
LEMMA HeartbeatControl ==
  ASSUME Control, (\E t \in Threads : StartHeartbeat(t)) \/ StopHeartbeat
  PROVE  Control'
<1>1. CASE \E t \in Threads : StartHeartbeat(t)
  <2>1. PICK b \in Beats : /\ phase[b] = "unborn" /\ kh_thread' = b
                           /\ phase' = [phase EXCEPT ![b] = "born"]
    BY <1>1 DEF StartHeartbeat
  <2>2. /\ UNCHANGED <<av, reap, kh_shutdown, victim, life, teardown, collected>>
        /\ kh_stop' = FALSE
    BY <1>1 DEF StartHeartbeat, dtor
  <2>3. /\ phase' \in [Loops -> Phases]
        /\ \A x \in Loops : phase'[x] = IF x = b THEN "born" ELSE phase[x]
    BY <2>1 DEF Control, TypeOK, Phases, Loops
  <2>4. b \notin Workers
    BY ThreadsAssumption DEF Workers
  <2>5. TypeOK'
    BY <2>1, <2>2, <2>3 DEF Control, TypeOK, av
  <2> QED
    BY <2>1, <2>2, <2>3, <2>4, <2>5, BeatMoves DEF Loops
<1>2. CASE StopHeartbeat
  <2>1. /\ UNCHANGED <<av, reap, teardown>> /\ phase' = Notified(Beats)
        /\ \A h \in Hosts : reap[h] = {}
    BY <1>2 DEF StopHeartbeat
  <2>2. \A w \in Workers : w \notin Beats
    BY ThreadsAssumption DEF Workers
  <2>3. /\ \A w \in Workers : phase'[w] = phase[w]
        /\ \A b \in Beats : phase[b] = "cycle" => phase'[b] = "cycle"
    BY <2>1, <2>2 DEF Notified, Loops
  <2>4. phase' \in [Loops -> Phases]
    BY <2>1 DEF Notified, Control, TypeOK, Phases
  <2>5. TypeOK'
    BY <1>2, <2>1, <2>4 DEF Control, TypeOK, StopHeartbeat, av
  <2> QED
    BY <2>1, <2>3, <2>5, BeatMoves
<1> QED
  BY <1>1, <1>2

\* ~Client() takes every handle there is.
LEMMA CollectControl ==
  ASSUME Control, Unclaimed, Collect
  PROVE  Control'
<1>1. /\ epoch' = epoch + 1 /\ current' = 0 /\ retired' = {} /\ reap' = reap
      /\ collected' = epoch + 1
      /\ teardown' = retired \cup ({current} \ {0}) /\ teardown = {}
      /\ life = "beat" /\ life' = "workers"
      /\ UNCHANGED <<kh_thread, kh_stop, kh_shutdown>> /\ victim' = NoBeat
  BY DEF Collect, Unclaimed
<1>2. Workers \subseteq Loops /\ Workers \subseteq Nat \ {0} /\ victim \notin Workers
  BY ThreadsAssumption DEF Loops, Workers, Control, TypeOK
<1>3. /\ phase' \in [Loops -> Phases]
      /\ \A x \in Loops : phase'[x] # phase[x] =>
             \/ phase[x] = "parked" /\ phase'[x] = "woken"
             \/ x = victim /\ phase[x] = "done"
  BY NotifiedOnlyWakes, ThreadsAssumption DEF Collect, Control, TypeOK, Phases
<1>4. \A w \in Workers : /\ Live(w)' <=> Live(w)
                         /\ phase'[w] # phase[w] => phase[w] = "parked"
  BY <1>2, <1>3 DEF Live
<1>5. epoch \in Nat /\ current \in {0} \cup Workers /\ retired \subseteq Workers
  BY DEF Control, TypeOK
<1>6. TypeOK'
  BY <1>1, <1>3, <1>5 DEF Control, TypeOK
<1>7. RunningIsAlive'
  BY <1>1 DEF RunningIsAlive
<1>8. Held'
  BY <1>1, <1>2, <1>4, <1>5 DEF Control, Held, Reaped
<1>9. JoinsAreBounded'
  BY <1>1, <1>4 DEF Control, TypeOK, JoinsAreBounded
<1>10. Epochs'
  <2>1. current # 0 => current = epoch
    BY DEF Control, RunningIsAlive
  <2> QED
    BY <1>1, <1>2, <1>3, <1>4, <1>5, <2>1 DEF Control, Epochs, Live
<1>11. Calling'
  <2>1. \A x \in Loops : phase[x] = "cycle" => phase'[x] = "cycle"
    BY <1>3
  <2> QED
    BY <1>1, <2>1 DEF Control, Calling, Threads
<1> QED
  BY <1>6, <1>7, <1>8, <1>9, <1>10, <1>11 DEF Control

\* ~Client() joins a worker that has left its loop.
LEMMA JoinLastControl ==
  ASSUME Control, NEW w \in Workers, JoinLast(w)
  PROVE  Control'
<1>1. /\ epoch' = epoch /\ current' = current /\ retired' = retired
      /\ reap' = reap /\ teardown' = teardown \ {w} /\ life' = life
      /\ collected' = collected
      /\ UNCHANGED <<kh_thread, kh_stop, kh_shutdown, victim>>
  BY DEF JoinLast, av, kh
<1>2. Workers \subseteq Loops /\ phase[w] = "done" /\ w \in teardown
  BY DEF Loops, JoinLast
<1>3. /\ phase' \in [Loops -> Phases]
      /\ \A x \in Loops : phase'[x] = IF x = w THEN "joined" ELSE phase[x]
  BY <1>2 DEF JoinLast, Control, TypeOK, Phases
<1>4. w # current /\ w \notin retired /\ ~Reaped(w)
  BY <1>2 DEF Control, Held
<1>5. \A x \in Workers : Live(x)' <=> x # w /\ Live(x)
  BY <1>2, <1>3 DEF Live
<1>6. TypeOK'
  BY <1>1, <1>3 DEF Control, TypeOK
<1>7. RunningIsAlive'
  BY <1>1, <1>2, <1>3, <1>4 DEF Control, TypeOK, RunningIsAlive
<1>8. Held'
  BY <1>1, <1>4, <1>5 DEF Control, Held, Reaped
<1>9. JoinsAreBounded'
  BY <1>1, <1>2, <1>3, <1>4 DEF Control, TypeOK, JoinsAreBounded, Reaped
<1>10. Epochs'
  BY <1>1, <1>2, <1>3, <1>5 DEF Control, Epochs
<1>11. Calling'
  BY <1>1, <1>2, <1>3 DEF Control, Calling, Threads
<1> QED
  BY <1>6, <1>7, <1>8, <1>9, <1>10, <1>11 DEF Control

\* Every step preserves the invariant.
LEMMA ControlStep == Control /\ Unclaimed /\ [Next]_vars => (Control /\ Unclaimed)'
<1> SUFFICES ASSUME Control, Unclaimed, [Next]_vars
             PROVE  Control' /\ Unclaimed'
  OBVIOUS
<1>1. Control'
  <2>1. CASE \E x \in Loops : Look(x) \/ Elapse(x) \/ EndCycle(x) \/ Leave(x)
    BY <2>1, LoopControl
  <2>2. CASE \E t \in Threads : Start(t)
    BY <2>2, StartControl
  <2>3. CASE \E t \in Threads : Stop(t)
    BY <2>3, StopControl
  <2>4. CASE \E t \in Threads, w \in Workers : Join(t, w)
    BY <2>4, JoinControl
  <2>5. CASE (\E t \in Threads : StartHeartbeat(t)) \/ StopHeartbeat
    BY <2>5, HeartbeatControl
  <2>6. CASE Collect
    BY <2>6, CollectControl
  <2>7. CASE \E w \in Workers : JoinLast(w)
    BY <2>7, JoinLastControl
  <2>8. CASE Destroyed
    <3>1. /\ UNCHANGED <<epoch, current, retired, reap, phase, teardown, collected>>
          /\ UNCHANGED <<kh_thread, kh_stop, kh_shutdown, victim>>
          /\ life = "workers" /\ life' \in {"gone", "terminated"}
      BY <2>8 DEF Destroyed, av, kh
    <3> QED
      BY <3>1 DEF Control, TypeOK, RunningIsAlive, Held, Reaped, JoinsAreBounded,
                  Epochs, Live, Calling
  <2>9. CASE UNCHANGED vars
    BY <2>9 DEF vars, av, kh, dtor, Control, TypeOK, RunningIsAlive, Held, Reaped,
                JoinsAreBounded, Epochs, Live, Calling
  <2> QED
    BY <2>1, <2>2, <2>3, <2>4, <2>5, <2>6, <2>7, <2>8, <2>9 DEF Next, Rest
<1>2. Unclaimed'
  BY DEF Unclaimed, Next, vars, Look, LoopTop, Elapse, EndCycle, Leave, Start, Stop,
         Join, StartHeartbeat, StopHeartbeat, Collect, JoinLast, Destroyed, Rest, dtor
<1> QED
  BY <1>1, <1>2

\* So it holds throughout.
LEMMA ControlHolds == Spec => [](Control /\ Unclaimed)
<1>1. Init => Control /\ Unclaimed
  BY ControlInit DEF Init, Unclaimed
<1> QED
  BY <1>1, ControlStep, PTL DEF Spec

----------------------------------------------------------------------------
\* Every variable keeps its type.
THEOREM TypeCorrect == Spec => []TypeOK
<1>1. Control => TypeOK
  BY DEF Control
<1> QED
  BY <1>1, ControlHolds, PTL

\* A joinable current worker is a running one, whatever failed on the way:
\* startAutoValidation() never mistakes a dead thread for it.
THEOREM RunningAlive == Spec => []RunningIsAlive
<1>1. Control => RunningIsAlive
  BY DEF Control
<1> QED
  BY <1>1, ControlHolds, PTL

\* Every worker is held for a join in one place, from its spawn to its join.
THEOREM EachHeldOnce == Spec => []HeldOnce
<1>1. Control => HeldOnce
  BY HeldIsOnce DEF Control
<1> QED
  BY <1>1, ControlHolds, PTL

\* No call of start or stop waits for a worker that is still in its loop, and
\* so none for the worker it is made on.
THEOREM BoundedJoins == Spec => []JoinsAreBounded
<1>1. Control => JoinsAreBounded
  BY DEF Control
<1> QED
  BY <1>1, ControlHolds, PTL

----------------------------------------------------------------------------
(* The end of the Client.                                                   *)

\* The latch: once ~Client() has taken the heartbeat's thread there is no other.
Latched == /\ kh_shutdown <=> life # "alive"
           /\ \A b \in Beats : Live(b) => b = kh_thread \/ b = victim
           /\ life # "alive" => kh_thread = NoBeat
           /\ life # "beat" => victim = NoBeat

\* Once ~Client() has collected the workers it holds those up to that epoch and none
\* else, unless one of them had reaped another; a handle outside is a later one's.
Collected ==
  life \notin {"alive", "beat"} =>
    /\ collected <= epoch
    /\ current # 0 => current > collected
    /\ \A w \in retired : w > collected
    /\ \A w \in Workers, t \in Threads : w \in reap[t] /\ w <= collected =>
                                            t \in Workers /\ t <= collected

\* It has ended once it held none, and in peace if nobody was handed a later one.
Emptied == /\ Ended => teardown = {}
           /\ life = "gone" => current = 0 /\ retired = {}

\* Steps that leave the heartbeat's variables and its threads' lives alone.
LEMMA LatchedStays ==
  ASSUME Latched, UNCHANGED <<kh, life>>, \A b \in Beats : Live(b)' => Live(b)
  PROVE  Latched'
BY DEF Latched, kh

\* No step starts a heartbeat behind the latch.
LEMMA LatchedStep == Control /\ Latched /\ [Next]_vars => Latched'
<1> SUFFICES ASSUME Control, Latched, [Next]_vars PROVE Latched'
  OBVIOUS
<1>1. /\ phase \in [Loops -> Phases] /\ Beats \subseteq Loops
      /\ Workers \subseteq Loops /\ Beats \cap Workers = {} /\ NoBeat \notin Beats
  BY ThreadsAssumption DEF Control, TypeOK, Loops, Workers
<1>2. CASE \E x \in Loops : Look(x) \/ Elapse(x) \/ EndCycle(x) \/ Leave(x)
  <2>1. UNCHANGED <<kh, life>> /\ \A b \in Beats : Live(b)' => Live(b)
    BY <1>1, <1>2 DEF Look, LoopTop, Elapse, EndCycle, Leave, dtor, Live
  <2> QED
    BY <2>1, LatchedStays
<1>3. CASE \E t \in Threads : Start(t) \/ Stop(t)
  <2>1. UNCHANGED <<kh, life>>
    BY <1>3 DEF Start, Stop, dtor
  <2>2. \A b \in Beats : epoch + 1 # b
    BY ThreadsAssumption DEF Control, TypeOK
  <2>3. \A b \in Beats : Live(b)' => Live(b)
    BY <1>1, <1>3, <2>2 DEF Start, Stop, Spawn, Retire, Notified, Live
  <2> QED
    BY <2>1, <2>3, LatchedStays
<1>4. CASE \/ \E t \in Threads, w \in Workers : Join(t, w)
           \/ \E w \in Workers : JoinLast(w)
  <2>1. UNCHANGED <<kh, life>> /\ \A b \in Beats : Live(b)' => Live(b)
    BY <1>1, <1>4 DEF Join, JoinLast, dtor, Live
  <2> QED
    BY <2>1, LatchedStays
<1>5. CASE \E t \in Threads : StartHeartbeat(t)
  BY <1>1, <1>5 DEF StartHeartbeat, Latched, Live, dtor
<1>6. CASE StopHeartbeat
  BY <1>1, <1>6 DEF StopHeartbeat, Latched, Live, Notified
<1>7. CASE Collect
  BY <1>1, <1>7 DEF Collect, Latched, Live, Notified
<1>8. CASE Destroyed \/ UNCHANGED vars
  BY <1>8 DEF Destroyed, vars, kh, dtor, Latched, Live
<1> QED
  BY <1>2, <1>3, <1>4, <1>5, <1>6, <1>7, <1>8 DEF Next, Rest

\* A handle that changes hands after the collection is that of a later worker.
LEMMA CollectedStep == Control /\ Latched /\ Collected /\ [Next]_vars => Collected'
<1> SUFFICES ASSUME Control, Latched, Collected, [Next]_vars PROVE Collected'
  OBVIOUS
<1>1. /\ Workers \subseteq Nat \ {0} /\ Workers \subseteq Threads /\ epoch \in Nat
      /\ collected \in Nat /\ current \in {0} \cup Workers /\ retired \subseteq Workers
      /\ reap \in [Threads -> SUBSET Workers]
  BY DEF Control, TypeOK, Workers, Threads, Loops
<1>2. CASE \E x \in Loops : Look(x) \/ Elapse(x) \/ EndCycle(x) \/ Leave(x)
  BY <1>2 DEF Look, LoopTop, Elapse, EndCycle, Leave, av, dtor, Collected
<1>3. ASSUME NEW t \in Threads, CanCall(t), NEW S, TakeExited(t, S), life' = life,
             collected' = collected, S \subseteq retired \cup ({current} \ {0}),
             epoch' \in {epoch, epoch + 1},
             current' \in {0, current} \/ current' = epoch + 1
      PROVE  Collected'
  <2> SUFFICES ASSUME life \notin {"alive", "beat"}
               PROVE  /\ collected <= epoch' /\ (current' # 0 => current' > collected)
                      /\ \A w \in retired' : w > collected
                      /\ \A w \in Workers, u \in Threads :
                           w \in reap'[u] /\ w <= collected => u \in Workers /\ u <= collected
    BY <1>3 DEF Collected
  <2>1. Exited \subseteq retired /\ retired' = S \ Exited
        /\ \A u \in Threads : reap'[u] = IF u = t THEN Exited ELSE reap[u]
    BY <1>3, ExitedMove
  <2>2. \A w \in retired : ~(w <= collected)
    BY <1>1 DEF Collected
  <2>3. \A w \in Workers, u \in Threads :
          w \in reap'[u] /\ w <= collected => u \in Workers /\ u <= collected
    BY <2>1, <2>2 DEF Collected
  <2>4. collected <= epoch' /\ (current' # 0 => current' > collected)
    BY <1>1, <1>3 DEF Collected
  <2>5. \A w \in retired' : w > collected
    BY <1>3, <2>1 DEF Collected
  <2> QED
    BY <2>3, <2>4, <2>5
<1>4. CASE \E t \in Threads : Start(t)
  <2>1. PICK t \in Threads : Start(t)
    BY <1>4
  <2> QED
    BY <1>3, <2>1 DEF Start, Spawn, dtor
<1>5. CASE \E t \in Threads : Stop(t)
  <2>1. PICK t \in Threads : Stop(t)
    BY <1>5
  <2>2. CASE current # 0 /\ Retire /\ TakeExited(t, retired \cup {current})
    BY <1>3, <2>1, <2>2 DEF Stop, Retire, dtor
  <2>3. CASE UNCHANGED <<epoch, current, phase>> /\ TakeExited(t, retired)
    BY <1>3, <2>1, <2>3 DEF Stop, dtor
  <2> QED
    BY <2>1, <2>2, <2>3 DEF Stop
<1>6. CASE \E t \in Threads, w \in Workers : Join(t, w)
  <2>1. /\ UNCHANGED <<epoch, current, retired, life, collected>>
        /\ \A u \in Threads : reap'[u] \subseteq reap[u]
    BY <1>1, <1>6 DEF Join, av, dtor
  <2> QED
    BY <2>1 DEF Collected
<1>7. CASE (\E t \in Threads : StartHeartbeat(t)) \/ StopHeartbeat
  BY <1>7 DEF StartHeartbeat, StopHeartbeat, av, dtor, Collected
<1>8. CASE Collect
  <2>1. /\ epoch' = epoch + 1 /\ collected' = epoch + 1 /\ current' = 0
        /\ retired' = {} /\ reap' = reap /\ life = "beat"
        /\ victim # NoBeat => phase[victim] = "done"
    BY <1>8 DEF Collect
  <2>2. ASSUME NEW w \in Workers, NEW t \in Threads, w \in reap[t]
        PROVE  t \in Workers /\ t <= epoch + 1
    <3>1. t \notin Hosts /\ phase[t] = "cycle"
      BY <2>1, <2>2 DEF Control, Calling
    <3>2. t \notin Beats
      BY <2>1, <3>1, ThreadsAssumption DEF Latched, Live, Loops
    <3>3. t \in Workers
      BY <3>1, <3>2 DEF Threads, Loops
    <3>4. t <= epoch
      BY <3>1, <3>3 DEF Control, Epochs
    <3> QED
      BY <1>1, <3>3, <3>4
  <2> QED
    BY <1>1, <2>1, <2>2 DEF Collected
<1>9. CASE (\E w \in Workers : JoinLast(w)) \/ Destroyed \/ UNCHANGED vars
  BY <1>9 DEF JoinLast, Destroyed, vars, av, dtor, Collected
<1> QED
  BY <1>2, <1>4, <1>5, <1>6, <1>7, <1>8, <1>9 DEF Next, Rest

\* When ~Client() has ended, a live worker that it does not hold is in the Reaper of
\* another, whose listener is in the call.
LEMMA HeldByAnother ==
  ASSUME Control, Latched, Emptied, Ended, NEW w \in Workers, Live(w),
         w # current, w \notin retired
  PROVE  \E t \in Workers : w \in reap[t] /\ phase[t] = "cycle"
<1>1. w \notin teardown
  BY DEF Emptied
<1>2. PICK t \in Threads : w \in reap[t]
  BY <1>1 DEF Control, Held, Reaped
<1>3. t \notin Hosts /\ phase[t] = "cycle"
  BY <1>2 DEF Control, Calling, Ended
<1>4. t \notin Beats
  BY <1>3, ThreadsAssumption DEF Latched, Ended, Live, Loops
<1> QED
  BY <1>2, <1>3, <1>4 DEF Threads, Loops

\* And then that one would have exited itself.
LEMMA EarlyAreJoined ==
  ASSUME Control, Latched, Collected, Emptied, Ended
  PROVE  \A x \in Loops : Live(x) => x \in Workers /\ x > collected
<1>1. \A b \in Beats : ~Live(b)
  BY ThreadsAssumption DEF Latched, Loops, Ended
<1>2. ASSUME NEW w \in Workers, Live(w), w <= collected
      PROVE  \E t \in Workers : /\ w \in reap[t] /\ phase[t] = "cycle"
                                 /\ t <= collected
  <2>1. w # current /\ w \notin retired
    BY <1>2, ZeroIsNobody DEF Collected, Ended, Control, TypeOK, Workers, Loops
  <2>2. PICK t \in Workers : w \in reap[t] /\ phase[t] = "cycle"
    BY <1>2, <2>1, HeldByAnother
  <2> QED
    BY <1>2, <2>2 DEF Collected, Ended, Threads, Loops
<1>3. \A w \in Workers : Live(w) => ~(w <= collected)
  <2> SUFFICES ASSUME NEW w \in Workers, Live(w), w <= collected PROVE FALSE
    OBVIOUS
  <2>1. PICK t \in Workers : w \in reap[t] /\ phase[t] = "cycle" /\ t <= collected
    BY <1>2
  <2>2. PICK u \in Workers : t \in reap[u]
    BY <1>2, <2>1 DEF Live
  <2>3. phase[t] = "done"
    BY <2>2 DEF Control, JoinsAreBounded, Threads, Loops
  <2> QED
    BY <2>1, <2>3
<1>4. \A w \in Workers : Live(w) => w > collected
  BY <1>3 DEF Control, TypeOK, Workers
<1> QED
  BY <1>1, <1>4 DEF Loops

\* A destructor that ends in peace leaves nobody.
LEMMA GoneIsEmpty ==
  ASSUME Control, Latched, Emptied, life = "gone"
  PROVE  \A x \in Loops : ~Live(x)
<1>1. \A b \in Beats : ~Live(b)
  BY ThreadsAssumption DEF Latched, Loops
<1>2. ASSUME NEW w \in Workers, Live(w)
      PROVE  \E t \in Workers : w \in reap[t] /\ phase[t] = "cycle"
  <2>1. w # current /\ w \notin retired
    BY ZeroIsNobody DEF Emptied, Loops
  <2> QED
    BY <1>2, <2>1, HeldByAnother DEF Ended
<1>3. \A w \in Workers : ~Live(w)
  <2> SUFFICES ASSUME NEW w \in Workers, Live(w) PROVE FALSE
    OBVIOUS
  <2>1. PICK t \in Workers : w \in reap[t] /\ phase[t] = "cycle"
    BY <1>2
  <2>2. PICK u \in Workers : t \in reap[u]
    BY <1>2, <2>1 DEF Live
  <2>3. phase[t] = "done"
    BY <2>2 DEF Control, JoinsAreBounded, Threads, Loops
  <2> QED
    BY <2>1, <2>3
<1> QED
  BY <1>1, <1>3 DEF Loops

\* What the end leaves.
LEMMA EmptiedStep == Control /\ Latched /\ Emptied /\ [Next]_vars => Emptied'
<1> SUFFICES ASSUME Control, Latched, Emptied, [Next]_vars PROVE Emptied'
  OBVIOUS
<1>1. CASE Destroyed
  BY <1>1 DEF Destroyed, Emptied, Ended, av
<1>2. CASE \E w \in Workers : JoinLast(w)
  BY <1>2 DEF JoinLast, Emptied, Ended, av
<1>3. CASE StopHeartbeat \/ Collect
  BY <1>3 DEF StopHeartbeat, Collect, Emptied, Ended
<1>4. CASE \/ \E x \in Loops : Look(x) \/ Elapse(x) \/ EndCycle(x) \/ Leave(x)
           \/ \E t \in Threads, w \in Workers : Join(t, w)
           \/ \E t \in Threads : StartHeartbeat(t)
           \/ UNCHANGED vars
  BY <1>4 DEF Look, LoopTop, Elapse, EndCycle, Leave, Join, StartHeartbeat, vars, av,
              dtor, Emptied, Ended
<1>5. CASE \E t \in Threads : Start(t) \/ Stop(t)
  <2>1. PICK t \in Threads : CanCall(t) /\ UNCHANGED dtor
    BY <1>5 DEF Start, Stop
  <2>2. life # "gone"
    BY <2>1, GoneIsEmpty DEF CanCall, Live, Threads
  <2> QED
    BY <2>1, <2>2 DEF dtor, Emptied, Ended
<1> QED
  BY <1>1, <1>2, <1>3, <1>4, <1>5 DEF Next, Rest

\* ~Client() joins each thread that runs when it collects the workers, whatever their
\* listeners call meanwhile; what it may leave is a worker that one of them started
\* after that, and then not in peace.
THEOREM OnlyLateThreadsOutlive == Spec => []OnlyLateOnesOutlive
<1>1. Init => Latched /\ Collected /\ Emptied
  BY DEF Init, Latched, Collected, Emptied, Ended, Live, Loops
<1>2. Control /\ Latched /\ Collected /\ Emptied => OnlyLateOnesOutlive
  BY GoneIsEmpty, EarlyAreJoined DEF OnlyLateOnesOutlive, Ended
<1> QED
  BY <1>1, <1>2, ControlHolds, LatchedStep, CollectedStep, EmptiedStep, PTL DEF Spec

----------------------------------------------------------------------------
\* AutoValidation implements CycleSwitch: a cycle begins only on the worker that
\* is current, so never once a stop has returned.
THEOREM Implements == Spec => Refines
<1> DEFINE past    == {w \in Workers : phase[w] # "unborn"}
           cycling == {w \in Workers : phase[w] = "cycle"}
<1>1. Init => Switch!Init
  BY DEF Init, Switch!Init, Workers, Loops
<1>2. Control /\ [Next]_vars => [Switch!Next]_(Switch!switchVars)
  <2> SUFFICES ASSUME Control, [Next]_vars
               PROVE  [Switch!Next]_(Switch!switchVars)
    OBVIOUS
  <2>1. /\ phase \in [Loops -> Phases] /\ epoch \in Nat /\ Workers \subseteq Loops
        /\ current \in {0} \cup Workers /\ 0 \notin Workers /\ Workers \subseteq Nat
        /\ Beats \cap Workers = {}
    BY ThreadsAssumption DEF Control, TypeOK, Loops, Workers
  <2> DEFINE Stutter == current' = current /\ past' = past /\ cycling' = cycling
  <2>2. ASSUME NEW x \in Loops, Look(x) \/ EndCycle(x) \/ Leave(x)
        PROVE  Switch!End \/ Stutter
    <3>1. current' = current
      BY <2>2 DEF Look, LoopTop, EndCycle, Leave, av
    <3>2. PICK p \in {"leaving", "parked", "done"} : phase' = [phase EXCEPT ![x] = p]
      BY <2>2 DEF Look, LoopTop, EndCycle, Leave
    <3>3. phase[x] # "unborn"
      BY <2>2 DEF Look, EndCycle, Leave
    <3>4. past' = past /\ cycling' = cycling \ {x}
      BY <2>1, <3>2, <3>3
    <3> QED
      BY <3>1, <3>4 DEF Switch!End
  <2>3. ASSUME NEW x \in Loops, Elapse(x)
        PROVE  Switch!Begin \/ Stutter
    <3>1. current' = current
      BY <2>3 DEF Elapse, av
    <3>2. CASE x \in Workers /\ ~Over(x)
      <4>1. x = current /\ x # 0
        BY <2>1, <2>3, <3>2 DEF Over, Elapse, Control, Epochs, Live
      <4>2. phase[x] = "parked" /\ phase' = [phase EXCEPT ![x] = "cycle"]
        BY <2>3, <3>2 DEF Elapse
      <4>3. past' = past /\ cycling' = cycling \cup {x} /\ x \notin cycling
        BY <2>1, <3>2, <4>2
      <4> QED
        BY <3>1, <4>1, <4>3 DEF Switch!Begin
    <3>3. CASE x \notin Workers \/ Over(x)
      <4>1. past' = past /\ cycling' = cycling
        BY <2>1, <2>3, <3>3 DEF Elapse
      <4> QED
        BY <3>1, <4>1
    <3> QED
      BY <3>2, <3>3
  <2>4. ASSUME NEW t \in Threads, Start(t)
        PROVE  Switch!TurnOn \/ Stutter
    <3>1. CASE UNCHANGED <<current, phase>>
      BY <3>1
    <3>2. CASE current = 0 /\ epoch < MaxEpoch /\ current' = epoch + 1
               /\ phase' = [phase EXCEPT ![epoch + 1] = "born"]
      <4>1. epoch + 1 \in Workers
        BY <2>1, <3>2, BoundAssumption DEF Workers
      <4>2. phase[epoch + 1] = "unborn"
        BY <2>1, <4>1 DEF Control, Epochs
      <4>3. epoch + 1 \notin past /\ past' = past \cup {epoch + 1}
        BY <2>1, <3>2, <4>1, <4>2
      <4>4. cycling' = cycling
        BY <2>1, <3>2, <4>1, <4>2
      <4> QED
        BY <3>2, <4>1, <4>3, <4>4 DEF Switch!TurnOn
    <3> QED
      BY <2>4, <3>1, <3>2 DEF Start, Spawn
  <2>5. ASSUME phase' = Notified(Workers), current' = 0
        PROVE  Switch!TurnOff \/ Stutter
    <3>1. past' = past /\ cycling' = cycling
      BY <2>1, <2>5 DEF Notified
    <3> QED
      BY <2>5, <3>1 DEF Switch!TurnOff
  <2>6. ASSUME NEW t \in Threads, Stop(t)
        PROVE  Switch!TurnOff \/ Stutter
    <3>1. CASE UNCHANGED <<epoch, current, phase>>
      BY <3>1
    <3>2. CASE Retire
      BY <2>5, <3>2 DEF Retire
    <3> QED
      BY <2>6, <3>1, <3>2 DEF Stop
  <2>7. ASSUME NEW w \in Workers, phase[w] = "done", current' = current,
               phase' = [phase EXCEPT ![w] = "joined"]
        PROVE  Stutter
    BY <2>1, <2>7
  <2>8. CASE (\E t \in Threads : StartHeartbeat(t)) \/ StopHeartbeat
    <3>1. \A w \in Workers : phase'[w] = phase[w]
      BY <2>1, <2>8 DEF StartHeartbeat, StopHeartbeat, Notified
    <3>2. current' = current
      BY <2>8 DEF StartHeartbeat, StopHeartbeat, av
    <3> QED
      BY <3>1, <3>2 DEF Switch!switchVars
  <2>9. CASE Collect
    <3> victim \notin Workers
      BY <2>1, ThreadsAssumption DEF Control, TypeOK
    <3>1. \A w \in Workers : phase'[w] = Notified(Workers)[w]
      BY <2>1, <2>9 DEF Collect
    <3>2. past' = past /\ cycling' = cycling
      BY <2>1, <3>1 DEF Notified
    <3> QED
      BY <2>9, <3>2 DEF Collect, Switch!Next, Switch!TurnOff, Switch!switchVars
  <2>10. CASE Destroyed \/ UNCHANGED vars
    BY <2>10 DEF Destroyed, vars, av, Switch!switchVars
  <2>11. CASE \/ \E t \in Threads, w \in Workers : Join(t, w)
              \/ \E w \in Workers : JoinLast(w)
    BY <2>7, <2>11 DEF Join, JoinLast, av, Switch!switchVars
  <2> QED
    BY <2>2, <2>3, <2>4, <2>6, <2>8, <2>9, <2>10, <2>11
    DEF Next, Rest, Switch!Next, Switch!switchVars
<1> QED
  BY <1>1, <1>2, ControlHolds, PTL DEF Spec, Refines, Switch!Spec
=============================================================================
