------------------------ MODULE UnrealSubsystemProofs ------------------------
(***************************************************************************)
(* What the Unreal adapter guarantees for any number of calls, Configure() *)
(* calls and attempts, and for any statuses.                               *)
(***************************************************************************)
EXTENDS UnrealSubsystem, TLAPS

\* TypeOK in two: what is counted and placed, and what is true or false.
Places ==
  /\ client \in 0 .. made /\ made \in 0 .. MaxClients
  /\ busy = "Configure" => made < MaxClients
  /\ kind \in [Calls -> Kinds \cup {"none"}] /\ of \in [Users -> 0 .. MaxClients]
  /\ pc \in [Users -> {"idle", "parked", "task", "request", "wait", "sleep", "answered",
                       "posted", "over"}]
  /\ attempt \in [Users -> 0 .. MaxAttempts]
  /\ fired \in [Calls -> 0 .. 1]
  /\ game \in Seq(Calls)

Flags ==
  /\ weak \in BOOLEAN /\ busy \in {"no", "Configure", "Deinitialize"}
  /\ cut \subseteq Calls /\ dangling \subseteq Users
  /\ event \in [Users -> BOOLEAN] /\ wire \in [Users -> Wires \cup {Pending}]

\* The lambdas queued for the game thread are of calls that were posted, each once.
Queued == /\ \A i \in 1 .. Len(game) : pc[game[i]] = "posted"
          /\ \A i, j \in 1 .. Len(game) : game[i] = game[j] => i = j

\* A call was made if and only if it has left "idle"; a delegate fires for a call
\* that is over; who sleeps has an attempt left; the heartbeat is never in a call's
\* stages.
Stages == /\ \A c \in Calls : /\ kind[c] = "none" <=> pc[c] = "idle"
                              /\ fired[c] > 0 => pc[c] = "over"
          /\ \A u \in Users : pc[u] = "sleep" => attempt[u] < MaxAttempts
          /\ pc[Beat] \in {"idle", "parked", "request", "wait", "sleep"}

Control == Places /\ Queued /\ Stages

\* A task holds the pointer of the Client that is there, or Deinitialize() cut it off;
\* while the game thread is inside ~Client() only such tasks are at work; and the
\* heartbeat is the present Client's.
Pointers == /\ \A c \in Calls : Working(c) => c \in cut \/ (busy = "no" /\ of[c] = client)
            /\ pc[Beat] # "idle" => of[Beat] = client
            /\ NoDanglingClient

\* The calls and the heartbeat are the users.
LEMMA UsersAre == Users = Calls \cup {Beat} /\ Beat \notin Calls /\ Beat \in Users
BY UnrealAssumption DEF Users, Calls, Beat

\* The two halves are the type.
LEMMA Halves == Places /\ Flags => TypeOK
<1> SUFFICES ASSUME Places, Flags PROVE TypeOK
  OBVIOUS
<1>1. \A i \in 1 .. Len(game) : game[i] \in Calls
  BY DEF Places
<1> QED BY <1>1, Zenon DEF Places, Flags, TypeOK

----------------------------------------------------------------------------
\* A subsystem before its first Configure(): no Client, no call.
LEMMA PlacesInit == Init => Control /\ Pointers
<1> SUFFICES ASSUME Init PROVE Control /\ Pointers
  OBVIOUS
<1>1. 0 \in 0 .. MaxClients /\ 0 \in 0 .. MaxAttempts /\ 0 \in 0 .. 1 /\ 0 \in 0 .. 0
  BY UnrealAssumption, RequestAssumption
<1>2. Places
  BY <1>1 DEF Init, Places
<1>3. Queued /\ Stages
  BY UsersAre DEF Init, Queued, Stages
<1>4. Pointers
  BY UsersAre, Zenon DEF Init, Pointers, Working, NoDanglingClient
<1> QED BY <1>2, <1>3, <1>4 DEF Control

\* No request is under way.
LEMMA FlagsInit == Init => Flags
BY DEF Init, Flags

\* No step leaves a flag that is neither true nor false.
LEMMA FlagsStep == Flags /\ [Next]_vars => Flags'
<1> SUFFICES ASSUME Flags, [Next]_vars PROVE Flags'
  OBVIOUS
<1>1. ASSUME UNCHANGED <<event, wire>>, weak' = FALSE \/ UNCHANGED weak,
             busy' \in {"no", "Configure", "Deinitialize"},
             cut' \subseteq Calls,
             (\E u \in Users : Uses(u)) \/ UNCHANGED dangling
      PROVE  Flags'
  BY <1>1, Zenon DEF Flags, Uses
<1>2. CASE Configure \/ Deinitialize \/ Destroy \/ Collect \/ Fire
  <2>1. UNCHANGED <<event, wire, dangling>> /\ (weak' = FALSE \/ UNCHANGED weak)
    BY <1>2 DEF Configure, Deinitialize, Destroy, Collect, Fire, perUser, object
  <2>2. busy' \in {"no", "Configure", "Deinitialize"} /\ cut' \subseteq Calls
    BY <1>2 DEF Configure, Deinitialize, Destroy, Collect, Fire, object, Flags
  <2> QED BY <1>1, <2>1, <2>2
<1>3. ASSUME NEW u \in Users,
             Run(u) \/ Send(u) \/ Wake(u) \/ Post(u) \/ Beacon
             \/ (u \in Calls /\ \E k \in Kinds : Begin(u, k))
      PROVE  Flags'
  <2>1. UNCHANGED <<event, wire, weak, busy, cut>>
    BY <1>3 DEF Run, Send, Wake, Post, Beacon, Begin, object
  <2>2. (\E v \in Users : Uses(v)) \/ UNCHANGED dangling
    BY <1>3, UsersAre DEF Run, Send, Wake, Post, Beacon, Begin
  <2>3. busy' \in {"no", "Configure", "Deinitialize"} /\ cut' \subseteq Calls
    BY <2>1 DEF Flags
  <2> QED BY <1>1, <2>1, <2>2, <2>3
<1>4. ASSUME NEW u \in Users, Complete(u)
      PROVE  Flags'
  <2>1. event' \in [Users -> BOOLEAN]
    BY <1>4 DEF Complete, Flags
  <2>2. wire' \in [Users -> Wires \cup {Pending}]
    <3>1. PICK w \in Wires : wire' = [wire EXCEPT ![u] = w]
      BY <1>4 DEF Complete
    <3> QED BY <3>1 DEF Flags
  <2> QED BY <2>1, <2>2, <1>4, Zenon DEF Complete, Flags, object
<1>5. ASSUME NEW u \in Users, Return(u)
      PROVE  Flags'
  <2>1. event' \in [Users -> BOOLEAN] /\ wire' \in [Users -> Wires \cup {Pending}]
    BY <1>5 DEF Return, Flags
  <2>2. UNCHANGED object /\ Uses(u)
    BY <1>5 DEF Return
  <2> QED BY <2>1, <2>2, Zenon DEF Flags, Uses, object
<1>6. CASE UNCHANGED vars
  BY <1>1, <1>6 DEF vars, perUser, object, Flags
<1> QED
  BY <1>2, <1>3, <1>4, <1>5, <1>6, UsersAre DEF Next, Task

----------------------------------------------------------------------------
\* retry_decide() asks for another attempt only where one is left.
LEMMA DelayNeedsAttempt ==
  ASSUME NEW r, NEW n \in Nat, DelayAfter(r, n) # NoValue
  PROVE  n < MaxAttempts
BY RequestAssumption DEF DelayAfter, Decide

\* One user goes from one place to another.
LEMMA Others ==
  ASSUME Places, NEW u \in Users, NEW l, Goes(u, l)
  PROVE  pc'[u] = l /\ \A d \in Users : d # u => pc'[d] = pc[d]
BY DEF Places, Goes

\* If it is not a posted one, the queue of the game thread stays as it is.
LEMMA Moves ==
  ASSUME Control, NEW u \in Users, NEW l, Goes(u, l), pc[u] # "posted",
         UNCHANGED game
  PROVE  Queued'
<1>1. \A i \in 1 .. Len(game) : game[i] \in Calls
  BY DEF Control, Places
<1> QED BY <1>1, Others, UsersAre DEF Control, Queued

\* The delegate of a call that is not over has not fired.
LEMMA NotFired ==
  ASSUME Places, Stages, NEW c \in Calls, pc[c] # "over"
  PROVE  fired[c] = 0
<1>1. fired[c] \in 0 .. 1
  BY DEF Places
<1>2. ~(fired[c] > 0)
  BY DEF Stages
<1> QED BY <1>1, <1>2

\* A step of a task or of the heartbeat that leaves the queue and the calls as they
\* are, and takes one user to a stage of its own.
LEMMA OneUser ==
  ASSUME Control, NEW u \in Users, NEW l, Goes(u, l),
         UNCHANGED <<client, made, busy, kind, game, fired>>,
         of' \in [Users -> 0 .. MaxClients],
         attempt' \in [Users -> 0 .. MaxAttempts],
         \A d \in Users : d # u => attempt'[d] = attempt[d],
         pc[u] \notin {"posted", "over"},
         u \in Calls => pc[u] # "idle",
         l \in {"request", "wait", "sleep"} \cup
               (IF u = Beat THEN {"idle", "parked"} ELSE {"answered"}),
         l = "sleep" => attempt'[u] < MaxAttempts
  PROVE  Control'
<1>0. Places /\ Queued /\ Stages
  BY DEF Control
<1>1. pc'[u] = l /\ \A d \in Users : d # u => pc'[d] = pc[d]
  BY <1>0, Others
<1>2. Places'
  BY <1>0 DEF Places, Goes
<1>3. Queued'
  BY Moves
<1>4. \A c \in Calls : /\ kind'[c] = "none" <=> pc'[c] = "idle"
                       /\ fired'[c] > 0 => pc'[c] = "over"
  BY <1>0, <1>1, UsersAre DEF Stages
<1>5. \A d \in Users : pc'[d] = "sleep" => attempt'[d] < MaxAttempts
  BY <1>0, <1>1 DEF Stages
<1>6. pc'[Beat] \in {"idle", "parked", "request", "wait", "sleep"}
  BY <1>0, <1>1, UsersAre DEF Stages
<1> QED BY <1>2, <1>3, <1>4, <1>5, <1>6 DEF Control, Stages

\* No step of the game thread, of a task, of the heartbeat or of the engine queues a
\* call twice, fires a delegate again, or makes more attempts than there are.
LEMMA ControlStep == Control /\ Flags /\ [Next]_vars => Control'
<1> SUFFICES ASSUME Control, Flags, [Next]_vars PROVE Control'
  OBVIOUS
<1> USE UnrealAssumption, RequestAssumption
<1>0. Places /\ Queued /\ Stages
  BY DEF Control
<1>1. CASE Configure \/ Deinitialize \/ Collect
  <2>1. UNCHANGED <<client, made, kind, of, pc, attempt, game, fired>>
    BY <1>1 DEF Configure, Deinitialize, Collect, perUser
  <2>2. busy' = "Configure" => made' < MaxClients
    BY <1>1, <1>0 DEF Configure, Deinitialize, Collect, Places
  <2> QED
    BY <1>0, <2>1, <2>2 DEF Control, Places, Queued, Stages
<1>9. CASE Destroy
  <2>1. /\ Goes(Beat, "idle") /\ busy' = "no" /\ pc[Beat] \in {"idle", "parked"}
        /\ UNCHANGED <<kind, of, attempt, game, fired>>
    BY <1>9 DEF Destroy
  <2>2. client' \in 0 .. made' /\ made' \in 0 .. MaxClients
    BY <1>9, <1>0 DEF Destroy, Places
  <2>3. pc'[Beat] = "idle" /\ \A d \in Users : d # Beat => pc'[d] = pc[d]
    BY <1>0, <2>1, Others, UsersAre
  <2>4. Places'
    BY <1>0, <2>1, <2>2 DEF Places, Goes
  <2>5. Queued'
    BY <2>1, Moves, UsersAre
  <2>6. Stages'
    BY <1>0, <2>1, <2>3, UsersAre DEF Stages
  <2> QED BY <2>4, <2>5, <2>6 DEF Control
<1>2. ASSUME NEW c \in Calls, NEW k \in Kinds, Begin(c, k)
      PROVE  Control'
  <2>1. PICK l \in {"over", "task"} : Goes(c, l) /\ (l = "over" <=> client = 0)
    BY <1>2 DEF Begin
  <2>2. /\ pc[c] = "idle" /\ kind' = [kind EXCEPT ![c] = k]
        /\ of' = [of EXCEPT ![c] = client]
        /\ fired' = IF client = 0 THEN [fired EXCEPT ![c] = @ + 1] ELSE fired
        /\ UNCHANGED <<client, made, busy, attempt, game>>
    BY <1>2 DEF Begin, object
  <2>3. fired[c] = 0
    BY <1>0, <2>2, NotFired
  <2>4. Places'
    <3>1. of' \in [Users -> 0 .. MaxClients]
      BY <1>0, <2>2, UsersAre DEF Places
    <3>2. fired' \in [Calls -> 0 .. 1]
      BY <1>0, <2>2, <2>3 DEF Places
    <3>3. pc' \in [Users -> {"idle", "parked", "task", "request", "wait", "sleep",
                            "answered", "posted", "over"}]
      BY <1>0, <2>1 DEF Places, Goes
    <3> QED BY <1>0, <2>2, <3>1, <3>2, <3>3 DEF Places
  <2>5. Stages'
    <3>1. c \in Users /\ c # Beat
      BY UsersAre
    <3>2. pc'[c] = l /\ \A d \in Users : d # c => pc'[d] = pc[d]
      BY <1>0, <2>1, <3>1, Others
    <3> QED BY <1>0, <2>1, <2>2, <2>3, <3>1, <3>2, UsersAre DEF Places, Stages, Kinds
  <2> QED BY <2>1, <2>2, <2>4, <2>5, Moves, UsersAre DEF Control
<1>3. ASSUME NEW u \in Users, Run(u) \/ Beacon
      PROVE  Control'
  <2>1. PICK v \in Users : /\ Goes(v, "request") /\ attempt' = [attempt EXCEPT ![v] = 1]
                           /\ pc[v] \in {"task", "parked"}
    BY <1>3, UsersAre DEF Run, Beacon
  <2>2. UNCHANGED <<client, made, busy, kind, of, game, fired>>
    BY <1>3 DEF Run, Beacon, object
  <2>3. /\ attempt' \in [Users -> 0 .. MaxAttempts] /\ of' \in [Users -> 0 .. MaxClients]
        /\ \A d \in Users : d # v => attempt'[d] = attempt[d]
    BY <1>0, <2>1, <2>2 DEF Places
  <2> QED BY <2>1, <2>2, <2>3, OneUser
<1>4. ASSUME NEW u \in Users, Send(u)
      PROVE  Control'
  <2>1. /\ Goes(u, "wait") /\ pc[u] = "request"
        /\ UNCHANGED <<client, made, busy, kind, of, attempt, game, fired>>
    BY <1>4 DEF Send, object
  <2>2. attempt' \in [Users -> 0 .. MaxAttempts] /\ of' \in [Users -> 0 .. MaxClients]
    BY <1>0, <2>1 DEF Places
  <2> QED BY <2>1, <2>2, OneUser
<1>5. ASSUME NEW u \in Users, Complete(u)
      PROVE  Control'
  <2>1. UNCHANGED <<client, made, busy, kind, of, pc, attempt, game, fired>>
    BY <1>5 DEF Complete, object
  <2> QED BY <1>0, <2>1 DEF Control, Places, Queued, Stages
<1>6. ASSUME NEW u \in Users, Return(u)
      PROVE  Control'
  <2>1. PICK l \in {"sleep"} \cup (IF u = Beat THEN {"parked"} ELSE {"answered"}) :
          Goes(u, l) /\ (l = "sleep" => DelayAfter(FHttp(wire[u]), attempt[u]) # NoValue)
    BY <1>6 DEF Return
  <2>2. /\ pc[u] = "wait"
        /\ UNCHANGED <<client, made, busy, kind, of, attempt, game, fired>>
    BY <1>6 DEF Return, object
  <2>3. l = "sleep" => attempt[u] < MaxAttempts
    BY <1>0, <2>1, DelayNeedsAttempt DEF Places
  <2>4. attempt' \in [Users -> 0 .. MaxAttempts] /\ of' \in [Users -> 0 .. MaxClients]
    BY <1>0, <2>2 DEF Places
  <2> QED BY <2>1, <2>2, <2>3, <2>4, OneUser
<1>7. ASSUME NEW u \in Users, Wake(u)
      PROVE  Control'
  <2>1. attempt[u] \in 0 .. MaxAttempts /\ attempt[u] + 1 \in 0 .. MaxAttempts
    BY <1>0, <1>7 DEF Wake, Stages, Places
  <2>2. /\ Goes(u, "request") /\ pc[u] = "sleep" /\ attempt' = [attempt EXCEPT ![u] = @ + 1]
        /\ UNCHANGED <<client, made, busy, kind, of, game, fired>>
    BY <1>7 DEF Wake, object
  <2>3. /\ attempt' \in [Users -> 0 .. MaxAttempts] /\ of' \in [Users -> 0 .. MaxClients]
        /\ \A d \in Users : d # u => attempt'[d] = attempt[d]
    BY <1>0, <2>1, <2>2 DEF Places
  <2> QED BY <2>2, <2>3, OneUser
<1>8. ASSUME NEW c \in Calls, Post(c)
      PROVE  Control'
  <2>1. /\ game' \in Seq(Calls) /\ Len(game') = Len(game) + 1
        /\ game'[Len(game) + 1] = c /\ \A i \in 1 .. Len(game) : game'[i] = game[i]
    BY <1>0, <1>8 DEF Post, Places
  <2>2. /\ pc[c] = "answered" /\ pc'[c] = "posted"
        /\ \A d \in Calls : d # c => pc'[d] = pc[d]
        /\ pc'[Beat] = "parked" \/ pc'[Beat] = pc[Beat]
        /\ pc' \in [Users -> {"idle", "parked", "task", "request", "wait", "sleep",
                             "answered", "posted", "over"}]
    BY <1>0, <1>8, UsersAre DEF Post, Goes, Places
  <2>3. \A i \in 1 .. Len(game) : game[i] \in Calls /\ game[i] # c
    BY <1>0, <2>2 DEF Places, Queued
  <2>4. Len(game) \in Nat /\ \A i \in 1 .. Len(game') : i \in 1 .. Len(game) \/ i = Len(game) + 1
    BY <1>0, <2>1 DEF Places
  <2>5. Queued'
    BY <1>0, <2>1, <2>2, <2>3, <2>4 DEF Queued
  <2>6. UNCHANGED <<client, made, busy, kind, attempt, fired>>
    BY <1>8 DEF Post, object
  <2>7. Stages'
    <3>1. \A d \in Users : pc'[d] = "sleep" => attempt'[d] < MaxAttempts
      BY <1>0, <2>2, <2>6, UsersAre DEF Stages
    <3>2. \A d \in Calls : /\ kind'[d] = "none" <=> pc'[d] = "idle"
                           /\ fired'[d] > 0 => pc'[d] = "over"
      BY <1>0, <2>2, <2>6 DEF Stages
    <3> QED BY <1>0, <2>2, <3>1, <3>2 DEF Stages
  <2>8. of' \in [Users -> 0 .. MaxClients]
    BY <1>0, <1>8 DEF Post, Places
  <2>9. Places'
    BY <1>0, <2>1, <2>2, <2>6, <2>8 DEF Places
  <2> QED BY <2>5, <2>7, <2>9 DEF Control
<1>10. ASSUME Fire
      PROVE  Control'
  <2>1. PICK c \in Calls : c = Head(game)
    BY <1>0, <1>10 DEF Fire, Places
  <2>2. /\ c = game[1] /\ pc[c] = "posted" /\ Len(game) \in Nat \ {0}
        /\ Len(game') = Len(game) - 1 /\ game' \in Seq(Calls)
        /\ \A i \in 1 .. Len(game') : game'[i] = game[i + 1]
    BY <1>0, <1>10, <2>1 DEF Fire, Places, Queued
  <2>3. \A i \in 1 .. Len(game') : game'[i] \in Calls /\ game'[i] # c
    BY <1>0, <2>2 DEF Queued
  <2>4. /\ Goes(c, "over") /\ UNCHANGED <<client, made, busy, kind, of, attempt>>
        /\ fired' = [fired EXCEPT ![c] = @ + 1] \/ fired' = fired
    BY <1>10, <2>1 DEF Fire, object
  <2>5. fired[c] = 0
    BY <1>0, <2>2, NotFired
  <2>6. c # Beat /\ pc'[c] = "over" /\ \A d \in Users : d # c => pc'[d] = pc[d]
    BY <1>0, <2>4, Others, UsersAre
  <2>7. Queued'
    BY <1>0, <2>2, <2>3, <2>6, UsersAre DEF Queued
  <2>8. Stages'
    BY <1>0, <2>2, <2>4, <2>5, <2>6, UsersAre DEF Stages, Places
  <2>9. Places'
    <3>1. fired' \in [Calls -> 0 .. 1]
      <4>1. fired \in [Calls -> 0 .. 1] /\ fired[c] + 1 \in 0 .. 1
        BY <1>0, <2>5 DEF Places
      <4> QED BY <2>4, <4>1
    <3> QED BY <1>0, <2>2, <2>4, <3>1, UsersAre DEF Places, Goes
  <2> QED BY <2>7, <2>8, <2>9 DEF Control
<1>11. CASE UNCHANGED vars
  BY <1>0, <1>11 DEF vars, perUser, object, Control, Places, Queued, Stages
<1>12. \A u \in Users : Post(u) => u \in Calls
  BY DEF Post
<1> QED
  BY <1>1, <1>2, <1>3, <1>4, <1>5, <1>6, <1>7, <1>8, <1>9, <1>10, <1>11, <1>12, UsersAre
  DEF Next, Task

\* Every variable keeps its type; fired is 0 or 1, so that no delegate fires twice.
THEOREM TypeCorrect == Spec => []TypeOK
<1>1. Control /\ Flags => TypeOK
  BY Halves DEF Control
<1> QED
  BY <1>1, PlacesInit, FlagsInit, ControlStep, FlagsStep, PTL DEF Spec

----------------------------------------------------------------------------
\* Configure() finds no task at work, a call that is not over has not fired;
\* Deinitialize() puts down those it finds; and ~Client() ends the heartbeat before
\* the Client goes.
LEMMA PointersStep == Control /\ Pointers /\ [Next]_vars => Pointers'
<1> SUFFICES ASSUME Control, Pointers, [Next]_vars PROVE Pointers'
  OBVIOUS
<1>0. Places /\ Stages
  BY DEF Control
<1> USE DEF Pointers, NoDanglingClient, Working
<1>1. CASE Configure
  <2>1. \A c \in Calls : ~Working(c)
    BY <1>0, <1>1 DEF Configure, Answered, Stages
  <2>2. UNCHANGED <<pc, of, client, cut, dangling>>
    BY <1>1 DEF Configure, perUser
  <2> QED BY <2>1, <2>2
<1>2. CASE Deinitialize
  <2>1. UNCHANGED <<pc, of, client, dangling>> /\ cut' = cut \cup {c \in Calls : Working(c)}
    BY <1>2 DEF Deinitialize, perUser
  <2> QED BY <2>1
<1>3. CASE Destroy
  <2>1. pc'[Beat] = "idle" /\ \A c \in Calls : pc'[c] = pc[c]
    BY <1>0, <1>3, Others, UsersAre DEF Destroy
  <2>2. busy # "no" /\ UNCHANGED <<cut, dangling>>
    BY <1>3 DEF Destroy
  <2> QED BY <2>1, <2>2
<1>4. ASSUME NEW c \in Calls, NEW k \in Kinds, Begin(c, k)
      PROVE  Pointers'
  <2>1. /\ of' = [of EXCEPT ![c] = client] /\ busy = "no"
        /\ UNCHANGED <<client, busy, cut, dangling>> /\ \E l : Goes(c, l)
    BY <1>4 DEF Begin, object
  <2>2. c \in Users /\ c # Beat /\ \A d \in Users : d # c => pc'[d] = pc[d]
    BY <1>0, <2>1, Others, UsersAre
  <2>3. of'[c] = client /\ \A d \in Users : d # c => of'[d] = of[d]
    BY <1>0, <2>1, <2>2 DEF Places
  <2> QED BY <2>1, <2>2, <2>3, UsersAre
<1>u. ASSUME NEW u \in Users, u \in Calls => Working(u), u = Beat => pc[u] # "idle",
             Uses(u) \/ dangling' = dangling, UNCHANGED cut
      PROVE  NoDanglingClient'
  <2>1. of[u] = client \/ u \in cut
    BY <1>u, UsersAre
  <2>2. dangling' \subseteq cut
    BY <1>u, <2>1, Zenon DEF Uses
  <2> QED BY <1>u, <2>2
<1>5. ASSUME NEW u \in Users,
             Run(u) \/ Send(u) \/ Complete(u) \/ Return(u) \/ Wake(u) \/ (u = Beat /\ Beacon)
      PROVE  Pointers'
  <2>1. /\ u \in Calls => Working(u)
        /\ u = Beat => pc[u] # "idle"
        /\ UNCHANGED <<of, client, busy, cut>>
    BY <1>5, UsersAre DEF Run, Send, Complete, Return, Wake, Beacon, object
  <2>2. Uses(u) \/ dangling' = dangling
    BY <1>5 DEF Run, Send, Complete, Return, Wake, Beacon
  <2>3. NoDanglingClient'
    BY <1>u, <2>1, <2>2
  <2>4. \A d \in Users : d # u => pc'[d] = pc[d]
    <3>1. (\E l : Goes(u, l)) \/ pc' = pc
      BY <1>5 DEF Run, Send, Complete, Return, Wake, Beacon
    <3> QED BY <1>0, <3>1, Others
  <2> QED BY <2>1, <2>3, <2>4, UsersAre
<1>6. ASSUME NEW c \in Calls, Post(c)
      PROVE  Pointers'
  <2>0. c \in Users /\ c # Beat
    BY UsersAre
  <2>1. pc[c] = "answered" /\ Uses(c) /\ UNCHANGED <<client, busy, cut>>
    BY <1>6 DEF Post, object
  <2>2. NoDanglingClient'
    BY <1>u, <2>0, <2>1
  <2>3. CASE Goes(c, "posted") /\ UNCHANGED of
    <3>1. pc'[c] = "posted" /\ \A d \in Users : d # c => pc'[d] = pc[d]
      BY <1>0, <2>0, <2>3, Others
    <3> QED BY <2>0, <2>1, <2>2, <2>3, <3>1, UsersAre
  <2>4. CASE /\ pc' = [pc EXCEPT ![c] = "posted", ![Beat] = "parked"]
             /\ of' = [of EXCEPT ![Beat] = client]
    <3>1. /\ pc'[c] = "posted" /\ \A d \in Users : d # c /\ d # Beat => pc'[d] = pc[d]
          /\ of'[Beat] = client /\ \A d \in Users : d # Beat => of'[d] = of[d]
      BY <1>0, <2>0, <2>4, UsersAre DEF Places
    <3> QED BY <2>0, <2>1, <2>2, <3>1, UsersAre
  <2> QED BY <1>6, <2>3, <2>4 DEF Post
<1>7. ASSUME Fire
      PROVE  Pointers'
  <2>1. PICK c \in Calls : c = Head(game)
    BY <1>0, <1>7 DEF Fire, Places
  <2>2. c \in Users /\ c # Beat /\ Goes(c, "over")
    BY <1>7, <2>1, UsersAre DEF Fire
  <2>3. pc'[c] = "over" /\ \A d \in Users : d # c => pc'[d] = pc[d]
    BY <1>0, <2>2, Others
  <2>4. UNCHANGED <<of, client, busy, cut, dangling>>
    BY <1>7 DEF Fire, object
  <2> QED BY <2>2, <2>3, <2>4, UsersAre
<1>8. CASE Collect \/ UNCHANGED vars
  <2>1. UNCHANGED <<pc, of, client, busy, cut, dangling>>
    BY <1>8 DEF Collect, vars, perUser, object
  <2> QED BY <2>1
<1>9. \A u \in Users : Post(u) => u \in Calls
  BY DEF Post
<1> QED
  BY <1>1, <1>2, <1>3, <1>4, <1>5, <1>6, <1>7, <1>8, <1>9, UsersAre DEF Next, Task

\* Whatever the engine, the server and the game do, nothing but a call that
\* Deinitialize() found at work ever uses a Client that is gone: the heartbeat never
\* does, nor a call across Configure(), if the game lets its delegates fire first.
THEOREM NoClientDangles == Spec => []NoDanglingClient
<1>1. Pointers => NoDanglingClient
  BY DEF Pointers
<1> QED
  BY <1>1, PlacesInit, FlagsInit, FlagsStep, ControlStep, PointersStep, PTL DEF Spec

----------------------------------------------------------------------------
\* The event is set exactly while the engine's result waits to be read, and only a
\* user that waits for it finds it set: a result is neither missed nor read twice.
NoLostWakeup ==
  \A u \in Users : /\ event[u] <=> wire[u] # Pending
                   /\ event[u] => pc[u] = "wait"

\* What the engine reports is never taken for no report.
LEMMA WiresDiffer == \A w \in Wires : w # Pending
<1>1. Lost # Pending
  BY DEF Lost, Pending
<1>2. ASSUME NEW n PROVE Answer(n, NoValue) # Pending
  BY DEF Answer, Pending
<1> QED BY <1>1, <1>2 DEF Wires

\* FHttpTransport::request() returns if and only if its request has completed: a
\* completion before the wait is not lost, and the event is clear for the next attempt.
THEOREM CompletionIsSeen == Spec => []NoLostWakeup
<1>1. Init => NoLostWakeup
  BY DEF Init, NoLostWakeup
<1>2. Control /\ Flags /\ NoLostWakeup /\ [Next]_vars => NoLostWakeup'
  <2> SUFFICES ASSUME Control, Flags, NoLostWakeup, [Next]_vars PROVE NoLostWakeup'
    OBVIOUS
  <2>0. Places
    BY DEF Control
  <2>1. ASSUME UNCHANGED <<event, wire>>,
               \A u \in Users : pc[u] = "wait" => pc'[u] = "wait"
        PROVE  NoLostWakeup'
    BY <2>1 DEF NoLostWakeup
  <2>2. CASE Configure \/ Deinitialize \/ Collect \/ UNCHANGED vars
    BY <2>1, <2>2 DEF Configure, Deinitialize, Collect, vars, perUser
  <2>3. CASE Fire
    <3>1. PICK c \in Calls : pc[c] = "posted" /\ Goes(c, "over")
      BY <2>3 DEF Control, Places, Queued, Fire
    <3> QED BY <2>0, <2>1, <2>3, <3>1, Others, UsersAre DEF Fire
  <2>4. ASSUME NEW u \in Users,
               Run(u) \/ Send(u) \/ Wake(u) \/ (u = Beat /\ (Beacon \/ Destroy))
               \/ (u \in Calls /\ \E k \in Kinds : Begin(u, k))
        PROVE  NoLostWakeup'
    <3>1. pc[u] # "wait" /\ UNCHANGED <<event, wire>> /\ \E l : Goes(u, l)
      BY <2>4 DEF Run, Send, Wake, Beacon, Destroy, Begin
    <3> QED BY <2>0, <2>1, <3>1, Others
  <2>5. ASSUME NEW u \in Users, Post(u)
        PROVE  NoLostWakeup'
    <3>1. UNCHANGED <<event, wire>> /\ pc[u] # "wait"
      BY <2>5 DEF Post
    <3>2. \A d \in Users : pc[d] = "wait" => pc'[d] = "wait"
      BY <2>0, <2>5, UsersAre DEF Post, Goes, Places
    <3> QED BY <2>1, <3>1, <3>2
  <2>6. ASSUME NEW u \in Users, Complete(u)
        PROVE  NoLostWakeup'
    <3>1. PICK w \in Wires : wire' = [wire EXCEPT ![u] = w]
      BY <2>6 DEF Complete
    <3>2. /\ wire'[u] # Pending /\ event'[u] = TRUE /\ pc'[u] = "wait"
          /\ \A d \in Users : d # u => /\ wire'[d] = wire[d] /\ event'[d] = event[d]
                                       /\ pc'[d] = pc[d]
      BY <2>6, <3>1, WiresDiffer DEF Complete, Flags
    <3> QED BY <3>2 DEF NoLostWakeup
  <2>7. ASSUME NEW u \in Users, Return(u)
        PROVE  NoLostWakeup'
    <3>1. /\ wire'[u] = Pending /\ ~event'[u]
          /\ \A d \in Users : d # u => wire'[d] = wire[d] /\ event'[d] = event[d]
      BY <2>7, SMT DEF Return, Flags
    <3>2. \A d \in Users : d # u => pc'[d] = pc[d]
      <4>1. \E l : Goes(u, l)
        BY <2>7 DEF Return
      <4> QED BY <2>0, <4>1, Others
    <3> QED BY <3>1, <3>2 DEF NoLostWakeup
  <2> QED BY <2>2, <2>3, <2>4, <2>5, <2>6, <2>7, UsersAre DEF Next, Task
<1> QED
  BY <1>1, <1>2, PlacesInit, FlagsInit, ControlStep, FlagsStep, PTL DEF Spec

-----------------------------------------------------------------------------
\* A digit is one of ten.
LEMMA DigitType ==
  ASSUME NEW c, IsDigit(c) PROVE DigitOf(c) \in 0 .. 9
<1>1. PICK i \in 1 .. 10 : Digits[i] = c
  BY DEF IsDigit
<1> DEFINE k == CHOOSE j \in 1 .. 10 : Digits[j] = c
<1>2. k \in 1 .. 10
  BY <1>1
<1> HIDE DEF k
<1>3. DigitOf(c) = k - 1
  BY DEF DigitOf, k
<1> QED BY <1>2, <1>3

\* parse_retry_after() adds each digit of a Retry-After header exactly, or refuses a
\* number that does not fit: nothing wraps, whatever the width of the integers.
THEOREM NoDigitWraps ==
  ASSUME NEW out \in 0 .. UintMax, NEW c, IsDigit(c)
  PROVE  AddDigit(out, c) = IF out * 10 + DigitOf(c) <= UintMax
                            THEN out * 10 + DigitOf(c) ELSE NoValue
<1> DEFINE d == DigitOf(c)
<1>1. d \in 0 .. 9 /\ UintMax \in Nat /\ out \in Nat /\ out # NoValue
  BY DigitType, RequestAssumption
<1> HIDE DEF d
<1>2. out > (UintMax - d) \div 10 <=> out * 10 + d > UintMax
  <2> DEFINE q == (UintMax - d) \div 10
  <2>1. q \in Int /\ 10 * q <= UintMax - d /\ UintMax - d < 10 * q + 10
    BY <1>1
  <2> HIDE DEF q
  <2>2. out > q <=> out * 10 + d > UintMax
    BY <1>1, <2>1
  <2> QED BY <2>2 DEF q
<1>3. ASSUME out * 10 + d <= UintMax PROVE (out * 10 + d) % (UintMax + 1) = out * 10 + d
  <2> DEFINE x == out * 10 + d
             m == UintMax + 1
  <2>1. x \in Nat /\ m \in Nat \ {0} /\ x < m
    BY <1>1, <1>3
  <2> HIDE DEF x, m
  <2>2. x % m = x
    BY <2>1
  <2> QED BY <2>2 DEF x, m
<1>4. AddDigit(out, c) = IF out > (UintMax - d) \div 10 THEN NoValue
                         ELSE (out * 10 + d) % (UintMax + 1)
  BY <1>1 DEF AddDigit, d
<1>5. out * 10 + d \in Int
  BY <1>1
<1>6. out * 10 + d <= UintMax \/ out * 10 + d > UintMax
  BY <1>1, <1>5
<1> QED BY <1>1, <1>2, <1>3, <1>4, <1>6 DEF d

----------------------------------------------------------------------------
(* The loops of the policy are folds. *)
Adding   == INSTANCE FoldProofs WITH Op <- LAMBDA p, x, e : AddDigit(x, e)
Numbering == INSTANCE FoldProofs WITH Op <- LAMBDA p, x, e : 10 * x + DigitOf(e)
Doubling == INSTANCE FoldProofs WITH Op <- LAMBDA p, x, e : 2 * x

\* The loop of parse_retry_after(): nothing yet, and one more character.
LEMMA Reading ==
  /\ FoldLeft(AddDigit, 0, <<>>) = 0
  /\ \A s \in Seq(STRING), c \in STRING :
       FoldLeft(AddDigit, 0, Append(s, c)) = AddDigit(FoldLeft(AddDigit, 0, s), c)
<1> DEFINE F(s) == Adding!Fold(0, 0, s)
<1>1. \A s : FoldLeft(AddDigit, 0, s) = F(s)
  BY DEF Adding!Fold, Adding!FoldLeft, FoldLeft, MapThenFoldSet,
         Adding!MapThenFoldSet, Max, Adding!Max
<1>2. F(<<>>) = 0
  BY Adding!FoldEmpty
<1>3. \A s \in Seq(STRING), c \in STRING : F(Append(s, c)) = AddDigit(F(s), c)
  BY Adding!FoldAppend
<1> HIDE DEF F
<1> QED BY <1>1, <1>2, <1>3

\* The number of no digits, and of one more.
LEMMA Counting ==
  /\ Number(<<>>) = 0
  /\ \A s \in Seq(STRING), c \in STRING : Number(Append(s, c)) = 10 * Number(s) + DigitOf(c)
<1> DEFINE F(s) == Numbering!Fold(0, 0, s)
<1>1. \A s : Number(s) = F(s)
  BY DEF Number, Numbering!Fold, Numbering!FoldLeft, FoldLeft, MapThenFoldSet,
         Numbering!MapThenFoldSet, Max, Numbering!Max
<1>2. F(<<>>) = 0
  BY Numbering!FoldEmpty
<1>3. \A s \in Seq(STRING), c \in STRING : F(Append(s, c)) = 10 * F(s) + DigitOf(c)
  BY Numbering!FoldAppend
<1> HIDE DEF F
<1> QED BY <1>1, <1>2, <1>3

\* A text and one more character.
LEMMA Longer ==
  ASSUME NEW S, NEW s \in Seq(S), NEW c \in S
  PROVE  /\ Append(s, c) \in Seq(S) /\ Len(Append(s, c)) = Len(s) + 1
         /\ Append(s, c)[Len(s) + 1] = c
         /\ Len(s) \in Nat /\ \A i \in 1 .. Len(s) : Append(s, c)[i] = s[i]
<1>1. Append(s, c) \in Seq(S) /\ Len(Append(s, c)) = Len(s) + 1 /\ Len(s) \in Nat
  OBVIOUS
<1>2. Append(s, c)[Len(s) + 1] = c
  OBVIOUS
<1>3. ASSUME NEW i \in 1 .. Len(s) PROVE Append(s, c)[i] = s[i]
  OBVIOUS
<1> QED BY <1>1, <1>2, <1>3

AllDigits(s) == \A i \in 1 .. Len(s) : IsDigit(s[i])

\* A number with one more digit, and what 64 bits make of a number.
More(n, c) == 10 * n + DigitOf(c)
Held(n)    == IF n <= UintMax THEN n ELSE NoValue

\* The loop goes on exactly as long as the number fits.
LEMMA OneMoreDigit ==
  ASSUME NEW n \in Nat, NEW c, IsDigit(c)
  PROVE  More(n, c) \in Nat /\ AddDigit(Held(n), c) = Held(More(n, c))
<1>1. PICK d \in 0 .. 9 : d = DigitOf(c)
  BY DigitType
<1>2. UintMax \in Nat /\ NoValue \notin Nat
  BY RequestAssumption
<1>3. CASE n <= UintMax
  <2>1. AddDigit(n, c) = IF n * 10 + d <= UintMax THEN n * 10 + d ELSE NoValue
    BY <1>1, <1>2, <1>3, NoDigitWraps
  <2>2. n * 10 + d = 10 * n + d
    OBVIOUS
  <2> QED BY <1>1, <1>3, <2>1, <2>2 DEF More, Held
<1>4. CASE n > UintMax
  <2>1. Held(n) = NoValue
    BY <1>2, <1>4 DEF Held
  <2>2. AddDigit(Held(n), c) = NoValue
    BY <2>1, Zenon DEF AddDigit
  <2>3. ~(10 * n + d <= UintMax)
    BY <1>2, <1>4
  <2> QED BY <1>1, <2>2, <2>3 DEF More, Held
<1> QED BY <1>2, <1>3, <1>4

\* Digits are a natural number, and the loop arrives at it unless it is too large.
LEMMA ReadsNumber ==
  \A s \in Seq(STRING) :
    /\ AllDigits(s) => Number(s) \in Nat
    /\ FoldLeft(AddDigit, 0, s) = IF AllDigits(s) THEN Held(Number(s)) ELSE NoValue
<1> DEFINE R(s) == FoldLeft(AddDigit, 0, s)
           U == {s \in Seq(STRING) :
                   /\ AllDigits(s) => Number(s) \in Nat
                   /\ R(s) = IF AllDigits(s) THEN Held(Number(s)) ELSE NoValue}
<1>0. R(<<>>) = 0 /\ \A s \in Seq(STRING), c \in STRING : R(Append(s, c)) = AddDigit(R(s), c)
  BY Reading
<1> HIDE DEF R
<1>1. <<>> \in U
  BY <1>0, Counting, RequestAssumption DEF AllDigits, Held
<1>2. ASSUME NEW s \in Seq(STRING), NEW c \in STRING, s \in U PROVE Append(s, c) \in U
  <2> DEFINE t == Append(s, c)
  <2>1. t \in Seq(STRING) /\ (AllDigits(t) <=> AllDigits(s) /\ IsDigit(c))
    <3>1. /\ t \in Seq(STRING) /\ Len(t) = Len(s) + 1 /\ t[Len(s) + 1] = c
          /\ Len(s) \in Nat /\ \A i \in 1 .. Len(s) : t[i] = s[i]
      BY Longer
    <3> HIDE DEF t
    <3>2. \A i \in 1 .. Len(t) : i \in 1 .. Len(s) \/ i = Len(s) + 1
      BY <3>1
    <3>3. Len(s) + 1 \in 1 .. Len(t) /\ \A i \in 1 .. Len(s) : i \in 1 .. Len(t)
      BY <3>1
    <3>4. AllDigits(t) => AllDigits(s) /\ IsDigit(c)
      BY <3>1, <3>3, Zenon DEF AllDigits
    <3>5. AllDigits(s) /\ IsDigit(c) => AllDigits(t)
      BY <3>1, <3>2, Zenon DEF AllDigits
    <3> QED BY <3>1, <3>4, <3>5
  <2>2. Number(t) = More(Number(s), c) /\ R(t) = AddDigit(R(s), c)
    BY <1>0, Counting DEF More
  <2> HIDE DEF t
  <2>3. CASE ~AllDigits(t)
    <3>1. R(s) = NoValue \/ ~IsDigit(c)
      BY <1>2, <2>1, <2>3
    <3>2. R(t) = NoValue
      BY <3>1, <2>2, Zenon DEF AddDigit
    <3> QED BY <2>1, <2>3, <3>2 DEF t
  <2>4. CASE AllDigits(t)
    <3>1. IsDigit(c) /\ Number(s) \in Nat /\ R(s) = Held(Number(s))
      BY <1>2, <2>1, <2>4
    <3>2. More(Number(s), c) \in Nat /\ AddDigit(R(s), c) = Held(More(Number(s), c))
      BY <3>1, OneMoreDigit, Zenon
    <3>3. Number(t) \in Nat /\ R(t) = Held(Number(t))
      BY <3>2, <2>2, Zenon
    <3> QED BY <2>1, <2>4, <3>3 DEF t
  <2> QED BY <2>3, <2>4 DEF t
<1> HIDE DEF U
<1>3. \A s \in Seq(STRING) : s \in U
  BY <1>1, <1>2, Adding!SeqInduct
<1> QED BY <1>3 DEF U, R

----------------------------------------------------------------------------
\* Positions have a first and a last.
LEMMA Ends ==
  ASSUME NEW n \in Nat, NEW D \in SUBSET (1 .. n), D # {}
  PROVE  /\ Min(D) \in D /\ \A d \in D : Min(D) <= d
         /\ Max(D) \in D /\ \A d \in D : d <= Max(D)
<1> DEFINE Lasts == {k \in Nat : \A E \in SUBSET (1 .. k) :
                       E # {} => \E x \in E : \A y \in E : x >= y}
<1>1. 0 \in Lasts
  <2>1. \A E \in SUBSET (1 .. 0) : E = {}
    OBVIOUS
  <2> QED BY <2>1
<1>2. ASSUME NEW k \in Nat, k \in Lasts PROVE k + 1 \in Lasts
  <2> SUFFICES ASSUME NEW E \in SUBSET (1 .. k + 1), E # {}
               PROVE  \E x \in E : \A y \in E : x >= y
    OBVIOUS
  <2>1. CASE k + 1 \in E
    BY <2>1
  <2>2. CASE k + 1 \notin E
    <3>1. E \in SUBSET (1 .. k)
      BY <2>2
    <3> QED BY <1>2, <3>1
  <2> QED BY <2>1, <2>2
<1> HIDE DEF Lasts
<1>3. \A k \in Nat : k \in Lasts
  BY <1>1, <1>2, Adding!NatInduct
<1>4. \E x \in D : \A y \in D : x >= y
  BY <1>3 DEF Lasts
<1>5. \E x \in D : \A y \in D : x <= y
  <2> DEFINE E == {n + 1 - d : d \in D}
  <2>1. E \in SUBSET (1 .. n) /\ E # {}
    <3>1. PICK d \in D : TRUE
      OBVIOUS
    <3>2. \A y \in D : y \in 1 .. n /\ n + 1 - y \in 1 .. n
      OBVIOUS
    <3>3. \A x \in E : x \in 1 .. n
      BY <3>2
    <3>4. n + 1 - d \in E
      BY <3>1
    <3> QED BY <3>3, <3>4
  <2>2. PICK x \in E : \A y \in E : x >= y
    BY <1>3, <2>1 DEF Lasts
  <2>3. PICK d \in D : x = n + 1 - d
    BY <2>2
  <2>4. \A y \in D : n + 1 - y \in E
    OBVIOUS
  <2> HIDE DEF E
  <2>5. \A y \in D : x >= n + 1 - y
    BY <2>2, <2>4
  <2>6. \A y \in D : y \in Nat
    OBVIOUS
  <2>7. \A y \in D : d <= y
    BY <2>3, <2>5, <2>6
  <2> QED BY <2>7
<1> QED BY <1>4, <1>5 DEF Min, Max

\* The two ends of a set are where they are seen to be.
LEMMA EndsAre ==
  ASSUME NEW D, NEW i \in Int, NEW j \in Int, i \in D, j \in D,
         \A d \in D : d \in Int /\ i <= d /\ d <= j
  PROVE  Min(D) = i /\ Max(D) = j
<1>1. \A x \in D : (\A y \in D : x <= y) => x = i
  OBVIOUS
<1>2. \A x \in D : (\A y \in D : x >= y) => x = j
  OBVIOUS
<1>3. (\A y \in D : i <= y) /\ (\A y \in D : j >= y)
  OBVIOUS
<1> QED BY <1>1, <1>2, <1>3 DEF Min, Max

\* The digits are ten characters.
LEMMA DigitsAre ==
  \A c : IsDigit(c) => c \in {"0", "1", "2", "3", "4", "5", "6", "7", "8", "9"}
<1>1. /\ Digits[1] = "0" /\ Digits[2] = "1" /\ Digits[3] = "2" /\ Digits[4] = "3"
      /\ Digits[5] = "4"
  BY DEF Digits
<1>2. /\ Digits[6] = "5" /\ Digits[7] = "6" /\ Digits[8] = "7" /\ Digits[9] = "8"
      /\ Digits[10] = "9"
  BY DEF Digits
<1>3. \A i \in 1 .. 10 : \/ i = 1 \/ i = 2 \/ i = 3 \/ i = 4 \/ i = 5
                        \/ i = 6 \/ i = 7 \/ i = 8 \/ i = 9 \/ i = 10
  OBVIOUS
<1> QED BY <1>1, <1>2, <1>3 DEF IsDigit

\* No digit is a blank.
LEMMA DigitsShow == \A c \in Blank : ~IsDigit(c)
BY DigitsAre DEF Blank

\* Digits between blanks are what is left when the blanks are off.
LEMMA SpanIsTrimmed ==
  ASSUME NEW h \in Seq(STRING), NEW i \in 1 .. Len(h), NEW j \in 1 .. Len(h),
         <<i, j>> \in Spans(h)
  PROVE  /\ Trimmed(h) = SubSeq(h, i, j) /\ Trimmed(h) # <<>>
         /\ AllDigits(Trimmed(h))
<1> DEFINE kept == {k \in 1 .. Len(h) : h[k] \notin Blank}
<1>1. /\ i <= j
      /\ \A k \in 1 .. Len(h) : IF k \in i .. j THEN IsDigit(h[k]) ELSE h[k] \in Blank
  BY DEF Spans
<1>2. i \in kept /\ j \in kept /\ \A k \in kept : k \in Int /\ i <= k /\ k <= j
  BY <1>1, DigitsShow
<1>3. kept # {} /\ Min(kept) = i /\ Max(kept) = j
  <2> HIDE DEF kept
  <2> QED BY <1>2, EndsAre
<1>4. Trimmed(h) = SubSeq(h, i, j)
  <2>1. Trimmed(h) = IF kept = {} THEN <<>> ELSE SubSeq(h, Min(kept), Max(kept))
    BY DEF Trimmed
  <2> HIDE DEF kept
  <2> QED BY <1>3, <2>1
<1>5. /\ SubSeq(h, i, j) \in Seq(STRING) /\ Len(SubSeq(h, i, j)) = j + 1 - i
      /\ \A k \in 1 .. j + 1 - i : SubSeq(h, i, j)[k] = h[i + k - 1]
  BY <1>1
<1>6. \A k \in 1 .. j + 1 - i : i + k - 1 \in 1 .. Len(h) /\ i + k - 1 \in i .. j
  BY <1>1
<1>7. AllDigits(SubSeq(h, i, j))
  BY <1>1, <1>5, <1>6 DEF AllDigits
<1>8. SubSeq(h, i, j) # <<>>
  BY <1>1, <1>5
<1> QED BY <1>4, <1>7, <1>8, Zenon

\* What is left when the blanks are off, if it is digits, is digits between blanks.
LEMMA TrimmedIsSpan ==
  ASSUME NEW h \in Seq(STRING), Trimmed(h) # <<>>, AllDigits(Trimmed(h))
  PROVE  Spans(h) # {}
<1> DEFINE kept == {k \in 1 .. Len(h) : h[k] \notin Blank}
           i == Min(kept)
           j == Max(kept)
<1>1. Trimmed(h) = IF kept = {} THEN <<>> ELSE SubSeq(h, i, j)
  BY DEF Trimmed
<1>2. kept # {} /\ Trimmed(h) = SubSeq(h, i, j)
  BY <1>1
<1>3. /\ i \in 1 .. Len(h) /\ j \in 1 .. Len(h) /\ i <= j
      /\ \A k \in kept : i <= k /\ k <= j
  <2>1. kept \in SUBSET (1 .. Len(h)) /\ Len(h) \in Nat
    OBVIOUS
  <2> HIDE DEF kept
  <2> QED BY <1>2, <2>1, Ends
<1>4. \A k \in 1 .. Len(h) : k \notin i .. j => h[k] \in Blank
  <2> TAKE k \in 1 .. Len(h)
  <2>1. h[k] \notin Blank => k \in kept
    OBVIOUS
  <2> HIDE DEF kept, i, j
  <2> QED BY <1>3, <2>1
<1> HIDE DEF i, j, kept
<1>5. \A k \in i .. j : IsDigit(h[k])
  <2> TAKE k \in i .. j
  <2>0. /\ SubSeq(h, i, j) \in Seq(STRING) /\ Len(SubSeq(h, i, j)) = j + 1 - i
        /\ \A n \in 1 .. j + 1 - i : SubSeq(h, i, j)[n] = h[i + n - 1]
    BY <1>3
  <2>1. k - i + 1 \in 1 .. Len(SubSeq(h, i, j)) /\ SubSeq(h, i, j)[k - i + 1] = h[k]
    BY <1>3, <2>0
  <2> QED BY <1>2, <2>1, Zenon DEF AllDigits
<1>6. <<i, j>> \in Spans(h)
  BY <1>3, <1>4, <1>5 DEF Spans
<1> QED BY <1>6

\* parse_retry_after() reads the number between the blanks, whatever header comes and
\* whatever the width of the integers.
THEOREM HeaderIsRead == RetryAfterIsExact
<1> SUFFICES ASSUME NEW h \in Headers
             PROVE  {ParseRetryAfter(h)} = IF Worth(h) = {} THEN {NoValue} ELSE Worth(h)
  BY DEF RetryAfterIsExact
<1>1. h \in Seq(STRING)
  BY InputAssumption
<1> DEFINE t == Trimmed(h)
<1>2. Trimmed(h) \in Seq(STRING)
  <2> DEFINE kept == {k \in 1 .. Len(h) : h[k] \notin Blank}
  <2>1. kept = {} \/ (Min(kept) \in 1 .. Len(h) /\ Max(kept) \in 1 .. Len(h))
    <3>1. kept \in SUBSET (1 .. Len(h)) /\ Len(h) \in Nat
      BY <1>1
    <3> HIDE DEF kept
    <3> QED BY <3>1, Ends
  <2>2. Trimmed(h) = IF kept = {} THEN <<>> ELSE SubSeq(h, Min(kept), Max(kept))
    BY DEF Trimmed
  <2>3. \A i, j \in 1 .. Len(h) : SubSeq(h, i, j) \in Seq(STRING)
    BY <1>1
  <2>4. <<>> \in Seq(STRING)
    OBVIOUS
  <2> HIDE DEF kept, t
  <2> QED BY <2>1, <2>2, <2>3, <2>4
<1>3. ParseRetryAfter(h) = IF t = <<>> \/ ~AllDigits(t) THEN NoValue ELSE Held(Number(t))
  <2>1. FoldLeft(AddDigit, 0, t) = IF AllDigits(t) THEN Held(Number(t)) ELSE NoValue
    BY <1>2, ReadsNumber
  <2>2. ParseRetryAfter(h) = IF t = <<>> THEN NoValue ELSE FoldLeft(AddDigit, 0, t)
    BY DEF ParseRetryAfter
  <2> HIDE DEF t
  <2> QED BY <2>1, <2>2
<1>4. CASE Spans(h) = {}
  <2>1. Worth(h) = {}
    BY <1>4 DEF Worth
  <2>2. t = <<>> \/ ~AllDigits(t)
    BY <1>1, <1>4, TrimmedIsSpan
  <2> HIDE DEF t
  <2> QED BY <1>3, <2>1, <2>2
<1>5. CASE Spans(h) # {}
  <2>1. \A ij \in Spans(h) : t = SubSeq(h, ij[1], ij[2]) /\ t # <<>> /\ AllDigits(t)
    <3> TAKE ij \in Spans(h)
    <3>1. ij[1] \in 1 .. Len(h) /\ ij[2] \in 1 .. Len(h) /\ ij = <<ij[1], ij[2]>>
      BY DEF Spans
    <3> QED BY <1>1, <3>1, SpanIsTrimmed
  <2>a. t # <<>> /\ AllDigits(t)
    BY <1>5, <2>1, Zenon
  <2> HIDE DEF t
  <2>2. ParseRetryAfter(h) = Held(Number(t))
    BY <1>3, <2>a, Zenon
  <2>3. Worth(h) = {n \in {Number(t)} : n <= UintMax}
    <3>1. {Number(SubSeq(h, ij[1], ij[2])) : ij \in Spans(h)} = {Number(t)}
      BY <1>5, <2>1, Zenon
    <3> QED BY <3>1 DEF Worth
  <2>4. CASE Number(t) <= UintMax
    BY <2>2, <2>3, <2>4, Zenon DEF Held
  <2>5. CASE ~(Number(t) <= UintMax)
    BY <2>2, <2>3, <2>5, Zenon DEF Held
  <2> QED BY <2>4, <2>5
<1> QED BY <1>4, <1>5

----------------------------------------------------------------------------
\* Doubling a number any number of times leaves a number.
LEMMA ShiftType ==
  ASSUME NEW x \in Nat, NEW n \in Nat PROVE Shifted(x, n) \in Nat
<1> DEFINE s == [i \in 1 .. n |-> i]
<1>1. Shifted(x, n) = Doubling!Fold(0, x, s)
  BY DEF Shifted, Doubling!Fold, Doubling!FoldLeft, FoldLeft, MapThenFoldSet,
         Doubling!MapThenFoldSet, Max, Doubling!Max
<1>2. s \in Seq(Nat)
  OBVIOUS
<1> HIDE DEF s
<1>3. (\A y \in Nat, e \in Nat : 2 * y \in Nat) =>
        \A q \in Seq(Nat) : Doubling!Fold(0, x, q) \in Nat
  BY Doubling!FoldType
<1> QED BY <1>1, <1>2, <1>3

\* retry_decide() waits when an attempt is left and the status is a passing one, never
\* above the ceiling, and as long as a 429 asks for: the product does not wrap.
LEMMA DelayIs ==
  ASSUME NEW status \in Int, NEW n \in Nat, NEW told \in Nat \cup {NoValue}
  PROVE  /\ Decide(status, n, told) = NoValue <=> n >= MaxAttempts \/ ~Retryable(status)
         /\ Decide(status, n, told) # NoValue => Decide(status, n, told) \in 0 .. MaxSleepMs
         /\ Decide(status, n, told) # NoValue /\ status = 429 /\ told # NoValue =>
              Decide(status, n, told) = Lesser(MaxSleepMs, told * SecMs)
<1>0. /\ MaxSleepMs \in Nat /\ SecMs \in Nat \ {0} /\ CapMs \in Nat /\ BaseMs \in Nat
      /\ NoValue \notin Nat
  BY RequestAssumption
<1>1. Backoff(n) \in Nat
  <2>1. n # 0 => Lesser(20, n - 1) \in Nat
    BY DEF Lesser
  <2>2. n # 0 => Shifted(BaseMs, Lesser(20, n - 1)) \in Nat
    BY <1>0, <2>1, ShiftType
  <2> QED BY <1>0, <2>2 DEF Backoff, Lesser
<1> DEFINE heeds == status = 429 /\ told # NoValue
           raw == IF ~heeds THEN Backoff(n)
                  ELSE IF told > MaxSleepMs \div SecMs THEN MaxSleepMs
                  ELSE told * SecMs
<1>2. Decide(status, n, told) = IF n >= MaxAttempts \/ ~Retryable(status) THEN NoValue
                                ELSE Lesser(raw, MaxSleepMs)
  BY DEF Decide
<1>3. heeds => Lesser(raw, MaxSleepMs) = Lesser(MaxSleepMs, told * SecMs) /\ raw \in Nat
  <2> SUFFICES ASSUME heeds
               PROVE  Lesser(raw, MaxSleepMs) = Lesser(MaxSleepMs, told * SecMs) /\ raw \in Nat
    OBVIOUS
  <2> PICK m \in Nat : m = told
    OBVIOUS
  <2> DEFINE q == MaxSleepMs \div SecMs
  <2>1. q \in Nat /\ SecMs * q <= MaxSleepMs /\ MaxSleepMs < SecMs * q + SecMs
    BY <1>0
  <2> HIDE DEF q
  <2>2. CASE m > q
    <3> PICK k \in Nat : m = q + 1 + k
      BY <2>1, <2>2
    <3>1. m * SecMs = SecMs * q + SecMs + k * SecMs /\ k * SecMs \in Nat /\ SecMs * q \in Nat
      BY <1>0, <2>1
    <3>2. m * SecMs > MaxSleepMs
      BY <1>0, <2>1, <3>1
    <3>3. raw = MaxSleepMs
      BY <2>2 DEF q
    <3> HIDE DEF raw
    <3> QED BY <1>0, <3>2, <3>3 DEF Lesser
  <2>3. CASE ~(m > q)
    <3> PICK k \in Nat : q = m + k
      BY <2>1, <2>3
    <3>1. SecMs * q = m * SecMs + k * SecMs /\ k * SecMs \in Nat /\ m * SecMs \in Nat
      BY <1>0, <2>1
    <3>2. m * SecMs <= MaxSleepMs
      BY <1>0, <2>1, <3>1
    <3>3. raw = m * SecMs
      BY <2>3 DEF q
    <3> HIDE DEF raw
    <3> QED BY <1>0, <3>1, <3>2, <3>3 DEF Lesser
  <2> QED BY <2>2, <2>3
<1>4. ~heeds => raw \in Nat
  BY <1>1
<1> HIDE DEF raw
<1>5. Lesser(raw, MaxSleepMs) \in 0 .. MaxSleepMs
  BY <1>0, <1>3, <1>4 DEF Lesser
<1>6. Lesser(raw, MaxSleepMs) # NoValue
  BY <1>0, <1>5
<1> QED BY <1>2, <1>3, <1>5, <1>6

\* What is read of a header is a number or nothing.
LEMMA ReadType ==
  ASSUME NEW h \in Headers
  PROVE  /\ ParseRetryAfter(h) \in Nat \cup {NoValue}
         /\ \A n \in Worth(h) : ParseRetryAfter(h) = n /\ n \in Nat
<1>1. {ParseRetryAfter(h)} = IF Worth(h) = {} THEN {NoValue} ELSE Worth(h)
  BY HeaderIsRead DEF RetryAfterIsExact
<1>2. h \in Seq(STRING)
  BY InputAssumption
<1>3. \A n \in Worth(h) : n \in Nat
  <2> TAKE n \in Worth(h)
  <2>1. PICK ij \in Spans(h) : n = Number(SubSeq(h, ij[1], ij[2]))
    BY DEF Worth
  <2>2. ij[1] \in 1 .. Len(h) /\ ij[2] \in 1 .. Len(h) /\ ij = <<ij[1], ij[2]>>
    BY DEF Spans
  <2>3. AllDigits(SubSeq(h, ij[1], ij[2]))
    BY <1>2, <2>2, SpanIsTrimmed
  <2>4. SubSeq(h, ij[1], ij[2]) \in Seq(STRING)
    BY <1>2, <2>2
  <2> QED BY <2>1, <2>3, <2>4, ReadsNumber
<1> QED BY <1>1, <1>3

----------------------------------------------------------------------------
\* What the policy makes of one attempt, from what the wire did with it.
Passing(w) == w = Lost \/ Retryable(w.status)
Asked(w) == IF w = Lost THEN {}
            ELSE IF w.status # 429 \/ w.header = NoValue THEN {}
            ELSE Worth(w.header)

\* request_with_retry_() goes on after an attempt that may pass, if it was not the last.
LEMMA AttemptIs ==
  ASSUME NEW w \in {Lost} \cup Answers, NEW n \in Nat
  PROVE  LET delay == DelayAfter(Httplib(w), n)
         IN /\ delay = NoValue <=> n >= MaxAttempts \/ ~Passing(w)
            /\ delay # NoValue => /\ delay \in 0 .. MaxSleepMs
                                  /\ \A m \in Asked(w) : delay = Lesser(MaxSleepMs, m * SecMs)
<1> DEFINE delay == DelayAfter(Httplib(w), n)
<1>1. CASE w = Lost
  <2>1. Httplib(w) = Failed /\ Failed.ok = FALSE
    BY <1>1 DEF Httplib, Failed
  <2>2. delay = Decide(503, n, NoValue)
    BY <2>1 DEF DelayAfter, PolicyStatus, RetryAfterOf
  <2>3. Retryable(503) /\ Passing(w) /\ Asked(w) = {}
    BY <1>1 DEF Retryable, Passing, Asked
  <2> HIDE DEF delay
  <2> DEFINE s == 503
             told == NoValue
  <2>4. s \in Int /\ told \in Nat \cup {NoValue}
    OBVIOUS
  <2> HIDE DEF s, told
  <2>5. Decide(s, n, told) = NoValue <=> n >= MaxAttempts \/ ~Retryable(s)
    BY <2>4, DelayIs
  <2>6. Decide(s, n, told) # NoValue => Decide(s, n, told) \in 0 .. MaxSleepMs
    BY <2>4, DelayIs
  <2>7. delay = Decide(s, n, told) /\ Retryable(s)
    BY <2>2, <2>3 DEF s, told
  <2> QED BY <2>3, <2>5, <2>6, <2>7 DEF delay
<1>2. CASE w \in Answers
  <2>1. /\ w = [kind |-> "answer", status |-> w.status, header |-> w.header]
        /\ w.status \in Int /\ w.header \in Headers \cup {NoValue}
    BY <1>2, InputAssumption
  <2>2. w # Lost
    <3>1. Lost.kind = "lost" /\ w.kind = "answer"
      BY <2>1 DEF Lost
    <3> QED BY <3>1
  <2>3. /\ Httplib(w).ok = TRUE /\ Httplib(w).status = w.status
        /\ Httplib(w).header = w.header
    BY <2>2 DEF Httplib, Response
  <2> DEFINE told == IF w.header = NoValue THEN NoValue ELSE ParseRetryAfter(w.header)
  <2>4. delay = Decide(w.status, n, told)
    BY <2>3 DEF DelayAfter, PolicyStatus, RetryAfterOf
  <2>5. told \in Nat \cup {NoValue}
    BY <2>1, ReadType
  <2>6. \A m \in Asked(w) : w.status = 429 /\ told = m /\ told # NoValue
    <3> TAKE m \in Asked(w)
    <3>1. w.status = 429 /\ w.header # NoValue /\ m \in Worth(w.header)
      BY <2>2 DEF Asked
    <3>2. w.header \in Headers
      BY <2>1, <3>1
    <3>3. told = m /\ m \in Nat
      BY <3>1, <3>2, ReadType
    <3> QED BY <3>1, <3>3, RequestAssumption
  <2>7. Passing(w) <=> Retryable(w.status)
    BY <2>2 DEF Passing
  <2> HIDE DEF delay, told
  <2>8. delay = NoValue <=> n >= MaxAttempts \/ ~Retryable(w.status)
    BY <2>1, <2>4, <2>5, DelayIs
  <2>9. delay # NoValue => delay \in 0 .. MaxSleepMs
    BY <2>1, <2>4, <2>5, DelayIs
  <2>10. delay # NoValue => \A m \in Asked(w) : delay = Lesser(MaxSleepMs, m * SecMs)
    BY <2>1, <2>4, <2>5, <2>6, DelayIs
  <2> QED BY <2>7, <2>8, <2>9, <2>10 DEF delay
<1> QED BY <1>1, <1>2

\* Whatever the server answers to each attempt, request_with_retry_() makes at most
\* MaxAttempts, stops at the first final answer and returns the answer it stopped at,
\* and no sleep is above the ceiling or other than a 429's header asks for.
THEOREM RetriesEnd == RetryIsBounded
<1> SUFFICES ASSUME NEW w \in [1 .. MaxAttempts -> {Lost} \cup Answers]
    PROVE  LET run == RequestWithRetry([i \in 1 .. MaxAttempts |-> Httplib(w[i])])
               final(i)  == w[i] # Lost /\ ~Retryable(w[i].status)
               asked(i)  == IF w[i] = Lost THEN {}
                            ELSE IF w[i].status # 429 \/ w[i].header = NoValue THEN {}
                            ELSE Worth(w[i].header)
           IN /\ run.attempts \in 1 .. MaxAttempts
              /\ \A i \in 1 .. run.attempts - 1 : ~final(i)
              /\ run.attempts < MaxAttempts => final(run.attempts)
              /\ run.result = Httplib(w[run.attempts])
              /\ DOMAIN run.sleeps = 1 .. run.attempts - 1
              /\ \A i \in 1 .. run.attempts - 1 :
                   /\ run.sleeps[i] \in 0 .. MaxSleepMs
                   /\ \A n \in asked(i) : run.sleeps[i] = Lesser(MaxSleepMs, n * SecMs)
  BY Zenon DEF RetryIsBounded
<1> DEFINE res == [i \in 1 .. MaxAttempts |-> Httplib(w[i])]
           delay(i) == DelayAfter(res[i], i)
           S == {i \in 1 .. MaxAttempts : delay(i) = NoValue}
           last == Min(S)
           run == RequestWithRetry(res)
<1>1. MaxAttempts \in Nat \ {0}
  BY RequestAssumption
<1>2. \A i \in 1 .. MaxAttempts :
        /\ w[i] \in {Lost} \cup Answers /\ i \in Nat
        /\ delay(i) = DelayAfter(Httplib(w[i]), i)
  OBVIOUS
<1>3. \A i \in 1 .. MaxAttempts :
        /\ delay(i) = NoValue <=> i >= MaxAttempts \/ ~Passing(w[i])
        /\ delay(i) # NoValue => /\ delay(i) \in 0 .. MaxSleepMs
                                 /\ \A m \in Asked(w[i]) : delay(i) = Lesser(MaxSleepMs, m * SecMs)
  <2> HIDE DEF delay
  <2> QED BY <1>2, AttemptIs
<1>4. run = [result |-> res[last], attempts |-> last,
             sleeps |-> [i \in 1 .. last - 1 |-> delay(i)]]
  BY DEF RequestWithRetry
<1>5. last \in S /\ (\A i \in S : last <= i) /\ last \in 1 .. MaxAttempts
  <2>1. MaxAttempts \in S
    <3> HIDE DEF delay
    <3> QED BY <1>1, <1>3
  <2>2. S \in SUBSET (1 .. MaxAttempts)
    OBVIOUS
  <2> HIDE DEF S
  <2> QED BY <1>1, <2>1, <2>2, Ends
<1>6. \A i \in 1 .. last - 1 : i \in 1 .. MaxAttempts /\ delay(i) # NoValue
  <2>1. \A i \in 1 .. last - 1 : i \in 1 .. MaxAttempts /\ ~(last <= i)
    <3> HIDE DEF last, S
    <3> QED BY <1>1, <1>5
  <2> HIDE DEF delay, last
  <2> QED BY <1>5, <2>1
<1>7. delay(last) = NoValue
  BY <1>5
<1>8. /\ run.attempts = last /\ run.result = Httplib(w[last])
      /\ run.sleeps = [i \in 1 .. last - 1 |-> delay(i)]
  <2> HIDE DEF last, delay
  <2>1. res[last] = Httplib(w[last])
    BY <1>5
  <2> HIDE DEF res
  <2> QED BY <1>4, <2>1
<1> HIDE DEF run, last, S, delay, res
<1>9. \A i \in 1 .. last - 1 : /\ Passing(w[i]) /\ run.sleeps[i] \in 0 .. MaxSleepMs
                              /\ \A m \in Asked(w[i]) : run.sleeps[i] = Lesser(MaxSleepMs, m * SecMs)
  BY <1>3, <1>6, <1>8
<1>10. last < MaxAttempts => ~Passing(w[last])
  BY <1>1, <1>3, <1>5, <1>7
<1>11. DOMAIN run.sleeps = 1 .. last - 1
  BY <1>8
<1>12. /\ run.attempts \in 1 .. MaxAttempts
       /\ \A i \in 1 .. run.attempts - 1 : Passing(w[i])
       /\ run.attempts < MaxAttempts => ~Passing(w[run.attempts])
       /\ run.result = Httplib(w[run.attempts])
       /\ DOMAIN run.sleeps = 1 .. run.attempts - 1
       /\ \A i \in 1 .. run.attempts - 1 :
            /\ run.sleeps[i] \in 0 .. MaxSleepMs
            /\ \A n \in Asked(w[i]) : run.sleeps[i] = Lesser(MaxSleepMs, n * SecMs)
  BY <1>5, <1>8, <1>9, <1>10, <1>11
<1> QED BY <1>12, Zenon DEF Passing, Asked, run, res

----------------------------------------------------------------------------
\* A colon is no digit.
LEMMA ColonIsNone == ~IsDigit(":")
BY DigitsAre

\* A text is one over a larger alphabet, too.
LEMMA LargerAlphabet ==
  ASSUME NEW S, NEW T, S \subseteq T, NEW s \in Seq(S) PROVE s \in Seq(T)
<1>1. Len(s) \in Nat /\ s = [i \in 1 .. Len(s) |-> s[i]] /\ \A i \in 1 .. Len(s) : s[i] \in T
  OBVIOUS
<1> QED BY <1>1

\* One character is a text.
LEMMA OneIsSeq == \A S : \A c \in S : <<c>> \in Seq(S)
OBVIOUS

\* Two texts in a row.
LEMMA InARow ==
  ASSUME NEW S, NEW s \in Seq(S), NEW t \in Seq(S)
  PROVE  /\ s \o t \in Seq(S) /\ Len(s \o t) = Len(s) + Len(t)
         /\ \A i \in 1 .. Len(s) : (s \o t)[i] = s[i]
         /\ \A i \in 1 .. Len(t) : (s \o t)[Len(s) + i] = t[i]
<1>1. s \o t \in Seq(S) /\ Len(s \o t) = Len(s) + Len(t)
  OBVIOUS
<1>2. \A i \in 1 .. Len(s) : (s \o t)[i] = s[i]
  OBVIOUS
<1>3. ASSUME NEW i \in 1 .. Len(t) PROVE (s \o t)[Len(s) + i] = t[i]
  OBVIOUS
<1> QED BY <1>1, <1>2, <1>3

\* parse_url() takes an authority apart where it was put together, whatever the host,
\* as long as it has no colon, and whatever the port's digits.
THEOREM UrlIsSplit == AuthorityIsSplit
<1> SUFFICES ASSUME NEW h \in Hosts
    PROVE /\ ParseAuthority(h, 443) = [host |-> h, port |-> 443]
          /\ \A p \in Ports :
               ParseAuthority(h \o <<":">> \o p, 443) = [host |-> h, port |-> Number(p)]
  BY DEF AuthorityIsSplit
<1> DEFINE S == STRING \cup {":"}
<1>a. STRING \subseteq S /\ ":" \in S
  OBVIOUS
<1> HIDE DEF S
<1>0. h \in Seq(S) /\ \A i \in 1 .. Len(h) : h[i] # ":"
  BY <1>a, InputAssumption, LargerAlphabet
<1>1. ParseAuthority(h, 443) = [host |-> h, port |-> 443]
  <2>1. {i \in 1 .. Len(h) : h[i] = ":"} = {}
    BY <1>0
  <2> QED BY <2>1, Zenon DEF ParseAuthority
<1>2. ASSUME NEW p \in Ports
      PROVE  ParseAuthority(h \o <<":">> \o p, 443) = [host |-> h, port |-> Number(p)]
  <2>0. p \in Seq(S) /\ p # <<>> /\ \A i \in 1 .. Len(p) : IsDigit(p[i])
    BY <1>a, InputAssumption, LargerAlphabet
  <2> DEFINE a == h \o <<":">> \o p
             n == Len(h)
             colons == {i \in 1 .. Len(a) : a[i] = ":"}
  <2>1. /\ a \in Seq(S) /\ Len(a) = n + 1 + Len(p) /\ n \in Nat /\ Len(p) \in Nat
        /\ a[n + 1] = ":" /\ \A i \in 1 .. n : a[i] = h[i]
        /\ \A i \in 1 .. Len(p) : a[n + 1 + i] = p[i]
    <3> DEFINE u == h \o <<":">>
    <3>1. /\ u \in Seq(S) /\ Len(u) = n + 1 /\ n \in Nat /\ u[n + 1] = ":"
          /\ \A i \in 1 .. n : u[i] = h[i]
      <4> DEFINE c == <<":">>
      <4>a. ":" \in S
        BY <1>a
      <4>b. Len(c) = 1
        OBVIOUS
      <4>c. c[1] = ":"
        OBVIOUS
      <4>d. c \in Seq(S)
        BY <4>a, OneIsSeq
      <4>1. c \in Seq(S) /\ Len(c) = 1 /\ c[1] = ":"
        BY <4>b, <4>c, <4>d
      <4> HIDE DEF c
      <4>2. h \o c \in Seq(S) /\ Len(h \o c) = n + 1 /\ (h \o c)[n + 1] = ":"
        BY <1>0, <4>1, InARow
      <4>3. \A i \in 1 .. n : (h \o c)[i] = h[i]
        BY <1>0, <4>1, InARow
      <4> QED BY <1>0, <4>2, <4>3 DEF c
    <3> HIDE DEF u, n
    <3>2. /\ u \o p \in Seq(S) /\ Len(u \o p) = Len(u) + Len(p) /\ Len(p) \in Nat
          /\ \A i \in 1 .. Len(u) : (u \o p)[i] = u[i]
          /\ \A i \in 1 .. Len(p) : (u \o p)[Len(u) + i] = p[i]
      <4>1. u \in Seq(S) /\ p \in Seq(S)
        BY <2>0, <3>1
      <4>2. Len(p) \in Nat
        BY <4>1
      <4> QED BY <4>1, <4>2, InARow
    <3>3. \A i \in 1 .. n : i \in 1 .. n + 1
      BY <3>1
    <3>4. n + 1 \in 1 .. n + 1
      BY <3>1
    <3>5. a = u \o p
      BY Zenon DEF u
    <3> HIDE DEF a
    <3> QED BY <3>1, <3>2, <3>3, <3>4, <3>5
  <2>2. SubSeq(a, n + 2, Len(a)) = p /\ SubSeq(a, 1, n) = h
    BY <1>0, <2>0
  <2>3. \A i \in 1 .. Len(p) : p[i] # ":"
    BY <2>0, ColonIsNone
  <2> HIDE DEF a, n
  <2>4. n + 1 \in colons /\ \A i \in colons : i = n + 1
    <3>1. \A i \in 1 .. Len(a) : \/ i \in 1 .. n
                                 \/ i = n + 1
                                 \/ i - n - 1 \in 1 .. Len(p) /\ i = n + 1 + (i - n - 1)
      BY <2>1
    <3>2. \A i \in 1 .. n : a[i] # ":"
      BY <1>0, <2>1 DEF n
    <3>3. \A i \in 1 .. Len(p) : a[n + 1 + i] # ":"
      BY <2>1, <2>3
    <3>4. n + 1 \in 1 .. Len(a)
      BY <2>1
    <3>5. ASSUME NEW i \in 1 .. Len(a), a[i] = ":" PROVE i = n + 1
      BY <3>1, <3>2, <3>3, <3>5
    <3> QED BY <2>1, <3>4, <3>5
  <2>5. colons # {} /\ Max(colons) = n + 1
    <3> HIDE DEF colons
    <3> QED BY <2>1, <2>4, EndsAre
  <2>6. LeadingDigits(p) = p
    <3> DEFINE E(k) == /\ \A i \in 1 .. k : IsDigit(p[i])
                       /\ k < Len(p) => ~IsDigit(p[k + 1])
    <3>1. \A k \in 0 .. Len(p) : E(k) <=> k = Len(p)
      BY <2>0
    <3>2. LeadingDigits(p) = SubSeq(p, 1, CHOOSE k \in 0 .. Len(p) : E(k))
      BY DEF LeadingDigits
    <3> HIDE DEF E
    <3>3. (CHOOSE k \in 0 .. Len(p) : E(k)) = Len(p)
      BY <2>1, <3>1
    <3>4. SubSeq(p, 1, Len(p)) = p
      BY <2>0
    <3> QED BY <3>2, <3>3, <3>4
  <2>7. (n + 1) + 1 = n + 2 /\ (n + 1) - 1 = n
    BY <2>1
  <2>8. ParseAuthority(a, 443) =
          IF colons = {} THEN [host |-> a, port |-> 443]
          ELSE IF LeadingDigits(SubSeq(a, Max(colons) + 1, Len(a))) = <<>>
          THEN [host |-> a, port |-> 443]
          ELSE [host |-> SubSeq(a, 1, Max(colons) - 1),
                port |-> Number(LeadingDigits(SubSeq(a, Max(colons) + 1, Len(a))))]
    BY Zenon DEF ParseAuthority
  <2> HIDE DEF colons
  <2>9. SubSeq(a, Max(colons) + 1, Len(a)) = p /\ SubSeq(a, 1, Max(colons) - 1) = h
    BY <2>2, <2>5, <2>7
  <2>10. ParseAuthority(a, 443) = [host |-> h, port |-> Number(p)]
    BY <2>0, <2>5, <2>6, <2>8, <2>9, Zenon
  <2> QED BY <2>10 DEF a
<1> QED BY <1>1, <1>2

\* The engine's states are as many as the native ones.
LEMMA StatesDiffer == StatesCorrespond
<1>1. /\ Native[1] = "Licensed" /\ Native[2] = "Trial" /\ Native[3] = "Expired"
      /\ Native[4] = "Invalid" /\ Native[5] = "FreeTier" /\ Native[6] = "Limited"
  BY DEF Native
<1>2. \A m \in 0 .. 5 : m = 0 \/ m = 1 \/ m = 2 \/ m = 3 \/ m = 4 \/ m = 5
  OBVIOUS
<1>3. /\ ToUEState(0) = "Licensed" /\ ToUEState(1) = "Trial" /\ ToUEState(2) = "Expired"
      /\ ToUEState(3) = "Invalid" /\ ToUEState(4) = "FreeTier" /\ ToUEState(5) = "Limited"
  BY <1>1 DEF ToUEState
<1> QED BY <1>2, <1>3 DEF StatesCorrespond

\* The pure part of a request is as it should be in every state.
THEOREM PolicyHolds == Spec => []RequestPolicy
<1>1. RequestPolicy
  BY HeaderIsRead, RetriesEnd, UrlIsSplit, StatesDiffer, Zenon DEF RequestPolicy
<1> QED BY <1>1, PTL
=============================================================================
