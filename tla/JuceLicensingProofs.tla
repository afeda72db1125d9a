------------------------- MODULE JuceLicensingProofs -------------------------
(***************************************************************************)
(* What the JUCE adapter guarantees for any states, any number of          *)
(* transitions and any number of calls of the host.                        *)
(***************************************************************************)
EXTENDS JuceLicensing, SequenceTheorems, TLAPS

\* Inside the Client's delivery, and inside it with an event at hand.
Calling    == {"check", "latch", "cache", "beacon", "post"}
Delivering == Calling \cup {"drain"}

\* The lambdas that tell of a change, and those that answer a call.
Posts == [kind : Ops \cup {"changed"}, value : States \cup {None}]

\* TypeOK in two: what is queued and placed, and what is true or false.
Places ==
  /\ state_ \in States /\ events \in Seq(States)
  /\ baton \in Threads \cup {None} /\ snapshot \in States
  /\ at \in [Threads -> Delivering \cup {"idle", "call", "done"}]
  /\ val \in [Threads -> States \cup {None}]
  /\ op \in Ops \cup {None} /\ next \in Ops \cup {None}
  /\ ui \in {"idle", "join", "unsubscribe", "retire", "join_worker", "reset", "join_client",
            "gone"}
  /\ posted \in Seq(Posts) /\ told \in States
  /\ made \in [events : 0 .. MaxEvents, calls : 0 .. MaxCalls]

Flags ==
  /\ granted \in BOOLEAN /\ subscribed \in BOOLEAN /\ retired \in BOOLEAN
  /\ alive \in BOOLEAN /\ pro \in BOOLEAN /\ touched \in BOOLEAN

\* What the message thread and a thread have at hand where they stand, and that a
\* change is told of with a state.
AtHand ==
  /\ ui = "join" => next \in Ops
  /\ at["work"] # "idle" => op \in Ops
  /\ \A t \in Threads : at[t] \in Calling => val[t] \in States
  /\ \A i \in 1 .. Len(posted) : posted[i].kind = "changed" => posted[i].value \in States

\* The baton is with the thread that delivers.
OneDelivers == \A t \in Threads : at[t] \in Delivering <=> baton = t

Control == Places /\ AtHand /\ OneDelivers

----------------------------------------------------------------------------
\* What the steps of a thread do to the place it stands at.
LEMMA Others ==
  ASSUME Places, NEW t \in Threads, NEW l, Goes(t, l)
  PROVE  at'[t] = l /\ \A u \in Threads : u # t => at'[u] = at[u]
BY DEF Places, Goes

\* A transition of the Client: the new state is the last one queued, or the old one.
LEMMA Transition ==
  ASSUME Places, NEW t, NEW s \in States, NEW g, SetState(t, s, g)
  PROVE  /\ state_' = s /\ events' \in Seq(States)
         /\ made' \in [events : 0 .. MaxEvents, calls : 0 .. MaxCalls]
         /\ s = state_ => events' = events
         /\ s # state_ => events' # <<>> /\ events'[Len(events')] = s
<1>1. state_' = s /\ events' = IF s = state_ THEN events ELSE Append(events, s)
  BY DEF SetState
<1>2. /\ Append(events, s) \in Seq(States) /\ Append(events, s) # <<>>
      /\ Append(events, s)[Len(Append(events, s))] = s
  <2>1. /\ Append(events, s) \in Seq(States)
        /\ Len(Append(events, s)) = Len(events) + 1
        /\ Append(events, s)[Len(events) + 1] = s
    BY AppendProperties DEF Places
  <2>2. Len(events) + 1 # 0
    BY LenProperties DEF Places
  <2> QED BY <2>1, <2>2
<1>3. made' \in [events : 0 .. MaxEvents, calls : 0 .. MaxCalls]
  <2>1. /\ made.events \in 0 .. MaxEvents /\ made.calls \in 0 .. MaxCalls
        /\ made = [events |-> made.events, calls |-> made.calls]
    BY DEF Places
  <2>2. CASE s = state_
    BY <2>1, <2>2 DEF SetState, Places
  <2>3. CASE s # state_
    <3>1. made' = [made EXCEPT !.events = @ + 1] /\ made'.events <= MaxEvents
      BY <2>3 DEF SetState
    <3>2. made' = [events |-> made.events + 1, calls |-> made.calls]
      BY <2>1, <3>1 DEF Places
    <3>3. made.events + 1 <= MaxEvents
      BY <3>1, <3>2
    <3>4. made.events + 1 \in 0 .. MaxEvents
      BY <2>1, <3>3, JuceAssumption
    <3> QED BY <2>1, <3>2, <3>4
  <2> QED BY <2>2, <2>3
<1> QED BY <1>1, <1>2, <1>3

\* A lambda is appended to the message queue.
LEMMA Posting ==
  ASSUME Places, NEW p \in Posts, posted' = Append(posted, p)
  PROVE  /\ posted' \in Seq(Posts) /\ Len(posted') = Len(posted) + 1
         /\ posted'[Len(posted) + 1] = p
         /\ \A i \in 1 .. Len(posted) : posted'[i] = posted[i]
         /\ \A i \in 1 .. Len(posted') : i \in 1 .. Len(posted) \/ i = Len(posted) + 1
<1>1. /\ posted' \in Seq(Posts) /\ Len(posted') = Len(posted) + 1
      /\ posted'[Len(posted) + 1] = p
      /\ \A i \in 1 .. Len(posted) : posted'[i] = posted[i]
  BY AppendProperties DEF Places
<1>2. Len(posted) \in Nat
  BY LenProperties DEF Places
<1> QED BY <1>1, <1>2

\* The message thread takes the first lambda.
LEMMA Running ==
  ASSUME Places, posted # <<>>, posted' = Tail(posted)
  PROVE  /\ posted' \in Seq(Posts) /\ Head(posted) = posted[1]
         /\ Head(posted) \in Posts /\ Len(posted) \in Nat \ {0}
         /\ Len(posted') = Len(posted) - 1
         /\ \A i \in 1 .. Len(posted') : posted'[i] = posted[i + 1]
BY HeadTailProperties, LenProperties, EmptySeq DEF Places

----------------------------------------------------------------------------
\* A Licensing object just made: nothing queued, posted or running.
LEMMA ControlInit == Init => Control
<1> SUFFICES ASSUME Init PROVE Control
  OBVIOUS
<1>1. made \in [events : 0 .. MaxEvents, calls : 0 .. MaxCalls]
  BY JuceAssumption DEF Init
<1>2. Places
  BY <1>1 DEF Init, Places
<1>3. AtHand
  BY DEF Init, AtHand, Calling, Threads
<1>4. OneDelivers
  <2>1. \A t \in Threads : t # None
    BY DEF Threads, None
  <2>2. \A t \in Threads : at[t] = "idle" /\ baton = None
    BY DEF Init
  <2> QED BY <2>1, <2>2 DEF OneDelivers, Delivering, Calling
<1> QED BY <1>2, <1>3, <1>4 DEF Control

\* No step delivers without the baton, answers without a call, or tells of a change
\* without a state.
LEMMA ControlStep == Control /\ [Next]_vars => Control'
<1> SUFFICES ASSUME Control, [Next]_vars PROVE Control'
  OBVIOUS
<1>0. Places /\ AtHand /\ OneDelivers
  BY DEF Control
<1> USE DEF Calling, Delivering
<1>1. CASE \E o \in Ops : Dispatch(o)
  <2>1. PICK o \in Ops : Dispatch(o)
    BY <1>1
  <2>2. made' \in [events : 0 .. MaxEvents, calls : 0 .. MaxCalls]
    <3>1. /\ made.events \in 0 .. MaxEvents /\ made.calls + 1 \in 0 .. MaxCalls
          /\ made' = [events |-> made.events, calls |-> made.calls + 1]
      BY <1>0, <2>1, JuceAssumption DEF Dispatch, Places
    <3> QED BY <3>1
  <2>3. Places'
    BY <1>0, <2>1, <2>2 DEF Dispatch, sdk, mine, Places
  <2>4. AtHand' /\ OneDelivers'
    BY <1>0, <2>1 DEF Dispatch, sdk, mine, AtHand, OneDelivers
  <2> QED BY <2>3, <2>4 DEF Control
<1>2. CASE Join
  <2>1. Places'
    BY <1>0, <1>2 DEF Join, sdk, mine, Places, Goes, Threads
  <2>2. AtHand' /\ OneDelivers'
    BY <1>0, <1>2 DEF Join, sdk, mine, Places, AtHand, OneDelivers, Goes, Threads
  <2> QED BY <2>1, <2>2 DEF Control
<1>3. CASE RunPosted
  <2>1. posted # <<>> /\ posted' = Tail(posted)
    BY <1>3 DEF RunPosted
  <2>2. UNCHANGED <<sdk, mine, at, val, op, ui, next, made>>
    BY <1>3 DEF RunPosted
  <2>3. told' \in States
    <3>1. \/ Head(posted).kind = "changed" /\ told' = Head(posted).value
          \/ told' = told
      BY <1>3 DEF RunPosted
    <3> QED BY <1>0, <2>1, <3>1, Running DEF AtHand, Places
  <2>4. Places'
    BY <1>0, <2>1, <2>2, <2>3, Running DEF Places, sdk, mine
  <2>5. \A i \in 1 .. Len(posted') :
          posted'[i].kind = "changed" => posted'[i].value \in States
    <3>1. \A i \in 1 .. Len(posted') : i + 1 \in 1 .. Len(posted)
      BY <1>0, <2>1, Running
    <3> QED BY <1>0, <2>1, <3>1, Running DEF AtHand
  <2>6. AtHand' /\ OneDelivers'
    BY <1>0, <2>2, <2>5 DEF AtHand, OneDelivers, sdk, mine
  <2> QED BY <2>4, <2>6 DEF Control
<1>4. CASE Destroy \/ Destructor
  <2>1. UNCHANGED <<state_, events, baton, snapshot, at, val, op, next, posted, told, made>>
    BY <1>4 DEF Destroy, Destructor, Unsubscribe, Retire, JoinWorker, ResetClient, JoinClient,
     sdk, mine
  <2>2. ui' \in {"unsubscribe", "retire", "join_worker", "reset", "join_client", "gone"}
    BY <1>4 DEF Destroy, Destructor, Unsubscribe, Retire, JoinWorker, ResetClient, JoinClient
  <2> QED
    BY <1>0, <2>1, <2>2 DEF Control, Places, AtHand, OneDelivers
<1>5. ASSUME NEW t \in Threads, NEW l \in Delivering \cup {"idle", "call", "done"},
             Goes(t, l), l \in Delivering <=> at[t] \in Delivering,
             at[t] = "idle" => t # "work",
             l \in Calling => val'[t] \in States,
             state_' \in States, events' \in Seq(States), snapshot' \in States,
             made' \in [events : 0 .. MaxEvents, calls : 0 .. MaxCalls],
             val' = [val EXCEPT ![t] = val'[t]], val'[t] \in States \cup {None},
             UNCHANGED <<baton, op, ui, next, told>>,
             posted' \in Seq(Posts),
             \A i \in 1 .. Len(posted') :
               posted'[i].kind = "changed" => posted'[i].value \in States
      PROVE  Control'
  <2>1. Places'
    BY <1>0, <1>5 DEF Places, Goes
  <2>2. at'[t] = l /\ \A u \in Threads : u # t => at'[u] = at[u]
    BY <1>0, <1>5, Others
  <2>3. \A u \in Threads : u # t => val'[u] = val[u]
    BY <1>0, <1>5 DEF Places
  <2>4. at'["work"] # "idle" => op \in Ops
    BY <1>0, <1>5, <2>2 DEF AtHand, Threads
  <2>5. \A u \in Threads : at'[u] \in Calling => val'[u] \in States
    BY <1>0, <1>5, <2>2, <2>3 DEF AtHand
  <2>6. AtHand'
    BY <1>0, <1>5, <2>4, <2>5 DEF AtHand
  <2>7. OneDelivers'
    BY <1>0, <1>5, <2>2 DEF OneDelivers
  <2> QED BY <2>1, <2>6, <2>7 DEF Control
<1>6. \A t \in Threads : val[t] \in States \cup {None} /\ val = [val EXCEPT ![t] = val[t]]
  BY <1>0 DEF Places
<1>7. ASSUME NEW t \in Threads, Begin(t)
      PROVE  Control'
  <2>1. /\ Goes(t, "call") /\ at[t] = "idle" /\ t # "work"
        /\ UNCHANGED <<state_, events, snapshot, made, val, baton, op, ui, next, told, posted>>
    BY <1>7 DEF Begin, sdk, mine
  <2> QED BY <1>0, <1>5, <1>6, <2>1 DEF Places, AtHand
<1>8. ASSUME NEW t \in Threads, Work(t)
      PROVE  Control'
  <2>1. PICK s \in States, g \in BOOLEAN : SetState(t, s, g)
    BY <1>8 DEF Work
  <2>2. /\ at[t] = "call" /\ UNCHANGED <<snapshot, val, op, ui, next, posted, told>>
        /\ \/ baton = None /\ baton' = t /\ Goes(t, "drain")
           \/ baton # None /\ baton' = baton /\ Goes(t, "done")
    BY <1>8 DEF Work, mine
  <2>3. /\ state_' \in States /\ events' \in Seq(States)
        /\ made' \in [events : 0 .. MaxEvents, calls : 0 .. MaxCalls]
    BY <1>0, <2>1, Transition
  <2>4. CASE baton # None
    BY <1>0, <1>5, <1>6, <2>2, <2>3, <2>4 DEF Places, AtHand
  <2>5. CASE baton = None
    <3>1. baton' = t /\ Goes(t, "drain")
      BY <2>2, <2>5
    <3>2. at'[t] = "drain" /\ \A u \in Threads : u # t => at'[u] = at[u]
      BY <1>0, <3>1, Others
    <3>3. Places'
      BY <1>0, <2>2, <2>3, <3>1 DEF Places, Goes
    <3>4. AtHand'
      BY <1>0, <2>2, <3>2 DEF AtHand, Threads
    <3>5. \A u \in Threads : u # None
      BY DEF Threads, None
    <3>6. OneDelivers'
      BY <1>0, <2>5, <3>1, <3>2, <3>5 DEF OneDelivers
    <3> QED BY <3>3, <3>4, <3>6 DEF Control
  <2> QED BY <2>4, <2>5
<1>9. ASSUME NEW t \in Threads, Deliver(t)
      PROVE  Control'
  <2>1. PICK l \in {"check", "drain"} : Goes(t, l)
    BY <1>9 DEF Deliver
  <2>2. /\ at[t] = "drain" /\ events # <<>> /\ events' = Tail(events)
        /\ val' = [val EXCEPT ![t] = Head(events)]
        /\ UNCHANGED <<state_, snapshot, made, baton, op, ui, next, told, posted>>
    BY <1>9 DEF Deliver, mine
  <2>3. Head(events) \in States /\ Tail(events) \in Seq(States)
    BY <1>0, <2>2, HeadTailProperties DEF Places
  <2>4. val'[t] = Head(events)
    BY <1>0, <2>2 DEF Places
  <2> QED BY <1>0, <1>5, <2>1, <2>2, <2>3, <2>4 DEF Places, AtHand
<1>10. ASSUME NEW t \in Threads, Drained(t)
       PROVE  Control'
  <2>1. /\ at[t] = "drain" /\ baton' = None /\ Goes(t, "done")
        /\ val' = [val EXCEPT ![t] = None]
        /\ UNCHANGED <<state_, events, snapshot, made, op, ui, next, told, posted>>
    BY <1>10 DEF Drained, mine
  <2>2. at'[t] = "done" /\ \A u \in Threads : u # t => at'[u] = at[u]
    BY <1>0, <2>1, Others
  <2>3. \A u \in Threads : u # t => val'[u] = val[u]
    BY <1>0, <2>1 DEF Places
  <2>4. Places'
    BY <1>0, <2>1 DEF Places, Goes
  <2>5. AtHand'
    BY <1>0, <2>1, <2>2, <2>3 DEF AtHand, Threads
  <2>6. \A u \in Threads : u # None
    BY DEF Threads, None
  <2>7. OneDelivers'
    BY <1>0, <2>1, <2>2, <2>6 DEF OneDelivers
  <2> QED BY <2>4, <2>5, <2>7 DEF Control
<1>11. ASSUME NEW t \in Threads, CheckAlive(t) \/ Latch(t) \/ RefreshCache(t)
       PROVE  Control'
  <2>1. PICK l \in {"latch", "drain", "cache", "beacon"} : Goes(t, l)
    BY <1>11 DEF CheckAlive, Latch, RefreshCache
  <2>2. /\ at[t] \in Calling
        /\ snapshot' = val[t] \/ snapshot' = snapshot
        /\ UNCHANGED <<state_, events, made, val, baton, op, ui, next, told, posted>>
    BY <1>11 DEF CheckAlive, Latch, RefreshCache, sdk, mine
  <2>3. val[t] \in States
    BY <1>0, <2>2 DEF AtHand
  <2> QED BY <1>0, <1>5, <1>6, <2>1, <2>2, <2>3 DEF Places, AtHand
<1>12. ASSUME NEW t \in Threads, Beacon(t)
       PROVE  Control'
  <2>1. PICK s \in States : SetState(t, s, granted)
    BY <1>12 DEF Beacon
  <2>2. /\ at[t] = "beacon" /\ Goes(t, "post")
        /\ UNCHANGED <<snapshot, val, baton, op, ui, next, told, posted>>
    BY <1>12 DEF Beacon, mine
  <2>3. /\ state_' \in States /\ events' \in Seq(States)
        /\ made' \in [events : 0 .. MaxEvents, calls : 0 .. MaxCalls]
    BY <1>0, <2>1, Transition
  <2> QED BY <1>0, <1>5, <1>6, <2>2, <2>3 DEF Places, AtHand
<1>13. ASSUME NEW t \in Threads, PostChange(t)
       PROVE  Control'
  <2> DEFINE p == [kind |-> "changed", value |-> val[t]]
  <2>1. /\ at[t] = "post" /\ Goes(t, "drain") /\ posted' = Append(posted, p)
        /\ UNCHANGED <<state_, events, snapshot, made, val, baton, op, ui, next, told>>
    BY <1>13 DEF PostChange, sdk, mine
  <2>2. p \in Posts /\ p.value \in States
    BY <1>0, <2>1 DEF AtHand, Posts
  <2>3. /\ posted' \in Seq(Posts)
        /\ \A i \in 1 .. Len(posted') :
             posted'[i].kind = "changed" => posted'[i].value \in States
    <3> HIDE DEF p
    <3> QED BY <1>0, <2>1, <2>2, Posting DEF AtHand
  <2> QED BY <1>0, <1>5, <1>6, <2>1, <2>3 DEF Places
<1>14. ASSUME NEW t \in Threads, Finish(t)
       PROVE  Control'
  <2>1. /\ at[t] = "done" /\ Goes(t, "idle")
        /\ UNCHANGED <<state_, events, baton, snapshot, made, val, ui, next, told>>
    BY <1>14 DEF Finish, sdk, mine
  <2>2. at'[t] = "idle" /\ \A u \in Threads : u # t => at'[u] = at[u]
    BY <1>0, <2>1, Others
  <2>3. OneDelivers'
    BY <1>0, <2>1, <2>2 DEF OneDelivers
  <2>4. CASE t # "work"
    <3>1. UNCHANGED <<posted, op>>
      BY <1>14, <2>4 DEF Finish
    <3> QED BY <1>0, <1>5, <1>6, <2>1, <3>1 DEF Places, AtHand
  <2>5. CASE t = "work"
    <3> DEFINE p == [kind |-> op, value |-> None]
    <3>1. posted' = Append(posted, p) /\ op' = None
      BY <1>14, <2>5 DEF Finish
    <3>2. op \in Ops /\ p.kind # "changed" /\ p \in Posts
      BY <1>0, <2>1, <2>5 DEF AtHand, Ops, Posts
    <3> HIDE DEF p
    <3>3. /\ posted' \in Seq(Posts)
          /\ \A i \in 1 .. Len(posted') :
               posted'[i].kind = "changed" => posted'[i].value \in States
      BY <1>0, <3>1, <3>2, Posting DEF AtHand
    <3>4. Places'
      BY <1>0, <2>1, <3>1, <3>3 DEF Places, Goes
    <3>5. AtHand'
      BY <1>0, <2>1, <2>2, <2>5, <3>3 DEF AtHand
    <3> QED BY <2>3, <3>4, <3>5 DEF Control
  <2> QED BY <2>4, <2>5
<1>15. CASE UNCHANGED vars
  BY <1>0, <1>15 DEF vars, sdk, mine, Control, Places, AtHand, OneDelivers
<1> QED
  BY <1>1, <1>2, <1>3, <1>4, <1>7, <1>8, <1>9, <1>10, <1>11, <1>12, <1>13, <1>14,
     <1>15 DEF Next, Runs, Callback
----------------------------------------------------------------------------
\* No flag is set on a new object but those of one that lives and listens.
LEMMA FlagsInit == Init => Flags
BY Zenon DEF Init, Flags

\* No step leaves a flag that is neither true nor false.
LEMMA FlagsStep == Flags /\ [Next]_vars => Flags'
<1> SUFFICES ASSUME Flags, [Next]_vars PROVE Flags'
  OBVIOUS
<1>1. ASSUME UNCHANGED <<granted, pro, subscribed, retired, alive>> \/
             (UNCHANGED <<subscribed, retired, alive>> /\ granted' \in BOOLEAN /\ pro' \in BOOLEAN) \/
             (UNCHANGED <<granted, pro>>
                /\ (subscribed' = FALSE \/ subscribed' = subscribed)
                /\ (retired' = TRUE \/ retired' = retired)
                /\ (alive' = FALSE \/ alive' = alive)),
             Touch \/ UNCHANGED touched
      PROVE  Flags'
  BY <1>1, Zenon DEF Flags, Touch, Gone
<1>2. CASE Destroy \/ Destructor
  BY <1>1, <1>2, Zenon
     DEF Destroy, Destructor, Unsubscribe, Retire, JoinWorker, ResetClient, JoinClient,
     sdk, mine
<1>3. CASE RunPosted \/ Join \/ UNCHANGED vars \/ \E o \in Ops : Dispatch(o)
  BY <1>1, <1>3 DEF RunPosted, Join, Dispatch, vars, sdk, mine
<1>4. ASSUME NEW t \in Threads, Begin(t) \/ Runs(t)
      PROVE  Flags'
  <2>1. CASE Work(t)
    <3>1. PICK s \in States, g \in BOOLEAN : SetState(t, s, g)
      BY <2>1 DEF Work
    <3> QED BY <1>1, <2>1, <3>1, Zenon DEF Work, SetState, mine, Flags
  <2>2. CASE RefreshCache(t)
    BY <1>1, <2>2, Zenon DEF RefreshCache, sdk, Flags
  <2>3. CASE Beacon(t)
    BY <1>1, <2>3, Zenon DEF Beacon, SetState, mine, Flags
  <2>4. CASE \/ Begin(t) \/ Deliver(t) \/ Drained(t) \/ CheckAlive(t) \/ Latch(t)
             \/ PostChange(t) \/ Finish(t)
    BY <1>1, <2>4 DEF Begin, Deliver, Drained, CheckAlive, Latch, PostChange, Finish,
                      sdk, mine
  <2> QED BY <1>4, <2>1, <2>2, <2>3, <2>4 DEF Runs, Callback
<1> QED
  BY <1>2, <1>3, <1>4 DEF Next

\* Every variable keeps its type: a thread is never left at a place the adapter does
\* not have, and what is posted is a lambda of one of three kinds.
THEOREM TypeCorrect == Spec => []TypeOK
<1>1. Control /\ Flags => TypeOK
  <2> SUFFICES ASSUME Control, Flags PROVE TypeOK
    OBVIOUS
  <2>1. \A i \in 1 .. Len(posted) :
          posted[i] \in [kind : Ops \cup {"changed"}, value : States \cup {None}]
    BY ElementOfSeq DEF Control, Places, Posts
  <2>2. at \in [Threads -> {"idle", "call", "drain", "check", "latch", "cache",
                          "beacon", "post", "done"}]
    BY DEF Control, Places, Delivering, Calling
  <2> QED BY <2>1, <2>2, Zenon DEF Control, Places, Flags, TypeOK
<1> QED
  BY <1>1, ControlInit, FlagsInit, ControlStep, FlagsStep, PTL DEF Spec

----------------------------------------------------------------------------
\* How far ~Licensing() has come, and who can no longer run.
Teardown ==
  /\ alive => ui \in {"idle", "join"} /\ subscribed
  /\ ui \in {"join_worker", "reset", "join_client", "gone"} => retired
  /\ ui \in {"reset", "join_client", "gone"} => at["work"] = "idle"
  /\ Gone => at["tick"] = "idle" /\ at["beat"] = "idle"

\* Each step of the destructor ends what the next ones rely on: once the worker is
\* retired no tick begins, and once a thread is joined it stays idle.
LEMMA TeardownStep == Control /\ Teardown /\ [Next]_vars => Teardown'
<1> SUFFICES ASSUME Control, Teardown, [Next]_vars PROVE Teardown'
  OBVIOUS
<1>0. Places
  BY DEF Control
<1> USE DEF Teardown, Gone
<1>1. CASE \E o \in Ops : Dispatch(o)
  BY <1>1 DEF Dispatch, sdk, mine
<1>2. CASE Join
  <2>1. /\ ui = "join" /\ ui' = "idle" /\ UNCHANGED <<alive, subscribed>>
    BY <1>2 DEF Join, sdk, mine
  <2> QED BY <2>1
<1>3. CASE RunPosted \/ UNCHANGED vars
  BY <1>3 DEF RunPosted, vars, sdk, mine
<1>4. CASE Destroy \/ Destructor
  BY <1>4 DEF Destroy, Destructor, Unsubscribe, Retire, JoinWorker, ResetClient, JoinClient,
     sdk, mine
<1>5. ASSUME NEW t \in Threads, Begin(t)
      PROVE  Teardown'
  <2>1. /\ Goes(t, "call") /\ t # "work" /\ (t = "tick" => ~retired) /\ (t = "beat" => ~Closing)
        /\ UNCHANGED <<ui, alive, subscribed, retired>>
    BY <1>5 DEF Begin, sdk, mine
  <2> QED BY <1>0, <2>1, Others DEF Threads, Closing
<1>6. ASSUME NEW t \in Threads, Runs(t)
      PROVE  Teardown'
  <2>1. at[t] # "idle" /\ UNCHANGED <<ui, alive, subscribed, retired>>
    BY <1>6 DEF Runs, Callback, Work, Deliver, Drained, CheckAlive, Latch, RefreshCache,
                Beacon, PostChange, Finish, sdk, mine
  <2>2. \E l : Goes(t, l)
    BY <1>6, Zenon DEF Runs, Callback, Work, Deliver, Drained, CheckAlive, Latch, RefreshCache,
                Beacon, PostChange, Finish
  <2> QED BY <1>0, <2>1, <2>2, Others DEF Threads
<1> QED
  BY <1>1, <1>2, <1>3, <1>4, <1>5, <1>6 DEF Next

\* Where the host calls from the message thread only, as the header asks, nothing of a
\* Licensing object is used after its destructor: the worker thread and the Client's own
\* are idle for good by then, and what was posted asks alive_ first.
THEOREM NothingUsedLate == ASSUME ~HostThread PROVE Spec => []NoLateUse
<1> DEFINE HostIdle == at["app"] = "idle"
<1>1. Init => Teardown /\ HostIdle /\ NoLateUse
  BY DEF Init, Teardown, Gone, NoLateUse, Threads
<1>2. Control /\ HostIdle /\ [Next]_vars => HostIdle'
  <2> SUFFICES ASSUME Control, HostIdle, [Next]_vars PROVE HostIdle'
    OBVIOUS
  <2>0. Places
    BY DEF Control
  <2>1. CASE UNCHANGED at
    BY <2>1
  <2>2. CASE Join
    BY <2>0, <2>2, Others DEF Join, Threads
  <2>3. ASSUME NEW t \in Threads, Begin(t) \/ Runs(t)
        PROVE  HostIdle'
    <3>1. t # "app"
      BY <2>3 DEF Begin, Runs, Callback, Work, Deliver, Drained, CheckAlive, Latch,
                  RefreshCache, Beacon, PostChange, Finish
    <3>2. \E l : Goes(t, l)
      BY <2>3, Zenon DEF Begin, Runs, Callback, Work, Deliver, Drained, CheckAlive, Latch,
                  RefreshCache, Beacon, PostChange, Finish
    <3> QED BY <2>0, <3>1, <3>2, Others DEF Threads
  <2> QED
    BY <2>1, <2>2, <2>3 DEF Next, Dispatch, RunPosted, Destroy, Destructor, Unsubscribe,
                            Retire, JoinWorker, ResetClient, JoinClient, vars
<1>3. Teardown /\ HostIdle /\ NoLateUse /\ [Next]_vars => NoLateUse'
  <2> SUFFICES ASSUME Teardown, HostIdle, NoLateUse, [Next]_vars PROVE NoLateUse'
    OBVIOUS
  <2>1. ASSUME ~Gone, Touch \/ UNCHANGED touched
        PROVE  NoLateUse'
    BY <2>1, Zenon DEF NoLateUse, Touch
  <2>2. ASSUME UNCHANGED touched
        PROVE  NoLateUse'
    BY <2>2, Zenon DEF NoLateUse
  <2>3. CASE RunPosted
    <3>1. \/ UNCHANGED touched
          \/ alive /\ Touch
      BY <2>3 DEF RunPosted
    <3> QED BY <2>1, <2>2, <3>1 DEF Teardown, Gone
  <2>4. ASSUME NEW t \in Threads, Runs(t)
        PROVE  NoLateUse'
    <3>1. at[t] # "idle" /\ (Touch \/ UNCHANGED touched)
      BY <2>4 DEF Runs, Callback, Work, Deliver, Drained, CheckAlive, Latch, RefreshCache,
                  Beacon, PostChange, Finish
    <3>2. ~Gone
      BY <3>1 DEF Teardown, Gone, Threads
    <3> QED BY <2>1, <3>1, <3>2
  <2>5. ASSUME NEW t \in Threads, Begin(t)
        PROVE  NoLateUse'
    BY <2>2, <2>5 DEF Begin
  <2>6. ASSUME NEW o \in Ops, Dispatch(o)
        PROVE  NoLateUse'
    BY <2>2, <2>6 DEF Dispatch
  <2>7. CASE UNCHANGED vars \/ Join \/ Destroy \/ Destructor
    BY <2>2, <2>7 DEF Join, Destroy, Destructor, Unsubscribe, Retire, JoinWorker,
                      ResetClient, JoinClient, vars
  <2> QED
    BY <2>3, <2>4, <2>5, <2>6, <2>7 DEF Next
<1> HIDE DEF HostIdle
<1> QED
  BY <1>1, <1>2, <1>3, ControlInit, ControlStep, TeardownStep, PTL DEF Spec
----------------------------------------------------------------------------
\* The message thread was told s last, or will be by the last change it has to run.
Hears(s, lambdas, last) ==
  \/ /\ last = s
     /\ \A i \in 1 .. Len(lambdas) : lambdas[i].kind # "changed"
  \/ \E i \in 1 .. Len(lambdas) :
       /\ lambdas[i].kind = "changed" /\ lambdas[i].value = s
       /\ \A j \in 1 .. Len(lambdas) : j > i => lambdas[j].kind # "changed"

\* A change posted behind the others is the last to be heard.
LEMMA HearsPosted ==
  ASSUME NEW q \in Seq(Posts), NEW s, NEW v, NEW p \in Posts, p.kind = "changed",
         p.value = s
  PROVE  Hears(s, Append(q, p), v)
<1>1. /\ Len(Append(q, p)) = Len(q) + 1 /\ Append(q, p)[Len(q) + 1] = p /\ Len(q) \in Nat
  BY AppendProperties, LenProperties
<1>2. /\ Len(q) + 1 \in 1 .. Len(Append(q, p))
      /\ \A j \in 1 .. Len(Append(q, p)) : ~(j > Len(q) + 1)
  BY <1>1
<1> QED BY <1>1, <1>2 DEF Hears

\* An answer posted behind them changes nothing of what will be heard.
LEMMA HearsAnswer ==
  ASSUME NEW q \in Seq(Posts), NEW s, NEW v, NEW p \in Posts, p.kind # "changed",
         Hears(s, q, v)
  PROVE  Hears(s, Append(q, p), v)
<1> DEFINE r == Append(q, p)
<1>1. /\ Len(r) = Len(q) + 1 /\ r[Len(q) + 1] = p /\ Len(q) \in Nat
      /\ \A i \in 1 .. Len(q) : r[i] = q[i]
  BY AppendProperties, LenProperties
<1> HIDE DEF r
<1>2. \A i \in 1 .. Len(r) : i \in 1 .. Len(q) \/ i = Len(q) + 1
  BY <1>1
<1>3. CASE v = s /\ \A i \in 1 .. Len(q) : q[i].kind # "changed"
  BY <1>1, <1>2, <1>3 DEF Hears
<1>4. ASSUME NEW i \in 1 .. Len(q), q[i].kind = "changed", q[i].value = s,
             \A j \in 1 .. Len(q) : j > i => q[j].kind # "changed"
      PROVE  Hears(s, r, v)
  <2>1. i \in 1 .. Len(r) /\ r[i] = q[i]
    BY <1>1
  <2>2. \A j \in 1 .. Len(r) : j > i => r[j].kind # "changed"
    BY <1>1, <1>2, <1>4
  <2> QED BY <1>4, <2>1, <2>2 DEF Hears
<1> QED BY <1>3, <1>4 DEF Hears, r

\* Running the first lambda, and keeping what it told, changes nothing either.
LEMMA HearsRun ==
  ASSUME NEW q \in Seq(Posts), q # <<>>, NEW s, NEW v, Hears(s, q, v)
  PROVE  Hears(s, Tail(q), IF Head(q).kind = "changed" THEN Head(q).value ELSE v)
<1> DEFINE r == Tail(q)
           w == IF Head(q).kind = "changed" THEN Head(q).value ELSE v
<1>1. /\ Head(q) = q[1] /\ Len(q) \in Nat \ {0} /\ Len(r) = Len(q) - 1
      /\ \A i \in 1 .. Len(r) : r[i] = q[i + 1]
  BY HeadTailProperties, LenProperties, EmptySeq
<1>2. \A i \in 1 .. Len(r) : i + 1 \in 1 .. Len(q)
  BY <1>1
<1>3. 1 \in 1 .. Len(q)
  BY <1>1
<1>4. w = IF q[1].kind = "changed" THEN q[1].value ELSE v
  BY <1>1
<1> HIDE DEF r, w
<1>5. CASE v = s /\ \A i \in 1 .. Len(q) : q[i].kind # "changed"
  <2>1. w = s
    BY <1>3, <1>4, <1>5
  <2>2. \A i \in 1 .. Len(r) : r[i].kind # "changed"
    BY <1>1, <1>2, <1>5
  <2> QED BY <2>1, <2>2 DEF Hears
<1>6. ASSUME NEW i \in 1 .. Len(q), q[i].kind = "changed", q[i].value = s,
             \A j \in 1 .. Len(q) : j > i => q[j].kind # "changed"
      PROVE  Hears(s, r, w)
  <2>1. CASE i = 1
    <3>1. w = s
      BY <1>4, <1>6, <2>1
    <3>2. ASSUME NEW j \in 1 .. Len(r) PROVE r[j].kind # "changed"
      <4>1. j + 1 > 1 /\ j + 1 \in 1 .. Len(q) /\ r[j] = q[j + 1]
        BY <1>1, <1>2
      <4> QED BY <1>6, <2>1, <4>1
    <3> QED BY <3>1, <3>2 DEF Hears
  <2>2. CASE i # 1
    <3>1. i - 1 \in 1 .. Len(r) /\ r[i - 1] = q[i]
      BY <1>1, <2>2
    <3>2. ASSUME NEW j \in 1 .. Len(r), j > i - 1 PROVE r[j].kind # "changed"
      <4>1. j + 1 > i /\ j + 1 \in 1 .. Len(q) /\ r[j] = q[j + 1]
        BY <1>1, <1>2, <3>2
      <4> QED BY <1>6, <4>1
    <3> QED BY <1>6, <3>1, <3>2 DEF Hears
  <2> QED BY <2>1, <2>2
<1> QED BY <1>5, <1>6 DEF Hears, r, w
----------------------------------------------------------------------------
\* While the object lives, the Client's state is the last event queued; with none
\* queued it is the event that is being delivered, or what the snapshot holds; and with
\* none being delivered either, it is what the message thread hears last.
Latched ==
  alive =>
    /\ events # <<>> => events[Len(events)] = state_
    /\ events = <<>> => \A t \in Threads : at[t] \in Calling => val[t] = state_
    /\ events = <<>> /\ (\A t \in Threads : at[t] \notin {"check", "latch"}) =>
         snapshot = state_

Relayed ==
  alive /\ events = <<>> /\ (\A t \in Threads : at[t] \notin Calling) =>
    Hears(state_, posted, told)

Mirrored == Latched /\ Relayed

\* The constructor seeds the snapshot, and what the message thread was told.
LEMMA MirroredInit == Init => Mirrored
<1> SUFFICES ASSUME Init PROVE Mirrored
  OBVIOUS
<1>1. events = <<>> /\ posted = <<>> /\ snapshot = state_ /\ told = state_
      /\ \A t \in Threads : at[t] = "idle"
  BY DEF Init
<1> QED BY <1>1 DEF Mirrored, Latched, Relayed, Hears, Calling

\* Every step of an object that lives hands the state on from one place to the next:
\* the queue, the event at hand, the snapshot, the posted lambda, the last word.
LEMMA MirroredStep == Control /\ Teardown /\ Mirrored /\ [Next]_vars => Mirrored'
<1> SUFFICES ASSUME Control, Teardown, Mirrored, [Next]_vars PROVE Mirrored'
  OBVIOUS
<1>0. Places /\ AtHand /\ OneDelivers
  BY DEF Control
<1>a. CASE ~alive'
  BY <1>a DEF Mirrored, Latched, Relayed
<1>b. CASE alive'
<2>a. alive /\ subscribed /\ UNCHANGED alive
  <3>1. alive' = FALSE \/ alive' = alive
    <4>1. ASSUME NEW t \in Threads, Begin(t) \/ Runs(t) PROVE alive' = alive
      BY <4>1 DEF Begin, Runs, Callback, Work, Deliver, Drained, CheckAlive, Latch,
                  RefreshCache, Beacon, PostChange, Finish, sdk, mine
    <4>2. ASSUME NEW o \in Ops, Dispatch(o) PROVE alive' = alive
      BY <4>2 DEF Dispatch, mine
    <4> QED
      BY <4>1, <4>2 DEF Next, Join, RunPosted, Destroy, Destructor, Unsubscribe, Retire,
                        JoinWorker, ResetClient, JoinClient, vars, mine
  <3> QED BY <1>b, <3>1 DEF Teardown
\* A thread that goes from one place outside the callback to another.
<2>1. ASSUME NEW t \in Threads, NEW l \in {"idle", "call", "drain", "done"}, Goes(t, l),
             at[t] \notin Calling, val' = [val EXCEPT ![t] = val'[t]],
             UNCHANGED <<state_, events, snapshot, told>>,
             \/ UNCHANGED posted
             \/ \E p \in Posts : posted' = Append(posted, p) /\ p.kind # "changed"
      PROVE  Mirrored'
  <3>1. at'[t] \notin Calling /\ \A u \in Threads : u # t => at'[u] = at[u] /\ val'[u] = val[u]
    BY <1>0, <2>1, Others DEF Places, Calling
  <3>2. Latched'
    BY <2>a, <2>1, <3>1 DEF Mirrored, Latched, Calling
  <3>3. ASSUME Hears(state_, posted, told) PROVE Hears(state_', posted', told')
    <4>1. posted \in Seq(Posts) /\ UNCHANGED <<state_, told>>
      BY <1>0, <2>1 DEF Places
    <4>2. CASE UNCHANGED posted
      BY <3>3, <4>1, <4>2
    <4>3. ASSUME NEW p \in Posts, posted' = Append(posted, p), p.kind # "changed"
          PROVE  Hears(state_', posted', told')
      BY <3>3, <4>1, <4>3, HearsAnswer
    <4> QED BY <2>1, <4>2, <4>3
  <3>4. Relayed'
    BY <2>a, <2>1, <3>1, <3>3 DEF Mirrored, Relayed
  <3> QED BY <3>2, <3>4 DEF Mirrored
\* A transition that is one: the queue holds the new state last.
<2>2. ASSUME events' # <<>>, events'[Len(events')] = state_'
      PROVE  Mirrored'
  BY <2>2 DEF Mirrored, Latched, Relayed
<2>3. ASSUME NEW o \in Ops, Dispatch(o)
      PROVE  Mirrored'
  BY <2>a, <2>3 DEF Dispatch, sdk, mine, Mirrored, Latched, Relayed
<2>4. CASE Destroy \/ Destructor \/ UNCHANGED vars
  BY <2>a, <2>4 DEF Destroy, Destructor, Unsubscribe, Retire, JoinWorker, ResetClient, JoinClient,
                    vars, sdk, mine, Mirrored, Latched, Relayed
<2>5. CASE Join
  <3>1. /\ Goes("work", "call") /\ at["work"] = "idle"
        /\ UNCHANGED <<state_, events, snapshot, val, told, posted>>
    BY <2>5 DEF Join, sdk, mine
  <3>2. val' = [val EXCEPT !["work"] = val'["work"]]
    BY <1>0, <3>1 DEF Places
  <3> QED BY <2>1, <3>1, <3>2 DEF Threads, Calling
<2>6. CASE RunPosted
  <3>1. /\ posted # <<>> /\ posted' = Tail(posted)
        /\ told' = IF Head(posted).kind = "changed" THEN Head(posted).value ELSE told
        /\ UNCHANGED <<state_, events, snapshot, at, val>>
    BY <2>a, <2>6 DEF RunPosted, sdk, mine
  <3>2. Hears(state_, posted, told) => Hears(state_', posted', told')
    BY <1>0, <3>1, HearsRun DEF Places
  <3> QED BY <2>a, <3>1, <3>2 DEF Mirrored, Latched, Relayed
<2>b. \A t \in Threads : val = [val EXCEPT ![t] = val[t]]
  BY <1>0 DEF Places
<2>7. ASSUME NEW t \in Threads, Begin(t)
      PROVE  Mirrored'
  <3>1. /\ Goes(t, "call") /\ at[t] = "idle"
        /\ UNCHANGED <<state_, events, snapshot, val, told, posted>>
    BY <2>7 DEF Begin, sdk, mine
  <3> QED BY <2>1, <2>b, <3>1 DEF Calling
<2>8. ASSUME NEW t \in Threads, Work(t)
      PROVE  Mirrored'
  <3>1. PICK s \in States, g \in BOOLEAN : SetState(t, s, g)
    BY <2>8 DEF Work
  <3>2. PICK l \in {"drain", "done"} : Goes(t, l)
    BY <2>8 DEF Work
  <3>3. at[t] = "call" /\ UNCHANGED <<snapshot, val, told, posted>>
    BY <2>8 DEF Work, mine
  <3>4. CASE s = state_
    BY <1>0, <2>1, <2>b, <3>1, <3>2, <3>3, <3>4, Transition DEF Calling
  <3>5. CASE s # state_
    BY <1>0, <2>2, <3>1, <3>5, Transition
  <3> QED BY <3>4, <3>5
<2>9. ASSUME NEW t \in Threads, Deliver(t)
      PROVE  Mirrored'
  <3>1. /\ at[t] = "drain" /\ events # <<>> /\ events' = Tail(events)
        /\ val' = [val EXCEPT ![t] = Head(events)] /\ Goes(t, "check")
        /\ UNCHANGED <<state_, snapshot, told, posted>>
    BY <2>a, <2>9 DEF Deliver, mine
  <3>2. /\ Len(events) \in Nat \ {0} /\ Head(events) = events[1]
        /\ Len(events') = Len(events) - 1
        /\ \A i \in 1 .. Len(events') : events'[i] = events[i + 1]
    BY <1>0, <3>1, HeadTailProperties, LenProperties, EmptySeq DEF Places
  <3>3. events[Len(events)] = state_
    BY <2>a, <3>1 DEF Mirrored, Latched
  <3>4. CASE events' # <<>>
    <4>1. events' \in Seq(States)
      BY <1>0, <3>1 DEF Places
    <4>2. Len(events') # 0
      BY <3>4, <4>1, EmptySeq
    <4>3. Len(events') \in 1 .. Len(events') /\ Len(events') + 1 = Len(events)
      BY <3>2, <4>2
    <4>4. events'[Len(events')] = state_'
      BY <3>1, <3>2, <3>3, <4>3
    <4> QED BY <2>2, <3>4, <4>4
  <3>5. CASE events' = <<>>
    <4>1. Len(events') = 0
      BY <3>5
    <4>2. Len(events) = 1
      BY <3>2, <4>1
    <4>3. Head(events) = state_
      BY <3>2, <3>3, <4>2
    <4>4. /\ at'[t] = "check" /\ val'[t] = state_'
          /\ \A u \in Threads : u # t => at'[u] = at[u] /\ val'[u] = val[u]
      BY <1>0, <3>1, <4>3, Others DEF Places
    <4>5. \A u \in Threads : u # t => at'[u] \notin Calling
      BY <1>0, <3>1, <4>4 DEF OneDelivers, Delivering
    <4> QED BY <3>5, <4>4, <4>5 DEF Mirrored, Latched, Relayed, Calling
  <3> QED BY <3>4, <3>5
<2>10. ASSUME NEW t \in Threads, Drained(t)
       PROVE  Mirrored'
  <3>1. /\ at[t] = "drain" /\ Goes(t, "done") /\ val' = [val EXCEPT ![t] = None]
        /\ UNCHANGED <<state_, events, snapshot, told, posted>>
    BY <2>10 DEF Drained, mine
  <3>2. val' = [val EXCEPT ![t] = val'[t]]
    BY <1>0, <3>1 DEF Places
  <3> QED BY <2>1, <3>1, <3>2 DEF Calling
<2>c. ASSUME NEW t \in Threads, at[t] \in Delivering
      PROVE  \A u \in Threads : u # t => at[u] \notin Calling
  BY <1>0, <2>c DEF OneDelivers, Delivering
<2>11. ASSUME NEW t \in Threads, NEW l \in Calling, Goes(t, l), at[t] \in Calling,
              UNCHANGED <<state_, events, val, told, posted>>,
              \/ at[t] = "check" /\ l = "latch" /\ UNCHANGED snapshot
              \/ at[t] = "latch" /\ l \notin {"check", "latch"} /\ snapshot' = val[t]
              \/ at[t] \notin {"check", "latch"} /\ l \notin {"check", "latch"} /\ UNCHANGED snapshot
       PROVE  Mirrored'
  <3>1. at'[t] = l /\ \A u \in Threads : u # t => at'[u] = at[u] /\ at[u] \notin Calling
    BY <1>0, <2>c, <2>11, Others DEF Delivering
  <3>2. events = <<>> => val[t] = state_
    BY <2>a, <2>11 DEF Mirrored, Latched
  <3>3. events = <<>> /\ at[t] \notin {"check", "latch"} => snapshot = state_
    <4>1. \A u \in Threads : u # t => at[u] \notin {"check", "latch"}
      BY <3>1 DEF Calling
    <4> QED BY <2>a, <4>1 DEF Mirrored, Latched
  <3>4. Latched'
    BY <2>a, <2>11, <3>1, <3>2, <3>3 DEF Mirrored, Latched
  <3>5. Relayed'
    BY <2>11, <3>1 DEF Relayed
  <3> QED BY <3>4, <3>5 DEF Mirrored
<2>12. ASSUME NEW t \in Threads, CheckAlive(t)
       PROVE  Mirrored'
  <3>1. /\ at[t] = "check" /\ Goes(t, "latch")
        /\ UNCHANGED <<state_, events, val, told, posted, snapshot>>
    BY <2>a, <2>12 DEF CheckAlive, sdk, mine
  <3> QED BY <2>11, <3>1 DEF Calling
<2>13. ASSUME NEW t \in Threads, Latch(t)
       PROVE  Mirrored'
  <3>1. /\ at[t] = "latch" /\ Goes(t, "cache") /\ snapshot' = val[t]
        /\ UNCHANGED <<state_, events, val, told, posted>>
    BY <2>13 DEF Latch, sdk
  <3> QED BY <2>11, <3>1 DEF Calling
<2>14. ASSUME NEW t \in Threads, RefreshCache(t)
       PROVE  Mirrored'
  <3>1. /\ at[t] = "cache" /\ Goes(t, "beacon")
        /\ UNCHANGED <<state_, events, val, told, posted, snapshot>>
    BY <2>14 DEF RefreshCache, sdk
  <3> QED BY <2>11, <3>1 DEF Calling
<2>15. ASSUME NEW t \in Threads, Beacon(t)
       PROVE  Mirrored'
  <3>1. PICK s \in States : SetState(t, s, granted)
    BY <2>15 DEF Beacon
  <3>2. at[t] = "beacon" /\ Goes(t, "post") /\ UNCHANGED <<snapshot, val, told, posted>>
    BY <2>15 DEF Beacon, mine
  <3>3. CASE s = state_
    <4>1. UNCHANGED <<state_, events>>
      BY <1>0, <3>1, <3>3, Transition
    <4> QED BY <2>11, <3>2, <4>1 DEF Calling
  <3>4. CASE s # state_
    BY <1>0, <2>2, <3>1, <3>4, Transition
  <3> QED BY <3>3, <3>4
<2>16. ASSUME NEW t \in Threads, PostChange(t)
       PROVE  Mirrored'
  <3> DEFINE p == [kind |-> "changed", value |-> val[t]]
  <3>1. /\ at[t] = "post" /\ Goes(t, "drain") /\ posted' = Append(posted, p)
        /\ UNCHANGED <<state_, events, val, told, snapshot>>
    BY <2>16 DEF PostChange, sdk, mine
  <3>2. at'[t] = "drain" /\ \A u \in Threads : u # t => at'[u] = at[u] /\ at[u] \notin Calling
    BY <1>0, <2>c, <3>1, Others DEF Delivering, Calling
  <3>3. events = <<>> => val[t] = state_ /\ snapshot = state_
    <4>1. \A u \in Threads : at[u] \notin {"check", "latch"}
      BY <3>1, <3>2 DEF Calling
    <4> QED BY <2>a, <3>1, <4>1 DEF Mirrored, Latched, Calling
  <3>4. Latched'
    BY <2>a, <3>1, <3>2, <3>3 DEF Mirrored, Latched, Calling
  <3>5. p \in Posts /\ p.kind = "changed" /\ p.value = val[t]
    BY <1>0 DEF Places, Posts
  <3> HIDE DEF p
  <3>6. events = <<>> => Hears(state_', posted', told')
    BY <1>0, <3>1, <3>3, <3>5, HearsPosted DEF Places
  <3>7. Relayed'
    BY <3>1, <3>6 DEF Relayed
  <3> QED BY <3>4, <3>7 DEF Mirrored
<2>17. ASSUME NEW t \in Threads, Finish(t)
       PROVE  Mirrored'
  <3>1. /\ at[t] = "done" /\ Goes(t, "idle")
        /\ posted' = IF t = "work" THEN Append(posted, [kind |-> op, value |-> None]) ELSE posted
        /\ UNCHANGED <<state_, events, val, told, snapshot>>
    BY <2>17 DEF Finish, sdk, mine
  <3>2. \/ UNCHANGED posted
        \/ \E p \in Posts : posted' = Append(posted, p) /\ p.kind # "changed"
    <4>1. CASE t = "work"
      <5>1. op \in Ops
        BY <1>0, <3>1, <4>1 DEF AtHand
      <5>2. [kind |-> op, value |-> None] \in Posts /\ op # "changed"
        BY <5>1 DEF Posts, Ops
      <5> QED BY <3>1, <4>1, <5>2
    <4> QED BY <3>1, <4>1
  <3> QED BY <2>1, <2>b, <3>1, <3>2 DEF Calling
<2> QED
  BY <2>3, <2>4, <2>5, <2>6, <2>7, <2>8, <2>9, <2>10, <2>12, <2>13, <2>14, <2>15, <2>16,
     <2>17 DEF Next, Runs, Callback
<1> QED BY <1>a, <1>b

\* Once the Client has nothing to deliver, what the audio thread reads is its state, and
\* so is the last word of the message thread when its lambdas have run, also where the
\* host calls from a thread of its own.
THEOREM SnapshotIsCurrent == Spec => []SnapshotSettles
<1>1. Init => Teardown
  BY DEF Init, Teardown, Gone, Threads
<1>2. Control /\ Mirrored => SnapshotSettles
  <2> SUFFICES ASSUME Control, Mirrored, Settled PROVE SnapshotSettles
    BY DEF SnapshotSettles
  <2>1. \A t \in Threads : at[t] \notin Delivering
    <3>1. \A t \in Threads : t # None
      BY DEF Threads, None
    <3> QED BY <3>1 DEF Control, OneDelivers, Settled
  <2>2. snapshot = state_ /\ Hears(state_, posted, told)
    BY <2>1 DEF Mirrored, Latched, Relayed, Settled, Delivering, Calling
  <2> QED BY <2>2 DEF SnapshotSettles, Hears
<1> QED
  BY <1>1, <1>2, ControlInit, ControlStep, TeardownStep, MirroredInit, MirroredStep, PTL
     DEF Spec
----------------------------------------------------------------------------
(* The object implements StateMirror. *)

\* What a thread delivers, and a lambda tells: a state, as AtHand has it.
Told == States \cup {None}

\* The changes among the posted lambdas, as a fold.
Telling == INSTANCE FoldProofs WITH Op <- LAMBDA p, x, e : Change(x, e)

ChangesOf(q) == Telling!Fold(0, <<>>, q)

\* One lambda more at the end is one change more, or none.
LEMMA ChangesOn ==
  /\ \A q : FoldLeft(Change, <<>>, q) = ChangesOf(q)
  /\ ChangesOf(<<>>) = <<>>
  /\ \A q \in Seq(Posts), p \in Posts : ChangesOf(Append(q, p)) = Change(ChangesOf(q), p)
<1>1. \A q : FoldLeft(Change, <<>>, q) = ChangesOf(q)
  BY DEF ChangesOf, Telling!Fold, Telling!FoldLeft, FoldLeft, MapThenFoldSet,
         Telling!MapThenFoldSet, Max, Telling!Max
<1>2. ChangesOf(<<>>) = <<>>
  BY Telling!FoldEmpty DEF ChangesOf
<1>3. \A q \in Seq(Posts), p \in Posts : ChangesOf(Append(q, p)) = Change(ChangesOf(q), p)
  BY Telling!FoldAppend DEF ChangesOf
<1> QED BY <1>1, <1>2, <1>3

LEMMA Nothing == \A S : <<>> \in Seq(S)
OBVIOUS

LEMMA ChangeType == \A x \in Seq(Told), p \in Posts : Change(x, p) \in Seq(Told)
BY DEF Change, Posts, Told

LEMMA ChangesType == \A q \in Seq(Posts) : ChangesOf(q) \in Seq(Told)
<1> DEFINE T == {q \in Seq(Posts) : ChangesOf(q) \in Seq(Told)}
<1>1. <<>> \in T
  <2>1. ChangesOf(<<>>) \in Seq(Told) /\ <<>> \in Seq(Posts)
    BY ChangesOn, Nothing
  <2> QED BY <2>1
<1>2. ASSUME NEW q \in Seq(Posts), NEW p \in Posts, q \in T PROVE Append(q, p) \in T
  BY <1>2, ChangesOn, ChangeType, AppendProperties
<1>3. T = {q \in Seq(Posts) : ChangesOf(q) \in Seq(Told)}
  OBVIOUS
<1> HIDE DEF T
<1>4. \A q \in Seq(Posts) : q \in T
  BY <1>1, <1>2, Telling!SeqInduct
<1> QED BY <1>3, <1>4

\* Sequences taken apart and put together again.
LEMMA Pieces ==
  \A S : \A q, r \in Seq(S), e \in S :
    /\ q \o Append(r, e) = Append(q \o r, e)
    /\ q \o <<>> = q /\ <<>> \o q = q
    /\ q \o <<e>> = Append(q, e) /\ <<e>> \in Seq(S)
    /\ <<e>> \o q # <<>> /\ Head(<<e>> \o q) = e /\ Tail(<<e>> \o q) = q
<1> SUFFICES ASSUME NEW S, NEW q \in Seq(S), NEW r \in Seq(S), NEW e \in S
             PROVE  /\ q \o Append(r, e) = Append(q \o r, e)
                    /\ q \o <<>> = q /\ <<>> \o q = q
                    /\ q \o <<e>> = Append(q, e) /\ <<e>> \in Seq(S)
                    /\ <<e>> \o q # <<>> /\ Head(<<e>> \o q) = e /\ Tail(<<e>> \o q) = q
  OBVIOUS
<1>1. q \o Append(r, e) = Append(q \o r, e)
  OBVIOUS
<1>2. q \o <<>> = q /\ <<>> \o q = q
  OBVIOUS
<1>3. q \o <<e>> = Append(q, e) /\ <<e>> \in Seq(S)
  OBVIOUS
<1>4. <<e>> \o q # <<>> /\ Head(<<e>> \o q) = e
  OBVIOUS
<1>5. Tail(<<e>> \o q) = q
  OBVIOUS
<1> QED BY <1>1, <1>2, <1>3, <1>4, <1>5

\* A sequence is its first element and the rest.
LEMMA FirstAndRest ==
  \A S : \A q \in Seq(S) : q # <<>> =>
    /\ Head(q) \in S /\ Tail(q) \in Seq(S) /\ q = <<Head(q)>> \o Tail(q)
OBVIOUS

\* The first lambda tells before the others do.
LEMMA ChangesFirst ==
  \A q \in Seq(Posts) : q # <<>> =>
    ChangesOf(q) = Change(<<>>, Head(q)) \o ChangesOf(Tail(q))
<1> DEFINE T == {q \in Seq(Posts) :
                   \A p \in Posts : ChangesOf(<<p>> \o q) = Change(<<>>, p) \o ChangesOf(q)}
<1>1. <<>> \in T
  <2>1. ASSUME NEW p \in Posts
        PROVE  ChangesOf(<<p>> \o <<>>) = Change(<<>>, p) \o ChangesOf(<<>>)
    <3>1. <<p>> \o <<>> = Append(<<>>, p) /\ <<>> \in Seq(Posts)
      OBVIOUS
    <3>2. Change(<<>>, p) \in Seq(Told)
      <4>1. <<>> \in Seq(Told)
        BY Nothing
      <4> HIDE DEF T
      <4> QED BY <4>1, ChangeType
    <3>3. Change(<<>>, p) \o <<>> = Change(<<>>, p)
      BY <3>2
    <3> QED BY <3>1, <3>3, ChangesOn
  <2> QED BY <2>1
<1>2. ASSUME NEW q \in Seq(Posts), NEW e \in Posts, q \in T PROVE Append(q, e) \in T
  <2>1. ASSUME NEW p \in Posts
        PROVE  ChangesOf(<<p>> \o Append(q, e)) = Change(<<>>, p) \o ChangesOf(Append(q, e))
    <3> DEFINE a == Change(<<>>, p)
               b == ChangesOf(q)
    <3>1. <<p>> \o Append(q, e) = Append(<<p>> \o q, e) /\ <<p>> \o q \in Seq(Posts)
      OBVIOUS
    <3>2. ChangesOf(<<p>> \o Append(q, e)) = Change(ChangesOf(<<p>> \o q), e)
      BY <3>1, ChangesOn
    <3>3. ChangesOf(<<p>> \o q) = a \o b
      BY <1>2
    <3>4. a \in Seq(Told) /\ b \in Seq(Told) /\ e.value \in Told
      <4>1. <<>> \in Seq(Told)
        BY Nothing
      <4>2. e.value \in Told
        BY DEF Posts, Told
      <4> HIDE DEF T
      <4> QED BY <4>1, <4>2, ChangeType, ChangesType
    <3>5. ChangesOf(Append(q, e)) = Change(b, e)
      BY ChangesOn
    <3> HIDE DEF a, b
    <3>6. Change(a \o b, e) = a \o Change(b, e)
      <4>1. a \o Append(b, e.value) = Append(a \o b, e.value)
        BY <3>4, Pieces
      <4> QED BY <4>1 DEF Change
    <3>7. ChangesOf(<<p>> \o Append(q, e)) = a \o ChangesOf(Append(q, e))
      BY <3>2, <3>3, <3>5, <3>6
    <3> QED BY <3>7 DEF a
  <2>2. Append(q, e) \in Seq(Posts)
    OBVIOUS
  <2> QED BY <2>1, <2>2
<1>3. \A q \in T, p \in Posts : ChangesOf(<<p>> \o q) = Change(<<>>, p) \o ChangesOf(q)
  OBVIOUS
<1> HIDE DEF T
<1>4. \A q \in Seq(Posts) : q \in T
  BY <1>1, <1>2, Telling!SeqInduct
<1>5. ASSUME NEW q \in Seq(Posts), q # <<>>
      PROVE  ChangesOf(q) = Change(<<>>, Head(q)) \o ChangesOf(Tail(q))
  <2>1. Head(q) \in Posts /\ Tail(q) \in Seq(Posts) /\ q = <<Head(q)>> \o Tail(q)
    BY <1>5, FirstAndRest
  <2> QED BY <1>3, <1>4, <2>1
<1> QED BY <1>5

\* What is at hand is what the thread with the baton delivers.
LEMMA HandIs ==
  ASSUME Control, NEW t \in Threads, at[t] \in Delivering, NEW places
  PROVE  InHand(places) = IF at[t] \in places THEN <<val[t]>> ELSE <<>>
BY DEF Control, OneDelivers, InHand

\* It stays where it is while no thread enters or leaves the callback.
LEMMA HandStays ==
  ASSUME Control, NEW t \in Threads, NEW l, Goes(t, l), at[t] \notin Calling,
         l \notin Calling, val' = [val EXCEPT ![t] = val'[t]],
         baton' = baton \/ (baton = None /\ baton' = t) \/ (baton = t /\ baton' = None)
  PROVE  \A places \in SUBSET Calling : InHand(places)' = InHand(places)
<1> SUFFICES ASSUME NEW places \in SUBSET Calling
             PROVE  InHand(places)' = InHand(places)
  OBVIOUS
<1>1. at'[t] = l /\ \A u \in Threads : u # t => at'[u] = at[u]
  BY Others DEF Control
<1>2. \A u \in Threads : u # t => val'[u] = val[u]
  BY DEF Control, Places
<1>3. None \notin Threads
  BY DEF Threads, None
<1>4. CASE baton' = baton
  BY <1>1, <1>2, <1>4 DEF InHand
<1>5. CASE baton' # baton
  <2>1. baton = t \/ baton = None
    BY <1>5
  <2>2. InHand(places) = <<>>
    BY <1>3, <2>1 DEF InHand
  <2>3. baton' = t \/ baton' = None
    BY <1>5
  <2>4. InHand(places)' = <<>>
    BY <1>1, <1>3, <2>3 DEF InHand
  <2> QED BY <2>2, <2>4
<1> QED BY <1>4, <1>5

\* It moves with the thread that goes on with its delivery.
LEMMA HandMoves ==
  ASSUME Control, NEW t \in Threads, NEW l \in Delivering, Goes(t, l),
         at[t] \in Delivering, baton' = baton
  PROVE  \A places : /\ InHand(places) = IF at[t] \in places THEN <<val[t]>> ELSE <<>>
                     /\ InHand(places)' = IF l \in places THEN <<val'[t]>> ELSE <<>>
<1>1. baton = t /\ at'[t] = l
  BY Others DEF Control, OneDelivers
<1> QED BY <1>1 DEF InHand

----------------------------------------------------------------------------
\* The two queues of the mirror.
Pending == InHand({"check", "latch"}) \o events
Telt    == Changes \o InHand({"cache", "beacon", "post"})

LEMMA QueueTypes ==
  Control => /\ events \in Seq(Told) /\ Changes \in Seq(Told)
             /\ \A t \in Threads : val[t] \in Told
             /\ \A places : InHand(places) \in Seq(Told)
<1> SUFFICES ASSUME Control
             PROVE  /\ events \in Seq(Told) /\ Changes \in Seq(Told)
                    /\ \A t \in Threads : val[t] \in Told
                    /\ \A places : InHand(places) \in Seq(Told)
  OBVIOUS
<1>1. events \in Seq(Told)
  BY DEF Control, Places, Told
<1>2. Changes \in Seq(Told)
  BY ChangesOn, ChangesType DEF Control, Places, Changes
<1>3. \A t \in Threads : val[t] \in Told
  BY DEF Control, Places, Told
<1>4. \A places : InHand(places) \in Seq(Told)
  <2>1. \A v \in Told : <<v>> \in Seq(Told)
    OBVIOUS
  <2>2. \A places : InHand(places) = <<>> \/ \E t \in Threads : InHand(places) = <<val[t]>>
    BY DEF InHand
  <2> QED BY <1>3, <2>1, <2>2, Nothing
<1> QED BY <1>1, <1>2, <1>3, <1>4

\* What leaves all that is mirrored as it is.
LEMMA MirrorStays ==
  ASSUME UNCHANGED <<state_, snapshot, told, alive>>, Pending' = Pending, Telt' = Telt
  PROVE  [Mirror!Next]_(Mirror!mirrorVars)
BY DEF Pending, Telt, Mirror!mirrorVars

\* A call or a reply takes the Client to a state: a transition, or nothing.
LEMMA MirrorMoves ==
  ASSUME Control, NEW t, NEW s \in States, NEW g, SetState(t, s, g),
         UNCHANGED <<snapshot, told, alive, posted>>,
         InHand({"check", "latch"})' = InHand({"check", "latch"}),
         InHand({"cache", "beacon", "post"})' = InHand({"cache", "beacon", "post"})
  PROVE  [Mirror!Next]_(Mirror!mirrorVars)
<1> DEFINE h == InHand({"check", "latch"})
<1>1. h' = h /\ InHand({"cache", "beacon", "post"})' = InHand({"cache", "beacon", "post"})
  OBVIOUS
<1>2. Telt' = Telt
  BY <1>1 DEF Telt, Changes
<1>3. h \in Seq(Told) /\ events \in Seq(Told) /\ s \in Told
  BY QueueTypes DEF Told
<1>4. CASE s = state_
  <2>1. state_' = state_ /\ events' = events
    BY <1>4 DEF SetState
  <2>2. Pending' = Pending
    BY <1>1, <2>1 DEF Pending
  <2> QED BY <1>2, <2>1, <2>2, MirrorStays
<1>5. CASE s # state_
  <2>1. state_' = s /\ events' = Append(events, s)
    BY <1>5 DEF SetState
  <2>2. Pending' = h \o Append(events, s) /\ Pending = h \o events
    BY <1>1, <2>1 DEF Pending
  <2> HIDE DEF h
  <2>3. h \o Append(events, s) = Append(h \o events, s)
    BY <1>3, Pieces
  <2>4. Pending' = Append(Pending, state_')
    BY <2>1, <2>2, <2>3
  <2>5. Mirror!Transition
    BY <1>2, <1>5, <2>1, <2>4 DEF Mirror!Transition, Pending, Telt
  <2> QED BY <2>5 DEF Mirror!Next
<1> QED BY <1>4, <1>5

\* Every step of the adapter is one of the mirror, or none.
LEMMA MirrorStep ==
  Control /\ Flags /\ Teardown /\ [Next]_vars => [Mirror!Next]_(Mirror!mirrorVars)
<1> SUFFICES ASSUME Control, Flags, Teardown, [Next]_vars
             PROVE  [Mirror!Next]_(Mirror!mirrorVars)
  OBVIOUS
<1>0. /\ events \in Seq(Told) /\ Changes \in Seq(Told)
      /\ \A t \in Threads : val[t] \in Told
      /\ \A places : InHand(places) \in Seq(Told)
  BY QueueTypes
<1>t. \A t \in Threads : val = [val EXCEPT ![t] = val[t]]
  BY DEF Control, Places
<1>p. /\ posted \in Seq(Posts) /\ ChangesOf(posted) = Changes /\ ChangesOf(posted)' = Changes'
      /\ \A t \in Threads : at[t] \in Calling => val[t] \in States
  BY ChangesOn DEF Control, Places, AtHand, Changes
\* Steps that no delivery is part of.
<1>1. ASSUME UNCHANGED <<state_, snapshot, told, events, baton, at, val, posted>>,
             alive' = alive \/ alive' = FALSE
      PROVE  [Mirror!Next]_(Mirror!mirrorVars)
  <2>1. Pending' = Pending /\ Telt' = Telt
    BY <1>1 DEF Pending, Telt, InHand, Changes
  <2>2. CASE alive' = alive
    BY <1>1, <2>1, <2>2, MirrorStays
  <2>3. CASE alive' # alive
    <3>1. alive /\ alive' = FALSE
      BY <1>1, <2>3 DEF Flags
    <3>2. Mirror!Close
      BY <1>1, <2>1, <3>1 DEF Mirror!Close, Pending, Telt
    <3> QED BY <3>2 DEF Mirror!Next
  <2> QED BY <2>2, <2>3
<1>2. CASE Destroy \/ Destructor \/ UNCHANGED vars \/ \E o \in Ops : Dispatch(o)
  <2>1. /\ UNCHANGED <<state_, snapshot, told, events, baton, at, val, posted>>
        /\ alive' = alive \/ alive' = FALSE
    BY <1>2 DEF Destroy, Destructor, Unsubscribe, Retire, JoinWorker, ResetClient, JoinClient,
       Dispatch,
                vars, sdk, mine
  <2> QED BY <1>1, <2>1
<1>3. CASE RunPosted
  <2> DEFINE b == InHand({"cache", "beacon", "post"})
             p == Head(posted)
  <2>1. /\ posted # <<>> /\ posted' = Tail(posted)
        /\ UNCHANGED <<state_, snapshot, alive, events, baton, at, val>>
        /\ IF p.kind = "changed" /\ alive THEN told' = p.value ELSE told' = told
    BY <1>3 DEF RunPosted, sdk, mine
  <2>2. p \in Posts /\ Tail(posted) \in Seq(Posts)
    BY <1>p, <2>1, FirstAndRest
  <2>3. Changes = Change(<<>>, p) \o Changes'
    BY <1>p, <2>1, ChangesFirst
  <2>4. Changes' \in Seq(Told)
    BY <1>p, <2>1, <2>2, ChangesType
  <2>5. b' = b /\ Pending' = Pending
    BY <2>1 DEF InHand, Pending
  <2>6. b \in Seq(Told) /\ Telt = Changes \o b /\ Telt' = Changes' \o b
    BY <1>0, <2>5 DEF Telt
  <2>7. CASE p.kind # "changed"
    <3>1. Changes = Changes'
      BY <2>3, <2>4, <2>7, Pieces DEF Change
    <3>2. told' = told /\ Telt' = Telt
      BY <2>1, <2>6, <2>7, <3>1
    <3> QED BY <2>1, <2>5, <3>2, MirrorStays
  <2>8. CASE p.kind = "changed"
    <3> DEFINE v == p.value
    <3>1. v \in Told /\ <<v>> \in Seq(Told)
      BY <2>2, Pieces DEF Posts, Told
    <3>2. Changes = <<v>> \o Changes'
      BY <2>3, <2>8 DEF Change
    <3>3. Telt = <<v>> \o Telt' /\ Telt' \in Seq(Told)
      <4> DEFINE c == Changes'
      <4>1. c \in Seq(Told) /\ <<v>> \in Seq(Told) /\ b \in Seq(Told)
        BY <2>4, <2>6, <3>1
      <4>2. Telt = (<<v>> \o c) \o b /\ Telt' = c \o b
        BY <2>6, <3>2
      <4> HIDE DEF c, v, b
      <4>3. (<<v>> \o c) \o b = <<v>> \o (c \o b)
        BY <4>1, ConcatAssociative
      <4>4. c \o b \in Seq(Told)
        BY <4>1
      <4> QED BY <4>2, <4>3, <4>4
    <3> HIDE DEF v
    <3>4. Telt # <<>> /\ Head(Telt) = v /\ Tail(Telt) = Telt'
      BY <3>1, <3>3, Pieces
    <3>5. CASE alive
      <4>1. told' = v
        BY <2>1, <2>8, <3>5 DEF v
      <4>2. Mirror!Tell
        BY <2>1, <2>5, <3>4, <3>5, <4>1 DEF Mirror!Tell, Pending, Telt
      <4> QED BY <4>2 DEF Mirror!Next
    <3>6. CASE ~alive
      <4>1. told' = told
        BY <2>1, <3>6
      <4>2. Mirror!LeaveOut
        BY <2>1, <2>5, <3>4, <3>6, <4>1 DEF Mirror!LeaveOut, Pending, Telt
      <4> QED BY <4>2 DEF Mirror!Next
    <3> QED BY <3>5, <3>6
  <2> QED BY <2>7, <2>8
\* A thread that goes from one place outside the callback to another.
<1>4. ASSUME NEW t \in Threads, NEW l \in {"idle", "call", "drain", "done"}, Goes(t, l),
             at[t] \notin Calling, val' = [val EXCEPT ![t] = val'[t]],
             baton' = baton \/ (baton = None /\ baton' = t) \/ (baton = t /\ baton' = None),
             UNCHANGED <<state_, events, snapshot, told, alive>>, Changes' = Changes
      PROVE  [Mirror!Next]_(Mirror!mirrorVars)
  <2>1. \A places \in SUBSET Calling : InHand(places)' = InHand(places)
    BY <1>4, HandStays DEF Calling
  <2>2. Pending' = Pending /\ Telt' = Telt
    BY <1>4, <2>1 DEF Pending, Telt, Calling
  <2> QED BY <1>4, <2>2, MirrorStays
<1>5. CASE Join
  <2>1. /\ Goes("work", "call") /\ at["work"] = "idle" /\ "work" \in Threads
        /\ UNCHANGED <<state_, events, snapshot, told, alive, posted, val, baton>>
    BY <1>5 DEF Join, sdk, mine, Threads
  <2>2. Changes' = Changes /\ val' = [val EXCEPT !["work"] = val'["work"]]
    BY <1>t, <2>1 DEF Changes
  <2> QED BY <1>4, <2>1, <2>2 DEF Calling
<1>6. ASSUME NEW t \in Threads, Begin(t)
      PROVE  [Mirror!Next]_(Mirror!mirrorVars)
  <2>1. /\ Goes(t, "call") /\ at[t] = "idle"
        /\ UNCHANGED <<state_, events, snapshot, told, alive, posted, val, baton>>
    BY <1>6 DEF Begin, sdk, mine
  <2>2. Changes' = Changes /\ val' = [val EXCEPT ![t] = val'[t]]
    BY <1>t, <2>1 DEF Changes
  <2> QED BY <1>4, <2>1, <2>2 DEF Calling
<1>7. ASSUME NEW t \in Threads, Work(t)
      PROVE  [Mirror!Next]_(Mirror!mirrorVars)
  <2>1. PICK s \in States, g \in BOOLEAN : SetState(t, s, g)
    BY <1>7 DEF Work
  <2>2. PICK l \in {"drain", "done"} : Goes(t, l)
    BY <1>7 DEF Work
  <2>3. /\ at[t] = "call" /\ UNCHANGED <<snapshot, told, alive, posted, val>>
        /\ baton' = baton \/ (baton = None /\ baton' = t)
    BY <1>7 DEF Work, mine
  <2>4. \A places \in SUBSET Calling : InHand(places)' = InHand(places)
    BY <1>t, <2>2, <2>3, HandStays DEF Calling
  <2>5. /\ InHand({"check", "latch"})' = InHand({"check", "latch"})
        /\ InHand({"cache", "beacon", "post"})' = InHand({"cache", "beacon", "post"})
    BY <2>4 DEF Calling
  <2> QED BY <2>1, <2>3, <2>5, MirrorMoves
<1>8. ASSUME NEW t \in Threads, Deliver(t)
      PROVE  [Mirror!Next]_(Mirror!mirrorVars)
  <2> DEFINE e == Head(events)
  <2>1. /\ at[t] = "drain" /\ events # <<>> /\ events' = Tail(events)
        /\ val' = [val EXCEPT ![t] = e] /\ baton' = baton
        /\ UNCHANGED <<state_, snapshot, told, alive, posted>>
    BY <1>8 DEF Deliver, mine
  <2>2. PICK l \in {"check", "drain"} : Goes(t, l) /\ (l = "check" <=> subscribed)
    BY <1>8 DEF Deliver
  <2>3. val'[t] = e
    BY <2>1 DEF Control, Places
  <2>4. \A places \in SUBSET Calling :
          /\ InHand(places) = <<>>
          /\ InHand(places)' = IF l \in places THEN <<e>> ELSE <<>>
    BY <2>1, <2>2, <2>3, HandMoves DEF Calling, Delivering
  <2>5. /\ e \in Told /\ Tail(events) \in Seq(Told) /\ events = <<e>> \o Tail(events)
    BY <1>0, <2>1, FirstAndRest
  <2>6. Telt' = Telt
    BY <2>1, <2>4 DEF Telt, Changes, Calling
  <2>7. Pending = events
    <3>1. Pending = <<>> \o events
      BY <2>4 DEF Pending, Calling
    <3> QED BY <1>0, <2>5, <3>1, Pieces
  <2>8. CASE l = "check"
    <3>1. Pending' = <<e>> \o Tail(events)
      BY <2>1, <2>4, <2>8 DEF Pending, Calling
    <3>2. Pending' = Pending
      BY <2>5, <2>7, <3>1
    <3> QED BY <2>1, <2>6, <3>2, MirrorStays
  <2>9. CASE l = "drain"
    <3>1. Pending' = <<>> \o Tail(events)
      BY <2>1, <2>4, <2>9 DEF Pending, Calling
    <3>2. Pending' = Tail(Pending)
      BY <2>5, <2>7, <3>1, Pieces
    <3>3. ~alive
      BY <2>2, <2>9 DEF Teardown
    <3>4. Mirror!LeaveOut
      BY <2>1, <2>6, <2>7, <3>2, <3>3 DEF Mirror!LeaveOut, Pending, Telt
    <3> QED BY <3>4 DEF Mirror!Next
  <2> QED BY <2>8, <2>9
<1>9. ASSUME NEW t \in Threads, Drained(t)
      PROVE  [Mirror!Next]_(Mirror!mirrorVars)
  <2>1. /\ Goes(t, "done") /\ at[t] = "drain" /\ baton' = None
        /\ val' = [val EXCEPT ![t] = None]
        /\ UNCHANGED <<state_, events, snapshot, told, alive, posted>>
    BY <1>9 DEF Drained, mine
  <2>2. Changes' = Changes /\ val' = [val EXCEPT ![t] = val'[t]]
    BY <2>1 DEF Changes, Control, Places
  <2>3. baton = t
    BY <2>1 DEF Control, OneDelivers, Delivering
  <2> QED BY <1>4, <2>1, <2>2, <2>3 DEF Calling
\* The callback, in its five steps.
<1>10. ASSUME NEW t \in Threads, CheckAlive(t)
       PROVE  [Mirror!Next]_(Mirror!mirrorVars)
  <2>1. /\ at[t] = "check"
        /\ UNCHANGED <<state_, events, baton, snapshot, told, alive, posted, val>>
    BY <1>10 DEF CheckAlive, sdk, mine
  <2>2. PICK l \in {"latch", "drain"} : Goes(t, l) /\ (l = "latch" <=> alive)
    BY <1>10 DEF CheckAlive
  <2>3. \A places \in SUBSET Calling :
          /\ InHand(places) = IF "check" \in places THEN <<val[t]>> ELSE <<>>
          /\ InHand(places)' = IF l \in places THEN <<val[t]>> ELSE <<>>
    BY <2>1, <2>2, HandMoves DEF Calling, Delivering
  <2>4. Telt' = Telt
    BY <2>1, <2>3 DEF Telt, Changes, Calling
  <2>5. Pending = <<val[t]>> \o events
    BY <2>3 DEF Pending, Calling
  <2>6. CASE l = "latch"
    <3>1. Pending' = Pending
      BY <2>1, <2>3, <2>6 DEF Pending, Calling
    <3> QED BY <2>1, <2>4, <3>1, MirrorStays
  <2>7. CASE l = "drain"
    <3>1. Pending' = <<>> \o events
      BY <2>1, <2>3, <2>7 DEF Pending, Calling
    <3>2. Pending # <<>> /\ Pending' = Tail(Pending)
      BY <1>0, <2>5, <3>1, Pieces
    <3>3. Mirror!LeaveOut
      BY <2>1, <2>2, <2>4, <2>7, <3>2 DEF Mirror!LeaveOut, Pending, Telt
    <3> QED BY <3>3 DEF Mirror!Next
  <2> QED BY <2>6, <2>7
<1>11. ASSUME NEW t \in Threads, Latch(t)
       PROVE  [Mirror!Next]_(Mirror!mirrorVars)
  <2>1. /\ at[t] = "latch" /\ Goes(t, "cache") /\ snapshot' = val[t]
        /\ UNCHANGED <<state_, events, baton, told, alive, posted, val>>
    BY <1>11 DEF Latch, sdk
  <2>2. \A places \in SUBSET Calling :
          /\ InHand(places) = IF "latch" \in places THEN <<val[t]>> ELSE <<>>
          /\ InHand(places)' = IF "cache" \in places THEN <<val[t]>> ELSE <<>>
    BY <2>1, HandMoves DEF Calling, Delivering
  <2>3. /\ Pending = <<val[t]>> \o events /\ Pending' = <<>> \o events
        /\ Telt = Changes \o <<>> /\ Telt' = Changes \o <<val[t]>>
    BY <2>1, <2>2 DEF Pending, Telt, Changes, Calling
  <2>4. Pending # <<>> /\ Head(Pending) = val[t] /\ Tail(Pending) = Pending'
    BY <1>0, <2>3, Pieces
  <2>5. Telt' = Append(Telt, val[t])
    BY <1>0, <2>3, Pieces
  <2>6. Mirror!Latch
    BY <2>1, <2>4, <2>5 DEF Mirror!Latch, Pending, Telt
  <2> QED BY <2>6 DEF Mirror!Next
<1>12. ASSUME NEW t \in Threads, RefreshCache(t)
       PROVE  [Mirror!Next]_(Mirror!mirrorVars)
  <2>1. /\ at[t] = "cache" /\ Goes(t, "beacon")
        /\ UNCHANGED <<state_, events, baton, snapshot, told, alive, posted, val>>
    BY <1>12 DEF RefreshCache, sdk
  <2>2. \A places \in SUBSET Calling :
          /\ InHand(places) = IF "cache" \in places THEN <<val[t]>> ELSE <<>>
          /\ InHand(places)' = IF "beacon" \in places THEN <<val[t]>> ELSE <<>>
    BY <2>1, HandMoves DEF Calling, Delivering
  <2>3. Pending' = Pending /\ Telt' = Telt
    BY <2>1, <2>2 DEF Pending, Telt, Changes, Calling
  <2> QED BY <2>1, <2>3, MirrorStays
<1>13. ASSUME NEW t \in Threads, Beacon(t)
       PROVE  [Mirror!Next]_(Mirror!mirrorVars)
  <2>1. PICK s \in States : SetState(t, s, granted)
    BY <1>13 DEF Beacon
  <2>2. /\ at[t] = "beacon" /\ Goes(t, "post")
        /\ UNCHANGED <<baton, snapshot, told, alive, posted, val>>
    BY <1>13 DEF Beacon, mine
  <2>3. \A places \in SUBSET Calling :
          /\ InHand(places) = IF "beacon" \in places THEN <<val[t]>> ELSE <<>>
          /\ InHand(places)' = IF "post" \in places THEN <<val[t]>> ELSE <<>>
    BY <2>2, HandMoves DEF Calling, Delivering
  <2>4. /\ InHand({"check", "latch"})' = InHand({"check", "latch"})
        /\ InHand({"cache", "beacon", "post"})' = InHand({"cache", "beacon", "post"})
    BY <2>3 DEF Calling
  <2> QED BY <2>1, <2>2, <2>4, MirrorMoves
<1>14. ASSUME NEW t \in Threads, PostChange(t)
       PROVE  [Mirror!Next]_(Mirror!mirrorVars)
  <2> DEFINE p == [kind |-> "changed", value |-> val[t]]
  <2>1. /\ at[t] = "post" /\ Goes(t, "drain") /\ posted' = Append(posted, p)
        /\ UNCHANGED <<state_, events, baton, snapshot, told, alive, val>>
    BY <1>14 DEF PostChange, sdk, mine
  <2>2. p \in Posts
    BY <1>0, <2>1 DEF Posts, Told
  <2>3. Changes' = Append(Changes, val[t])
    <3>1. Change(Changes, p) = Append(Changes, val[t])
      BY DEF Change
    <3> HIDE DEF p
    <3> QED BY <1>p, <2>1, <2>2, <3>1, ChangesOn
  <2>4. \A places \in SUBSET Calling :
          /\ InHand(places) = IF "post" \in places THEN <<val[t]>> ELSE <<>>
          /\ InHand(places)' = IF "drain" \in places THEN <<val[t]>> ELSE <<>>
    BY <2>1, HandMoves DEF Calling, Delivering
  <2>5. Pending' = Pending
    BY <2>1, <2>4 DEF Pending, Calling
  <2>6. Telt = Changes \o <<val[t]>> /\ Telt' = Append(Changes, val[t]) \o <<>>
    BY <2>3, <2>4 DEF Telt, Calling
  <2>7. Telt' = Telt
    <3>1. Append(Changes, val[t]) \in Seq(Told)
      BY <1>0, AppendProperties
    <3>2. Append(Changes, val[t]) \o <<>> = Append(Changes, val[t])
      BY <1>0, <3>1, Pieces
    <3>3. Changes \o <<val[t]>> = Append(Changes, val[t])
      BY <1>0, Pieces
    <3> QED BY <2>6, <3>2, <3>3
  <2> QED BY <2>1, <2>5, <2>7, MirrorStays
<1>15. ASSUME NEW t \in Threads, Finish(t)
       PROVE  [Mirror!Next]_(Mirror!mirrorVars)
  <2>1. /\ at[t] = "done" /\ Goes(t, "idle")
        /\ UNCHANGED <<state_, events, baton, snapshot, told, alive, val>>
    BY <1>15 DEF Finish, sdk, mine
  <2>2. Changes' = Changes
    <3> DEFINE p == [kind |-> op, value |-> None]
    <3>1. CASE t # "work"
      BY <1>15, <3>1 DEF Finish, Changes
    <3>2. CASE t = "work"
      <4>1. posted' = Append(posted, p)
        BY <1>15, <3>2 DEF Finish
      <4>2. p \in Posts /\ p.kind # "changed"
        <5>1. op \in Ops
          BY <2>1, <3>2 DEF Control, AtHand
        <5> QED BY <5>1 DEF Posts, Ops
      <4>3. Change(Changes, p) = Changes
        BY <4>2 DEF Change
      <4> HIDE DEF p
      <4> QED BY <1>p, <4>1, <4>2, <4>3, ChangesOn
    <3> QED BY <3>1, <3>2
  <2> QED BY <1>4, <1>t, <2>1, <2>2 DEF Calling
<1> QED
  BY <1>2, <1>3, <1>5, <1>6, <1>7, <1>8, <1>9, <1>10, <1>11, <1>12, <1>13, <1>14, <1>15
     DEF Next, Runs, Callback

\* The audio thread and the message thread go through the Client's states in their
\* order and leave none out while the object lives, whichever threads deliver and
\* whatever the host's thread does meanwhile.
THEOREM Implements == Spec => Refines
<1>1. Init => Mirror!Init
  <2> SUFFICES ASSUME Init PROVE Mirror!Init
    OBVIOUS
  <2>1. /\ state_ \in States /\ snapshot = state_ /\ told = state_ /\ alive = TRUE
        /\ events = <<>> /\ posted = <<>> /\ baton = None
    BY DEF Init
  <2>2. \A places : InHand(places) = <<>>
    BY <2>1 DEF InHand, Threads, None
  <2>3. Changes = <<>>
    BY <2>1, ChangesOn DEF Changes
  <2>4. InHand({"check", "latch"}) \o events = <<>>
    BY <2>1, <2>2
  <2>5. Changes \o InHand({"cache", "beacon", "post"}) = <<>>
    BY <2>2, <2>3
  <2> QED BY <2>1, <2>4, <2>5 DEF Mirror!Init
<1>2. Init => Teardown
  BY DEF Init, Teardown, Gone, Threads
<1> QED
  BY <1>1, <1>2, ControlInit, ControlStep, FlagsInit, FlagsStep, TeardownStep, MirrorStep, PTL
     DEF Spec, Refines, Mirror!Spec
=============================================================================
