--------------------------- MODULE UnrealSubsystem ---------------------------
(***************************************************************************)
(* The Unreal adapter: UKeylightSubsystem runs every call of its Client on *)
(* a background task and marshals the answer to the game thread, where a   *)
(* delegate fires; FHttpTransport turns the engine's asynchronous request  *)
(* into a blocking one with an event.  A call sends its request as often   *)
(* as the retry policy of Request says; so does the Client's keyless       *)
(* heartbeat, which the destructor joins on the game thread.               *)
(*                                                                         *)
(* A Client is the number of the Configure() that made it.                 *)
(***************************************************************************)
EXTENDS Request

CONSTANTS MaxCalls,    \* bound: calls of the game
          MaxClients,  \* bound: Configure() calls
          Statuses     \* HTTP statuses the server may answer

ASSUME UnrealAssumption == MaxCalls \in Nat /\ MaxClients \in Nat

Kinds == {"Activate", "Validate", "Deactivate"}
Calls == 1 .. MaxCalls
Beat  == 0            \* the Client's heartbeat, which sends requests of its own
Users == 0 .. MaxCalls

VARIABLES
  client, made,   \* Client_ (0: none), and how many there have been
  weak,           \* does WeakThis still find the subsystem?
  busy,           \* the call that keeps the game thread inside ~Client(), or "no"
  kind, of,       \* each call: its kind ("none": not made) and its ClientPtr
  pc,             \* how far each user of the transport has come
  attempt,        \* and the attempt it is at
  event, wire,    \* FHttpTransport: DoneEvent, and what the engine reports
  game,           \* lambdas queued for the game thread
  fired,          \* history: how often the delegate of a call has fired
  cut,            \* history: calls that were at work when Deinitialize() came
  dangling        \* history: users of a Client that was gone

object  == <<client, made, weak, busy, cut>>
perUser == <<kind, of, pc, attempt, event, wire>>
vars    == <<object, perUser, game, fired, dangling>>

Pending == [kind |-> "pending"]

Init ==
  /\ client = 0 /\ made = 0 /\ weak = TRUE /\ busy = "no"
  /\ kind = [c \in Calls |-> "none"] /\ of = [u \in Users |-> 0]
  /\ pc = [u \in Users |-> "idle"] /\ attempt = [u \in Users |-> 0]
  /\ event = [u \in Users |-> FALSE] /\ wire = [u \in Users |-> Pending]
  /\ game = <<>> /\ fired = [c \in Calls |-> 0] /\ cut = {} /\ dangling = {}

Goes(u, where) == pc' = [pc EXCEPT ![u] = where]

\* Every call that was made has had its delegate fired.
Answered == \A c \in Calls : kind[c] # "none" => fired[c] > 0

\* A call that its background task has not done with.
Working(c) == pc[c] \in {"task", "request", "wait", "sleep", "answered"}

----------------------------------------------------------------------------
\* Configure(): the old Client goes first.  The game waits for its delegates, as
\* the comment there asks.
Configure ==
  /\ weak /\ busy = "no" /\ made < MaxClients /\ Answered
  /\ busy' = "Configure"
  /\ UNCHANGED <<client, made, weak, cut, perUser, game, fired, dangling>>

\* Deinitialize() comes when the engine shuts down, whatever is in flight.
Deinitialize ==
  /\ weak /\ busy = "no" /\ client # 0
  /\ busy' = "Deinitialize" /\ cut' = cut \cup {c \in Calls : Working(c)}
  /\ UNCHANGED <<client, made, weak, perUser, game, fired, dangling>>

\* Seeded fault: the destructor does not join the heartbeat.
DestroyDetached ==
  /\ busy # "no"
  /\ made' = IF busy = "Configure" THEN made + 1 ELSE made
  /\ client' = IF busy = "Configure" THEN made + 1 ELSE 0
  /\ busy' = "no"
  /\ UNCHANGED <<weak, cut, perUser, game, fired, dangling>>

\* ~Client() has woken the heartbeat and joins it: a parked one leaves, one inside
\* a beacon finishes it first.  Then the Client is gone, and Configure() makes the
\* next.
Destroy ==
  /\ busy # "no" /\ pc[Beat] \in {"idle", "parked"}
  /\ made' = IF busy = "Configure" THEN made + 1 ELSE made
  /\ client' = IF busy = "Configure" THEN made + 1 ELSE 0
  /\ Goes(Beat, "idle") /\ busy' = "no"
  /\ UNCHANGED <<weak, cut, kind, of, attempt, event, wire, game, fired, dangling>>

\* The object is collected some time after Deinitialize().
Collect ==
  /\ weak /\ busy = "no" /\ client = 0 /\ made > 0 /\ weak' = FALSE
  /\ UNCHANGED <<client, made, busy, cut, perUser, game, fired, dangling>>

\* Activate(), Validate(), Deactivate(): without a Client the delegate fires at
\* once, otherwise a background task gets the raw pointer.
Begin(c, k) ==
  /\ weak /\ busy = "no" /\ pc[c] = "idle" /\ (\A d \in 1 .. c - 1 : pc[d] # "idle")
  /\ kind' = [kind EXCEPT ![c] = k]
  /\ of' = [of EXCEPT ![c] = client]
  /\ Goes(c, IF client = 0 THEN "over" ELSE "task")
  /\ fired' = IF client = 0 THEN [fired EXCEPT ![c] = @ + 1] ELSE fired
  /\ UNCHANGED <<object, attempt, event, wire, game, dangling>>

\* A step on the Client that a user has the pointer of.
Uses(u) == dangling' = IF of[u] = client THEN dangling ELSE dangling \cup {u}

Run(c) ==
  /\ c \in Calls /\ pc[c] = "task" /\ Goes(c, "request")
  /\ attempt' = [attempt EXCEPT ![c] = 1] /\ Uses(c)
  /\ UNCHANGED <<object, kind, of, event, wire, game, fired>>

\* The heartbeat's interval is over before the destructor stops it, and the state
\* is one it reports.
Beacon ==
  /\ pc[Beat] = "parked" /\ busy = "no" /\ Goes(Beat, "request")
  /\ attempt' = [attempt EXCEPT ![Beat] = 1] /\ Uses(Beat)
  /\ UNCHANGED <<object, kind, of, event, wire, game, fired>>

\* FHttpTransport::request(): ProcessRequest(), then DoneEvent->Wait().
Send(u) ==
  /\ pc[u] = "request" /\ Goes(u, "wait") /\ Uses(u)
  /\ UNCHANGED <<object, kind, of, attempt, event, wire, game, fired>>

Wires == {Lost} \cup {Answer(s, NoValue) : s \in Statuses}

\* Seeded fault: the event is triggered for an answer, not for a failure.
CompleteAnswer(u) ==
  /\ pc[u] = "wait" /\ wire[u] = Pending
  /\ \E w \in Wires : /\ wire' = [wire EXCEPT ![u] = w]
                      /\ event' = [event EXCEPT ![u] = w # Lost]
  /\ UNCHANGED <<object, kind, of, pc, attempt, game, fired, dangling>>


\* The engine's completion delegate, on a thread of the engine's: it leaves the
\* result and triggers the event.
Complete(u) ==
  /\ pc[u] = "wait" /\ wire[u] = Pending
  /\ \E w \in Wires : wire' = [wire EXCEPT ![u] = w]
  /\ event' = [event EXCEPT ![u] = TRUE]
  /\ UNCHANGED <<object, kind, of, pc, attempt, game, fired, dangling>>

\* Wait() returns (the event resets itself) and the policy decides.
Return(u) ==
  /\ pc[u] = "wait" /\ event[u]
  /\ event' = [event EXCEPT ![u] = FALSE]
  /\ wire' = [wire EXCEPT ![u] = Pending]
  /\ Goes(u, IF DelayAfter(FHttp(wire[u]), attempt[u]) # NoValue THEN "sleep"
             ELSE IF u = Beat THEN "parked" ELSE "answered")
  /\ Uses(u)
  /\ UNCHANGED <<object, kind, of, attempt, game, fired>>

Wake(u) ==
  /\ pc[u] = "sleep" /\ Goes(u, "request")
  /\ attempt' = [attempt EXCEPT ![u] = @ + 1]
  /\ UNCHANGED <<object, kind, of, event, wire, game, fired, dangling>>

\* The Client has applied the reply and returned; the result goes to the game
\* thread.
Post(c) ==
  /\ c \in Calls /\ pc[c] = "answered" /\ Uses(c)
  /\ game' = Append(game, c)
  /\ \/ Goes(c, "posted") /\ UNCHANGED of
     \/ /\ pc[Beat] = "idle" /\ busy = "no" /\ of[c] = client  \* set_state_()
        /\ pc' = [pc EXCEPT ![c] = "posted", ![Beat] = "parked"]
        /\ of' = [of EXCEPT ![Beat] = client]
  /\ UNCHANGED <<object, kind, attempt, event, wire, fired>>

\* The lambda on the game thread: the delegate fires if the subsystem is there.
Fire ==
  /\ busy = "no" /\ game # <<>> /\ game' = Tail(game)
  /\ Goes(Head(game), "over")
  /\ fired' = IF weak THEN [fired EXCEPT ![Head(game)] = @ + 1] ELSE fired
  /\ UNCHANGED <<object, kind, of, attempt, event, wire, dangling>>

Task(u) == Run(u) \/ Send(u) \/ Complete(u) \/ Return(u) \/ Wake(u) \/ Post(u)

Next == \/ Configure \/ Deinitialize \/ Destroy \/ Collect \/ Fire \/ Beacon
        \/ \E u \in Users : Task(u)
        \/ \E c \in Calls, k \in Kinds : Begin(c, k)

\* Tasks and the heartbeat run, the game thread ticks and ends what it is in, the
\* engine ends every request (its timeout).
Spec == /\ Init /\ [][Next]_vars
        /\ WF_vars(Fire) /\ WF_vars(Destroy) /\ \A u \in Users : WF_vars(Task(u))

----------------------------------------------------------------------------
\* ToUEState(): the native states in declaration order, everything else Invalid.
Native == <<"Licensed", "Trial", "Expired", "Invalid", "FreeTier", "Limited">>

ToUEState(n) == IF n \in 0 .. 5 THEN Native[n + 1] ELSE "Invalid"

----------------------------------------------------------------------------
(* What is required of it. *)

\* The type of every variable.
TypeOK ==
  /\ client \in 0 .. made /\ made \in 0 .. MaxClients /\ weak \in BOOLEAN
  /\ busy \in {"no", "Configure", "Deinitialize"}
  /\ kind \in [Calls -> Kinds \cup {"none"}] /\ of \in [Users -> 0 .. MaxClients]
  /\ pc \in [Users -> {"idle", "parked", "task", "request", "wait", "sleep", "answered",
                       "posted", "over"}]
  /\ attempt \in [Users -> 0 .. MaxAttempts]
  /\ wire \in [Users -> Wires \cup {Pending}]
  /\ event \in [Users -> BOOLEAN]
  /\ \A i \in 1 .. Len(game) : game[i] \in Calls
  /\ fired \in [Calls -> 0 .. 1] /\ cut \subseteq Calls /\ dangling \subseteq Users

\* Nothing uses a Client that is gone, but the calls that Deinitialize() cut off, as
\* the comment there says: not the heartbeat, not a call that was begun later, and
\* none where Configure() replaces a Client once the delegates have fired.
NoDanglingClient == dangling \subseteq cut

\* The engine's enum names the native states one for one.
StatesCorrespond == \A m, n \in 0 .. 5 : ToUEState(m) = ToUEState(n) => m = n

\* The pure part of a request: the header, the loop, the URL and the enum.  It
\* depends on no variable and is evaluated once, in the first state.
RequestPolicy ==
  made = 0 /\ (\A c \in Calls : kind[c] = "none") =>
    RetryAfterIsExact /\ RetryIsBounded /\ AuthorityIsSplit /\ StatesCorrespond

\* Every call is over in the end, however its attempts fared: FHttpTransport
\* never waits for an event that nobody triggers, the retries come to an end.
EveryCallEnds == \A c \in Calls : kind[c] # "none" ~> pc[c] = "over"

=============================================================================
