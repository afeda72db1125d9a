----------------------------- MODULE ClientRaces -----------------------------
(***************************************************************************)
(* One Client called from several threads at once: every call cut at its   *)
(* critical sections (cache_mutex_, save_mutex_), at its request and reply *)
(* and at the two halves of set_state_().  The server changes its mind     *)
(* while replies are under way, which arrive in any order.                 *)
(*                                                                         *)
(* LicenseClient has the calls one at a time with clocks and crashes; here *)
(* no lease expires, no offline bound is set, and the hardware id is in    *)
(* the store already.  A window of time (60 s, 24 h) is open or over.      *)
(***************************************************************************)
EXTENDS Naturals, Sequences, FiniteSets

CONSTANTS Threads,
          Ids,          \* anonymous ids
          StoreFails,   \* may saves fail in a behaviour?
          MaxRev,       \* bound: how often the server changes its word
          MaxCalls,     \* bound: how many calls are made
          None

ASSUME RacesAssumption ==
  /\ MaxRev \in Nat \ {0} /\ MaxCalls \in Nat /\ StoreFails \subseteq BOOLEAN
  /\ Ids # {} /\ None \notin Threads \cup Ids

State == {"Licensed", "Trial", "Expired", "Invalid"}

\* The server's word on the licence: a lease with the revision it was issued
\* at, a success without one, or a revoke.
Word == [kind : {"granted", "bare", "revoked"}, rev : 1 .. MaxRev]

Replies == Word \cup {[kind |-> "failure", rev |-> 1]}

Cache == [lease : 0 .. MaxRev,                    \* 0: none
          key   : BOOLEAN, lvo : BOOLEAN, trial : BOOLEAN,
          ftid  : Ids \cup {None},                \* free-tier instance id
          wire  : {"trial", "expired", None},     \* keyless state last reported
          ping  : {"never", "recent", "old"}]

Fresh == [lease |-> 0, key |-> FALSE, lvo |-> FALSE, trial |-> FALSE,
          ftid |-> None, wire |-> None, ping |-> "never"]

ASSUME NoneIsNoRecord == None \notin Cache

VARIABLES
  fails,           \* fixed: may saves fail?
  word, calls,     \* the server, and how many calls were begun
  cache, state_, disk,
  saver,           \* who holds save_mutex_
  minute,          \* is the window of activeRevalidate() open?
  call, todo,      \* each thread's call, and what it has still to do
  sent, reply,     \* the key its request carried, and the answer
  snap, new,       \* its blob under save_mutex_, the state it is about to set
  before,          \* the lease and state refreshAfterUpgrade() started from, or
                   \* the state that a beacon reports, beside no lease
  reported,        \* history: anonymous ids the server has seen
  forced,          \* history: activeRevalidate() round trips in this window
  raced            \* history: did a deactivate() overlap another call?

mine   == <<sent, reply, snap, new, before>>
client == <<cache, state_, disk, saver, minute>>
past   == <<reported, forced, raced>>
vars   == <<fails, word, calls, client, call, todo, mine, past>>

Running(t) == call[t] # "none"
Quiet      == \A t \in Threads : ~Running(t)

\* t does its next step, and what follows is s.
At(t, step)  == todo[t] # <<>> /\ Head(todo[t]) = step
Then(t, s)   == todo' = [todo EXCEPT ![t] = s \o Tail(@)]
Instead(t, s) == todo' = [todo EXCEPT ![t] = s]
Next1(t)     == Then(t, <<>>)

Labels == {"ask", "serve", "merge", "anchor", "unlease", "forget", "clear",
           "stamp", "snap", "write", "writeOrFail", "writeId", "mint", "reread",
           "unmint", "see", "current", "grace", "put", "haskey", "due", "window",
           "compare", "debounce", "arm"}

Save  == <<"snap", "write">>
Set   == <<"see", "put">>
Round == <<"ask", "serve">>

----------------------------------------------------------------------------
\* resolve_with_trial_(), resolve_current_state_()
ResolveWithTrial(paid) ==
  IF paid # "Invalid" THEN paid ELSE IF cache.trial THEN "Trial" ELSE "Invalid"

ResolveCurrent ==
  IF cache.lease # 0 \/ cache.key THEN state_ ELSE ResolveWithTrial("Invalid")

Init ==
  /\ fails \in StoreFails
  /\ word \in [kind : {"granted"}, rev : {1}] /\ calls = 0
  /\ \/ cache = Fresh /\ state_ = "Invalid" /\ disk = None
     \/ /\ cache = [Fresh EXCEPT !.lease = 1, !.key = TRUE, !.lvo = TRUE]
        /\ state_ = "Licensed" /\ disk = cache
     \/ /\ cache = [Fresh EXCEPT !.trial = TRUE, !.ftid = CHOOSE i \in Ids : TRUE]
        /\ state_ = "Trial" /\ disk = cache
  /\ saver = None /\ minute = FALSE
  /\ call = [t \in Threads |-> "none"] /\ todo = [t \in Threads |-> <<>>]
  /\ sent = [t \in Threads |-> FALSE] /\ reply = [t \in Threads |-> None]
  /\ snap = [t \in Threads |-> None] /\ new = [t \in Threads |-> None]
  /\ before = [t \in Threads |-> None]
  /\ reported = {} /\ forced = 0 /\ raced = FALSE

\* What each call does first.
Script ==
  [activate |-> Round, validate |-> Round, refresh |-> <<"haskey", "due">>,
   deactivate |-> Round, startTrial |-> <<"stamp">>,
   keyless |-> <<"debounce", "mint">> \o Round,
   activeRevalidate |-> <<"haskey", "window">> \o Round,
   refreshAfterUpgrade |-> <<"haskey", "compare">>]

\* deactivate() has cleared the cache and is not done.
Clearing(t) == call[t] = "deactivate" /\ todo[t] # <<>>
               /\ Head(todo[t]) \notin {"ask", "serve", "forget"}

Call(t, c) ==
  /\ ~Running(t)
  /\ calls < MaxCalls /\ calls' = calls + 1
  /\ call' = [call EXCEPT ![t] = c]
  /\ Instead(t, Script[c])
  /\ raced' = (raced \/ \E u \in Threads : Clearing(u))
  /\ UNCHANGED <<fails, word, client, mine, reported, forced>>

Return(t) ==
  /\ Running(t) /\ todo[t] = <<>>
  /\ call' = [call EXCEPT ![t] = "none"]
  /\ sent' = [sent EXCEPT ![t] = FALSE] /\ reply' = [reply EXCEPT ![t] = None]
  /\ snap' = [snap EXCEPT ![t] = None] /\ new' = [new EXCEPT ![t] = None]
  /\ before' = [before EXCEPT ![t] = None]
  /\ UNCHANGED <<fails, word, calls, client, todo, past>>

----------------------------------------------------------------------------
\* The request is built from the cache, the server answers it with the word it
\* holds then, and the answer is taken later.
Ask(t) == /\ At(t, "ask") /\ Next1(t)
          /\ sent' = [sent EXCEPT ![t] = cache.key]
          /\ reported' = reported \cup
               (IF call[t] \in {"keyless", "activate"} THEN {cache.ftid} \ {None} ELSE {})
          /\ UNCHANGED <<fails, word, calls, client, call, reply, snap, new,
                         before, forced, raced>>

\* What the answer makes the call do.
Answered(t, k) ==
  CASE call[t] = "deactivate" -> <<"forget">>
    [] call[t] = "keyless" ->
         IF k = "failure" THEN <<>> ELSE <<"arm">> \o Save \o <<"current">>
    [] call[t] = "activate" ->
         IF k = "granted"   THEN <<"merge">> \o Save \o <<"anchor">> \o Save \o Set
         ELSE IF k = "bare" THEN <<"merge">> \o Save \o Set
         ELSE <<>>
    [] OTHER ->
         CASE k = "granted" -> <<"merge">> \o Save \o <<"anchor">> \o Save \o Set
         [] k = "bare"    -> Set
         [] k = "revoked" -> <<"unlease">> \o Save \o Set
         [] k = "failure" -> IF call[t] = "refresh" THEN <<"grace">> ELSE <<>>

\* A validate without a key is malformed, and an activation needs none.
Serve(t) ==
  /\ At(t, "serve")
  /\ \E r \in Replies :
       /\ r.kind = "failure" \/ r = word
       /\ ~sent[t] /\ call[t] \notin {"activate", "keyless"} => r.kind = "failure"
       /\ reply' = [reply EXCEPT ![t] = r]
       /\ Then(t, Answered(t, r.kind))
  /\ sent' = [sent EXCEPT ![t] = FALSE]
  /\ UNCHANGED <<fails, word, calls, client, call, snap, new, before, past>>

\* One critical section of cache_mutex_.
Update(t, step, c) ==
  /\ At(t, step)
  /\ cache' = c
  /\ UNCHANGED <<fails, word, calls, state_, disk, saver, call, mine>>

\* Seeded fault: a licence that was activated without its key.
MergedKeyless(t) ==
  [cache EXCEPT !.lease = IF reply[t].kind = "granted" THEN reply[t].rev ELSE @]

Merged(t) ==
  [cache EXCEPT !.lease = IF reply[t].kind = "granted" THEN reply[t].rev ELSE @,
                !.key   = @ \/ call[t] = "activate"]

Merge(t)   == Update(t, "merge", Merged(t)) /\ Next1(t) /\ UNCHANGED <<minute, past>>
Anchor(t)  == /\ Update(t, "anchor", [cache EXCEPT !.lvo = TRUE])
              /\ Next1(t) /\ UNCHANGED <<minute, past>>
Unlease(t) == /\ Update(t, "unlease", [cache EXCEPT !.lease = 0])
              /\ Next1(t) /\ UNCHANGED <<minute, past>>

\* deactivate(): the file is dropped unless there is a trial start to keep.
Forget(t) ==
  /\ Update(t, "forget", [cache EXCEPT !.lease = 0, !.key = FALSE, !.lvo = FALSE])
  /\ Then(t, IF cache.trial THEN <<"snap", "writeOrFail">> \o Set ELSE <<"clear">> \o Set)
  /\ raced' = (raced \/ \E u \in Threads \ {t} : Running(u))
  /\ UNCHANGED <<minute, reported, forced>>

Clear(t) == /\ At(t, "clear") /\ Next1(t)
            /\ disk' = None
            /\ UNCHANGED <<fails, word, calls, cache, state_, saver, minute, call,
                           mine, past>>

\* startTrial(): the stamp is saved when it is new; then the anonymous id.
Stamp(t) == /\ Update(t, "stamp", [cache EXCEPT !.trial = TRUE])
            /\ Then(t, (IF cache.trial THEN <<>> ELSE Save) \o <<"mint", "current">>)
            /\ UNCHANGED <<minute, past>>

----------------------------------------------------------------------------
\* Seeded fault: the snapshot is taken before save_mutex_.
SnapUnlocked(t) ==
  /\ At(t, "snap") /\ Next1(t)
  /\ snap' = [snap EXCEPT ![t] = cache]
  /\ UNCHANGED <<fails, word, calls, client, call, sent, reply, new, before, past>>

\* save_cache_(): save_mutex_ is held from the snapshot to the write.
Snap(t) ==
  /\ At(t, "snap") /\ Next1(t)
  /\ saver = None /\ saver' = t
  /\ snap' = [snap EXCEPT ![t] = cache]
  /\ UNCHANGED <<fails, word, calls, cache, state_, disk, minute, call,
                 sent, reply, new, before, past>>

\* The write succeeds and the call goes on with s, or fails and goes on with f.
Written(t, step, s, f) ==
  /\ At(t, step)
  /\ saver' = None
  /\ \/ disk' = snap[t] /\ s
     \/ fails /\ UNCHANGED disk /\ f
  /\ snap' = [snap EXCEPT ![t] = None]
  /\ UNCHANGED <<fails, word, calls, cache, state_, minute, call, sent, reply, new,
                 before, past>>

\* A failed save goes unnoticed, ends deactivate(), or costs the id just minted.
Write(t) == \/ Written(t, "write", Next1(t), Next1(t))
            \/ Written(t, "writeOrFail", Next1(t), Instead(t, <<>>))
            \/ Written(t, "writeId", Then(t, <<"reread">>), Then(t, <<"unmint">>))

\* Seeded fault: every caller mints, the last one stays.
MintAlways(t) ==
  /\ \E i \in Ids : Update(t, "mint", [cache EXCEPT !.ftid = i])
  /\ Then(t, <<"snap", "writeId">>)
  /\ UNCHANGED <<minute, past>>

\* freeTierInstanceId()
Mint(t) ==
  \/ /\ cache.ftid # None
     /\ Update(t, "mint", cache) /\ Next1(t)
     /\ UNCHANGED <<minute, past>>
  \/ /\ cache.ftid = None
     /\ \E i \in Ids : Update(t, "mint", [cache EXCEPT !.ftid = i])
     /\ Then(t, <<"snap", "writeId">>)
     /\ UNCHANGED <<minute, past>>

Reread(t) == /\ At(t, "reread") /\ Next1(t)
             /\ UNCHANGED <<fails, word, calls, client, call, mine, past>>

\* Without an id the beacon is not sent; a trial starts all the same.
Unmint(t) == /\ Update(t, "unmint", [cache EXCEPT !.ftid = None])
             /\ IF call[t] = "keyless" THEN Instead(t, <<>>) ELSE Next1(t)
             /\ UNCHANGED <<minute, past>>

----------------------------------------------------------------------------
\* The first half of set_state_(), and what the call resolves just before it.
Paid(t) ==
  IF call[t] = "deactivate" THEN "Invalid"
  ELSE CASE reply[t].kind = "granted" -> "Licensed"
         [] reply[t].kind = "bare"    ->
              IF call[t] = "activate" THEN "Licensed" ELSE state_
         [] OTHER                     -> "Invalid"

\* A revoke resolves no trial.
Resolved(t) ==
  IF call[t] # "deactivate" /\ reply[t].kind = "revoked" THEN "Invalid"
  ELSE ResolveWithTrial(Paid(t))

Sees(t, s) == /\ new' = [new EXCEPT ![t] = s]
              /\ UNCHANGED <<fails, word, calls, client, call, sent, reply, snap,
                             before, past>>

See(t)     == At(t, "see") /\ Next1(t) /\ Sees(t, Resolved(t))
Current(t) == At(t, "current") /\ Then(t, <<"put">>) /\ Sees(t, ResolveCurrent)

\* apply_offline_grace_() without a lease.
Grace(t) == /\ At(t, "grace")
            /\ IF cache.lease = 0 /\ state_ = "Licensed"
               THEN Then(t, <<"put">>) /\ Sees(t, "Expired")
               ELSE Next1(t) /\ Sees(t, None)

Put(t) == /\ At(t, "put") /\ Next1(t)
          /\ state_' = new[t]
          /\ new' = [new EXCEPT ![t] = None] /\ reply' = [reply EXCEPT ![t] = None]
          /\ UNCHANGED <<fails, word, calls, cache, disk, saver, minute, call, sent,
                         snap, before, past>>

----------------------------------------------------------------------------
\* Without a key refreshIfNeeded() resolves locally, the others do nothing.
HasKey(t) ==
  /\ At(t, "haskey")
  /\ IF cache.key THEN Next1(t)
     ELSE Instead(t, IF call[t] = "refresh" THEN <<"current">> ELSE <<>>)
  /\ UNCHANGED <<fails, word, calls, client, call, mine, past>>

\* The timers of refreshIfNeeded() let the request pass, or not yet.
Due(t) == /\ At(t, "due") /\ cache.lvo /\ Next1(t)
          /\ UNCHANGED <<fails, word, calls, client, call, mine, past>>

Overdue(t) == /\ At(t, "due") /\ Then(t, Round)
              /\ UNCHANGED <<fails, word, calls, client, call, mine, past>>

\* Seeded fault: the window is opened by another critical section, later.
WindowLater(t) ==
  /\ At(t, "window")
  /\ IF minute THEN Instead(t, <<>>) ELSE Next1(t)
  /\ minute' = minute
  /\ forced' = IF minute THEN forced ELSE forced + 1
  /\ UNCHANGED <<fails, word, calls, cache, state_, disk, saver, call, mine,
                 reported, raced>>

\* activeRevalidate(): the window is tested and opened under one lock.
Window(t) ==
  /\ At(t, "window")
  /\ IF minute THEN Instead(t, <<>>) ELSE Next1(t)
  /\ minute' = TRUE
  /\ forced' = IF minute THEN forced ELSE forced + 1
  /\ UNCHANGED <<fails, word, calls, cache, state_, disk, saver, call, mine,
                 reported, raced>>

\* refreshAfterUpgrade(): validate() until the state or the entitlements differ or
\* time is up; another lease may carry the same entitlements.
Compare(t) ==
  /\ At(t, "compare")
  /\ \/ (before[t] # None => before[t][2] = state_) /\ Then(t, Round \o <<"compare">>)
     \/ before[t] # None /\ Next1(t)
  /\ before' = [before EXCEPT ![t] = IF @ = None THEN <<cache.lease, state_>> ELSE @]
  /\ UNCHANGED <<fails, word, calls, client, call, sent, reply, snap, new, past>>

\* reportKeylessState(): a day of silence per state, from its last success.
Debounce(t) ==
  /\ At(t, "debounce")
  /\ \E w \in {"trial", "expired"} :
       /\ IF cache.wire = w /\ cache.ping = "recent" THEN Instead(t, <<>>) ELSE Next1(t)
       /\ before' = [before EXCEPT ![t] = <<0, w>>]
  /\ UNCHANGED <<fails, word, calls, client, call, sent, reply, snap, new, past>>

Arm(t) == /\ Update(t, "arm", [cache EXCEPT !.wire = before[t][2], !.ping = "recent"])
          /\ Next1(t) /\ UNCHANGED <<minute, past>>

----------------------------------------------------------------------------
Decide == /\ word.rev < MaxRev
          /\ word' \in [kind : {"granted", "bare", "revoked"}, rev : {word.rev + 1}]
          /\ UNCHANGED <<fails, calls, client, call, todo, mine, past>>

MinutePasses == /\ minute /\ minute' = FALSE /\ forced' = 0
                /\ UNCHANGED <<fails, word, calls, cache, state_, disk, saver, call,
                               todo, mine, reported, raced>>

DayPasses == /\ cache.ping = "recent" /\ cache' = [cache EXCEPT !.ping = "old"]
             /\ UNCHANGED <<fails, word, calls, state_, disk, saver, minute, call,
                            todo, mine, past>>

Step(t) == \/ Ask(t) \/ Serve(t) \/ Return(t)
           \/ Merge(t) \/ Anchor(t) \/ Unlease(t) \/ Forget(t) \/ Clear(t) \/ Stamp(t)
           \/ Snap(t) \/ Write(t) \/ Mint(t) \/ Reread(t) \/ Unmint(t)
           \/ See(t) \/ Current(t) \/ Grace(t) \/ Put(t)
           \/ HasKey(t) \/ Due(t) \/ Overdue(t) \/ Window(t) \/ Compare(t)
           \/ Debounce(t) \/ Arm(t)

Next == \/ \E t \in Threads : Step(t) \/ \E c \in DOMAIN Script : Call(t, c)
        \/ Decide \/ MinutePasses \/ DayPasses

Spec == Init /\ [][Next]_vars

----------------------------------------------------------------------------
(* What is required of it. *)

\* The type of every variable.
TypeOK ==
  /\ fails \in BOOLEAN /\ word \in Word /\ calls \in 0 .. MaxCalls
  /\ cache \in Cache /\ state_ \in State /\ disk \in Cache \cup {None}
  /\ saver \in Threads \cup {None} /\ minute \in BOOLEAN
  /\ call \in [Threads -> DOMAIN Script \cup {"none"}]
  /\ todo \in [Threads -> Seq(Labels)]
  /\ sent \in [Threads -> BOOLEAN] /\ reply \in [Threads -> Replies \cup {None}]
  /\ snap \in [Threads -> Cache \cup {None}]
  /\ new \in [Threads -> State \cup {None}]
  /\ before \in [Threads -> ((0 .. MaxRev) \X State) \cup {<<0, "trial">>, <<0, "expired">>, None}]
  /\ reported \subseteq Ids /\ forced \in Nat /\ raced \in BOOLEAN

\* Two records of the same licence, ids and trial; time has passed for one.
Same(a, b) == [a EXCEPT !.ping = "never"] = [b EXCEPT !.ping = "never"]
              /\ (a.ping = "never") = (b.ping = "never")

\* When every call has returned the store holds what the cache holds, or
\* nothing when there is nothing a restart would need: "an older snapshot
\* cannot land after a newer one" (save_cache_(), save_mutex_).
StoreSettles ==
  Quiet /\ ~fails /\ ~raced =>
    \/ disk # None /\ Same(disk, cache)
    \/ disk = None /\ cache.lease = 0 /\ ~cache.key /\ ~cache.lvo /\ ~cache.trial

\* As long as no deactivate() overlapped another call, a lease belongs to a
\* stored key, which is what every later validation sends; and so does Licensed,
\* unless deactivate() failed to save and returned before its set_state_().
PaidNeedsKey ==
  Quiet /\ ~raced => /\ cache.lease # 0 => cache.key
                     /\ state_ = "Licensed" /\ ~fails => cache.key

\* freeTierInstanceId() re-reads the optional it set two critical sections
\* before and dereferences it: no other thread may have reset it.
NoEmptyDereference == \A t \in Threads : At(t, "reread") => cache.ftid # None

\* While saves work the server sees one anonymous id of this installation, no
\* matter how many threads ask for it at once.
OneIdReported == ~fails => Cardinality(reported) <= 1

\* activeRevalidate(): the button is worth one request a minute, also when two
\* threads press it together.
OneForced == forced <= 1

\* The claim of deactivate() ("clears the local cache regardless of the network
\* outcome", "No paid license left"): afterwards, with no call running, no lease
\* is left without the key that validating it again needs.
NothingPaidLeft == Quiet /\ ~cache.key => cache.lease = 0

=============================================================================
