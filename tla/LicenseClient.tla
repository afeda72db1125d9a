---------------------------- MODULE LicenseClient ----------------------------
(***************************************************************************)
(* keylight::Client as one thread sees it: what each public call answers,  *)
(* keeps in the in-memory cache and writes to the store, over a clock that *)
(* may be set back, a server that answers or not, a store whose writes may *)
(* fail, and a process that quits, crashes inside a call and is launched   *)
(* again.                                                                  *)
(*                                                                         *)
(* Times are in ticks.  The instance and anonymous ids, the device hash,   *)
(* the keyless debounce and license_expires_at decide no state: they are   *)
(* no part of the cache here, only the saves they cause.  Of an error that is *)
(* returned instead of a state only that it is no answer is kept.          *)
(***************************************************************************)
EXTENDS Integers, Sequences, SequencesExt

CONSTANTS
  \* the time constants of client.hpp, clock.hpp and verifier.hpp, in ticks
  Skew, RefreshDebounce, ClockTolerance, RefreshStale, NearExpiry, Day,
  \* Config: offline bound in days (0: none), trial length, free tier
  MaxOfflineDays, TrialDays, FreeTierEnabled,
  \* the environment: the leases the server gives, what the dashboard may say
  Offers, ServerSettings,
  SaveFails, LoadFails,    \* may the store fail to write, to read?
  MaxTime,                 \* bound: the clock
  MaxSetBacks,             \* bound: how often the clock is set back
  None,
  Forged                   \* a lease whose signature does not verify

ASSUME TimesAssumption ==
  /\ Skew \in Nat /\ RefreshDebounce \in Nat /\ ClockTolerance \in Nat
  /\ RefreshStale \in Nat /\ NearExpiry \in Nat /\ Day \in Nat \ {0}
  /\ RefreshDebounce < RefreshStale /\ RefreshStale < Day
ASSUME ConfigAssumption ==
  MaxOfflineDays \in Nat /\ TrialDays \in Nat /\ FreeTierEnabled \in BOOLEAN
ASSUME EnvironmentAssumption ==
  /\ Offers \subseteq [status : {"active", "fallback", "expired"}, lasts : Nat]
  /\ ServerSettings \subseteq [days : Nat, free : BOOLEAN]
  /\ SaveFails \in BOOLEAN /\ LoadFails \in BOOLEAN
  /\ MaxTime \in Nat /\ MaxSetBacks \in Nat
ASSUME NoneAssumption == None \notin Nat \cup BOOLEAN

State == {"Licensed", "Trial", "Expired", "Invalid", "FreeTier", "Limited"}

Lease == [status : {"active", "fallback", "expired"}, expiresAt : Nat]

ASSUME NoneIsNoState == None \notin State

ASSUME NoneIsNoLease == None \notin Lease \cup {Forged} /\ Forged \notin Lease

\* What the client keeps, in memory and in the store alike (the blob).  A lease
\* is kept only after its signature has been verified.
Blob == [lease    : Lease \cup {None},
         key      : BOOLEAN,              \* is a licence key stored?
         lvo      : Nat,                  \* last validated online, 0: never
         trial    : Nat \cup {None},      \* trial start
         days     : Nat \cup {None},      \* trial length the server said
         free     : BOOLEAN \cup {None}]  \* free tier the server said

Empty == [lease |-> None, key |-> FALSE, lvo |-> 0,
          trial |-> None, days |-> None, free |-> None]

ASSUME NoneIsNoBlob == None \notin Blob

VARIABLES
  now, setbacks,  \* the wall clock, and how often it was set back
  running,        \* is there a Client?
  state_, cache,  \* its raw state and its cached_ fields
  disk,           \* the store: a blob, or None when there is no file
  result,         \* what the last call answered, until the clock moves
  verdict         \* history: the server's last word that reached the client

vars == <<now, setbacks, running, state_, cache, disk, result, verdict>>
clock == <<now, setbacks>>

----------------------------------------------------------------------------
\* A cached last-validated time the clock is behind of by more than the tolerance.
ClockRolledBack(anchor) == anchor - now > ClockTolerance

ClockUntrusted(c) == c.lvo # 0 /\ ClockRolledBack(c.lvo)

\* report_(): every call answers what state() would.
Reported(c, s) == IF ClockUntrusted(c) THEN "Invalid" ELSE s

state == Reported(cache, state_)

\* Verifier::verify: past its expiry, with the skew allowed for.
LeaseExpired(l) == now > l.expiresAt + Skew

\* hasEntitlement() of a feature that is in the lease.
HasEntitlement == /\ ~ClockUntrusted(cache)
                  /\ cache.lease # None
                  /\ ~LeaseExpired(cache.lease)
                  /\ cache.lease.status # "expired"

EffectiveTrialDays(c) == IF c.days # None THEN c.days ELSE TrialDays
EffectiveFreeTier(c)  == IF c.free # None THEN c.free ELSE FreeTierEnabled

\* days_left_from_(): whole days, a clock before the start counting as zero.
TrialDaysElapsed(c) == (IF now < c.trial THEN 0 ELSE now - c.trial) \div Day

TrialStarted(c) == EffectiveTrialDays(c) > 0 /\ c.trial # None
TrialDaysLeft(c) ==
  IF TrialStarted(c) /\ TrialDaysElapsed(c) < EffectiveTrialDays(c)
  THEN EffectiveTrialDays(c) - TrialDaysElapsed(c) ELSE 0
TrialActive(c) == TrialDaysLeft(c) > 0

\* What a paid licence resolves to, from a lease whose signature holds.
PaidState(l) ==
  CASE l.status = "active"   -> IF LeaseExpired(l) THEN "Expired" ELSE "Licensed"
    [] l.status = "fallback" -> "Limited"
    [] l.status = "expired"  -> "Expired"

\* Paid licensing wins; else a running trial, the free tier, an elapsed trial.
ResolveWithTrial(c, paid) ==
  IF paid # "Invalid"          THEN paid
  ELSE IF TrialActive(c)       THEN "Trial"
  ELSE IF EffectiveFreeTier(c) THEN "FreeTier"
  ELSE IF TrialStarted(c)      THEN "Expired"
  ELSE "Invalid"

\* Without paid-licence material the trial decides, else the state stands.
ResolveCurrent(c) ==
  IF c.lease # None \/ c.key THEN state_ ELSE ResolveWithTrial(c, "Invalid")

\* The tenant's bound on a lease that is loaded at launch.
LaunchPaid(c) ==
  IF c.lease = None THEN "Invalid"
  ELSE IF /\ MaxOfflineDays > 0
          /\ \/ c.lvo = 0
             \/ ClockRolledBack(c.lvo)
             \/ now - c.lvo > MaxOfflineDays * Day
       THEN "Expired"
  ELSE PaidState(c.lease)

----------------------------------------------------------------------------
\* What a call does, as one value: the blobs it writes in turn, the cache and the
\* raw state it leaves, the state it hands back, and the server's word it acted
\* on.  What the private helpers hand back is raw.
Outcome(w, c, s, v) ==
  [writes |-> w, cache |-> c, state |-> s, answer |-> s, verdict |-> v]

Nothing == Outcome(<<>>, cache, state_, verdict)

\* `return report_(...)': each public call has its own, on every way out.
Report(o) == [o EXCEPT !.answer = Reported(o.cache, @)]

\* A way out with an error, or of a call that answers no state.
Silent(o) == [o EXCEPT !.answer = None]

\* What the server says.
LeasesNow ==
  {[status |-> o.status, expiresAt |-> now + o.lasts] : o \in Offers}
    \cup {Forged, None}

\* A reply that brings nothing, or none.
Bare(status) == [status |-> status, lease |-> None, settings |-> None]

ActivateReplies ==
  {Bare("failed"), Bare("declined")}
    \cup [status : {"ok"}, lease : LeasesNow, settings : {None}]

\* No reply, an HTTP error, a body that cannot be decoded.
Failures == {Bare("unreachable"), Bare("refused"), Bare("garbled")}

\* A request without a key is refused as malformed.
ValidateReplies == IF ~cache.key THEN Failures ELSE
  Failures \cup
  [status : {"ok"}, lease : LeasesNow, settings : ServerSettings \cup {None}] \cup
  [status : {"rejected"}, lease : LeasesNow, settings : {None}]

Word(l) == IF l.status = "active" THEN "granted" ELSE "lapsed"

\* Seeded fault: the anchor moves in memory only.
LeaseNotAnchored(w, c, l) ==
  LET leased == [c EXCEPT !.lease = l]
  IN IF l = Forged
     THEN Outcome(w, c, ResolveWithTrial(c, "Invalid"), verdict)
     ELSE Outcome(Append(w, leased), [leased EXCEPT !.lvo = now],
                  ResolveWithTrial(leased, PaidState(l)), Word(l))

\* A lease came with the reply: kept, saved and then anchored only if trusted.
LeaseOutcome(w, c, l) ==
  LET leased   == [c EXCEPT !.lease = l]
      anchored == [leased EXCEPT !.lvo = now]
  IN IF l = Forged
     THEN Outcome(w, c, ResolveWithTrial(c, "Invalid"), verdict)
     ELSE Outcome(w \o <<leased, anchored>>, anchored,
                  ResolveWithTrial(anchored, PaidState(l)), Word(l))

\* activate(): the key is stored with a trusted lease or with none at all.
ActivateOutcome(r) ==
  LET known == [cache EXCEPT !.key = TRUE]
  IN CASE r.status = "failed"   -> Silent(Nothing)
       [] r.status = "declined" -> Report(Nothing)
       [] r.status = "ok"       -> Report(
            CASE r.lease = None   -> Outcome(<<known>>, known, "Licensed", "granted")
              [] r.lease = Forged -> LeaseOutcome(<<>>, cache, Forged)
              [] OTHER            -> LeaseOutcome(<<>>, known, r.lease))

\* apply_config_fields_(): settings that came with a 200 are kept and saved.
ApplyConfig(c, s) ==
  IF s = None THEN c ELSE [c EXCEPT !.days = s.days, !.free = s.free]

ConfigWrites(c, s) == IF s = None THEN <<>> ELSE <<ApplyConfig(c, s)>>

\* Seeded fault: a revoke leaves the lease where it is.
RejectionKeepsLease(r) ==
  IF r.lease = None THEN Outcome(<<>>, cache, "Invalid", "revoked")
                    ELSE LeaseOutcome(<<>>, cache, r.lease)

\* handle_validate_rejection_(): a 422 without a usable lease is a revoke.
RejectionOutcome(r) ==
  LET cleared == [cache EXCEPT !.lease = None]
  IN IF r.lease = None THEN Outcome(<<cleared>>, cleared, "Invalid", "revoked")
                       ELSE LeaseOutcome(<<>>, cache, r.lease)

AcceptOutcome(r) ==
  LET c == ApplyConfig(cache, r.settings)
      w == ConfigWrites(cache, r.settings)
  IN IF r.lease = None
     THEN Outcome(w, c, ResolveWithTrial(c, state_), verdict)
     ELSE LeaseOutcome(w, c, r.lease)

\* validate(): a failure keeps the state, whatever its age.
ValidateOutcome(r) == CASE r.status = "unreachable" -> Report(Nothing)
                        [] r.status = "rejected"    -> Report(RejectionOutcome(r))
                        [] r.status = "refused"     -> Report(Nothing)
                        [] r.status = "garbled"     -> Report(Nothing)
                        [] r.status = "ok"          -> Report(AcceptOutcome(r))

\* Seeded fault: the grace never ends.
GraceUnbounded == MaxOfflineDays = 0 \/ cache.lvo > 0

\* apply_offline_grace_(): only Licensed is ever downgraded.
LeaseGone   == cache.lease = None \/ now > cache.lease.expiresAt
WithinGrace == \/ MaxOfflineDays = 0
               \/ cache.lvo > 0 /\ now - cache.lvo <= MaxOfflineDays * Day

GraceOutcome ==
  Outcome(<<>>, cache,
          IF state_ = "Licensed" /\ (LeaseGone \/ ~WithinGrace)
          THEN "Expired" ELSE state_,
          verdict)

\* validate_and_reconcile_()
ReconcileOutcome(r) == CASE r.status = "rejected" -> RejectionOutcome(r)
                         [] r.status = "ok"       -> AcceptOutcome(r)
                         [] OTHER                 -> GraceOutcome

\* The timer model of refreshIfNeeded().
Debounced  == cache.lvo > 0 /\ now - cache.lvo < RefreshDebounce
NearlyOver == cache.lease # None /\ cache.lease.expiresAt - now < NearExpiry
RefreshDue == /\ ~Debounced
              /\ cache.lvo = 0 \/ now - cache.lvo >= RefreshStale \/ NearlyOver

ResolveOutcome(c, w) == Outcome(w, c, ResolveCurrent(c), verdict)

\* startTrial(): a start once recorded is never overwritten.  The blob is saved
\* for it, or for the anonymous id.
StartNow == [cache EXCEPT !.trial = now]

\* Seeded fault: an elapsed trial may start again.
TrialRestarts ==
  LET c == IF TrialActive(cache) THEN cache ELSE StartNow
  IN ResolveOutcome(c, <<c>>)

TrialOutcome ==
  LET c == IF cache.trial # None THEN cache ELSE StartNow
  IN ResolveOutcome(c, <<c>>)

\* Seeded fault: the settings are absorbed and the state is not resolved again.
ConfigAbsorbed(s) ==
  IF s = None THEN Nothing
  ELSE Outcome(ConfigWrites(cache, s), ApplyConfig(cache, s), state_, verdict)

\* fetchConfig()
ConfigOutcome(s) ==
  IF s = None THEN Nothing
  ELSE ResolveOutcome(ApplyConfig(cache, s), ConfigWrites(cache, s))

\* reportKeylessState(): the id, the device hash and the debounce are saved.
KeylessOutcome(s) ==
  LET o == ConfigOutcome(s) IN [o EXCEPT !.writes = <<cache>> \o @]

Deactivated == [cache EXCEPT !.lease = None, !.key = FALSE, !.lvo = 0]

\* Seeded fault: the paid state stays.
DeactivateKeepsState ==
  Outcome(<<IF cache.trial # None THEN Deactivated ELSE None>>, Deactivated,
          ResolveWithTrial(Deactivated, state_), "none")

\* deactivate(), whatever the server says; the file is kept for a trial start.
DeactivateOutcome ==
  Outcome(<<IF cache.trial # None THEN Deactivated ELSE None>>, Deactivated,
          ResolveWithTrial(Deactivated, "Invalid"), "none")

----------------------------------------------------------------------------
Init == /\ now = 1 /\ setbacks = 0
        /\ running = FALSE
        /\ state_ = "Invalid" /\ cache = Empty
        /\ disk = None
        /\ result = None
        /\ verdict = "none"

\* The store after writes whose failure the code ignores.
Stored(w) == IF SaveFails THEN {disk} \cup {w[i] : i \in DOMAIN w}
             ELSE {IF w = <<>> THEN disk ELSE Last(w)}

Commit(o) == /\ disk' \in Stored(o.writes)
             /\ cache' = o.cache /\ state_' = o.state
             /\ result' = o.answer /\ verdict' = o.verdict
             /\ UNCHANGED <<clock, running>>

\* The licence in a store.
Licence(d) == IF d = None THEN <<None, FALSE>> ELSE <<d.lease, d.key>>

\* The process dies inside the call, after some of its writes.
Die(w, v) == /\ disk' \in {disk} \cup {w[i] : i \in DOMAIN w}
             /\ running' = FALSE
             /\ cache' = Empty /\ state_' = "Invalid" /\ result' = None
             /\ verdict' = IF Licence(disk') = Licence(disk) THEN verdict ELSE v
             /\ UNCHANGED clock

Call(o) == running /\ (Commit(o) \/ Die(o.writes, o.verdict))

\* A request carries the device hash: one that is new is saved before it is sent.
Request(o) == Call(o) \/ Call([o EXCEPT !.writes = <<cache>> \o @])

\* Seeded fault: report_() is forgotten on this way out of refreshIfNeeded().
DebouncedUnreported == cache.key /\ Debounced /\ Call(Nothing)

DebouncedReturn == cache.key /\ Debounced /\ Call(Report(Nothing))

\* Seeded fault: checkOnLaunch() answers what its helper handed back.
LaunchUnreported == \E r \in ValidateReplies : Request(ReconcileOutcome(r))

LaunchReturn == \E r \in ValidateReplies : Request(Report(ReconcileOutcome(r)))

Activate == \E r \in ActivateReplies : Request(ActivateOutcome(r))

Validate == \E r \in ValidateReplies : Request(ValidateOutcome(r))

RefreshIfNeeded ==
  \/ ~cache.key /\ Call(Report(ResolveOutcome(cache, <<>>)))
  \/ DebouncedReturn
  \/ cache.key /\ ~Debounced /\ ~RefreshDue /\ Call(Report(Nothing))
  \/ /\ cache.key /\ RefreshDue
     /\ \E r \in ValidateReplies : Request(Report(ReconcileOutcome(r)))

CheckOnLaunch ==
  \/ cache.key /\ LaunchReturn
  \/ ~cache.key /\ Call(Report(ResolveOutcome(cache, <<>>)))

StartTrial == Call(Report(TrialOutcome))

FetchConfig == \E s \in ServerSettings \cup {None} : Call(Silent(ConfigOutcome(s)))

\* The debounce leaves nothing to send, or no settings came.
ReportKeylessState ==
  \/ Call(Silent(Nothing))
  \/ \E s \in ServerSettings \cup {None} : Call(Silent(KeylessOutcome(s)))

\* A store that fails leaves the cache cleared and the state as it was; the
\* FileStore hides a file it could not remove.
Deactivate == \/ /\ Call(Silent(DeactivateOutcome))
                 /\ running' /\ cache.trial # None => disk' = Deactivated
              \/ /\ running /\ SaveFails
                 /\ cache' = Deactivated
                 /\ result' = None /\ verdict' = "none"
                 /\ UNCHANGED <<clock, running, state_, disk>>

\* The constructor: refresh_state_from_store_().
Launch ==
  /\ ~running
  /\ running' = TRUE
  /\ \/ /\ disk # None
        /\ cache' = disk
        /\ state_' = ResolveWithTrial(disk, LaunchPaid(disk))
     \/ /\ disk = None \/ LoadFails
        /\ cache' = Empty
        /\ state_' = "Invalid"
  /\ UNCHANGED <<clock, disk, result, verdict>>

Quit == running /\ Die(<<>>, verdict)

Tick == /\ now < MaxTime
        /\ now' = now + 1
        /\ result' = None
        /\ UNCHANGED <<setbacks, running, state_, cache, disk, verdict>>

SetBack == /\ setbacks < MaxSetBacks
           /\ setbacks' = setbacks + 1
           /\ now' \in 1 .. now - 1
           /\ result' = None
           /\ UNCHANGED <<running, state_, cache, disk, verdict>>

Next == \/ Activate \/ Validate \/ RefreshIfNeeded \/ CheckOnLaunch
        \/ StartTrial \/ FetchConfig \/ ReportKeylessState \/ Deactivate
        \/ Launch \/ Quit \/ Tick \/ SetBack

Spec == Init /\ [][Next]_vars

----------------------------------------------------------------------------
TypeOK == /\ now \in Nat /\ setbacks \in Nat
          /\ running \in BOOLEAN
          /\ state_ \in State /\ cache \in Blob
          /\ disk \in Blob \cup {None}
          /\ result \in State \cup {None}
          /\ verdict \in {"none", "granted", "lapsed", "revoked"}

\* report_(): on no way out does a call answer a state that state() would contradict,
\* also where it kept the state against a clock that was set back.
AnswersAgree == result \in State => result = state

\* What a host that polls has done: checkOnLaunch() or refreshIfNeeded(), with
\* no reply when one was asked for.
Unreached == /\ running'
             /\ \/ cache.key /\ Call(Report(GraceOutcome))
                \/ cache.key /\ ~RefreshDue /\ Call(Report(Nothing))
                \/ ~cache.key /\ Call(Report(ResolveOutcome(cache, <<>>)))

\* Nothing paid without a key: a lease is never cached for a licence that is
\* not stored, and without one the state is neither Licensed nor Limited, so a
\* deactivated install is unlicensed in the session and after every relaunch.
PaidNeedsKey == ~cache.key => cache.lease = None /\ state_ \notin {"Licensed", "Limited"}

\* The part of it that holds when writes fail, in memory and on disk.
LeaseNeedsKey ==
  /\ ~cache.key => cache.lease = None
  /\ disk # None /\ ~disk.key => disk.lease = None

\* The app is Licensed only on the server's word: its last answer granted it.
LicensedIsGranted == state_ = "Licensed" => verdict = "granted"

SettingsOnly(c) == c = [Empty EXCEPT !.days = c.days, !.free = c.free]

\* The store holds what memory holds after every call that returns, so a crash
\* or a quit loses nothing; only an install with nothing to keep has no file.
StoreIsCurrent ==
  running => \/ disk = cache
             \/ disk = None /\ SettingsOnly(cache)

\* README: an existing trial start is never overwritten; one that the client has
\* read outlives deactivation, failed writes and crashes.
TrialStartKept ==
  [][/\ disk # None /\ disk.trial # None
     /\ running => cache.trial = disk.trial
     => disk' # None /\ disk'.trial = disk.trial]_vars

\* A poll that cannot reach the server leaves Licensed only within the lease
\* (and its skew) and within the tenant's offline bound, whichever of the
\* staleness test, the near-expiry test and the grace decided it.  Only the
\* debounce may cover a lease that is over.
OfflineBound ==
  [][Unreached /\ state_' = "Licensed" =>
        /\ cache'.lease # None =>
             Debounced \/ now <= cache'.lease.expiresAt + Skew
        /\ MaxOfflineDays > 0 /\ cache'.lvo # 0 =>
             now - cache'.lvo <= MaxOfflineDays * Day]_vars

\* What the dashboard last said reaches the state of an install without a
\* licence with the call that brought it: no trial and no free tier is granted
\* that the settings in force do not offer, and a free tier that they open is not
\* kept from it.
KeylessIsCurrent ==
  ~cache.key => /\ state_ = "FreeTier" => EffectiveFreeTier(cache)
                /\ state_ = "Trial" => TrialStarted(cache)
                /\ cache.free = TRUE => state_ \notin {"Expired", "Invalid"}

\* README, Entitlements, and client.hpp, hasEntitlement: the paywall and the gate
\* agree, so no feature is open in a state the app shows as unlicensed.
GateAgrees == running /\ state \in {"Expired", "Invalid"} => ~HasEntitlement
=============================================================================
