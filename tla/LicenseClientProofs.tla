------------------------ MODULE LicenseClientProofs ------------------------
(***************************************************************************)
(* What LicenseClient guarantees whatever the server answers, however the  *)
(* clock moves, wherever the process dies and, where it is said, whether   *)
(* or not the store fails.                                                 *)
(***************************************************************************)
EXTENDS LicenseClient, SequenceTheorems, FiniteSetTheorems, TLAPS

Verdicts == {"none", "granted", "lapsed", "revoked"}
Paid     == {"Licensed", "Limited"}

\* What a call may leave in memory, and what it may write: the key goes with
\* the lease and the trial start stays.  The file goes only without a start.
Kept == {b \in Blob : /\ ~b.key => b.lease = None
                      /\ cache.trial # None => b.trial = cache.trial}
Good == Kept \cup {b \in {None} : cache.trial = None}

\* What an install without a key may be: nothing paid, no trial and no free tier but
\* those that the settings in force offer, and the free tier that they open.
Offered(c, s) == /\ s \notin Paid
                 /\ s = "FreeTier" => EffectiveFreeTier(c)
                 /\ s = "Trial" => TrialStarted(c)
                 /\ c.free = TRUE => s \notin {"Expired", "Invalid"}

\* An outcome that keeps to it, and that without a key gives what is offered.
Sound(o) == /\ o \in [writes : Seq(Good), cache : Kept, state : State,
                       answer : State \cup {None}, verdict : Verdicts]
            /\ SaveFails \/ o.cache.key \/ Offered(o.cache, o.state)

\* What a helper hands back is the state it set; what a public call answers is
\* what state() will.
Raw(o) == o.answer = o.state
Agrees(o) == o.answer = None \/ o.answer = Reported(o.cache, o.state)

\* A way out of a public call.
Told(o) == Sound(o) /\ Agrees(o)

\* deactivate() with a store that fails: it returns before set_state_().
DeactivateFails == /\ running /\ SaveFails
                   /\ cache' = Deactivated
                   /\ result' = None /\ verdict' = "none"
                   /\ UNCHANGED <<clock, running, state_, disk>>

\* The inductive invariant.  When a write fails deactivate() returns early and
\* leaves the state of a cleared cache as it was, so that part needs a working store.
Consistent == /\ TypeOK
              /\ LeaseNeedsKey
              /\ SaveFails \/ (PaidNeedsKey /\ KeylessIsCurrent)

----------------------------------------------------------------------------
\* report_() answers a state whatever the clock says.
LEMMA ReportedType ==
  ASSUME NEW c, NEW s \in State
  PROVE  Reported(c, s) \in State
BY DEF Reported, State

\* A lease resolves to a state, never to Invalid: that is for an absent one.
LEMMA PaidStateType ==
  ASSUME NEW l \in Lease
  PROVE  PaidState(l) \in State \ {"Invalid"}
BY DEF PaidState, State, Lease

\* resolve_with_trial_() hands a paid state on and gives nothing paid itself.
LEMMA ResolveWithTrialType ==
  ASSUME NEW c, NEW p \in State
  PROVE  /\ ResolveWithTrial(c, p) \in State
         /\ p \notin Paid => ResolveWithTrial(c, p) \notin Paid
BY DEF ResolveWithTrial, State, Paid

\* Without anything paid it gives what is offered.
LEMMA ResolveOffered ==
  ASSUME NEW c
  PROVE  ResolveWithTrial(c, "Invalid") \in State /\ Offered(c, ResolveWithTrial(c, "Invalid"))
<1>1. TrialActive(c) => TrialStarted(c)
  BY DEF TrialActive, TrialDaysLeft
<1>2. c.free = TRUE => EffectiveFreeTier(c)
  BY NoneAssumption DEF EffectiveFreeTier
<1> QED
  BY <1>1, <1>2 DEF ResolveWithTrial, Offered, State, Paid

\* What the cache of an install without a key shows is offered to it.
LEMMA CacheOffered == Consistent => SaveFails \/ cache.key \/ Offered(cache, state_)
BY DEF Consistent, PaidNeedsKey, KeylessIsCurrent, Offered, Paid

\* An outcome is sound when its parts are.
LEMMA OutcomeSound ==
  ASSUME NEW w \in Seq(Good), NEW c \in Kept, NEW s \in State,
         NEW v \in Verdicts,
         SaveFails \/ c.key \/ Offered(c, s)
  PROVE  Sound(Outcome(w, c, s, v))
BY DEF Sound, Outcome

\* report_() and the ways out without a state keep an outcome sound.
LEMMA ReportSound ==
  ASSUME NEW o, Sound(o)
  PROVE  Sound(Report(o)) /\ Told(Silent(o)) /\ (Raw(o) => Told(Report(o)))
<1>1. Reported(o.cache, o.answer) \in State \cup {None}
  BY DEF Reported, State, Sound
<1>2. Sound(Report(o)) /\ Sound(Silent(o))
  BY <1>1 DEF Sound, Report, Silent
<1>3. Silent(o).answer = None /\ Report(o).answer = Reported(o.cache, o.answer)
  BY DEF Sound, Report, Silent
<1>4. Report(o).cache = o.cache /\ Report(o).state = o.state
  BY DEF Report
<1> QED
  BY <1>2, <1>3, <1>4 DEF Told, Agrees, Raw

\* What the helpers hand back is raw.
LEMMA HelpersAreRaw ==
  /\ Raw(Nothing) /\ Raw(GraceOutcome) /\ Raw(TrialOutcome)
  /\ \A w, c, s, v : Raw(Outcome(w, c, s, v))
  /\ \A w, c, l : Raw(LeaseOutcome(w, c, l))
  /\ \A w, c : Raw(ResolveOutcome(c, w))
  /\ \A r : Raw(RejectionOutcome(r)) /\ Raw(AcceptOutcome(r)) /\ Raw(ReconcileOutcome(r))
<1>1. \A w, c, s, v : Raw(Outcome(w, c, s, v))
  BY DEF Raw, Outcome
<1>2. \A w, c, l : Raw(LeaseOutcome(w, c, l))
  BY <1>1 DEF LeaseOutcome
<1>3. Raw(GraceOutcome)
  BY <1>1 DEF GraceOutcome
<1>4. \A r : Raw(RejectionOutcome(r))
  BY <1>1, <1>2 DEF RejectionOutcome
<1>5. \A r : Raw(AcceptOutcome(r))
  BY <1>1, <1>2 DEF AcceptOutcome
<1>6. \A r : Raw(ReconcileOutcome(r))
  BY <1>3, <1>4, <1>5 DEF ReconcileOutcome
<1>7. \A w, c : Raw(ResolveOutcome(c, w))
  BY <1>1 DEF ResolveOutcome
<1>8. Raw(Nothing) /\ Raw(TrialOutcome)
  BY <1>1, <1>7 DEF Nothing, TrialOutcome
<1> QED
  BY <1>1, <1>2, <1>3, <1>4, <1>5, <1>6, <1>7, <1>8

\* The cache itself may be written, and is kept.
LEMMA CacheKept == Consistent => cache \in Kept /\ state_ \in State
                                 /\ verdict \in Verdicts
BY DEF Consistent, TypeOK, LeaseNeedsKey, Kept, Verdicts

\* Settings touch neither the key nor the lease nor the trial start.
LEMMA ConfigSound ==
  ASSUME Consistent, NEW s \in ServerSettings \cup {None}
  PROVE  /\ ApplyConfig(cache, s) \in Kept
         /\ ApplyConfig(cache, s).key = cache.key
         /\ ApplyConfig(cache, s).lease = cache.lease
         /\ ConfigWrites(cache, s) \in Seq(Good)
<1>1. /\ ApplyConfig(cache, s) \in Kept
      /\ ApplyConfig(cache, s).key = cache.key
      /\ ApplyConfig(cache, s).lease = cache.lease
  <2>1. CASE s = None
    BY <2>1, CacheKept DEF ApplyConfig
  <2>2. CASE s # None
    <3>1. s.days \in Nat /\ s.free \in BOOLEAN
      BY <2>2, EnvironmentAssumption
    <3> QED
      BY <2>2, <3>1, CacheKept DEF ApplyConfig, Kept, Blob
  <2> QED
    BY <2>1, <2>2
<1>2. ConfigWrites(cache, s) \in Seq(Good)
  <2>1. ApplyConfig(cache, s) \in Good
    BY <1>1 DEF Good
  <2>2. <<>> \in Seq(Good) /\ <<ApplyConfig(cache, s)>> \in Seq(Good)
    BY <2>1
  <2> QED
    BY <2>2 DEF ConfigWrites
<1> QED
  BY <1>1, <1>2

\* A lease of the server is one, with an expiry, unless it is forged or absent.
LEMMA LeaseType ==
  ASSUME Consistent, NEW l \in LeasesNow, l # None, l # Forged
  PROVE  l \in Lease
<1>1. PICK o \in Offers : l = [status |-> o.status, expiresAt |-> now + o.lasts]
  BY DEF LeasesNow
<1>2. now \in Nat /\ o.lasts \in Nat
      /\ o.status \in {"active", "fallback", "expired"}
  BY EnvironmentAssumption DEF Consistent, TypeOK
<1> QED
  BY <1>1, <1>2 DEF Lease

\* A lease is kept for an install whose key is kept, forged ones for none.
LEMMA LeaseSound ==
  ASSUME Consistent, NEW w \in Seq(Good), NEW c \in Kept,
         NEW l \in LeasesNow, l # None, l = Forged \/ c.key
  PROVE  Sound(LeaseOutcome(w, c, l))
<1>1. CASE l = Forged
  <2> QED
    BY <1>1, ResolveOffered, CacheKept, OutcomeSound DEF LeaseOutcome
<1>2. CASE l # Forged
  <2> DEFINE leased == [c EXCEPT !.lease = l]
  <2> DEFINE anchored == [leased EXCEPT !.lvo = now]
  <2>1. l \in Lease
    BY <1>2, LeaseType
  <2>2. now \in Nat
    BY DEF Consistent, TypeOK
  <2>3. leased \in Kept /\ anchored \in Kept /\ anchored.key
    BY <1>2, <2>1, <2>2 DEF Kept, Blob
  <2>4. w \o <<leased, anchored>> \in Seq(Good)
    BY <2>3, ConcatProperties DEF Good
  <2>5. ResolveWithTrial(anchored, PaidState(l)) \in State
    BY <2>1, PaidStateType, ResolveWithTrialType
  <2>6. Word(l) \in Verdicts
    BY DEF Word, Verdicts
  <2>7. LeaseOutcome(w, c, l)
          = Outcome(w \o <<leased, anchored>>, anchored,
                    ResolveWithTrial(anchored, PaidState(l)), Word(l))
    BY <1>2 DEF LeaseOutcome
  <2> QED
    BY <2>3, <2>4, <2>5, <2>6, <2>7, OutcomeSound
<1> QED
  BY <1>1, <1>2

\* A call that changes nothing.
LEMMA NothingSound == Consistent => Sound(Nothing)
<1> SUFFICES ASSUME Consistent PROVE Sound(Nothing)
  OBVIOUS
<1>1. <<>> \in Seq(Good)
  OBVIOUS
<1> QED
  BY <1>1, CacheOffered, CacheKept, OutcomeSound DEF Nothing

\* activate(): the key comes with the lease, or with no lease at all.
LEMMA ActivateSound ==
  ASSUME Consistent, NEW r \in ActivateReplies
  PROVE  Told(ActivateOutcome(r))
<1> DEFINE known == [cache EXCEPT !.key = TRUE]
<1>1. known \in Kept /\ known.key
  BY CacheKept DEF Kept, Blob
<1>2. <<>> \in Seq(Good) /\ <<known>> \in Seq(Good)
  BY <1>1 DEF Good
<1>3. CASE r \in {Bare("failed"), Bare("declined")}
  <2>1. ActivateOutcome(r) \in {Silent(Nothing), Report(Nothing)}
    BY <1>3 DEF ActivateOutcome, Bare
  <2> QED
    BY <2>1, NothingSound, ReportSound, HelpersAreRaw
<1>4. CASE r \notin {Bare("failed"), Bare("declined")}
  <2>1. r.status = "ok" /\ r.lease \in LeasesNow
    BY <1>4 DEF ActivateReplies
  <2>2. CASE r.lease = None
    <3> DEFINE o == Outcome(<<known>>, known, "Licensed", "granted")
    <3>1. ActivateOutcome(r) = Report(o)
      BY <2>1, <2>2, NoneIsNoLease DEF ActivateOutcome
    <3>2. "Licensed" \in State /\ "granted" \in Verdicts
      BY DEF State, Verdicts
    <3>3. Sound(o)
      BY <1>1, <1>2, <3>2, OutcomeSound
    <3> QED
      BY <3>1, <3>3, HelpersAreRaw, ReportSound
  <2>3. CASE r.lease = Forged
    <3>1. ActivateOutcome(r) = Report(LeaseOutcome(<<>>, cache, Forged))
      BY <2>1, <2>3, NoneIsNoLease DEF ActivateOutcome
    <3>2. Sound(LeaseOutcome(<<>>, cache, Forged))
      BY <1>2, <2>1, <2>3, NoneIsNoLease, CacheKept, LeaseSound
    <3> QED
      BY <3>1, <3>2, HelpersAreRaw, ReportSound
  <2>4. CASE r.lease \notin {None, Forged}
    <3>1. ActivateOutcome(r) = Report(LeaseOutcome(<<>>, known, r.lease))
      BY <2>1, <2>4 DEF ActivateOutcome
    <3>2. Sound(LeaseOutcome(<<>>, known, r.lease))
      BY <1>1, <1>2, <2>1, <2>4, LeaseSound
    <3> QED
      BY <3>1, <3>2, HelpersAreRaw, ReportSound
  <2> QED
    BY <2>2, <2>3, <2>4
<1> QED
  BY <1>3, <1>4

\* A reply with a lease is one to a request that carried a key.
LEMMA ReplySound ==
  ASSUME Consistent, NEW r \in ValidateReplies
  PROVE  /\ r.status \in {"unreachable", "refused", "garbled", "ok", "rejected"}
         /\ r.status = "rejected" => Sound(RejectionOutcome(r))
         /\ r.status = "ok" => Sound(AcceptOutcome(r))
<1>1. CASE r \in Failures
  <2>1. r.status \in {"unreachable", "refused", "garbled"}
    BY <1>1 DEF Failures, Bare
  <2> QED
    BY <2>1
<1>2. CASE r \notin Failures
  <2>1. /\ cache.key
        /\ r.lease \in LeasesNow
        /\ r.settings \in ServerSettings \cup {None}
        /\ r.status \in {"ok", "rejected"}
    BY <1>2 DEF ValidateReplies
  <2>2. <<>> \in Seq(Good) /\ "Invalid" \in State
    BY DEF State
  <2>3. Sound(RejectionOutcome(r))
    <3>1. CASE r.lease = None
      <4> DEFINE cleared == [cache EXCEPT !.lease = None]
      <4>1. cleared \in Kept /\ cleared.key
        BY <2>1, CacheKept DEF Kept, Blob
      <4>2. <<cleared>> \in Seq(Good)
        BY <4>1 DEF Good
      <4>3. RejectionOutcome(r) = Outcome(<<cleared>>, cleared, "Invalid", "revoked")
        BY <3>1 DEF RejectionOutcome
      <4> QED
        BY <2>2, <4>1, <4>2, <4>3, OutcomeSound DEF Verdicts
    <3>2. CASE r.lease # None
      BY <2>1, <2>2, <3>2, CacheKept, LeaseSound DEF RejectionOutcome
    <3> QED
      BY <3>1, <3>2
  <2>4. r.status = "ok" => Sound(AcceptOutcome(r))
    <3> DEFINE c == ApplyConfig(cache, r.settings)
    <3> DEFINE w == ConfigWrites(cache, r.settings)
    <3>1. c \in Kept /\ c.key /\ w \in Seq(Good)
      BY <2>1, ConfigSound
    <3>2. CASE r.lease = None
      <4>1. ResolveWithTrial(c, state_) \in State
        BY CacheKept, ResolveWithTrialType
      <4>2. AcceptOutcome(r) = Outcome(w, c, ResolveWithTrial(c, state_), verdict)
        BY <3>2 DEF AcceptOutcome
      <4> QED
        BY <3>1, <4>1, <4>2, CacheKept, OutcomeSound
    <3>3. CASE r.lease # None
      <4>1. AcceptOutcome(r) = LeaseOutcome(w, c, r.lease)
        BY <3>3 DEF AcceptOutcome
      <4> QED
        BY <2>1, <3>1, <3>3, <4>1, LeaseSound
    <3> QED
      BY <3>2, <3>3
  <2> QED
    BY <2>1, <2>3, <2>4
<1> QED
  BY <1>1, <1>2

\* validate(): each of its ways out.
LEMMA ValidateSound ==
  ASSUME Consistent, NEW r \in ValidateReplies
  PROVE  Told(ValidateOutcome(r))
<1>1. CASE r.status \in {"unreachable", "refused", "garbled"}
  <2>1. ValidateOutcome(r) = Report(Nothing)
    BY <1>1 DEF ValidateOutcome
  <2> QED
    BY <2>1, NothingSound, HelpersAreRaw, ReportSound
<1>2. CASE r.status = "rejected"
  <2>1. ValidateOutcome(r) = Report(RejectionOutcome(r))
    BY <1>2 DEF ValidateOutcome
  <2> QED
    BY <1>2, <2>1, ReplySound, HelpersAreRaw, ReportSound
<1>3. CASE r.status = "ok"
  <2>1. ValidateOutcome(r) = Report(AcceptOutcome(r))
    BY <1>3 DEF ValidateOutcome
  <2> QED
    BY <1>3, <2>1, ReplySound, HelpersAreRaw, ReportSound
<1> QED
  BY <1>1, <1>2, <1>3, ReplySound

\* apply_offline_grace_() only ever takes Licensed away.
LEMMA GraceSound == Consistent => Sound(GraceOutcome)
<1> SUFFICES ASSUME Consistent PROVE Sound(GraceOutcome)
  OBVIOUS
<1> DEFINE s == IF state_ = "Licensed" /\ (LeaseGone \/ ~WithinGrace)
                THEN "Expired" ELSE state_
<1>1. s \in State /\ (SaveFails \/ cache.key \/ Offered(cache, s))
  <2>1. "Expired" \in State
    BY DEF State
  <2>2. SaveFails \/ cache.key \/ state_ # "Licensed"
    BY CacheOffered DEF Offered, Paid
  <2> QED BY <2>1, <2>2, CacheKept, CacheOffered
<1>2. <<>> \in Seq(Good)
  OBVIOUS
<1> QED
  BY <1>1, <1>2, CacheKept, OutcomeSound DEF GraceOutcome

\* validate_and_reconcile_(): whatever the server said, the outcome is sound.
LEMMA ReconcileSound ==
  ASSUME Consistent, NEW r \in ValidateReplies
  PROVE  Sound(ReconcileOutcome(r)) /\ Told(Report(ReconcileOutcome(r)))
<1>1. Sound(ReconcileOutcome(r))
  BY GraceSound, ReplySound DEF ReconcileOutcome
<1> QED
  BY <1>1, HelpersAreRaw, ReportSound

\* resolve_current_state_() of a cache that has kept the key and the lease: an
\* install without them gets a trial or the free tier at most.
LEMMA ResolveSound ==
  ASSUME Consistent, NEW c \in Kept, NEW w \in Seq(Good),
         c.key = cache.key, c.lease = cache.lease
  PROVE  Sound(ResolveOutcome(c, w))
<1>1. /\ ResolveCurrent(c) \in State
      /\ SaveFails \/ c.key \/ Offered(c, ResolveCurrent(c))
  BY ResolveOffered, CacheKept DEF ResolveCurrent, Kept
<1> QED
  BY <1>1, CacheKept, OutcomeSound DEF ResolveOutcome

\* startTrial(): the start is recorded where there is none.
LEMMA TrialSound == Consistent => Sound(TrialOutcome)
<1> SUFFICES ASSUME Consistent PROVE Sound(TrialOutcome)
  OBVIOUS
<1> DEFINE c == IF cache.trial # None THEN cache ELSE StartNow
<1>1. c \in Kept /\ c.key = cache.key /\ c.lease = cache.lease
  <2>1. now \in Nat
    BY DEF Consistent, TypeOK
  <2> QED
    BY <2>1, CacheKept DEF StartNow, Kept, Blob
<1>2. <<c>> \in Seq(Good)
  BY <1>1 DEF Good
<1> QED
  BY <1>1, <1>2, ResolveSound DEF TrialOutcome

\* Server settings change nothing but settings.
LEMMA SettingsSound ==
  ASSUME Consistent, NEW s \in ServerSettings \cup {None}
  PROVE  Sound(ConfigOutcome(s)) /\ Sound(KeylessOutcome(s))
<1>1. Sound(ConfigOutcome(s))
  BY NothingSound, ConfigSound, ResolveSound DEF ConfigOutcome
<1>2. <<cache>> \in Seq(Good)
  BY CacheKept DEF Good
<1>3. ConfigOutcome(s).writes \in Seq(Good)
  BY <1>1 DEF Sound
<1>4. <<cache>> \o ConfigOutcome(s).writes \in Seq(Good)
  BY <1>2, <1>3, ConcatProperties
<1> QED
  BY <1>1, <1>4 DEF Sound, KeylessOutcome, ConfigOutcome, Nothing, ResolveOutcome,
                    Outcome

\* deactivate(): key and lease go together, the start stays.
LEMMA DeactivateSound == Consistent => Sound(DeactivateOutcome)
<1> SUFFICES ASSUME Consistent PROVE Sound(DeactivateOutcome)
  OBVIOUS
<1>1. Deactivated \in Kept
  BY CacheKept DEF Deactivated, Kept, Blob
<1>2. <<IF cache.trial # None THEN Deactivated ELSE None>> \in Seq(Good)
  <2>1. (IF cache.trial # None THEN Deactivated ELSE None) \in Good
    BY <1>1 DEF Good
  <2> QED
    BY <2>1
<1> QED
  BY <1>1, <1>2, ResolveOffered, OutcomeSound DEF DeactivateOutcome, Verdicts

\* The hardware id saved ahead of a request changes nothing of this.
LEMMA RequestSound ==
  ASSUME Consistent, NEW o, Told(o), Request(o)
  PROVE  \E q : Told(q) /\ Call(q)
<1> DEFINE q == [o EXCEPT !.writes = <<cache>> \o @]
<1>1. <<cache>> \in Seq(Good) /\ o.writes \in Seq(Good)
  BY CacheKept DEF Good, Sound, Told
<1>2. <<cache>> \o o.writes \in Seq(Good)
  BY <1>1, ConcatProperties
<1>3. Told(q)
  BY <1>2 DEF Sound, Told, Agrees
<1>4. CASE Call(o)
  BY <1>4
<1>5. CASE Call(q)
  BY <1>3, <1>5
<1> QED
  BY <1>4, <1>5 DEF Request

\* Every step is a sound call, or one of the few that are none.
LEMMA NextIsSound ==
  ASSUME Consistent, Next
  PROVE  \/ \E o : Told(o) /\ Call(o)
         \/ DeactivateFails \/ Launch \/ Tick \/ SetBack
<1>1. CASE Activate
  <2>1. PICK r \in ActivateReplies : Request(ActivateOutcome(r))
    BY <1>1 DEF Activate
  <2> QED
    BY <2>1, ActivateSound, RequestSound
<1>2. CASE Validate
  <2>1. PICK r \in ValidateReplies : Request(ValidateOutcome(r))
    BY <1>2 DEF Validate
  <2> QED
    BY <2>1, ValidateSound, RequestSound
<1>3. Told(Report(ResolveOutcome(cache, <<>>)))
  <2>1. <<>> \in Seq(Good)
    OBVIOUS
  <2> QED
    BY <2>1, CacheKept, ResolveSound, HelpersAreRaw, ReportSound
<1>a. Told(Report(Nothing)) /\ Told(Silent(Nothing))
  BY NothingSound, HelpersAreRaw, ReportSound
<1>b. ASSUME \E r \in ValidateReplies : Request(Report(ReconcileOutcome(r)))
      PROVE  \E o : Told(o) /\ Call(o)
  <2>1. PICK r \in ValidateReplies : Request(Report(ReconcileOutcome(r)))
    BY <1>b
  <2> QED
    BY <2>1, ReconcileSound, RequestSound
<1>4. CASE RefreshIfNeeded
  BY <1>3, <1>4, <1>a, <1>b DEF RefreshIfNeeded, DebouncedReturn
<1>5. CASE CheckOnLaunch
  BY <1>3, <1>5, <1>b DEF CheckOnLaunch, LaunchReturn
<1>6. CASE StartTrial
  BY <1>6, TrialSound, HelpersAreRaw, ReportSound DEF StartTrial
<1>7. CASE FetchConfig
  BY <1>7, SettingsSound, ReportSound DEF FetchConfig
<1>8. CASE ReportKeylessState
  BY <1>8, <1>a, SettingsSound, ReportSound DEF ReportKeylessState
<1>9. CASE Deactivate
  BY <1>9, DeactivateSound, ReportSound DEF Deactivate, DeactivateFails
<1>10. CASE Quit
  <2>1. Call(Silent(Nothing))
    BY <1>10 DEF Quit, Call, Silent, Nothing, Outcome
  <2> QED
    BY <1>a, <2>1
<1> QED
  BY <1>1, <1>2, <1>4, <1>5, <1>6, <1>7, <1>8, <1>9, <1>10 DEF Next

\* Whatever fails and wherever the process dies, the store holds what it held
\* or something the call meant to write.
LEMMA CallWrites ==
  ASSUME NEW o, Told(o), Call(o)
  PROVE  disk' \in {disk} \cup Good
<1>1. o.writes \in Seq(Good)
  BY DEF Sound, Told
<1>2. \A i \in DOMAIN o.writes : o.writes[i] \in Good
  BY <1>1, ElementOfSeq
<1>3. o.writes # <<>> => Last(o.writes) \in Good
  <2>1. o.writes # <<>> => Len(o.writes) \in DOMAIN o.writes
    BY <1>1, EmptySeq, LenProperties
  <2> QED
    BY <1>2, <2>1 DEF Last
<1> QED
  BY <1>2, <1>3 DEF Call, Commit, Stored, Die

----------------------------------------------------------------------------
\* A fresh install.
LEMMA ConsistentInit == Init => Consistent
<1>1. Empty \in Blob /\ Empty.lease = None /\ Empty.free # TRUE
  BY NoneAssumption DEF Empty, Blob
<1>2. ASSUME Init PROVE TypeOK
  <2>1. now \in Nat /\ setbacks \in Nat
    BY <1>2 DEF Init
  <2>2. running \in BOOLEAN /\ state_ \in State
    BY <1>2 DEF Init, State
  <2>3. cache \in Blob /\ disk \in Blob \cup {None} /\ result \in State \cup {None}
    BY <1>1, <1>2 DEF Init
  <2> QED
    BY <1>2, <2>1, <2>2, <2>3 DEF Init, TypeOK
<1>3. Init => LeaseNeedsKey /\ PaidNeedsKey /\ KeylessIsCurrent
  BY <1>1 DEF Init, LeaseNeedsKey, PaidNeedsKey, KeylessIsCurrent
<1> QED
  BY <1>2, <1>3 DEF Consistent

\* No step of the client, of the process or of the clock breaks it.
LEMMA ConsistentStep == Consistent /\ [Next]_vars => Consistent'
<1> SUFFICES ASSUME Consistent, [Next]_vars PROVE Consistent'
  OBVIOUS
<1>1. ASSUME NEW o, Told(o), Call(o) PROVE Consistent'
  <2>1. disk' \in {disk} \cup Good
    BY <1>1, CallWrites
  <2>2. disk' \in Blob \cup {None}
        /\ (disk' # None /\ ~disk'.key => disk'.lease = None)
    BY <2>1 DEF Good, Kept, Consistent, TypeOK, LeaseNeedsKey
  <2>3. CASE Commit(o)
    <3>1. /\ cache' \in Kept /\ state_' \in State /\ result' \in State \cup {None}
          /\ verdict' \in Verdicts
          /\ SaveFails \/ cache'.key \/ Offered(cache', state_')
          /\ UNCHANGED <<now, setbacks, running>>
      BY <1>1, <2>3 DEF Told, Sound, Commit, clock
    <3> QED
      BY <2>2, <3>1 DEF Consistent, TypeOK, LeaseNeedsKey, PaidNeedsKey,
                        KeylessIsCurrent, Offered, Kept, Paid, Verdicts
  <2>4. CASE Die(o.writes, o.verdict)
    <3>1. /\ running' = FALSE /\ cache' = Empty /\ state_' = "Invalid"
          /\ result' = None /\ verdict' \in Verdicts
          /\ UNCHANGED <<now, setbacks>>
      BY <1>1, <2>4, CacheKept DEF Told, Sound, Die, clock
    <3>2. Empty \in Blob /\ Empty.lease = None /\ Empty.free # TRUE
      BY NoneAssumption DEF Empty, Blob
    <3> QED
      BY <2>2, <3>1, <3>2 DEF Consistent, TypeOK, LeaseNeedsKey, PaidNeedsKey,
                              KeylessIsCurrent, State, Verdicts
  <2> QED
    BY <1>1, <2>3, <2>4 DEF Call
<1>2. CASE DeactivateFails
  <2>1. Deactivated \in Blob /\ Deactivated.lease = None
    BY CacheKept DEF Deactivated, Kept, Blob
  <2> QED
    BY <1>2, <2>1 DEF DeactivateFails, clock, Consistent, TypeOK, LeaseNeedsKey
<1>3. CASE Launch
  <2>1. CASE cache' = disk /\ disk # None
             /\ state_' = ResolveWithTrial(disk, LaunchPaid(disk))
    <3>1. LaunchPaid(disk) \in State
      BY <2>1, PaidStateType DEF LaunchPaid, State, Consistent, TypeOK, Blob
    <3>2. ~disk.key => LaunchPaid(disk) = "Invalid"
      BY <2>1 DEF LaunchPaid, Consistent, LeaseNeedsKey
    <3>3. /\ state_' \in State
          /\ ~disk.key => Offered(disk, state_')
      BY <2>1, <3>1, <3>2, ResolveWithTrialType, ResolveOffered
    <3> QED
      BY <1>3, <2>1, <3>3 DEF Launch, clock, Consistent, TypeOK, LeaseNeedsKey,
                              PaidNeedsKey, KeylessIsCurrent, Offered, Paid
  <2>2. CASE cache' = Empty /\ state_' = "Invalid"
    <3>1. Empty \in Blob /\ Empty.lease = None /\ Empty.free # TRUE
      BY NoneAssumption DEF Empty, Blob
    <3> QED
      BY <1>3, <2>2, <3>1 DEF Launch, clock, Consistent, TypeOK, LeaseNeedsKey,
                              PaidNeedsKey, KeylessIsCurrent, State
  <2> QED
    BY <1>3, <2>1, <2>2 DEF Launch
<1>4. CASE Tick
  BY <1>4 DEF Tick, Consistent, TypeOK, LeaseNeedsKey, PaidNeedsKey,
               KeylessIsCurrent
<1>5. CASE SetBack
  BY <1>5 DEF SetBack, Consistent, TypeOK, LeaseNeedsKey, PaidNeedsKey,
               KeylessIsCurrent
<1>6. CASE UNCHANGED vars
  BY <1>6 DEF vars, Consistent, TypeOK, LeaseNeedsKey, PaidNeedsKey,
               KeylessIsCurrent
<1> QED
  BY <1>1, <1>2, <1>3, <1>4, <1>5, <1>6, NextIsSound

\* The invariant holds in every reachable state.
LEMMA ConsistentHolds == Spec => []Consistent
BY ConsistentInit, ConsistentStep, PTL DEF Spec

\* Every variable keeps its type, whatever the server and the store do.
THEOREM TypeCorrect == Spec => []TypeOK
<1>1. Consistent => TypeOK
  BY DEF Consistent
<1> QED
  BY <1>1, ConsistentHolds, PTL

\* A lease is never kept, in memory or on disk, for a key that is not: also
\* when reads and writes fail and the process dies inside a call.
THEOREM LeaseHasKey == Spec => []LeaseNeedsKey
<1>1. Consistent => LeaseNeedsKey
  BY DEF Consistent
<1> QED
  BY <1>1, ConsistentHolds, PTL

\* With a store that writes, nothing paid is left without a key, in the session
\* and after any relaunch.
THEOREM PaidHasKey ==
  ASSUME ~SaveFails
  PROVE  Spec => []PaidNeedsKey
<1>1. Consistent => PaidNeedsKey
  BY DEF Consistent
<1> QED
  BY <1>1, ConsistentHolds, PTL

\* A trial start that the client has read is neither changed nor dropped by any
\* call, failure, crash or relaunch.
THEOREM TrialStartIsKept == Spec => TrialStartKept
<1> DEFINE Started == disk # None /\ disk.trial # None
                      /\ (running => cache.trial = disk.trial)
<1> DEFINE P == Started => disk' # None /\ disk'.trial = disk.trial
<1>1. Consistent /\ [Next]_vars => [P]_vars
  <2> SUFFICES ASSUME Consistent, Next, Started PROVE P
    BY DEF vars
  <2>1. ASSUME NEW o, Told(o), Call(o) PROVE P
    <3>1. disk' \in {disk} \cup Good
      BY <2>1, CallWrites
    <3>2. cache.trial # None /\ cache.trial = disk.trial
      BY <2>1 DEF Call
    <3> QED
      BY <3>1, <3>2, NoneIsNoBlob DEF Good, Kept
  <2>2. CASE DeactivateFails \/ Launch \/ Tick \/ SetBack
    BY <2>2 DEF DeactivateFails, Launch, Tick, SetBack
  <2> QED
    BY <2>1, <2>2, NextIsSound
<1> QED
  BY <1>1, ConsistentHolds, PTL DEF Spec, TrialStartKept

\* With a store that writes, what the dashboard last said holds for an install
\* without a licence: no trial and no free tier outlives the call, the crash or the
\* relaunch that brought settings without it.
THEOREM KeylessFollowsSettings ==
  ASSUME ~SaveFails
  PROVE  Spec => []KeylessIsCurrent
<1>1. Consistent => KeylessIsCurrent
  BY DEF Consistent
<1> QED
  BY <1>1, ConsistentHolds, PTL

\* The last answer is kept only while a Client runs, until the clock moves.
Answered == AnswersAgree /\ (~running => result = None)

\* report_(): on each way out of each call, whatever failed before it and however the
\* clock was set, the answer is what state() says after it.
THEOREM AnswersAgreeWithState == Spec => []AnswersAgree
<1>1. Init => Answered
  BY NoneIsNoState DEF Init, Answered, AnswersAgree
<1>2. Consistent /\ Answered /\ [Next]_vars => Answered'
  <2> SUFFICES ASSUME Consistent, Answered, [Next]_vars PROVE Answered'
    OBVIOUS
  <2>a. ASSUME result' = None PROVE Answered'
    BY <2>a, NoneIsNoState DEF Answered, AnswersAgree
  <2>1. ASSUME NEW o, Told(o), Call(o) PROVE Answered'
    <3>1. CASE Commit(o)
      <4>1. /\ result' = None \/ result' = Reported(cache', state_')
            /\ running' /\ now' = now
        BY <2>1, <3>1 DEF Commit, Call, Told, Agrees, clock
      <4>2. CASE result' = Reported(cache', state_')
        <5>1. result' = state'
          BY <4>1, <4>2 DEF state, Reported, ClockUntrusted, ClockRolledBack
        <5> QED BY <4>1, <5>1 DEF Answered, AnswersAgree
      <4> QED BY <2>a, <4>1, <4>2
    <3>2. CASE Die(o.writes, o.verdict)
      BY <2>a, <3>2 DEF Die
    <3> QED BY <2>1, <3>1, <3>2 DEF Call
  <2>2. CASE Launch
    BY <2>a, <2>2 DEF Launch, Answered
  <2>3. CASE DeactivateFails \/ Tick \/ SetBack
    BY <2>a, <2>3 DEF DeactivateFails, Tick, SetBack
  <2>4. CASE UNCHANGED vars
    BY <2>4 DEF vars, clock, Answered, AnswersAgree, state, Reported, ClockUntrusted,
                ClockRolledBack
  <2> QED
    BY <2>1, <2>2, <2>3, <2>4, NextIsSound
<1>3. Answered => AnswersAgree
  BY DEF Answered
<1> QED
  BY <1>1, <1>2, <1>3, ConsistentInit, ConsistentStep, PTL DEF Spec

\* What OfflineBound says of the next state.
WithinBounds ==
  /\ cache'.lease # None => Debounced \/ now <= cache'.lease.expiresAt + Skew
  /\ MaxOfflineDays > 0 /\ cache'.lvo # 0 => now - cache'.lvo <= MaxOfflineDays * Day

\* A poll without a reply that leaves the state Licensed has looked at the lease and
\* at the age of the last reply: in the grace, or because no refresh was due.
LEMMA PollBounded ==
  ASSUME Consistent, Unreached, state_' = "Licensed"
  PROVE  WithinBounds
<1>a. /\ now \in Nat /\ cache \in Blob /\ cache.lvo \in Nat /\ Skew \in Nat /\ Day \in Nat \ {0}
      /\ MaxOfflineDays \in Nat /\ NearExpiry \in Nat
      /\ cache.lease # None => cache.lease.expiresAt \in Nat
  BY TimesAssumption, ConfigAssumption DEF Consistent, TypeOK, Blob, Lease
<1>b. ASSUME NEW o, Call(o) PROVE running' => cache' = o.cache /\ state_' = o.state
  BY <1>b DEF Call, Commit, Die
<1>1. CASE cache.key /\ Call(Report(GraceOutcome))
  <2>1. cache' = cache /\ state_ = "Licensed" /\ ~LeaseGone /\ WithinGrace
    BY <1>1, <1>b DEF Report, GraceOutcome, Outcome, Unreached
  <2> QED
    BY <1>a, <2>1 DEF WithinBounds, LeaseGone, WithinGrace
<1>2. CASE cache.key /\ ~RefreshDue /\ Call(Report(Nothing))
  <2>1. cache' = cache
    BY <1>2, <1>b DEF Report, Nothing, Outcome, Unreached
  <2>2. cache.lease # None => Debounced \/ now <= cache.lease.expiresAt
    BY <1>a, <1>2 DEF RefreshDue, NearlyOver
  <2>3. cache.lvo # 0 => now - cache.lvo < Day
    BY <1>a, <1>2, TimesAssumption DEF RefreshDue, Debounced
  <2>4. MaxOfflineDays > 0 => Day <= MaxOfflineDays * Day
    BY <1>a
  <2>5. MaxOfflineDays > 0 /\ cache.lvo # 0 => now - cache.lvo <= MaxOfflineDays * Day
    <3>1. MaxOfflineDays * Day \in Nat
      BY <1>a
    <3> QED BY <1>a, <2>3, <2>4, <3>1
  <2>6. cache.lease # None => Debounced \/ now <= cache.lease.expiresAt + Skew
    BY <1>a, <2>2
  <2> QED
    BY <2>1, <2>5, <2>6 DEF WithinBounds
<1>3. CASE ~cache.key /\ Call(Report(ResolveOutcome(cache, <<>>)))
  <2>1. state_' = ResolveCurrent(cache)
    BY <1>3, <1>b DEF Report, ResolveOutcome, Outcome, Unreached
  <2>2. cache.lease = None
    BY <1>3 DEF Consistent, LeaseNeedsKey
  <2> QED
    BY <1>3, <2>1, <2>2, ResolveOffered DEF ResolveCurrent, Offered, Paid
<1> QED
  BY <1>1, <1>2, <1>3 DEF Unreached

\* A host that polls a server it cannot reach keeps Licensed no longer than the lease
\* and its skew, nor than the tenant's offline bound; the debounce apart.  This holds
\* for a clock that is set back and a store that fails too.
THEOREM OfflineIsBounded == Spec => OfflineBound
<1>1. Consistent => [Unreached /\ state_' = "Licensed" => WithinBounds]_vars
  BY PollBounded
<1> QED
  BY <1>1, ConsistentHolds, PTL DEF OfflineBound, WithinBounds

----------------------------------------------------------------------------
(* A store that works: memory and store agree, and Licensed is the server's *)
(* word.  The two are proved together: after a crash the store speaks.      *)

\* An active lease stands for a word that granted it.
Granted(b, v) == b.lease # None /\ b.lease.status = "active" => v = "granted"

\* What may be written on the way to the word v: a blob that agrees with v, or
\* the licence that was in memory already.
Fitting(v) == {b \in Blob \cup {None} :
                 b # None => Granted(b, v) \/ Licence(b) = Licence(cache)}

\* The last write is what memory holds.
Flushed(w, c) ==
  IF w = <<>> THEN c = cache
  ELSE Last(w) = c \/ (Last(w) = None /\ SettingsOnly(c))

Durable(o) == /\ o \in [writes : Seq(Fitting(o.verdict)), cache : Blob,
                        state : State, answer : State \cup {None}, verdict : Verdicts]
              /\ Flushed(o.writes, o.cache)
              /\ Granted(o.cache, o.verdict)
              /\ o.state = "Licensed" => o.verdict = "granted"

\* The inductive invariant.
Agreeing == /\ Consistent
            /\ StoreIsCurrent
            /\ LicensedIsGranted
            /\ Granted(cache, verdict)
            /\ disk # None => Granted(disk, verdict)

\* An outcome is durable when its parts are.
LEMMA OutcomeDurable ==
  ASSUME NEW v \in Verdicts, NEW w \in Seq(Fitting(v)), NEW c \in Blob,
         NEW s \in State, Flushed(w, c), Granted(c, v),
         s = "Licensed" => v = "granted"
  PROVE  Durable(Outcome(w, c, s, v))
BY DEF Durable, Outcome

\* What a call answers is no part of what it keeps.
LEMMA ReportDurable ==
  ASSUME NEW o, Durable(o)
  PROVE  Durable(Report(o)) /\ Durable(Silent(o))
<1>1. Reported(o.cache, o.answer) \in State \cup {None}
  BY DEF Reported, State, Durable
<1> QED
  BY <1>1 DEF Durable, Report, Silent

\* The end of a concatenation is the end of its second part.
LEMMA LastOfConcat ==
  ASSUME NEW S, NEW u \in Seq(S), NEW w \in Seq(S), w # <<>>
  PROVE  u \o w # <<>> /\ Last(u \o w) = Last(w)
<1>1. /\ Len(u \o w) = Len(u) + Len(w)
      /\ \A i \in 1 .. Len(u) + Len(w) :
           (u \o w)[i] = IF i <= Len(u) THEN u[i] ELSE w[i - Len(u)]
  BY ConcatProperties
<1>2. Len(u) \in Nat /\ Len(w) \in Nat \ {0}
  BY LenProperties, EmptySeq
<1>3. (u \o w)[Len(u) + Len(w)] = w[Len(w)]
  BY <1>1, <1>2
<1>4. u \o w # <<>>
  BY <1>1, <1>2
<1> QED
  BY <1>1, <1>3, <1>4 DEF Last

\* Nothing is written that memory does not hold.
LEMMA NothingFlushed ==
  ASSUME NEW v
  PROVE  <<>> \in Seq(Fitting(v)) /\ Flushed(<<>>, cache)
BY DEF Flushed

\* A single write of what memory then holds flushes it.
LEMMA OneFlushed ==
  ASSUME NEW v, NEW c \in Fitting(v)
  PROVE  <<c>> \in Seq(Fitting(v)) /\ Flushed(<<c>>, c)
BY DEF Flushed, Last

\* resolve_with_trial_() is Licensed only for a paid licence that is.
LEMMA LicensedIsPaid ==
  ASSUME NEW c, NEW p \in State, ResolveWithTrial(c, p) = "Licensed"
  PROVE  p = "Licensed"
BY DEF ResolveWithTrial

\* The types, out of the invariant.
LEMMA AgreeingTypes ==
  Agreeing => /\ cache \in Blob /\ state_ \in State /\ verdict \in Verdicts
              /\ now \in Nat
              /\ state_ = "Licensed" => verdict = "granted"
              /\ Granted(cache, verdict)
BY DEF Agreeing, Consistent, TypeOK, Verdicts, LicensedIsGranted

\* A call that does nothing is durable: memory was flushed before it.
LEMMA NothingDurable == Agreeing => Durable(Nothing)
BY AgreeingTypes, NothingFlushed, OutcomeDurable DEF Nothing

\* Settings leave the licence alone and are saved when they came.
LEMMA ConfigDurable ==
  ASSUME Agreeing, NEW s \in ServerSettings \cup {None}, NEW v
  PROVE  /\ ApplyConfig(cache, s) \in Blob
         /\ ApplyConfig(cache, s).lease = cache.lease
         /\ ConfigWrites(cache, s) \in Seq(Fitting(v))
         /\ Flushed(ConfigWrites(cache, s), ApplyConfig(cache, s))
<1>1. CASE s = None
  BY <1>1, AgreeingTypes, NothingFlushed DEF ApplyConfig, ConfigWrites
<1>2. CASE s # None
  <2> DEFINE c == ApplyConfig(cache, s)
  <2>1. s.days \in Nat /\ s.free \in BOOLEAN
    BY <1>2, EnvironmentAssumption
  <2>2. c \in Blob /\ c.lease = cache.lease /\ c.key = cache.key
    BY <1>2, <2>1, AgreeingTypes DEF ApplyConfig, Blob
  <2>3. c \in Fitting(v)
    BY <2>2, AgreeingTypes, NoneIsNoBlob DEF Fitting, Licence
  <2>4. ConfigWrites(cache, s) = <<c>>
    BY <1>2 DEF ConfigWrites
  <2> QED
    BY <2>2, <2>3, <2>4, OneFlushed
<1> QED
  BY <1>1, <1>2

\* A lease brings its own word with it; a forged one changes nothing.
LEMMA LeaseDurable ==
  ASSUME Agreeing, NEW c \in Blob, NEW l \in LeasesNow, l # None,
         NEW w, \A v : w \in Seq(Fitting(v)),
         l = Forged => Flushed(w, c) /\ Granted(c, verdict)
  PROVE  Durable(LeaseOutcome(w, c, l))
<1>1. CASE l = Forged
  <2>1. ResolveWithTrial(c, "Invalid") \in State \ {"Licensed"}
    BY ResolveWithTrialType, LicensedIsPaid DEF State
  <2> QED
    BY <1>1, <2>1, AgreeingTypes, OutcomeDurable DEF LeaseOutcome
<1>2. CASE l # Forged
  <2> DEFINE leased == [c EXCEPT !.lease = l]
  <2> DEFINE anchored == [leased EXCEPT !.lvo = now]
  <2> DEFINE v == Word(l)
  <2> DEFINE s == ResolveWithTrial(anchored, PaidState(l))
  <2> DEFINE tail == <<leased, anchored>>
  <2>1. l \in Lease
    BY <1>2, LeaseType DEF Agreeing
  <2>2. leased \in Blob /\ anchored \in Blob
        /\ leased.lease = l /\ anchored.lease = l
    BY <2>1, AgreeingTypes DEF Blob
  <2>3. Granted(leased, v) /\ Granted(anchored, v) /\ v \in Verdicts
    BY <2>2 DEF Granted, Word, Verdicts
  <2>4. tail \in Seq(Fitting(v)) /\ tail # <<>> /\ Last(tail) = anchored
    BY <2>2, <2>3 DEF Fitting, Last
  <2>5. w \in Seq(Fitting(v))
    OBVIOUS
  <2>6. w \o tail \in Seq(Fitting(v)) /\ Flushed(w \o tail, anchored)
    <3>1. w \o tail \in Seq(Fitting(v))
      BY <2>4, <2>5, ConcatProperties
    <3>2. w \o tail # <<>> /\ Last(w \o tail) = anchored
      BY <2>4, <2>5, LastOfConcat
    <3> QED
      BY <3>1, <3>2 DEF Flushed
  <2>7. s \in State
    BY <2>1, PaidStateType, ResolveWithTrialType
  <2>8. s = "Licensed" => v = "granted"
    <3>1. s = "Licensed" => PaidState(l) = "Licensed"
      BY <2>1, PaidStateType, LicensedIsPaid
    <3>2. PaidState(l) = "Licensed" => l.status = "active"
      BY <2>1 DEF PaidState, Lease
    <3> QED
      BY <3>1, <3>2 DEF Word
  <2>9. LeaseOutcome(w, c, l) = Outcome(w \o tail, anchored, s, v)
    BY <1>2 DEF LeaseOutcome
  <2> HIDE DEF leased, anchored, v, s, tail
  <2> QED
    BY <2>2, <2>3, <2>6, <2>7, <2>8, <2>9, OutcomeDurable
<1> QED
  BY <1>1, <1>2

\* activate_(): the lease is written with the word that granted it.
LEMMA ActivateDurable ==
  ASSUME Agreeing, NEW r \in ActivateReplies
  PROVE  Durable(ActivateOutcome(r))
<1> DEFINE known == [cache EXCEPT !.key = TRUE]
<1>1. known \in Blob
  BY AgreeingTypes DEF Blob
<1>2. \A v : <<>> \in Seq(Fitting(v))
  BY NothingFlushed
<1>3. CASE r \in {Bare("failed"), Bare("declined")}
  <2>1. ActivateOutcome(r) \in {Silent(Nothing), Report(Nothing)}
    BY <1>3 DEF ActivateOutcome, Bare
  <2> QED
    BY <2>1, NothingDurable, ReportDurable
<1>4. CASE r \notin {Bare("failed"), Bare("declined")}
  <2>1. r.status = "ok" /\ r.lease \in LeasesNow
    BY <1>4 DEF ActivateReplies
  <2>2. CASE r.lease = None
    <3>1. ActivateOutcome(r) = Report(Outcome(<<known>>, known, "Licensed", "granted"))
      BY <2>1, <2>2, NoneIsNoLease DEF ActivateOutcome
    <3>2. "Licensed" \in State /\ "granted" \in Verdicts
      BY DEF State, Verdicts
    <3>3. known \in Fitting("granted") /\ Granted(known, "granted")
      BY <1>1 DEF Fitting, Granted
    <3> QED
      BY <1>1, <3>1, <3>2, <3>3, OneFlushed, OutcomeDurable, ReportDurable
  <2>3. CASE r.lease = Forged
    <3>1. ActivateOutcome(r) = Report(LeaseOutcome(<<>>, cache, Forged))
      BY <2>1, <2>3, NoneIsNoLease DEF ActivateOutcome
    <3> QED
      BY <1>2, <2>1, <2>3, <3>1, NoneIsNoLease, AgreeingTypes, NothingFlushed,
         LeaseDurable, ReportDurable
  <2>4. CASE r.lease \notin {None, Forged}
    <3>1. ActivateOutcome(r) = Report(LeaseOutcome(<<>>, known, r.lease))
      BY <2>1, <2>4 DEF ActivateOutcome
    <3> QED
      BY <1>1, <1>2, <2>1, <2>4, <3>1, LeaseDurable, ReportDurable
  <2> QED
    BY <2>2, <2>3, <2>4
<1> QED
  BY <1>3, <1>4

\* validate(): a revoke takes the lease out of the store with the state.
LEMMA ReplyDurable ==
  ASSUME Agreeing, NEW r \in ValidateReplies
  PROVE  /\ r.status = "rejected" => Durable(RejectionOutcome(r))
         /\ r.status = "ok" => Durable(AcceptOutcome(r))
<1>1. CASE r \in Failures
  <2>1. r.status \in {"unreachable", "refused", "garbled"}
    BY <1>1 DEF Failures, Bare
  <2> QED
    BY <2>1
<1>2. CASE r \notin Failures
  <2>1. /\ r.lease \in LeasesNow
        /\ r.settings \in ServerSettings \cup {None}
    BY <1>2 DEF ValidateReplies
  <2>2. \A v : <<>> \in Seq(Fitting(v))
    BY NothingFlushed
  <2>3. Durable(RejectionOutcome(r))
    <3>1. CASE r.lease = None
      <4> DEFINE cleared == [cache EXCEPT !.lease = None]
      <4>1. cleared \in Blob /\ cleared.lease = None
        BY AgreeingTypes DEF Blob
      <4>2. cleared \in Fitting("revoked") /\ Granted(cleared, "revoked")
        BY <4>1 DEF Fitting, Granted
      <4>3. RejectionOutcome(r) = Outcome(<<cleared>>, cleared, "Invalid", "revoked")
        BY <3>1 DEF RejectionOutcome
      <4>4. "Invalid" \in State /\ "revoked" \in Verdicts
        BY DEF State, Verdicts
      <4> QED
        BY <4>1, <4>2, <4>3, <4>4, OneFlushed, OutcomeDurable
    <3>2. CASE r.lease # None
      <4>1. RejectionOutcome(r) = LeaseOutcome(<<>>, cache, r.lease)
        BY <3>2 DEF RejectionOutcome
      <4> QED
        BY <2>1, <2>2, <3>2, <4>1, AgreeingTypes, NothingFlushed, LeaseDurable
    <3> QED
      BY <3>1, <3>2
  <2>4. Durable(AcceptOutcome(r))
    <3> DEFINE c == ApplyConfig(cache, r.settings)
    <3> DEFINE w == ConfigWrites(cache, r.settings)
    <3>1. /\ c \in Blob /\ Flushed(w, c)
          /\ \A v : w \in Seq(Fitting(v))
          /\ Granted(c, verdict)
      BY <2>1, ConfigDurable, AgreeingTypes DEF Granted
    <3>2. CASE r.lease = None
      <4>1. ResolveWithTrial(c, state_) \in State
        BY AgreeingTypes, ResolveWithTrialType
      <4>2. ResolveWithTrial(c, state_) = "Licensed" => verdict = "granted"
        BY AgreeingTypes, LicensedIsPaid
      <4>3. AcceptOutcome(r) = Outcome(w, c, ResolveWithTrial(c, state_), verdict)
        BY <3>2 DEF AcceptOutcome
      <4> HIDE DEF c, w
      <4> QED
        BY <3>1, <4>1, <4>2, <4>3, AgreeingTypes, OutcomeDurable
    <3>3. CASE r.lease # None
      <4>1. AcceptOutcome(r) = LeaseOutcome(w, c, r.lease)
        BY <3>3 DEF AcceptOutcome
      <4> HIDE DEF c, w
      <4> QED
        BY <2>1, <3>1, <3>3, <4>1, LeaseDurable
    <3> QED
      BY <3>2, <3>3
  <2> QED
    BY <2>3, <2>4
<1> QED
  BY <1>1, <1>2

\* validate(): each of its ways out.
LEMMA ValidateDurable ==
  ASSUME Agreeing, NEW r \in ValidateReplies
  PROVE  Durable(ValidateOutcome(r))
<1>1. Consistent
  BY DEF Agreeing
<1>2. /\ r.status = "rejected" => ValidateOutcome(r) = Report(RejectionOutcome(r))
      /\ r.status = "ok" => ValidateOutcome(r) = Report(AcceptOutcome(r))
      /\ r.status \notin {"ok", "rejected"} => ValidateOutcome(r) = Report(Nothing)
  BY <1>1, ReplySound DEF ValidateOutcome
<1> QED
  BY <1>2, NothingDurable, ReplyDurable, ReportDurable

\* validate_and_reconcile_(): each answer leaves memory written, and Licensed only
\* on the word it came with.
LEMMA ReconcileDurable ==
  ASSUME Agreeing, NEW r \in ValidateReplies
  PROVE  Durable(ReconcileOutcome(r))
<1> DEFINE s == IF state_ = "Licensed" /\ (LeaseGone \/ ~WithinGrace)
                THEN "Expired" ELSE state_
<1>1. s \in State /\ (s = "Licensed" => verdict = "granted")
  BY AgreeingTypes DEF State
<1>2. Durable(GraceOutcome)
  BY <1>1, AgreeingTypes, NothingFlushed, OutcomeDurable DEF GraceOutcome
<1> QED
  BY <1>2, ReplyDurable DEF ReconcileOutcome

\* resolve_current_state_() makes nothing Licensed.
LEMMA ResolveDurable ==
  ASSUME Agreeing, NEW c \in Blob, NEW w \in Seq(Fitting(verdict)),
         c.lease = cache.lease, Flushed(w, c)
  PROVE  Durable(ResolveOutcome(c, w))
<1>1. ResolveWithTrial(c, "Invalid") \in State \ {"Licensed"}
  BY ResolveWithTrialType, LicensedIsPaid DEF State
<1>2. ResolveCurrent(c) \in State
      /\ (ResolveCurrent(c) = "Licensed" => verdict = "granted")
  BY <1>1, AgreeingTypes DEF ResolveCurrent
<1>3. Granted(c, verdict)
  BY AgreeingTypes DEF Granted
<1> QED
  BY <1>2, <1>3, AgreeingTypes, OutcomeDurable DEF ResolveOutcome

\* startTrial(): a fresh trial start is written at once.
LEMMA TrialDurable == Agreeing => Durable(TrialOutcome)
<1> SUFFICES ASSUME Agreeing PROVE Durable(TrialOutcome)
  OBVIOUS
<1> DEFINE c == IF cache.trial # None THEN cache ELSE StartNow
<1>1. c \in Blob /\ c.lease = cache.lease /\ c.key = cache.key
  BY AgreeingTypes DEF StartNow, Blob
<1>2. c \in Fitting(verdict)
  BY <1>1, AgreeingTypes, NoneIsNoBlob DEF Fitting, Licence
<1> QED
  BY <1>1, <1>2, OneFlushed, ResolveDurable DEF TrialOutcome

\* A write of the cache ahead of a call's own takes nothing away.
LEMMA AheadDurable ==
  ASSUME Agreeing, NEW o, Durable(o)
  PROVE  Durable([o EXCEPT !.writes = <<cache>> \o @])
<1> DEFINE F == Fitting(o.verdict)
<1>1. cache \in F /\ <<cache>> \in Seq(F) /\ o.writes \in Seq(F)
  BY AgreeingTypes, NoneIsNoBlob DEF Fitting, Licence, Durable
<1>2. <<cache>> \o o.writes \in Seq(F)
  BY <1>1, ConcatProperties
<1>3. Flushed(<<cache>> \o o.writes, o.cache)
  <2>1. CASE o.writes = <<>>
    <3>1. <<cache>> \o o.writes = <<cache>> /\ o.cache = cache
      BY <2>1 DEF Durable, Flushed
    <3> QED
      BY <3>1 DEF Flushed, Last
  <2>2. CASE o.writes # <<>>
    <3>1. <<cache>> \o o.writes # <<>> /\ Last(<<cache>> \o o.writes) = Last(o.writes)
      BY <1>1, <2>2, LastOfConcat
    <3> QED
      BY <2>2, <3>1 DEF Durable, Flushed
  <2> QED
    BY <2>1, <2>2
<1> QED
  BY <1>2, <1>3 DEF Durable

\* Server settings are written when they change and there is a file to keep.
LEMMA SettingsDurable ==
  ASSUME Agreeing, NEW s \in ServerSettings \cup {None}
  PROVE  Durable(ConfigOutcome(s)) /\ Durable(KeylessOutcome(s))
<1>1. Durable(ConfigOutcome(s))
  BY NothingDurable, ConfigDurable, ResolveDurable DEF ConfigOutcome
<1> QED
  BY <1>1, AheadDurable DEF KeylessOutcome

\* Two blobs with the same fields are the same.
LEMMA SameBlob ==
  ASSUME NEW b \in Blob, NEW c \in Blob,
         b.lease = c.lease, b.key = c.key, b.lvo = c.lvo,
         b.trial = c.trial, b.days = c.days, b.free = c.free
  PROVE  b = c
BY DEF Blob

\* deactivate() drops the file only when there is nothing left to keep.
LEMMA DeactivateDurable == Agreeing => Durable(DeactivateOutcome)
<1> SUFFICES ASSUME Agreeing PROVE Durable(DeactivateOutcome)
  OBVIOUS
<1> DEFINE d == IF cache.trial # None THEN Deactivated ELSE None
<1>1. Deactivated \in Blob /\ Deactivated.lease = None
  BY AgreeingTypes DEF Deactivated, Blob
<1>2. <<d>> \in Seq(Fitting("none"))
  <2>1. d \in Fitting("none")
    BY <1>1 DEF Fitting, Granted
  <2> QED
    BY <2>1
<1>3. Flushed(<<d>>, Deactivated)
  <2>1. ASSUME cache.trial = None PROVE SettingsOnly(Deactivated)
    <3> DEFINE e == [Empty EXCEPT !.days = Deactivated.days,
                                  !.free = Deactivated.free]
    <3>1. /\ Deactivated.lease = None /\ Deactivated.key = FALSE
          /\ Deactivated.lvo = 0 /\ Deactivated.trial = None
      BY <2>1, AgreeingTypes DEF Deactivated, Blob
    <3>2. /\ e.lease = None /\ e.key = FALSE /\ e.lvo = 0 /\ e.trial = None
          /\ e.days = Deactivated.days /\ e.free = Deactivated.free
      BY DEF Empty
    <3>3. e \in Blob
      BY <1>1 DEF Empty, Blob
    <3> QED
      BY <1>1, <3>1, <3>2, <3>3, SameBlob DEF SettingsOnly
  <2> QED
    BY <2>1 DEF Flushed, Last
<1>4. ResolveWithTrial(Deactivated, "Invalid") \in State \ {"Licensed"}
  BY ResolveWithTrialType, LicensedIsPaid DEF State
<1>5. Granted(Deactivated, "none") /\ "none" \in Verdicts
  BY <1>1 DEF Granted, Verdicts
<1> QED
  BY <1>1, <1>2, <1>3, <1>4, <1>5, OutcomeDurable DEF DeactivateOutcome

\* Every step is a durable call, or one of the few that are none.
LEMMA NextIsDurable ==
  ASSUME Agreeing, Next
  PROVE  \/ \E o : Durable(o) /\ Call(o)
         \/ DeactivateFails \/ Launch \/ Tick \/ SetBack
<1>1. ASSUME NEW o, Durable(o), Request(o) PROVE \E q : Durable(q) /\ Call(q)
  BY <1>1, AheadDurable DEF Request
<1>2. CASE Activate
  BY <1>1, <1>2, ActivateDurable DEF Activate
<1>3. CASE Validate
  BY <1>1, <1>3, ValidateDurable DEF Validate
<1>4. Durable(Report(ResolveOutcome(cache, <<>>)))
  BY AgreeingTypes, NothingFlushed, ResolveDurable, ReportDurable
<1>a. Durable(Report(Nothing)) /\ Durable(Silent(Nothing))
  BY NothingDurable, ReportDurable
<1>b. \A r \in ValidateReplies : Durable(Report(ReconcileOutcome(r)))
  BY ReconcileDurable, ReportDurable
<1>5. CASE RefreshIfNeeded
  BY <1>1, <1>4, <1>5, <1>a, <1>b DEF RefreshIfNeeded, DebouncedReturn
<1>6. CASE CheckOnLaunch
  BY <1>1, <1>4, <1>6, <1>b DEF CheckOnLaunch, LaunchReturn
<1>7. CASE StartTrial
  BY <1>7, TrialDurable, ReportDurable DEF StartTrial
<1>8. CASE FetchConfig
  BY <1>8, SettingsDurable, ReportDurable DEF FetchConfig
<1>9. CASE ReportKeylessState
  BY <1>9, <1>a, SettingsDurable, ReportDurable DEF ReportKeylessState
<1>10. CASE Deactivate
  BY <1>10, DeactivateDurable, ReportDurable DEF Deactivate, DeactivateFails
<1>11. CASE Quit
  <2>1. Call(Silent(Nothing))
    BY <1>11 DEF Quit, Call, Silent, Nothing, Outcome
  <2> QED
    BY <2>1, <1>a
<1> QED
  BY <1>2, <1>3, <1>5, <1>6, <1>7, <1>8, <1>9, <1>10, <1>11 DEF Next

\* A fresh install holds nothing and has nothing stored.
LEMMA AgreeingInit == Init => Agreeing
<1> SUFFICES ASSUME Init PROVE Agreeing
  OBVIOUS
<1>1. Empty.lease = None
  BY DEF Empty
<1> QED
  BY <1>1, ConsistentInit DEF Init, Agreeing, StoreIsCurrent, LicensedIsGranted,
                              Granted

\* A call that returns has written what it keeps; one that dies has written
\* what was there before or what its word allows.
LEMMA AgreeingCall ==
  ASSUME Agreeing, ~SaveFails, NEW o, Durable(o), Call(o)
  PROVE  /\ StoreIsCurrent' /\ LicensedIsGranted'
         /\ Granted(cache, verdict)'
         /\ disk' # None => Granted(disk', verdict')
<1>1. /\ o.writes \in Seq(Fitting(o.verdict))
      /\ Flushed(o.writes, o.cache)
      /\ Granted(o.cache, o.verdict)
      /\ o.state = "Licensed" => o.verdict = "granted"
  BY DEF Durable
<1>2. \/ disk = cache
      \/ disk = None /\ SettingsOnly(cache)
  BY DEF Call, Agreeing, StoreIsCurrent
<1>3. CASE Commit(o)
  <2>1. /\ cache' = o.cache /\ state_' = o.state /\ verdict' = o.verdict
        /\ disk' = IF o.writes = <<>> THEN disk ELSE Last(o.writes)
    BY <1>3 DEF Commit, Stored
  <2>2. \/ disk' = cache'
        \/ disk' = None /\ SettingsOnly(cache')
    BY <1>1, <1>2, <2>1 DEF Flushed
  <2> QED
    BY <1>1, <2>1, <2>2 DEF StoreIsCurrent, LicensedIsGranted
<1>4. CASE Die(o.writes, o.verdict)
  <2>1. /\ running' = FALSE /\ cache' = Empty /\ state_' = "Invalid"
        /\ verdict' = IF Licence(disk') = Licence(disk) THEN verdict
                      ELSE o.verdict
    BY <1>4 DEF Die
  <2>2. disk' \in {disk} \cup Fitting(o.verdict)
    BY <1>1, <1>4, ElementOfSeq DEF Die
  <2>3. Licence(cache) = Licence(disk)
    <3>1. SettingsOnly(cache) => cache.lease = None /\ cache.key = FALSE
      BY DEF SettingsOnly, Empty
    <3> QED
      BY <1>2, <3>1, NoneIsNoBlob, AgreeingTypes DEF Licence
  <2>4. disk' # None => Granted(disk', verdict')
    <3> SUFFICES ASSUME disk' # None PROVE Granted(disk', verdict')
      OBVIOUS
    <3>1. CASE Licence(disk') = Licence(disk)
      <4>1. IF disk = None THEN disk'.lease = None ELSE disk'.lease = disk.lease
        BY <3>1 DEF Licence
      <4> QED
        BY <2>1, <3>1, <4>1 DEF Agreeing, Granted
    <3>2. CASE Licence(disk') # Licence(disk)
      BY <2>1, <2>2, <2>3, <3>2 DEF Fitting
    <3> QED
      BY <3>1, <3>2
  <2>5. Empty.lease = None
    BY DEF Empty
  <2> QED
    BY <2>1, <2>4, <2>5 DEF StoreIsCurrent, LicensedIsGranted, Granted
<1> QED
  BY <1>3, <1>4 DEF Call

\* With a store that works no step breaks it.
LEMMA AgreeingStep ==
  ASSUME ~SaveFails, ~LoadFails
  PROVE  Agreeing /\ [Next]_vars => Agreeing'
<1> SUFFICES ASSUME Agreeing, [Next]_vars PROVE Agreeing'
  OBVIOUS
<1>1. Consistent'
  BY ConsistentStep DEF Agreeing
<1>2. ASSUME NEW o, Durable(o), Call(o) PROVE Agreeing'
  BY <1>1, <1>2, AgreeingCall DEF Agreeing
<1>3. CASE DeactivateFails
  BY <1>3 DEF DeactivateFails
<1>4. CASE Launch
  <2>1. CASE disk # None
    <3>1. /\ cache' = disk /\ disk' = disk /\ verdict' = verdict
          /\ state_' = ResolveWithTrial(disk, LaunchPaid(disk))
      BY <1>4, <2>1 DEF Launch
    <3>2. LaunchPaid(disk) \in State
      BY <2>1, PaidStateType DEF LaunchPaid, State, Agreeing, Consistent, TypeOK,
                                 Blob
    <3>3. LaunchPaid(disk) = "Licensed" =>
            disk.lease # None /\ disk.lease.status = "active"
      BY <2>1 DEF LaunchPaid, PaidState, Agreeing, Consistent, TypeOK, Blob, Lease
    <3>4. state_' = "Licensed" => verdict' = "granted"
      BY <2>1, <3>1, <3>2, <3>3, LicensedIsPaid DEF Agreeing, Granted
    <3> QED
      BY <1>1, <2>1, <3>1, <3>4 DEF Agreeing, StoreIsCurrent, LicensedIsGranted, Granted
  <2>2. CASE disk = None
    <3>1. cache' = Empty /\ disk' = None /\ state_' = "Invalid"
      BY <1>4, <2>2 DEF Launch
    <3>2. Empty.lease = None /\ SettingsOnly(Empty)
      BY DEF Empty, SettingsOnly
    <3> QED
      BY <1>1, <3>1, <3>2
      DEF Agreeing, StoreIsCurrent, LicensedIsGranted, Granted
  <2> QED
    BY <2>1, <2>2
<1>5. CASE Tick
  BY <1>1, <1>5
  DEF Tick, Agreeing, StoreIsCurrent, LicensedIsGranted, Granted,
      SettingsOnly
<1>6. CASE SetBack
  BY <1>1, <1>6
  DEF SetBack, Agreeing, StoreIsCurrent, LicensedIsGranted, Granted,
      SettingsOnly
<1>7. CASE UNCHANGED vars
  BY <1>1, <1>7
  DEF vars, Agreeing, StoreIsCurrent, LicensedIsGranted, Granted,
      SettingsOnly
<1> QED
  BY <1>2, <1>3, <1>4, <1>5, <1>6, <1>7, NextIsDurable

\* So it holds throughout.
LEMMA AgreeingHolds ==
  ASSUME ~SaveFails, ~LoadFails
  PROVE  Spec => []Agreeing
BY AgreeingInit, AgreeingStep, PTL DEF Spec

\* With a store that works, memory and store agree after every call, so that a
\* crash or a quit loses nothing.
THEOREM StoreAgrees ==
  ASSUME ~SaveFails, ~LoadFails
  PROVE  Spec => []StoreIsCurrent
<1>1. Agreeing => StoreIsCurrent
  BY DEF Agreeing
<1> QED
  BY <1>1, AgreeingHolds, PTL

\* With a store that works the client is Licensed only while the last word of
\* the server that it acted on granted it, through crashes and relaunches.
THEOREM LicensedOnTheServersWord ==
  ASSUME ~SaveFails, ~LoadFails
  PROVE  Spec => []LicensedIsGranted
<1>1. Agreeing => LicensedIsGranted
  BY DEF Agreeing
<1> QED
  BY <1>1, AgreeingHolds, PTL

----------------------------------------------------------------------------
(* What a customer is told of such a client's states (Lifecycle). *)
Customer == INSTANCE Lifecycle

\* The loops over a history of resolutions, as folds.
Telling   == INSTANCE FoldProofs WITH Op <- LAMBDA p, x, e : Customer!Tell(x, e)
Following == INSTANCE FoldProofs WITH Op <- LAMBDA p, x, e : Customer!Follow(x, e)

\* One event more is one step more of who follows the lifecycle.
LEMMA FollowsOn ==
  \A start : /\ Customer!Follower(start, <<>>) = (start.state # "Expired")
             /\ \A S : \A told \in Seq(S), e \in S :
                  Customer!Follower(start, Append(told, e)) =
                    Customer!Follow(Customer!Follower(start, told), e)
<1> TAKE start
<1> DEFINE F(s) == Following!Fold(0, start.state # "Expired", s)
<1>1. \A s : Customer!Follower(start, s) = F(s)
  BY DEF Customer!Follower, Following!Fold, Following!FoldLeft, Customer!FoldLeft,
         Customer!MapThenFoldSet, Following!MapThenFoldSet, Customer!Max, Following!Max
<1>2. F(<<>>) = (start.state # "Expired")
  BY Following!FoldEmpty
<1>3. \A S : \A s \in Seq(S), e \in S : F(Append(s, e)) = Customer!Follow(F(s), e)
  BY Following!FoldAppend
<1> HIDE DEF F
<1> QED BY <1>1, <1>2, <1>3

\* What set_state_() knows after a history: the last state and what it told.
After(start, s) == 
  Telling!Fold(0, [state |-> start.state, seen |-> start.expiry, told |-> <<>>], s)

LEMMA TellsOn ==
  \A start :
    /\ \A s : Customer!Told(start, s) = After(start, s).told
    /\ After(start, <<>>) = [state |-> start.state, seen |-> start.expiry, told |-> <<>>]
    /\ \A S : \A s \in Seq(S), r \in S :
         After(start, Append(s, r)) = Customer!Tell(After(start, s), r)
<1> TAKE start
<1>1. \A s : Customer!Told(start, s) = After(start, s).told
  BY DEF After, Customer!Told, Telling!Fold, Telling!FoldLeft, Customer!FoldLeft,
         Customer!MapThenFoldSet, Telling!MapThenFoldSet, Customer!Max, Telling!Max
<1>2. After(start, <<>>) = [state |-> start.state, seen |-> start.expiry, told |-> <<>>]
  BY Telling!FoldEmpty DEF After
<1>3. \A S : \A s \in Seq(S), r \in S :
        After(start, Append(s, r)) = Customer!Tell(After(start, s), r)
  BY Telling!FoldAppend DEF After
<1> QED BY <1>1, <1>2, <1>3

\* What is told when a resolution is Expired closes who follows, or finds it closed.
LEMMA ExpiredCloses ==
  ASSUME None \notin Customer!Events, NEW prev, NEW later, NEW open,
         prev = "Expired" => ~open
  PROVE  ~Customer!Follow(open, Customer!LifecycleEvent(prev, "Expired", later))
<1> DEFINE e == Customer!LifecycleEvent(prev, "Expired", later)
<1>1. CASE prev = "Licensed"
  <2>1. e = "cancelled"
    BY <1>1 DEF Customer!LifecycleEvent
  <2> HIDE DEF e
  <2>2. ~Customer!Follow(open, e)
    BY <2>1 DEF Customer!Follow
  <2> QED BY <2>2, Zenon DEF e
<1>2. CASE prev = "Expired"
  <2>1. e = None
    BY <1>2 DEF Customer!LifecycleEvent
  <2>2. ~open
    BY <1>2
  <2>3. None \notin {"cancelled", "expired"} /\ None # "restored"
    BY DEF Customer!Events
  <2> HIDE DEF e
  <2>4. Customer!Follow(open, e) = open
    BY <2>1, <2>3, Zenon DEF Customer!Follow
  <2>5. ~Customer!Follow(open, e)
    BY <2>2, <2>4, Zenon
  <2> QED BY <2>5, Zenon DEF e
<1>3. CASE prev \notin {"Licensed", "Expired"}
  <2>1. e = "expired"
    BY <1>3 DEF Customer!LifecycleEvent
  <2> HIDE DEF e
  <2>2. ~Customer!Follow(open, e)
    BY <2>1 DEF Customer!Follow
  <2> QED BY <2>2, Zenon DEF e
<1> QED BY <1>1, <1>2, <1>3

\* An application that follows the lifecycle alone, having asked state() once, never
\* takes an Expired install for a good one: whatever the history of resolutions, of
\* any length and with any expiries.
THEOREM ExpiryReachesFollowers ==
  ASSUME None \notin Customer!Events, NEW E,
         NEW runs \in SUBSET (Seq(Customer!Resolutions(E)) \ {<<>>})
  PROVE  Customer!ExpiryIsTold(runs)
<1> SUFFICES ASSUME NEW run \in runs, run[Len(run)].state = "Expired"
             PROVE  ~Customer!Follower(run[1], Customer!Told(run[1], Tail(run)))
  BY Zenon DEF Customer!ExpiryIsTold
<1> DEFINE R == Customer!Resolutions(E)
           start == run[1]
           told(s) == After(start, s).told
           Newest(s) == IF s = <<>> THEN start.state ELSE s[Len(s)].state
           U == {s \in Seq(R) :
                   /\ \E S : told(s) \in Seq(S)
                   /\ After(start, s).state = Newest(s)
                   /\ Newest(s) = "Expired" => ~Customer!Follower(start, told(s))}
<1>1. <<>> \in U
  <2>1. After(start, <<>>).state = start.state /\ told(<<>>) = <<>>
    BY TellsOn
  <2>2. Customer!Follower(start, <<>>) = (start.state # "Expired")
    BY FollowsOn
  <2>3. <<>> \in Seq({}) /\ <<>> \in Seq(R)
    OBVIOUS
  <2>4. start.state = "Expired" => ~Customer!Follower(start, <<>>)
    BY <2>2, Zenon
  <2> QED BY <2>1, <2>3, <2>4
<1>2. ASSUME NEW s \in Seq(R), NEW r \in R, s \in U PROVE Append(s, r) \in U
  <2> DEFINE t == Append(s, r)
             acc == After(start, s)
             e == Customer!LifecycleEvent(acc.state, r.state,
                                          Customer!MovedLater(acc.seen, r.expiry))
  <2>1. t \in Seq(R) /\ t # <<>> /\ t[Len(t)] = r
    OBVIOUS
  <2>2. After(start, t) = Customer!Tell(acc, r)
    BY TellsOn
  <2>3. After(start, t).state = r.state /\ told(t) = Append(told(s), e)
    BY <2>2 DEF Customer!Tell
  <2>4. Newest(t) = r.state
    BY <2>1
  <2>5. PICK S : told(s) \in Seq(S)
    BY <1>2
  <2>6. acc.state = Newest(s) /\ (Newest(s) = "Expired" => ~Customer!Follower(start, told(s)))
    BY <1>2
  <2> HIDE DEF t, e, acc, told, Newest
  <2>7. told(t) \in Seq(S \cup {e}) /\ told(s) \in Seq(S \cup {e})
    BY <2>3, <2>5
  <2>8. Customer!Follower(start, told(t)) = Customer!Follow(Customer!Follower(start, told(s)), e)
    BY <2>3, <2>7, FollowsOn
  <2>9. ASSUME r.state = "Expired" PROVE ~Customer!Follower(start, told(t))
    <3>1. ~Customer!Follow(Customer!Follower(start, told(s)), e)
      BY <2>6, <2>9, ExpiredCloses, Zenon DEF e
    <3> QED BY <2>8, <3>1, Zenon
  <2>10. /\ \E Q : told(t) \in Seq(Q)
         /\ After(start, t).state = Newest(t)
         /\ Newest(t) = "Expired" => ~Customer!Follower(start, told(t))
    BY <2>3, <2>4, <2>7, <2>9, Zenon
  <2> QED BY <2>1, <2>10 DEF t
<1> HIDE DEF U
<1>3. \A s \in Seq(R) : s \in U
  BY <1>1, <1>2, Telling!SeqInduct
<1>4. /\ Tail(run) \in Seq(R)
      /\ Tail(run) # <<>> => Tail(run)[Len(Tail(run))] = run[Len(run)]
      /\ Tail(run) = <<>> => run[Len(run)] = start
  <2>1. run \in Seq(R) /\ run # <<>>
    OBVIOUS
  <2> HIDE DEF R
  <2>2. Len(run) \in Nat \ {0} /\ Len(Tail(run)) = Len(run) - 1 /\ Tail(run) \in Seq(R)
    BY <2>1
  <2>3. \A i \in 1 .. Len(run) - 1 : Tail(run)[i] = run[i + 1]
    BY <2>1
  <2> QED BY <2>1, <2>2, <2>3
<1>5. Newest(Tail(run)) = "Expired"
  BY <1>4
<1>6. ~Customer!Follower(start, told(Tail(run)))
  <2> HIDE DEF Newest, told
  <2> QED BY <1>3, <1>4, <1>5 DEF U
<1> QED BY <1>6, TellsOn

\* Each event reaches the listener of its own name and that of all.
THEOREM EventsReachTheirs ==
  ASSUME None \notin Customer!Events PROVE Customer!EventsAreSorted
<1> SUFFICES ASSUME NEW e \in Customer!Events
    PROVE {l.wants : l \in Customer!Notified({Customer!On(name) : name \in Customer!Events}
                                              \cup {Customer!OnLifecycle}, e)} = {e, "any"}
  BY Zenon DEF Customer!EventsAreSorted
<1> DEFINE all == {Customer!On(name) : name \in Customer!Events} \cup {Customer!OnLifecycle}
<1>1. \A name \in Customer!Events : Customer!On(name).wants = name
  BY DEF Customer!On
<1>2. Customer!OnLifecycle.wants = "any" /\ e # None
  BY DEF Customer!OnLifecycle
<1>3. Customer!Notified(all, e) = {l \in all : l.wants \in {e, "any"}}
  BY <1>2 DEF Customer!Notified
<1>4. Customer!On(e) \in Customer!Notified(all, e) /\ Customer!OnLifecycle \in Customer!Notified(all, e)
  BY <1>1, <1>2, <1>3
<1>5. \A l \in Customer!Notified(all, e) : l.wants \in {e, "any"}
  BY <1>3
<1> HIDE DEF all
<1>6. {l.wants : l \in Customer!Notified(all, e)} = {e, "any"}
  BY <1>1, <1>2, <1>4, <1>5
<1> QED BY <1>6 DEF all

\* Each resolution is compared with the one before it.
Prior(start, s, i) == IF i = 1 THEN start ELSE s[i - 1]
EventOf(a, b) == Customer!LifecycleEvent(a.state, b.state, Customer!MovedLater(a.expiry, b.expiry))

LEMMA ToldIs ==
  \A start : \A R : \A s \in Seq(R) :
    \A i \in 1 .. Len(s) : Customer!Told(start, s)[i] = EventOf(Prior(start, s, i), s[i])
<1> TAKE start
<1> TAKE R
<1> DEFINE told(s) == After(start, s).told
           last(s) == IF s = <<>> THEN start ELSE s[Len(s)]
           U == {s \in Seq(R) :
                   /\ \E S : told(s) \in Seq(S)
                   /\ Len(told(s)) = Len(s)
                   /\ After(start, s).state = last(s).state
                   /\ After(start, s).seen = last(s).expiry
                   /\ \A i \in 1 .. Len(s) : told(s)[i] = EventOf(Prior(start, s, i), s[i])}
<1>1. <<>> \in U
  <2>1. /\ After(start, <<>>).state = start.state /\ After(start, <<>>).seen = start.expiry
        /\ told(<<>>) = <<>>
    BY TellsOn
  <2>2. <<>> \in Seq({}) /\ <<>> \in Seq(R) /\ Len(<<>>) = 0 /\ 1 .. 0 = {}
    OBVIOUS
  <2> QED BY <2>1, <2>2
<1>2. ASSUME NEW s \in Seq(R), NEW r \in R, s \in U PROVE Append(s, r) \in U
  <2> DEFINE t == Append(s, r)
             acc == After(start, s)
             e == Customer!LifecycleEvent(acc.state, r.state,
                                          Customer!MovedLater(acc.seen, r.expiry))
  <2>1. /\ t \in Seq(R) /\ t # <<>> /\ t[Len(t)] = r /\ Len(t) = Len(s) + 1 /\ Len(s) \in Nat
        /\ \A i \in 1 .. Len(s) : t[i] = s[i]
    OBVIOUS
  <2>2. After(start, t) = Customer!Tell(acc, r)
    BY TellsOn
  <2>3. /\ After(start, t).state = r.state /\ After(start, t).seen = r.expiry
        /\ told(t) = Append(told(s), e)
    BY <2>2 DEF Customer!Tell
  <2>4. last(t) = r
    BY <2>1
  <2>5. PICK S : told(s) \in Seq(S)
    BY <1>2
  <2>6. /\ acc.state = last(s).state /\ acc.seen = last(s).expiry /\ Len(told(s)) = Len(s)
        /\ \A i \in 1 .. Len(s) : told(s)[i] = EventOf(Prior(start, s, i), s[i])
    BY <1>2
  <2>7. last(s) = Prior(start, t, Len(t))
    <3>1. s = <<>> <=> Len(s) = 0
      OBVIOUS
    <3>2. s # <<>> => Len(s) \in 1 .. Len(s) /\ Len(t) - 1 = Len(s) /\ Len(t) # 1
      BY <2>1, <3>1
    <3> HIDE DEF t
    <3> QED BY <2>1, <3>1, <3>2 DEF Prior
  <2>8. \A i \in 1 .. Len(s) : Prior(start, t, i) = Prior(start, s, i)
    <3> TAKE i \in 1 .. Len(s)
    <3>1. i # 1 => i - 1 \in 1 .. Len(s)
      BY <2>1
    <3> HIDE DEF t
    <3> QED BY <2>1, <3>1 DEF Prior
  <2>9. e = EventOf(last(s), r)
    BY <2>6, Zenon DEF EventOf
  <2> HIDE DEF t, e, acc, told, last
  <2>10. told(t) \in Seq(S \cup {e})
    BY <2>3, <2>5
  <2>11. /\ Len(told(t)) = Len(t) /\ told(t)[Len(t)] = e
         /\ \A i \in 1 .. Len(s) : told(t)[i] = told(s)[i]
    BY <2>1, <2>3, <2>5, <2>6
  <2>12. \A i \in 1 .. Len(t) : told(t)[i] = EventOf(Prior(start, t, i), t[i])
    <3> TAKE i \in 1 .. Len(t)
    <3>1. CASE i = Len(t)
      BY <2>1, <2>7, <2>9, <2>11, <3>1, Zenon
    <3>2. CASE i # Len(t)
      <4>1. i \in 1 .. Len(s)
        BY <2>1, <3>2
      <4> QED BY <2>1, <2>6, <2>8, <2>11, <4>1, Zenon
    <3> QED BY <3>1, <3>2
  <2>13. /\ \E Q : told(t) \in Seq(Q)
         /\ Len(told(t)) = Len(t)
         /\ After(start, t).state = last(t).state
         /\ After(start, t).seen = last(t).expiry
         /\ \A i \in 1 .. Len(t) : told(t)[i] = EventOf(Prior(start, t, i), t[i])
    BY <2>3, <2>4, <2>10, <2>11, <2>12, Zenon
  <2> QED BY <2>1, <2>13 DEF t
<1> HIDE DEF U
<1>3. \A s \in Seq(R) : s \in U
  BY <1>1, <1>2, Telling!SeqInduct
<1> QED BY <1>3, TellsOn DEF U

\* As many places where a growing sequence of numbers grows as it has numbers, but one.
LEMMA GrowsAsOften ==
  ASSUME NEW N \in Nat, NEW d, \A i \in 1 .. N + 1 : d[i] \in Int,
         \A i \in 1 .. N : d[i] <= d[i + 1]
  PROVE  Cardinality({i \in 1 .. N : d[i] < d[i + 1]}) =
           Cardinality({d[i] : i \in 1 .. N + 1}) - 1
<1> DEFINE A(n) == {i \in 1 .. n : d[i] < d[i + 1]}
           D(n) == {d[i] : i \in 1 .. n + 1}
           U == {n \in Nat : n <= N => /\ IsFiniteSet(A(n)) /\ IsFiniteSet(D(n))
                                       /\ Cardinality(A(n)) = Cardinality(D(n)) - 1
                                       /\ \A x \in D(n) : x <= d[n + 1]}
<1>1. 0 \in U
  <2>1. A(0) = {} /\ D(0) = {d[1]} /\ d[1] \in Int
    OBVIOUS
  <2>2. /\ IsFiniteSet({}) /\ Cardinality({}) = 0
        /\ IsFiniteSet({d[1]}) /\ Cardinality({d[1]}) = 1
    BY FS_EmptySet, FS_Singleton
  <2> HIDE DEF A, D
  <2> QED BY <2>1, <2>2
<1>2. ASSUME NEW n \in Nat, n \in U PROVE n + 1 \in U
  <2> SUFFICES ASSUME n + 1 <= N
      PROVE /\ IsFiniteSet(A(n + 1)) /\ IsFiniteSet(D(n + 1))
            /\ Cardinality(A(n + 1)) = Cardinality(D(n + 1)) - 1
            /\ \A x \in D(n + 1) : x <= d[(n + 1) + 1]
    OBVIOUS
  <2>1. /\ IsFiniteSet(A(n)) /\ IsFiniteSet(D(n)) /\ Cardinality(A(n)) = Cardinality(D(n)) - 1
        /\ \A x \in D(n) : x <= d[n + 1]
    BY <1>2
  <2>2. n + 1 \in 1 .. N /\ n + 1 \in 1 .. N + 1 /\ n + 2 \in 1 .. N + 1 /\ (n + 1) + 1 = n + 2
    OBVIOUS
  <2>3. d[n + 1] \in Int /\ d[n + 2] \in Int /\ d[n + 1] <= d[n + 2]
    BY <2>2
  <2>4. D(n + 1) = D(n) \cup {d[n + 2]}
    <3>1. 1 .. (n + 1) + 1 = (1 .. n + 1) \cup {n + 2}
      OBVIOUS
    <3> QED BY <3>1
  <2>5. A(n + 1) = IF d[n + 1] < d[n + 2] THEN A(n) \cup {n + 1} ELSE A(n)
    <3>1. 1 .. n + 1 = (1 .. n) \cup {n + 1}
      OBVIOUS
    <3> QED BY <2>2, <3>1
  <2>6. n + 1 \notin A(n) /\ d[n + 1] \in D(n) /\ \A x \in D(n) : x \in Int
    BY <2>2
  <2>7. Cardinality(A(n)) \in Nat /\ Cardinality(D(n)) \in Nat
    BY <2>1, FS_CardinalityType
  <2> HIDE DEF A, D
  <2>8. \A x \in D(n + 1) : x <= d[(n + 1) + 1]
    BY <2>1, <2>2, <2>3, <2>4, <2>6
  <2>9. CASE d[n + 1] < d[n + 2]
    <3>1. d[n + 2] \notin D(n)
      BY <2>1, <2>3, <2>6, <2>9
    <3>2. /\ IsFiniteSet(D(n) \cup {d[n + 2]})
          /\ Cardinality(D(n) \cup {d[n + 2]}) = Cardinality(D(n)) + 1
          /\ IsFiniteSet(A(n) \cup {n + 1})
          /\ Cardinality(A(n) \cup {n + 1}) = Cardinality(A(n)) + 1
      BY <2>1, <2>6, <3>1, FS_AddElement
    <3>3. A(n + 1) = A(n) \cup {n + 1}
      BY <2>5, <2>9
    <3>4. Cardinality(A(n + 1)) = Cardinality(D(n + 1)) - 1
      <4>1. Cardinality(A(n + 1)) = Cardinality(A(n)) + 1
        BY <3>2, <3>3, Zenon
      <4>2. Cardinality(D(n + 1)) = Cardinality(D(n)) + 1
        BY <2>4, <3>2, Zenon
      <4> QED BY <2>1, <2>7, <4>1, <4>2
    <3> QED BY <2>4, <2>8, <3>2, <3>3, <3>4
  <2>10. CASE ~(d[n + 1] < d[n + 2])
    <3>1. D(n + 1) = D(n) /\ A(n + 1) = A(n)
      <4>1. d[n + 1] = d[n + 2]
        BY <2>3, <2>10
      <4> QED BY <2>4, <2>5, <2>6, <2>10, <4>1
    <3> QED BY <2>1, <2>8, <3>1
  <2> QED BY <2>9, <2>10
<1> HIDE DEF U
<1>3. N \in U
  BY <1>1, <1>2, Telling!NatInduct
<1> QED BY <1>3 DEF U

\* While an install stays Licensed and its expiry never moves back, it is told of as
\* many renewals as there are new expiries, whatever the history.
THEOREM RenewalsAddUp ==
  ASSUME None \notin Customer!Events,
         NEW runs \in SUBSET (Seq(Customer!Resolutions(Nat \cup {None})) \ {<<>>})
  PROVE  Customer!RenewalsAreCounted(runs)
<1> DEFINE R == Customer!Resolutions(Nat \cup {None})
           dateOf(run, i) == IF run[i].expiry = None THEN -1 ELSE run[i].expiry
           renewals(run) == {i \in 1 .. Len(run) - 1 :
                               Customer!Told(run[1], Tail(run))[i] = "renewed"}
           Grows(run) == /\ \A i \in DOMAIN run : run[i].state = "Licensed"
                         /\ \A i \in 1 .. Len(run) - 1 : dateOf(run, i) <= dateOf(run, i + 1)
           Adds(run) == Cardinality(renewals(run)) =
                          Cardinality({dateOf(run, i) : i \in DOMAIN run}) - 1
<1>0. ASSUME NEW run \in runs, Grows(run) PROVE Adds(run)
  <2> DEFINE N == Len(run) - 1
             told == Customer!Told(run[1], Tail(run))
             date(i) == dateOf(run, i)
             d == [i \in 1 .. N + 1 |-> date(i)]
  <2>1. /\ run \in Seq(R) /\ Len(run) \in Nat \ {0} /\ DOMAIN run = 1 .. Len(run)
        /\ Tail(run) \in Seq(R) /\ Len(Tail(run)) = N /\ N \in Nat /\ N + 1 = Len(run)
        /\ \A i \in 1 .. N : Tail(run)[i] = run[i + 1]
    <3>1. run \in Seq(R) /\ run # <<>>
      OBVIOUS
    <3> HIDE DEF R
    <3> QED BY <3>1
  <2>2. \A i \in 1 .. N + 1 : /\ run[i].state = "Licensed"
                              /\ run[i].expiry \in Nat \cup {None}
    <3> TAKE i \in 1 .. N + 1
    <3>1. run[i] \in R
      <4> HIDE DEF R
      <4> QED BY <2>1
    <3>2. run[i].state = "Licensed"
      BY <1>0, <2>1
    <3> QED BY <3>1, <3>2 DEF Customer!Resolutions
  <2>3. \A i \in 1 .. N : date(i) <= date(i + 1)
    BY <1>0
  <2>4. \A i \in 1 .. N : told[i] = EventOf(run[i], run[i + 1])
    <3> TAKE i \in 1 .. N
    <3>1. told[i] = EventOf(Prior(run[1], Tail(run), i), Tail(run)[i])
      <4> HIDE DEF R
      <4>1. Tail(run) \in Seq(R) /\ i \in 1 .. Len(Tail(run))
        BY <2>1
      <4> QED BY <4>1, ToldIs
    <3>2. Prior(run[1], Tail(run), i) = run[i]
      <4>1. i # 1 => i - 1 \in 1 .. N /\ (i - 1) + 1 = i
        BY <2>1
      <4> QED BY <2>1, <4>1 DEF Prior
    <3> QED BY <2>1, <3>1, <3>2
  <2>5. \A i \in 1 .. N + 1 : date(i) \in Int
    BY <2>2
  <2>6. \A i \in 1 .. N : told[i] = "renewed" <=> date(i) < date(i + 1)
    <3> TAKE i \in 1 .. N
    <3>1. i \in 1 .. N + 1 /\ i + 1 \in 1 .. N + 1
      BY <2>1
    <3>2. /\ run[i].state = "Licensed" /\ run[i + 1].state = "Licensed"
          /\ run[i].expiry \in Nat \cup {None} /\ run[i + 1].expiry \in Nat \cup {None}
      BY <2>2, <3>1
    <3>3. Customer!MovedLater(run[i].expiry, run[i + 1].expiry) <=> date(i) < date(i + 1)
      BY <3>2 DEF Customer!MovedLater
    <3>4. EventOf(run[i], run[i + 1]) =
            IF Customer!MovedLater(run[i].expiry, run[i + 1].expiry) THEN "renewed" ELSE None
      BY <3>2 DEF EventOf, Customer!LifecycleEvent
    <3>5. None # "renewed"
      BY DEF Customer!Events
    <3> HIDE DEF date, told
    <3> QED BY <2>4, <3>3, <3>4, <3>5
  <2>7. \A i \in 1 .. N + 1 : d[i] = date(i)
    OBVIOUS
  <2>8. renewals(run) = {i \in 1 .. N : told[i] = "renewed"}
    OBVIOUS
  <2>9. {dateOf(run, i) : i \in DOMAIN run} = {date(i) : i \in 1 .. N + 1}
    BY <2>1, Zenon
  <2> HIDE DEF d, N, told, date
  <2>10. \A i \in 1 .. N : i \in 1 .. N + 1 /\ i + 1 \in 1 .. N + 1
    BY <2>1
  <2>11. /\ N \in Nat /\ \A i \in 1 .. N + 1 : d[i] \in Int
         /\ \A i \in 1 .. N : d[i] <= d[i + 1]
    BY <2>1, <2>3, <2>5, <2>7, <2>10
  <2>12. Cardinality({i \in 1 .. N : d[i] < d[i + 1]}) =
           Cardinality({d[i] : i \in 1 .. N + 1}) - 1
    BY <2>11, GrowsAsOften, Zenon
  <2>13. {i \in 1 .. N : told[i] = "renewed"} = {i \in 1 .. N : d[i] < d[i + 1]}
    BY <2>6, <2>7, <2>10
  <2>14. {date(i) : i \in 1 .. N + 1} = {d[i] : i \in 1 .. N + 1}
    BY <2>7
  <2> QED BY <2>8, <2>9, <2>12, <2>13, <2>14, Zenon
<1>1. \A S : Customer!Cardinality(S) = Cardinality(S)
  BY DEF Customer!Cardinality, Cardinality
<1>2. ASSUME NEW run \in runs, Grows(run)
      PROVE  Customer!Cardinality(renewals(run)) =
               Customer!Cardinality({dateOf(run, i) : i \in DOMAIN run}) - 1
  <2>1. Adds(run)
    BY <1>0, <1>2, Zenon
  <2> HIDE DEF Grows, renewals, dateOf
  <2> QED BY <1>1, <2>1
<1> QED BY <1>2, Zenon DEF Customer!RenewalsAreCounted

\* No paying device is reported into the table of the keyless.
THEOREM PaidIsNotKeyless == Customer!PaidIsNotBeaconed
BY DEF Customer!PaidIsNotBeaconed, Customer!BeaconStateFor, Customer!KeylessStateWire

----------------------------------------------------------------------------
(* What the server is told of the machine such a client runs on (Device). *)
CONSTANTS Gib, VersionMax, NameMax, Continuation, Whitespace, Upper, Unprinted

Machine == INSTANCE Device WITH Control <- Unprinted

\* The readings of a sequence of launches, as a fold.
Launching == INSTANCE FoldProofs WITH Op <- LAMBDA p, x, e : Machine!Read(x, e)

Launches(s) == Launching!Fold(0, [ids |-> <<>>, stored |-> None, cached |-> None], s)

LEMMA ReadsOn ==
  /\ \A s : Machine!Readings(s) = Launches(s).ids
  /\ Launches(<<>>) = [ids |-> <<>>, stored |-> None, cached |-> None]
  /\ \A S : \A s \in Seq(S), e \in S : Launches(Append(s, e)) = Machine!Read(Launches(s), e)
<1>1. \A s : Machine!Readings(s) = Launches(s).ids
  BY DEF Machine!Readings, Launches, Launching!Fold, Launching!FoldLeft, Machine!FoldLeft,
         Machine!MapThenFoldSet, Launching!MapThenFoldSet, Machine!Max, Launching!Max
<1>2. Launches(<<>>) = [ids |-> <<>>, stored |-> None, cached |-> None]
  BY Launching!FoldEmpty DEF Launches
<1>3. \A S : \A s \in Seq(S), e \in S : Launches(Append(s, e)) = Machine!Read(Launches(s), e)
  BY Launching!FoldAppend DEF Launches
<1> QED BY <1>1, <1>2, <1>3

\* A set of positions that is not empty has a last one.
LEMMA LastOf ==
  \A n \in Nat : \A D \in SUBSET (1 .. n) : D # {} =>
    /\ Machine!Max(D) \in D
    /\ n \in D => Machine!Max(D) = n
<1> DEFINE T == {n \in Nat : \A D \in SUBSET (1 .. n) :
                   D # {} => \E x \in D : \A y \in D : x >= y}
<1>1. 0 \in T
  <2>1. \A D \in SUBSET (1 .. 0) : D = {}
    OBVIOUS
  <2> QED BY <2>1
<1>2. ASSUME NEW n \in Nat, n \in T PROVE n + 1 \in T
  <2>1. ASSUME NEW D \in SUBSET (1 .. n + 1), D # {}
        PROVE  \E x \in D : \A y \in D : x >= y
    <3>1. CASE n + 1 \in D
      <4>1. \A y \in D : n + 1 >= y
        OBVIOUS
      <4> QED BY <3>1, <4>1
    <3>2. CASE n + 1 \notin D
      <4>1. D \in SUBSET (1 .. n)
        BY <3>2
      <4> QED BY <1>2, <2>1, <4>1
    <3> QED BY <3>1, <3>2
  <2> QED BY <2>1
<1>3. \A n \in T : \A D \in SUBSET (1 .. n) : D # {} => \E x \in D : \A y \in D : x >= y
  OBVIOUS
<1> HIDE DEF T
<1>4. \A n \in Nat : n \in T
  BY <1>1, <1>2, Launching!NatInduct
<1> SUFFICES ASSUME NEW n \in Nat, NEW D \in SUBSET (1 .. n), D # {}
             PROVE  Machine!Max(D) \in D /\ (n \in D => Machine!Max(D) = n)
  OBVIOUS
<1>5. \E x \in D : \A y \in D : x >= y
  BY <1>3, <1>4
<1>6. Machine!Max(D) \in D /\ \A y \in D : Machine!Max(D) >= y
  BY <1>5 DEF Machine!Max
<1>7. \A x \in 1 .. n : x >= n => x = n
  OBVIOUS
<1> QED BY <1>6, <1>7

\* The positions at which an id was read, and the newest of the ids.
ReadAt(s, n) == {i \in 1 .. n : s[i].live \notin {None, <<>>}}
Newest(s, n) == IF ReadAt(s, n) = {} THEN None ELSE s[Machine!Max(ReadAt(s, n))].live
Saving(s, n) == \A i \in 1 .. n : s[i].saved
Known(s, n, id) == id = None \/ \E i \in ReadAt(s, n) : s[i].live = id

\* One launch more leaves what was read before, and may read one id more.
LEMMA ReadMore ==
  ASSUME NEW S, NEW s \in Seq(S), NEW e \in S
  PROVE  /\ \A n \in 0 .. Len(s) :
              /\ Newest(Append(s, e), n) = Newest(s, n)
              /\ Saving(Append(s, e), n) = Saving(s, n)
              /\ \A id : Known(Append(s, e), n, id) <=> Known(s, n, id)
         /\ Newest(Append(s, e), Len(s) + 1) =
              IF e.live \in {None, <<>>} THEN Newest(s, Len(s)) ELSE e.live
         /\ Saving(Append(s, e), Len(s) + 1) <=> Saving(s, Len(s)) /\ e.saved
         /\ \A id : Known(s, Len(s), id) \/ (e.live \notin {None, <<>>} /\ id = e.live) =>
              Known(Append(s, e), Len(s) + 1, id)
<1> DEFINE t == Append(s, e)
           m == Len(s)
<1>1. m \in Nat /\ Len(t) = m + 1 /\ t[m + 1] = e /\ \A i \in 1 .. m : t[i] = s[i]
  BY AppendProperties, LenProperties
<1> HIDE DEF t, m
<1>2. ASSUME NEW n \in 0 .. m
      PROVE  /\ ReadAt(t, n) = ReadAt(s, n)
             /\ ReadAt(s, n) \in SUBSET (1 .. n) /\ n \in Nat
             /\ \A i \in ReadAt(s, n) : t[i] = s[i]
  BY <1>1 DEF ReadAt
<1>3. ASSUME NEW n \in 0 .. m
      PROVE  /\ Newest(t, n) = Newest(s, n)
             /\ Saving(t, n) = Saving(s, n)
             /\ \A id : Known(t, n, id) <=> Known(s, n, id)
  <2>1. Newest(t, n) = Newest(s, n)
    <3>1. CASE ReadAt(s, n) = {}
      BY <1>2, <3>1 DEF Newest
    <3>2. CASE ReadAt(s, n) # {}
      <4>1. Machine!Max(ReadAt(s, n)) \in ReadAt(s, n)
        BY <1>2, <3>2, LastOf
      <4>2. t[Machine!Max(ReadAt(s, n))] = s[Machine!Max(ReadAt(s, n))]
        BY <1>2, <4>1
      <4> QED BY <1>2, <3>2, <4>2 DEF Newest
    <3> QED BY <3>1, <3>2
  <2>2. Saving(t, n) = Saving(s, n)
    BY <1>1 DEF Saving
  <2>3. \A id : Known(t, n, id) <=> Known(s, n, id)
    BY <1>2 DEF Known
  <2> QED BY <2>1, <2>2, <2>3
<1>4. /\ Newest(t, m + 1) = IF e.live \in {None, <<>>} THEN Newest(s, m) ELSE e.live
      /\ \A id : Known(s, m, id) \/ (e.live \notin {None, <<>>} /\ id = e.live) =>
           Known(t, m + 1, id)
  <2>1. CASE e.live \in {None, <<>>}
    <3>1. ReadAt(t, m + 1) = ReadAt(t, m)
      BY <1>1, <2>1 DEF ReadAt
    <3>2. Newest(t, m + 1) = Newest(s, m)
      BY <1>1, <1>3, <3>1 DEF Newest
    <3>3. \A id : Known(s, m, id) => Known(t, m + 1, id)
      <4>1. \A id : Known(s, m, id) => Known(t, m, id)
        BY <1>1, <1>3
      <4>2. \A id : Known(t, m, id) => Known(t, m + 1, id)
        BY <3>1 DEF Known
      <4> QED BY <4>1, <4>2
    <3> QED BY <2>1, <3>2, <3>3
  <2>2. CASE e.live \notin {None, <<>>}
    <3>1. /\ m + 1 \in ReadAt(t, m + 1) /\ ReadAt(s, m) \subseteq ReadAt(t, m + 1)
          /\ ReadAt(t, m + 1) \in SUBSET (1 .. m + 1)
      BY <1>1, <2>2 DEF ReadAt
    <3>2. Machine!Max(ReadAt(t, m + 1)) = m + 1
      BY <1>1, <3>1, LastOf
    <3>3. Newest(t, m + 1) = e.live
      BY <1>1, <3>1, <3>2 DEF Newest
    <3>4. \A id : Known(s, m, id) => Known(t, m + 1, id)
      BY <1>1, <1>2, <3>1 DEF Known
    <3>5. Known(t, m + 1, e.live)
      BY <1>1, <3>1 DEF Known
    <3> QED BY <2>2, <3>3, <3>4, <3>5
  <2> QED BY <2>1, <2>2
<1>5. Saving(t, m + 1) <=> Saving(s, m) /\ e.saved
  <2>1. \A i : i \in 1 .. m + 1 <=> i \in 1 .. m \/ i = m + 1
    BY <1>1
  <2> QED BY <1>1, <2>1 DEF Saving
<1> QED BY <1>3, <1>4, <1>5 DEF t, m

\* What stands after any launches: every id sent so far was read, and is the newest
\* while saves work; so are the id in memory and the id on disk.
Standing(s, acc, V) ==
  /\ acc.ids \in Seq(V) /\ Len(acc.ids) = Len(s)
  /\ \A n \in 1 .. Len(s) : /\ Known(s, n, acc.ids[n])
                            /\ Saving(s, n) => acc.ids[n] = Newest(s, n)
  /\ \A id \in {acc.cached, acc.stored} :
       /\ id \in V /\ Known(s, Len(s), id)
       /\ Saving(s, Len(s)) => id = Newest(s, Len(s))

\* A launch sends the id it reads, or else the one in memory, and keeps what it sends
\* in memory and, if it saves, on disk.
LEMMA ReadIs ==
  ASSUME NEW acc, NEW e, acc.cached = <<>> => None = <<>>
  PROVE  \E id : /\ e.live \in {None, <<>>} => id = acc.cached
                 /\ e.live \notin {None, <<>>} => id = e.live
                 /\ Machine!Read(acc, e).ids = Append(acc.ids, id)
                 /\ Machine!Read(acc, e).stored \in {id, acc.stored}
                 /\ e.saved => \/ Machine!Read(acc, e).stored = id
                               \/ /\ id = acc.cached
                                  /\ Machine!Read(acc, e).stored = acc.stored
                 /\ Machine!Read(acc, e).cached \in {id, Machine!Read(acc, e).stored}
<1> DEFINE r == Machine!CachedHardwareId(acc.cached, e.live)
           kept == IF r.save /\ e.saved THEN r.cached ELSE acc.stored
           read == Machine!Read(acc, e)
<1>1. /\ read.ids = Append(acc.ids, r.id) /\ read.stored = kept
      /\ read.cached = IF e.relaunch THEN kept ELSE r.cached
  BY DEF Machine!Read
<1>2. /\ e.live \in {None, <<>>} =>
           r.id = acc.cached /\ r.cached = acc.cached /\ r.save = FALSE
      /\ e.live \notin {None, <<>>} =>
           r.id = e.live /\ r.cached = e.live /\ r.save = (acc.cached # e.live)
  BY DEF Machine!CachedHardwareId
<1> HIDE DEF r, read
<1>3. r.cached = r.id
  BY <1>2
<1>4. read.stored \in {r.id, acc.stored} /\ read.cached \in {r.id, read.stored}
  BY <1>1, <1>3
<1>5. e.saved => \/ read.stored = r.id
                 \/ r.id = acc.cached /\ read.stored = acc.stored
  <2>1. ASSUME e.saved, ~r.save PROVE r.id = acc.cached
    BY <1>2, <2>1
  <2> QED BY <1>1, <1>3, <2>1
<1>6. read.ids = Append(acc.ids, r.id)
  BY <1>1
<1>7. /\ e.live \in {None, <<>>} => r.id = acc.cached
      /\ e.live \notin {None, <<>>} => r.id = e.live
  BY <1>2
<1> QED BY <1>4, <1>5, <1>6, <1>7 DEF read

LEMMA StandingOn ==
  ASSUME NEW Lives, NEW S, \A e \in S : e.live \in Lives,
         NEW s \in Seq(S), NEW e \in S, NEW acc, Standing(s, acc, Lives \cup {None})
  PROVE  Standing(Append(s, e), Machine!Read(acc, e), Lives \cup {None})
<1> DEFINE V == Lives \cup {None}
           t == Append(s, e)
           m == Len(s)
           here == Machine!Read(acc, e)
<1>1. m \in Nat /\ Len(t) = m + 1
  BY AppendProperties, LenProperties
<1>2. acc.ids \in Seq(V) /\ Len(acc.ids) = m
  BY DEF Standing
<1>3. /\ \A n \in 1 .. m : /\ Known(s, n, acc.ids[n])
                           /\ Saving(s, n) => acc.ids[n] = Newest(s, n)
      /\ \A id \in {acc.cached, acc.stored} :
           /\ id \in V /\ Known(s, m, id)
           /\ Saving(s, m) => id = Newest(s, m)
  BY DEF Standing
<1>4. acc.cached = <<>> => None = <<>>
  <2>1. \A i \in ReadAt(s, m) : s[i].live # <<>>
    BY DEF ReadAt
  <2> QED BY <1>3, <2>1 DEF Known
<1>5. PICK id : /\ e.live \in {None, <<>>} => id = acc.cached
                /\ e.live \notin {None, <<>>} => id = e.live
                /\ here.ids = Append(acc.ids, id)
                /\ here.stored \in {id, acc.stored}
                /\ e.saved => \/ here.stored = id
                              \/ id = acc.cached /\ here.stored = acc.stored
                /\ here.cached \in {id, here.stored}
  BY <1>4, ReadIs
<1>6. /\ \A n \in 0 .. m :
           /\ Newest(t, n) = Newest(s, n)
           /\ Saving(t, n) = Saving(s, n)
           /\ \A x : Known(t, n, x) <=> Known(s, n, x)
      /\ Newest(t, m + 1) = IF e.live \in {None, <<>>} THEN Newest(s, m) ELSE e.live
      /\ Saving(t, m + 1) <=> Saving(s, m) /\ e.saved
      /\ \A x : Known(s, m, x) \/ (e.live \notin {None, <<>>} /\ x = e.live) =>
           Known(t, m + 1, x)
  BY ReadMore
<1>7. e.live \in Lives
  OBVIOUS
<1> HIDE DEF V, t, m, here
<1>8. /\ id \in V /\ Known(t, m + 1, id)
      /\ Saving(t, m + 1) => id = Newest(t, m + 1)
  <2>1. CASE e.live \in {None, <<>>}
    BY <1>3, <1>5, <1>6, <2>1
  <2>2. CASE e.live \notin {None, <<>>}
    BY <1>5, <1>6, <1>7, <2>2 DEF V
  <2> QED BY <2>1, <2>2
<1>9. /\ here.stored \in V /\ Known(t, m + 1, here.stored)
      /\ Saving(t, m + 1) => here.stored = Newest(t, m + 1)
  <2>1. here.stored \in V /\ Known(t, m + 1, here.stored)
    BY <1>3, <1>5, <1>6, <1>8
  <2>2. ASSUME Saving(t, m + 1) PROVE here.stored = id
    <3>1. Saving(s, m) /\ e.saved
      BY <1>6, <2>2
    <3>2. acc.stored = acc.cached
      BY <1>3, <3>1
    <3> QED BY <1>5, <3>1, <3>2
  <2> QED BY <1>8, <2>1, <2>2
<1>10. \A x \in {here.cached, here.stored} :
         x \in V /\ Known(t, m + 1, x) /\ (Saving(t, m + 1) => x = Newest(t, m + 1))
  BY <1>5, <1>8, <1>9
<1>11. /\ here.ids \in Seq(V) /\ Len(here.ids) = m + 1 /\ here.ids[m + 1] = id
       /\ \A n \in 1 .. m : here.ids[n] = acc.ids[n]
  BY <1>2, <1>5, <1>8, AppendProperties
<1>12. \A n \in 1 .. m + 1 : /\ Known(t, n, here.ids[n])
                             /\ Saving(t, n) => here.ids[n] = Newest(t, n)
  <2>1. ASSUME NEW n \in 1 .. m
        PROVE  Known(t, n, here.ids[n]) /\ (Saving(t, n) => here.ids[n] = Newest(t, n))
    <3>1. n \in 0 .. m /\ here.ids[n] = acc.ids[n]
      BY <1>1, <1>11
    <3> QED BY <1>3, <1>6, <3>1
  <2>2. \A n \in 1 .. m + 1 : n \in 1 .. m \/ n = m + 1
    BY <1>1
  <2> QED BY <1>8, <1>11, <2>1, <2>2
<1>13. Standing(t, here, V)
  BY <1>1, <1>10, <1>11, <1>12 DEF Standing
<1> QED BY <1>13 DEF V, t, here

\* Whatever was read at each launch, was saved or was not, the server is never told of
\* a machine by an id that was not read on it, and while saves work the id it is told
\* is the newest that was: cached_hardware_id_value_(), over launches without number.
THEOREM OneMachine ==
  ASSUME NEW Lives,
         NEW traces \in SUBSET Seq([live : Lives, saved : BOOLEAN, relaunch : BOOLEAN])
  PROVE  Machine!IdsAreStable(traces)
<1> DEFINE S == [live : Lives, saved : BOOLEAN, relaunch : BOOLEAN]
           V == Lives \cup {None}
           T == {s \in Seq(S) : Standing(s, Launches(s), V)}
<1>1. <<>> \in T
  <2>1. Standing(<<>>, [ids |-> <<>>, stored |-> None, cached |-> None], V)
    <3>1. Newest(<<>>, 0) = None /\ Known(<<>>, 0, None)
      BY DEF Newest, ReadAt, Known
    <3> QED BY <3>1 DEF Standing
  <2>2. <<>> \in Seq(S)
    OBVIOUS
  <2> QED BY <2>1, <2>2, ReadsOn
<1>2. ASSUME NEW s \in Seq(S), NEW e \in S, s \in T PROVE Append(s, e) \in T
  <2>1. Append(s, e) \in Seq(S) /\ \A x \in S : x.live \in Lives
    OBVIOUS
  <2>2. Standing(s, Launches(s), V)
    BY <1>2
  <2>3. Launches(Append(s, e)) = Machine!Read(Launches(s), e)
    BY ReadsOn
  <2> HIDE DEF S
  <2>4. Standing(Append(s, e), Machine!Read(Launches(s), e), V)
    BY <2>1, <2>2, StandingOn
  <2> QED BY <2>1, <2>3, <2>4
<1>3. \A s \in T : Standing(s, Launches(s), V)
  OBVIOUS
<1> HIDE DEF T
<1>4. \A s \in Seq(S) : s \in T
  BY <1>1, <1>2, Launching!SeqInduct
<1>5. ASSUME NEW s \in traces, NEW n \in DOMAIN s
      PROVE  LET read   == {i \in 1 .. n : s[i].live \notin {None, <<>>}}
                 newest == IF read = {} THEN None ELSE s[Machine!Max(read)].live
                 id     == Machine!Readings(s)[n]
             IN /\ id = None \/ \E i \in read : s[i].live = id
                /\ (\A i \in 1 .. n : s[i].saved) => id = newest
  <2>1. s \in Seq(S)
    OBVIOUS
  <2> HIDE DEF S
  <2>2. n \in 1 .. Len(s)
    BY <2>1
  <2>3. Standing(s, Launches(s), V)
    BY <1>3, <1>4, <2>1
  <2>4. /\ Known(s, n, Launches(s).ids[n])
        /\ Saving(s, n) => Launches(s).ids[n] = Newest(s, n)
    BY <2>2, <2>3 DEF Standing
  <2>5. /\ Known(s, n, Machine!Readings(s)[n])
        /\ Saving(s, n) => Machine!Readings(s)[n] = Newest(s, n)
    BY <2>4, ReadsOn
  <2> QED BY <2>5 DEF Known, Saving, Newest, ReadAt
<1> QED BY <1>5 DEF Machine!IdsAreStable
=============================================================================
