------------------------------ MODULE Lifecycle ------------------------------
(***************************************************************************)
(* The events worth telling a customer about (lifecycle.hpp, set_state_()'s *)
(* comparison of expiries, on() and onLifecycle()), and what a state is    *)
(* reported as to the server, as functions.                                *)
(*                                                                         *)
(* One caller of set_state_() at a time: prev and last_seen_expiry_ are    *)
(* read and written without a lock.                                        *)
(***************************************************************************)
EXTENDS Integers, Sequences, SequencesExt, FiniteSetsExt

CONSTANT None

State  == {"Licensed", "Trial", "Expired", "Invalid", "FreeTier", "Limited"}
Events == {"renewed", "cancelled", "expired", "restored"}

\* Seeded fault: what was licensed or locked before is not told to be expired.
LifecycleEventFromPaid(prev, next, later) ==
  CASE prev = "Licensed" /\ next = "Licensed" -> IF later THEN "renewed" ELSE None
    [] prev = "Licensed" /\ next \in {"Expired", "Limited"} -> "cancelled"
    [] next = "Licensed" /\ prev \in {"Expired", "Limited", "Invalid"} -> "restored"
    [] next = "Expired" /\ prev = "Trial" -> "expired"
    [] OTHER -> None

\* lifecycle_event()
LifecycleEvent(prev, next, later) ==
  CASE prev = "Licensed" /\ next = "Licensed" -> IF later THEN "renewed" ELSE None
    [] prev = "Licensed" /\ next \in {"Expired", "Limited"} -> "cancelled"
    [] next = "Licensed" /\ prev \in {"Expired", "Limited", "Invalid"} -> "restored"
    [] next = "Expired" /\ prev \notin {"Licensed", "Expired"} -> "expired"
    [] OTHER -> None

\* A first expiry counts as later than none.
MovedLater(seen, expiry) == expiry # None /\ (seen = None \/ expiry > seen)

\* The part of set_state_() that tells: a resolution is a state and the cached
\* license_expires_at.
Tell(acc, r) ==
  LET e == LifecycleEvent(acc.state, r.state, MovedLater(acc.seen, r.expiry))
  IN [state |-> r.state, seen |-> r.expiry, told |-> Append(acc.told, e)]

\* What a history of resolutions tells.
Told(start, resolutions) ==
  FoldLeft(Tell, [state |-> start.state, seen |-> start.expiry, told |-> <<>>],
           resolutions).told

\* notify_lifecycle_(): a listener that throws costs nobody else the event.
Notified(listeners, event) ==
  IF event = None THEN {} ELSE {l \in listeners : l.wants \in {event, "any"}}

\* on(): four names filter the lifecycle, every other one is subscribe().
On(name) == IF name \in Events THEN [channel |-> "lifecycle", wants |-> name]
                               ELSE [channel |-> "state", wants |-> "any"]

OnLifecycle == [channel |-> "lifecycle", wants |-> "any"]

\* keyless_state_wire(), beacon_state_for_()
KeylessStateWire ==
  [s \in {"Trial", "FreeTier", "Expired"} |->
     CASE s = "Trial" -> "trial" [] s = "FreeTier" -> "free_tier" [] s = "Expired" -> "expired"]

BeaconStateFor(s) ==
  IF s \in DOMAIN KeylessStateWire THEN KeylessStateWire[s] ELSE None

----------------------------------------------------------------------------
(* What is required of it. *)

Resolutions(expiries) == [state : State, expiry : expiries]

\* An application that follows the lifecycle alone, having asked state() once,
\* never takes an Expired install for a good one.
Follow(open, e) ==
  IF e \in {"cancelled", "expired"} THEN FALSE ELSE IF e = "restored" THEN TRUE ELSE open

Follower(start, told) == FoldLeft(Follow, start.state # "Expired", told)

ExpiryIsTold(runs) ==
  \A run \in runs :
    run[Len(run)].state = "Expired" => ~Follower(run[1], Told(run[1], Tail(run)))

\* While an install stays Licensed and its expiry never moves back, it is told of
\* as many renewals as there are new expiries.
RenewalsAreCounted(runs) ==
  \A run \in runs :
    LET date(i)  == IF run[i].expiry = None THEN -1 ELSE run[i].expiry
        renewals == {i \in 1 .. Len(run) - 1 : Told(run[1], Tail(run))[i] = "renewed"}
    IN /\ \A i \in DOMAIN run : run[i].state = "Licensed"
       /\ \A i \in 1 .. Len(run) - 1 : date(i) <= date(i + 1)
       => Cardinality(renewals) = Cardinality({date(i) : i \in DOMAIN run}) - 1

\* Each event reaches the listener of its own name and that of all, once each.
EventsAreSorted ==
  \A e \in Events :
    {l.wants : l \in Notified({On(name) : name \in Events} \cup {OnLifecycle}, e)} = {e, "any"}

\* No paying device is reported into the table of the keyless.
PaidIsNotBeaconed == \A s \in {"Licensed", "Limited", "Invalid"} : BeaconStateFor(s) = None
=============================================================================
