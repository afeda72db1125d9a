---------------------------- MODULE EventChannel ----------------------------
(***************************************************************************)
(* What the event channel of keylight::Client promises its subscribers:    *)
(* the values that state() takes are published in one total order, never   *)
(* the same value twice in a row, and are handed over for delivery in that *)
(* order, each exactly once.  Nothing is said of threads, of the queue or  *)
(* of the delivery baton: module Notifier shows how the code does it.      *)
(***************************************************************************)
EXTENDS Naturals, Sequences

CONSTANT States

VARIABLES sent,   \* every value published so far; sent[1] is the one booted with
          got     \* the published values handed over for delivery, in order

chanVars == <<sent, got>>

Init == /\ \E s \in States : sent = <<s>>
        /\ got = sent

Publish(s) == /\ s # sent[Len(sent)]
              /\ sent' = Append(sent, s)
              /\ UNCHANGED got

HandOver == /\ Len(got) < Len(sent)
            /\ got' = Append(got, sent[Len(got) + 1])
            /\ UNCHANGED sent

Next == (\E s \in States : Publish(s)) \/ HandOver

Spec == Init /\ [][Next]_chanVars

\* Whatever is published is eventually handed over.
FairSpec == Spec /\ WF_chanVars(HandOver)
=============================================================================
