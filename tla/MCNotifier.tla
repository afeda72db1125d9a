----------------------------- MODULE MCNotifier -----------------------------
(* Small instances of Notifier: two threads, one or two listeners. *)
EXTENDS Notifier, TLC, FiniteSets

CONSTANTS t1, t2, licensed, trial, invalid, l1, l2

\* Threads and listeners are interchangeable in the safety runs, where no
\* thread is a poller.
Symmetry == Permutations({t1, t2}) \cup Permutations({l1, l2})
                \cup Permutations({licensed, trial})
=============================================================================
