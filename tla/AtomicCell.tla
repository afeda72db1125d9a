------------------------------ MODULE AtomicCell ------------------------------
(***************************************************************************)
(* What a LicenseStore promises its one Client: a cell that holds the last *)
(* blob saved or nothing, over a plaintext cell of an older version that   *)
(* is read while nothing has been saved, is copied over, and is given up   *)
(* only once its blob stands in the new cell.  A save that fails changes   *)
(* nothing; a crash loses nothing.                                         *)
(***************************************************************************)
CONSTANTS Threads, Values, NoData, None

VARIABLES cell, legacy,  \* the two cells
          unreadable,    \* fixed: may a read fail?
          said           \* what each thread's last call answered

Answer(t, a) == said' = [said EXCEPT ![t] = a]

Init == /\ cell \in Values \cup {NoData}
        /\ legacy \in Values \cup {NoData}
        /\ unreadable \in BOOLEAN
        /\ said = [t \in Threads |-> None]

\* A save takes effect as a whole, with its answer, or not at all.
Save(t) == \/ /\ cell' \in Values
              /\ Answer(t, "ok")
              /\ UNCHANGED legacy
           \/ /\ Answer(t, "failed")
              /\ UNCHANGED <<cell, legacy>>

\* A clear answers ok, also when it could not remove the file.
Erase(t) == /\ cell' \in {NoData, cell}
            /\ Answer(t, "ok")
            /\ UNCHANGED legacy

Migrate == /\ cell = NoData /\ legacy # NoData
           /\ cell' = legacy
           /\ UNCHANGED <<legacy, said>>

\* Nothing else is ever read; what cannot be read reads as no data, and is no
\* reason to give up the legacy cell.
Read(t) == /\ \/ Answer(t, IF cell # NoData THEN cell ELSE legacy)
              \/ Answer(t, NoData)
              \/ Answer(t, "failed")
           /\ legacy' \in {legacy} \cup (IF cell = legacy THEN {NoData} ELSE {})
           /\ UNCHANGED cell

\* A call begins or its process dies: its thread has no answer.
Silence == /\ said' \in [Threads -> Values \cup {NoData, None, "ok", "failed"}]
           /\ \A t \in Threads : said'[t] \in {said[t], None}
           /\ UNCHANGED <<cell, legacy>>

Next == /\ Silence \/ Migrate \/ \E t \in Threads : Save(t) \/ Erase(t) \/ Read(t)
        /\ UNCHANGED unreadable

Spec == Init /\ [][Next]_<<cell, legacy, unreadable, said>>
=============================================================================
