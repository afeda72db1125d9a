---------------------------- MODULE CycleSwitch -----------------------------
(***************************************************************************)
(* What startAutoValidation() and stopAutoValidation() promise the host.   *)
(* Auto-validation is on or off.  Each time it is switched on somebody new *)
(* begins the cycles; once it is off no cycle begins, though one under way *)
(* may end later.  Nothing is said of threads, joins or epochs: module     *)
(* AutoValidation shows how the code does it.                              *)
(***************************************************************************)
EXTENDS Naturals

CONSTANT Ids   \* who begins cycles, each switched on once

VARIABLES on,      \* whose cycles may begin; 0 when off
          past,    \* whoever has been switched on so far
          cycling  \* whose cycle is under way

switchVars == <<on, past, cycling>>

Init == on = 0 /\ past = {} /\ cycling = {}

TurnOn == /\ on = 0
          /\ \E i \in Ids \ past : on' = i /\ past' = past \cup {i}
          /\ UNCHANGED cycling

TurnOff == on # 0 /\ on' = 0 /\ UNCHANGED <<past, cycling>>

Begin == /\ on # 0 /\ on \notin cycling
         /\ cycling' = cycling \cup {on}
         /\ UNCHANGED <<on, past>>

End == \E i \in cycling : cycling' = cycling \ {i} /\ UNCHANGED <<on, past>>

Next == TurnOn \/ TurnOff \/ Begin \/ End

Spec == Init /\ [][Next]_switchVars
=============================================================================
