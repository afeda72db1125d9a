----------------------------- MODULE StateMirror -----------------------------
(***************************************************************************)
(* What a Licensing object promises its host.  What the audio thread reads *)
(* (snapshot) and what the message thread is told (told) go through the    *)
(* states of the Client in the order the Client went through them, none of *)
(* them left out or repeated, the message thread behind the audio thread.  *)
(* Once the object is closed states may be left out, and nobody is told.   *)
(***************************************************************************)
EXTENDS Sequences

CONSTANT States

VARIABLES state_,    \* the Client's state
          pending,   \* those it went to and the audio thread does not see yet
          snapshot,
          telling,   \* those the message thread will be told
          told,
          open       \* has ~Licensing() not begun?

mirrorVars == <<state_, pending, snapshot, telling, told, open>>

Init == /\ state_ \in States /\ snapshot = state_ /\ told = state_
        /\ pending = <<>> /\ telling = <<>>
        /\ open = TRUE

Transition == /\ state_' \in States \ {state_}
              /\ pending' = Append(pending, state_')
              /\ UNCHANGED <<snapshot, telling, told, open>>

Latch == /\ pending # <<>>
         /\ snapshot' = Head(pending) /\ pending' = Tail(pending)
         /\ telling' = Append(telling, Head(pending))
         /\ UNCHANGED <<state_, told, open>>

Tell == /\ open /\ telling # <<>>
        /\ told' = Head(telling) /\ telling' = Tail(telling)
        /\ UNCHANGED <<state_, pending, snapshot, open>>

Close == /\ open /\ open' = FALSE
         /\ UNCHANGED <<state_, pending, snapshot, telling, told>>

LeaveOut == /\ ~open
            /\ \/ /\ pending # <<>> /\ pending' = Tail(pending)
                  /\ UNCHANGED telling
               \/ /\ telling # <<>> /\ telling' = Tail(telling)
                  /\ UNCHANGED pending
            /\ UNCHANGED <<state_, snapshot, told, open>>

Next == Transition \/ Latch \/ Tell \/ Close \/ LeaveOut

Spec == Init /\ [][Next]_mirrorVars
=============================================================================
