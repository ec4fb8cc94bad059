----------------------------- MODULE RunStream -----------------------------
(***************************************************************************)
(* What a provider promises the host about a run: the run's notifications  *)
(* come out, and then its response, once, when none is left.  The          *)
(* notifications of one run are counted; the channel keeps their order.    *)
(***************************************************************************)
EXTENDS Naturals

CONSTANT Runs

VARIABLES emitted,  \* per run: notifications it has emitted
          out,      \* per run: those the host has been sent
          answered  \* per run: its response has been sent

vars == <<emitted, out, answered>>

Init ==
  /\ emitted = [r \in Runs |-> 0] /\ out = [r \in Runs |-> 0]
  /\ answered = [r \in Runs |-> FALSE]

Emit(r) ==
  /\ ~answered[r]
  /\ emitted' = [emitted EXCEPT ![r] = @ + 1]
  /\ UNCHANGED <<out, answered>>

Write(r) ==
  /\ ~answered[r] /\ out[r] < emitted[r]
  /\ out' = [out EXCEPT ![r] = @ + 1]
  /\ UNCHANGED <<emitted, answered>>

Answer(r) ==
  /\ ~answered[r] /\ out[r] = emitted[r]
  /\ answered' = [answered EXCEPT ![r] = TRUE]
  /\ UNCHANGED <<emitted, out>>

Next == \E r \in Runs : Emit(r) \/ Write(r) \/ Answer(r)

Spec == Init /\ [][Next]_vars
=============================================================================
