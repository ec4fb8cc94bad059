----------------------------- MODULE OneExecution -----------------------------
(***************************************************************************)
(* What the fences promise of each piece of work: one daemon has it at a    *)
(* time, only that one gives it back or ends it, a success ends it with the *)
(* proof of this very generation, and only a new generation runs it again.  *)
(***************************************************************************)
EXTENDS Naturals

CONSTANTS Entries, Daemons, None

VARIABLES
  stage,  \* "absent", "waiting", "running" or "done"
  holder, \* the daemon that has it while it is running
  gen,    \* the generation of its workflow, 0 before the first
  proof   \* the generation whose publication was accepted at its end, 0 if none
vars == <<stage, holder, gen, proof>>

Init ==
  /\ stage = [e \in Entries |-> "absent"]
  /\ holder = [e \in Entries |-> None]
  /\ gen = [e \in Entries |-> 0]
  /\ proof = [e \in Entries |-> 0]

Submit(e) ==
  /\ stage[e] = "absent"
  /\ stage' = [stage EXCEPT ![e] = "waiting"]
  /\ UNCHANGED <<holder, gen, proof>>

\* The first to take it starts generation 1.
Take(e, d) ==
  /\ stage[e] = "waiting"
  /\ stage' = [stage EXCEPT ![e] = "running"]
  /\ holder' = [holder EXCEPT ![e] = d]
  /\ gen' = [gen EXCEPT ![e] = IF @ = 0 THEN 1 ELSE @]
  /\ UNCHANGED proof

\* Another goes on with the same generation.
Inherit(e, d) ==
  /\ stage[e] = "running" /\ holder[e] # d
  /\ holder' = [holder EXCEPT ![e] = d]
  /\ UNCHANGED <<stage, gen, proof>>

GiveBack(e, d) ==
  /\ stage[e] = "running" /\ holder[e] = d
  /\ stage' = [stage EXCEPT ![e] = "waiting"]
  /\ holder' = [holder EXCEPT ![e] = None]
  /\ UNCHANGED <<gen, proof>>

End(e, d) ==
  /\ stage[e] = "running" /\ holder[e] = d
  /\ stage' = [stage EXCEPT ![e] = "done"]
  /\ holder' = [holder EXCEPT ![e] = None]
  /\ proof' \in {proof, [proof EXCEPT ![e] = gen[e]]}
  /\ UNCHANGED gen

Again(e) ==
  /\ stage[e] = "done"
  /\ stage' = [stage EXCEPT ![e] = "waiting"]
  /\ gen' = [gen EXCEPT ![e] = @ + 1]
  /\ proof' = [proof EXCEPT ![e] = 0]
  /\ UNCHANGED holder

Next ==
  \E e \in Entries :
    \/ Submit(e) \/ Again(e)
    \/ \E d \in Daemons : Take(e, d) \/ Inherit(e, d) \/ GiveBack(e, d) \/ End(e, d)

Spec == Init /\ [][Next]_vars
================================================================================
