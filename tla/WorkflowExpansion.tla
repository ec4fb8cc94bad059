--------------------------- MODULE WorkflowExpansion ---------------------------
(***************************************************************************)
(* Expanding a workflow's phases through the workflows it refers to,        *)
(* collecting those, and checking its publication contract on the result:   *)
(* animus-config-protocol, workflow_types.rs. The recursion is a stack of    *)
(* what is being expanded; a call that fails fails the whole.               *)
(***************************************************************************)
EXTENDS Naturals, FiniteSets, SequencesExt

CONSTANTS
  Configs, \* lists of workflows, and the definitions of their phases
  Folded,  \* Folded[id]: the id in lower case
  None

VARIABLES
  config,   \* the configuration at hand
  goal,     \* "expand" or "collect"
  stack,    \* workflows entered and not left, with the next of their phases
  active,   \* the names among which a reference is circular
  seen,     \* the names whose phases were looked at, when collecting
  result,   \* phases, or ids of workflows
  status    \* "called", "going", "done", "circular", "not found", then "valid" or "invalid"
vars == <<config, goal, stack, active, seen, result, status>>

\* A configuration's workflows are listed; an owner is the runner or a phase.
FlowConstants ==
  /\ None \notin Nat
  /\ \A c \in Configs :
       LET flow == c.workflows IN
       /\ flow \in Seq({flow[i] : i \in DOMAIN flow})
       /\ \A i \in DOMAIN flow :
            /\ flow[i].phases \in Seq({flow[i].phases[m] : m \in DOMAIN flow[i].phases})
            /\ \A m \in DOMAIN flow[i].phases : flow[i].phases[m].kind \in {"phase", "workflow"}
            /\ flow[i].publication # None /\ flow[i].publication.owner # None =>
                 flow[i].publication.owner.kind \in {"runner", "phase"}

\* The index of the first workflow of that name, None if there is none.
Found(ref) ==
  LET named == {i \in DOMAIN config.workflows : Folded[config.workflows[i].id] = Folded[ref]}
  IN  IF named = {} THEN None ELSE Min(named)

Frame(ref) == [name |-> Folded[ref], at |-> Found(ref), next |-> 1]

Phases(frame) == config.workflows[frame.at].phases

\* faulty: the names of all that was entered
EnterOnce(ref) ==
  IF Folded[ref] \in active \cup seen THEN status' = "circular" /\ UNCHANGED <<stack, active, seen, result>>
  ELSE IF Found(ref) = None THEN status' = "not found" /\ UNCHANGED <<stack, active, seen, result>>
  ELSE /\ stack' = Append(stack, Frame(ref))
       /\ active' = active \cup {Folded[ref]}
       /\ seen' = seen \cup {Folded[ref]}
       /\ result' = IF goal = "collect" THEN Append(result, config.workflows[Found(ref)].id) ELSE result
       /\ UNCHANGED status

\* The beginning of a call. What was collected already is left at once.
Enter(ref) ==
  LET again == goal = "collect" /\ Folded[ref] \in seen
      frame == Frame(ref)
  IN  IF Folded[ref] \in active
        THEN status' = "circular" /\ UNCHANGED <<stack, active, seen, result>>
      ELSE IF Found(ref) = None
        THEN status' = "not found" /\ UNCHANGED <<stack, active, seen, result>>
      ELSE
        /\ stack' = Append(stack, IF again THEN [frame EXCEPT !.next = Len(Phases(frame)) + 1] ELSE frame)
        /\ active' = active \cup {Folded[ref]}
        /\ seen' = IF goal = "collect" THEN seen \cup {Folded[ref]} ELSE seen
        /\ result' = IF goal = "collect" /\ ~again
                       THEN Append(result, config.workflows[Found(ref)].id) ELSE result
        /\ UNCHANGED status

Init ==
  /\ config \in Configs /\ goal \in {"expand", "collect"}
  /\ stack = <<>> /\ active = {} /\ seen = {} /\ result = <<>> /\ status = "called"

\* The whole is asked of the first workflow.
Call ==
  /\ status = "called" /\ config.workflows # <<>>
  /\ LET ref == config.workflows[1].id IN
     /\ stack' = <<Frame(ref)>>
     /\ active' = {Folded[ref]}
     /\ seen' = IF goal = "collect" THEN {Folded[ref]} ELSE {}
     /\ result' = IF goal = "collect" THEN <<ref>> ELSE <<>>
     /\ status' = "going"
  /\ UNCHANGED <<config, goal>>

Top == stack[Len(stack)]
More == status = "going" /\ stack # <<>> /\ Top.next <= Len(Phases(Top))

Advanced == [stack EXCEPT ![Len(stack)].next = @ + 1]

Phase ==
  /\ More /\ Phases(Top)[Top.next].kind = "phase"
  /\ stack' = Advanced
  /\ result' = IF goal = "expand" THEN Append(result, Phases(Top)[Top.next].id) ELSE result
  /\ UNCHANGED <<config, goal, active, seen, status>>

SubWorkflow ==
  /\ More /\ Phases(Top)[Top.next].kind = "workflow"
  /\ Enter(Phases(Top)[Top.next].id)
  /\ UNCHANGED <<config, goal>>

\* The end of a call; the caller goes on behind its reference.
Leave ==
  LET rest == Front(stack) IN
  /\ status = "going" /\ stack # <<>> /\ Top.next > Len(Phases(Top))
  /\ stack' = IF rest = <<>> THEN <<>> ELSE [rest EXCEPT ![Len(rest)].next = @ + 1]
  /\ active' = active \ {Top.name}
  /\ status' = IF rest = <<>> THEN "done" ELSE "going"
  /\ UNCHANGED <<config, goal, seen, result>>

OwnerOnce(owner) == Cardinality({i \in DOMAIN result : Folded[result[i]] = Folded[owner]}) = 1

\* How the owner is defined, and that it can emit a receipt: output_contract.kind,
\* and of a command what is parsed from its output.
Emits(owner) ==
  \E phase \in DOMAIN config.phases :
    /\ Folded[phase] = Folded[owner]
    /\ config.phases[phase].contract = "receipt"
    /\ \/ config.phases[phase].mode = "agent"
       \/ config.phases[phase].mode = "command" /\ config.phases[phase].parsed = "receipt"

\* validate_workflow_publication_contracts for the expanded workflow. An owner is
\* None, "runner", or the phase [phase |-> id].
PublicationValid(p) ==
  \/ ~p.required /\ p.owner = None
  \/ /\ p.required /\ p.owner # None
     /\ p.owner.kind = "phase" => OwnerOnce(p.owner.id) /\ Emits(p.owner.id)

Validate ==
  LET publication == config.workflows[1].publication IN
  /\ status = "done" /\ goal = "expand"
  /\ publication # None
  /\ status' = IF PublicationValid(publication) THEN "valid" ELSE "invalid"
  /\ UNCHANGED <<config, goal, stack, active, seen, result>>

Next == Call \/ Phase \/ SubWorkflow \/ Leave \/ Validate

Spec == Init /\ [][Next]_vars /\ WF_vars(Next)

--------------------------------------------------------------------------------
(* Properties.                                                             *)

Subs(i) == {Phases([at |-> i])[n].id : n \in {m \in DOMAIN config.workflows[i].phases :
              config.workflows[i].phases[m].kind = "workflow"}}

Names == {Folded[config.workflows[i].id] : i \in DOMAIN config.workflows}
         \cup {Folded[r] : r \in UNION {Subs(i) : i \in DOMAIN config.workflows}}

\* With a name, S has those that its workflow refers to.
Closed(S) ==
  \A i \in DOMAIN config.workflows :
    Found(config.workflows[i].id) = i /\ Folded[config.workflows[i].id] \in S =>
      \A r \in Subs(i) : Folded[r] \in S

\* The names that are referred to from the first workflow, in any number of steps.
Reachable ==
  {name \in Names : \A S \in SUBSET Names :
                     Folded[config.workflows[1].id] \in S /\ Closed(S) => name \in S}

Known ==
  LET reachable == Reachable
  IN  {i \in DOMAIN config.workflows :
         Found(config.workflows[i].id) = i /\ Folded[config.workflows[i].id] \in reachable}

\* Some workflows each refer to one of themselves, so none of them can come last.
Around(C) == \A i \in C : \E r \in Subs(i) : Found(r) \in C
Circular == \E C \in SUBSET Known : C # {} /\ Around(C)

Dangling == \E name \in Reachable : \A i \in DOMAIN config.workflows : Folded[config.workflows[i].id] # name

\* The first m phases of workflow i, what it refers to as expansions have it.
Joined(expansions, i, m) ==
  LET phases == config.workflows[i].phases
      upTo[k \in 0..Len(phases)] ==
        IF k = 0 THEN <<>>
        ELSE upTo[k - 1] \o
               (IF phases[k].kind = "phase" THEN <<phases[k].id>>
                ELSE IF Found(phases[k].id) = None THEN <<>>
                ELSE expansions[Found(phases[k].id)])
  IN  upTo[m]

\* The phases of every workflow, its references replaced by theirs, n deep.
Flat(n) ==
  LET deep[d \in 0..Len(config.workflows)] ==
        [i \in DOMAIN config.workflows |->
           IF d = 0 THEN <<>> ELSE Joined(deep[d - 1], i, Len(config.workflows[i].phases))]
  IN  deep[n]

Flattened == Flat(Len(config.workflows))[1]

\* What is refused is circular or refers to what is not there; shared and repeated
\* references are neither. What is accepted is the whole: every phase of every
\* reference, in place, or every workflow once.
ExpandsWhole ==
  /\ status = "circular" => Circular
  /\ status = "not found" => Dangling
  /\ status \in {"done", "valid", "invalid"} =>
       /\ ~Circular /\ ~Dangling
       /\ goal = "expand" => result = Flattened
       /\ goal = "collect" => /\ {Folded[result[i]] : i \in DOMAIN result} = Reachable
                              /\ IsInjective(result)

\* A workflow that must publish, and passed, ends with one receipt: whichever way
\* its phases are put together, the owner is there, once, and can emit it.
OneReceipt ==
  status = "valid" /\ config.workflows[1].publication.required =>
    LET owner == config.workflows[1].publication.owner
        Emitting(i) == Folded[Flattened[i]] = Folded[owner.id]
    IN  owner.kind = "runner" \/ Cardinality({i \in DOMAIN Flattened : Emitting(i)}) = 1
================================================================================
