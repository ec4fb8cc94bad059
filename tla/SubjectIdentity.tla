---------------------------- MODULE SubjectIdentity ----------------------------
(***************************************************************************)
(* A subject on its way from whoever dispatches it, through queues and      *)
(* processes, to the input of its run: SubjectRef and its two forms on the   *)
(* wire, SubjectDispatch and WorkflowRunInput. What is told apart of a text  *)
(* is whether it is another one: Folded[k] is a kind in lower case, and      *)
(* Scheduled[id] what follows schedule: in an id that begins with it.        *)
(***************************************************************************)
EXTENDS Naturals

CONSTANTS Kinds, Texts, Folded, Scheduled, None, MaxHops

TASK == "animus.task"
REQUIREMENT == "animus.requirement"
CUSTOM == "custom"
BuiltIn == {TASK, REQUIREMENT, CUSTOM}

\* SubjectRef. Labels and other metadata are told apart by whether there are any.
Refs == [kind : Kinds, id : Texts, title : Texts \cup {None}, description : Texts \cup {None},
         labelled : BOOLEAN, metadata : {"null", "{}", "some"}]

SubjectConstants ==
  /\ BuiltIn \subseteq Kinds
  /\ Folded \in [Kinds -> Kinds] /\ \A k \in BuiltIn : Folded[k] = k
  /\ "" \in Texts /\ None \notin Texts \cup Refs
  /\ DOMAIN Scheduled \subseteq Texts

VARIABLES
  sent,     \* the subject as it was dispatched, None before
  dispatch, \* the dispatch's subject as the last process has it
  input,    \* the run's input, None before it is made
  hops
vars == <<sent, dispatch, input, hops>>

--------------------------------------------------------------------------------
(* SubjectRef.                                                             *)

Ref(kind, id) ==
  [kind |-> kind, id |-> id, title |-> None, description |-> None,
   labelled |-> FALSE, metadata |-> "{}"]

Task(id) == Ref(TASK, id)
Requirement(id) == Ref(REQUIREMENT, id)
Custom(title, description) ==
  [Ref(CUSTOM, title) EXCEPT !.title = title, !.description = description]

IsKind(ref, kind) == Folded[ref.kind] = kind

IdIf(ref, kind) == IF IsKind(ref, kind) THEN ref.id ELSE None
TaskId(ref) == IdIf(ref, TASK)
RequirementId(ref) == IdIf(ref, REQUIREMENT)
ScheduleId(ref) ==
  IF IsKind(ref, CUSTOM) /\ ref.id \in DOMAIN Scheduled THEN Scheduled[ref.id] ELSE None

\* faulty: the kind as it is spelled
SubjectKeySpelled(ref) == IF ref.kind \in BuiltIn THEN <<ref.id>> ELSE <<ref.kind, ref.id>>

SubjectKey(ref) == IF Folded[ref.kind] \in BuiltIn THEN <<ref.id>> ELSE <<ref.kind, ref.id>>

OrElse(value, default) == IF value = None THEN default ELSE value

ToWorkflowSubject(ref) ==
  IF IsKind(ref, TASK) THEN [form |-> "Task", id |-> ref.id]
  ELSE IF IsKind(ref, REQUIREMENT) THEN [form |-> "Requirement", id |-> ref.id]
  ELSE [form |-> "Custom", title |-> OrElse(ref.title, ref.id),
        description |-> OrElse(ref.description, "")]

FromWorkflowSubject(subject) ==
  CASE subject.form = "Task" -> Task(subject.id)
    [] subject.form = "Requirement" -> Requirement(subject.id)
    [] subject.form = "Custom" -> Custom(subject.title, subject.description)

CanSerializeAsLegacy(ref) ==
  /\ ~ref.labelled /\ ref.metadata \in {"null", "{}"}
  /\ Folded[ref.kind] \in BuiltIn

\* Empty metadata is left out and read as an empty object.
ToWire(ref) ==
  IF CanSerializeAsLegacy(ref) THEN ToWorkflowSubject(ref)
  ELSE [form |-> "Generic",
        ref |-> [ref EXCEPT !.metadata = IF @ = "null" THEN "{}" ELSE @]]

FromWire(wire) == IF wire.form = "Generic" THEN wire.ref ELSE FromWorkflowSubject(wire)

Crossed(ref) == IF ref = None THEN None ELSE FromWire(ToWire(ref))

--------------------------------------------------------------------------------
(* WorkflowRunInput. A subjectless one has empty fields.                   *)

ForSubject(ref) ==
  [subject |-> ref, task_id |-> OrElse(TaskId(ref), ""), requirement_id |-> RequirementId(ref),
   title |-> ref.title, description |-> ref.description]

Subjectless ==
  [subject |-> None, task_id |-> "", requirement_id |-> None, title |-> None, description |-> None]

\* The kind is compared as it is spelled here.
ToWorkflowRunInput(ref) ==
  LET made == CASE ref = None -> Subjectless
                [] ref # None /\ ref.kind = TASK -> ForSubject(Task(ref.id))
                [] ref # None /\ ref.kind = REQUIREMENT -> ForSubject(Requirement(ref.id))
                [] OTHER -> ForSubject(Custom(OrElse(ref.title, ref.id),
                                              OrElse(ref.description, "")))
  IN  [made EXCEPT !.subject = ref]

--------------------------------------------------------------------------------
Init == sent = None /\ dispatch = None /\ input = None /\ hops = 0

\* SubjectDispatch::for_subject_with_metadata, with any subject of which the
\* fields are public, and SubjectDispatch::subjectless.
Dispatch(ref) ==
  /\ hops = 0
  /\ sent' = ref /\ dispatch' = ref /\ hops' = 1
  /\ UNCHANGED input

\* The dispatch, or the input, is written by one process and read by the next.
Cross ==
  /\ hops \in 1..MaxHops
  /\ hops' = hops + 1
  /\ IF input = None
       THEN dispatch' = Crossed(dispatch) /\ UNCHANGED input
       ELSE input' = [input EXCEPT !.subject = Crossed(@)] /\ UNCHANGED dispatch
  /\ UNCHANGED sent

MakeInput ==
  /\ hops > 0 /\ input = None
  /\ input' = ToWorkflowRunInput(dispatch)
  /\ UNCHANGED <<sent, dispatch, hops>>

Next == (\E ref \in Refs \cup {None} : Dispatch(ref)) \/ Cross \/ MakeInput

Spec == Init /\ [][Next]_vars

--------------------------------------------------------------------------------
(* Properties.                                                             *)

Identity(ref) ==
  IF ref = None THEN <<>> ELSE <<SubjectKey(ref), TaskId(ref), RequirementId(ref), ScheduleId(ref)>>

\* The legacy form of a custom subject holds its title and not its id.
Titled(ref) ==
  /\ ref # None /\ CanSerializeAsLegacy(ref)
  /\ IsKind(ref, CUSTOM) /\ ref.title \notin {None, ref.id}

\* However often a subject crosses in whichever form, spelled in whatever case,
\* with or without labels, what queues and runners know it by does not change:
\* but for a custom subject whose id is not its title.
IdentitySurvives ==
  LET last == IF input = None THEN dispatch ELSE input.subject
  IN  ~Titled(sent) => Identity(last) = Identity(sent)

\* A run knows its subject, in the subject it carries and in the fields made
\* of it, as the dispatch did, if the kind has its canonical spelling.
RunKnowsSubject ==
  input # None =>
    /\ Crossed(input.subject) = Crossed(dispatch)
    /\ (dispatch # None /\ Folded[dispatch.kind] \in BuiltIn => dispatch.kind \in BuiltIn) =>
         /\ input.task_id = IF dispatch = None THEN "" ELSE OrElse(TaskId(dispatch), "")
         /\ input.requirement_id = IF dispatch = None THEN None ELSE RequirementId(dispatch)
================================================================================
