---------------------------- MODULE ExecutionFence ----------------------------
(***************************************************************************)
(* The identity under which work is executed, and what each boundary checks *)
(* of it: animus-execution-protocol, and the validators of the queue,       *)
(* workflow-runner and environment protocols. A validator is a predicate;   *)
(* which message it fails with is left out. An absent Option is None; Blank *)
(* is any text that trims to nothing. An id such as task:TASK-1 is the      *)
(* sequence of what lies between its colons.                                *)
(***************************************************************************)
EXTENDS Naturals, Sequences

CONSTANTS
  None,      \* an Option without a value
  Blank,     \* text that is empty once trimmed
  SafeRefs,  \* what validate_git_ref accepts: refs/..., no "..", no final "/"
  ObjectIds, \* what is_git_object_id accepts
  Folded     \* Folded[r]: repository r trimmed and in lower case

Present(value, Valid(_)) == value # None => Valid(value)

--------------------------------------------------------------------------------
(* Parts of a fence.                                                       *)

Qualified(id) ==
  /\ Len(id) >= 2
  /\ id[1] # Blank
  /\ Len(id) = 2 => id[2] # Blank

SubjectValid(s) == Qualified(s.id) /\ s.generation > 0

RepositoryValid(r) ==
  /\ r.repository # Blank
  /\ {r.base, r.head} \subseteq SafeRefs
  /\ r.base # r.head

\* faulty: the repository as it is spelled
CollisionKeySpelled(r) == <<r.repository, r.head>>

\* Base refs do not collide: two executions may start from one.
CollisionKey(r) == <<Folded[r.repository], r.head>>

LeaseValid(l) == Blank \notin {l.entry, l.owner} /\ l.generation > 0

FenceValid(f) ==
  /\ f.schema = "v1"
  /\ f.workflow # Blank /\ f.workflowGen > 0
  /\ Present(f.subject, SubjectValid)
  /\ Present(f.lease, LeaseValid)
  /\ Present(f.repository, RepositoryValid)

QueueBacked(f) == FenceValid(f) /\ f.lease # None

Coding(f) == QueueBacked(f) /\ f.subject # None /\ f.repository # None

SameExecution(f, g) ==
  <<f.workflow, f.workflowGen, f.subject>> = <<g.workflow, g.workflowGen, g.subject>>

--------------------------------------------------------------------------------
(* The queue's requests.                                                   *)

\* A qualified id names a subject that may be given without its kind.
Names(id, subject) ==
  \/ id = subject
  \/ \E n \in 1..Len(id) - 1 : SubSeq(id, n + 1, Len(id)) = subject

EnqueueValid(r) ==
  /\ r.subject # None /\ r.workflowRef # Blank
  /\ r.key # Blank
  /\ Present(r.repository, RepositoryValid)

FencedEntryValid(entry, f) ==
  /\ QueueBacked(f)
  /\ f.lease.entry = entry.id
  /\ f.workflow = entry.workflow
  /\ f.subject # None => Names(f.subject.id, entry.subject)

LeaseRequestValid(r) ==
  /\ r.max > 0 /\ r.owner # Blank
  /\ Len(r.workflows) = r.max
  /\ \A i, j \in 1..Len(r.workflows) :
       r.workflows[i] # Blank /\ (r.workflows[i] = r.workflows[j] => i = j)
  /\ \A f \in r.exclude : FenceValid(f)

RenewValid(r) == QueueBacked(r.execution) /\ r.ttl # 0

RecoverValid(r) ==
  /\ QueueBacked(r.execution)
  /\ r.newOwner \notin {Blank, r.execution.lease.owner}
  /\ r.ttl # 0

Terminal == {"completed", "failed", "cancelled"}

CompletionValid(r) == QueueBacked(r.execution) /\ r.status \in Terminal

ReleaseValid(r) == QueueBacked(r.execution) /\ r.reason # Blank

--------------------------------------------------------------------------------
(* Runner, phase and environment: the fence is optional unless required.   *)

ExecuteValid(r, required) ==
  IF r.fence = None THEN ~required
  ELSE FenceValid(r.fence) /\ r.workflow = r.fence.workflow

\* The same of a phase, whose workflow id is not optional.
PhaseValid(r, required) ==
  IF r.fence = None THEN ~required
  ELSE FenceValid(r.fence) /\ r.workflow = r.fence.workflow

SessionValid(r, required) ==
  /\ ExecuteValid(r, required)
  /\ r.fence # None /\ r.fence.subject # None => Names(r.fence.subject.id, r.subject)

--------------------------------------------------------------------------------
(* Publication receipts.                                                   *)

PullRequestValid(p, commit) ==
  /\ p.number > 0 /\ p.url # Blank
  /\ p.head \in ObjectIds /\ p.head = commit

IssuerValid(i) ==
  /\ Blank \notin {i.component, i.version}
  /\ i.kind = "phase" => i.phase # Blank

ReceiptValid(p) ==
  /\ p.schema = "v1"
  /\ Blank \notin {p.workflow, p.remote, p.remoteRef, p.recoveryRef}
  /\ p.workflowGen > 0 /\ SubjectValid(p.subject)
  /\ {p.commit, p.tree, p.observed} \subseteq ObjectIds
  /\ p.observed = p.commit
  /\ p.pr # None => PullRequestValid(p.pr, p.commit)
  /\ IssuerValid(p.issuer)

\* faulty: the generation of the workflow is not compared
ReceiptAgainstAny(p, f) ==
  /\ ReceiptValid(p) /\ FenceValid(f)
  /\ p.workflow = f.workflow
  /\ f.subject # None /\ p.subject.id = f.subject.id
  /\ f.repository # None => p.remoteRef = f.repository.head

\* A receipt that is valid in itself may still prove another execution.
ReceiptAgainst(p, f) ==
  /\ ReceiptValid(p) /\ FenceValid(f)
  /\ p.workflow = f.workflow /\ p.workflowGen = f.workflowGen
  /\ f.subject # None /\ p.subject = f.subject
  /\ f.repository # None => p.remoteRef = f.repository.head
================================================================================
