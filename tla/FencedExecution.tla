---------------------------- MODULE FencedExecution ----------------------------
(***************************************************************************)
(* Queue entries under execution fences: several daemons lease, recover,    *)
(* give back and complete them through a queue that answers queue/v2, run   *)
(* them in runners and remote environments, and accept publication receipts *)
(* as proof. The queue plugin and the daemon are other repositories: their  *)
(* steps are what the types here say of them, the checks they make are the  *)
(* validators of ExecutionFence.                                            *)
(*                                                                         *)
(* Nothing that was handed out is ever forgotten: a request is made with    *)
(* any fence that was ever issued, so that daemons may be slow, partitioned *)
(* or dead, and requests late, repeated or lost, without a step of their    *)
(* own. A daemon that is restarted is another owner id.                     *)
(***************************************************************************)
EXTENDS ExecutionFence, FiniteSets

CONSTANTS
  Entries, Daemons, Workflows,
  Subjects,
  SubjectOf,  \* SubjectOf[e]: the qualified id of an entry's subject
  Reserved,   \* Reserved[e]: its repository reservation, or None
  Publishing, \* entries whose workflow has publication.required
  Proof,      \* a commit: object ids are not told apart
  MaxLease, MaxRun \* bounds on lease and workflow generations

ASSUME ConstantsOK ==
  /\ None \notin Daemons \cup Workflows \cup Entries
  /\ Blank \notin Daemons \cup Workflows \cup Entries
  /\ SubjectOf \in [Entries -> Subjects]
  /\ \A s \in Subjects : Qualified(s)
  /\ \A e \in Entries : Present(Reserved[e], RepositoryValid)
  /\ Publishing \subseteq Entries
  /\ Proof \in ObjectIds /\ None # Proof
  /\ {MaxLease, MaxRun} \subseteq Nat

VARIABLES
  entry,    \* the queue: one record for each entry
  lastGen,  \* lastGen[s]: the last generation allocated to subject s
  issued,   \* every fence the queue ever answered with
  receipts, \* every receipt a run ever published
  accepted  \* accepted[e]: the receipt that e was completed with
vars == <<entry, lastGen, issued, receipts, accepted>>

Statuses == {"absent", "pending", "held", "assigned", "done"}

\* The envelope of what e is being executed as.
FenceOf(e, row) ==
  [schema |-> "v1", workflow |-> row.workflow, workflowGen |-> row.workflowGen,
   subject |-> [id |-> SubjectOf[e], generation |-> row.subjectGen],
   lease |-> [entry |-> e, owner |-> row.owner, generation |-> row.leaseGen],
   repository |-> Reserved[e]]

\* The compare-and-swap of every fenced mutation.
Current(f) ==
  LET e == f.lease.entry IN
  entry[e].status = "assigned" /\ f = FenceOf(e, entry[e])

Receipt(f) ==
  [schema |-> "v1", workflow |-> f.workflow, workflowGen |-> f.workflowGen,
   subject |-> f.subject, commit |-> Proof, tree |-> Proof, observed |-> Proof,
   remote |-> "remote", remoteRef |-> f.repository.head, recoveryRef |-> "recovery",
   pr |-> None, issuer |-> [kind |-> "runner", component |-> "runner", version |-> "v"]]

Init ==
  /\ entry = [e \in Entries |->
       [status |-> "absent", subjectGen |-> 0, workflow |-> None, workflowGen |-> 0,
        owner |-> None, leaseGen |-> 0, expired |-> FALSE]]
  /\ lastGen = [s \in Subjects |-> 0]
  /\ issued = {} /\ receipts = {}
  /\ accepted = [e \in Entries |-> None]

--------------------------------------------------------------------------------
(* The queue. Repeating a producer's idempotency key changes nothing.      *)

Enqueue(e) ==
  LET s == SubjectOf[e] IN
  /\ entry[e].status = "absent"
  /\ EnqueueValid([subject |-> s, workflowRef |-> "ref", key |-> None, repository |-> Reserved[e]])
  /\ lastGen' = [lastGen EXCEPT ![s] = @ + 1]
  /\ entry' = [entry EXCEPT ![e].status = "pending", ![e].subjectGen = lastGen[s] + 1]
  /\ UNCHANGED <<issued, receipts, accepted>>

Hold(e) ==
  /\ entry[e].status = "pending"
  /\ entry' = [entry EXCEPT ![e].status = "held"]
  /\ UNCHANGED <<lastGen, issued, receipts, accepted>>

Release(e) ==
  /\ entry[e].status = "held"
  /\ entry' = [entry EXCEPT ![e].status = "pending"]
  /\ UNCHANGED <<lastGen, issued, receipts, accepted>>

Collides(e, other) ==
  /\ Reserved[e] # None /\ Reserved[other] # None
  /\ CollisionKey(Reserved[e]) = CollisionKey(Reserved[other])

SameSubjectGeneration(e, other) ==
  /\ SubjectOf[e] = SubjectOf[other]
  /\ entry[e].subjectGen = entry[other].subjectGen

\* Why a candidate is left where it is. An assignment that expired is still one.
LeaseBlocks(e) ==
  \E other \in Entries \ {e} :
    entry[other].status = "assigned" /\ (Collides(e, other) \/ SameSubjectGeneration(e, other))

\* An entry that owns a workflow id keeps it, and its generation.
WorkflowFor(e, w) ==
  IF entry[e].workflow # None THEN w = entry[e].workflow
  ELSE \A other \in Entries : entry[other].workflow # w

\* faulty: a lease after a return to pending reuses the generation
LeasedByAgain(e, d, w) ==
  [entry[e] EXCEPT !.status = "assigned", !.workflow = w,
                   !.workflowGen = IF @ = 0 THEN 1 ELSE @,
                   !.owner = d, !.leaseGen = IF @ = 0 THEN 1 ELSE @]

LeasedBy(e, d, w) ==
  [entry[e] EXCEPT !.status = "assigned", !.workflow = w,
                   !.workflowGen = IF @ = 0 THEN 1 ELSE @,
                   !.owner = d, !.leaseGen = @ + 1]

Lease(d, e, w) ==
  LET row == LeasedBy(e, d, w) IN
  /\ entry[e].status = "pending" /\ entry[e].leaseGen < MaxLease
  /\ LeaseRequestValid([max |-> 1, owner |-> d, workflows |-> <<w>>, exclude |-> {}])
  /\ ~LeaseBlocks(e) /\ WorkflowFor(e, w)
  /\ FencedEntryValid([id |-> e, workflow |-> w, subject |-> SubjectOf[e]], FenceOf(e, row))
  /\ entry' = [entry EXCEPT ![e] = row]
  /\ issued' = issued \cup {FenceOf(e, row)}
  /\ UNCHANGED <<lastGen, receipts, accepted>>

\* The backend's clock passes expires_at; renewals are what puts this off.
Expire(e) ==
  /\ entry[e].status = "assigned" /\ ~entry[e].expired
  /\ entry' = [entry EXCEPT ![e].expired = TRUE]
  /\ UNCHANGED <<lastGen, issued, receipts, accepted>>

RecoveredBy(e, d) ==
  [entry[e] EXCEPT !.owner = d, !.leaseGen = @ + 1, !.expired = FALSE]

\* With the fence of the block expired_lease_recovery_required, however old.
Recover(d, f) ==
  LET e == f.lease.entry
      row == RecoveredBy(e, d)
  IN
  /\ RecoverValid([execution |-> f, newOwner |-> d, ttl |-> None])
  /\ Current(f) /\ entry[e].expired /\ entry[e].leaseGen < MaxLease
  /\ entry' = [entry EXCEPT ![e] = row]
  /\ issued' = issued \cup {FenceOf(e, row)}
  /\ UNCHANGED <<lastGen, receipts, accepted>>

Freed(row, status) == [row EXCEPT !.status = status, !.owner = None, !.expired = FALSE]

ReturnToPending(f) ==
  LET e == f.lease.entry IN
  /\ ReleaseValid([execution |-> f, reason |-> "deferred"])
  /\ Current(f)
  /\ entry' = [entry EXCEPT ![e] = Freed(@, "pending")]
  /\ UNCHANGED <<lastGen, issued, receipts, accepted>>

\* A workflow that must publish is completed only with a receipt that the
\* daemon has validated against its fence. The queue does not see the receipt.
Complete(f, status, p) ==
  LET e == f.lease.entry IN
  /\ CompletionValid([execution |-> f, status |-> status])
  /\ IF status = "completed" /\ e \in Publishing
       THEN p \in receipts /\ ReceiptAgainst(p, f)
       ELSE p = None
  /\ Current(f)
  /\ entry' = [entry EXCEPT ![e] = Freed(@, "done")]
  /\ accepted' = [accepted EXCEPT ![e] = p]
  /\ UNCHANGED <<lastGen, issued, receipts>>

\* An intentional new execution of the same workflow.
Rerun(e) ==
  LET s == SubjectOf[e] IN
  /\ entry[e].status = "done" /\ entry[e].workflowGen < MaxRun
  /\ lastGen' = [lastGen EXCEPT ![s] = @ + 1]
  /\ entry' = [entry EXCEPT ![e].status = "pending", ![e].workflowGen = @ + 1,
                            ![e].subjectGen = lastGen[s] + 1]
  /\ accepted' = [accepted EXCEPT ![e] = None]
  /\ UNCHANGED <<issued, receipts>>

--------------------------------------------------------------------------------
(* A run, in a runner or in the environment it was delegated to. It goes on *)
(* whatever becomes of the lease.                                           *)

Publish(f) ==
  /\ Coding(f)
  /\ ExecuteValid([workflow |-> f.workflow, fence |-> f], TRUE)
  /\ SessionValid([workflow |-> f.workflow, subject |-> SubjectOf[f.lease.entry], fence |-> f], TRUE)
  /\ receipts' = receipts \cup {Receipt(f)}
  /\ UNCHANGED <<entry, lastGen, issued, accepted>>

QueueStep(e) ==
  \/ Enqueue(e) \/ Hold(e) \/ Release(e) \/ Expire(e) \/ Rerun(e)
  \/ \E d \in Daemons, w \in Workflows : Lease(d, e, w)

Next ==
  \/ \E e \in Entries : QueueStep(e)
  \/ \E f \in issued :
       \/ \E d \in Daemons : Recover(d, f)
       \/ ReturnToPending(f)
       \/ \E status \in Terminal, p \in receipts \cup {None} : Complete(f, status, p)
       \/ Publish(f)

Spec == Init /\ [][Next]_vars

--------------------------------------------------------------------------------
(* Properties.                                                             *)

Rows == [status : Statuses, subjectGen : Nat, workflow : Workflows \cup {None}, workflowGen : Nat,
         owner : Daemons \cup {None}, leaseGen : Nat, expired : BOOLEAN]

Fences == [schema : {"v1"}, workflow : Workflows, workflowGen : Nat \ {0},
           subject : [id : Subjects, generation : Nat \ {0}],
           lease : [entry : Entries, owner : Daemons, generation : Nat \ {0}],
           repository : {Reserved[e] : e \in Entries}]

\* The types of the queue and of every fence it issued; receipts are of runs under one.
TypeOK ==
  /\ entry \in [Entries -> Rows]
  /\ lastGen \in [Subjects -> Nat]
  /\ issued \subseteq Fences
  /\ \A p \in receipts : \E f \in issued : f.repository # None /\ p = Receipt(f)
  /\ accepted \in [Entries -> receipts \cup {None}]

\* A fence that has lost its authority never regains it: not when its entry is
\* given back and leased by the same daemon again, not when it is recovered to
\* and fro between two, not in a later run of the same workflow.
StaleForever == [][\A f \in issued : ~Current(f) => ~Current(f)']_vars

\* However repositories are spelled, and whatever expires, changes hands, is
\* held or given back: the right to write one ref of one repository is never out
\* twice.
OneHolderPerRef ==
  \A e, other \in {x \in Entries : entry[x].status = "assigned" /\ Reserved[x] # None} :
    /\ Folded[Reserved[e].repository] = Folded[Reserved[other].repository]
    /\ Reserved[e].head = Reserved[other].head
    => e = other

\* What the receipt accepted for e proves: the generation, if it is of e at all.
Proven(e) ==
  CASE accepted[e] = None -> 0
    [] accepted[e] # None /\ accepted[e].workflow = entry[e].workflow
         /\ accepted[e].subject = [id |-> SubjectOf[e], generation |-> entry[e].subjectGen]
           -> accepted[e].workflowGen
    [] OTHER -> MaxRun + 1

Stage(e) ==
  CASE entry[e].status \in {"pending", "held"} -> "waiting"
    [] entry[e].status = "assigned" -> "running"
    [] OTHER -> entry[e].status

Execution == INSTANCE OneExecution WITH
  stage <- [e \in Entries |-> Stage(e)],
  holder <- [e \in Entries |-> entry[e].owner],
  gen <- [e \in Entries |-> entry[e].workflowGen],
  proof <- [e \in Entries |-> Proven(e)]

\* Fences of dead, slow and restarted daemons, receipts of earlier runs and
\* requests that arrive late never come between: each entry is executed as
\* OneExecution says.
ExecutionSpec == Execution!Spec
================================================================================
