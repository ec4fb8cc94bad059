------------------------ MODULE FencedExecution_proofs ------------------------
(***************************************************************************)
(* Theorems about FencedExecution for every set of entries, daemons and     *)
(* workflows, every reservation, and any number of leases and runs: stale   *)
(* fences stay stale, a ref has one holder, and the queue implements        *)
(* OneExecution.                                                            *)
(***************************************************************************)
EXTENDS FencedExecution, TLAPS

\* What the columns of a row say of one another.
RowOK(row) ==
  /\ row.status = "absent" =>
       row.workflow = None /\ row.workflowGen = 0 /\ row.subjectGen = 0
  /\ row.status # "absent" => row.subjectGen > 0
  /\ row.workflow # None <=> row.workflowGen > 0
  /\ row.status \in {"assigned", "done"} => row.workflow # None
  /\ row.status = "assigned" <=> row.owner # None
  /\ row.status = "assigned" => row.leaseGen > 0

\* The lease generation of an entry has reached that of every fence issued for it.
Behind == \A f \in issued : f.lease.generation <= entry[f.lease.entry].leaseGen

\* Only what is done has been proved.
ProvedAtEnd == \A e \in Entries : accepted[e] # None => entry[e].status = "done"

IInv == /\ TypeOK
        /\ \A e \in Entries : RowOK(entry[e])
        /\ Behind
        /\ ProvedAtEnd
        /\ OneHolderPerRef

\* A step of e, to the given row: a row that is not assigned keeps its lease
\* generation, one that is leased or recovered takes the next, and one that
\* merely expires keeps its fence.
Turn(e, row) ==
  \/ row.status # "assigned" /\ row.leaseGen = entry[e].leaseGen
  \/ /\ row.status = "assigned" /\ row.leaseGen = entry[e].leaseGen + 1
     /\ entry[e].status = "assigned" \/ ~LeaseBlocks(e)
  \/ entry[e].status = "assigned" /\ row = [entry[e] EXCEPT !.expired = TRUE]

Moves(e, row) ==
  /\ row \in Rows /\ RowOK(row) /\ Turn(e, row)
  /\ entry' = [entry EXCEPT ![e] = row]
  /\ lastGen' \in [Subjects -> Nat]
  /\ \/ issued' = issued
     \/ row.status = "assigned" /\ issued' = issued \cup {FenceOf(e, row)}
  /\ receipts' = receipts
  /\ accepted' \in [Entries -> receipts \cup {None}]
  /\ \A x \in Entries \ {e} : accepted'[x] = accepted[x]
  /\ accepted'[e] # None => row.status = "done"

--------------------------------------------------------------------------------
(* Each action of the queue moves one entry.                               *)

\* What the steps need of the constants.
LEMMA ConstantsTyped ==
  None \notin Daemons \cup Workflows /\ SubjectOf \in [Entries -> Subjects]
BY ConstantsOK DEF ConstantsOK

\* What is waiting for its first or next execution.
LEMMA WaitingRow ==
  ASSUME NEW r \in Rows, RowOK(r), r.status \in {"absent", "done"},
         NEW n \in Nat \ {0}, NEW g \in Nat, g > 0 <=> r.workflow # None
  PROVE  LET row == [r EXCEPT !.status = "pending", !.workflowGen = g, !.subjectGen = n]
         IN  row \in Rows /\ RowOK(row)
<1> DEFINE row == [r EXCEPT !.status = "pending", !.workflowGen = g, !.subjectGen = n]
<1>1. row \in Rows
  BY DEF Rows, Statuses
<1>2. RowOK(row)
  BY DEF Rows, Statuses, RowOK
<1> QED
  BY <1>1, <1>2

\* A leased row.
LEMMA LeasedRow ==
  ASSUME NEW e \in Entries, entry[e] \in Rows, RowOK(entry[e]), entry[e].status = "pending",
         NEW d \in Daemons, NEW w \in Workflows
  PROVE  /\ LeasedBy(e, d, w) \in Rows /\ RowOK(LeasedBy(e, d, w))
         /\ LeasedBy(e, d, w).status = "assigned"
         /\ LeasedBy(e, d, w).leaseGen = entry[e].leaseGen + 1
<1> DEFINE r == entry[e]
           n == r.leaseGen + 1
           g == IF r.workflowGen = 0 THEN 1 ELSE r.workflowGen
           row == [r EXCEPT !.status = "assigned", !.workflow = w, !.workflowGen = g,
                            !.owner = d, !.leaseGen = n]
<1>1. n \in Nat \ {0} /\ g \in Nat \ {0} /\ r \in Rows /\ RowOK(r) /\ r.status = "pending"
  BY DEF Rows
<1>2. LeasedBy(e, d, w) = row
  BY DEF LeasedBy
<1>3. row \in Rows /\ RowOK(row) /\ row.status = "assigned" /\ row.leaseGen = n
  <2> HIDE DEF n, g, r
  <2>1. row \in Rows /\ row.status = "assigned" /\ row.leaseGen = n
    BY <1>1 DEF Rows, Statuses
  <2>2. RowOK(row)
    BY <1>1, ConstantsTyped DEF Rows, Statuses, RowOK
  <2> QED
    BY <2>1, <2>2
<1> QED
  BY <1>2, <1>3

\* A row that changed hands.
LEMMA RecoveredRow ==
  ASSUME NEW e \in Entries, entry[e] \in Rows, RowOK(entry[e]), entry[e].status = "assigned",
         NEW d \in Daemons
  PROVE  /\ RecoveredBy(e, d) \in Rows /\ RowOK(RecoveredBy(e, d))
         /\ RecoveredBy(e, d).status = "assigned"
         /\ RecoveredBy(e, d).leaseGen = entry[e].leaseGen + 1
<1> DEFINE r == entry[e]
           n == r.leaseGen + 1
           row == [r EXCEPT !.owner = d, !.leaseGen = n, !.expired = FALSE]
<1>1. n \in Nat \ {0} /\ r \in Rows /\ RowOK(r) /\ r.status = "assigned"
  BY DEF Rows
<1>2. RecoveredBy(e, d) = row
  BY DEF RecoveredBy
<1>3. row \in Rows /\ RowOK(row) /\ row.status = "assigned" /\ row.leaseGen = n
  <2> HIDE DEF n, r
  <2>1. row \in Rows /\ row.status = "assigned" /\ row.leaseGen = n
    BY <1>1 DEF Rows, Statuses
  <2>2. RowOK(row)
    BY <1>1, ConstantsTyped DEF Rows, Statuses, RowOK
  <2> QED
    BY <2>1, <2>2
<1> QED
  BY <1>2, <1>3

LEMMA Enqueues ==
  ASSUME IInv, NEW e \in Entries, Enqueue(e)
  PROVE  \E row : Moves(e, row)
<1> DEFINE n == lastGen[SubjectOf[e]] + 1
           row == [entry[e] EXCEPT !.status = "pending", !.workflowGen = entry[e].workflowGen,
                                   !.subjectGen = n]
<1>1. entry[e] \in Rows /\ RowOK(entry[e]) /\ entry[e].status = "absent"
  BY DEF IInv, TypeOK, Enqueue
<1>2. lastGen[SubjectOf[e]] \in Nat /\ n \in Nat \ {0} /\ lastGen \in [Subjects -> Nat]
  BY ConstantsTyped DEF IInv, TypeOK
<1>3. entry' = [entry EXCEPT ![e] = row] /\ lastGen' = [lastGen EXCEPT ![SubjectOf[e]] = n]
  BY <1>1 DEF Enqueue, IInv, TypeOK, Rows
<1>4. row \in Rows /\ RowOK(row) /\ Turn(e, row)
  <2> HIDE DEF n
  <2>1. row \in Rows /\ RowOK(row)
    BY <1>1, <1>2, WaitingRow DEF Rows, RowOK
  <2> QED
    BY <1>1, <2>1 DEF Rows, Turn
<1>5. lastGen' \in [Subjects -> Nat]
  <2> HIDE DEF n
  <2> QED
    BY <1>2, <1>3
<1>6. accepted[e] = None
  BY <1>1 DEF IInv, ProvedAtEnd
<1>7. UNCHANGED <<issued, receipts, accepted>>
  BY DEF Enqueue
<1>8. Moves(e, row)
  BY <1>3, <1>4, <1>5, <1>6, <1>7 DEF Moves, IInv, TypeOK
<1> QED
  BY <1>8

LEMMA HoldsOrReleases ==
  ASSUME IInv, NEW e \in Entries, Hold(e) \/ Release(e)
  PROVE  \E row : Moves(e, row)
<1> PICK s \in {"pending", "held"} :
      entry[e].status \in {"pending", "held"} /\ entry' = [entry EXCEPT ![e].status = s]
  BY DEF Hold, Release
<1> DEFINE row == [entry[e] EXCEPT !.status = s]
<1> USE ConstantsTyped
<1>1. entry[e] \in Rows /\ RowOK(entry[e])
  BY DEF IInv, TypeOK
<1>2. row \in Rows /\ RowOK(row) /\ Turn(e, row)
  BY <1>1 DEF Rows, Statuses, RowOK, Turn
<1>3. entry' = [entry EXCEPT ![e] = row]
  BY <1>1 DEF IInv, TypeOK, Rows
<1>4. accepted[e] = None
  BY DEF IInv, ProvedAtEnd
<1>5. Moves(e, row)
  BY <1>2, <1>3, <1>4 DEF Moves, Hold, Release, IInv, TypeOK
<1> QED
  BY <1>5

LEMMA Leases ==
  ASSUME IInv, NEW e \in Entries, NEW d \in Daemons, NEW w \in Workflows, Lease(d, e, w)
  PROVE  Moves(e, LeasedBy(e, d, w))
<1> DEFINE row == LeasedBy(e, d, w)
<1>1. entry[e] \in Rows /\ RowOK(entry[e]) /\ entry[e].status = "pending"
  BY DEF IInv, TypeOK, Lease
<1>2. /\ entry' = [entry EXCEPT ![e] = row]
      /\ issued' = issued \cup {FenceOf(e, row)}
      /\ UNCHANGED <<lastGen, receipts, accepted>> /\ ~LeaseBlocks(e)
  BY DEF Lease
<1>3. row \in Rows /\ RowOK(row) /\ row.status = "assigned"
      /\ row.leaseGen = entry[e].leaseGen + 1
  BY <1>1, LeasedRow
<1>4. accepted[e] = None
  BY <1>1 DEF IInv, ProvedAtEnd
<1> QED
  BY <1>2, <1>3, <1>4 DEF Moves, Turn, IInv, TypeOK

LEMMA Expires ==
  ASSUME IInv, NEW e \in Entries, Expire(e)
  PROVE  \E row : Moves(e, row)
<1> DEFINE row == [entry[e] EXCEPT !.expired = TRUE]
<1> USE ConstantsTyped
<1>1. entry[e] \in Rows /\ RowOK(entry[e]) /\ entry[e].status = "assigned"
  BY DEF IInv, TypeOK, Expire
<1>2. row \in Rows /\ RowOK(row) /\ Turn(e, row)
  BY <1>1 DEF Rows, Statuses, RowOK, Turn
<1>3. entry' = [entry EXCEPT ![e] = row]
  BY <1>1 DEF Expire, IInv, TypeOK, Rows
<1>4. accepted[e] = None
  BY <1>1 DEF IInv, ProvedAtEnd
<1>5. Moves(e, row)
  BY <1>2, <1>3, <1>4 DEF Moves, Expire, IInv, TypeOK
<1> QED
  BY <1>5

LEMMA Recovers ==
  ASSUME IInv, NEW d \in Daemons, NEW f \in issued, Recover(d, f)
  PROVE  f.lease.entry \in Entries /\ Moves(f.lease.entry, RecoveredBy(f.lease.entry, d))
<1> DEFINE e == f.lease.entry
           row == RecoveredBy(e, d)
<1>1. e \in Entries
  BY DEF IInv, TypeOK, Fences
<1>2. entry[e] \in Rows /\ RowOK(entry[e]) /\ entry[e].status = "assigned"
  BY <1>1 DEF IInv, TypeOK, Recover, Current
<1>3. /\ entry' = [entry EXCEPT ![e] = row]
      /\ issued' = issued \cup {FenceOf(e, row)}
      /\ UNCHANGED <<lastGen, receipts, accepted>>
  BY DEF Recover
<1>4. row \in Rows /\ RowOK(row) /\ row.status = "assigned"
      /\ row.leaseGen = entry[e].leaseGen + 1
  BY <1>1, <1>2, RecoveredRow
<1>5. accepted[e] = None
  BY <1>1, <1>2 DEF IInv, ProvedAtEnd
<1> QED
  BY <1>1, <1>2, <1>3, <1>4, <1>5 DEF Moves, Turn, IInv, TypeOK

LEMMA Returns ==
  ASSUME IInv, NEW f \in issued, ReturnToPending(f)
  PROVE  f.lease.entry \in Entries /\ \E row : Moves(f.lease.entry, row)
<1> DEFINE e == f.lease.entry
           row == Freed(entry[e], "pending")
<1> USE ConstantsTyped
<1>1. e \in Entries
  BY DEF IInv, TypeOK, Fences
<1>2. entry[e] \in Rows /\ RowOK(entry[e]) /\ entry[e].status = "assigned"
  BY <1>1 DEF IInv, TypeOK, ReturnToPending, Current
<1>3. row \in Rows /\ RowOK(row) /\ Turn(e, row)
  BY <1>2 DEF Rows, Statuses, RowOK, Turn, Freed
<1>4. accepted[e] = None
  BY <1>1, <1>2 DEF IInv, ProvedAtEnd
<1>5. entry' = [entry EXCEPT ![e] = row]
  BY DEF ReturnToPending
<1>6. Moves(e, row)
  BY <1>3, <1>4, <1>5 DEF Moves, ReturnToPending, IInv, TypeOK
<1> QED
  BY <1>1, <1>6

LEMMA Completes ==
  ASSUME IInv, NEW f \in issued, NEW status \in Terminal, NEW p \in receipts \cup {None},
         Complete(f, status, p)
  PROVE  f.lease.entry \in Entries /\ \E row : Moves(f.lease.entry, row)
<1> DEFINE e == f.lease.entry
           row == Freed(entry[e], "done")
<1> USE ConstantsTyped
<1>1. e \in Entries
  BY DEF IInv, TypeOK, Fences
<1>2. entry[e] \in Rows /\ RowOK(entry[e]) /\ entry[e].status = "assigned"
  BY <1>1 DEF IInv, TypeOK, Complete, Current
<1>3. row \in Rows /\ RowOK(row) /\ Turn(e, row) /\ row.status = "done"
  BY <1>2 DEF Rows, Statuses, RowOK, Turn, Freed
<1>4. entry' = [entry EXCEPT ![e] = row] /\ accepted' = [accepted EXCEPT ![e] = p]
  BY DEF Complete
<1>5. Moves(e, row)
  BY <1>1, <1>3, <1>4 DEF Moves, Complete, IInv, TypeOK
<1> QED
  BY <1>1, <1>5

LEMMA Reruns ==
  ASSUME IInv, NEW e \in Entries, Rerun(e)
  PROVE  \E row : Moves(e, row)
<1> DEFINE n == lastGen[SubjectOf[e]] + 1
           g == entry[e].workflowGen + 1
           row == [entry[e] EXCEPT !.status = "pending", !.workflowGen = g, !.subjectGen = n]
<1>1. entry[e] \in Rows /\ RowOK(entry[e]) /\ entry[e].status = "done"
  BY DEF IInv, TypeOK, Rerun
<1>2. lastGen[SubjectOf[e]] \in Nat /\ n \in Nat \ {0} /\ lastGen \in [Subjects -> Nat]
  BY ConstantsTyped DEF IInv, TypeOK
<1>3. g \in Nat /\ g > 0 /\ entry[e].workflow # None
  BY <1>1 DEF Rows, RowOK
<1>4. entry' = [entry EXCEPT ![e] = row] /\ lastGen' = [lastGen EXCEPT ![SubjectOf[e]] = n]
      /\ accepted' = [accepted EXCEPT ![e] = None] /\ UNCHANGED <<issued, receipts>>
  BY <1>1 DEF Rerun, IInv, TypeOK, Rows
<1>5. row \in Rows /\ RowOK(row) /\ Turn(e, row)
  <2> HIDE DEF n, g
  <2>1. row \in Rows /\ RowOK(row)
    BY <1>1, <1>2, <1>3, WaitingRow
  <2> QED
    BY <1>1, <2>1 DEF Rows, Turn
<1>6. lastGen' \in [Subjects -> Nat]
  <2> HIDE DEF n
  <2> QED
    BY <1>2, <1>4
<1>7. accepted' \in [Entries -> receipts \cup {None}] /\ accepted'[e] = None
      /\ \A x \in Entries \ {e} : accepted'[x] = accepted[x]
  BY <1>4 DEF IInv, TypeOK
<1>8. Moves(e, row)
  BY <1>4, <1>5, <1>6, <1>7 DEF Moves
<1> QED
  BY <1>8

--------------------------------------------------------------------------------
(* Every step moves an entry or publishes a receipt.                       *)

\* A run published a receipt.
Published ==
  /\ UNCHANGED <<entry, lastGen, issued, accepted>>
  /\ \E f \in issued : f.repository # None /\ receipts' = receipts \cup {Receipt(f)}

LEMMA NextMoves ==
  ASSUME IInv, Next
  PROVE  Published \/ \E e \in Entries : \E row : Moves(e, row)
<1>1. ASSUME NEW e \in Entries, QueueStep(e)
      PROVE  \E row : Moves(e, row)
  BY <1>1, Enqueues, HoldsOrReleases, Expires, Reruns, Leases DEF QueueStep
<1>2. ASSUME NEW f \in issued, Publish(f)
      PROVE  Published
  BY <1>2 DEF Published, Publish, Coding
<1>3. ASSUME NEW f \in issued,
             \/ \E d \in Daemons : Recover(d, f)
             \/ ReturnToPending(f)
             \/ \E status \in Terminal, p \in receipts \cup {None} : Complete(f, status, p)
      PROVE  \E e \in Entries : \E row : Moves(e, row)
  BY <1>3, Recovers, Returns, Completes
<1> QED
  BY <1>1, <1>2, <1>3 DEF Next

\* What an entry that moves leaves of the others.
LEMMA Elsewhere ==
  ASSUME IInv, NEW e \in Entries, NEW row, Moves(e, row)
  PROVE  entry'[e] = row /\ \A x \in Entries \ {e} : entry'[x] = entry[x]
BY DEF IInv, TypeOK, Moves

\* A row that is assigned has a fence of the type of fences.
LEMMA FenceTyped ==
  ASSUME NEW e \in Entries, NEW row \in Rows, RowOK(row), row.status = "assigned"
  PROVE  FenceOf(e, row) \in Fences /\ FenceOf(e, row).lease.entry = e
         /\ FenceOf(e, row).lease.generation = row.leaseGen
<1>1. /\ row.workflow \in Workflows /\ row.workflowGen \in Nat \ {0}
      /\ row.subjectGen \in Nat \ {0} /\ row.owner \in Daemons /\ row.leaseGen \in Nat \ {0}
  BY DEF Rows, RowOK
<1>2. SubjectOf[e] \in Subjects /\ Reserved[e] \in {Reserved[x] : x \in Entries}
  BY ConstantsTyped
<1> QED
  BY <1>1, <1>2 DEF FenceOf, Fences

LEMMA InitIInv == Init => IInv
<1> SUFFICES ASSUME Init PROVE IInv
  OBVIOUS
<1>1. TypeOK
  BY DEF Init, TypeOK, Rows, Statuses
<1>2. \A e \in Entries : RowOK(entry[e])
  BY DEF Init, RowOK
<1> QED
  BY <1>1, <1>2 DEF Init, IInv, Behind, ProvedAtEnd, OneHolderPerRef

LEMMA MoveKeepsTypes ==
  ASSUME IInv, NEW e \in Entries, NEW row, Moves(e, row)
  PROVE  TypeOK' /\ (\A x \in Entries : RowOK(entry'[x])) /\ Behind' /\ ProvedAtEnd'
<1>1. entry'[e] = row /\ \A x \in Entries \ {e} : entry'[x] = entry[x]
  BY Elsewhere
<1>2. row.leaseGen >= entry[e].leaseGen
  BY DEF Moves, Turn, IInv, TypeOK, Rows
<1>3. issued' \subseteq Fences /\ issued \subseteq issued'
  BY FenceTyped DEF Moves, IInv, TypeOK
<1>4. TypeOK'
  BY <1>3 DEF IInv, TypeOK, Moves
<1>5. \A x \in Entries : RowOK(entry'[x])
  BY <1>1 DEF IInv, Moves
<1>6. Behind'
  <2>1. ASSUME NEW f \in issued
        PROVE  f.lease.generation <= entry'[f.lease.entry].leaseGen
    <3>1. f.lease.entry \in Entries /\ f.lease.generation \in Nat
          /\ f.lease.generation <= entry[f.lease.entry].leaseGen
      BY DEF IInv, TypeOK, Fences, Behind
    <3>2. \A x \in Entries : entry[x].leaseGen \in Nat /\ entry'[x].leaseGen \in Nat
      BY <1>4 DEF IInv, TypeOK, Rows
    <3> QED
      BY <1>1, <1>2, <3>1, <3>2
  <2>2. row.status = "assigned" => FenceOf(e, row).lease.generation <= entry'[e].leaseGen
    BY <1>1 DEF FenceOf, Moves, Rows
  <2> QED
    BY <2>1, <2>2 DEF Behind, Moves, FenceOf
<1>7. ProvedAtEnd'
  BY <1>1 DEF IInv, ProvedAtEnd, Moves
<1> QED
  BY <1>4, <1>5, <1>6, <1>7

\* Who is leased a ref finds no other holder, and nobody else becomes one.
LEMMA MoveKeepsHolders ==
  ASSUME IInv, NEW e \in Entries, NEW row, Moves(e, row)
  PROVE  OneHolderPerRef'
<1> DEFINE Same(x, y) == /\ Folded[Reserved[x].repository] = Folded[Reserved[y].repository]
                         /\ Reserved[x].head = Reserved[y].head
<1>1. entry'[e] = row /\ \A x \in Entries \ {e} : entry'[x] = entry[x]
  BY Elsewhere
<1>2. ASSUME NEW y \in Entries \ {e}, row.status = "assigned", entry[y].status = "assigned",
             Reserved[e] # None, Reserved[y] # None
      PROVE  ~Same(e, y) /\ ~Same(y, e)
  <2>1. CASE entry[e].status = "assigned"
    BY <1>2, <2>1 DEF IInv, OneHolderPerRef
  <2>2. CASE entry[e].status # "assigned"
    <3>1. ~LeaseBlocks(e)
      BY <1>2, <2>2 DEF Moves, Turn
    <3> QED
      BY <1>2, <3>1 DEF LeaseBlocks, Collides, CollisionKey
  <2> QED
    BY <2>1, <2>2
<1>3. ASSUME NEW x \in Entries, NEW y \in Entries, entry'[x].status = "assigned",
             entry'[y].status = "assigned", Reserved[x] # None, Reserved[y] # None, Same(x, y)
      PROVE  x = y
  BY <1>1, <1>2, <1>3 DEF IInv, OneHolderPerRef
<1> QED
  BY <1>3 DEF OneHolderPerRef

LEMMA IInvStep == IInv /\ [Next]_vars => IInv'
<1> SUFFICES ASSUME IInv, [Next]_vars PROVE IInv'
  OBVIOUS
<1>1. CASE UNCHANGED vars
  BY <1>1 DEF vars, IInv, TypeOK, Behind, ProvedAtEnd, OneHolderPerRef, RowOK
<1>2. CASE Published
  BY <1>2 DEF Published, IInv, TypeOK, Behind, ProvedAtEnd, OneHolderPerRef, RowOK
<1>3. ASSUME NEW e \in Entries, NEW row, Moves(e, row)
      PROVE  IInv'
  BY <1>3, MoveKeepsTypes, MoveKeepsHolders DEF IInv
<1> QED
  BY <1>1, <1>2, <1>3, NextMoves

LEMMA Invariance == Spec => []IInv
BY InitIInv, IInvStep, PTL DEF Spec

--------------------------------------------------------------------------------
(* Theorems.                                                               *)

\* The queue's rows, its generations, and every fence and receipt have their types, at
\* every lease and recovery.
THEOREM TypeCorrect == Spec => []TypeOK
BY Invariance, PTL DEF IInv

\* Two executions never hold the write lease of one ref of one repository, spelled in
\* any way: RepositoryReservation::collision_key, whatever expires or changes hands.
THEOREM OneHolder == Spec => []OneHolderPerRef
BY Invariance, PTL DEF IInv

\* A fence that is no longer its entry's never is again: the lease generation is taken
\* anew by every lease and recovery, so no late request finds it current.
THEOREM StaleStays == Spec => StaleForever
<1>1. IInv /\ [Next]_vars => [\A f \in issued : ~Current(f) => ~Current(f)']_vars
  <2> SUFFICES ASSUME IInv, [Next]_vars, ~UNCHANGED vars, NEW f \in issued, Current(f)'
               PROVE  Current(f)
    OBVIOUS
  <2> DEFINE c == f.lease.entry
  <2>0. c \in Entries /\ f.lease.generation \in Nat
        /\ f.lease.generation <= entry[c].leaseGen /\ entry[c].leaseGen \in Nat
    BY DEF IInv, TypeOK, Fences, Behind, Rows
  <2>1. CASE entry'[c] = entry[c]
    BY <2>1 DEF Current
  <2>2. ASSUME NEW row, Moves(c, row)
        PROVE  Current(f)
    <3>1. entry'[c] = row
      BY <2>0, <2>2, Elsewhere
    <3>2. row.status = "assigned" /\ f = FenceOf(c, row)
      BY <3>1 DEF Current
    <3>3. f.lease.generation = row.leaseGen
      BY <3>2 DEF FenceOf
    <3>4. entry[c].status = "assigned" /\ row = [entry[c] EXCEPT !.expired = TRUE]
      BY <2>0, <2>2, <3>2, <3>3 DEF Moves, Turn
    <3>5. FenceOf(c, row) = FenceOf(c, entry[c])
      BY <2>0, <3>4 DEF FenceOf, IInv, TypeOK, Rows
    <3> QED
      BY <3>2, <3>4, <3>5 DEF Current
  <2>3. Published => entry'[c] = entry[c]
    BY DEF Published
  <2>4. ASSUME NEW e \in Entries, NEW row, Moves(e, row), e # c
        PROVE  entry'[c] = entry[c]
    BY <2>0, <2>4, Elsewhere
  <2> QED
    BY <2>1, <2>2, <2>3, <2>4, NextMoves DEF vars
<1> QED
  BY <1>1, Invariance, PTL DEF Spec, StaleForever

--------------------------------------------------------------------------------
(* The refinement.                                                         *)

stages  == [x \in Entries |-> Stage(x)]
holders == [x \in Entries |-> entry[x].owner]
gens    == [x \in Entries |-> entry[x].workflowGen]
proofs  == [x \in Entries |-> Proven(x)]

\* The abstract state of an entry follows from its row and what was accepted for it.
LEMMA MapsAlone ==
  ASSUME IInv, NEW e \in Entries, NEW row, Moves(e, row)
  PROVE  /\ stages' = [stages EXCEPT ![e] = Stage(e)']
         /\ holders' = [holders EXCEPT ![e] = row.owner]
         /\ gens' = [gens EXCEPT ![e] = row.workflowGen]
         /\ proofs' = [proofs EXCEPT ![e] = Proven(e)']
<1>1. entry'[e] = row /\ \A x \in Entries \ {e} : entry'[x] = entry[x]
  BY Elsewhere
<1>2. \A x \in Entries \ {e} : accepted'[x] = accepted[x]
  BY DEF Moves
<1>3. \A x \in Entries \ {e} : Stage(x)' = Stage(x) /\ Proven(x)' = Proven(x)
  BY <1>1, <1>2 DEF Stage, Proven
<1> QED
  BY <1>1, <1>3 DEF stages, holders, gens, proofs

\* What a move leaves of its own entry is left of all.
LEMMA KeepsAlone ==
  ASSUME IInv, NEW e \in Entries, NEW row, Moves(e, row)
  PROVE  /\ Stage(e)' = Stage(e) => stages' = stages
         /\ row.owner = entry[e].owner => holders' = holders
         /\ row.workflowGen = entry[e].workflowGen => gens' = gens
         /\ Proven(e)' = Proven(e) => proofs' = proofs
<1>1. stages[e] = Stage(e) /\ holders[e] = entry[e].owner /\ gens[e] = entry[e].workflowGen
      /\ proofs[e] = Proven(e)
  BY DEF stages, holders, gens, proofs
<1>2. /\ stages = [stages EXCEPT ![e] = stages[e]] /\ holders = [holders EXCEPT ![e] = holders[e]]
      /\ gens = [gens EXCEPT ![e] = gens[e]] /\ proofs = [proofs EXCEPT ![e] = proofs[e]]
  BY DEF stages, holders, gens, proofs
<1> QED
  BY <1>1, <1>2, MapsAlone

--------------------------------------------------------------------------------
(* What each step is to OneExecution.                                      *)

LEMMA EnqueueSubmits ==
  ASSUME IInv, NEW e \in Entries, Enqueue(e)
  PROVE  Execution!Submit(e)
<1>1. PICK row : Moves(e, row)
  BY Enqueues
<1>2. entry'[e] = row /\ entry[e].status = "absent" /\ accepted' = accepted
  BY <1>1, Elsewhere DEF Enqueue
<1>3. row.status = "pending" /\ row.owner = entry[e].owner
      /\ row.workflowGen = entry[e].workflowGen
  BY <1>2 DEF Enqueue, Rows, IInv, TypeOK
<1>4. accepted[e] = None
  BY <1>2 DEF IInv, ProvedAtEnd
<1>5. Stage(e) = "absent" /\ Stage(e)' = "waiting" /\ Proven(e)' = Proven(e)
  BY <1>2, <1>3, <1>4 DEF Stage, Proven
<1> QED
  BY <1>1, <1>3, <1>5, MapsAlone, KeepsAlone
  DEF Execution!Submit, stages, holders, gens, proofs

LEMMA HoldOrReleaseStutters ==
  ASSUME IInv, NEW e \in Entries, Hold(e) \/ Release(e) \/ Expire(e)
  PROVE  UNCHANGED <<stages, holders, gens, proofs>>
<1>1. PICK row : Moves(e, row)
  BY HoldsOrReleases, Expires
<1>2. entry'[e] = row /\ accepted' = accepted
  BY <1>1, Elsewhere DEF Hold, Release, Expire
<1>3. /\ row.owner = entry[e].owner /\ row.workflowGen = entry[e].workflowGen
      /\ \/ row.status = entry[e].status
         \/ {row.status, entry[e].status} = {"pending", "held"}
  BY <1>2 DEF Hold, Release, Expire, Rows, IInv, TypeOK
<1>4. accepted[e] = None
  BY DEF Hold, Release, Expire, IInv, ProvedAtEnd
<1>5. Stage(e)' = Stage(e) /\ Proven(e)' = Proven(e)
  BY <1>2, <1>3, <1>4 DEF Stage, Proven
<1> QED
  BY <1>1, <1>3, <1>5, KeepsAlone

LEMMA LeaseTakes ==
  ASSUME IInv, NEW e \in Entries, NEW d \in Daemons, NEW w \in Workflows, Lease(d, e, w)
  PROVE  Execution!Take(e, d)
<1> DEFINE row == LeasedBy(e, d, w)
<1>1. Moves(e, row)
  BY Leases
<1>2. entry'[e] = row /\ entry[e].status = "pending" /\ accepted' = accepted
      /\ entry[e] \in Rows
  BY <1>1, Elsewhere DEF Lease, IInv, TypeOK
<1>3. /\ row.status = "assigned" /\ row.owner = d
      /\ row.workflowGen = IF entry[e].workflowGen = 0 THEN 1 ELSE entry[e].workflowGen
  BY <1>2 DEF LeasedBy, Rows
<1>4. accepted[e] = None
  BY <1>2 DEF IInv, ProvedAtEnd
<1>5. Stage(e) = "waiting" /\ Stage(e)' = "running" /\ Proven(e)' = Proven(e)
  BY <1>2, <1>3, <1>4 DEF Stage, Proven
<1>6. stages' = [stages EXCEPT ![e] = "running"] /\ stages[e] = "waiting"
      /\ holders' = [holders EXCEPT ![e] = d] /\ proofs' = proofs
  BY <1>1, <1>3, <1>5, MapsAlone, KeepsAlone DEF stages
<1>7. gens' = [gens EXCEPT ![e] = IF gens[e] = 0 THEN 1 ELSE gens[e]]
  BY <1>1, <1>3, MapsAlone DEF gens
<1> QED
  BY <1>6, <1>7 DEF Execution!Take, stages, holders, gens, proofs

LEMMA RecoverInherits ==
  ASSUME IInv, NEW d \in Daemons, NEW f \in issued, Recover(d, f)
  PROVE  Execution!Inherit(f.lease.entry, d)
<1> DEFINE e == f.lease.entry
           row == RecoveredBy(e, d)
<1>1. e \in Entries /\ Moves(e, row)
  BY Recovers
<1>2. entry'[e] = row /\ entry[e].status = "assigned" /\ accepted' = accepted
      /\ entry[e] \in Rows
  BY <1>1, Elsewhere DEF Recover, Current, IInv, TypeOK
<1>3. row.status = "assigned" /\ row.owner = d /\ row.workflowGen = entry[e].workflowGen
  BY <1>2 DEF RecoveredBy, Rows
<1>4. accepted[e] = None
  BY <1>1, <1>2 DEF IInv, ProvedAtEnd
<1>5. Stage(e) = "running" /\ Stage(e)' = Stage(e) /\ Proven(e)' = Proven(e)
  BY <1>2, <1>3, <1>4 DEF Stage, Proven
<1>6. f = FenceOf(e, entry[e]) /\ d # f.lease.owner
  BY DEF Recover, Current, RecoverValid
<1>7. entry[e].owner # d
  BY <1>6 DEF FenceOf
<1>8. holders' = [holders EXCEPT ![e] = d] /\ UNCHANGED <<stages, gens, proofs>>
  BY <1>1, <1>3, <1>5, MapsAlone, KeepsAlone
<1>9. stages[e] = "running" /\ holders[e] # d
  BY <1>1, <1>5, <1>7 DEF stages, holders
<1> QED
  BY <1>8, <1>9 DEF Execution!Inherit, stages, holders, gens, proofs

\* The owner of the entry that a current fence names.
LEMMA OwnerHolds ==
  ASSUME IInv, NEW f \in issued, Current(f)
  PROVE  LET e == f.lease.entry IN
         /\ e \in Entries /\ entry[e] \in Rows /\ entry[e].status = "assigned"
         /\ entry[e].owner \in Daemons /\ accepted[e] = None
         /\ Stage(e) = "running" /\ Proven(e) = 0
<1> DEFINE e == f.lease.entry
<1>1. e \in Entries /\ entry[e] \in Rows /\ RowOK(entry[e]) /\ entry[e].status = "assigned"
  BY DEF IInv, TypeOK, Fences, Current
<1>2. accepted[e] = None
  BY <1>1 DEF IInv, ProvedAtEnd
<1> QED
  BY <1>1, <1>2 DEF Rows, RowOK, Stage, Proven

LEMMA ReturnGivesBack ==
  ASSUME IInv, NEW f \in issued, ReturnToPending(f)
  PROVE  \E d \in Daemons : Execution!GiveBack(f.lease.entry, d)
<1> DEFINE e == f.lease.entry
<1>1. PICK row : Moves(e, row)
  BY Returns
<1>2. /\ e \in Entries /\ entry[e] \in Rows /\ entry[e].owner \in Daemons
      /\ accepted[e] = None /\ Stage(e) = "running" /\ Proven(e) = 0
  BY OwnerHolds DEF ReturnToPending
<1>p. PICK d \in Daemons : entry[e].owner = d
  BY <1>2
<1>r. entry' = [entry EXCEPT ![e] = Freed(@, "pending")] /\ accepted' = accepted
  BY DEF ReturnToPending
<1>3. row = Freed(entry[e], "pending") /\ entry'[e] = row /\ accepted' = accepted
  BY <1>1, <1>2, <1>r, Elsewhere DEF IInv, TypeOK
<1>4. row.status = "pending" /\ row.owner = None /\ row.workflowGen = entry[e].workflowGen
  BY <1>2, <1>3 DEF Freed, Rows
<1>5. Stage(e)' = "waiting" /\ Proven(e)' = Proven(e)
  BY <1>2, <1>3, <1>4 DEF Stage, Proven
<1>6. stages' = [stages EXCEPT ![e] = "waiting"] /\ holders' = [holders EXCEPT ![e] = None]
      /\ UNCHANGED <<gens, proofs>>
  BY <1>1, <1>2, <1>4, <1>5, MapsAlone, KeepsAlone
<1>7. stages[e] = "running" /\ holders[e] = d
  BY <1>2, <1>p DEF stages, holders
<1>8. Execution!GiveBack(e, d)
  BY <1>6, <1>7 DEF Execution!GiveBack, stages, holders, gens, proofs
<1> QED
  BY <1>8

\* A receipt that validates against the current fence proves this generation.
LEMMA CompleteEnds ==
  ASSUME IInv, NEW f \in issued, NEW status \in Terminal, NEW p \in receipts \cup {None},
         Complete(f, status, p)
  PROVE  \E d \in Daemons : Execution!End(f.lease.entry, d)
<1> DEFINE e == f.lease.entry
<1>1. PICK row : Moves(e, row)
  BY Completes
<1>2. /\ e \in Entries /\ entry[e] \in Rows /\ entry[e].owner \in Daemons
      /\ accepted[e] = None /\ Stage(e) = "running" /\ Proven(e) = 0
  BY OwnerHolds DEF Complete
<1>p. PICK d \in Daemons : entry[e].owner = d
  BY <1>2
<1>3. row = Freed(entry[e], "done") /\ entry'[e] = row /\ accepted'[e] = p
  BY <1>1, <1>2, Elsewhere DEF Complete, IInv, TypeOK
<1>4. /\ row.status = "done" /\ row.owner = None /\ row.workflow = entry[e].workflow
      /\ row.workflowGen = entry[e].workflowGen /\ row.subjectGen = entry[e].subjectGen
  BY <1>2, <1>3 DEF Freed, Rows
<1>5. f = FenceOf(e, entry[e])
  BY DEF Complete, Current
<1>6. p # None => /\ p.workflow = entry[e].workflow
                  /\ p.workflowGen = entry[e].workflowGen
                  /\ p.subject = [id |-> SubjectOf[e], generation |-> entry[e].subjectGen]
  BY <1>5 DEF Complete, ReceiptAgainst, FenceOf
<1>7. Stage(e)' = "done" /\ Proven(e)' \in {0, entry[e].workflowGen}
  BY <1>3, <1>4, <1>6 DEF Stage, Proven
<1>8. proofs' \in {proofs, [proofs EXCEPT ![e] = gens[e]]}
  BY <1>1, <1>2, <1>7, MapsAlone, KeepsAlone DEF gens
<1>9. stages' = [stages EXCEPT ![e] = "done"] /\ holders' = [holders EXCEPT ![e] = None]
      /\ UNCHANGED gens
  BY <1>1, <1>2, <1>4, <1>7, MapsAlone, KeepsAlone
<1>10. stages[e] = "running" /\ holders[e] = d
  BY <1>2, <1>p DEF stages, holders
<1>11. Execution!End(e, d)
  BY <1>8, <1>9, <1>10 DEF Execution!End, stages, holders, gens, proofs
<1> QED
  BY <1>11

LEMMA RerunIsAgain ==
  ASSUME IInv, NEW e \in Entries, Rerun(e)
  PROVE  Execution!Again(e)
<1>1. PICK row : Moves(e, row)
  BY Reruns
<1>2. entry'[e] = row /\ entry[e].status = "done" /\ accepted'[e] = None
      /\ entry[e] \in Rows
  BY <1>1, Elsewhere DEF Rerun, IInv, TypeOK
<1>3. row.status = "pending" /\ row.owner = entry[e].owner
      /\ row.workflowGen = entry[e].workflowGen + 1
  BY <1>2 DEF Rerun, Rows, IInv, TypeOK
<1>4. Stage(e) = "done" /\ Stage(e)' = "waiting" /\ Proven(e)' = 0
  BY <1>2, <1>3 DEF Stage, Proven
<1>5. gens' = [gens EXCEPT ![e] = gens[e] + 1]
  BY <1>1, <1>3, MapsAlone DEF gens
<1> QED
  BY <1>1, <1>3, <1>4, <1>5, MapsAlone, KeepsAlone
  DEF Execution!Again, stages, holders, gens, proofs

\* Whatever fences and receipts are about, late, repeated or of earlier runs, the queue
\* executes each entry as OneExecution says: one holder, who alone gives back or ends,
\* and a success with the proof of its own generation.
THEOREM Implements == Spec => ExecutionSpec
<1>1. Init => Execution!Init
  BY DEF Init, Execution!Init, Stage, Proven
<1>2. IInv /\ [Next]_vars => [Execution!Next]_(Execution!vars)
  <2> SUFFICES ASSUME IInv, [Next]_vars PROVE [Execution!Next]_(Execution!vars)
    OBVIOUS
  <2>1. CASE UNCHANGED vars
    BY <2>1 DEF vars, Execution!vars, Stage, Proven
  <2>2. ASSUME NEW e \in Entries, QueueStep(e)
        PROVE  [Execution!Next]_(Execution!vars)
    <3>1. CASE Hold(e) \/ Release(e) \/ Expire(e)
      BY <3>1, HoldOrReleaseStutters
      DEF Execution!vars, stages, holders, gens, proofs
    <3>2. CASE ~(Hold(e) \/ Release(e) \/ Expire(e))
      BY <2>2, <3>2, EnqueueSubmits, LeaseTakes, RerunIsAgain
      DEF QueueStep, Execution!Next
    <3> QED
      BY <3>1, <3>2
  <2>3. ASSUME NEW f \in issued,
               \/ \E d \in Daemons : Recover(d, f)
               \/ ReturnToPending(f)
               \/ \E status \in Terminal, p \in receipts \cup {None} : Complete(f, status, p)
        PROVE  [Execution!Next]_(Execution!vars)
    <3>1. f.lease.entry \in Entries
      BY DEF IInv, TypeOK, Fences
    <3> QED
      BY <2>3, <3>1, RecoverInherits, ReturnGivesBack, CompleteEnds DEF Execution!Next
  <2>4. ASSUME NEW f \in issued, Publish(f)
        PROVE  [Execution!Next]_(Execution!vars)
    BY <2>4 DEF Publish, Execution!vars, Stage, Proven
  <2> QED
    BY <2>1, <2>2, <2>3, <2>4 DEF Next
<1> QED
  BY <1>1, <1>2, Invariance, PTL DEF Spec, ExecutionSpec, Execution!Spec
===============================================================================
