--------------------------- MODULE RepositoryScope ---------------------------
(***************************************************************************)
(* Which directory under ~/.animus holds the state of a checkout           *)
(* (protocol, repository_scope.rs).  Clones of one repository lie at       *)
(* paths; they are cloned, moved, deleted, and their volumes come and go.  *)
(* Processes call scoped_state_root, each for its clone, and the calls     *)
(* interleave at the reads and writes of the file system, with no lock.    *)
(*                                                                         *)
(* A scope is named for the path it was first made for, so Paths name the  *)
(* scopes too, besides Legacy, an old one without a .project-root marker.  *)
(* Paths are canonical; the clones have one remote, the only one compared. *)
(***************************************************************************)
EXTENDS Naturals, FiniteSets

CONSTANTS
  Clones,
  Paths,
  Legacy,      \* a scope that is named for none of the paths
  None,
  Recognised,  \* the paths whose missing volume the mount heuristic notices
  MaxEvents    \* bound: clones, moves, deletions, mounts and crashes

ASSUME NameAssumption == Legacy \notin Paths /\ None \notin Paths \union Clones \union {Legacy}
ASSUME RecognisedAssumption == Recognised \subseteq Paths
ASSUME BoundAssumption == MaxEvents \in Nat

VARIABLES
  at,      \* the clone that lies at each path
  mounted, \* the paths that can be reached
  events,  \* events so far
  dirs,    \* the scope directories that exist
  marker,  \* per scope: the path in .project-root
  origins, \* the scopes with a .git-origin
  pc,      \* per clone: where its call of scoped_state_root is
  root,    \* per clone: the project_root of the call
  todo,    \* per clone: directory entries not looked at
  target,  \* per clone: the scope the call will return
  uses,    \* per clone: the scope its processes work in
  warned,  \* scopes once taken back from a live clone, with a warning
  reclaimed, \* scopes once taken back at all
  overlapped \* two calls were in progress at once

world == <<at, mounted, events>>
files == <<dirs, marker, origins>>
vars == <<world, files, pc, root, todo, target, uses, warned, reclaimed, overlapped>>

Scopes == Paths \union {Legacy}

TypeOK ==
  /\ at \in [Paths -> Clones \union {None}]
  /\ mounted \in SUBSET Paths /\ events \in 0..MaxEvents
  /\ dirs \in SUBSET Scopes /\ origins \in SUBSET Scopes
  /\ marker \in [Scopes -> Paths \union {None}]
  /\ pc \in [Clones -> {"idle", "exists", "reclaim", "origin", "scan", "mark",
                        "create", "markNew", "originNew", "return"}]
  /\ root \in [Clones -> Paths \union {None}]
  /\ todo \in [Clones -> SUBSET Scopes]
  /\ target \in [Clones -> Scopes \union {None}]
  /\ uses \in [Clones -> Scopes \union {None}]
  /\ warned \in SUBSET Scopes /\ reclaimed \in SUBSET Scopes /\ overlapped \in BOOLEAN

Init ==
  /\ at \in [Paths -> Clones \union {None}]
  /\ \A p, q \in Paths : p # q /\ at[p] = at[q] => at[p] = None
  /\ mounted = Paths /\ events = 0
  /\ dirs \in {{}, {Legacy}} /\ origins = dirs
  /\ marker = [s \in Scopes |-> None]
  /\ pc = [c \in Clones |-> "idle"] /\ root = [c \in Clones |-> None]
  /\ todo = [c \in Clones |-> {}]
  /\ target = [c \in Clones |-> None] /\ uses = [c \in Clones |-> None]
  /\ warned = {} /\ reclaimed = {} /\ overlapped = FALSE

----------------------------------------------------------------------------
(* A call of scoped_state_root.                                            *)

Goes(c, from, to) == pc[c] = from /\ pc' = [pc EXCEPT ![c] = to]

Resolves(p) == p \in mounted /\ at[p] # None      \* canonicalize succeeds

Live(c) == \E p \in Paths : at[p] = c /\ Resolves(p)

Call(c) ==
  \E p \in mounted :
    /\ at[p] = c /\ Goes(c, "idle", "exists")
    /\ root' = [root EXCEPT ![c] = p] /\ target' = [target EXCEPT ![c] = p]
    /\ overlapped' = (overlapped \/ \E d \in Clones \ {c} : pc[d] # "idle")
    /\ UNCHANGED <<world, files, todo, uses, warned, reclaimed>>

CheckExists(c) ==
  /\ Goes(c, "exists", IF root[c] \in dirs THEN "reclaim" ELSE "origin")
  /\ UNCHANGED <<world, files, root, todo, target, uses, warned, reclaimed, overlapped>>

\* faulty: whatever live clone is recorded, the marker stays.
ReclaimNone(c) ==
  LET recorded == marker[root[c]] IN
  /\ Goes(c, "reclaim", IF recorded # None /\ Resolves(recorded) THEN "return" ELSE "mark")
  /\ UNCHANGED <<world, files, root, todo, target, uses, warned, reclaimed, overlapped>>

\* reclaim_scope_marker_if_foreign: a marker of another live clone is
\* overwritten with a warning, a missing or dead one silently.
Reclaim(c) ==
  LET recorded == marker[root[c]]
      live == recorded # None /\ Resolves(recorded) IN
  /\ Goes(c, "reclaim", IF live /\ recorded = root[c] THEN "return" ELSE "mark")
  /\ warned' = IF live /\ recorded # root[c] THEN warned \union {root[c]} ELSE warned
  /\ reclaimed' =
       IF recorded \notin {None, root[c]} THEN reclaimed \union {root[c]} ELSE reclaimed
  /\ UNCHANGED <<world, files, root, todo, target, uses, overlapped>>

\* git remote get-url, which fails where the checkout cannot be reached.
ReadOrigin(c) ==
  /\ IF Resolves(root[c])
       THEN Goes(c, "origin", "scan") /\ todo' = [todo EXCEPT ![c] = dirs]
       ELSE Goes(c, "origin", "create") /\ UNCHANGED todo
  /\ UNCHANGED <<world, files, root, target, uses, warned, reclaimed, overlapped>>

\* faulty: a path that does not resolve is taken to be gone.
NeverUnavailable(p) == p \notin Paths

\* recorded_path_is_transiently_unavailable, of a path that does not resolve.
TransientlyUnavailable(p) == p \notin mounted /\ p \in Recognised

\* faulty: a scope of the same remote will do, whoever is alive in it.
AdoptableByOrigin(c, s) == c \in Clones /\ s \in origins

\* find_existing_scope_by_origin takes a scope of the same remote if its
\* marker is missing, ours, or of a checkout that has gone for good.
Adoptable(c, s) ==
  /\ s \in origins
  /\ \/ marker[s] = None
     \/ IF Resolves(marker[s]) THEN marker[s] = root[c]
                              ELSE ~TransientlyUnavailable(marker[s])

\* One entry, in the order read_dir happens to give; one entry's reads count
\* as one step.
Examine(c) ==
  \E s \in todo[c] :
    /\ IF Adoptable(c, s)
         THEN Goes(c, "scan", "mark") /\ target' = [target EXCEPT ![c] = s]
         ELSE Goes(c, "scan", "scan") /\ UNCHANGED target
    /\ todo' = [todo EXCEPT ![c] = IF Adoptable(c, s) THEN {} ELSE @ \ {s}]
    /\ UNCHANGED <<world, files, root, uses, warned, reclaimed, overlapped>>

ScanEnds(c) ==
  /\ todo[c] = {} /\ Goes(c, "scan", "create")
  /\ UNCHANGED <<world, files, root, todo, target, uses, warned, reclaimed, overlapped>>

\* faulty: a new scope's marker is left to the next call.
MarkLater(c) ==
  /\ \/ /\ Goes(c, "mark", "return")
        /\ marker' = [marker EXCEPT ![target[c]] = root[c]]
     \/ Goes(c, "markNew", "originNew") /\ UNCHANGED marker
  /\ UNCHANGED <<world, dirs, origins, root, todo, target, uses, warned, reclaimed, overlapped>>

\* persist_project_root_marker.
Mark(c) ==
  /\ Goes(c, "mark", "return") \/ Goes(c, "markNew", "originNew")
  /\ marker' = [marker EXCEPT ![target[c]] = root[c]]
  /\ UNCHANGED <<world, dirs, origins, root, todo, target, uses, warned, reclaimed, overlapped>>

\* The second look at the directory; its creation may fail.
Create(c) ==
  /\ \/ root[c] \in dirs /\ Goes(c, "create", "return") /\ UNCHANGED dirs
     \/ root[c] \notin dirs /\ Goes(c, "create", "return") /\ UNCHANGED dirs
     \/ /\ root[c] \notin dirs /\ Goes(c, "create", "markNew")
        /\ dirs' = dirs \union {root[c]}
  /\ UNCHANGED <<world, marker, origins, root, todo, target, uses, warned, reclaimed, overlapped>>

WriteOrigin(c) ==
  /\ Goes(c, "originNew", "return")
  /\ origins' = IF Resolves(root[c]) THEN origins \union {target[c]} ELSE origins
  /\ UNCHANGED <<world, dirs, marker, root, todo, target, uses, warned, reclaimed, overlapped>>

Return(c) ==
  /\ Goes(c, "return", "idle") /\ uses' = [uses EXCEPT ![c] = target[c]]
  /\ root' = [root EXCEPT ![c] = None] /\ target' = [target EXCEPT ![c] = None]
  /\ UNCHANGED <<world, files, todo, warned, reclaimed, overlapped>>

Step(c) ==
  \/ Call(c) \/ CheckExists(c) \/ Reclaim(c) \/ ReadOrigin(c) \/ Examine(c)
  \/ ScanEnds(c) \/ Mark(c) \/ Create(c) \/ WriteOrigin(c) \/ Return(c)

----------------------------------------------------------------------------
(* The world: checkouts, volumes, and processes that die.                  *)

Happens == events < MaxEvents /\ events' = events + 1

Placed(c) == \E p \in Paths : at[p] = c

CloneTo(c, p) ==
  /\ Happens /\ ~Placed(c) /\ at[p] = None /\ p \in mounted
  /\ at' = [at EXCEPT ![p] = c]
  /\ UNCHANGED <<mounted, files, pc, root, todo, target, uses, warned, reclaimed, overlapped>>

\* No process is at work in a checkout while it moves, and none has kept its
\* scope from before its volume went when that is mounted again.
Move(p, q) ==
  /\ Happens /\ {p, q} \subseteq mounted /\ at[p] # None /\ at[q] = None
  /\ pc[at[p]] = "idle"
  /\ at' = [at EXCEPT ![p] = None, ![q] = at[p]]
  /\ uses' = [uses EXCEPT ![at[p]] = None]
  /\ UNCHANGED <<mounted, files, pc, root, todo, target, warned, reclaimed, overlapped>>

Stops(c) ==
  /\ pc' = [pc EXCEPT ![c] = "idle"] /\ root' = [root EXCEPT ![c] = None]
  /\ todo' = [todo EXCEPT ![c] = {}] /\ target' = [target EXCEPT ![c] = None]
  /\ uses' = [uses EXCEPT ![c] = None]

Delete(p) ==
  /\ Happens /\ p \in mounted /\ at[p] # None
  /\ at' = [at EXCEPT ![p] = None] /\ Stops(at[p])
  /\ UNCHANGED <<mounted, files, warned, reclaimed, overlapped>>

Crash(c) ==
  /\ Happens /\ pc[c] # "idle" /\ Stops(c)
  /\ UNCHANGED <<at, mounted, files, warned, reclaimed, overlapped>>

Unmount(p) ==
  /\ Happens /\ p \in mounted /\ mounted' = mounted \ {p}
  /\ UNCHANGED <<at, files, pc, root, todo, target, uses, warned, reclaimed, overlapped>>

Mount(p) ==
  /\ Happens /\ p \notin mounted /\ mounted' = mounted \union {p}
  /\ uses' = [c \in Clones |-> IF at[p] = c THEN None ELSE uses[c]]
  /\ UNCHANGED <<at, files, pc, root, todo, target, warned, reclaimed, overlapped>>

World ==
  \/ \E p \in Paths : Delete(p) \/ Unmount(p) \/ Mount(p)
  \/ \E c \in Clones : Crash(c) \/ \E p \in Paths : CloneTo(c, p)
  \/ \E p, q \in Paths : Move(p, q)

Next == World \/ \E c \in Clones : Step(c)

Spec == Init /\ [][Next]_vars

\* Every clone that can be reached is worked in again and again.
FairSpec == Spec /\ \A c \in Clones : WF_vars(Step(c))

----------------------------------------------------------------------------
(* Properties.                                                             *)

Shared == {s \in Scopes : \E c, d \in Clones :
             c # d /\ Live(c) /\ Live(d) /\ uses[c] = s /\ uses[d] = s}

Serial == \A c, d \in Clones : pc[c] # "idle" /\ pc[d] # "idle" => c = d

\* A scope that is being made is never taken for a legacy one: its remote is
\* written after its marker, whatever crashes in between.
MarkedBeforeFound == \A s \in origins \ {Legacy} : marker[s] # None

\* "silently sharing workflow.db, runs, and worktrees across clones is not"
\* detectable in logs: while calls do not overlap, two live clones work in one
\* scope only if a warning was logged for it.
SerialSharingIsWarned == ~overlapped => Shared \subseteq warned

\* "adopting an unmounted clone's scope silently shares workflow state across
\* clones with no way back": while calls do not overlap, nobody comes to work
\* in the scope of a clone whose volume is known to be away, unless the clone
\* at the path that the scope is named for has taken it back.
AwayKeepsScope ==
  ~overlapped =>
    \A c, d \in Clones : \A p \in Recognised \ mounted :
      at[p] = c /\ c # d /\ uses[c] # None /\ uses[d] = uses[c] =>
        ~Live(d) \/ uses[d] \in reclaimed

\* Whatever was moved, lost or raced for, live clones do not share a scope for
\* good: once the world is quiet and calls no longer overlap, each ends up
\* with one of its own.
Separate == <>[]Serial => <>[](Shared = {})

\* The same with calls that overlap.
SharingIsWarned == Shared \subseteq warned

=============================================================================
