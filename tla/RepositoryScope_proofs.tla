----------------------- MODULE RepositoryScope_proofs -----------------------
(***************************************************************************)
(* Proofs about RepositoryScope for any clones, paths, volumes and number  *)
(* of events: typing, and that a scope with a remote has a marker however  *)
(* calls interleave, die or lose sight of their checkout.                  *)
(***************************************************************************)
EXTENDS RepositoryScope, TLAPS

Stages == {"idle", "exists", "reclaim", "origin", "scan", "mark",
           "create", "markNew", "originNew", "return"}

\* A call in progress knows its root and the scope it is about.
Bound ==
  \A c \in Clones : pc[c] # "idle" => root[c] \in Paths /\ target[c] \in Scopes

\* Where the remote is about to be written, the marker has been.
MarkedFirst == \A c \in Clones : pc[c] = "originNew" => marker[target[c]] # None

IInv == TypeOK /\ Bound /\ MarkedFirst /\ MarkedBeforeFound

LEMMA NoneIsNoPath == None \notin Paths /\ None \notin Scopes
  BY NameAssumption DEF Scopes

----------------------------------------------------------------------------
(* Typing.                                                                 *)

LEMMA InitType == Init => TypeOK
<1> SUFFICES ASSUME Init PROVE TypeOK
  OBVIOUS
<1>0. events = 0 /\ overlapped = FALSE
  BY DEF Init
<1>1. events \in 0..MaxEvents
  BY <1>0, BoundAssumption
<1>5. overlapped \in BOOLEAN /\ reclaimed \in SUBSET Scopes
  BY <1>0 DEF Init
<1>2. /\ at \in [Paths -> Clones \union {None}]
      /\ dirs \in SUBSET Scopes /\ origins \in SUBSET Scopes
      /\ mounted \in SUBSET Paths /\ warned \in SUBSET Scopes
  BY DEF Init, Scopes
<1>3. /\ marker \in [Scopes -> Paths \union {None}]
      /\ root \in [Clones -> Paths \union {None}]
      /\ todo \in [Clones -> SUBSET Scopes]
      /\ target \in [Clones -> Scopes \union {None}]
      /\ uses \in [Clones -> Scopes \union {None}]
  BY DEF Init
<1>4. pc \in [Clones -> Stages]
  BY DEF Init, Stages
<1> QED
  BY <1>1, <1>2, <1>3, <1>4, <1>5 DEF TypeOK, Stages

LEMMA StepType ==
  ASSUME TypeOK, Bound, NEW c \in Clones, Step(c)
  PROVE  TypeOK'
<1>1. CASE Call(c)
  BY <1>1 DEF TypeOK, Call, Goes, world, files, Scopes
<1>2. CASE CheckExists(c)
  BY <1>2 DEF TypeOK, CheckExists, Goes, world, files
<1>3. CASE Reclaim(c)
  BY <1>3 DEF TypeOK, Reclaim, Goes, world, files, Bound, Scopes
<1>4. CASE ReadOrigin(c)
  BY <1>4 DEF TypeOK, ReadOrigin, Goes, world, files
<1>5. CASE Examine(c)
  BY <1>5 DEF TypeOK, Examine, Goes, world, files
<1>6. CASE ScanEnds(c)
  BY <1>6 DEF TypeOK, ScanEnds, Goes, world, files
<1>7. CASE Mark(c)
  BY <1>7 DEF TypeOK, Mark, Goes, world, files, Bound
<1>8. CASE Create(c)
  BY <1>8 DEF TypeOK, Create, Goes, world, files, Bound, Scopes
<1>9. CASE WriteOrigin(c)
  BY <1>9 DEF TypeOK, WriteOrigin, Goes, world, files, Bound
<1>10. CASE Return(c)
  BY <1>10 DEF TypeOK, Return, Goes, world, files
<1> QED
  BY <1>1, <1>2, <1>3, <1>4, <1>5, <1>6, <1>7, <1>8, <1>9, <1>10 DEF Step

LEMMA WorldType ==
  ASSUME TypeOK, World
  PROVE  TypeOK'
<1>0. events \in 0..MaxEvents /\ events < MaxEvents => events + 1 \in 0..MaxEvents
  BY BoundAssumption
<1>1. ASSUME NEW p \in Paths, Delete(p) PROVE TypeOK'
  BY <1>0, <1>1 DEF TypeOK, Delete, Happens, Stops, files
<1>2. ASSUME NEW p \in Paths, Unmount(p) PROVE TypeOK'
  BY <1>0, <1>2 DEF TypeOK, Unmount, Happens, files
<1>3. ASSUME NEW p \in Paths, Mount(p) PROVE TypeOK'
  BY <1>0, <1>3 DEF TypeOK, Mount, Happens, files
<1>4. ASSUME NEW c \in Clones, Crash(c) PROVE TypeOK'
  BY <1>0, <1>4 DEF TypeOK, Crash, Happens, Stops, files
<1>5. ASSUME NEW c \in Clones, NEW p \in Paths, CloneTo(c, p) PROVE TypeOK'
  BY <1>0, <1>5 DEF TypeOK, CloneTo, Happens, files
<1>6. ASSUME NEW p \in Paths, NEW q \in Paths, Move(p, q) PROVE TypeOK'
  BY <1>0, <1>6 DEF TypeOK, Move, Happens, files
<1> QED
  BY <1>1, <1>2, <1>3, <1>4, <1>5, <1>6 DEF World

----------------------------------------------------------------------------
(* The marker comes before the remote.                                     *)

\* What one clone's step does to the other parts of the invariant.
LEMMA StepMarked ==
  ASSUME IInv, NEW c \in Clones, Step(c)
  PROVE  Bound' /\ MarkedFirst' /\ MarkedBeforeFound'
<1> USE NoneIsNoPath DEF IInv, TypeOK, Bound, MarkedFirst, MarkedBeforeFound, Goes, world, files
<1>1. CASE Call(c)
  BY <1>1 DEF Call, Scopes
<1>2. CASE CheckExists(c)
  BY <1>2 DEF CheckExists
<1>3. CASE Reclaim(c)
  BY <1>3 DEF Reclaim
<1>4. CASE ReadOrigin(c)
  BY <1>4 DEF ReadOrigin
<1>5. CASE Examine(c)
  BY <1>5 DEF Examine
<1>6. CASE ScanEnds(c)
  BY <1>6 DEF ScanEnds
<1>7. CASE Mark(c)
  BY <1>7 DEF Mark
<1>8. CASE Create(c)
  BY <1>8 DEF Create
<1>9. CASE WriteOrigin(c)
  BY <1>9 DEF WriteOrigin
<1>10. CASE Return(c)
  BY <1>10 DEF Return
<1> QED
  BY <1>1, <1>2, <1>3, <1>4, <1>5, <1>6, <1>7, <1>8, <1>9, <1>10 DEF Step

\* Nothing in the world writes a marker or a remote; a call ends or goes on.
LEMMA WorldMarked ==
  ASSUME IInv, World
  PROVE  Bound' /\ MarkedFirst' /\ MarkedBeforeFound'
<1>1. files' = files
  BY DEF World, Delete, Unmount, Mount, Crash, CloneTo, Move
<1>2. \A c \in Clones :
        pc'[c] # "idle" => pc'[c] = pc[c] /\ root'[c] = root[c] /\ target'[c] = target[c]
  BY DEF World, Delete, Unmount, Mount, Crash, CloneTo, Move, Stops, IInv, TypeOK
<1> QED
  BY <1>1, <1>2 DEF IInv, Bound, MarkedFirst, MarkedBeforeFound, files

LEMMA IStep == IInv /\ [Next]_vars => IInv'
<1> SUFFICES ASSUME IInv, [Next]_vars PROVE IInv'
  OBVIOUS
<1>1. CASE World
  BY <1>1, WorldType, WorldMarked DEF IInv
<1>2. ASSUME NEW c \in Clones, Step(c) PROVE IInv'
  BY <1>2, StepType, StepMarked DEF IInv
<1>3. CASE UNCHANGED vars
  BY <1>3 DEF vars, world, files, IInv, TypeOK, Bound, MarkedFirst, MarkedBeforeFound
<1> QED
  BY <1>1, <1>2, <1>3 DEF Next

\* The parts of the invariant about one scope's files, at every state.
THEOREM Invariance == Spec => []IInv
<1>1. Init => IInv
  <2>1. Init => Bound /\ MarkedFirst /\ MarkedBeforeFound
    BY DEF Init, Bound, MarkedFirst, MarkedBeforeFound
  <2> QED
    BY <2>1, InitType DEF IInv
<1> QED
  BY <1>1, IStep, PTL DEF Spec

\* The variables of every call and of the file system keep their types
\* (scoped_state_root).
THEOREM TypeCorrect == Spec => []TypeOK
  BY Invariance, PTL DEF IInv

\* A scope that bears a remote bears a marker, unless it is the legacy one
\* (scoped_state_root writes .project-root before .git-origin).
THEOREM NeverHalfMade == Spec => []MarkedBeforeFound
  BY Invariance, PTL DEF IInv

----------------------------------------------------------------------------
(* Who may work where.  A clone sits at a path while its checkout can be    *)
(* reached, or ("kept") while the absence of its volume is recognised.  A   *)
(* clone that sits somewhere has a claim on the scope that it uses, unless  *)
(* the scope is excused: two cannot have a claim on one.                    *)

Sits(k, c, p) == at[p] = c /\ (p \in mounted \/ (k = "kept" /\ p \in Recognised))

Excused(k) == IF k = "live" THEN warned ELSE reclaimed

Claims(p, s) == marker[s] = p \/ (s = p /\ marker[s] = None)

\* A clone lies at one path, which is the root of its call; one that lies
\* nowhere works nowhere.
Places ==
  /\ \A p, q \in Paths : p # q /\ at[p] = at[q] => at[p] = None
  /\ \A c \in Clones : pc[c] # "idle" => at[root[c]] = c
  /\ \A c \in Clones : uses[c] # None => \E p \in Paths : at[p] = c

\* Files lie in directories, and only an adopted scope is not one's own.
Made ==
  /\ origins \subseteq dirs
  /\ \A s \in Scopes : marker[s] # None => s \in dirs
  /\ \A c \in Clones :
       /\ pc[c] \in {"reclaim", "mark", "markNew", "originNew"} => target[c] \in dirs
       /\ pc[c] \notin {"idle", "mark", "return"} => target[c] = root[c]

\* What a call found is still so while no other call is in progress, and the
\* scope it returns is one its clone has a claim on.
Alone ==
  ~overlapped =>
    /\ Serial
    /\ \A c \in Clones :
         /\ pc[c] \in {"origin", "scan", "create"} => root[c] \notin dirs
         /\ pc[c] = "originNew" => marker[target[c]] = root[c]
         /\ pc[c] = "return" => Claims(root[c], target[c])

Held(k) ==
  ~overlapped =>
    \A c \in Clones, p \in Paths :
      Sits(k, c, p) /\ uses[c] # None /\ uses[c] \notin Excused(k) => Claims(p, uses[c])

\* The scope that a call is about to mark is not another's.
Taking(k) ==
  ~overlapped =>
    \A e \in Clones : pc[e] \in {"mark", "markNew"} =>
      \A c \in Clones \ {e}, p \in Paths :
        Sits(k, c, p) /\ uses[c] = target[e] => target[e] \in Excused(k)

HInv ==
  IInv /\ Places /\ Made /\ Alone /\ \A k \in {"live", "kept"} : Held(k) /\ Taking(k)

LEMMA InitHeld == Init => HInv
<1> SUFFICES ASSUME Init PROVE HInv
  OBVIOUS
<1>1. IInv
  BY InitType DEF Init, IInv, Bound, MarkedFirst, MarkedBeforeFound
<1>2. Places /\ Alone /\ Serial
  BY DEF Init, Places, Alone, Serial
<1>3. Made
  BY DEF Init, Made
<1>4. \A k \in {"live", "kept"} : Held(k) /\ Taking(k)
  BY DEF Init, Held, Taking
<1> QED
  BY <1>1, <1>2, <1>3, <1>4 DEF HInv

LEMMA StepPlaces ==
  ASSUME HInv, NEW c \in Clones, Step(c)
  PROVE  Places'
<1> USE NoneIsNoPath DEF HInv, IInv, TypeOK, Bound, Places, Goes, world, files
<1>1. CASE Call(c)
  BY <1>1 DEF Call
<1>2. CASE CheckExists(c)
  BY <1>2 DEF CheckExists
<1>3. CASE Reclaim(c)
  BY <1>3 DEF Reclaim
<1>4. CASE ReadOrigin(c)
  BY <1>4 DEF ReadOrigin
<1>5. CASE Examine(c)
  BY <1>5 DEF Examine
<1>6. CASE ScanEnds(c)
  BY <1>6 DEF ScanEnds
<1>7. CASE Mark(c)
  BY <1>7 DEF Mark
<1>8. CASE Create(c)
  BY <1>8 DEF Create
<1>9. CASE WriteOrigin(c)
  BY <1>9 DEF WriteOrigin
<1>10. CASE Return(c)
  BY <1>10 DEF Return
<1> QED
  BY <1>1, <1>2, <1>3, <1>4, <1>5, <1>6, <1>7, <1>8, <1>9, <1>10 DEF Step

LEMMA StepMade ==
  ASSUME HInv, NEW c \in Clones, Step(c)
  PROVE  Made'
<1> USE NoneIsNoPath DEF HInv, IInv, TypeOK, Bound, Made, Goes, world, files, Scopes
<1>1. CASE Call(c)
  BY <1>1 DEF Call
<1>2. CASE CheckExists(c)
  BY <1>2 DEF CheckExists
<1>3. CASE Reclaim(c)
  BY <1>3 DEF Reclaim
<1>4. CASE ReadOrigin(c)
  BY <1>4 DEF ReadOrigin
<1>5. CASE Examine(c)
  BY <1>5 DEF Examine, Adoptable
<1>6. CASE ScanEnds(c)
  BY <1>6 DEF ScanEnds
<1>7. CASE Mark(c)
  BY <1>7 DEF Mark
<1>8. CASE Create(c)
  BY <1>8 DEF Create
<1>9. CASE WriteOrigin(c)
  BY <1>9 DEF WriteOrigin
<1>10. CASE Return(c)
  BY <1>10 DEF Return
<1> QED
  BY <1>1, <1>2, <1>3, <1>4, <1>5, <1>6, <1>7, <1>8, <1>9, <1>10 DEF Step

LEMMA StepAlone ==
  ASSUME HInv, NEW c \in Clones, Step(c)
  PROVE  Alone'
<1> USE NoneIsNoPath DEF HInv, IInv, TypeOK, Bound, Made, Alone, Serial, Claims, Goes, world, files
<1>1. CASE Call(c)
  <2> SUFFICES ASSUME ~overlapped' PROVE Alone'
    OBVIOUS
  <2>1. \A d \in Clones : d # c => pc[d] = "idle"
    BY <1>1 DEF Call
  <2>2. \A d \in Clones : pc'[d] = IF d = c THEN "exists" ELSE "idle"
    BY <1>1, <2>1 DEF Call
  <2> QED
    BY <2>2
<1>2. CASE CheckExists(c)
  BY <1>2 DEF CheckExists
<1>3. CASE Reclaim(c)
  BY <1>3 DEF Reclaim
<1>4. CASE ReadOrigin(c)
  BY <1>4 DEF ReadOrigin
<1>5. CASE Examine(c)
  BY <1>5 DEF Examine
<1>6. CASE ScanEnds(c)
  BY <1>6 DEF ScanEnds
<1>7. CASE Mark(c)
  BY <1>7 DEF Mark
<1>8. CASE Create(c)
  BY <1>8 DEF Create
<1>9. CASE WriteOrigin(c)
  BY <1>9 DEF WriteOrigin
<1>10. CASE Return(c)
  BY <1>10 DEF Return
<1> QED
  BY <1>1, <1>2, <1>3, <1>4, <1>5, <1>6, <1>7, <1>8, <1>9, <1>10 DEF Step

\* Two clones at different paths cannot both have a claim.
LEMMA ClaimsExclude ==
  ASSUME IInv, NEW p \in Paths, NEW q \in Paths, NEW s \in Scopes,
         Claims(p, s), Claims(q, s)
  PROVE  p = q
  BY NoneIsNoPath DEF Claims

\* What no call changes, or only adds to.
LEMMA StepFrame ==
  ASSUME NEW c \in Clones, Step(c)
  PROVE  /\ at' = at /\ mounted' = mounted
         /\ warned \subseteq warned' /\ reclaimed \subseteq reclaimed'
         /\ ~overlapped' => ~overlapped
<1>1. CASE Call(c)
  <2>1. overlapped' = (overlapped \/ \E d \in Clones \ {c} : pc[d] # "idle")
    BY <1>1 DEF Call
  <2>2. ~overlapped' => ~overlapped
    BY <2>1, Zenon
  <2> QED
    BY <1>1, <2>2 DEF Call, world
<1>2. CASE Reclaim(c)
  BY <1>2 DEF Reclaim, world
<1>3. CASE ~Call(c) /\ ~Reclaim(c)
  BY <1>3 DEF Step, CheckExists, ReadOrigin, Examine, ScanEnds, Mark, Create, WriteOrigin,
              Return, world
<1> QED
  BY <1>1, <1>2, <1>3

LEMMA StepHeld ==
  ASSUME HInv, NEW c \in Clones, Step(c), NEW k \in {"live", "kept"}
  PROVE  Held(k)'
<1> SUFFICES ASSUME ~overlapped',
                    NEW d \in Clones, NEW p \in Paths, Sits(k, d, p)',
                    NEW s \in Scopes, uses'[d] = s, s \notin Excused(k)'
             PROVE  Claims(p, s)'
  <2>1. \A d \in Clones : uses'[d] \in Scopes \union {None}
    BY StepType DEF HInv, IInv, TypeOK
  <2> QED
    BY <2>1 DEF Held
<1>1. ~overlapped /\ Sits(k, d, p)
  BY StepFrame DEF Sits
<1>2. s \notin Excused(k) /\ s # None
  BY StepFrame, NoneIsNoPath DEF Excused
<1>3. uses[d] = s => Claims(p, s)
  BY <1>1, <1>2 DEF HInv, Held
<1>4. CASE Mark(c)
  <2>1. uses' = uses /\ marker' = [marker EXCEPT ![target[c]] = root[c]]
        /\ pc[c] \in {"mark", "markNew"}
    BY <1>4 DEF Mark, Goes
  <2>2. uses[d] = s
    BY <2>1
  <2>3. root[c] \in Paths /\ at[root[c]] = c /\ target[c] \in Scopes
    BY <2>1 DEF HInv, IInv, Bound, Places
  <2>4. CASE s # target[c]
    BY <2>1, <2>2, <2>4, <1>3 DEF Claims, HInv, IInv, TypeOK
  <2>5. CASE s = target[c]
    <3>1. d = c
      BY <1>1, <1>2, <2>1, <2>2, <2>5 DEF HInv, Taking
    <3>2. p = root[c]
      BY <3>1, <2>3, <1>1, NameAssumption DEF HInv, Places, Sits
    <3> QED
      BY <3>2, <2>1, <2>3, <2>5 DEF Claims, HInv, IInv, TypeOK
  <2> QED
    BY <2>4, <2>5
<1>5. CASE Return(c)
  <2>1. marker' = marker /\ uses' = [uses EXCEPT ![c] = target[c]] /\ pc[c] = "return"
    BY <1>5 DEF Return, Goes, files
  <2>2. CASE d = c
    <3>1. root[c] \in Paths /\ at[root[c]] = c /\ Claims(root[c], target[c])
      BY <2>1, <1>1 DEF HInv, IInv, Bound, Places, Alone
    <3>2. p = root[c]
      BY <2>2, <3>1, <1>1, NameAssumption DEF HInv, Places, Sits
    <3> QED
      BY <2>1, <2>2, <3>1, <3>2 DEF Claims, HInv, IInv, TypeOK
  <2>3. CASE d # c
    BY <2>1, <2>3, <1>2, <1>3 DEF Claims, HInv, IInv, TypeOK
  <2> QED
    BY <2>2, <2>3
<1>6. CASE ~Mark(c) /\ ~Return(c)
  <2>1. marker' = marker /\ uses' = uses
    BY <1>6 DEF Step, Call, CheckExists, Reclaim, ReadOrigin, Examine, ScanEnds, Create,
                WriteOrigin, files
  <2> QED
    BY <2>1, <1>2, <1>3 DEF Claims
<1> QED
  BY <1>4, <1>5, <1>6

\* A call takes a scope to mark it in three places: it is named for its root,
\* it is adopted, or it is new.
LEMMA StepTaking ==
  ASSUME HInv, NEW c \in Clones, Step(c), NEW k \in {"live", "kept"}
  PROVE  Taking(k)'
<1> SUFFICES ASSUME ~overlapped',
                    NEW e \in Clones, pc'[e] \in {"mark", "markNew"},
                    NEW d \in Clones \ {e}, NEW p \in Paths,
                    Sits(k, d, p)', uses'[d] = target'[e]
             PROVE  target'[e] \in Excused(k)'
  BY DEF Taking
<1>1. ~overlapped /\ at' = at /\ Sits(k, d, p)
  BY StepFrame DEF Sits
<1>2. c = e /\ pc[c] \in {"reclaim", "scan", "create"}
  <2>1. pc[c] # "idle" \/ Call(c)
    BY DEF Step, Call, CheckExists, Reclaim, ReadOrigin, Examine, ScanEnds, Mark, Create,
           WriteOrigin, Return, Goes
  <2>2. e # c => pc[e] = pc'[e]
    BY DEF Step, Call, CheckExists, Reclaim, ReadOrigin, Examine, ScanEnds, Mark, Create,
           WriteOrigin, Return, Goes, HInv, IInv, TypeOK
  <2>3. e = c
    <3> SUFFICES ASSUME e # c PROVE FALSE
      OBVIOUS
    <3>1. pc[e] # "idle"
      BY <2>2
    <3>2. CASE Call(c)
      BY <3>1, <3>2 DEF Call
    <3>3. CASE pc[c] # "idle"
      BY <3>1, <3>3, <1>1 DEF HInv, Alone, Serial
    <3> QED
      BY <2>1, <3>2, <3>3
  <2> QED
    BY <2>3 DEF Step, Call, CheckExists, Reclaim, ReadOrigin, Examine, ScanEnds, Mark, Create,
           WriteOrigin, Return, Goes, HInv, IInv, TypeOK
<1>3. root[c] \in Paths /\ p # root[c] /\ d \in Clones /\ at[p] = d
  BY <1>1, <1>2, NameAssumption DEF HInv, IInv, Bound, Places, Sits
<1>4. \A s \in Scopes : uses[d] = s /\ s \notin Excused(k) => Claims(p, s)
  BY <1>1, NoneIsNoPath DEF HInv, Held
<1>5. Resolves(p) \/ (k = "kept" /\ TransientlyUnavailable(p))
  BY <1>1, <1>3, NameAssumption DEF Sits, Resolves, TransientlyUnavailable
<1>6. CASE Reclaim(c)
  <2>1. /\ target'[e] = root[c] /\ uses[d] = root[c] /\ root[c] \in Scopes
        /\ ~(marker[root[c]] # None /\ Resolves(marker[root[c]]) /\ marker[root[c]] = root[c])
    BY <1>2, <1>3, <1>6 DEF Reclaim, Goes, HInv, IInv, TypeOK, Made, Scopes
  <2>2. CASE root[c] \in Excused(k)
    BY <2>1, <2>2, StepFrame DEF Excused
  <2>3. CASE root[c] \notin Excused(k)
    <3>1. marker[root[c]] = p
      BY <1>3, <1>4, <2>1, <2>3 DEF Claims
    <3>2. root[c] \in reclaimed' /\ (Resolves(p) => root[c] \in warned')
      BY <3>1, <1>3, <1>6, NoneIsNoPath DEF Reclaim
    <3> QED
      BY <3>2, <2>1, <1>1, <1>3, NameAssumption DEF Excused, Sits, Resolves
  <2> QED
    BY <2>2, <2>3
<1>7. CASE Examine(c)
  <2>1. PICK s \in todo[c] : /\ Adoptable(c, s) /\ target' = [target EXCEPT ![c] = s]
                             /\ uses' = uses /\ warned' = warned /\ reclaimed' = reclaimed
    BY <1>2, <1>7 DEF Examine, Goes, HInv, IInv, TypeOK
  <2>2. s \in Scopes /\ target'[e] = s /\ uses[d] = s /\ s \in origins
    BY <1>2, <2>1 DEF HInv, IInv, TypeOK, Adoptable
  <2>3. ~Claims(p, s)
    <3>1. CASE s = p
      <4>1. marker[s] # None
        BY <2>2, <3>1, NameAssumption DEF HInv, IInv, MarkedBeforeFound
      <4> QED
        BY <4>1, <2>1, <1>3, <1>5, <3>1, NoneIsNoPath
           DEF Claims, Adoptable, Resolves, TransientlyUnavailable
    <3>2. CASE s # p
      BY <2>1, <1>3, <1>5, <3>2, NoneIsNoPath
         DEF Claims, Adoptable, Resolves, TransientlyUnavailable
    <3> QED
      BY <3>1, <3>2
  <2> QED
    BY <1>4, <2>1, <2>2, <2>3 DEF Excused
<1>8. CASE Create(c)
  <2>1. /\ target'[e] = root[c] /\ uses[d] = root[c] /\ root[c] \in Scopes
        /\ root[c] \notin dirs
        /\ warned' = warned /\ reclaimed' = reclaimed
    BY <1>2, <1>3, <1>8 DEF Create, Goes, HInv, IInv, TypeOK, Made, Scopes
  <2>2. ~Claims(p, root[c])
    BY <2>1, <1>3, NoneIsNoPath DEF Claims, HInv, Made
  <2> QED
    BY <1>4, <2>1, <2>2 DEF Excused
<1>9. ~ScanEnds(c)
  BY <1>2 DEF ScanEnds, Goes, HInv, IInv, TypeOK
<1> QED
  BY <1>2, <1>6, <1>7, <1>8, <1>9 DEF Step, Call, CheckExists, ReadOrigin, Mark,
       WriteOrigin, Return, Goes

\* Whatever happens in the world, who sits somewhere and works in a scope after
\* it sat there and worked in it before.
LEMMA WorldSits ==
  ASSUME HInv, World, NEW k \in {"live", "kept"}, NEW c \in Clones, NEW p \in Paths,
         Sits(k, c, p)', uses'[c] # None
  PROVE  Sits(k, c, p) /\ uses'[c] = uses[c]
<1> USE NameAssumption DEF HInv, IInv, TypeOK, Sits
<1>1. ASSUME NEW q \in Paths, Delete(q) PROVE Sits(k, c, p) /\ uses'[c] = uses[c]
  BY <1>1 DEF Delete, Stops
<1>2. ASSUME NEW q \in Paths, Unmount(q) PROVE Sits(k, c, p) /\ uses'[c] = uses[c]
  BY <1>2 DEF Unmount
<1>3. ASSUME NEW q \in Paths, Mount(q) PROVE Sits(k, c, p) /\ uses'[c] = uses[c]
  BY <1>3 DEF Mount
<1>4. ASSUME NEW e \in Clones, Crash(e) PROVE Sits(k, c, p) /\ uses'[c] = uses[c]
  BY <1>4 DEF Crash, Stops
<1>5. ASSUME NEW e \in Clones, NEW q \in Paths, CloneTo(e, q)
      PROVE  Sits(k, c, p) /\ uses'[c] = uses[c]
  BY <1>5 DEF CloneTo, Placed, Places
<1>6. ASSUME NEW q \in Paths, NEW r \in Paths, Move(q, r)
      PROVE  Sits(k, c, p) /\ uses'[c] = uses[c]
  BY <1>6 DEF Move
<1> QED
  BY <1>1, <1>2, <1>3, <1>4, <1>5, <1>6 DEF World

LEMMA WorldFrame ==
  ASSUME HInv, World
  PROVE  /\ files' = files /\ warned' = warned /\ reclaimed' = reclaimed
         /\ overlapped' = overlapped
         /\ \A c \in Clones :
              pc'[c] # "idle" => pc'[c] = pc[c] /\ root'[c] = root[c] /\ target'[c] = target[c]
<1>1. /\ files' = files /\ warned' = warned /\ reclaimed' = reclaimed
      /\ overlapped' = overlapped
  BY DEF World, Delete, Unmount, Mount, Crash, CloneTo, Move
<1>2. \A c \in Clones :
        pc'[c] # "idle" => pc'[c] = pc[c] /\ root'[c] = root[c] /\ target'[c] = target[c]
  BY DEF World, Delete, Unmount, Mount, Crash, CloneTo, Move, Stops, HInv, IInv, TypeOK
<1> QED
  BY <1>1, <1>2

LEMMA WorldPlaces ==
  ASSUME HInv, World
  PROVE  Places'
<1> USE NameAssumption DEF HInv, IInv, TypeOK, Bound, Places
<1>1. ASSUME NEW q \in Paths, Delete(q) PROVE Places'
  BY <1>1 DEF Delete, Stops
<1>2. ASSUME NEW q \in Paths, Unmount(q) PROVE Places'
  BY <1>2 DEF Unmount
<1>3. ASSUME NEW q \in Paths, Mount(q) PROVE Places'
  BY <1>3 DEF Mount
<1>4. ASSUME NEW e \in Clones, Crash(e) PROVE Places'
  BY <1>4 DEF Crash, Stops
<1>5. ASSUME NEW e \in Clones, NEW q \in Paths, CloneTo(e, q) PROVE Places'
  BY <1>5 DEF CloneTo, Placed
<1>6. ASSUME NEW q \in Paths, NEW r \in Paths, Move(q, r) PROVE Places'
  BY <1>6 DEF Move
<1> QED
  BY <1>1, <1>2, <1>3, <1>4, <1>5, <1>6 DEF World

LEMMA WorldHeld ==
  ASSUME HInv, World
  PROVE  Made' /\ Alone' /\ \A k \in {"live", "kept"} : Held(k)' /\ Taking(k)'
<1>1. Made'
  BY WorldFrame DEF HInv, Made, files
<1>2. Alone'
  BY WorldFrame DEF HInv, Alone, Serial, Claims, files
<1>3. ASSUME NEW k \in {"live", "kept"} PROVE Held(k)'
  BY WorldFrame, WorldSits DEF HInv, Held, Claims, Excused, files
<1>4. ASSUME NEW k \in {"live", "kept"} PROVE Taking(k)'
  <2> SUFFICES ASSUME ~overlapped', NEW e \in Clones, pc'[e] \in {"mark", "markNew"},
                      NEW d \in Clones \ {e}, NEW p \in Paths,
                      Sits(k, d, p)', uses'[d] = target'[e]
               PROVE  target'[e] \in Excused(k)'
    BY DEF Taking
  <2>1. pc[e] = pc'[e] /\ target'[e] = target[e] /\ target[e] \in Scopes /\ ~overlapped
    BY WorldFrame DEF HInv, IInv, Bound
  <2>2. Sits(k, d, p) /\ uses[d] = target[e]
    BY <2>1, WorldSits, NoneIsNoPath
  <2> QED
    BY <2>1, <2>2, WorldFrame DEF HInv, Taking, Excused
<1> QED
  BY <1>1, <1>2, <1>3, <1>4

\* The whole invariant, at every state (scoped_state_root and its helpers).
THEOREM ClaimsInvariance == Spec => []HInv
<1>1. HInv /\ [Next]_vars => HInv'
  <2> SUFFICES ASSUME HInv, [Next]_vars PROVE HInv'
    OBVIOUS
  <2>1. IInv'
    BY IStep DEF HInv
  <2>2. CASE World
    BY <2>1, <2>2, WorldPlaces, WorldHeld DEF HInv
  <2>3. ASSUME NEW c \in Clones, Step(c) PROVE HInv'
    BY <2>1, <2>3, StepPlaces, StepMade, StepAlone, StepHeld, StepTaking DEF HInv
  <2>4. CASE UNCHANGED vars
    BY <2>1, <2>4 DEF vars, world, files, HInv, Places, Made, Alone, Serial, Held, Taking,
                      Sits, Excused, Claims
  <2> QED
    BY <2>2, <2>3, <2>4 DEF Next
<1> QED
  BY <1>1, InitHeld, PTL DEF Spec

\* As long as no two calls overlap, two live clones of one remote work in one
\* scope only if reclaim_scope_marker_if_foreign has warned about it.
THEOREM NeverSilent == Spec => []SerialSharingIsWarned
<1>1. HInv => SerialSharingIsWarned
  <2> SUFFICES ASSUME HInv, ~overlapped, NEW s \in Shared PROVE s \in warned
    BY DEF SerialSharingIsWarned
  <2>1. PICK c \in Clones, d \in Clones :
          s \in Scopes /\ c # d /\ Live(c) /\ Live(d) /\ uses[c] = s /\ uses[d] = s
    BY DEF Shared
  <2>2. PICK p \in Paths : Sits("live", c, p)
    BY <2>1 DEF Live, Resolves, Sits
  <2>3. PICK q \in Paths : Sits("live", d, q)
    BY <2>1 DEF Live, Resolves, Sits
  <2>4. s \notin warned => Claims(p, s) /\ Claims(q, s)
    BY <2>1, <2>2, <2>3, NoneIsNoPath DEF HInv, Held, Excused
  <2> QED
    BY <2>1, <2>2, <2>3, <2>4, ClaimsExclude DEF HInv, Sits
<1> QED
  BY <1>1, ClaimsInvariance, PTL

\* As long as no two calls overlap, nobody works in the scope of a clone whose
\* volume find_existing_scope_by_origin recognises as away, unless it was taken
\* back from the path it is named for.
THEOREM AwayIsKept == Spec => []AwayKeepsScope
<1>1. HInv => AwayKeepsScope
  <2> SUFFICES ASSUME HInv, ~overlapped, NEW c \in Clones, NEW d \in Clones,
                      NEW p \in Recognised \ mounted,
                      at[p] = c, c # d, uses[c] # None, uses[d] = uses[c], Live(d)
               PROVE  uses[d] \in reclaimed
    BY DEF AwayKeepsScope
  <2>1. p \in Paths /\ Sits("kept", c, p) /\ uses[c] \in Scopes
    BY RecognisedAssumption DEF Sits, HInv, IInv, TypeOK
  <2>2. PICK q \in Paths : Sits("kept", d, q)
    BY DEF Live, Resolves, Sits
  <2>3. uses[c] \notin reclaimed => Claims(p, uses[c]) /\ Claims(q, uses[c])
    BY <2>1, <2>2 DEF HInv, Held, Excused
  <2> QED
    BY <2>1, <2>2, <2>3, ClaimsExclude DEF HInv, Sits
<1> QED
  BY <1>1, ClaimsInvariance, PTL

=============================================================================
