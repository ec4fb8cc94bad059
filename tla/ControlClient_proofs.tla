------------------------ MODULE ControlClient_proofs ------------------------
(***************************************************************************)
(* Proofs about ControlClient for any calls, subscriptions, buffer sizes   *)
(* and numbers of events: typing, that the tables keep nothing that is     *)
(* over, that back-pressure loses nothing, and that a subscription is the  *)
(* event stream it promises (EventStream).                                 *)
(***************************************************************************)
EXTENDS ControlClient, SequenceTheorems, TLAPS

Events == 1..MaxEvents
InUse == {"tabled", "await", "ok"}

\* ToldOf, FollowOn and WireCarries, of any sequences: q has told n events, it goes on
\* after n, w carries the events of s after m
\* to the n-th, and nothing follows a "closed" on it.
Exactly(q, n) == InOrder(q) /\ Entries(q) = (1..n) \ Undecodable
Follows(q, n) == \A k \in DOMAIN q : q[k] = n + k
Of(w, s) == {k \in DOMAIN w : w[k].kind = "event" /\ w[k].id = s}
Carries(w, s, m, n) ==
  /\ \A k \in Of(w, s) : w[k].val \in m+1..n
  /\ \A v \in m+1..n : \E k \in Of(w, s) : w[k].val = v
  /\ \A j, k \in Of(w, s) : j < k => w[j].val < w[k].val

ClosedLast(w, sv) ==
  \A k \in DOMAIN w :
    w[k].kind = "closed" => sv[w[k].id] = "closed" /\ \A j \in Of(w, w[k].id) : j < k

\* Where the reader is says what it holds, and that the wire is at its end.
ReaderAt ==
  /\ IF reader = "sending" THEN Len(held) = 1 /\ held[1].kind = "event" ELSE held = <<>>
  /\ reader \in {"ending", "clearing", "done"} => wire = <<>> /\ link # "open"

\* A request that has its answer is not waited for, and one is answered "closed" only
\* once the reader has drained the callers.
Answered ==
  \A r \in Reqs :
    /\ phase[r] = "idle" => r \notin pending /\ answer[r] = "none"
    /\ answer[r] # "none" => r \notin pending
    /\ answer[r] = "closed" => reader \in {"clearing", "done", "aborted"}

\* Nothing has happened on a stream the daemon does not serve yet.
Untouched(s) ==
  /\ sent[s] = 0 /\ OnWire(s) = {} /\ WithReader(s) = <<>>
  /\ got[s] = <<>> /\ itemq[s] = <<>> /\ hand[s] = <<>> /\ rawq[s] = <<>>

\* What the daemon has not been asked for, or has not answered, it does not serve.
ServedAs(s) ==
  /\ phase[s] \in {"idle", "registered", "tabled"} => s \notin inbox /\ serving[s] = "no"
  /\ s \in inbox => serving[s] = "no"

\* Nothing follows a "closed".
Served ==
  /\ \A s \in Subs : ServedAs(s) /\ (serving[s] = "no" => Untouched(s))
  /\ ClosedLast(wire, serving)

\* No event of s is on its way any more, and none will be.
Over(s) ==
  OnWire(s) = {} /\ WithReader(s) = <<>> /\ (link # "open" \/ serving[s] = "closed")

\* Where the events of s are; a reader that was aborted has left its own and the wire's.
AccountedFor(s, n) ==
  LET m == n + Len(Untold(s)) IN
  /\ Exactly(Told(s), n) /\ Follows(Untold(s), n) /\ m <= sent[s]
  /\ reader # "aborted" => Carries(wire, s, m, sent[s])
  /\ s \notin subs => m = sent[s]

\* A subscription in use.
Used(s) ==
  /\ s \notin subs => Over(s)
  /\ phase[s] = "ok" /\ ~decoding[s] =>
       s \notin subs /\ rawq[s] = <<>> /\ hand[s] = <<>>
  /\ \E n \in 0..sent[s] : AccountedFor(s, n)

UsedOK == \A s \in Subs : phase[s] \in InUse => Used(s)

IInv == TypeOK /\ ReaderAt /\ Answered /\ TablesTidy /\ Served /\ UsedOK

----------------------------------------------------------------------------
(* Sequences of events.                                                    *)

LEMMA EventFrame ==
  ASSUME NEW f \in Frames, f.kind = "event"
  PROVE  f.id \in Subs /\ f.val \in Events
BY DEF Frames, Response, Event, Closed, Events

LEMMA ClosedFrame ==
  ASSUME NEW f \in Frames, f.kind = "closed"
  PROVE  f.id \in Subs
BY DEF Frames, Response, Event, Closed

LEMMA FrameTypes ==
  ASSUME NEW s \in Subs
  PROVE  /\ \A n \in Events : Event(s, n) \in Frames /\ Event(s, n).kind = "event"
                               /\ Event(s, n).id = s /\ Event(s, n).val = n
         /\ Closed(s) \in Frames /\ Closed(s).kind = "closed" /\ Closed(s).id = s
BY DEF Frames, Event, Closed, Events

\* Taking the next event that decodes, and passing over one that does not.
LEMMA ExactlyNext ==
  ASSUME NEW q \in Seq(Nat), NEW n \in Nat, Exactly(q, n)
  PROVE  /\ n + 1 \in Undecodable => Exactly(q, n + 1)
         /\ n + 1 \notin Undecodable => Exactly(Append(q, n + 1), n + 1)
<1>1. CASE n + 1 \in Undecodable
  BY <1>1 DEF Exactly
<1>2. CASE n + 1 \notin Undecodable
  <2> DEFINE p == Append(q, n + 1)
  <2>1. /\ Len(p) = Len(q) + 1 /\ Len(q) \in Nat /\ DOMAIN q = 1..Len(q)
        /\ DOMAIN p = 1..Len(p)
        /\ \A k \in 1..Len(q) : p[k] = q[k]
        /\ p[Len(q) + 1] = n + 1
    BY AppendProperties, LenProperties
  <2> HIDE DEF p
  <2>2. \A k \in DOMAIN q : q[k] \in 1..n
    BY DEF Exactly, Entries
  <2>3. InOrder(p)
    <3> SUFFICES ASSUME NEW j \in DOMAIN p, NEW k \in DOMAIN p, j < k PROVE p[j] < p[k]
      BY DEF InOrder
    <3>1. j \in DOMAIN q
      BY <2>1
    <3>2. CASE k \in DOMAIN q
      BY <3>1, <3>2, <2>1 DEF Exactly, InOrder
    <3>3. CASE k = Len(q) + 1
      BY <3>1, <3>3, <2>1, <2>2
    <3> QED
      BY <3>2, <3>3, <2>1
  <2>4. Entries(p) = Entries(q) \union {n + 1}
    BY <2>1 DEF Entries
  <2>5. Entries(p) = (1..n+1) \ Undecodable
    BY <2>4, <1>2 DEF Exactly
  <2> QED
    BY <2>3, <2>5, <1>2 DEF Exactly, p
<1> QED
  BY <1>1, <1>2

\* The first of those that follow is the next; the others follow it.
LEMMA FollowsTail ==
  ASSUME NEW q \in Seq(Nat), q # <<>>, NEW n \in Nat, Follows(q, n)
  PROVE  Head(q) = n + 1 /\ Follows(Tail(q), n + 1) /\ Len(Tail(q)) = Len(q) - 1
<1>1. /\ Len(q) \in Nat \ {0} /\ DOMAIN q = 1..Len(q) /\ Head(q) = q[1]
      /\ Tail(q) \in Seq(Nat) /\ Len(Tail(q)) = Len(q) - 1
      /\ \A k \in 1..Len(Tail(q)) : Tail(q)[k] = q[k + 1]
  BY EmptySeq, LenProperties, HeadTailProperties
<1>2. DOMAIN Tail(q) = 1..Len(Tail(q))
  BY <1>1, LenProperties
<1>3. ASSUME NEW k \in 1..Len(Tail(q)) PROVE Tail(q)[k] = (n + 1) + k
  <2>1. k + 1 \in DOMAIN q /\ k \in Nat
    BY <1>1
  <2>2. q[k + 1] = n + (k + 1)
    BY <2>1 DEF Follows
  <2>3. n + (k + 1) = (n + 1) + k
    BY <2>1
  <2> QED
    BY <2>2, <2>3, <1>1
<1> QED
  BY <1>1, <1>2, <1>3 DEF Follows

LEMMA FollowsAppend ==
  ASSUME NEW q \in Seq(Nat), NEW n \in Nat, Follows(q, n)
  PROVE  Follows(Append(q, n + Len(q) + 1), n)
<1> DEFINE p == Append(q, n + Len(q) + 1)
<1>1. Len(q) \in Nat /\ DOMAIN q = 1..Len(q)
  BY LenProperties
<1>2. n + Len(q) + 1 \in Nat
  BY <1>1
<1>3. /\ p \in Seq(Nat) /\ Len(p) = Len(q) + 1
      /\ \A k \in 1..Len(q) : p[k] = q[k]
      /\ p[Len(q) + 1] = n + Len(q) + 1
  BY <1>1, <1>2, AppendProperties
<1>4. DOMAIN p = 1..Len(p)
  BY <1>3, LenProperties
<1> HIDE DEF p
<1>5. Follows(p, n)
  BY <1>1, <1>3, <1>4 DEF Follows
<1> QED
  BY <1>5 DEF p

\* Reading the wire moves what is left by one.
Shrinks(w, s) ==
  /\ \A k \in Of(Tail(w), s) : k + 1 \in Of(w, s) /\ Tail(w)[k] = w[k + 1] /\ k \in Nat
  /\ \A k \in Of(w, s) :
       k # 1 => k - 1 \in Of(Tail(w), s) /\ k \in Nat /\ Tail(w)[k - 1] = w[k]
  /\ 1 \in Of(w, s) <=> Head(w).kind = "event" /\ Head(w).id = s

LEMMA OfTail ==
  ASSUME NEW w \in Seq(Frames), w # <<>>, NEW s
  PROVE  Shrinks(w, s)
<1>1. /\ Len(w) \in Nat \ {0} /\ DOMAIN w = 1..Len(w) /\ Head(w) = w[1]
      /\ Tail(w) \in Seq(Frames) /\ Len(Tail(w)) = Len(w) - 1
      /\ \A k \in 1..Len(Tail(w)) : Tail(w)[k] = w[k + 1]
  BY EmptySeq, LenProperties, HeadTailProperties
<1>2. DOMAIN Tail(w) = 1..Len(Tail(w))
  BY <1>1, LenProperties
<1>3. ASSUME NEW k \in Of(Tail(w), s)
      PROVE k + 1 \in Of(w, s) /\ Tail(w)[k] = w[k + 1] /\ k \in Nat
  BY <1>1, <1>2 DEF Of
<1>4. ASSUME NEW k \in Of(w, s), k # 1
      PROVE k - 1 \in Of(Tail(w), s) /\ k \in Nat /\ Tail(w)[k - 1] = w[k]
  <2>1. k - 1 \in 1..Len(Tail(w)) /\ (k - 1) + 1 = k
    BY <1>1, <1>4 DEF Of
  <2>2. Tail(w)[k - 1] = w[k]
    BY <2>1, <1>1
  <2> QED
    BY <2>1, <2>2, <1>1, <1>2 DEF Of
<1> QED
  BY <1>1, <1>3, <1>4 DEF Of, Shrinks

\* A frame that is no event of s leaves those of s there, ...
LEMMA CarriesOther ==
  ASSUME NEW w \in Seq(Frames), w # <<>>, NEW s, NEW m, NEW n, Carries(w, s, m, n),
         ~(Head(w).kind = "event" /\ Head(w).id = s)
  PROVE  Carries(Tail(w), s, m, n)
<1>0. Shrinks(w, s)
  BY OfTail
<1>1. \A k \in Of(w, s) : k - 1 \in Of(Tail(w), s) /\ k \in Nat /\ Tail(w)[k - 1] = w[k]
  <2>1. \A k \in Of(w, s) : k # 1
    BY <1>0 DEF Shrinks
  <2> QED
    BY <1>0, <2>1 DEF Shrinks
<1>2. \A k \in Of(Tail(w), s) : k + 1 \in Of(w, s) /\ Tail(w)[k] = w[k + 1] /\ k \in Nat
  BY <1>0 DEF Shrinks
<1>3. \A k \in Of(Tail(w), s) : Tail(w)[k].val \in m+1..n
  BY <1>2 DEF Carries
<1>5. \A v \in m+1..n : \E k \in Of(Tail(w), s) : Tail(w)[k].val = v
  <2> SUFFICES ASSUME NEW v \in m+1..n PROVE \E k \in Of(Tail(w), s) : Tail(w)[k].val = v
    OBVIOUS
  <2>1. PICK k \in Of(w, s) : w[k].val = v
    BY DEF Carries
  <2> QED
    BY <2>1, <1>1
<1>4. ASSUME NEW j \in Of(Tail(w), s), NEW k \in Of(Tail(w), s), j < k
      PROVE  Tail(w)[j].val < Tail(w)[k].val
  <2>1. j + 1 \in Of(w, s) /\ k + 1 \in Of(w, s) /\ j + 1 < k + 1
    BY <1>2, <1>4
  <2> QED
    BY <2>1, <1>2 DEF Carries
<1> QED
  BY <1>3, <1>4, <1>5 DEF Carries

\* ... and an event of s at the head is the next.
LEMMA CarriesNext ==
  ASSUME NEW w \in Seq(Frames), w # <<>>, NEW s, NEW m \in Nat, NEW n \in Nat,
         Carries(w, s, m, n), Head(w).kind = "event", Head(w).id = s
  PROVE  Head(w).val = m + 1 /\ m < n /\ Carries(Tail(w), s, m + 1, n)
<1>1. Len(w) \in Nat \ {0} /\ DOMAIN w = 1..Len(w) /\ Head(w) = w[1]
  BY EmptySeq, LenProperties, HeadTailProperties
<1>2. 1 \in Of(w, s)
  BY <1>1 DEF Of
<1>3. w[1].val \in m+1..n
  BY <1>2 DEF Carries
<1>4. PICK k1 \in Of(w, s) : w[k1].val = m + 1
  BY <1>3 DEF Carries
<1>5. k1 = 1
  <2>1. k1 \in Nat /\ k1 >= 1
    BY <1>1 DEF Of
  <2>2. 1 < k1 => w[1].val < m + 1
    BY <1>2, <1>4 DEF Carries
  <2> QED
    BY <2>1, <2>2, <1>3
<1>6. Head(w).val = m + 1 /\ m < n
  BY <1>1, <1>3, <1>4, <1>5
<1>0. Shrinks(w, s)
  BY OfTail
<1>7. \A k \in Of(w, s) : k # 1 => k - 1 \in Of(Tail(w), s) /\ k \in Nat /\ Tail(w)[k - 1] = w[k]
  BY <1>0 DEF Shrinks
<1>8. ASSUME NEW k \in Of(Tail(w), s)
      PROVE  k + 1 \in Of(w, s) /\ Tail(w)[k] = w[k + 1] /\ k \in Nat /\ k > 0
  <2>1. k + 1 \in Of(w, s) /\ Tail(w)[k] = w[k + 1] /\ k \in Nat
    BY <1>0 DEF Shrinks
  <2>2. DOMAIN Tail(w) = 1..Len(Tail(w))
    BY HeadTailProperties, LenProperties
  <2> QED
    BY <2>1, <2>2 DEF Of
<1>9. \A k \in Of(w, s) : k # 1 => w[k].val # m + 1
  BY <1>1, <1>2, <1>4, <1>5 DEF Carries, Of
<1>10. \A k \in Of(Tail(w), s) : Tail(w)[k].val \in (m+1)+1..n
  <2> SUFFICES ASSUME NEW k \in Of(Tail(w), s) PROVE Tail(w)[k].val \in (m+1)+1..n
    OBVIOUS
  <2>1. k + 1 \in Of(w, s) /\ Tail(w)[k] = w[k + 1] /\ k \in Nat /\ k > 0
    BY <1>8
  <2>0. k + 1 # 1
    BY <2>1
  <2>2. w[k + 1].val \in m+1..n
    BY <2>1 DEF Carries
  <2>3. w[k + 1].val # m + 1
    BY <2>0, <2>1, <1>9
  <2> DEFINE v == w[k + 1].val
  <2>4. v \in m+1..n /\ v # m + 1
    BY <2>2, <2>3
  <2> HIDE DEF v
  <2>5. v \in (m+1)+1..n
    BY <2>4
  <2> QED
    BY <2>1, <2>5 DEF v
<1>12. \A v \in (m+1)+1..n : \E k \in Of(Tail(w), s) : Tail(w)[k].val = v
  <2> SUFFICES ASSUME NEW v \in (m+1)+1..n
               PROVE  \E k \in Of(Tail(w), s) : Tail(w)[k].val = v
    OBVIOUS
  <2>0. v \in m+1..n /\ v # m + 1
    OBVIOUS
  <2>1. PICK k \in Of(w, s) : w[k].val = v
    BY <2>0 DEF Carries
  <2>2. k # 1
    BY <2>0, <2>1, <1>4, <1>5
  <2> QED
    BY <2>1, <2>2, <1>7
<1>11. ASSUME NEW j \in Of(Tail(w), s), NEW k \in Of(Tail(w), s), j < k
      PROVE  Tail(w)[j].val < Tail(w)[k].val
  <2>1. j + 1 \in Of(w, s) /\ k + 1 \in Of(w, s) /\ j + 1 < k + 1
    BY <1>8, <1>11
  <2> QED
    BY <2>1, <1>8 DEF Carries
<1> QED
  BY <1>6, <1>10, <1>11, <1>12 DEF Carries

\* The daemon writes: another frame leaves the events of s, one of s is the last.
Grows(w, f, s, p) ==
  /\ \A k \in Of(w, s) : k \in Of(p, s) /\ p[k] = w[k] /\ k \in Nat /\ k < Len(w) + 1
  /\ \A k \in Of(p, s) : k # Len(w) + 1 => k \in Of(w, s) /\ p[k] = w[k]
  /\ \A k \in Of(p, s) : k \in Nat /\ k <= Len(w) + 1
  /\ Len(w) + 1 \in Of(p, s) <=> f.kind = "event" /\ f.id = s
  /\ p[Len(w) + 1] = f /\ Len(w) \in Nat

LEMMA OfAppend ==
  ASSUME NEW w \in Seq(Frames), NEW f \in Frames, NEW s, NEW p, p = Append(w, f)
  PROVE  Grows(w, f, s, p)
<1>1. /\ Len(w) \in Nat /\ DOMAIN w = 1..Len(w)
      /\ p \in Seq(Frames) /\ Len(p) = Len(w) + 1
      /\ \A k \in 1..Len(w) : p[k] = w[k]
      /\ p[Len(w) + 1] = f
  BY LenProperties, AppendProperties
<1>2. DOMAIN p = 1..Len(w) + 1
  BY <1>1, LenProperties
<1> QED
  BY <1>1, <1>2 DEF Of, Grows

LEMMA CarriesAppendOther ==
  ASSUME NEW w \in Seq(Frames), NEW f \in Frames, NEW s, NEW m, NEW n, Carries(w, s, m, n),
         NEW p, p = Append(w, f), ~(f.kind = "event" /\ f.id = s)
  PROVE  Carries(p, s, m, n)
<1>1. Grows(w, f, s, p)
  BY OfAppend
<1>2. \A k \in Of(w, s) : k \in Of(p, s) /\ p[k] = w[k]
  BY <1>1 DEF Grows
<1>3. \A k \in Of(p, s) : k \in Of(w, s) /\ p[k] = w[k]
  BY <1>1 DEF Grows
<1>4. Of(p, s) = Of(w, s)
  BY <1>2, <1>3
<1> QED
  BY <1>2, <1>4 DEF Carries

LEMMA CarriesAppendNext ==
  ASSUME NEW w \in Seq(Frames), NEW f \in Frames, NEW s, NEW m \in Nat, NEW n \in Nat,
         m <= n, Carries(w, s, m, n), f.kind = "event", f.id = s, f.val = n + 1,
         NEW p, p = Append(w, f)
  PROVE  Carries(p, s, m, n + 1)
<1> DEFINE l == Len(w) + 1
<1>0. Grows(w, f, s, p)
  BY OfAppend
<1>1. l \in Of(p, s) /\ p[l] = f /\ l \in Nat
  BY <1>0 DEF Grows
<1>2. \A k \in Of(w, s) : k \in Of(p, s) /\ p[k] = w[k] /\ k \in Nat /\ k < l
  BY <1>0 DEF Grows
<1>3. \A k \in Of(p, s) : k # l => k \in Of(w, s) /\ p[k] = w[k]
  BY <1>0 DEF Grows
<1>4. \A k \in Of(p, s) : k \in Nat /\ k <= l
  BY <1>0 DEF Grows
<1> HIDE DEF l
<1>5. \A k \in Of(w, s) : w[k].val \in m+1..n
  BY DEF Carries
<1>6. ASSUME NEW k \in Of(p, s) PROVE p[k].val \in m+1..n+1
  <2>1. CASE k = l
    BY <2>1, <1>1
  <2>2. CASE k # l
    <3>1. p[k].val = w[k].val /\ w[k].val \in m+1..n
      BY <2>2, <1>3, <1>5
    <3> DEFINE v == w[k].val
    <3>2. v \in m+1..n
      BY <3>1
    <3> HIDE DEF v
    <3>3. v \in m+1..n+1
      BY <3>2
    <3> QED
      BY <3>1, <3>3 DEF v
  <2> QED
    BY <2>1, <2>2
<1>7. ASSUME NEW v \in m+1..n+1 PROVE \E k \in Of(p, s) : p[k].val = v
  <2>1. CASE v = n + 1
    BY <2>1, <1>1
  <2>2. CASE v \in m+1..n
    <3>1. \E k \in Of(w, s) : w[k].val = v
      BY <2>2 DEF Carries
    <3> QED
      BY <3>1, <1>2
  <2>3. v = n + 1 \/ v \in m+1..n
    OBVIOUS
  <2> QED
    BY <2>1, <2>2, <2>3
<1>8. ASSUME NEW j \in Of(p, s), NEW k \in Of(p, s), j < k
      PROVE  p[j].val < p[k].val
  <2>1. j # l
    BY <1>1, <1>4, <1>8
  <2>2. j \in Of(w, s) /\ p[j] = w[j]
    BY <2>1, <1>3
  <2>3. CASE k = l
    <3>1. w[j].val \in m+1..n /\ p[k].val = n + 1
      BY <2>2, <2>3, <1>1, <1>5
    <3> DEFINE v == w[j].val
    <3>2. v \in m+1..n
      BY <3>1
    <3> HIDE DEF v
    <3>3. v < n + 1
      BY <3>2
    <3> QED
      BY <2>2, <3>1, <3>3 DEF v
  <2>4. CASE k # l
    <3>1. k \in Of(w, s) /\ p[k] = w[k]
      BY <2>4, <1>3
    <3> QED
      BY <2>2, <3>1, <1>8 DEF Carries
  <2> QED
    BY <2>3, <2>4
<1> QED
  BY <1>6, <1>7, <1>8 DEF Carries

\* A wire that carries no event of s has none to come.
LEMMA CarriesNone ==
  ASSUME NEW w, NEW s, NEW m \in Nat, NEW n \in Nat, m <= n, Carries(w, s, m, n), Of(w, s) = {}
  PROVE  m = n
<1>1. n \notin m+1..n
  BY DEF Carries
<1> QED
  BY <1>1

\* A frame appended or read changes the events of s only if it is one.
LEMMA OfAppendNone ==
  ASSUME NEW w \in Seq(Frames), NEW f \in Frames, NEW s, ~(f.kind = "event" /\ f.id = s),
         NEW p, p = Append(w, f), Of(w, s) = {}
  PROVE  Of(p, s) = {}
<1>1. Grows(w, f, s, p)
  BY OfAppend
<1> QED
  BY <1>1 DEF Grows

LEMMA OfTailNone ==
  ASSUME NEW w \in Seq(Frames), w # <<>>, NEW s, Of(w, s) = {}
  PROVE  Of(Tail(w), s) = {}
<1>1. Shrinks(w, s)
  BY OfTail
<1> QED
  BY <1>1 DEF Shrinks

\* Concatenations that keep what the pipe holds.
LEMMA ConcatAssoc ==
  ASSUME NEW a \in Seq(Nat), NEW b \in Seq(Nat), NEW c \in Seq(Nat)
  PROVE  (a \o b) \o c = a \o (b \o c)
BY ConcatProperties

LEMMA ConcatHead ==
  ASSUME NEW a \in Seq(Nat), NEW b \in Seq(Nat), b # <<>>
  PROVE  Append(a, Head(b)) \o Tail(b) = a \o b
<1>1. /\ Head(b) \in Nat /\ Tail(b) \in Seq(Nat) /\ Append(a, Head(b)) \in Seq(Nat)
      /\ <<Head(b)>> \in Seq(Nat) /\ b = <<Head(b)>> \o Tail(b)
      /\ Append(a, Head(b)) = a \o <<Head(b)>>
  BY HeadTailProperties, HeadTailAppend, AppendIsConcat, AppendProperties
<1> QED
  BY <1>1, ConcatAssoc

LEMMA ConcatLast ==
  ASSUME NEW a \in Seq(Nat), NEW x \in Nat
  PROVE  a \o <<x>> = Append(a, x)
BY AppendIsConcat

LEMMA ConcatTail ==
  ASSUME NEW a \in Seq(Nat), a # <<>>, NEW b \in Seq(Nat)
  PROVE  a \o b # <<>> /\ Head(a \o b) = Head(a) /\ Tail(a \o b) = Tail(a) \o b
BY ConcatProperties, HeadTailProperties

----------------------------------------------------------------------------
(* Typing.                                                                 *)

LEMMA InitTypes == Init => TypeOK
<1> SUFFICES ASSUME Init PROVE TypeOK
  OBVIOUS
<1> USE BufferAssumption, WireAssumption
<1>1. <<>> \in Seq(Events) /\ <<>> \in Seq(Frames) /\ Len(<<>>) = 0
  BY EmptySeq
<1> QED
  BY <1>1 DEF Init, TypeOK, Reqs, Events

\* What is read from the wire is a frame; what the reader sends is an event.
LEMMA ReadsTypes ==
  ASSUME TypeOK, NEW kind, Reads(kind)
  PROVE  /\ Head(wire) \in Frames /\ wire' \in Seq(Frames) /\ Len(wire') <= MaxWire
         /\ Head(wire).kind = kind /\ wire # <<>> /\ wire \in Seq(Frames)
<1>1. wire \in Seq(Frames) /\ Len(wire) \in Nat /\ Len(wire) <= MaxWire /\ wire # <<>>
  BY LenProperties DEF TypeOK, Reads
<1> QED
  BY <1>1, HeadTailProperties, WireAssumption DEF Reads

LEMMA PutsTypes ==
  ASSUME TypeOK, NEW f \in Frames, Puts(f)
  PROVE  wire' \in Seq(Frames) /\ Len(wire') <= MaxWire
BY AppendProperties, LenProperties, WireAssumption DEF TypeOK, Puts

LEMMA HeldTypes ==
  ASSUME TypeOK, held # <<>>
  PROVE  held[1] \in Frames
BY EmptySeq, ElementOfSeq DEF TypeOK

LEMMA EmptiedTypes ==
  ASSUME TypeOK, NEW r
  PROVE  LET q == [s \in Subs |-> IF s = r THEN <<>> ELSE rawq[s]] IN
         q \in [Subs -> Seq(Events)] /\ \A s \in Subs : Len(q[s]) <= Buffer
<1>1. <<>> \in Seq(Events) /\ Len(<<>>) = 0 /\ Buffer \in Nat
  BY EmptySeq, BufferAssumption
<1>2. \A s \in Subs : rawq[s] \in Seq(Events) /\ Len(rawq[s]) <= Buffer
  BY DEF TypeOK, Events
<1> QED
  BY <1>1, <1>2

LEMMA CallerTypes ==
  ASSUME TypeOK, NEW r \in Reqs,
         Register(r) \/ Write(r) \/ WriteFails(r) \/ Returns(r) \/ Fails(r) \/ Abandon(r)
  PROVE  TypeOK'
<1> USE DEF callerVars, tables, readerVars, chanVars, userVars, daemonVars
<1>1. CASE Register(r)
  BY <1>1 DEF Register, Moves, TypeOK
<1>2. CASE Write(r)
  BY <1>2 DEF Write, Moves, TypeOK
<1>3. CASE WriteFails(r)
  BY <1>3 DEF WriteFails, Moves, TypeOK
<1>4. CASE Returns(r)
  BY <1>4 DEF Returns, Moves, TypeOK
<1>5. CASE Fails(r)
  <2>1. rawq' = [s \in Subs |-> IF s = r THEN <<>> ELSE rawq[s]]
    BY <1>5 DEF Fails
  <2>2. rawq' \in [Subs -> Seq(Events)] /\ \A s \in Subs : Len(rawq'[s]) <= Buffer
    BY <2>1, EmptiedTypes
  <2> QED
    BY <1>5, <2>2 DEF Fails, Moves, TypeOK, Events
<1>6. CASE Abandon(r)
  <2>1. rawq' = [s \in Subs |-> IF s = r THEN <<>> ELSE rawq[s]]
    BY <1>6 DEF Abandon
  <2>2. rawq' \in [Subs -> Seq(Events)] /\ \A s \in Subs : Len(rawq'[s]) <= Buffer
    BY <2>1, EmptiedTypes
  <2> QED
    BY <1>6, <2>2 DEF Abandon, TypeOK, Events
<1> QED
  BY <1>1, <1>2, <1>3, <1>4, <1>5, <1>6

LEMMA ReaderTypes ==
  ASSUME TypeOK, ReaderAt, ReaderStep
  PROVE  TypeOK'
<1> USE DEF callerVars, tables, readerVars, chanVars, userVars, daemonVars
<1>1. CASE ReadResponse
  <2>0. /\ Head(wire) \in Frames /\ Head(wire).kind = "response"
        /\ wire' \in Seq(Frames) /\ Len(wire') <= MaxWire
    BY <1>1, ReadsTypes DEF ReadResponse
  <2>1. Head(wire).val \in {"ok", "error"}
    BY <2>0 DEF Frames, Response, Event, Closed
  <2>2. answer' \in [Reqs -> {"none", "ok", "error", "closed"}]
    BY <1>1, <2>1 DEF ReadResponse, TypeOK
  <2>3. pending' \subseteq Reqs
    BY <1>1 DEF ReadResponse, TypeOK
  <2> QED
    BY <1>1, <2>0, <2>2, <2>3 DEF ReadResponse, TypeOK
<1>2. CASE ReadEvent
  <2>1. Head(wire) \in Frames /\ wire' \in Seq(Frames) /\ Len(wire') <= MaxWire
    BY <1>2, ReadsTypes DEF ReadEvent
  <2> DEFINE h == <<Head(wire)>>
  <2>2. h \in Seq(Frames) /\ Len(h) <= 1
    BY <2>1
  <2>3. /\ reader' \in {"reading", "sending"} /\ (held' = h \/ held' = held)
        /\ UNCHANGED <<callerVars, tables, chanVars, userVars, link, daemonVars>>
    BY <1>2 DEF ReadEvent, Reads
  <2> HIDE DEF h
  <2>4. held' \in Seq(Frames) /\ Len(held') <= 1
    <3>1. CASE held' = h
      BY <2>2, <3>1, Zenon
    <3>2. CASE held' = held
      BY <3>2 DEF TypeOK
    <3> QED
      BY <2>3, <3>1, <3>2
  <2> QED
    BY <2>1, <2>3, <2>4 DEF TypeOK
<1>3. CASE Deliver
  <2>1. held # <<>> /\ held[1] \in Frames /\ held[1].kind = "event"
    BY <1>3, HeldTypes DEF Deliver, ReaderAt
  <2>2. held[1].id \in Subs /\ held[1].val \in Events
    BY <2>1, EventFrame
  <2>3. <<>> \in Seq(Frames) /\ Len(<<>>) = 0
    BY EmptySeq
  <2>4. rawq' \in [Subs -> Seq(Events)] /\ \A s \in Subs : Len(rawq'[s]) <= Buffer
    <3>1. CASE UNCHANGED rawq
      BY <3>1 DEF TypeOK, Events
    <3>2. CASE /\ Len(rawq[held[1].id]) < Buffer
               /\ rawq' = [rawq EXCEPT ![held[1].id] = Append(@, held[1].val)]
      <4> DEFINE q == rawq[held[1].id]
      <4>1. q \in Seq(Events) /\ Len(q) \in Nat /\ Len(q) < Buffer
        BY <2>2, <3>2, LenProperties DEF TypeOK, Events
      <4>2. Append(q, held[1].val) \in Seq(Events) /\ Len(Append(q, held[1].val)) <= Buffer
        BY <2>2, <4>1, AppendProperties, BufferAssumption
      <4> QED
        BY <3>2, <4>2 DEF TypeOK, Events
    <3> QED
      BY <1>3, <3>1, <3>2 DEF Deliver
  <2> QED
    BY <1>3, <2>3, <2>4 DEF Deliver, TypeOK, Events
<1>4. CASE ReadClosed
  <2>1. wire' \in Seq(Frames) /\ Len(wire') <= MaxWire
    BY <1>4, ReadsTypes DEF ReadClosed
  <2> QED
    BY <1>4, <2>1 DEF ReadClosed, TypeOK
<1>5. CASE ReadEnd
  BY <1>5 DEF ReadEnd, TypeOK
<1>6. CASE ClearPending
  BY <1>6 DEF ClearPending, TypeOK
<1>7. CASE ClearSubs
  BY <1>7 DEF ClearSubs, TypeOK
<1> QED
  BY <1>1, <1>2, <1>3, <1>4, <1>5, <1>6, <1>7 DEF ReaderStep

LEMMA SubscriptionTypes ==
  ASSUME TypeOK, NEW s \in Subs,
         Enlist(s) \/ DecoderStep(s) \/ ConsumerStep(s) \/ DropSub(s) \/ LeaveStep(s)
  PROVE  TypeOK'
<1> USE DEF callerVars, tables, readerVars, chanVars, userVars, daemonVars, Reqs
<1>0. /\ <<>> \in Seq(Events) /\ Len(<<>>) = 0 /\ Buffer \in Nat \ {0}
      /\ rawq[s] \in Seq(Events) /\ Len(rawq[s]) \in Nat /\ Len(rawq[s]) <= Buffer
      /\ hand[s] \in Seq(Events) /\ Len(hand[s]) \in Nat /\ Len(hand[s]) <= 1
      /\ itemq[s] \in Seq(Events) /\ Len(itemq[s]) \in Nat /\ Len(itemq[s]) <= Buffer
      /\ got[s] \in Seq(Events)
  BY EmptySeq, LenProperties, BufferAssumption DEF TypeOK, Events
<1>1. CASE Enlist(s)
  BY <1>1 DEF Enlist, Moves, TypeOK
<1>2. CASE DecodeTake(s)
  <2>1. /\ Tail(rawq[s]) \in Seq(Events) /\ Len(Tail(rawq[s])) <= Buffer
        /\ Head(rawq[s]) \in Events
    BY <1>0, <1>2, HeadTailProperties DEF DecodeTake
  <2> DEFINE h == IF Head(rawq[s]) \in Undecodable THEN <<>> ELSE <<Head(rawq[s])>>
  <2>2. h \in Seq(Events) /\ Len(h) <= 1
    BY <1>0, <2>1
  <2> HIDE DEF h
  <2>3. hand' = [hand EXCEPT ![s] = h] /\ rawq' = [rawq EXCEPT ![s] = Tail(@)]
    BY <1>2 DEF DecodeTake, h
  <2>4. hand' \in [Subs -> Seq(Events)] /\ \A x \in Subs : Len(hand'[x]) <= 1
    BY <2>2, <2>3 DEF TypeOK, Events
  <2>5. rawq' \in [Subs -> Seq(Events)] /\ \A x \in Subs : Len(rawq'[x]) <= Buffer
    BY <2>1, <2>3 DEF TypeOK, Events
  <2> QED
    BY <1>2, <2>4, <2>5 DEF DecodeTake, TypeOK, Events
<1>3. CASE DecodePut(s)
  <2>1. itemq[s] \o hand[s] \in Seq(Events) /\ Len(itemq[s] \o hand[s]) <= Buffer
    <3>1. /\ itemq[s] \o hand[s] \in Seq(Events)
          /\ Len(itemq[s] \o hand[s]) = Len(itemq[s]) + Len(hand[s])
      BY <1>0, ConcatProperties
    <3>2. Len(itemq[s]) < Buffer
      BY <1>3 DEF DecodePut
    <3> DEFINE l == Len(itemq[s])
               k == Len(hand[s])
    <3>3. l \in Nat /\ k \in Nat /\ k <= 1 /\ l < Buffer
      BY <1>0, <3>2
    <3> HIDE DEF l, k
    <3>4. l + k <= Buffer
      BY <3>3, BufferAssumption
    <3> QED
      BY <3>1, <3>4 DEF l, k
  <2>2. itemq' \in [Subs -> Seq(Events)] /\ \A x \in Subs : Len(itemq'[x]) <= Buffer
    BY <1>3, <2>1 DEF DecodePut, TypeOK, Events
  <2>3. hand' \in [Subs -> Seq(Events)] /\ \A x \in Subs : Len(hand'[x]) <= 1
    BY <1>0, <1>3 DEF DecodePut, TypeOK, Events
  <2> QED
    BY <1>3, <2>2, <2>3 DEF DecodePut, TypeOK, Events
<1>4. CASE DecodeEnd(s)
  BY <1>4 DEF DecodeEnd, TypeOK
<1>5. CASE Recv(s)
  <2>1. /\ Tail(itemq[s]) \in Seq(Events) /\ Len(Tail(itemq[s])) <= Buffer
        /\ Head(itemq[s]) \in Events
    BY <1>0, <1>5, HeadTailProperties DEF Recv
  <2>2. Append(got[s], Head(itemq[s])) \in Seq(Events)
    BY <1>0, <2>1, AppendProperties
  <2>3. itemq' \in [Subs -> Seq(Events)] /\ \A x \in Subs : Len(itemq'[x]) <= Buffer
    BY <1>5, <2>1 DEF Recv, TypeOK, Events
  <2>4. got' \in [Subs -> Seq(Events)]
    BY <1>5, <2>2 DEF Recv, TypeOK, Events
  <2> QED
    BY <1>5, <2>3, <2>4 DEF Recv, TypeOK, Events
<1>6. CASE RecvNone(s)
  BY <1>6 DEF RecvNone, TypeOK
<1>7. CASE DropSub(s)
  <2>1. /\ rawq' \in [Subs -> Seq(Events)] /\ \A x \in Subs : Len(rawq'[x]) <= Buffer
        /\ hand' \in [Subs -> Seq(Events)] /\ \A x \in Subs : Len(hand'[x]) <= 1
        /\ itemq' \in [Subs -> Seq(Events)] /\ \A x \in Subs : Len(itemq'[x]) <= Buffer
    BY <1>0, <1>7 DEF DropSub, TypeOK, Events
  <2> QED
    BY <1>7, <2>1 DEF DropSub, Moves, TypeOK, Events
<1>8. CASE LeavePending(s)
  BY <1>8 DEF LeavePending, Moves, TypeOK
<1>9. CASE LeaveSubs(s)
  BY <1>9 DEF LeaveSubs, Moves, TypeOK
<1> QED
  BY <1>1, <1>2, <1>3, <1>4, <1>5, <1>6, <1>7, <1>8, <1>9
     DEF DecoderStep, ConsumerStep, LeaveStep

LEMMA DaemonTypes ==
  ASSUME TypeOK,
         \/ \E r \in Reqs, v \in {"ok", "error"} : Answer(r, v)
         \/ \E s \in Subs : Emit(s) \/ CloseStream(s)
         \/ HangUp \/ EndReading
  PROVE  TypeOK'
<1> USE DEF callerVars, tables, readerVars, chanVars, userVars, daemonVars
<1>1. ASSUME NEW r \in Reqs, NEW v \in {"ok", "error"}, Answer(r, v) PROVE TypeOK'
  <2>1. Response(r, v) \in Frames
    BY DEF Frames
  <2>2. wire' \in Seq(Frames) /\ Len(wire') <= MaxWire
    BY <1>1, <2>1, PutsTypes DEF Answer
  <2> QED
    BY <1>1, <2>2 DEF Answer, Puts, TypeOK
<1>2. ASSUME NEW s \in Subs, Emit(s) PROVE TypeOK'
  <2>1. sent[s] + 1 \in Events
    BY <1>2, BufferAssumption DEF Emit, TypeOK, Events
  <2>2. wire' \in Seq(Frames) /\ Len(wire') <= MaxWire
    BY <1>2, <2>1, PutsTypes, FrameTypes DEF Emit
  <2> QED
    BY <1>2, <2>1, <2>2 DEF Emit, Puts, TypeOK, Events
<1>3. ASSUME NEW s \in Subs, CloseStream(s) PROVE TypeOK'
  <2>1. wire' \in Seq(Frames) /\ Len(wire') <= MaxWire
    BY <1>3, PutsTypes, FrameTypes DEF CloseStream
  <2> QED
    BY <1>3, <2>1 DEF CloseStream, Puts, TypeOK
<1>4. CASE HangUp
  BY <1>4 DEF HangUp, TypeOK
<1>5. CASE EndReading
  BY <1>5 DEF EndReading, TypeOK
<1> QED
  BY <1>1, <1>2, <1>3, <1>4, <1>5

LEMMA TypeOK_Step ==
  ASSUME TypeOK, ReaderAt, Next
  PROVE  TypeOK'
<1>1. CASE DropClient
  <2>1. <<>> \in Seq(Frames) /\ Len(<<>>) <= 1
    BY EmptySeq
  <2> QED
    BY <1>1, <2>1 DEF DropClient, TypeOK, callerVars, tables, chanVars, userVars, daemonVars
<1> QED
  BY <1>1, CallerTypes, ReaderTypes, SubscriptionTypes, DaemonTypes DEF Next, CallerStep

----------------------------------------------------------------------------
(* The reader, the tables and the callers.                                 *)

LEMMA ReaderAt_Step ==
  ASSUME TypeOK, ReaderAt, Next
  PROVE  ReaderAt'
<1> USE DEF callerVars, tables, readerVars, chanVars, userVars, daemonVars
<1>1. ASSUME UNCHANGED <<reader, held, wire>>, link' = link \/ link' # "open"
      PROVE  ReaderAt'
  BY <1>1 DEF ReaderAt
<1>2. ASSUME NEW f, Puts(f), UNCHANGED <<readerVars, link>>
      PROVE  ReaderAt'
  BY <1>2 DEF ReaderAt, Puts
<1>3. CASE \E r \in Reqs : Register(r) \/ CallerStep(r) \/ Abandon(r)
  BY <1>1, <1>3 DEF CallerStep, Register, Write, WriteFails, Returns, Fails, Abandon
<1>4. CASE \E s \in Subs : \/ Enlist(s) \/ DecoderStep(s) \/ ConsumerStep(s)
                           \/ DropSub(s) \/ LeaveStep(s)
  BY <1>1, <1>4 DEF Enlist, DecoderStep, ConsumerStep, DropSub, LeaveStep, DecodeTake,
                    DecodePut, DecodeEnd, Recv, RecvNone, LeavePending, LeaveSubs
<1>5. CASE \/ \E r \in Reqs, v \in {"ok", "error"} : Answer(r, v)
           \/ \E s \in Subs : Emit(s) \/ CloseStream(s)
  BY <1>2, <1>5 DEF Answer, Emit, CloseStream
<1>6. CASE HangUp \/ EndReading
  BY <1>1, <1>6 DEF HangUp, EndReading
<1>7. CASE ReaderStep
  <2>1. CASE ReadResponse
    BY <2>1 DEF ReadResponse, Reads, ReaderAt
  <2>2. CASE ReadEvent
    <3>1. CASE reader' = "sending" /\ held' = <<Head(wire)>>
      BY <2>2, <3>1 DEF ReadEvent, Reads, ReaderAt
    <3>2. CASE UNCHANGED readerVars
      BY <2>2, <3>2 DEF ReadEvent, Reads, ReaderAt
    <3> QED
      BY <2>2, <3>1, <3>2 DEF ReadEvent
  <2>3. CASE Deliver
    BY <2>3 DEF Deliver, ReaderAt
  <2>4. CASE ReadClosed
    BY <2>4 DEF ReadClosed, Reads, ReaderAt
  <2>5. CASE ReadEnd \/ ClearPending \/ ClearSubs
    BY <2>5 DEF ReadEnd, ClearPending, ClearSubs, ReaderAt
  <2> QED
    BY <1>7, <2>1, <2>2, <2>3, <2>4, <2>5 DEF ReaderStep
<1>8. CASE DropClient
  BY <1>8 DEF DropClient, ReaderAt
<1> QED
  BY <1>3, <1>4, <1>5, <1>6, <1>7, <1>8 DEF Next

\* The reader answers a caller and forgets it; the reader's end forgets all of them.
LEMMA Answered_Step ==
  ASSUME TypeOK, Answered, Next
  PROVE  Answered'
<1> SUFFICES ASSUME NEW q \in Reqs
             PROVE  /\ phase'[q] = "idle" => q \notin pending' /\ answer'[q] = "none"
                    /\ answer'[q] # "none" => q \notin pending'
                    /\ answer'[q] = "closed" => reader' \in {"clearing", "done", "aborted"}
  BY DEF Answered
<1> USE DEF Answered, TypeOK, Reqs,
            callerVars, tables, readerVars, chanVars, userVars, daemonVars
<1>1. ASSUME NEW r \in Reqs, Register(r) \/ CallerStep(r) \/ Abandon(r)
      PROVE  /\ phase'[q] = "idle" => q \notin pending' /\ answer'[q] = "none"
             /\ answer'[q] # "none" => q \notin pending'
             /\ answer'[q] = "closed" => reader' \in {"clearing", "done", "aborted"}
  BY <1>1 DEF CallerStep, Register, Write, WriteFails, Returns, Fails, Abandon, Moves
<1>2. ASSUME NEW s \in Subs, \/ Enlist(s) \/ DecoderStep(s) \/ ConsumerStep(s)
                             \/ DropSub(s) \/ LeaveStep(s)
      PROVE  /\ phase'[q] = "idle" => q \notin pending' /\ answer'[q] = "none"
             /\ answer'[q] # "none" => q \notin pending'
             /\ answer'[q] = "closed" => reader' \in {"clearing", "done", "aborted"}
  BY <1>2 DEF Enlist, DecoderStep, ConsumerStep, DropSub, LeaveStep, DecodeTake, Moves,
              DecodePut, DecodeEnd, Recv, RecvNone, LeavePending, LeaveSubs
<1>3. CASE \/ \E r \in Reqs, v \in {"ok", "error"} : Answer(r, v)
           \/ \E s \in Subs : Emit(s) \/ CloseStream(s)
           \/ HangUp \/ EndReading \/ DropClient
  BY <1>3 DEF Answer, Emit, CloseStream, HangUp, EndReading, DropClient
<1>4. CASE ReadResponse
  <2>1. Head(wire) \in Frames /\ Head(wire).kind = "response"
    BY <1>4, ReadsTypes DEF ReadResponse
  <2>2. Head(wire).val # "closed" /\ Head(wire).id \in Reqs
    BY <2>1 DEF Frames, Response, Event, Closed
  <2> QED
    BY <1>4, <2>2 DEF ReadResponse, Reads
<1>5. CASE ReadEvent \/ Deliver \/ ReadClosed
  BY <1>5 DEF ReadEvent, Deliver, ReadClosed, Reads
<1>6. CASE ReadEnd \/ ClearPending \/ ClearSubs
  BY <1>6 DEF ReadEnd, ClearPending, ClearSubs
<1> QED
  BY <1>1, <1>2, <1>3, <1>4, <1>5, <1>6 DEF Next, ReaderStep

LEMMA TablesTidy_Step ==
  ASSUME TypeOK, Answered, TablesTidy, Next
  PROVE  TablesTidy'
<1> DEFINE Tidy(q) ==
      /\ phase[q] \in {"ok", "failed", "unpended", "gone"} => q \notin pending
      /\ phase[q] = "failed" /\ reader \in {"reading", "sending", "ending"} => q \notin subs
      /\ phase[q] = "gone" => q \notin subs
<1> SUFFICES ASSUME NEW q \in Reqs PROVE Tidy(q)'
  BY DEF TablesTidy
<1>0. Tidy(q) /\ DOMAIN phase = Reqs
  BY DEF TablesTidy, TypeOK
<1> USE DEF callerVars, tables, readerVars, chanVars, userVars, daemonVars
<1>1. ASSUME NEW r \in Reqs, Register(r) \/ CallerStep(r) \/ Abandon(r)
      PROVE  Tidy(q)'
  <2>1. CASE Register(r) \/ Write(r) \/ WriteFails(r) \/ Abandon(r)
    BY <1>0, <2>1 DEF Register, Write, WriteFails, Abandon, Moves
  <2>2. CASE Returns(r) \/ Fails(r)
    BY <1>0, <2>2 DEF Returns, Fails, Moves, Answered
  <2> QED
    BY <1>1, <2>1, <2>2 DEF CallerStep
<1>2. ASSUME NEW s \in Subs, \/ Enlist(s) \/ DecoderStep(s) \/ ConsumerStep(s)
                             \/ DropSub(s) \/ LeaveStep(s)
      PROVE  Tidy(q)'
  BY <1>0, <1>2 DEF Enlist, DecoderStep, ConsumerStep, DropSub, LeaveStep, DecodeTake, Moves,
                    DecodePut, DecodeEnd, Recv, RecvNone, LeavePending, LeaveSubs, Reqs
<1>3. CASE \/ \E r \in Reqs, v \in {"ok", "error"} : Answer(r, v)
           \/ \E s \in Subs : Emit(s) \/ CloseStream(s)
           \/ HangUp \/ EndReading \/ DropClient
  BY <1>0, <1>3 DEF Answer, Emit, CloseStream, HangUp, EndReading, DropClient
<1>4. CASE ReaderStep
  BY <1>0, <1>4 DEF ReaderStep, ReadResponse, ReadEvent, Deliver, ReadClosed, Reads,
                    ReadEnd, ClearPending, ClearSubs
<1> QED
  BY <1>1, <1>2, <1>3, <1>4 DEF Next

----------------------------------------------------------------------------
(* The daemon's streams.                                                   *)

LEMMA ClosedLastTail ==
  ASSUME NEW w \in Seq(Frames), w # <<>>, NEW sv, ClosedLast(w, sv)
  PROVE  ClosedLast(Tail(w), sv)
<1> DEFINE p == Tail(w)
<1>1. /\ Len(w) \in Nat \ {0} /\ DOMAIN w = 1..Len(w)
      /\ p \in Seq(Frames) /\ Len(p) = Len(w) - 1
      /\ \A k \in 1..Len(p) : p[k] = w[k + 1]
  BY EmptySeq, LenProperties, HeadTailProperties
<1>2. DOMAIN p = 1..Len(p)
  BY <1>1, LenProperties
<1> HIDE DEF p
<1>3. ASSUME NEW k \in DOMAIN p PROVE k + 1 \in DOMAIN w /\ p[k] = w[k + 1] /\ k \in Nat
  BY <1>1, <1>2
<1>4. SUFFICES ASSUME NEW k \in DOMAIN p, p[k].kind = "closed"
               PROVE  sv[p[k].id] = "closed" /\ \A j \in Of(p, p[k].id) : j < k
  BY DEF ClosedLast, p
<1>5. sv[p[k].id] = "closed" /\ \A j \in Of(w, p[k].id) : j < k + 1
  BY <1>3, <1>4 DEF ClosedLast
<1>6. ASSUME NEW j \in Of(p, p[k].id) PROVE j < k
  <2>1. j \in DOMAIN p /\ j + 1 \in Of(w, p[k].id)
    BY <1>3 DEF Of
  <2>2. j + 1 < k + 1
    BY <2>1, <1>5
  <2> QED
    BY <2>1, <2>2, <1>3
<1> QED
  BY <1>5, <1>6

StayClosed(sv, sv2) == \A x \in Subs : sv[x] = "closed" => sv2[x] = "closed"

LEMMA ClosedLastAppend ==
  ASSUME NEW w \in Seq(Frames), NEW f \in Frames, NEW p, p = Append(w, f), NEW sv, NEW sv2,
         ClosedLast(w, sv), StayClosed(sv, sv2),
         f.kind = "event" => sv[f.id] # "closed",
         f.kind = "closed" => sv2[f.id] = "closed"
  PROVE  ClosedLast(p, sv2)
<1> USE DEF StayClosed
<1>1. /\ Len(w) \in Nat /\ DOMAIN w = 1..Len(w)
      /\ p \in Seq(Frames) /\ Len(p) = Len(w) + 1
      /\ \A k \in 1..Len(w) : p[k] = w[k]
      /\ p[Len(w) + 1] = f
  BY LenProperties, AppendProperties
<1>2. DOMAIN p = 1..Len(w) + 1
  BY <1>1, LenProperties
<1>3. SUFFICES ASSUME NEW k \in DOMAIN p, p[k].kind = "closed"
               PROVE  sv2[p[k].id] = "closed" /\ \A j \in Of(p, p[k].id) : j < k
  BY DEF ClosedLast
<1>4. CASE k = Len(w) + 1
  <2>1. p[k] = f
    BY <1>1, <1>4
  <2>2. ASSUME NEW j \in Of(p, f.id) PROVE j < k
    <3>1. p[j].kind = "event" /\ j \in 1..Len(w) + 1
      BY <1>2 DEF Of
    <3>2. j # k
      BY <3>1, <1>3
    <3> QED
      BY <3>1, <3>2, <1>1, <1>4
  <2> QED
    BY <2>1, <2>2, <1>3
<1>5. CASE k # Len(w) + 1
  <2>1. k \in DOMAIN w /\ p[k] = w[k]
    BY <1>1, <1>2, <1>5
  <2>2. sv[p[k].id] = "closed" /\ \A j \in Of(w, p[k].id) : j < k
    BY <2>1, <1>3 DEF ClosedLast
  <2>4. w[k] \in Frames
    BY <2>1, <1>1, ElementOfSeq
  <2>5. p[k].id \in Subs
    BY <2>1, <2>4, <1>3, ClosedFrame
  <2>3. ASSUME NEW j \in Of(p, p[k].id) PROVE j < k
    <3>1. Grows(w, f, p[k].id, p)
      BY OfAppend
    <3>2. ~(f.kind = "event" /\ f.id = p[k].id)
      BY <2>2
    <3>3. j \in Of(w, p[k].id)
      BY <3>1, <3>2 DEF Grows
    <3> QED
      BY <3>3, <2>2
  <2> QED
    BY <2>2, <2>3, <2>5
<1> QED
  BY <1>4, <1>5

LEMMA ServedAs_Step ==
  ASSUME TypeOK, Next, NEW s \in Subs, ServedAs(s)
  PROVE  ServedAs(s)'
<1> USE DEF ServedAs, callerVars, tables, readerVars, chanVars, userVars, daemonVars
<1>0. DOMAIN phase = Reqs /\ s \in Reqs /\ DOMAIN serving = Subs
  BY DEF TypeOK, Reqs
<1>1. ASSUME NEW r \in Reqs, Register(r) \/ CallerStep(r) \/ Abandon(r)
      PROVE  ServedAs(s)'
  BY <1>0, <1>1 DEF CallerStep, Register, Write, WriteFails, Returns, Fails, Abandon, Moves,
                    Suspended, BeforeWrite
<1>2. ASSUME NEW x \in Subs, \/ Enlist(x) \/ DecoderStep(x) \/ ConsumerStep(x)
                             \/ DropSub(x) \/ LeaveStep(x)
      PROVE  ServedAs(s)'
  BY <1>0, <1>2 DEF Enlist, DecoderStep, ConsumerStep, DropSub, LeaveStep, DecodeTake, Moves,
                    DecodePut, DecodeEnd, Recv, RecvNone, LeavePending, LeaveSubs, Reqs
<1>3. CASE \/ \E r \in Reqs, v \in {"ok", "error"} : Answer(r, v)
           \/ \E x \in Subs : Emit(x) \/ CloseStream(x)
           \/ HangUp \/ EndReading \/ DropClient
  BY <1>0, <1>3 DEF Answer, Emit, CloseStream, HangUp, EndReading, DropClient
<1>4. CASE ReaderStep
  BY <1>0, <1>4 DEF ReaderStep, ReadResponse, ReadEvent, Deliver, ReadClosed, Reads,
                    ReadEnd, ClearPending, ClearSubs
<1> QED
  BY <1>1, <1>2, <1>3, <1>4 DEF Next

LEMMA ClosedLast_Step ==
  ASSUME TypeOK, Next, ClosedLast(wire, serving), \A s \in Subs : ServedAs(s)
  PROVE  ClosedLast(wire', serving')
<1> USE DEF callerVars, tables, readerVars, chanVars, userVars, daemonVars
<1>1. CASE UNCHANGED <<wire, serving>>
  BY <1>1
<1>2. CASE \E kind : Reads(kind) /\ UNCHANGED serving
  <2>1. wire \in Seq(Frames) /\ wire # <<>> /\ wire' = Tail(wire)
    BY <1>2 DEF Reads, TypeOK
  <2> QED
    BY <2>1, <1>2, ClosedLastTail
<1>3. ASSUME NEW r \in Reqs, NEW v \in {"ok", "error"}, Answer(r, v)
      PROVE  ClosedLast(wire', serving')
  <2> DEFINE f == Response(r, v)
  <2>1. f \in Frames /\ f.kind = "response"
    BY DEF Frames, Response
  <2>2. wire \in Seq(Frames) /\ wire' = Append(wire, f)
    BY <1>3 DEF TypeOK, Answer, Puts
  <2>3. StayClosed(serving, serving')
    BY <1>3 DEF Answer, TypeOK, ServedAs, StayClosed
  <2> HIDE DEF f
  <2> QED
    BY <2>1, <2>2, <2>3, ClosedLastAppend
<1>4. ASSUME NEW s \in Subs, Emit(s)
      PROVE  ClosedLast(wire', serving')
  <2> DEFINE f == Event(s, sent[s] + 1)
  <2>1. sent[s] + 1 \in Events
    BY <1>4, BufferAssumption DEF Emit, TypeOK, Events
  <2>2. f \in Frames /\ f.kind = "event" /\ f.id = s
    BY <2>1, FrameTypes
  <2>3. /\ wire \in Seq(Frames) /\ wire' = Append(wire, f) /\ serving[s] = "open"
        /\ StayClosed(serving, serving')
    BY <1>4 DEF TypeOK, Emit, Puts, StayClosed
  <2> HIDE DEF f
  <2> QED
    BY <2>2, <2>3, ClosedLastAppend
<1>5. ASSUME NEW s \in Subs, CloseStream(s)
      PROVE  ClosedLast(wire', serving')
  <2> DEFINE f == Closed(s)
  <2>1. f \in Frames /\ f.kind = "closed" /\ f.id = s
    BY FrameTypes
  <2>2. wire \in Seq(Frames) /\ wire' = Append(wire, f)
    BY <1>5 DEF TypeOK, CloseStream, Puts
  <2>3. serving'[s] = "closed" /\ StayClosed(serving, serving')
    BY <1>5 DEF CloseStream, TypeOK, StayClosed
  <2> HIDE DEF f
  <2> QED
    BY <2>1, <2>2, <2>3, ClosedLastAppend
<1>6. CASE \E r \in Reqs : Register(r) \/ CallerStep(r) \/ Abandon(r)
  BY <1>1, <1>6 DEF CallerStep, Register, Write, WriteFails, Returns, Fails, Abandon
<1>7. CASE \E s \in Subs : \/ Enlist(s) \/ DecoderStep(s) \/ ConsumerStep(s)
                           \/ DropSub(s) \/ LeaveStep(s)
  BY <1>1, <1>7 DEF Enlist, DecoderStep, ConsumerStep, DropSub, LeaveStep, DecodeTake,
                    DecodePut, DecodeEnd, Recv, RecvNone, LeavePending, LeaveSubs
<1>8. CASE ReadResponse \/ ReadEvent \/ ReadClosed
  BY <1>2, <1>8 DEF ReadResponse, ReadEvent, ReadClosed
<1>9. CASE Deliver \/ ReadEnd \/ ClearPending \/ ClearSubs \/ DropClient \/ HangUp \/ EndReading
  BY <1>1, <1>9 DEF Deliver, ReadEnd, ClearPending, ClearSubs, DropClient, HangUp, EndReading
<1> QED
  BY <1>3, <1>4, <1>5, <1>6, <1>7, <1>8, <1>9 DEF Next, ReaderStep

LEMMA HeadOf ==
  ASSUME TypeOK, wire # <<>>, NEW s, OnWire(s) = {}
  PROVE  ~(Head(wire).kind = "event" /\ Head(wire).id = s)
<1>1. Of(wire, s) = {} /\ wire \in Seq(Frames)
  BY DEF OnWire, Of, TypeOK
<1>3. Shrinks(wire, s)
  BY <1>1, OfTail
<1> QED
  BY <1>1, <1>3 DEF Shrinks

\* What leaves the wire and the pipe of s as they are, but for pieces emptied.
LEMMA UntouchedKept ==
  ASSUME TypeOK, NEW s \in Subs, Untouched(s), wire' = wire, held' \in {held, <<>>},
         sent' = sent, got' = got, itemq'[s] \in {itemq[s], <<>>},
         hand'[s] \in {hand[s], <<>>}, rawq'[s] \in {rawq[s], <<>>}
  PROVE  Untouched(s)'
BY DEF Untouched, OnWire, WithReader

LEMMA Untouched_Step ==
  ASSUME TypeOK, ReaderAt, Next, NEW s \in Subs, serving'[s] = "no",
         serving[s] = "no" => Untouched(s)
  PROVE  Untouched(s)'
<1> USE DEF callerVars, tables, readerVars, chanVars, userVars, daemonVars
<1>0. /\ DOMAIN serving = Subs /\ DOMAIN rawq = Subs /\ DOMAIN hand = Subs
      /\ DOMAIN itemq = Subs /\ wire \in Seq(Frames)
  BY DEF TypeOK
<1>1. serving[s] = "no"
  <2>1. serving' = serving \/ \E x \in Subs : CloseStream(x) \/ \E r \in Reqs, v \in {"ok", "error"} : Answer(r, v)
    BY DEF Next, CallerStep, Register, Write, WriteFails, Returns, Fails, Abandon, ReaderStep,
           ReadResponse, ReadEvent, Deliver, ReadClosed, ReadEnd, ClearPending, ClearSubs,
           Enlist, DecoderStep, ConsumerStep, DropSub, LeaveStep, DecodeTake, DecodePut,
           DecodeEnd, Recv, RecvNone, LeavePending, LeaveSubs, Emit, DropClient, HangUp,
           EndReading
  <2> QED
    BY <1>0, <2>1 DEF CloseStream, Answer
<1>2. Untouched(s) /\ Of(wire, s) = {} /\ OnWire(s) = {}
  BY <1>1 DEF Untouched, OnWire, Of
<1>3. ASSUME NEW r \in Reqs, Register(r) \/ CallerStep(r) \/ Abandon(r)
      PROVE  Untouched(s)'
  BY <1>0, <1>2, <1>3, UntouchedKept
     DEF CallerStep, Register, Write, WriteFails, Returns, Fails, Abandon
<1>4. ASSUME NEW x \in Subs, Enlist(x) \/ ConsumerStep(x) \/ LeaveStep(x) \/ DropSub(x)
      PROVE  Untouched(s)'
  <2>1. CASE Recv(x)
    <3>1. x # s
      BY <1>2, <2>1 DEF Recv, Untouched
    <3> QED
      BY <1>0, <1>2, <2>1, <3>1 DEF Recv, Untouched, OnWire, WithReader
  <2>2. CASE Enlist(x) \/ RecvNone(x) \/ LeaveStep(x)
    BY <1>2, <2>2, UntouchedKept DEF Enlist, RecvNone, LeaveStep, LeavePending, LeaveSubs
  <2>3. CASE DropSub(x)
    BY <1>0, <1>2, <2>3, UntouchedKept DEF DropSub
  <2> QED
    BY <1>4, <2>1, <2>2, <2>3 DEF ConsumerStep
<1>5. ASSUME NEW x \in Subs, DecoderStep(x)
      PROVE  Untouched(s)'
  <2>1. CASE DecodeTake(x) \/ DecodePut(x)
    <3>1. x # s
      BY <1>2, <2>1 DEF DecodeTake, DecodePut, Untouched
    <3> QED
      BY <1>0, <1>2, <2>1, <3>1, UntouchedKept DEF DecodeTake, DecodePut
  <2>2. CASE DecodeEnd(x)
    BY <1>2, <2>2, UntouchedKept DEF DecodeEnd
  <2> QED
    BY <1>5, <2>1, <2>2 DEF DecoderStep
<1>6. CASE ReadEnd \/ ClearPending \/ ClearSubs \/ DropClient \/ HangUp \/ EndReading
  BY <1>2, <1>6, UntouchedKept DEF ReadEnd, ClearPending, ClearSubs, DropClient, HangUp, EndReading
<1>7. CASE Deliver
  <2>1. held # <<>>
    BY <1>7, EmptySeq DEF Deliver, ReaderAt
  <2>2. held[1].id # s
    BY <1>2, <2>1 DEF Untouched, WithReader
  <2> QED
    BY <1>0, <1>2, <1>7, <2>2, UntouchedKept DEF Deliver
<1>8. CASE ReadResponse \/ ReadEvent \/ ReadClosed
  <2>1. wire # <<>> /\ wire' = Tail(wire)
    BY <1>8 DEF ReadResponse, ReadEvent, ReadClosed, Reads
  <2>2. OnWire(s)' = {}
    BY <1>0, <1>2, <2>1, OfTailNone DEF OnWire, Of
  <2>3. ~(Head(wire).kind = "event" /\ Head(wire).id = s)
    BY <1>2, <2>1, HeadOf
  <2>4. WithReader(s)' = <<>>
    BY <1>2, <1>8, <2>3 DEF ReadResponse, ReadEvent, ReadClosed, Reads, WithReader, Untouched
  <2> QED
    BY <1>2, <1>8, <2>2, <2>4 DEF ReadResponse, ReadEvent, ReadClosed, Untouched
<1>9. ASSUME NEW f \in Frames, Puts(f), ~(f.kind = "event" /\ f.id = s),
             UNCHANGED <<readerVars, chanVars, userVars>>, sent'[s] = sent[s]
      PROVE  Untouched(s)'
  <2>1. Of(wire', s) = {}
    BY <1>0, <1>2, <1>9, OfAppendNone DEF Puts
  <2> QED
    BY <1>2, <1>9, <2>1 DEF Untouched, OnWire, Of, WithReader
<1>10. ASSUME NEW r \in Reqs, NEW v \in {"ok", "error"}, Answer(r, v)
       PROVE  Untouched(s)'
  <2> DEFINE f == Response(r, v)
  <2>1. f \in Frames /\ f.kind = "response"
    BY DEF Frames, Response
  <2>2. Puts(f) /\ UNCHANGED <<readerVars, chanVars, userVars>> /\ sent'[s] = sent[s]
    BY <1>10 DEF Answer
  <2> HIDE DEF f
  <2> QED
    BY <1>9, <2>1, <2>2
<1>11. ASSUME NEW x \in Subs, Emit(x)
       PROVE  Untouched(s)'
  <2> DEFINE f == Event(x, sent[x] + 1)
  <2>1. f \in Frames /\ f.id = x
    BY <1>11, FrameTypes, BufferAssumption DEF Emit, TypeOK, Events
  <2>2. x # s
    BY <1>1, <1>11 DEF Emit
  <2>3. Puts(f) /\ UNCHANGED <<readerVars, chanVars, userVars>> /\ sent'[s] = sent[s]
    BY <1>11, <2>2 DEF Emit, TypeOK
  <2> HIDE DEF f
  <2> QED
    BY <1>9, <2>1, <2>2, <2>3
<1>12. ASSUME NEW x \in Subs, CloseStream(x)
       PROVE  Untouched(s)'
  <2> DEFINE f == Closed(x)
  <2>1. f \in Frames /\ f.kind = "closed"
    BY FrameTypes
  <2>2. Puts(f) /\ UNCHANGED <<readerVars, chanVars, userVars>> /\ sent'[s] = sent[s]
    BY <1>12 DEF CloseStream
  <2> HIDE DEF f
  <2> QED
    BY <1>9, <2>1, <2>2
<1> QED
  BY <1>3, <1>4, <1>5, <1>6, <1>7, <1>8, <1>10, <1>11, <1>12 DEF Next, ReaderStep

LEMMA Served_Step ==
  ASSUME TypeOK, ReaderAt, Served, Next
  PROVE  Served'
<1>1. \A s \in Subs : ServedAs(s)'
  BY ServedAs_Step DEF Served
<1>2. ClosedLast(wire, serving)'
  BY ClosedLast_Step DEF Served
<1>3. \A s \in Subs : (serving[s] = "no" => Untouched(s))'
  BY Untouched_Step DEF Served
<1> QED
  BY <1>1, <1>2, <1>3 DEF Served

----------------------------------------------------------------------------
(* Every event of a subscription in use is accounted for.                  *)

LEMMA PipeTypes ==
  ASSUME TypeOK, ReaderAt, NEW s \in Subs
  PROVE  /\ got[s] \in Seq(Nat) /\ itemq[s] \in Seq(Nat) /\ hand[s] \in Seq(Nat)
         /\ rawq[s] \in Seq(Nat) /\ WithReader(s) \in Seq(Nat)
         /\ Told(s) \in Seq(Nat) /\ Untold(s) \in Seq(Nat) /\ Len(Untold(s)) \in Nat
         /\ sent[s] \in Nat /\ wire \in Seq(Frames)
<1>1. ASSUME NEW q \in Seq(Events) PROVE q \in Seq(Nat)
  <2>1. Events \subseteq Nat
    BY DEF Events
  <2> QED
    BY <2>1, SeqMonotonic
<1>2. /\ got[s] \in Seq(Nat) /\ itemq[s] \in Seq(Nat) /\ hand[s] \in Seq(Nat)
      /\ rawq[s] \in Seq(Nat)
  BY <1>1 DEF TypeOK, Events
<1>3. WithReader(s) \in Seq(Nat)
  <2>1. CASE held = <<>>
    BY <2>1, EmptySeq DEF WithReader
  <2>2. CASE held # <<>>
    <3>1. held[1] \in Frames /\ held[1].kind = "event"
      BY <2>2, HeldTypes DEF ReaderAt
    <3>2. held[1].val \in Nat
      BY <3>1, EventFrame DEF Events
    <3>3. <<held[1].val>> \in Seq(Nat) /\ <<>> \in Seq(Nat)
      BY <3>2, EmptySeq
    <3> QED
      BY <3>3 DEF WithReader
  <2> QED
    BY <2>1, <2>2
<1>4. Told(s) \in Seq(Nat)
  <2>1. got[s] \o itemq[s] \in Seq(Nat)
    BY <1>2, ConcatProperties
  <2> QED
    BY <1>2, <2>1, ConcatProperties DEF Told
<1>5. Untold(s) \in Seq(Nat) /\ Len(Untold(s)) \in Nat
  BY <1>2, <1>3, ConcatProperties, LenProperties DEF Untold
<1>6. sent[s] \in Nat /\ wire \in Seq(Frames)
  BY BufferAssumption DEF TypeOK
<1> QED
  BY <1>2, <1>3, <1>4, <1>5, <1>6

\* The events of s stay on the wire, none is added.
WireAlike(s) ==
  /\ Of(wire, s) = {} => Of(wire', s) = {}
  /\ \A m, n \in Nat : Carries(wire, s, m, n) => Carries(wire', s, m, n)

LEMMA ReadsAlike ==
  ASSUME TypeOK, NEW s, NEW kind, Reads(kind), ~(Head(wire).kind = "event" /\ Head(wire).id = s)
  PROVE  WireAlike(s)
<1>1. wire \in Seq(Frames) /\ wire # <<>> /\ wire' = Tail(wire)
  BY DEF TypeOK, Reads
<1> QED
  BY <1>1, OfTailNone, CarriesOther DEF WireAlike

LEMMA PutsAlike ==
  ASSUME TypeOK, NEW s, NEW f \in Frames, Puts(f), ~(f.kind = "event" /\ f.id = s)
  PROVE  WireAlike(s)
<1>1. wire \in Seq(Frames) /\ wire' = Append(wire, f)
  BY DEF TypeOK, Puts
<1>2. Of(wire, s) = {} => Of(wire', s) = {}
  BY <1>1, OfAppendNone
<1>3. \A m, n \in Nat : Carries(wire, s, m, n) => Carries(wire', s, m, n)
  BY <1>1, CarriesAppendOther
<1> QED
  BY <1>2, <1>3 DEF WireAlike

\* A step that moves no event of s between what is told and what is not.
SameView(s) ==
  /\ WireAlike(s) /\ Told(s)' = Told(s) /\ WithReader(s)' = WithReader(s)
  /\ rawq'[s] = rawq[s] /\ hand'[s] \in {hand[s], <<>>} /\ sent'[s] = sent[s]
  /\ s \in subs' <=> s \in subs
  /\ reader' # "aborted" => reader # "aborted"
  /\ phase'[s] = "ok" /\ ~decoding'[s] => phase[s] = "ok" /\ ~decoding[s]
  /\ link # "open" \/ serving[s] = "closed" => link' # "open" \/ serving'[s] = "closed"

LEMMA UsedKept ==
  ASSUME TypeOK, ReaderAt, NEW s \in Subs, Used(s), SameView(s)
  PROVE  Used(s)'
<1>1. (s \notin subs => Over(s))'
  BY DEF Used, SameView, WireAlike, Over, OnWire, Of
<1>2. (phase[s] = "ok" /\ ~decoding[s] => s \notin subs /\ rawq[s] = <<>> /\ hand[s] = <<>>)'
  BY DEF Used, SameView
<1>3. PICK n \in 0..sent[s] : AccountedFor(s, n)
  BY DEF Used
<1>4. Untold(s)' = Untold(s) /\ Told(s)' = Told(s)
  BY DEF SameView, Untold
<1>5. n + Len(Untold(s)) \in Nat /\ sent[s] \in Nat
  BY PipeTypes
<1>6. AccountedFor(s, n)'
  BY <1>3, <1>4, <1>5 DEF AccountedFor, SameView, WireAlike
<1>7. (\E k \in 0..sent[s] : AccountedFor(s, k))'
  BY <1>3, <1>6 DEF SameView
<1> QED
  BY <1>1, <1>2, <1>7 DEF Used

\* The steps that keep the view of s: of other subscriptions, of the reader, ...
LEMMA CallerView ==
  ASSUME TypeOK, NEW s \in Subs, NEW r \in Reqs, phase'[s] \in InUse,
         Register(r) \/ CallerStep(r) \/ Abandon(r)
  PROVE  SameView(s)
<1> USE DEF callerVars, tables, readerVars, chanVars, userVars, daemonVars
<1>1. r = s => Write(r) \/ Returns(r)
  BY DEF CallerStep, Register, WriteFails, Fails, Abandon, Moves, InUse, TypeOK
<1>2. WireAlike(s) /\ Told(s)' = Told(s) /\ WithReader(s)' = WithReader(s)
  BY DEF CallerStep, Register, Write, WriteFails, Returns, Fails, Abandon, WireAlike, Told,
         WithReader
<1>3. rawq'[s] = rawq[s] /\ hand'[s] = hand[s] /\ sent'[s] = sent[s]
  BY <1>1 DEF CallerStep, Register, Write, WriteFails, Returns, Fails, Abandon, TypeOK
<1>4. /\ s \in subs' <=> s \in subs
      /\ reader' = reader /\ link' = link /\ serving' = serving
  BY <1>1 DEF CallerStep, Register, Write, WriteFails, Returns, Fails, Abandon
<1>5. phase'[s] = "ok" /\ ~decoding'[s] => phase[s] = "ok" /\ ~decoding[s]
  <2>1. DOMAIN phase = Reqs /\ s \in Reqs
    BY DEF TypeOK, Reqs
  <2>2. CASE r = s /\ Write(r)
    BY <2>1, <2>2 DEF Write, Moves
  <2>3. CASE r = s /\ Returns(r)
    BY <2>1, <2>3 DEF Returns
  <2>4. CASE r # s
    <3>1. phase'[s] = phase[s]
      BY <2>1, <2>4 DEF CallerStep, Register, Write, WriteFails, Returns, Fails, Abandon, Moves
    <3>2. decoding[s] => decoding'[s]
      BY DEF CallerStep, Register, Write, WriteFails, Returns, Fails, Abandon
    <3> QED
      BY <3>1, <3>2
  <2> QED
    BY <1>1, <2>2, <2>3, <2>4
<1> QED
  BY <1>2, <1>3, <1>4, <1>5 DEF SameView

LEMMA SubscriptionView ==
  ASSUME TypeOK, ReaderAt, NEW s \in Subs, NEW x \in Subs, phase'[s] \in InUse,
         \/ (Enlist(x) \/ DecodeTake(x) \/ DecodeEnd(x)) /\ x # s
         \/ DecodePut(x) \/ ConsumerStep(x) \/ DropSub(x) \/ LeaveStep(x)
  PROVE  SameView(s)
<1> USE DEF callerVars, tables, readerVars, chanVars, userVars, daemonVars
<1>1. /\ got[s] \in Seq(Nat) /\ itemq[s] \in Seq(Nat) /\ hand[s] \in Seq(Nat)
      /\ DOMAIN phase = Reqs /\ DOMAIN got = Subs /\ DOMAIN itemq = Subs
      /\ DOMAIN hand = Subs /\ DOMAIN rawq = Subs /\ DOMAIN decoding = Subs /\ s \in Reqs
  BY PipeTypes DEF TypeOK, Reqs
<1>2. DropSub(x) \/ LeaveStep(x) => x # s
  BY <1>1 DEF DropSub, LeaveStep, LeavePending, LeaveSubs, Moves, InUse
<1>3. /\ WireAlike(s) /\ WithReader(s)' = WithReader(s) /\ sent'[s] = sent[s]
      /\ reader' = reader /\ link' = link /\ serving' = serving
  BY DEF Enlist, DecodeTake, DecodePut, DecodeEnd, ConsumerStep, Recv, RecvNone, DropSub,
         LeaveStep, LeavePending, LeaveSubs, WireAlike, WithReader
<1>4. s \in subs' <=> s \in subs
  BY <1>2 DEF Enlist, DecodeTake, DecodePut, DecodeEnd, ConsumerStep, Recv, RecvNone, DropSub,
              LeaveStep, LeavePending, LeaveSubs
<1>5. rawq'[s] = rawq[s] /\ hand'[s] \in {hand[s], <<>>}
  BY <1>1, <1>2 DEF Enlist, DecodeTake, DecodePut, DecodeEnd, ConsumerStep, Recv, RecvNone,
                    DropSub, LeaveStep, LeavePending, LeaveSubs
<1>6. phase'[s] = "ok" /\ ~decoding'[s] => phase[s] = "ok" /\ ~decoding[s]
  BY <1>1, <1>2 DEF Enlist, DecodeTake, DecodePut, DecodeEnd, ConsumerStep, Recv, RecvNone,
                    DropSub, LeaveStep, LeavePending, LeaveSubs, Moves
<1>7. Told(s)' = Told(s)
  <2>1. CASE DecodePut(x) /\ x = s
    <3>1. itemq'[s] = itemq[s] \o hand[s] /\ hand'[s] = <<>> /\ got' = got
      BY <1>1, <2>1 DEF DecodePut
    <3>2. /\ (got[s] \o itemq[s]) \o hand[s] = got[s] \o (itemq[s] \o hand[s])
          /\ got[s] \o (itemq[s] \o hand[s]) \in Seq(Nat)
      BY <1>1, ConcatAssoc, ConcatProperties
    <3> QED
      BY <3>1, <3>2, ConcatEmptySeq DEF Told
  <2>2. CASE Recv(x) /\ x = s
    <3>1. /\ itemq'[s] = Tail(itemq[s]) /\ got'[s] = Append(got[s], Head(itemq[s]))
          /\ hand' = hand /\ itemq[s] # <<>>
      BY <1>1, <2>2 DEF Recv
    <3>2. Append(got[s], Head(itemq[s])) \o Tail(itemq[s]) = got[s] \o itemq[s]
      BY <1>1, <3>1, ConcatHead
    <3> QED
      BY <3>1, <3>2 DEF Told
  <2>3. CASE ~(DecodePut(x) /\ x = s) /\ ~(Recv(x) /\ x = s)
    <3>1. got'[s] = got[s] /\ itemq'[s] = itemq[s] /\ hand'[s] = hand[s]
      BY <1>1, <1>2, <2>3 DEF Enlist, DecodeTake, DecodePut, DecodeEnd, ConsumerStep, Recv,
                              RecvNone, DropSub, LeaveStep, LeavePending, LeaveSubs
    <3> QED
      BY <3>1 DEF Told
  <2> QED
    BY <2>1, <2>2, <2>3
<1> QED
  BY <1>3, <1>4, <1>5, <1>6, <1>7 DEF SameView

LEMMA ReaderView ==
  ASSUME TypeOK, ReaderAt, NEW s \in Subs,
         \/ ReadResponse \/ ReadEnd \/ ClearPending
         \/ ReadEvent /\ Head(wire).id # s
         \/ ReadClosed /\ Head(wire).id # s
         \/ Deliver /\ held[1].id # s
  PROVE  SameView(s)
<1> USE DEF callerVars, tables, readerVars, chanVars, userVars, daemonVars
<1>1. /\ Told(s)' = Told(s) /\ hand'[s] = hand[s] /\ sent'[s] = sent[s]
      /\ s \in subs' <=> s \in subs
      /\ phase' = phase /\ decoding' = decoding /\ link' = link /\ serving' = serving
  BY DEF ReadResponse, ReadEvent, Deliver, ReadClosed, ReadEnd, ClearPending, Told
<1>2. rawq'[s] = rawq[s] /\ reader # "aborted"
  BY DEF ReadResponse, ReadEvent, Deliver, ReadClosed, ReadEnd, ClearPending, Reads, TypeOK
<1>3. WireAlike(s)
  <2>1. ASSUME NEW kind, Reads(kind), Head(wire).kind # "event" \/ Head(wire).id # s
        PROVE  WireAlike(s)
    BY <2>1, ReadsAlike
  <2>3. ReadResponse => Reads("response") /\ Head(wire).kind # "event"
    BY DEF ReadResponse, Reads
  <2>4. ReadEvent => Reads("event") /\ Head(wire).id # s
    BY DEF ReadResponse, ReadEvent, Reads, Deliver, ReadEnd, ClearPending, ReadClosed
  <2>5. ReadClosed => Reads("closed") /\ Head(wire).kind # "event"
    BY DEF ReadClosed, Reads
  <2>2. CASE Deliver \/ ReadEnd \/ ClearPending
    BY <2>2 DEF Deliver, ReadEnd, ClearPending, WireAlike
  <2> QED
    BY <2>1, <2>2, <2>3, <2>4, <2>5
<1>4. WithReader(s)' = WithReader(s)
  <2>1. CASE ReadResponse \/ ReadEnd \/ ClearPending \/ ReadClosed
    BY <2>1 DEF ReadResponse, ReadEnd, ClearPending, ReadClosed, WithReader
  <2>2. CASE Deliver /\ held[1].id # s
    BY <2>2 DEF Deliver, WithReader
  <2>3. CASE ReadEvent /\ Head(wire).id # s
    <3>1. held = <<>>
      BY <2>3 DEF ReadEvent, Reads, ReaderAt
    <3>2. held' = <<>> \/ (held' = <<Head(wire)>> /\ Head(wire).id # s)
      BY <2>3, <3>1 DEF ReadEvent
    <3> QED
      BY <3>1, <3>2 DEF WithReader
  <2> QED
    BY <2>1, <2>2, <2>3
<1> QED
  BY <1>1, <1>2, <1>3, <1>4 DEF SameView

LEMMA DaemonView ==
  ASSUME TypeOK, NEW s \in Subs, ServedAs(s),
         \/ \E r \in Reqs, v \in {"ok", "error"} : Answer(r, v)
         \/ \E x \in Subs : (Emit(x) /\ x # s) \/ CloseStream(x)
         \/ HangUp \/ EndReading
  PROVE  SameView(s)
<1> USE DEF callerVars, tables, readerVars, chanVars, userVars, daemonVars
<1>1. /\ Told(s)' = Told(s) /\ WithReader(s)' = WithReader(s) /\ hand' = hand /\ rawq' = rawq
      /\ subs' = subs /\ phase' = phase /\ decoding' = decoding /\ reader' = reader
  BY DEF Answer, Emit, CloseStream, HangUp, EndReading, Told, WithReader
<1>2. sent'[s] = sent[s]
  BY DEF Answer, Emit, CloseStream, HangUp, EndReading, TypeOK
<1>3. link # "open" \/ serving[s] = "closed" => link' # "open" \/ serving'[s] = "closed"
  BY DEF Answer, Emit, CloseStream, HangUp, EndReading, TypeOK, ServedAs, Puts
<1>4. WireAlike(s)
  <2>1. ASSUME NEW r \in Reqs, NEW v \in {"ok", "error"}, Answer(r, v) PROVE WireAlike(s)
    <3> DEFINE f == Response(r, v)
    <3>1. f \in Frames /\ f.kind = "response" /\ Puts(f)
      BY <2>1 DEF Frames, Response, Answer
    <3> HIDE DEF f
    <3> QED
      BY <3>1, PutsAlike
  <2>2. ASSUME NEW x \in Subs, Emit(x), x # s PROVE WireAlike(s)
    <3> DEFINE f == Event(x, sent[x] + 1)
    <3>1. f \in Frames /\ f.id = x /\ Puts(f)
      BY <2>2, FrameTypes, BufferAssumption DEF Emit, TypeOK, Events
    <3> HIDE DEF f
    <3> QED
      BY <3>1, <2>2, PutsAlike
  <2>3. ASSUME NEW x \in Subs, CloseStream(x) PROVE WireAlike(s)
    <3> DEFINE f == Closed(x)
    <3>1. f \in Frames /\ f.kind = "closed" /\ Puts(f)
      BY <2>3, FrameTypes DEF CloseStream
    <3> HIDE DEF f
    <3> QED
      BY <3>1, PutsAlike
  <2>4. CASE HangUp \/ EndReading
    BY <2>4 DEF HangUp, EndReading, WireAlike
  <2> QED
    BY <2>1, <2>2, <2>3, <2>4
<1> QED
  BY <1>1, <1>2, <1>3, <1>4 DEF SameView

\* ... and those that move an event of s, or its place in the table.
LEMMA UsedEnlist ==
  ASSUME TypeOK, ReaderAt, Served, NEW s \in Subs, Enlist(s)
  PROVE  Used(s)'
<1> USE DEF readerVars, chanVars, userVars, daemonVars
<1>1. Untouched(s)
  BY DEF Enlist, Moves, Served, ServedAs
<1>2. s \in subs' /\ phase'[s] = "tabled"
  BY DEF Enlist, Moves, TypeOK, Reqs
<1>3. Told(s)' = <<>> /\ Untold(s)' = <<>> /\ Of(wire, s)' = {} /\ sent'[s] = 0
  BY <1>1, EmptySeq, ConcatEmptySeq
     DEF Enlist, Told, Untold, WithReader, OnWire, Of, Untouched
<1>4. Exactly(<<>>, 0) /\ Follows(<<>>, 0) /\ Len(<<>>) = 0
  <2>1. DOMAIN <<>> = {} /\ Len(<<>>) = 0
    BY EmptySeq, LenProperties
  <2> QED
    BY <2>1 DEF Exactly, Follows, InOrder, Entries
<1>5. Carries(wire, s, 0, 0)'
  BY <1>3 DEF Carries
<1>6. AccountedFor(s, 0)'
  BY <1>2, <1>3, <1>4, <1>5 DEF AccountedFor
<1>7. 0 \in 0..0
  OBVIOUS
<1> QED
  BY <1>2, <1>3, <1>6, <1>7 DEF Used

LEMMA UsedReadEvent ==
  ASSUME TypeOK, ReaderAt, NEW s \in Subs, Used(s), ReadEvent, Head(wire).id = s
  PROVE  Used(s)'
<1> USE DEF callerVars, tables, readerVars, chanVars, userVars, daemonVars
<1>1. /\ wire \in Seq(Frames) /\ wire # <<>> /\ Head(wire).kind = "event"
      /\ wire' = Tail(wire) /\ reader = "reading" /\ held = <<>>
  BY DEF ReadEvent, Reads, TypeOK, ReaderAt
<1>2. s \in subs
  <2>1. OnWire(s) # {}
    BY <1>1, HeadOf
  <2> QED
    BY <2>1 DEF Used, Over
<1>3. /\ held' = <<Head(wire)>> /\ subs' = subs
      /\ Told(s)' = Told(s) /\ rawq' = rawq /\ hand' = hand /\ sent' = sent
      /\ phase' = phase /\ decoding' = decoding
  BY <1>2 DEF ReadEvent, Told
<1>4. PICK n \in 0..sent[s] : AccountedFor(s, n)
  BY DEF Used
<1>5. /\ rawq[s] \in Seq(Nat) /\ Len(rawq[s]) \in Nat /\ sent[s] \in Nat
      /\ n + Len(rawq[s]) \in Nat
  BY PipeTypes, LenProperties
<1>6. WithReader(s) = <<>> /\ Untold(s) = rawq[s]
  BY <1>1, <1>5, ConcatEmptySeq DEF WithReader, Untold
<1> DEFINE m == n + Len(rawq[s])
<1>7. Exactly(Told(s), n) /\ Follows(rawq[s], n) /\ Carries(wire, s, m, sent[s])
  BY <1>1, <1>4, <1>6 DEF AccountedFor
<1>8. Head(wire).val = m + 1 /\ m < sent[s] /\ Carries(Tail(wire), s, m + 1, sent[s])
  BY <1>1, <1>5, <1>7, CarriesNext
<1>9. Untold(s)' = Append(rawq[s], m + 1)
  <2>1. WithReader(s)' = <<m + 1>>
    BY <1>3, <1>8 DEF WithReader
  <2>2. rawq[s] \o <<m + 1>> = Append(rawq[s], m + 1)
    BY <1>5, ConcatLast
  <2> QED
    BY <1>3, <2>1, <2>2 DEF Untold
<1>10. /\ Follows(Append(rawq[s], m + 1), n)
       /\ Len(Append(rawq[s], m + 1)) = Len(rawq[s]) + 1
  BY <1>5, <1>7, FollowsAppend, AppendProperties
<1>11. n + (Len(rawq[s]) + 1) = m + 1 /\ m + 1 <= sent[s]
  BY <1>5, <1>8
<1>12. AccountedFor(s, n)'
  BY <1>1, <1>2, <1>3, <1>7, <1>8, <1>9, <1>10, <1>11 DEF AccountedFor
<1>13. (phase[s] = "ok" /\ ~decoding[s] => s \notin subs /\ rawq[s] = <<>> /\ hand[s] = <<>>)'
  BY <1>3 DEF Used
<1> QED
  BY <1>2, <1>3, <1>12, <1>13 DEF Used

LEMMA UsedDeliver ==
  ASSUME TypeOK, ReaderAt, NEW s \in Subs, phase[s] \in InUse, Used(s), Deliver,
         held[1].id = s
  PROVE  Used(s)'
<1> USE DEF callerVars, tables, readerVars, chanVars, userVars, daemonVars
<1>0. reader = "sending" /\ reader' = "reading" /\ held' = <<>>
  BY DEF Deliver
<1>1. held # <<>> /\ reader = "sending" /\ reader' = "reading" /\ held' = <<>>
  <2>1. Len(held) = 1 /\ Len(<<>>) = 0
    BY <1>0, EmptySeq DEF ReaderAt
  <2> QED
    BY <1>0, <2>1
<1>2. s \in subs
  BY <1>1 DEF Used, Over, WithReader
<1>3. Listening(s)
  BY <1>2 DEF Used, Listening, InUse
<1>4. rawq' = [rawq EXCEPT ![s] = Append(@, held[1].val)]
  BY <1>3 DEF Deliver
<1>5. /\ held[1].val \in Nat /\ rawq[s] \in Seq(Nat)
  <2>1. held[1] \in Frames /\ held[1].kind = "event"
    BY <1>1, HeldTypes DEF ReaderAt
  <2> QED
    BY <2>1, EventFrame, PipeTypes DEF Events
<1>6. Untold(s)' = Untold(s)
  <2>1. rawq'[s] = Append(rawq[s], held[1].val)
    BY <1>4 DEF TypeOK
  <2>2. /\ WithReader(s) = <<held[1].val>> /\ WithReader(s)' = <<>>
    BY <1>1 DEF WithReader
  <2>3. /\ rawq[s] \o <<held[1].val>> = Append(rawq[s], held[1].val)
        /\ Append(rawq[s], held[1].val) \o <<>> = Append(rawq[s], held[1].val)
    BY <1>5, ConcatLast, ConcatEmptySeq, AppendProperties
  <2> QED
    BY <2>1, <2>2, <2>3 DEF Untold
<1>7. /\ Told(s)' = Told(s) /\ subs' = subs /\ phase' = phase /\ decoding' = decoding
      /\ hand' = hand /\ wire' = wire /\ sent' = sent
  BY DEF Deliver, Told
<1>8. PICK n \in 0..sent[s] : AccountedFor(s, n)
  BY DEF Used
<1>9. AccountedFor(s, n)'
  BY <1>1, <1>2, <1>6, <1>7, <1>8 DEF AccountedFor
<1> QED
  BY <1>2, <1>7, <1>9 DEF Used

\* No frame of s follows its "closed", so all of it was read.
LEMMA UsedReadClosed ==
  ASSUME TypeOK, ReaderAt, Served, NEW s \in Subs, Used(s), ReadClosed, Head(wire).id = s
  PROVE  Used(s)'
<1> USE DEF callerVars, tables, readerVars, chanVars, userVars, daemonVars
<1>1. /\ wire \in Seq(Frames) /\ wire # <<>> /\ Head(wire).kind = "closed"
      /\ wire' = Tail(wire) /\ reader = "reading" /\ held = <<>>
  BY DEF ReadClosed, Reads, TypeOK, ReaderAt
<1>2. 1 \in DOMAIN wire /\ Head(wire) = wire[1] /\ DOMAIN wire = 1..Len(wire)
  BY <1>1, EmptySeq, LenProperties, HeadTailProperties
<1>3. serving[s] = "closed" /\ \A j \in Of(wire, s) : j < 1
  BY <1>1, <1>2 DEF Served, ClosedLast
<1>4. Of(wire, s) = {} /\ Of(wire', s) = {}
  <2>1. Of(wire, s) = {}
    BY <1>2, <1>3 DEF Of
  <2> QED
    BY <2>1, <1>1, OfTailNone
<1>5. /\ Told(s)' = Told(s) /\ rawq' = rawq /\ hand' = hand /\ sent' = sent
      /\ phase' = phase /\ decoding' = decoding /\ held' = held /\ reader' = reader
      /\ s \notin subs' /\ serving' = serving
  BY DEF ReadClosed, Told
<1>6. Untold(s)' = Untold(s)
  BY <1>5 DEF Untold, WithReader
<1>7. Over(s)'
  BY <1>1, <1>3, <1>4, <1>5 DEF Over, OnWire, Of, WithReader
<1>8. PICK n \in 0..sent[s] : AccountedFor(s, n)
  BY DEF Used
<1> DEFINE m == n + Len(Untold(s))
<1>9. m \in Nat /\ sent[s] \in Nat
  BY PipeTypes
<1>10. m <= sent[s] /\ Carries(wire, s, m, sent[s])
  BY <1>1, <1>8 DEF AccountedFor
<1>11. m = sent[s]
  BY <1>4, <1>9, <1>10, CarriesNone
<1>12. Carries(wire', s, m, sent[s])
  BY <1>4, <1>9, <1>11 DEF Carries
<1>13. AccountedFor(s, n)'
  BY <1>5, <1>6, <1>8, <1>11, <1>12 DEF AccountedFor
<1>14. (phase[s] = "ok" /\ ~decoding[s] => s \notin subs /\ rawq[s] = <<>> /\ hand[s] = <<>>)'
  BY <1>5 DEF Used
<1> QED
  BY <1>5, <1>7, <1>13, <1>14 DEF Used

LEMMA UsedClearSubs ==
  ASSUME TypeOK, ReaderAt, NEW s \in Subs, Used(s), ClearSubs
  PROVE  Used(s)'
<1> USE DEF callerVars, tables, readerVars, chanVars, userVars, daemonVars
<1>1. reader = "clearing" /\ wire = <<>> /\ link # "open" /\ held = <<>>
  BY DEF ClearSubs, ReaderAt
<1>2. /\ Told(s)' = Told(s) /\ Untold(s)' = Untold(s) /\ rawq' = rawq /\ hand' = hand
      /\ sent' = sent /\ phase' = phase /\ decoding' = decoding /\ held' = held
      /\ reader' = "done" /\ s \notin subs' /\ wire' = wire /\ link' = link
  BY DEF ClearSubs, Told, Untold, WithReader
<1>3. Of(wire, s) = {}
  <2>1. DOMAIN wire = {}
    BY <1>1, EmptySeq, LenProperties
  <2> QED
    BY <2>1 DEF Of
<1>4. Over(s)'
  BY <1>1, <1>2, <1>3 DEF Over, OnWire, Of, WithReader
<1>5. PICK n \in 0..sent[s] : AccountedFor(s, n)
  BY DEF Used
<1> DEFINE m == n + Len(Untold(s))
<1>6. m \in Nat /\ sent[s] \in Nat
  BY PipeTypes
<1>7. m <= sent[s] /\ Carries(wire, s, m, sent[s])
  BY <1>1, <1>5 DEF AccountedFor
<1>8. m = sent[s]
  BY <1>3, <1>6, <1>7, CarriesNone
<1>9. AccountedFor(s, n)'
  BY <1>2, <1>5, <1>7, <1>8 DEF AccountedFor
<1>10. (phase[s] = "ok" /\ ~decoding[s] => s \notin subs /\ rawq[s] = <<>> /\ hand[s] = <<>>)'
  BY <1>2 DEF Used
<1> QED
  BY <1>2, <1>4, <1>9, <1>10 DEF Used

LEMMA UsedDecodeTake ==
  ASSUME TypeOK, ReaderAt, NEW s \in Subs, Used(s), DecodeTake(s)
  PROVE  Used(s)'
<1> USE DEF callerVars, tables, readerVars, chanVars, userVars, daemonVars
<1>1. /\ decoding[s] /\ hand[s] = <<>> /\ rawq[s] # <<>>
      /\ rawq'[s] = Tail(rawq[s])
      /\ hand'[s] = IF Head(rawq[s]) \in Undecodable THEN <<>> ELSE <<Head(rawq[s])>>
  BY DEF DecodeTake, TypeOK
<1>2. /\ subs' = subs /\ decoding' = decoding /\ wire' = wire /\ sent' = sent /\ link' = link
      /\ serving' = serving /\ WithReader(s)' = WithReader(s) /\ reader' = reader
      /\ got' = got /\ itemq' = itemq
  BY DEF DecodeTake, WithReader
<1>3. /\ rawq[s] \in Seq(Nat) /\ WithReader(s) \in Seq(Nat) /\ Untold(s) \in Seq(Nat)
      /\ Told(s) \in Seq(Nat) /\ got[s] \o itemq[s] \in Seq(Nat) /\ sent[s] \in Nat
      /\ Len(Untold(s)) \in Nat
  BY PipeTypes, ConcatProperties
<1>4. PICK n \in 0..sent[s] : AccountedFor(s, n)
  BY DEF Used
<1>5. /\ Untold(s) # <<>> /\ Head(Untold(s)) = Head(rawq[s]) /\ Untold(s)' = Tail(Untold(s))
  <2> DEFINE w == WithReader(s)
  <2>1. /\ rawq[s] \o w # <<>> /\ Head(rawq[s] \o w) = Head(rawq[s])
        /\ Tail(rawq[s] \o w) = Tail(rawq[s]) \o w
    BY <1>1, <1>3, ConcatTail
  <2>2. Untold(s) = rawq[s] \o w /\ Untold(s)' = Tail(rawq[s]) \o w
    BY <1>1, <1>2 DEF Untold
  <2> QED
    BY <2>1, <2>2
<1>6. /\ Head(rawq[s]) = n + 1 /\ Follows(Untold(s)', n + 1)
      /\ Len(Untold(s)') = Len(Untold(s)) - 1
  BY <1>3, <1>4, <1>5, FollowsTail DEF AccountedFor
<1>7. Exactly(Told(s)', n + 1)
  <2>1. Told(s) = got[s] \o itemq[s]
    BY <1>1, <1>3, ConcatEmptySeq DEF Told
  <2>2. Exactly(Told(s), n) /\ n \in Nat
    BY <1>3, <1>4 DEF AccountedFor
  <2>3. CASE n + 1 \in Undecodable
    <3>1. Told(s)' = Told(s)
      BY <1>1, <1>2, <1>3, <1>6, <2>1, <2>3, ConcatEmptySeq DEF Told
    <3> QED
      BY <1>3, <2>2, <2>3, <3>1, ExactlyNext
  <2>4. CASE n + 1 \notin Undecodable
    <3>1. Told(s)' = Told(s) \o <<n + 1>>
      BY <1>1, <1>2, <1>6, <2>1, <2>4 DEF Told
    <3>2. Told(s)' = Append(Told(s), n + 1)
      BY <1>3, <3>1, ConcatLast
    <3> QED
      BY <1>3, <2>2, <2>4, <3>2, ExactlyNext
  <2> QED
    BY <2>3, <2>4
<1>8. Len(Untold(s)) > 0
  BY <1>3, <1>5, EmptySeq
<1>9. n + Len(Untold(s)) = (n + 1) + Len(Untold(s)')
  BY <1>3, <1>6
<1>10. n + 1 \in 0..sent[s]
  BY <1>3, <1>4, <1>8 DEF AccountedFor
<1>11. AccountedFor(s, n + 1)'
  BY <1>2, <1>4, <1>6, <1>7, <1>9 DEF AccountedFor
<1>12. (s \notin subs => Over(s))'
  BY <1>2 DEF Used, Over, OnWire
<1>13. (\E k \in 0..sent[s] : AccountedFor(s, k))'
  BY <1>2, <1>10, <1>11
<1> QED
  BY <1>1, <1>2, <1>12, <1>13 DEF Used

LEMMA UsedDecodeEnd ==
  ASSUME TypeOK, ReaderAt, NEW s \in Subs, Used(s), DecodeEnd(s)
  PROVE  Used(s)'
<1> USE DEF callerVars, tables, readerVars, chanVars, userVars, daemonVars
<1>1. s \notin subs /\ rawq[s] = <<>> /\ hand[s] = <<>>
  BY DEF DecodeEnd, SendersGone
<1>2. /\ subs' = subs /\ rawq' = rawq /\ hand' = hand /\ sent' = sent /\ wire' = wire
      /\ reader' = reader /\ Told(s)' = Told(s) /\ Untold(s)' = Untold(s)
  BY DEF DecodeEnd, Told, Untold, WithReader
<1>3. (s \notin subs => Over(s))'
  BY DEF DecodeEnd, Used, Over, OnWire, WithReader
<1>4. PICK n \in 0..sent[s] : AccountedFor(s, n)
  BY DEF Used
<1>5. AccountedFor(s, n)'
  BY <1>2, <1>4 DEF AccountedFor
<1> QED
  BY <1>1, <1>2, <1>3, <1>4, <1>5 DEF Used

\* An aborted reader loses its event, and the others on the wire.
LEMMA UsedDropClient ==
  ASSUME TypeOK, ReaderAt, NEW s \in Subs, Used(s), DropClient
  PROVE  Used(s)'
<1> USE DEF callerVars, tables, chanVars, userVars, daemonVars
<1>1. /\ subs' = subs /\ rawq' = rawq /\ hand' = hand /\ sent' = sent /\ wire' = wire
      /\ reader' = "aborted" /\ held' = <<>> /\ Told(s)' = Told(s) /\ phase' = phase
      /\ decoding' = decoding /\ link' = link /\ serving' = serving
  BY DEF DropClient, Told
<1>2. (s \notin subs => Over(s))'
  BY <1>1 DEF Used, Over, OnWire, WithReader
<1>3. (phase[s] = "ok" /\ ~decoding[s] => s \notin subs /\ rawq[s] = <<>> /\ hand[s] = <<>>)'
  BY <1>1 DEF Used
<1>4. PICK n \in 0..sent[s] : AccountedFor(s, n)
  BY DEF Used
<1>5. /\ rawq[s] \in Seq(Nat) /\ WithReader(s) \in Seq(Nat) /\ Untold(s) \in Seq(Nat)
      /\ sent[s] \in Nat
  BY PipeTypes
<1>6. Untold(s)' = rawq[s]
  BY <1>1, <1>5, ConcatEmptySeq DEF Untold, WithReader
<1>7. /\ Len(Untold(s)) = Len(rawq[s]) + Len(WithReader(s))
      /\ Len(rawq[s]) \in Nat /\ Len(WithReader(s)) \in Nat
      /\ DOMAIN rawq[s] = 1..Len(rawq[s]) /\ DOMAIN Untold(s) = 1..Len(Untold(s))
      /\ \A k \in 1..Len(rawq[s]) : Untold(s)[k] = rawq[s][k]
  BY <1>5, ConcatProperties, LenProperties DEF Untold
<1>8. Follows(rawq[s], n)
  <2>1. ASSUME NEW k \in DOMAIN rawq[s] PROVE rawq[s][k] = n + k
    <3>1. k \in DOMAIN Untold(s) /\ Untold(s)[k] = rawq[s][k]
      BY <1>7
    <3> QED
      BY <1>4, <3>1 DEF AccountedFor, Follows
  <2> QED
    BY <2>1 DEF Follows
<1>9. n + Len(rawq[s]) <= n + Len(Untold(s)) /\ n + Len(Untold(s)) <= sent[s]
  BY <1>4, <1>5, <1>7 DEF AccountedFor
<1>10. n + Len(rawq[s]) <= sent[s]
  BY <1>5, <1>7, <1>9
<1>11. s \notin subs => n + Len(rawq[s]) = sent[s]
  <2> SUFFICES ASSUME s \notin subs PROVE n + Len(rawq[s]) = sent[s]
    OBVIOUS
  <2>1. WithReader(s) = <<>> /\ Untold(s) = rawq[s]
    BY <1>5, ConcatEmptySeq DEF Used, Over, Untold
  <2> QED
    BY <1>4, <2>1 DEF AccountedFor
<1>12. AccountedFor(s, n)'
  BY <1>1, <1>4, <1>6, <1>8, <1>10, <1>11 DEF AccountedFor
<1> QED
  BY <1>1, <1>2, <1>3, <1>4, <1>12 DEF Used

LEMMA UsedEmit ==
  ASSUME TypeOK, ReaderAt, NEW s \in Subs, Used(s), Emit(s)
  PROVE  Used(s)'
<1> USE DEF callerVars, tables, readerVars, chanVars, userVars, daemonVars
<1> DEFINE f == Event(s, sent[s] + 1)
<1>1. /\ f \in Frames /\ f.kind = "event" /\ f.id = s /\ f.val = sent[s] + 1
  BY FrameTypes, BufferAssumption DEF Emit, TypeOK, Events
<1>2. /\ wire \in Seq(Frames) /\ wire' = Append(wire, f) /\ link = "open"
      /\ serving[s] = "open" /\ sent'[s] = sent[s] + 1 /\ sent[s] \in Nat
  BY BufferAssumption DEF Emit, Puts, TypeOK
<1> HIDE DEF f
<1>3. s \in subs
  BY <1>2 DEF Used, Over
<1>4. /\ Told(s)' = Told(s) /\ Untold(s)' = Untold(s) /\ rawq' = rawq /\ hand' = hand
      /\ subs' = subs /\ reader' = reader /\ phase' = phase /\ decoding' = decoding
  BY DEF Emit, Told, Untold, WithReader
<1>5. PICK n \in 0..sent[s] : AccountedFor(s, n)
  BY DEF Used
<1> DEFINE m == n + Len(Untold(s))
<1>6. m \in Nat /\ m <= sent[s] /\ Len(Untold(s)) \in Nat
  BY <1>5, PipeTypes DEF AccountedFor
<1> HIDE DEF m
<1>7. reader # "aborted" => Carries(wire', s, m, sent[s] + 1)
  <2> SUFFICES ASSUME reader # "aborted" PROVE Carries(wire', s, m, sent[s] + 1)
    OBVIOUS
  <2>1. Carries(wire, s, m, sent[s])
    BY <1>5 DEF AccountedFor, m
  <2> QED
    BY <1>1, <1>2, <1>6, <2>1, CarriesAppendNext
<1>8. m <= sent[s] + 1 /\ n \in 0..sent[s] + 1
  BY <1>2, <1>6
<1>9. AccountedFor(s, n)'
  BY <1>2, <1>3, <1>4, <1>5, <1>7, <1>8 DEF AccountedFor, m
<1>10. (phase[s] = "ok" /\ ~decoding[s] => s \notin subs /\ rawq[s] = <<>> /\ hand[s] = <<>>)'
  BY <1>4 DEF Used
<1> QED
  BY <1>2, <1>3, <1>4, <1>8, <1>9, <1>10 DEF Used

LEMMA UsedOK_Step ==
  ASSUME TypeOK, ReaderAt, Served, UsedOK, Next
  PROVE  UsedOK'
<1> SUFFICES ASSUME NEW s \in Subs, phase'[s] \in InUse PROVE Used(s)'
  BY DEF UsedOK
<1>1. CASE Enlist(s)
  BY <1>1, UsedEnlist
<1>2. CASE ~Enlist(s)
  <2>1. phase[s] \in InUse
    <3>1. DOMAIN phase = Reqs /\ s \in Reqs
      BY DEF TypeOK, Reqs
    <3>2. CASE phase' = phase
      BY <3>2
    <3>3. ASSUME NEW r \in Reqs, Register(r) \/ CallerStep(r) \/ Abandon(r)
          PROVE  phase[s] \in InUse
      BY <3>1, <3>3 DEF CallerStep, Register, Write, WriteFails, Returns, Fails, Abandon, Moves,
                        BeforeWrite, InUse
    <3>4. ASSUME NEW x \in Subs, Enlist(x) \/ DropSub(x) \/ LeaveStep(x)
          PROVE  phase[s] \in InUse
      BY <1>2, <3>1, <3>4 DEF Enlist, DropSub, LeaveStep, LeavePending, LeaveSubs, Moves, InUse,
                              Reqs
    <3>5. \/ phase' = phase
          \/ \E r \in Reqs : Register(r) \/ CallerStep(r) \/ Abandon(r)
          \/ \E x \in Subs : Enlist(x) \/ DropSub(x) \/ LeaveStep(x)
      BY DEF Next, ReaderStep, ReadResponse, ReadEvent, Deliver, ReadClosed, ReadEnd,
             ClearPending, ClearSubs, DecoderStep, ConsumerStep, DecodeTake, DecodePut,
             DecodeEnd, Recv, RecvNone, Answer, Emit, CloseStream, DropClient, HangUp,
             EndReading, callerVars
    <3> QED
      BY <3>2, <3>3, <3>4, <3>5
  <2>2. Used(s) /\ ServedAs(s)
    BY <2>1 DEF UsedOK, Served
  <2>3. CASE \E r \in Reqs : Register(r) \/ CallerStep(r) \/ Abandon(r)
    BY <2>2, <2>3, CallerView, UsedKept
  <2>4. ASSUME NEW x \in Subs, \/ Enlist(x) \/ DecoderStep(x) \/ ConsumerStep(x)
                               \/ DropSub(x) \/ LeaveStep(x)
        PROVE  Used(s)'
    BY <1>2, <2>2, <2>4, SubscriptionView, UsedKept, UsedDecodeTake, UsedDecodeEnd
       DEF DecoderStep
  <2>5. CASE ReaderStep
    <3>1. CASE \/ ReadResponse \/ ReadEnd \/ ClearPending
               \/ ReadEvent /\ Head(wire).id # s
               \/ ReadClosed /\ Head(wire).id # s
               \/ Deliver /\ held[1].id # s
      BY <2>2, <3>1, ReaderView, UsedKept
    <3>2. CASE ReadEvent /\ Head(wire).id = s
      BY <2>2, <3>2, UsedReadEvent
    <3>3. CASE ReadClosed /\ Head(wire).id = s
      BY <2>2, <3>3, UsedReadClosed
    <3>4. CASE Deliver /\ held[1].id = s
      BY <2>1, <2>2, <3>4, UsedDeliver
    <3>5. CASE ClearSubs
      BY <2>2, <3>5, UsedClearSubs
    <3> QED
      BY <2>5, <3>1, <3>2, <3>3, <3>4, <3>5 DEF ReaderStep
  <2>6. CASE DropClient
    BY <2>2, <2>6, UsedDropClient
  <2>7. CASE \/ \E r \in Reqs, v \in {"ok", "error"} : Answer(r, v)
             \/ \E x \in Subs : Emit(x) \/ CloseStream(x)
             \/ HangUp \/ EndReading
    <3>1. CASE Emit(s)
      BY <2>2, <3>1, UsedEmit
    <3>2. CASE ~Emit(s)
      BY <2>2, <2>7, <3>2, DaemonView, UsedKept
    <3> QED
      BY <3>1, <3>2
  <2> QED
    BY <2>3, <2>4, <2>5, <2>6, <2>7 DEF Next
<1> QED
  BY <1>1, <1>2

----------------------------------------------------------------------------
(* The inductive invariant.                                                *)

LEMMA Init_IInv == Init => IInv
<1> SUFFICES ASSUME Init PROVE IInv
  OBVIOUS
<1>1. TypeOK
  BY InitTypes
<1>2. ReaderAt
  BY DEF Init, ReaderAt
<1>3. Answered /\ TablesTidy
  BY DEF Init, Answered, TablesTidy, Reqs
<1>4. Served
  <2>1. DOMAIN wire = {}
    BY EmptySeq, LenProperties DEF Init
  <2>2. \A s \in Subs : ServedAs(s) /\ Untouched(s)
    BY <2>1 DEF Init, ServedAs, Untouched, OnWire, WithReader, Reqs
  <2> QED
    BY <2>1, <2>2 DEF Served, ClosedLast
<1>5. UsedOK
  BY DEF Init, UsedOK, InUse, Reqs
<1> QED
  BY <1>1, <1>2, <1>3, <1>4, <1>5 DEF IInv

LEMMA Next_IInv == IInv /\ [Next]_vars => IInv'
<1> SUFFICES ASSUME IInv, [Next]_vars PROVE IInv'
  OBVIOUS
<1>1. CASE Next
  BY <1>1, TypeOK_Step, ReaderAt_Step, Answered_Step, TablesTidy_Step, Served_Step, UsedOK_Step
     DEF IInv
<1>2. CASE UNCHANGED vars
  <2> USE <1>2 DEF vars, callerVars, tables, readerVars, chanVars, userVars, daemonVars
  <2>1. TypeOK' /\ ReaderAt' /\ Answered' /\ TablesTidy'
    BY DEF IInv, TypeOK, ReaderAt, Answered, TablesTidy
  <2>2. \A s \in Subs : Untouched(s) => Untouched(s)'
    BY DEF Untouched, OnWire, WithReader
  <2>3. Served'
    BY <2>2 DEF IInv, Served, ServedAs, ClosedLast
  <2>4. ASSUME NEW s \in Subs PROVE Used(s) => Used(s)'
    <3>1. Told(s)' = Told(s) /\ WithReader(s)' = WithReader(s) /\ OnWire(s)' = OnWire(s)
      BY DEF OnWire, WithReader, Told
    <3>2. Untold(s)' = Untold(s)
      BY <3>1 DEF Untold
    <3>3. Over(s)' = Over(s)
      BY <3>1 DEF Over
    <3>4. ASSUME NEW n PROVE AccountedFor(s, n)' = AccountedFor(s, n)
      BY <3>1, <3>2 DEF AccountedFor
    <3> QED
      BY <3>3, <3>4 DEF Used
  <2>5. UsedOK'
    BY <2>4 DEF IInv, UsedOK
  <2> QED
    BY <2>1, <2>3, <2>5 DEF IInv
<1> QED
  BY <1>1, <1>2

LEMMA Invariant == Spec => []IInv
<1> QED
  BY Init_IInv, Next_IInv, PTL DEF Spec

\* Every variable keeps to its type, and the two channels of a subscription to their
\* capacity, for any number of calls, subscriptions and events.
THEOREM TypeCorrect == Spec => []TypeOK
<1>1. IInv => TypeOK
  BY DEF IInv
<1> QED
  BY <1>1, Invariant, PTL

\* The tables of client.rs keep nothing that is over: what returned is no longer pending,
\* what failed or was dropped no longer receives events.
THEOREM TablesAreTidy == Spec => []TablesTidy
<1>1. IInv => TablesTidy
  BY DEF IInv
<1> QED
  BY <1>1, Invariant, PTL

----------------------------------------------------------------------------
(* Nothing is lost, and what a consumer sees is its stream.                *)

LEMMA WireCarriesAll ==
  ASSUME NEW s \in Subs, NEW m \in Nat, m <= sent[s], Carries(wire, s, m, sent[s])
  PROVE  WireCarries(s, m)
<1>1. OnWire(s) = Of(wire, s)
  BY DEF OnWire, Of
<1>2. {wire[k].val : k \in Of(wire, s)} = m+1..sent[s]
  BY DEF Carries
<1>3. \A j, k \in Of(wire, s) : j < k => wire[j].val < wire[k].val
  BY DEF Carries
<1> QED
  BY <1>1, <1>2, <1>3 DEF WireCarries

\* Back-pressure loses nothing: what the consumer of a subscription in use has, what the
\* channels, the decoder and the reader hold and what is on the wire is what was sent.
THEOREM NothingLost == Spec => []Lossless
<1>1. ASSUME IInv PROVE Lossless
  <2> SUFFICES ASSUME NEW s \in Subs, phase[s] \in {"tabled", "await", "ok"},
                      reader # "aborted"
               PROVE  \E n \in 0..sent[s] : /\ ToldOf(s, n) /\ FollowOn(s, n)
                                            /\ WireCarries(s, n + Len(Untold(s)))
    BY DEF Lossless
  <2>1. Used(s)
    BY <1>1 DEF IInv, UsedOK, InUse
  <2>2. PICK n \in 0..sent[s] : AccountedFor(s, n)
    BY <2>1 DEF Used
  <2>3. ToldOf(s, n) /\ FollowOn(s, n)
    BY <2>2 DEF AccountedFor, Exactly, Follows, ToldOf, FollowOn
  <2>4. n + Len(Untold(s)) \in Nat
    BY <1>1, PipeTypes DEF IInv
  <2>5. WireCarries(s, n + Len(Untold(s)))
    BY <2>2, <2>4, WireCarriesAll DEF AccountedFor
  <2> QED
    BY <2>3, <2>5
<1> QED
  BY <1>1, Invariant, PTL

\* The next event a consumer takes is the first that decodes which it does not have.
LEMMA NextInOrder ==
  ASSUME NEW g \in Seq(Nat), NEW q \in Seq(Nat), q # <<>>, NEW h \in Seq(Nat), NEW n \in Nat,
         Exactly((g \o q) \o h, n)
  PROVE  /\ Head(q) \in ((1..n) \ Undecodable) \ Entries(g)
         /\ (1..Head(q) - 1) \ Undecodable \subseteq Entries(g)
<1> DEFINE t == (g \o q) \o h
           i == Len(g) + 1
<1>1. /\ Len(g) \in Nat /\ Len(q) \in Nat \ {0} /\ Len(h) \in Nat /\ Head(q) = q[1]
      /\ DOMAIN g = 1..Len(g)
  BY EmptySeq, LenProperties, HeadTailProperties
<1>2. /\ g \o q \in Seq(Nat) /\ Len(g \o q) = Len(g) + Len(q)
      /\ \A k \in 1..Len(g) + Len(q) :
           (g \o q)[k] = IF k <= Len(g) THEN g[k] ELSE q[k - Len(g)]
  BY ConcatProperties
<1>3. /\ t \in Seq(Nat) /\ Len(t) = Len(g \o q) + Len(h)
      /\ \A k \in 1..Len(g \o q) + Len(h) :
           t[k] = IF k <= Len(g \o q) THEN (g \o q)[k] ELSE h[k - Len(g \o q)]
  BY <1>2, ConcatProperties
<1>4. DOMAIN t = 1..Len(t)
  BY <1>3, LenProperties
<1>5. InOrder(t) /\ Entries(t) = (1..n) \ Undecodable
  BY DEF Exactly
<1> HIDE DEF t
<1>6. ASSUME NEW k \in DOMAIN g PROVE k \in DOMAIN t /\ t[k] = g[k] /\ k \in Nat /\ k < i
  <2>1. k \in Nat /\ k <= Len(g) /\ k < i /\ k \in 1..Len(g) + Len(q)
    BY <1>1
  <2>2. (g \o q)[k] = g[k] /\ k <= Len(g \o q)
    BY <1>2, <2>1
  <2>3. k \in 1..Len(g \o q) + Len(h)
    BY <1>1, <1>2, <2>1
  <2>4. t[k] = (g \o q)[k] /\ k \in DOMAIN t
    BY <1>3, <1>4, <2>2, <2>3
  <2> QED
    BY <2>1, <2>2, <2>4
<1>7. i \in DOMAIN t /\ t[i] = Head(q) /\ i \in Nat
  <2>1. i \in 1..Len(g) + Len(q) /\ ~(i <= Len(g)) /\ i - Len(g) = 1
    BY <1>1
  <2>2. (g \o q)[i] = q[1]
    BY <1>2, <2>1
  <2>3. i <= Len(g \o q) /\ i \in 1..Len(g \o q) + Len(h)
    BY <1>1, <1>2, <2>1
  <2>4. i \in DOMAIN t
    BY <1>3, <1>4, <2>3
  <2>5. t[i] = (g \o q)[i]
    BY <1>3, <2>3
  <2> QED
    BY <1>1, <2>2, <2>4, <2>5
<1> HIDE DEF i
<1>8. Head(q) \in (1..n) \ Undecodable
  BY <1>5, <1>7 DEF Entries
<1>9. \A k \in DOMAIN g : g[k] < Head(q)
  BY <1>5, <1>6, <1>7 DEF InOrder
<1>10. Head(q) \notin Entries(g)
  BY <1>8, <1>9 DEF Entries
<1>11. ASSUME NEW v \in (1..Head(q) - 1) \ Undecodable PROVE v \in Entries(g)
  <2>1. v \in (1..n) \ Undecodable /\ v < Head(q)
    BY <1>8
  <2>2. PICK j \in DOMAIN t : t[j] = v
    BY <1>5, <2>1 DEF Entries
  <2>3. j \in Nat /\ j >= 1 /\ ~(i < j) /\ j # i
    <3>1. j \in Nat /\ j >= 1
      BY <1>3, <1>4
    <3>2. ~(i < j)
      <4>1. i < j => Head(q) < v
        BY <1>5, <1>7, <2>2 DEF InOrder
      <4> QED
        BY <1>8, <2>1, <4>1
    <3>3. j # i
      BY <1>7, <1>8, <2>1, <2>2
    <3> QED
      BY <3>1, <3>2, <3>3
  <2>4. j \in DOMAIN g
    <3>1. j <= Len(g)
      <4>1. j < Len(g) + 1
        BY <1>7, <2>3 DEF i
      <4> QED
        BY <1>1, <2>3, <4>1
    <3> QED
      BY <1>1, <2>3, <3>1
  <2> QED
    BY <1>6, <2>2, <2>4 DEF Entries
<1> QED
  BY <1>8, <1>10, <1>11

LEMMA RecvReceives ==
  ASSUME IInv, NEW s \in Subs, Recv(s)
  PROVE  Stream!Receive(s)
<1> DEFINE x == Head(itemq[s])
<1>1. phase[s] = "ok" /\ ~ended[s] /\ itemq[s] # <<>>
  BY DEF Recv, Pulls
<1>2. PICK n \in 0..sent[s] : AccountedFor(s, n)
  BY <1>1 DEF IInv, UsedOK, Used, InUse
<1>3. /\ got[s] \in Seq(Nat) /\ itemq[s] \in Seq(Nat) /\ hand[s] \in Seq(Nat)
      /\ sent[s] \in Nat /\ n \in Nat
  BY <1>2, PipeTypes DEF IInv
<1>4. Exactly((got[s] \o itemq[s]) \o hand[s], n)
  BY <1>2 DEF AccountedFor, Told
<1>5. /\ x \in ((1..n) \ Undecodable) \ Entries(got[s])
      /\ (1..x - 1) \ Undecodable \subseteq Entries(got[s])
  BY <1>1, <1>3, <1>4, NextInOrder
<1>6. Stream!Has(s) = Entries(got[s])
  BY DEF Stream!Has, Entries
<1>7. x \in Stream!Good(sent[s]) \ Stream!Has(s) /\ Stream!Good(x - 1) \subseteq Stream!Has(s)
  <2>1. 1..n \subseteq 1..sent[s]
    BY <1>2, <1>3
  <2> QED
    BY <1>5, <1>6, <2>1 DEF Stream!Good
<1>8. got' = [got EXCEPT ![s] = Append(@, x)]
  BY DEF Recv
<1>9. UNCHANGED <<sent, [y \in Subs |-> link # "open" \/ serving[y] = "closed"], ended>>
  BY DEF Recv, daemonVars
<1> QED
  BY <1>1, <1>7, <1>8, <1>9 DEF Stream!Receive

LEMMA RecvNoneEnds ==
  ASSUME IInv, NEW s \in Subs, RecvNone(s)
  PROVE  Stream!End(s)
<1>1. phase[s] = "ok" /\ ~decoding[s] /\ itemq[s] = <<>>
  BY DEF RecvNone, Pulls
<1>2. Used(s)
  BY <1>1 DEF IInv, UsedOK, InUse
<1>3. /\ s \notin subs /\ rawq[s] = <<>> /\ hand[s] = <<>> /\ WithReader(s) = <<>>
      /\ link # "open" \/ serving[s] = "closed"
  BY <1>1, <1>2 DEF Used, Over
<1>4. PICK n \in 0..sent[s] : AccountedFor(s, n)
  BY <1>2 DEF Used
<1>5. got[s] \in Seq(Nat) /\ sent[s] \in Nat
  BY PipeTypes DEF IInv
<1>6. Untold(s) = <<>> /\ Len(Untold(s)) = 0 /\ Told(s) = got[s]
  <2>1. <<>> \o <<>> = <<>> /\ Len(<<>>) = 0 /\ got[s] \o <<>> = got[s]
    BY <1>5, EmptySeq, ConcatEmptySeq
  <2> QED
    BY <1>1, <1>3, <2>1 DEF Untold, Told
<1>7. n = sent[s] /\ Entries(got[s]) = (1..n) \ Undecodable
  BY <1>3, <1>4, <1>5, <1>6 DEF AccountedFor, Exactly
<1>8. Stream!Has(s) = Stream!Good(sent[s])
  BY <1>7 DEF Stream!Has, Stream!Good, Entries
<1>9. [y \in Subs |-> link # "open" \/ serving[y] = "closed"][s]
  BY <1>3
<1>10. UNCHANGED <<sent, got, [y \in Subs |-> link # "open" \/ serving[y] = "closed"]>>
  BY DEF RecvNone, daemonVars
<1> QED
  BY <1>8, <1>9, <1>10 DEF Stream!End, RecvNone

\* The promise of EventStream: every step of the client and the daemon is a step of each
\* subscription's stream, or none of it.
THEOREM ImplementsStream == Spec => StreamSpec
<1> DEFINE shut == [s \in Subs |-> link # "open" \/ serving[s] = "closed"]
<1>1. Init => Stream!Init
  BY DEF Init, Stream!Init
<1>2. IInv /\ [Next]_vars => [Stream!Next]_Stream!vars
  <2> SUFFICES ASSUME IInv, [Next]_vars PROVE [Stream!Next]_Stream!vars
    OBVIOUS
  <2> USE DEF callerVars, tables, readerVars, chanVars, userVars, daemonVars
  <2>1. CASE UNCHANGED <<sent, got, ended, link, serving>>
    BY <2>1 DEF Stream!vars
  <2>2. ASSUME NEW s \in Subs, Recv(s) PROVE Stream!Next
    BY <2>2, RecvReceives DEF Stream!Next
  <2>3. ASSUME NEW s \in Subs, RecvNone(s) PROVE Stream!Next
    BY <2>3, RecvNoneEnds DEF Stream!Next
  <2>4. ASSUME NEW s \in Subs, Emit(s) PROVE Stream!Next
    <3>1. ~shut[s] /\ shut' = shut /\ sent' = [sent EXCEPT ![s] = @ + 1]
          /\ UNCHANGED <<got, ended>>
      BY <2>4 DEF Emit, Puts
    <3>2. Stream!Send(s)
      BY <3>1 DEF Stream!Send
    <3> QED
      BY <3>2 DEF Stream!Next
  <2>5. ASSUME NEW S \in SUBSET Subs, shut' = [s \in Subs |-> shut[s] \/ s \in S],
               UNCHANGED <<sent, got, ended>>
        PROVE  Stream!Next
    <3>1. Stream!Close(S)
      BY <2>5 DEF Stream!Close
    <3> QED
      BY <3>1 DEF Stream!Next
  <2>6. ASSUME NEW s \in Subs, CloseStream(s) PROVE Stream!Next
    <3>1. shut' = [x \in Subs |-> shut[x] \/ x \in {s}] /\ UNCHANGED <<sent, got, ended>>
      BY <2>6 DEF CloseStream, IInv, TypeOK
    <3> QED
      BY <2>5, <3>1
  <2>7. CASE HangUp \/ EndReading
    <3>1. shut' = [x \in Subs |-> shut[x] \/ x \in Subs] /\ UNCHANGED <<sent, got, ended>>
      BY <2>7 DEF HangUp, EndReading
    <3> QED
      BY <2>5, <3>1
  <2>8. ASSUME NEW r \in Reqs, NEW v \in {"ok", "error"}, Answer(r, v)
        PROVE  UNCHANGED Stream!vars
    <3>1. r \in Subs => serving[r] = "no"
      BY <2>8 DEF Answer, IInv, Served, ServedAs
    <3>2. shut' = shut /\ UNCHANGED <<sent, got, ended>>
      BY <2>8, <3>1 DEF Answer, IInv, TypeOK
    <3> QED
      BY <3>2 DEF Stream!vars
  <2>9. CASE \E r \in Reqs : Register(r) \/ CallerStep(r) \/ Abandon(r)
    BY <2>1, <2>9 DEF CallerStep, Register, Write, WriteFails, Returns, Fails, Abandon
  <2>10. CASE \E s \in Subs : Enlist(s) \/ DecoderStep(s) \/ DropSub(s) \/ LeaveStep(s)
    BY <2>1, <2>10 DEF Enlist, DecoderStep, DecodeTake, DecodePut, DecodeEnd, DropSub,
                       LeaveStep, LeavePending, LeaveSubs
  <2>11. CASE ReaderStep \/ DropClient
    BY <2>1, <2>11 DEF ReaderStep, ReadResponse, ReadEvent, Deliver, ReadClosed, ReadEnd,
                       ClearPending, ClearSubs, DropClient
  <2>12. CASE UNCHANGED vars
    BY <2>1, <2>12 DEF vars
  <2> QED
    BY <2>2, <2>3, <2>4, <2>6, <2>7, <2>8, <2>9, <2>10, <2>11, <2>12 DEF Next, ConsumerStep
<1> QED
  BY <1>1, <1>2, Invariant, PTL DEF Spec, StreamSpec, Stream!Spec

=============================================================================
