---------------------------- MODULE EventStream ----------------------------
(***************************************************************************)
(* What a subscription promises its consumer: the events the daemon sent   *)
(* and the client can decode, each once and in the order they were sent,   *)
(* and an end of stream only when none is left and the daemon has closed   *)
(* the stream or the connection.                                           *)
(***************************************************************************)
EXTENDS Naturals, Sequences

CONSTANTS Subs,        \* subscriptions
          Undecodable  \* the positions of the events that do not decode

VARIABLES sent,    \* per subscription: how many events the daemon has sent
          got,     \* per subscription: the events the consumer has received
          closed,  \* per subscription: the daemon will send no more
          ended    \* per subscription: the consumer has been told so

vars == <<sent, got, closed, ended>>

\* The events among the first n that decode, and those the consumer has.
Good(n) == (1..n) \ Undecodable
Has(s) == {got[s][k] : k \in DOMAIN got[s]}

Init ==
  /\ sent = [s \in Subs |-> 0]
  /\ got = [s \in Subs |-> <<>>]
  /\ closed = [s \in Subs |-> FALSE]
  /\ ended = [s \in Subs |-> FALSE]

Send(s) ==
  /\ ~closed[s]
  /\ sent' = [sent EXCEPT ![s] = @ + 1]
  /\ UNCHANGED <<got, closed, ended>>

\* One stream is closed, or all of them with the connection.
Close(S) ==
  /\ closed' = [s \in Subs |-> closed[s] \/ s \in S]
  /\ UNCHANGED <<sent, got, ended>>

\* The first event the consumer has not seen, and no other.
Receive(s) ==
  /\ ~ended[s]
  /\ \E n \in Good(sent[s]) \ Has(s) :
       /\ Good(n - 1) \subseteq Has(s)
       /\ got' = [got EXCEPT ![s] = Append(@, n)]
  /\ UNCHANGED <<sent, closed, ended>>

End(s) ==
  /\ closed[s] /\ Has(s) = Good(sent[s])
  /\ ended' = [ended EXCEPT ![s] = TRUE]
  /\ UNCHANGED <<sent, got, closed>>

Next ==
  \/ \E s \in Subs : Send(s) \/ Receive(s) \/ End(s)
  \/ \E S \in SUBSET Subs : Close(S)

Spec == Init /\ [][Next]_vars
=============================================================================
