------------------------------ MODULE Framing ------------------------------
(***************************************************************************)
(* How Plugin::run_with_io (animus-plugin-runtime, plugin.rs) cuts what it *)
(* reads from the host into requests: it takes a JSON object off the front *)
(* of a buffer, waits for the newline behind it, and resynchronises at a   *)
(* newline when what it has is no frame.                                   *)
(*                                                                         *)
(* Bytes are abstracted to tokens: the head of a request object, the key   *)
(* of a nested object, the closing brace, a byte that no frame has there    *)
(* (junk), a blank and the newline.  A frame may span lines.                *)
(***************************************************************************)
EXTENDS Naturals, Sequences

CONSTANTS Tokens,   \* the tokens the host may send
          MaxInput, \* bound: tokens the host sends
          MaxChunk  \* bound: tokens one read returns

Newline == "newline"
Blank == {"blank", Newline}

FramingConstants ==
  /\ Tokens \subseteq {"head", "key", "close", "junk"} \union Blank
  /\ MaxInput \in Nat /\ MaxChunk \in Nat \ {0}

VARIABLES
  input,      \* what has been read so far
  base,       \* how much of it has left the front of the buffer
  pc,         \* the inner loop runs ("scan"), or the next read is awaited
  dispatched  \* the requests handed to dispatch_frame, as spans of the input

vars == <<input, base, pc, dispatched>>

TypeOK ==
  /\ input \in Seq(Tokens) /\ Len(input) <= MaxInput
  /\ base \in 0..Len(input)
  /\ pc \in {"read", "scan", "closed"}
  /\ dispatched \in Seq((1..Len(input)) \X (1..Len(input)))

----------------------------------------------------------------------------
(* The parser: one token at a time, from the front of the buffer.          *)

Expect(state, depth, taken) == [state |-> state, depth |-> depth, taken |-> taken]

Feed(p, tok) ==
  LET On(state, depth) == Expect(state, depth, p.taken + 1) IN
  IF p.state \in {"frame", "invalid"} THEN p
  ELSE CASE tok \in Blank                                -> On(p.state, p.depth)
         [] p.state = "start" /\ tok = "head"            -> On("object", 0)
         [] p.state = "object" /\ tok = "key"            -> On("value", p.depth)
         [] p.state = "value" /\ tok = "head"            -> On("object", p.depth + 1)
         [] p.state \in {"object", "more"} /\ tok = "close" ->
              IF p.depth = 0 THEN On("frame", 0) ELSE On("more", p.depth - 1)
         [] OTHER                                        -> Expect("invalid", 0, p.taken)

\* stream.next() on the buffer whose front is f, when the input up to n is there: a
\* frame and how much it takes, an error, or (any other state) an error that says
\* the text ends too early.
Parse(f, n) ==
  LET after[m \in f..n] ==
        IF m = f THEN Expect("start", 0, 0) ELSE Feed(after[m - 1], input[m])
  IN after[n]

\* Where the first newline after position i is, 0 if there is none.
NewlineAfter(i) ==
  LET at == {j \in (i + 1)..Len(input) : input[j] = Newline}
  IN IF at = {} THEN 0 ELSE CHOOSE j \in at : \A k \in at : j <= k

\* The buffer with its leading whitespace gone.
Trimmed(b) ==
  CHOOSE j \in b..Len(input) :
    /\ \A k \in (b + 1)..j : input[k] \in Blank
    /\ j = Len(input) \/ input[j + 1] \notin Blank

\* The newline that ends a frame, the newline a bad frame is skipped to, and
\* whether only blanks stand between a frame and its newline.
TerminatorAssumed(i) == Len(input)     \* faulty: the object is taken as a frame
Terminator(i) == NewlineAfter(i)

Skip(f) == NewlineAfter(f)

BlankTail(i, nl) == \A k \in (i + 1)..nl : input[k] \in Blank

\* One turn of the inner loop from the front f of the buffer: where the buffer
\* begins after it, and the span it dispatches, if any.
Turn(f) ==
  LET p == Parse(f, Len(input))
      i == f + p.taken
      nl == Terminator(i)
  IN CASE p.state = "frame" /\ nl # 0 ->
            [to |-> nl, frame |-> IF BlankTail(i, nl) THEN << <<f + 1, i>> >> ELSE <<>>]
       [] p.state = "invalid" /\ Skip(f) # 0 -> [to |-> Skip(f), frame |-> <<>>]
       [] OTHER -> [to |-> f, frame |-> <<>>]

----------------------------------------------------------------------------
Init == input = <<>> /\ base = 0 /\ pc = "read" /\ dispatched = <<>>

\* stdin.read: any number of bytes, a frame's or several.
Read ==
  /\ pc = "read" /\ pc' = "scan"
  /\ \E n \in 1..MaxChunk : \E chunk \in [1..n -> Tokens] :
       Len(input) + n <= MaxInput /\ input' = input \o chunk
  /\ UNCHANGED <<base, dispatched>>

Scan ==
  LET f == Trimmed(base) t == Turn(f) IN
  /\ pc = "scan" /\ base' = t.to
  /\ dispatched' = dispatched \o t.frame
  /\ pc' = IF t.to = f THEN "read" ELSE "scan"
  /\ UNCHANGED input

\* read returns 0: what is left in the buffer is dropped.
Eof == pc = "read" /\ pc' = "closed" /\ UNCHANGED <<input, base, dispatched>>

Next == Read \/ Scan \/ Eof

Spec == Init /\ [][Next]_vars

----------------------------------------------------------------------------
(* Properties.                                                             *)

\* The same input read at once, from offset b on.
Whole ==
  LET go[b \in 0..Len(input)] ==
        LET t == Turn(Trimmed(b)) IN
        IF t.to = Trimmed(b) THEN [base |-> t.to, frames |-> <<>>]
        ELSE [base |-> go[t.to].base, frames |-> t.frame \o go[t.to].frames]
  IN go[0]

\* "so a split read that drops a valid prefix here cannot dispatch": what is
\* dispatched, and what is kept, depends on the bytes and not on the reads.
ChunkIndependent ==
  pc = "read" => base = Whole.base /\ dispatched = Whole.frames

IsFrame(i, j) == LET p == Parse(i - 1, j) IN
                 p.state = "frame" /\ p.taken = j - i + 1

\* The text from i to j is a frame with nothing but blanks around it on the
\* lines where it begins and ends, the last of which has ended.
Stands(i, j) ==
  /\ input[i] = "head" /\ input[j] = "close" /\ IsFrame(i, j)
  /\ \E a \in 0..(i - 1) : /\ a = 0 \/ input[a] = Newline
                           /\ \A k \in (a + 1)..(i - 1) : input[k] \in Blank
  /\ \E z \in (j + 1)..Len(input) : /\ input[z] = Newline
                                    /\ \A k \in (j + 1)..z : input[k] \in Blank

\* "cannot dispatch a mutating call that later turns out to be a malformed
\* frame": only text that stands alone is dispatched, once and in order.
OnlyWholeFrames ==
  /\ \A n \in DOMAIN dispatched : Stands(dispatched[n][1], dispatched[n][2])
  /\ \A n \in DOMAIN dispatched : n > 1 => dispatched[n - 1][2] < dispatched[n][1]

\* spec.md 1.3: a bad frame is discarded, and costs no frame behind it.  What
\* stands alone and has left the buffer was dispatched, unless it is a value
\* inside a larger object.
Nested(i, j) == \E a \in 1..(i - 1), z \in (j + 1)..Len(input) :
                  input[a] = "head" /\ input[z] = "close" /\ IsFrame(a, z)

NoFrameLost ==
  \A i, j \in 1..base :
    i < j /\ Stands(i, j) /\ ~Nested(i, j) =>
      \E n \in DOMAIN dispatched : dispatched[n] = <<i, j>>
=============================================================================
