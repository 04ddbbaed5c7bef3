--------------------------- MODULE PacketService ---------------------------
(***************************************************************************)
(* What a decoder does to the packets of its client: a queue.  put adds    *)
(* packets to in, and moves some from its front to done; get takes done.   *)
(* Packets are numbered in the order of put.  Decoder implements this, and *)
(* CB25Decoder is built on it.                                             *)
(***************************************************************************)
EXTENDS Integers, Sequences

CONSTANT MaxPut  \* bound: packets of one put

VARIABLES
  in, done,  \* packets received; packets to be put out
  next,      \* the number of the next packet
  torn       \* the buffers do not fit together any more; only reset helps

vars == <<in, done, next, torn>>

Init == in = <<>> /\ done = <<>> /\ next = 1 /\ torn = FALSE

Members(s) == {s[i] : i \in 1..Len(s)}

From(s, j) == SubSeq(s, j, Len(s))

Increasing(s) == \A i, j \in 1..Len(s) : i < j => s[i] < s[j]

\* Packets of s are added to done in their order, which is that of their
\* numbers; some may be stripped.
Comes(s) ==
  LET d == From(done', Len(done) + 1)
  IN  /\ done' = done \o d
      /\ Increasing(d) /\ Members(d) \subseteq Members(s)

\* put with what a search left of the buffer, which is all of it or what a new
\* PAT begins.  The last packet stays.
Works(left) ==
  /\ \E k \in 0..(Len(left) - 1) : in' = From(left, k + 1) /\ Comes(SubSeq(left, 1, k))
  /\ UNCHANGED torn

\* A packet fails: nothing comes out, and as much stays as there was before.
Refuses(left) ==
  /\ in' = SubSeq(left, 1, IF Len(in) <= Len(left) THEN Len(in) ELSE Len(left))
  /\ torn' = (Len(in) > Len(left))
  /\ UNCHANGED done

Put ==
  /\ ~torn
  /\ \E n \in 1..MaxPut :
       LET all == in \o [i \in 1..n |-> next + i - 1]
       IN  /\ next' = next + n
           /\ \E j \in 1..Len(all) : Works(From(all, j)) \/ Refuses(From(all, j))

\* When the first loop of flush fails, in keeps what has come out.
Flush ==
  /\ ~torn
  /\ \E k \in 0..Len(in) :
       /\ Comes(SubSeq(in, 1, k))
       /\ \/ in' = From(in, k + 1) /\ UNCHANGED torn
          \/ in' = in /\ torn' = TRUE
  /\ UNCHANGED next

Get == ~torn /\ done' = <<>> /\ UNCHANGED <<in, next, torn>>

Withdraw == ~torn /\ in' = <<>> /\ UNCHANGED <<done, next, torn>>

Reset == in' = <<>> /\ done' = <<>> /\ torn' = FALSE /\ UNCHANGED next

Next == Put \/ Flush \/ Get \/ Withdraw \/ Reset

Spec == Init /\ [][Next]_vars
=============================================================================
