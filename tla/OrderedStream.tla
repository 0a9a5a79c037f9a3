---------------------------- MODULE OrderedStream ----------------------------
(***************************************************************************)
(* What each direction of the SSM data channel promises the SSH connection *)
(* above it: a byte stream.  What comes out is what went in, in order,     *)
(* nothing twice and nothing skipped; several items may come out at once.  *)
(* Whether all of it comes out is not said here.                           *)
(***************************************************************************)
EXTENDS Naturals, Sequences

CONSTANT Data       \* what the stream carries

VARIABLES
    source,     \* everything put into the stream
    sink,       \* everything taken out of it
    closed      \* the stream has been closed

vars == <<source, sink, closed>>

Init == source = <<>> /\ sink = <<>> /\ closed = FALSE

Put(d) ==
    /\ source' = Append(source, d)
    /\ UNCHANGED <<sink, closed>>

Deliver == \E n \in (Len(sink) + 1)..Len(source) :
    /\ ~closed
    /\ sink' = SubSeq(source, 1, n)
    /\ UNCHANGED <<source, closed>>

Close ==
    /\ closed' = TRUE
    /\ UNCHANGED <<source, sink>>

Next == (\E d \in Data : Put(d)) \/ Deliver \/ Close

Spec == Init /\ [][Next]_vars
=============================================================================
