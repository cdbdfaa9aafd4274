---------------------------- MODULE StreamPipes ----------------------------
(***************************************************************************)
(* What the git tunnel promises to the connections it carries: each        *)
(* connection is a pair of first-in first-out pipes of its own.  A pipe    *)
(* delivers the chunks written to it in order, without gaps, and ends with *)
(* one end-of-stream mark.  It may lose its tail only when its receiver    *)
(* has itself closed, or when the whole tunnel is reset.                   *)
(***************************************************************************)
EXTENDS Naturals, Sequences

CONSTANT Streams

VARIABLES
    flow,       \* [Ends -> [Streams -> Seq]]: written to that end, not delivered
    out,        \* [Ends -> [Streams -> Seq]]: delivered to that end
    written,    \* [Ends -> [Streams -> Nat]]: chunks written to that end so far
    closed      \* [Streams -> SUBSET Ends]: ends that will write no more

pipes == <<flow, out, written, closed>>

Ends == {"client", "target"}
Other(e) == IF e = "client" THEN "target" ELSE "client"

Eof == 0

Over(e, s) == \E i \in 1 .. Len(flow[e][s] \o out[e][s]) :
                 (flow[e][s] \o out[e][s])[i] = Eof

Fresh(x) == [e \in Ends |-> [s \in Streams |-> x]]

Init ==
    /\ flow = Fresh(<<>>)
    /\ out = Fresh(<<>>)
    /\ written = Fresh(0)
    /\ closed = [s \in Streams |-> {}]

\* The other end writes the next chunk for end e; a pipe that is over takes
\* nothing more.
Write(e, s) ==
    /\ Other(e) \notin closed[s]
    /\ written' = [written EXCEPT ![e][s] = @ + 1]
    /\ flow' = IF Over(e, s) THEN flow
               ELSE [flow EXCEPT ![e][s] = Append(@, written[e][s] + 1)]
    /\ UNCHANGED <<out, closed>>

\* An end closes: it writes no more, and may stop reading.
Close(e, s) ==
    /\ e \notin closed[s]
    /\ closed' = [closed EXCEPT ![s] = @ \union {e}]
    /\ UNCHANGED <<flow, out, written>>

\* The end-of-stream mark of an end that closed follows what it wrote.
Finish(e, s) ==
    /\ Other(e) \in closed[s]
    /\ ~Over(e, s)
    /\ flow' = [flow EXCEPT ![e][s] = Append(@, Eof)]
    /\ UNCHANGED <<out, written, closed>>

Deliver(e, s) ==
    /\ flow[e][s] # <<>>
    /\ out' = [out EXCEPT ![e][s] = Append(@, Head(flow[e][s]))]
    /\ flow' = [flow EXCEPT ![e][s] = Tail(@)]
    /\ UNCHANGED <<written, closed>>

\* What is still in transit to an end that closed may lose its tail.
Truncate(e, s) ==
    /\ e \in closed[s]
    /\ \E k \in 0 .. Len(flow[e][s]) :
          /\ \A i \in 1 .. k : flow[e][s][i] # Eof
          /\ flow' = [flow EXCEPT ![e][s] = Append(SubSeq(@, 1, k), Eof)]
    /\ UNCHANGED <<out, written, closed>>

Abandon(e, s) ==
    /\ e \in closed[s]
    /\ flow' = [flow EXCEPT ![e][s] = <<>>]
    /\ out' = [out EXCEPT ![e][s] = Append(@, Eof)]
    /\ UNCHANGED <<written, closed>>

\* The service behind the tunnel cannot be reached.
Refuse(s) ==
    /\ "target" \notin closed[s]
    /\ closed' = [closed EXCEPT ![s] = @ \union {"target"}]
    /\ flow' = [flow EXCEPT !["target"][s] = <<>>]
    /\ out' = [out EXCEPT !["target"][s] = <<Eof>>]
    /\ UNCHANGED written

Reset ==
    /\ flow' = Fresh(<<>>)
    /\ out' = Fresh(<<>>)
    /\ written' = Fresh(0)
    /\ closed' = [s \in Streams |-> {}]

Next ==
    \/ Reset
    \/ \E s \in Streams : Refuse(s)
    \/ \E e \in Ends, s \in Streams :
          Write(e, s) \/ Close(e, s) \/ Finish(e, s) \/ Deliver(e, s)
             \/ Truncate(e, s) \/ Abandon(e, s)

Spec == Init /\ [][Next]_pipes

=============================================================================
