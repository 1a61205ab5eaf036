------------------------------ MODULE MessagePipe ------------------------------
(***************************************************************************)
(* What one direction of a set of sockets promises: items come out in the  *)
(* order they went in, unchanged and at most once.  A reliable channel     *)
(* skips nothing; a lossy one may.                                         *)
(***************************************************************************)
EXTENDS Naturals, Sequences

CONSTANTS
    Chan,       \* channels
    Reliable    \* those that lose nothing

VARIABLES
    in,         \* items put in, per channel
    out         \* items that have come out, per channel

pipe == <<in, out>>

Init == in = [c \in Chan |-> <<>>] /\ out = [c \in Chan |-> <<>>]

Prefix(s, n) == SubSeq(s, 1, n)

\* How many of the items put in are behind the last one that came out.
Passed(i, o) == IF o = <<>> THEN 0 ELSE CHOOSE n \in DOMAIN i : i[n] = o[Len(o)]

Put(c) ==
    /\ Len(in'[c]) > Len(in[c]) /\ Prefix(in'[c], Len(in[c])) = in[c]
    /\ in' = [in EXCEPT ![c] = in'[c]]
    /\ UNCHANGED out

\* One or more items come out of a reliable channel, one of a lossy channel.
Take(c) ==
    /\ \/ /\ c \in Reliable
          /\ \E n \in Len(out[c]) + 1 .. Len(in[c]) :
                out' = [out EXCEPT ![c] = Prefix(in[c], n)]
       \/ /\ c \notin Reliable
          /\ \E n \in Passed(in[c], out[c]) + 1 .. Len(in[c]) :
                out' = [out EXCEPT ![c] = Append(@, in[c][n])]
    /\ UNCHANGED in

Next == \E c \in Chan : Put(c) \/ Take(c)

Spec == Init /\ [][Next]_pipe
===============================================================================
