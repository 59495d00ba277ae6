------------------------------ MODULE Messages ------------------------------
(***************************************************************************)
(* Both push servers mix the replies to a client's lines with messages of  *)
(* their own (pings and the final bye).                                    *)
(***************************************************************************)
EXTENDS Integers, Sequences

\* The messages ms without those in skip, in order.
Without(ms, skip) ==
    LET upTo[n \in 0 .. Len(ms)] ==
            IF n = 0 THEN <<>>
            ELSE IF ms[n] \in skip THEN upTo[n - 1]
            ELSE Append(upTo[n - 1], ms[n])
    IN  upTo[Len(ms)]
=============================================================================
