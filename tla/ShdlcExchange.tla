---------------------------- MODULE ShdlcExchange ----------------------------
(***************************************************************************)
(* What a sequence of sensirion_shdlc_xcv calls promises on an unreliable, *)
(* possibly slow line, without bytes: a response is returned at most once, *)
(* unaltered, and never after a later one.  A call need not return its own *)
(* response: xcv does not compare rx_header->cmd with cmd, so that a late  *)
(* response, or that to a call which has failed, answers a later call.     *)
(***************************************************************************)
EXTENDS Integers, Sequences

CONSTANTS Calls,        \* identities of calls
          Failed        \* the result of a call that returns no response

VARIABLES
    open,       \* calls whose response may still be returned, oldest first
    result,     \* what the last call to return has returned
    torn        \* a response has lost some of its bytes

vars == <<open, result, torn>>

Init == open = <<>> /\ result = Failed /\ torn = FALSE

After(n) == SubSeq(open, n + 1, Len(open))

\* A request reaches the sensor.
Request == \E c \in Calls : open' = Append(open, c) /\ UNCHANGED result

\* A call fails although its request has reached the sensor.
FailToRequest == \E c \in Calls : open' = Append(open, c) /\ result' = Failed

\* A call returns the response of an open call and discards the older ones,
\* and later ones if they were received with it.
Return ==
    \E n \in 1..Len(open) : \E m \in n..Len(open) :
        result' = open[n] /\ open' = After(m)

\* A call fails and discards what it has received.
Fail == result' = Failed /\ \E m \in 0..Len(open) : open' = After(m)

\* A request or the last byte of a response is lost.
Lose == \E n \in 1..Len(open) : open' = SubSeq(open, 1, n - 1) \o After(n) /\ UNCHANGED result

\* A checksum of eight bits tells a response from the end of one and the
\* beginning of the next in most cases only: nothing is promised once part of
\* a response is lost.
Next == torn' \/ (~torn' /\ (Request \/ FailToRequest \/ Return \/ Fail \/ Lose))

Spec == Init /\ [][Next]_vars

=============================================================================
