--------------------------- MODULE MCShdlcRxInplace ---------------------------
(* ShdlcRxInplace on the lines of ShdlcDeliveries, with buffers that hold   *)
(* zeros, escapes, delimiters or an earlier response.                       *)
EXTENDS ShdlcRxInplace, ShdlcDeliveries

CONSTANT MaxString          \* length of the strings after the first delimiter

MCDeliveries == DamagedDeliveries \cup StringDeliveries(MaxString)

\* buffers of exactly the size an expected length asks for
Sizes == {RxRequest(m) : m \in ExpectedLens}
MCStaleFew == UNION {{[k \in 1..n |-> b] : b \in {0, ESC, SHDLC_STOP}} : n \in Sizes}

\* and those that still hold an earlier response, which completes the same
\* response when its end is late
Earlier(f, n) == [k \in 1..n |-> IF k <= Len(f) THEN f[k] ELSE 0]
MCStale ==
    MCStaleFew \cup
    {Earlier(Response(r), n) : n \in Sizes,
                               r \in {x \in Responses : x.addr \in {1, 125}}}

=============================================================================
