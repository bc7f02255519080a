----------------------------- MODULE MCShdlcLink -----------------------------
(* Calls in turn, with responses of different lengths that hold        *)
(* escapes, zeros, and the high bit of the state that is no error.          *)
EXTENDS ShdlcLink

MCScript == [c \in Calls |->
    CASE c = 0 -> [addr |-> 0, cmd |-> 128, state |-> 0, data |-> <<1, 126>>]
      [] c = 1 -> [addr |-> 0, cmd |-> 3,   state |-> 0, data |-> <<>>]
      [] c = 2 -> [addr |-> 0, cmd |-> 125, state |-> 128, data |-> <<0>>]
      [] OTHER -> [addr |-> 1, cmd |-> 0,   state |-> 0, data |-> <<c>>]]

=============================================================================
