-------------------------- MODULE MCTegraKeyboard --------------------------
(* Instances of TegraKeyboard: a plain key, the same key with a shift state *)
(* and, for a device that reports them, a partial keystroke.                *)
EXTENDS TegraKeyboard

Plain   == [code |-> 1, shift |-> 0, toggle |-> 0]
Shifted == [code |-> 1, shift |-> 1, toggle |-> 0]
Partial == [code |-> 0, shift |-> 0, toggle |-> 0]

ShiftKeys == {Plain, Shifted}
AllKeys == {Plain, Shifted, Partial}

(* Requests with and without partial keystrokes, and one that sets two bits. *)
ExposedRequests == {{"valid"}, {"valid", "exposed"}, {"valid", "num", "exposed"}}

=============================================================================
