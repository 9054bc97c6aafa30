--------------------------- MODULE KeysetSource ---------------------------
(***************************************************************************)
(* One page of a source object as run_batch reads it: records are          *)
(* identified by positive naturals and served in identity order strictly   *)
(* after the cursor, at most n of them.  Cursor 0 is "no cursor".  This is *)
(* the keyset discipline run_batch needs from a connector, since it uses a *)
(* record identity as a resume cursor (last_terminal_cursor).              *)
(***************************************************************************)
EXTENDS FiniteSets, Naturals

After(S, cursor) == {x \in S : cursor < x}

PageOf(S, cursor, n) ==
    {x \in After(S, cursor) : Cardinality({y \in After(S, cursor) : y < x}) < n}

HasMore(S, cursor, n) == PageOf(S, cursor, n) # After(S, cursor)

(* The greatest member of S, or default when S is empty. *)
LastOf(S, default) ==
    IF S = {} THEN default ELSE CHOOSE x \in S : \A y \in S : y <= x

FirstOf(S) == CHOOSE x \in S : \A y \in S : x <= y
=============================================================================
