------------------------------- MODULE Lists -------------------------------
(***************************************************************************)
(* The loops that follow a list through a map: for each element in turn,   *)
(* the map's entry is appended to what has been collected, and an element  *)
(* the map does not have is passed over.                                   *)
(***************************************************************************)
EXTENDS Naturals, Sequences

\* The sequences f gives for the elements of s that are in S, one after another.
Joined(s, S, f) ==
  LET join[n \in 0..Len(s)] ==
        IF n = 0 THEN <<>>
        ELSE IF s[n] \in S THEN join[n - 1] \o f[s[n]] ELSE join[n - 1]
  IN  join[Len(s)]

\* The elements of s that are in S.
Only(s, S) == Joined(s, S, [x \in S |-> <<x>>])

=============================================================================
