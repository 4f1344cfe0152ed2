-------------------------------- MODULE Maps --------------------------------
(***************************************************************************)
(* std::unordered_map as a partial function.                               *)
(***************************************************************************)

\* f is a map (a partial function) from S to T.
IsMap(f, S, T) == f \in [DOMAIN f -> T] /\ DOMAIN f \subseteq S

EmptyMap == [x \in {} |-> x]

Put(f, k, v) == [x \in DOMAIN f \cup {k} |-> IF x = k THEN v ELSE f[x]]

Erase(f, S) == [x \in DOMAIN f \ S |-> f[x]]

=============================================================================
