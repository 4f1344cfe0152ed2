-------------------------- MODULE SessionDirectory --------------------------
(***************************************************************************)
(* What SessionManager promises its callers, without its maps: a directory *)
(* that says which player owns which session.  A login takes a session id  *)
(* nobody has used and ends the player's earlier session in the same step; *)
(* otherwise sessions only end.  So a player never has two sessions, a     *)
(* session never changes its owner, and an id that is gone never returns.  *)
(***************************************************************************)
CONSTANTS Players, Sids

VARIABLES
  owner,   \* the owner of every live session
  spent    \* the session ids ever issued

vars == <<owner, spent>>

Init == owner = [x \in {} |-> x] /\ spent = {}

\* The sessions of player p.
Of(p) == {sid \in DOMAIN owner : owner[sid] = p}

LogIn(p, sid) ==
  /\ sid \notin spent
  /\ spent' = spent \cup {sid}
  /\ owner' = [x \in (DOMAIN owner \ Of(p)) \cup {sid} |->
                 IF x = sid THEN p ELSE owner[x]]

\* Any set of sessions ends: a logout, an expiry, a reconnect that came too late.
End(S) ==
  /\ owner' = [x \in DOMAIN owner \ S |-> owner[x]]
  /\ UNCHANGED spent

Next ==
  \/ \E p \in Players, sid \in Sids : LogIn(p, sid)
  \/ \E S \in SUBSET DOMAIN owner : End(S)

Spec == Init /\ [][Next]_vars

=============================================================================
