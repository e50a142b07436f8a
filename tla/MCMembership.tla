---------------------------- MODULE MCMembership ----------------------------
(* A small instance of Membership for TLC: two requests at a time, two      *)
(* people, and one kind of request per behaviour.                           *)
EXTENDS Membership, TLC

CONSTANTS r1, r2, p, q, x, y

MCSymmetry == {f @@ g : f \in Permutations({r1, r2}), g \in Permutations({p, q})}

\* The columns that the properties look at in a scene, one at a time.
MCEdits == [s \in Scenes |-> CASE s = "invite" -> {{"email"}}
                                [] s = "sso" -> {{"identity"}}
                                [] s = "register" -> {{"role"}, {"email"}}
                                [] s = "roles" -> {{"role"}}
                                [] OTHER -> {}]
=============================================================================
