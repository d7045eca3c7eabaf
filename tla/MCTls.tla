------------------------------- MODULE MCTls -------------------------------
(* Tls for TLC: two streams on one credentials object, fingerprint lists     *)
(* that match, match second, do not match, cannot be digested and do not     *)
(* parse, and a build without SHA-1.                                         *)
EXTENDS Tls

MCPinLists ==
    {<<>>,
     <<Pin("sha-256", "meant")>>,
     <<Pin("sha-256", "other")>>,
     <<Pin("sha-1", "meant")>>,
     <<Pin("sha-1", "other"), Pin("sha-256", "meant")>>,
     <<Pin("sha-256", "meant"), Pin("sha-1", "malformed")>>}
=============================================================================
