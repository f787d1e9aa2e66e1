---------------------------- MODULE MCServerLink ----------------------------
(* Model values for ServerLink: one client that may be the source of a     *)
(* message, and the environments of each run.                              *)
EXTENDS ServerLink

CONSTANT f1

OneFd == {f1}
CalmAndRough == {"calm", "rough"}
Late == {"late"}
=============================================================================
