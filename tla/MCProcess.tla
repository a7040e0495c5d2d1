------------------------------- MODULE MCProcess -------------------------------
(***************************************************************************)
(* One gateway that is launched in one way, for its requests and probes.   *)
(***************************************************************************)
EXTENDS Process, TLC

NoFlags == [l \in Launches |-> NoLayer]
JustTheDatabase == [l \in Launches |-> [NoLayer EXCEPT !["PostgresDSN"] = "env-dsn"]]
NoFiles == <<>>
=============================================================================
