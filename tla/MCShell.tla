------------------------------ MODULE MCShell ------------------------------
(***************************************************************************)
(* Instances of Shell for TLC.                                             *)
(***************************************************************************)
EXTENDS Shell

\* Pipelines, lists, blocks, redirections and background jobs in each other,
\* a name that is no program, a file that is not there, and syntax errors.
SomeSessions == {
    << <<"echo", "a", "b", "|", "cat", "|", "cat">>, <<>> >>,
    << <<"(", "echo", "a", ";", "echo", "b", ")", "|", "cat", ">", "f">> >>,
    << <<"cat", "<", "f", ">", "g", ">", "f", "|", "cat", "<", "f">> >>,
    << <<"echo", "a", "&", ";", "cat">>, <<"cd", "f">>, <<"echo", "a", "|", "cat">> >>,
    << <<"cat", "|", "echo", "a", "&">>, <<"none">> >>,
    << <<"echo", "a", "|", "none">>, <<"echo", "a", "&">>, <<"cat", "|", "cat">> >>,
    << <<"(", "echo", "a", "|", "cat", ")", "<", "f", ";", "cat", "<", "none">> >>,
    << <<"a", "&", "b">>, <<"cat", "<", "none", "|", "cat">> >>}
=============================================================================
