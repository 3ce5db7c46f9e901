------------------------------ MODULE MCInode ------------------------------
(***************************************************************************)
(* Instances of Inode for TLC.                                             *)
(***************************************************************************)
EXTENDS Inode, TLC

Perms == Permutations(Proc)

Mk(o, p) == [op |-> o, path |-> p]

\* A tree that changes under its users: directories in directories, removed
\* ones, and two names of one inode.
TreeCalls ==
    {Mk("mknod", <<"a">>), Mk("mkdir", <<"a">>), Mk("unlink", <<"a">>),
     Mk("chdir", <<"a">>), Mk("unlink", <<"b">>),
     [op |-> "link", path |-> <<"a">>, new |-> <<"b">>]}

\* Open files whose names come and go.
FileCalls ==
    {Mk("creat", <<"a">>), Mk("unlink", <<"a">>),
     [op |-> "open", path |-> <<"/", "a">>, wr |-> TRUE],
     [op |-> "open", path |-> <<"/">>, wr |-> TRUE]}

\* One name, created and removed.
OneName == {{Mk("creat", <<"a">>), Mk("unlink", <<"a">>)}}

\* A directory and its parent are removed while a process is in them.
GoingUp == {{Mk("mkdir", <<"a">>), Mk("chdir", <<"a">>), Mk("unlink", <<"a">>),
             Mk("chdir", <<"..">>)}}

\* A link to the name of the directory itself.
LinkDot == {{Mk("mknod", <<"a">>),
             [op |-> "link", path |-> <<"a">>, new |-> <<".">>]}}

TreeAndFiles == {TreeCalls, FileCalls} \cup GoingUp
=============================================================================
