------------------------------- MODULE Inode -------------------------------
(***************************************************************************)
(* The inode cache and the directories of fs.c, the file table of file.c,  *)
(* and the system calls of sysfile.c that use them.                        *)
(*                                                                         *)
(* A section under an inode's sleep lock that takes no second lock, and a  *)
(* section under icache.lock or ftable.lock, is one step.  The disk is what *)
(* the buffer cache shows of it.  A transaction never waits here: its part *)
(* is in module Log.  A path is a sequence of names; "/" in front makes it *)
(* absolute.                                                               *)
(***************************************************************************)
EXTENDS Integers, Sequences, FiniteSets, FiniteSetsExt, SequencesExt

CONSTANTS
    Proc, NoProc,
    Name,         \* of a directory entry, other than the two dots
    NINODES,      \* inodes of the disk, from 1
    NINODE,       \* entries of the inode cache
    NFILE, NOFILE,
    Workloads     \* sets of system calls: those that the programs make

Inum == 1 .. NINODES
ROOTINO == 1
Slot == 1 .. NINODE
File == 1 .. NFILE
Fd == 1 .. NOFILE
None == 0
Dots == {".", ".."}
Entry == Name \cup Dots
Type == {"file", "dir", "dev"}

\* open without and with O_CREATE; wr: for writing.  new: the second path.
Call ==
         [op : {"open"}, path : Seq(Entry \cup {"/"}), wr : BOOLEAN]
    \cup [op : {"creat", "mkdir", "mknod", "unlink", "chdir"},
          path : Seq(Entry \cup {"/"})]
    \cup [op : {"link"}, path : Seq(Entry \cup {"/"}), new : Seq(Entry \cup {"/"})]

ASSUME InodeAssumption ==
    /\ NINODES \in Nat \ {0} /\ NINODE \in Nat \ {0}
    /\ NFILE \in Nat /\ NOFILE \in Nat
    /\ NoProc \notin Proc /\ \A w \in Workloads : w \subseteq Call

VARIABLES
    work,     \* the workload of this behaviour
    dinode,   \* type (or "free"), nlink, and the entries of a directory
    inode,    \* the cache: inum, ref, valid, type, nlink, holder of the lock
    file,     \* the file table: ref and ip (None for FD_NONE)
    ofile, cwd,
    call,     \* the call that a process makes
    todo,     \* what is left of it: a sequence of steps
    cur,      \* the inode that the call works on (ip of namex and create)
    rest,     \* what is left of the path
    dp,       \* in create and unlink: the parent, locked
    ip        \* in link: the file, referenced

table == <<file, ofile>>
vars == <<work, dinode, inode, file, ofile, cwd, call, todo, cur, rest, dp, ip>>

TypeOK ==
    /\ \A i \in Inum :
          /\ dinode[i].type \in Type \cup {"free"} /\ dinode[i].nlink \in Nat
          /\ dinode[i].ents \in [Entry -> Inum \cup {None}]
    /\ \A s \in Slot :
          /\ inode[s].inum \in Inum \cup {None} /\ inode[s].ref \in Nat
          /\ inode[s].valid \in BOOLEAN /\ inode[s].nlink \in Nat
          /\ inode[s].type \in Type \cup {"free"}
          /\ inode[s].holder \in Proc \cup {NoProc}
    /\ file \in [File -> [ref : Nat, ip : Slot \cup {None}]]
    /\ ofile \in [Proc -> [Fd -> File \cup {None}]]
    /\ cwd \in [Proc -> Slot]
    /\ cur \in [Proc -> Slot \cup {None}] /\ dp \in [Proc -> Slot \cup {None}]
    /\ ip \in [Proc -> Slot \cup {None}]

(***************************************************************************)
(* The inode cache                                                         *)
(***************************************************************************)
Cached(i) == {s \in Slot : inode[s].ref > 0 /\ inode[s].inum = i}
Empty == {s \in Slot : inode[s].ref = 0}

\* Mutant: the cache is not searched.
IgetSlotEmpty(i) == IF Empty # {} THEN Min(Empty) ELSE None

\* iget's entry for inode i; None: panic("iget: no inodes")
IgetSlot(i) ==
    CASE Cached(i) # {} -> Min(Cached(i))
      [] Cached(i) = {} /\ Empty # {} -> Min(Empty)
      [] OTHER -> None

Got(ino, i) ==
    LET s == IgetSlot(i)
    IN  [ino EXCEPT ![s] = IF ino[s].ref > 0
                           THEN [@ EXCEPT !.ref = @ + 1]
                           ELSE [@ EXCEPT !.inum = i, !.ref = 1, !.valid = FALSE]]

Idup(s) == [inode EXCEPT ![s].ref = @ + 1]

LockFree(s) == inode[s].holder = NoProc

\* What ilock leaves in the entry.
Loaded(s) ==
    IF inode[s].valid THEN inode[s]
    ELSE [inode[s] EXCEPT !.valid = TRUE,
                          !.type = dinode[inode[s].inum].type,
                          !.nlink = dinode[inode[s].inum].nlink]

Locked(ino, s, p) == [ino EXCEPT ![s].holder = p]

\* dirlookup: the inode that the directory has under a name, None if there is none.
Dirlookup(n, name) == dinode[n.inum].ents[name]

Iupdate(di, i, n) == [di EXCEPT ![i].type = n.type, ![i].nlink = n.nlink]

\* Steps of a call.
Step(d) == [do |-> d, s |-> None]
Iput(s) == [do |-> "iput", s |-> s]
At(p, d) == todo[p] # <<>> /\ Head(todo[p]).do = d
Go(p, steps) == todo' = [todo EXCEPT ![p] = steps]
Panic == <<Step("panic")>>
Full == <<Step("full")>>     \* the panic of a table with no free entry

\* Mutant: other references are not looked at.
LastOneAny(n) == n.valid /\ n.nlink = 0

LastOne(n) == n.valid /\ n.nlink = 0 /\ n.ref = 1

\* iput, to the test of the reference count.
PutTest(p) ==
    /\ At(p, "iput")
    /\ LET s == Head(todo[p]).s IN
       /\ LockFree(s)
       /\ IF LastOne(inode[s])
          THEN /\ inode' = Locked(inode, s, p)
               /\ Go(p, <<[do |-> "ifree", s |-> s]>> \o Tail(todo[p]))
          ELSE /\ Go(p, <<[do |-> "deref", s |-> s]>> \o Tail(todo[p]))
               /\ UNCHANGED inode
    /\ UNCHANGED <<work, dinode, table, cwd, call, cur, rest, dp, ip>>

NoEnts == [n \in Entry |-> None]

\* Mutant: the entry stays valid.
FreedValid(n) == [n EXCEPT !.type = "free", !.holder = NoProc]

Freed(n) == [n EXCEPT !.type = "free", !.valid = FALSE, !.holder = NoProc]

\* itrunc, type = 0, iupdate, valid = 0, releasesleep
PutFree(p) ==
    /\ At(p, "ifree")
    /\ LET s == Head(todo[p]).s IN
       /\ dinode' = [dinode EXCEPT ![inode[s].inum] =
                        [type |-> "free", nlink |-> inode[s].nlink,
                         ents |-> NoEnts]]
       /\ inode' = [inode EXCEPT ![s] = Freed(@)]
       /\ Go(p, <<[do |-> "deref", s |-> s]>> \o Tail(todo[p]))
    /\ UNCHANGED <<work, table, cwd, call, cur, rest, dp, ip>>

\* The fields of an entry that nobody refers to are not read again.
EmptyEntry == [inum |-> None, ref |-> 0, valid |-> FALSE, type |-> "free",
               nlink |-> 0, holder |-> NoProc]

\* A call that has nothing left to do returns.
NoCall == [op |-> "none"]
Idle(p) == todo[p] = <<>>
Return(p, steps) ==
    /\ Go(p, steps)
    /\ IF steps = <<>>
       THEN call' = [call EXCEPT ![p] = NoCall] /\ rest' = [rest EXCEPT ![p] = <<>>]
       ELSE UNCHANGED <<call, rest>>

PutDeref(p) ==
    /\ At(p, "deref")
    /\ inode' = [inode EXCEPT ![Head(todo[p]).s] =
                    IF @.ref = 1 THEN EmptyEntry ELSE [@ EXCEPT !.ref = @ - 1]]
    /\ Return(p, Tail(todo[p]))
    /\ UNCHANGED <<work, dinode, table, cwd, cur, dp, ip>>

(***************************************************************************)
(* namex                                                                   *)
(***************************************************************************)
\* The first inode of a path, and what follows the lookup.
StartPath(p, path, steps) ==
    IF Head(path) = "/"
    THEN /\ rest' = [rest EXCEPT ![p] = Tail(path)]
         /\ IF IgetSlot(ROOTINO) = None
            THEN Go(p, Full) /\ UNCHANGED <<inode, cur>>
            ELSE /\ inode' = Got(inode, ROOTINO)
                 /\ cur' = [cur EXCEPT ![p] = IgetSlot(ROOTINO)]
                 /\ Go(p, steps)
    ELSE /\ rest' = [rest EXCEPT ![p] = path]
         /\ inode' = Idup(cwd[p])
         /\ cur' = [cur EXCEPT ![p] = cwd[p]]
         /\ Go(p, steps)

Walks(p) == At(p, "namei") \/ At(p, "nameiparent") \/ At(p, "newparent")
Parent(p) == ~At(p, "namei")

\* The inode that the next step locks, None if it locks none.
Wants(p) ==
    CASE At(p, "iput") -> Head(todo[p]).s
      [] At(p, "linkbad") -> ip[p]
      [] Walks(p) -> IF rest[p] = <<>> THEN None ELSE cur[p]
      [] \E d \in {"create", "new", "exists", "openlock", "chdir", "link",
                   "dirlink", "unlink", "unlinkip"} : At(p, d) -> cur[p]
      [] OTHER -> None

\* The panics of ilock ("no type"), dirlookup ("not DIR") and sys_unlink
\* ("nlink < 1"), with the lock taken.
Illegal(p) ==
    /\ Wants(p) # None /\ LockFree(Wants(p)) /\ ~At(p, "iput")
    /\ LET n == Loaded(Wants(p))
       IN  \/ n.type = "free"
           \/ /\ n.type # "dir"
              /\ \/ At(p, "create") \/ At(p, "dirlink")
                 \/ At(p, "unlink") /\ rest[p][1] \notin Dots
           \/ At(p, "unlinkip") /\ n.nlink < 1

Panics(p) ==
    /\ Illegal(p)
    /\ inode' = [inode EXCEPT ![Wants(p)] = [Loaded(Wants(p)) EXCEPT !.holder = p]]
    /\ Go(p, Panic)
    /\ UNCHANGED <<work, dinode, table, cwd, call, cur, rest, dp, ip>>

Ilock(p) == LockFree(Wants(p)) /\ ~Illegal(p)

\* The lookup gives nothing: the call fails, sys_link undoes what it did.
Otherwise(p) == IF At(p, "newparent") THEN <<Step("linkbad")>> ELSE <<>>

\* The path has no name left.
NamexEnd(p) ==
    /\ Walks(p) /\ rest[p] = <<>>
    /\ IF Parent(p)
       THEN Go(p, <<Iput(cur[p])>> \o Otherwise(p)) /\ cur' = [cur EXCEPT ![p] = None]
       ELSE Go(p, Tail(todo[p])) /\ UNCHANGED cur
    /\ UNCHANGED <<work, dinode, inode, table, cwd, call, rest, dp, ip>>

NamexStep(p) ==
    /\ Walks(p) /\ rest[p] # <<>> /\ Ilock(p)
    /\ LET s == cur[p]
           n == Loaded(s)
           e == Dirlookup(n, Head(rest[p]))
           ino == [inode EXCEPT ![s] = n]
       IN  /\ \/ /\ n.type = "dir" /\ Parent(p) /\ Len(rest[p]) = 1
                 /\ inode' = ino
                 /\ Go(p, Tail(todo[p])) /\ UNCHANGED <<cur, rest>>
              \/ /\ n.type # "dir" \/ (~(Parent(p) /\ Len(rest[p]) = 1) /\ e = None)
                 /\ inode' = ino
                 /\ Go(p, <<Iput(s)>> \o Otherwise(p))
                 /\ cur' = [cur EXCEPT ![p] = None] /\ UNCHANGED rest
              \/ /\ n.type = "dir" /\ ~(Parent(p) /\ Len(rest[p]) = 1) /\ e # None
                 /\ IF IgetSlot(e) = None
                    THEN /\ inode' = Locked(ino, s, p)
                         /\ Go(p, Full) /\ UNCHANGED <<cur, rest>>
                    ELSE /\ inode' = Got(ino, e)
                         /\ cur' = [cur EXCEPT ![p] = IgetSlot(e)]
                         /\ rest' = [rest EXCEPT ![p] = Tail(@)]
                         /\ Go(p, <<Iput(s)>> \o todo[p])
    /\ UNCHANGED <<work, dinode, table, cwd, call, dp, ip>>

(***************************************************************************)
(* create, with ialloc                                                     *)
(***************************************************************************)
TypeOf == [creat |-> "file", mkdir |-> "dir", mknod |-> "dev"]

\* What sys_open, or sys_mkdir and sys_mknod, do with the locked inode.
AfterCreate(p) ==
    <<Step(IF call[p].op = "creat" THEN "opened" ELSE "unlockput")>>

FreeInum == {i \in Inum : dinode[i].type = "free"}

\* The parent is locked and searched; ialloc marks the first free inode.
Create(p) ==
    /\ At(p, "create") /\ Ilock(p)
    /\ LET s == cur[p]
           n == Loaded(s)
           e == Dirlookup(n, rest[p][1])
           ino == [inode EXCEPT ![s] = n]
       IN  /\ IF e # None /\ IgetSlot(e) # None
              THEN /\ inode' = Got(ino, e)
                   /\ cur' = [cur EXCEPT ![p] = IgetSlot(e)]
                   /\ Go(p, <<Iput(s), Step("exists")>>)
                   /\ UNCHANGED <<dinode, dp>>
              ELSE /\ inode' = Locked(ino, s, p)
                   /\ cur' = [cur EXCEPT ![p] = None]
                   /\ dp' = [dp EXCEPT ![p] = s]
                   /\ IF e # None \/ FreeInum = {}
                      THEN Go(p, Full) /\ UNCHANGED dinode
                      ELSE /\ dinode' = [dinode EXCEPT ![Min(FreeInum)] =
                                   [type |-> TypeOf[call[p].op], nlink |-> 0,
                                    ents |-> NoEnts]]
                           /\ Go(p, <<[do |-> "iget", s |-> Min(FreeInum)]>>)
    /\ UNCHANGED <<work, table, cwd, call, rest, ip>>

CreateGet(p) ==
    /\ At(p, "iget")
    /\ LET i == Head(todo[p]).s
       IN  IF IgetSlot(i) = None
           THEN Go(p, Full) /\ UNCHANGED <<inode, cur>>
           ELSE /\ inode' = Got(inode, i)
                /\ cur' = [cur EXCEPT ![p] = IgetSlot(i)]
                /\ Go(p, <<Step("new")>>)
    /\ UNCHANGED <<work, dinode, table, cwd, call, rest, dp, ip>>

DotEnts(i, parent) == [NoEnts EXCEPT !["."] = i, ![".."] = parent]

\* The new inode is locked, filled in and entered into its parent.
CreateLink(p) ==
    /\ At(p, "new") /\ Ilock(p)
    /\ LET s == cur[p]
           d == dp[p]
           i == inode[s].inum
           j == inode[d].inum
           dir == call[p].op = "mkdir"
           up == inode[d].nlink + (IF dir THEN 1 ELSE 0)
       IN  /\ inode' = [inode EXCEPT ![s] = [Loaded(s) EXCEPT !.nlink = 1, !.holder = p],
                                     ![d].nlink = up, ![d].holder = NoProc]
           /\ dinode' = [dinode EXCEPT
                            ![i].nlink = 1,
                            ![i].ents = IF dir THEN DotEnts(i, j) ELSE @,
                            ![j].nlink = up, ![j].ents[rest[p][1]] = i]
           /\ Go(p, <<Iput(d)>> \o AfterCreate(p))
    /\ dp' = [dp EXCEPT ![p] = None]
    /\ UNCHANGED <<work, table, cwd, call, cur, rest, ip>>

\* The name was there.
CreateExists(p) ==
    /\ At(p, "exists") /\ Ilock(p)
    /\ LET s == cur[p]
           n == Loaded(s)
       IN  /\ IF n.type = "dev" \/ (n.type = "file" /\ call[p].op = "creat")
              THEN /\ inode' = [inode EXCEPT ![s] = [n EXCEPT !.holder = p]]
                   /\ Go(p, AfterCreate(p)) /\ UNCHANGED cur
              ELSE /\ inode' = [inode EXCEPT ![s] = n]
                   /\ Go(p, <<Iput(s)>>) /\ cur' = [cur EXCEPT ![p] = None]
    /\ UNCHANGED <<work, dinode, table, cwd, call, rest, dp, ip>>

UnlockPut(p) ==
    /\ At(p, "unlockput")
    /\ inode' = Locked(inode, cur[p], NoProc)
    /\ Go(p, <<Iput(cur[p])>>) /\ cur' = [cur EXCEPT ![p] = None]
    /\ UNCHANGED <<work, dinode, table, cwd, call, rest, dp, ip>>

(***************************************************************************)
(* sys_open, sys_close, sys_dup and the file table; sys_chdir              *)
(***************************************************************************)
OpenLock(p) ==
    /\ At(p, "openlock") /\ Ilock(p)
    /\ LET s == cur[p]
           n == Loaded(s)
       IN  /\ IF n.type = "dir" /\ call[p].wr
              THEN /\ inode' = [inode EXCEPT ![s] = n]
                   /\ Go(p, <<Iput(s)>>) /\ cur' = [cur EXCEPT ![p] = None]
              ELSE /\ inode' = [inode EXCEPT ![s] = [n EXCEPT !.holder = p]]
                   /\ Go(p, <<Step("opened")>>) /\ UNCHANGED cur
    /\ UNCHANGED <<work, dinode, table, cwd, call, rest, dp, ip>>

FreeFile == {f \in File : file[f].ref = 0}
FreeFd(p) == {d \in Fd : ofile[p][d] = None}

\* filealloc and fdalloc succeed.
OpenDone(p) ==
    /\ At(p, "opened") /\ FreeFile # {} /\ FreeFd(p) # {}
    /\ file' = [file EXCEPT ![Min(FreeFile)] = [ref |-> 1, ip |-> cur[p]]]
    /\ ofile' = [ofile EXCEPT ![p][Min(FreeFd(p))] = Min(FreeFile)]
    /\ inode' = Locked(inode, cur[p], NoProc)
    /\ cur' = [cur EXCEPT ![p] = None] /\ Return(p, <<>>)
    /\ UNCHANGED <<work, dinode, cwd, dp, ip>>

\* There is no descriptor, and the new file structure is given back.
OpenNoFd(p) ==
    /\ At(p, "opened") /\ FreeFile # {} /\ FreeFd(p) = {}
    /\ file' = [file EXCEPT ![Min(FreeFile)].ref = 1]
    /\ Go(p, <<[do |-> "unalloc", s |-> Min(FreeFile)], Step("unlockput")>>)
    /\ UNCHANGED <<work, dinode, inode, ofile, cwd, call, cur, rest, dp, ip>>

OpenUnalloc(p) ==
    /\ At(p, "unalloc")
    /\ file' = [file EXCEPT ![Head(todo[p]).s].ref = 0]
    /\ Go(p, Tail(todo[p]))
    /\ UNCHANGED <<work, dinode, inode, ofile, cwd, call, cur, rest, dp, ip>>

OpenNoFile(p) ==
    /\ At(p, "opened") /\ FreeFile = {}
    /\ Go(p, <<Step("unlockput")>>)
    /\ UNCHANGED <<work, dinode, inode, table, cwd, call, cur, rest, dp, ip>>

Close(p, d) ==
    /\ Idle(p) /\ ofile[p][d] # None
    /\ LET f == ofile[p][d] IN
       /\ ofile' = [ofile EXCEPT ![p][d] = None]
       /\ file' = [file EXCEPT ![f] = IF @.ref = 1 THEN [ref |-> 0, ip |-> None]
                                      ELSE [@ EXCEPT !.ref = @ - 1]]
       /\ Go(p, IF file[f].ref = 1 THEN <<Iput(file[f].ip)>> ELSE <<>>)
    /\ UNCHANGED <<work, dinode, inode, cwd, call, cur, rest, dp, ip>>

Dup(p, d) ==
    /\ Idle(p) /\ ofile[p][d] # None /\ FreeFd(p) # {}
    /\ ofile' = [ofile EXCEPT ![p][Min(FreeFd(p))] = ofile[p][d]]
    /\ file' = [file EXCEPT ![ofile[p][d]].ref = @ + 1]
    /\ UNCHANGED <<work, dinode, inode, cwd, call, todo, cur, rest, dp, ip>>

\* cwd is set before iput of the old one, which nobody else can see.
Chdir(p) ==
    /\ At(p, "chdir") /\ Ilock(p)
    /\ LET s == cur[p] IN
       /\ inode' = [inode EXCEPT ![s] = Loaded(s)]
       /\ IF Loaded(s).type = "dir"
          THEN cwd' = [cwd EXCEPT ![p] = s] /\ Go(p, <<Iput(cwd[p])>>)
          ELSE Go(p, <<Iput(s)>>) /\ UNCHANGED cwd
    /\ cur' = [cur EXCEPT ![p] = None]
    /\ UNCHANGED <<work, dinode, table, call, rest, dp, ip>>

(***************************************************************************)
(* sys_link and sys_unlink                                                 *)
(***************************************************************************)
LinkUp(n) == [n EXCEPT !.nlink = @ + 1]

Link(p) ==
    /\ At(p, "link") /\ Ilock(p)
    /\ LET s == cur[p]
           n == Loaded(s)
           up == LinkUp(n)
       IN  /\ IF n.type = "dir"
              THEN /\ inode' = [inode EXCEPT ![s] = n] /\ Go(p, <<Iput(s)>>)
                   /\ UNCHANGED <<dinode, ip>>
              ELSE /\ inode' = [inode EXCEPT ![s] = up]
                   /\ dinode' = Iupdate(dinode, n.inum, up)
                   /\ ip' = [ip EXCEPT ![p] = s] /\ Go(p, <<Step("linknew")>>)
    /\ cur' = [cur EXCEPT ![p] = None]
    /\ UNCHANGED <<work, table, cwd, call, rest, dp>>

LinkNew(p) ==
    /\ At(p, "linknew")
    /\ StartPath(p, call[p].new, <<Step("newparent"), Step("dirlink")>>)
    /\ UNCHANGED <<work, dinode, table, cwd, call, dp, ip>>

\* dirlink: an entry that is there is put while the directory is locked.
Dirlink(p) ==
    /\ At(p, "dirlink") /\ Ilock(p)
    /\ LET s == cur[p]
           n == Loaded(s)
           e == Dirlookup(n, rest[p][1])
           ino == [inode EXCEPT ![s] = n]
       IN  /\ IF e = None
              THEN /\ inode' = ino
                   /\ dinode' = [dinode EXCEPT ![n.inum].ents[rest[p][1]] =
                                                   inode[ip[p]].inum]
                   /\ Go(p, <<Iput(s), Iput(ip[p])>>)
                   /\ ip' = [ip EXCEPT ![p] = None] /\ UNCHANGED dp
              ELSE /\ dp' = [dp EXCEPT ![p] = s]
                   /\ IF IgetSlot(e) = None
                      THEN inode' = Locked(ino, s, p) /\ Go(p, Full)
                      ELSE /\ inode' = Locked(Got(ino, e), s, p)
                           /\ Go(p, <<Iput(IgetSlot(e)), Step("dropdp"),
                                      Step("linkbad")>>)
                   /\ UNCHANGED <<dinode, ip>>
    /\ cur' = [cur EXCEPT ![p] = None]
    /\ UNCHANGED <<work, table, cwd, call, rest>>

LinkBad(p) ==
    /\ At(p, "linkbad") /\ Ilock(p)
    /\ LET s == ip[p]
           down == [Loaded(s) EXCEPT !.nlink = @ - 1]
       IN  /\ inode' = [inode EXCEPT ![s] = down]
           /\ dinode' = Iupdate(dinode, down.inum, down)
           /\ Go(p, <<Iput(s)>>)
    /\ ip' = [ip EXCEPT ![p] = None]
    /\ UNCHANGED <<work, table, cwd, call, cur, rest, dp>>

DropDp(p) ==
    /\ At(p, "dropdp")
    /\ inode' = Locked(inode, dp[p], NoProc)
    /\ Go(p, <<Iput(dp[p])>> \o Tail(todo[p])) /\ dp' = [dp EXCEPT ![p] = None]
    /\ UNCHANGED <<work, dinode, table, cwd, call, cur, rest, ip>>

Unlink(p) ==
    /\ At(p, "unlink") /\ Ilock(p)
    /\ LET s == cur[p]
           n == Loaded(s)
           e == Dirlookup(n, rest[p][1])
           ino == [inode EXCEPT ![s] = n]
       IN  /\ IF rest[p][1] \in Dots \/ e = None
              THEN /\ inode' = ino /\ Go(p, <<Iput(s)>>)
                   /\ cur' = [cur EXCEPT ![p] = None] /\ UNCHANGED dp
              ELSE /\ dp' = [dp EXCEPT ![p] = s]
                   /\ IF IgetSlot(e) = None
                      THEN /\ inode' = Locked(ino, s, p) /\ Go(p, Full)
                           /\ cur' = [cur EXCEPT ![p] = None]
                      ELSE /\ inode' = Locked(Got(ino, e), s, p)
                           /\ Go(p, <<Step("unlinkip")>>)
                           /\ cur' = [cur EXCEPT ![p] = IgetSlot(e)]
    /\ UNCHANGED <<work, dinode, table, cwd, call, rest, ip>>

IsDirEmpty(i) == \A n \in Name : dinode[i].ents[n] = None

\* The entry goes, then the parent is put with the inode still locked.
UnlinkEntry(p) ==
    /\ At(p, "unlinkip") /\ Ilock(p)
    /\ LET s == cur[p]
           d == dp[p]
           n == Loaded(s)
           j == inode[d].inum
           down == inode[d].nlink - (IF n.type = "dir" THEN 1 ELSE 0)
       IN  /\ IF n.type = "dir" /\ ~IsDirEmpty(n.inum)
              THEN   /\ inode' = [inode EXCEPT ![s] = n]
                     /\ Go(p, <<Iput(s), Step("dropdp")>>)
                     /\ cur' = [cur EXCEPT ![p] = None] /\ UNCHANGED <<dinode, dp>>
              ELSE   /\ dinode' = [dinode EXCEPT ![j].ents[rest[p][1]] = None,
                                                 ![j].nlink = down]
                     /\ inode' = [inode EXCEPT ![s] = [n EXCEPT !.holder = p],
                                               ![d].nlink = down,
                                               ![d].holder = NoProc]
                     /\ Go(p, <<Iput(d), Step("unlinked")>>)
                     /\ dp' = [dp EXCEPT ![p] = None] /\ UNCHANGED cur
    /\ UNCHANGED <<work, table, cwd, call, rest, ip>>

UnlinkDone(p) ==
    /\ At(p, "unlinked")
    /\ LET s == cur[p]
           down == [inode[s] EXCEPT !.nlink = @ - 1, !.holder = NoProc]
       IN  /\ inode' = [inode EXCEPT ![s] = down]
           /\ dinode' = Iupdate(dinode, down.inum, down)
           /\ Go(p, <<Iput(s)>>)
    /\ cur' = [cur EXCEPT ![p] = None]
    /\ UNCHANGED <<work, table, cwd, call, rest, dp, ip>>

(***************************************************************************)
(* The specification                                                       *)
(***************************************************************************)
Script(c) ==
    CASE c.op = "open"   -> <<Step("namei"), Step("openlock")>>
      [] c.op = "chdir"  -> <<Step("namei"), Step("chdir")>>
      [] c.op = "link"   -> <<Step("namei"), Step("link")>>
      [] c.op = "unlink" -> <<Step("nameiparent"), Step("unlink")>>
      [] OTHER           -> <<Step("nameiparent"), Step("create")>>

Begin(p, c) ==
    /\ Idle(p)
    /\ call' = [call EXCEPT ![p] = c]
    /\ StartPath(p, c.path, Script(c))
    /\ UNCHANGED <<work, dinode, table, cwd, dp, ip>>

Root == [type |-> "dir", nlink |-> 1, ents |-> DotEnts(ROOTINO, ROOTINO)]
FreeInode == [type |-> "free", nlink |-> 0, ents |-> NoEnts]

\* A disk with an empty root, made as mkfs makes its root; every process in it.
Init ==
    /\ work \in Workloads
    /\ dinode = [i \in Inum |-> IF i = ROOTINO THEN Root ELSE FreeInode]
    /\ inode = [s \in Slot |->
                   IF s = 1 THEN [EmptyEntry EXCEPT !.inum = ROOTINO,
                                                    !.ref = Cardinality(Proc)]
                   ELSE EmptyEntry]
    /\ file = [f \in File |-> [ref |-> 0, ip |-> None]]
    /\ ofile = [p \in Proc |-> [d \in Fd |-> None]]
    /\ cwd = [p \in Proc |-> 1]
    /\ call = [p \in Proc |-> NoCall] /\ todo = [p \in Proc |-> <<>>]
    /\ cur = [p \in Proc |-> None] /\ rest = [p \in Proc |-> <<>>]
    /\ dp = [p \in Proc |-> None] /\ ip = [p \in Proc |-> None]

Next ==
    \E p \in Proc :
        \/ \E c \in work : Begin(p, c)
        \/ \E d \in Fd : Close(p, d) \/ Dup(p, d)
        \/ PutTest(p) \/ PutFree(p) \/ PutDeref(p)
        \/ NamexEnd(p) \/ NamexStep(p) \/ Panics(p)
        \/ Create(p) \/ CreateGet(p) \/ CreateLink(p) \/ CreateExists(p)
        \/ UnlockPut(p) \/ OpenLock(p) \/ OpenDone(p) \/ OpenNoFd(p)
        \/ OpenUnalloc(p) \/ OpenNoFile(p) \/ Chdir(p)
        \/ Link(p) \/ LinkNew(p) \/ Dirlink(p) \/ LinkBad(p) \/ DropDp(p)
        \/ Unlink(p) \/ UnlinkEntry(p) \/ UnlinkDone(p)

Spec == Init /\ [][Next]_vars

(***************************************************************************)
(* Properties                                                              *)
(***************************************************************************)
\* The pointers to an entry of the cache: current directories, open files,
\* and the variables and unfinished puts of calls.
Pointers(s) ==
      Cardinality({p \in Proc : cwd[p] = s})
    + Cardinality({f \in File : file[f].ref > 0 /\ file[f].ip = s})
    + Cardinality({p \in Proc : cur[p] = s})
    + Cardinality({p \in Proc : dp[p] = s})
    + Cardinality({p \in Proc : ip[p] = s})
    + Cardinality({x \in Proc \X (1 .. 3) :
                      /\ x[2] \in DOMAIN todo[x[1]]
                      /\ todo[x[1]][x[2]].do \in {"iput", "ifree", "deref"}
                      /\ todo[x[1]][x[2]].s = s})

\* A cache entry's count is the number of pointers to it, and an inode has one
\* entry: with a count too low iget recycles the entry under its users.
RefsExact ==
    /\ \A s \in Slot : inode[s].ref = Pointers(s)
    /\ \A i \in Inum : Cardinality(Cached(i)) <= 1

\* A file structure's count is the number of descriptors that have it.
FilesExact ==
    \A f \in File :
        file[f].ref = Cardinality({x \in Proc \X Fd : ofile[x[1]][x[2]] = f})
                    + Cardinality({p \in Proc : /\ At(p, "unalloc")
                                                /\ Head(todo[p]).s = f})

\* Both tables count their references exactly, through every failed call.
RefsSound == TypeOK /\ RefsExact /\ FilesExact

\* iput frees an inode only when nobody can get to it: what is open, or some
\* process's directory, is allocated.
InUse ==
    /\ \A p \in Proc : dinode[inode[cwd[p]].inum].type # "free"
    /\ \A f \in File :
          file[f].ref > 0 /\ file[f].ip # None =>
              dinode[inode[file[f].ip].inum].type # "free"

\* The names of an inode, and in a directory the directories below it.
Names(i) ==
      Cardinality({x \in Inum \X Name : dinode[x[1]].ents[x[2]] = i})
    + Cardinality({n \in Name : /\ dinode[i].ents[n] # None
                                /\ dinode[dinode[i].ents[n]].type = "dir"})

\* A link count is never below the number of links, so that no name is left
\* of an inode that iput frees.
LinksCounted ==
    \A i \in Inum : Names(i) <= dinode[i].nlink
                    /\ (Names(i) > 0 => dinode[i].type # "free")

\* An inode is freed only when neither a process nor a name leads to it.
FreedUnreachable == InUse /\ LinksCounted

\* No program goes up from a directory, which may have been removed, and whose
\* parent may have been removed and used for something else since.
Down == \A c \in work : ~Contains(c.path, "..")

\* The checks of ilock, dirlookup and sys_unlink never fail: an inode that a
\* call has looked up, unlocked and locks again is still there.
NoPanic == \A p \in Proc : ~At(p, "panic")
NoPanicDown == Down => NoPanic

\* An inode that has no name and that nobody refers to has been freed.
NoOrphan ==
    \A i \in Inum :
        dinode[i].type # "free" /\ dinode[i].nlink = 0 =>
            Cached(i) # {} \/ \E p \in Proc : At(p, "iget") /\ Head(todo[p]).s = i

\* Nobody waits for a lock that is his, or whose holder waits for one of his.
Blocker(p) == IF Wants(p) = None THEN NoProc ELSE inode[Wants(p)].holder
NoLockCycle ==
    \A p \in Proc : /\ Blocker(p) # p
                    /\ Blocker(p) # NoProc => Blocker(Blocker(p)) # p
=============================================================================
