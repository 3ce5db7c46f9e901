------------------------------ MODULE ShParse ------------------------------
(***************************************************************************)
(* The parser of user/sh.c on tokens: words, and the symbols of the shell. *)
(* gettoken's characters, white space and the strings that nulterminate    *)
(* cuts out of the line are left out; a token is a string, and a position  *)
(* past the last token is the NUL at the end of the line.                  *)
(***************************************************************************)
EXTENDS Integers, Sequences, FiniteSets, SequencesExt

CONSTANT MAXARGS          \* 10 in sh.c

Symbols == {"|", ";", "&", "(", ")", "<", ">", ">>"}
Redirs == {"<", ">", ">>"}

(***************************************************************************)
(* Command trees                                                           *)
(***************************************************************************)
execcmd(argv) == [type |-> "EXEC", argv |-> argv]
redircmd(c, r) == [type |-> "REDIR", cmd |-> c, fd |-> r.fd, file |-> r.file]
pipecmd(l, r) == [type |-> "PIPE", left |-> l, right |-> r]
listcmd(l, r) == [type |-> "LIST", left |-> l, right |-> r]
backcmd(c) == [type |-> "BACK", cmd |-> c]

\* A parser returns its result and the next position, or has panicked.
Panic == [type |-> "panic"]
Got(c, i) == [ok |-> TRUE, val |-> c, at |-> i]
Bad == [ok |-> FALSE, val |-> Panic, at |-> 0]

gettoken(s, i) == IF i \in DOMAIN s THEN s[i] ELSE "NUL"
peek(s, i, toks) == gettoken(s, i) \in toks
IsWord(t) == t \notin Symbols \cup {"NUL"}

\* <, > and >> with the descriptor each replaces; >> does not append.
Redir(op, file) == [fd |-> IF op = "<" THEN 0 ELSE 1, file |-> file]

\* Mutant: the one written first is outermost.
WrapFirst(c, rs) == FoldRight(LAMBDA r, x : redircmd(x, r), rs, c)

\* parseredirs wraps the command in one redirection after another, so the
\* one written last is outermost.
Wrap(c, rs) == FoldLeft(redircmd, c, rs)

RECURSIVE parseredirs(_, _, _)
parseredirs(rs, s, i) ==
    IF ~peek(s, i, Redirs) THEN Got(rs, i)
    ELSE IF ~IsWord(gettoken(s, i + 1)) THEN Bad
    ELSE parseredirs(Append(rs, Redir(s[i], s[i + 1])), s, i + 2)

\* parseexec's loop: a word, then redirections, up to a separator or the end.
RECURSIVE Args(_, _, _, _)
Args(argv, rs, s, i) ==
    LET r == parseredirs(rs, s, i)
        more == Append(argv, gettoken(s, r.at))
    IN  IF ~r.ok THEN Bad
        ELSE IF peek(s, r.at, {"|", ")", "&", ";", "NUL"})
        THEN Got(Wrap(execcmd(argv), r.val), r.at)
        ELSE IF ~IsWord(gettoken(s, r.at)) \/ Len(more) >= MAXARGS THEN Bad
        ELSE Args(more, r.val, s, r.at + 1)

RECURSIVE parseline(_, _)

parseblock(s, i) ==
    LET b == parseline(s, i + 1)
        r == parseredirs(<<>>, s, b.at + 1)
    IN  IF ~b.ok \/ ~peek(s, b.at, {")"}) \/ ~r.ok THEN Bad
        ELSE Got(Wrap(b.val, r.val), r.at)

parseexec(s, i) ==
    IF peek(s, i, {"("}) THEN parseblock(s, i) ELSE Args(<<>>, <<>>, s, i)

RECURSIVE parsepipe(_, _)
parsepipe(s, i) ==
    LET l == parseexec(s, i)
        r == parsepipe(s, l.at + 1)
    IN  IF ~l.ok \/ ~peek(s, l.at, {"|"}) THEN l
        ELSE IF ~r.ok THEN Bad
        ELSE Got(pipecmd(l.val, r.val), r.at)

\* The & signs that follow a pipeline, each one a backcmd.
RECURSIVE Amps(_, _, _)
Amps(c, s, i) == IF peek(s, i, {"&"}) THEN Amps(backcmd(c), s, i + 1)
                 ELSE Got(c, i)

parseline(s, i) ==
    LET p == parsepipe(s, i)
        l == Amps(p.val, s, p.at)
        r == parseline(s, l.at + 1)
    IN  IF ~p.ok THEN Bad
        ELSE IF ~peek(s, l.at, {";"}) THEN l
        ELSE IF ~r.ok THEN Bad
        ELSE Got(listcmd(l.val, r.val), r.at)

\* Tokens left over are a syntax error.
parsecmd(s) ==
    LET r == parseline(s, 1)
    IN  IF r.ok /\ r.at = Len(s) + 1 THEN r.val ELSE Panic

(***************************************************************************)
(* What a line means, by its outermost separators instead of by scanning.  *)
(***************************************************************************)
Count(s, i, t) == Cardinality({j \in 1 .. i : s[j] = t})
Depth(s, i) == Count(s, i, "(") - Count(s, i, ")")
Outer(s, t) == {i \in DOMAIN s : s[i] = t /\ Depth(s, i) = 0}
First(S) == CHOOSE i \in S : \A j \in S : i <= j
Before(s, i) == SubSeq(s, 1, i - 1)
After(s, i) == SubSeq(s, i + 1, Len(s))

\* Places of redirections, and what they say, in a text without parentheses.
Places(s) == {i \in DOMAIN s : s[i] \in Redirs}
RedirsOf(s) == [k \in 1 .. Cardinality(Places(s)) |->
                  LET i == CHOOSE j \in Places(s) :
                              Cardinality({m \in Places(s) : m <= j}) = k
                  IN  Redir(s[i], s[i + 1])]
Followed(s) == \A i \in Places(s) : IsWord(gettoken(s, i + 1))
WordsOf(s) == SelectSeq([i \in DOMAIN s |-> <<i, s[i]>>],
                  LAMBDA x : IsWord(x[2]) /\ x[1] - 1 \notin Places(s))

\* The first redirection of a command is nearest to it.
RECURSIVE Nest(_, _)
Nest(c, rs) == IF rs = <<>> THEN c
               ELSE redircmd(Nest(c, Front(rs)), Last(rs))

RECURSIVE Meaning(_)

Simple(s) ==
    IF /\ Followed(s) /\ \A i \in DOMAIN s : s[i] \notin {"(", ")"}
       /\ Len(WordsOf(s)) < MAXARGS
    THEN Nest(execcmd([i \in DOMAIN WordsOf(s) |-> WordsOf(s)[i][2]]),
              RedirsOf(s))
    ELSE Panic

Block(s) ==
    LET k == First(Outer(s, ")"))
        in == Meaning(SubSeq(s, 2, k - 1))
        t == After(s, k)
    IN  IF in # Panic /\ Followed(t) /\ 2 * Cardinality(Places(t)) = Len(t)
        THEN Nest(in, RedirsOf(t)) ELSE Panic

Stage(s) == IF s # <<>> /\ Head(s) = "(" THEN Block(s) ELSE Simple(s)

RECURSIVE Pipeline(_)
Pipeline(s) ==
    IF Outer(s, "|") = {} THEN Stage(s)
    ELSE LET k == First(Outer(s, "|"))
             l == Stage(Before(s, k))
             r == Pipeline(After(s, k))
         IN  IF Panic \in {l, r} THEN Panic ELSE pipecmd(l, r)

RECURSIVE Job(_)
Job(s) ==
    IF s # <<>> /\ Last(s) = "&"
    THEN LET j == Job(Front(s)) IN IF j = Panic THEN Panic ELSE backcmd(j)
    ELSE IF Outer(s, "&") # {} THEN Panic
    ELSE Pipeline(s)

Balanced(s) == Depth(s, Len(s)) = 0 /\ \A i \in DOMAIN s : Depth(s, i) >= 0

Meaning(s) ==
    IF ~Balanced(s) THEN Panic
    ELSE IF Outer(s, ";") = {} THEN Job(s)
    ELSE LET k == First(Outer(s, ";"))
             l == Job(Before(s, k))
             r == Meaning(After(s, k))
         IN  IF Panic \in {l, r} THEN Panic ELSE listcmd(l, r)
=============================================================================
