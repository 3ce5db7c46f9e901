----------------------------- MODULE LogProofs -----------------------------
(***************************************************************************)
(* Proofs about Log, for any number of processes, blocks and contents and  *)
(* any size of the log: begin_op's reservation suffices, a commit runs     *)
(* alone, no wakeup is lost, and with a crash at any disk write the disk   *)
(* shows groups of whole operations only (AtomicOps).                      *)
(***************************************************************************)
EXTENDS Log, FiniteSetTheorems, FunctionTheorems, TLAPS

(***************************************************************************)
(* The inductive invariant                                                 *)
(***************************************************************************)

\* The blocks that are named in a header.
Entries(s) == {s[i] : i \in 1 .. Len(s)}

\* log.outstanding counts the operations in progress; only they have written
\* something, at most MAXOPBLOCKS blocks each, all of them in the header.
CountInv ==
    /\ outstanding = Cardinality(Active)
    /\ \A p \in Proc : p \notin Active => wrote[p] = {}
    /\ \A p \in Proc : /\ IsFiniteSet(wrote[p])
                       /\ Cardinality(wrote[p]) <= MAXOPBLOCKS
                       /\ wrote[p] \subseteq Entries(lh)

\* The reservation of all operations in progress, less what they have used,
\* fits in the header behind the entries that are there.
RoomInv ==
    Len(lh) + outstanding * MAXOPBLOCKS
        <= LOGSIZE + Cardinality(Charged(Active, wrote))

\* One process commits, and only when no operation is in progress; recovery
\* runs before every other process.
CommitInv ==
    /\ committing <=> \E p \in Proc : pc[p] = "commit"
    /\ \A p, q \in Proc : pc[p] = "commit" /\ pc[q] = "commit" => p = q
    /\ committing => outstanding = 0
    /\ booting => /\ ~committing /\ phase \in {"install", "clear"}
                  /\ \A p \in Proc : pc[p] = "idle"
    /\ ~booting => (committing <=> phase # "none")

\* How memory, log and home blocks relate while the commit and the recovery
\* go through their writes.
DiskInv ==
    /\ \A b \in Block \ dirty : cache[b] = home[b]
    /\ phase \in {"none", "log", "head"} => head = <<>> /\ dirty = Entries(lh)
    /\ phase = "none" /\ outstanding = 0 => lh = <<>>
    /\ phase = "log" => /\ tail <= Len(lh)
                        /\ \A i \in 1 .. tail - 1 : logged[i] = cache[lh[i]]
    /\ phase = "head" => \A i \in 1 .. Len(lh) : logged[i] = cache[lh[i]]
    /\ phase = "install" =>
          /\ head = lh /\ tail <= Len(lh) + 1
          /\ \A i \in 1 .. tail - 1 : home[lh[i]] = logged[i]
          /\ ~booting => \A i \in 1 .. Len(lh) : cache[lh[i]] = logged[i]
          /\ dirty \subseteq {lh[i] : i \in tail .. Len(lh)}
          /\ booting => dirty = {}
    /\ phase = "clear" => /\ head = lh /\ dirty = {}
                          /\ \A i \in 1 .. Len(lh) : home[lh[i]] = logged[i]
    /\ phase = "done" => lh = <<>> /\ head = <<>> /\ dirty = {}

LogInv == TypeOK /\ CountInv /\ RoomInv /\ CommitInv /\ DiskInv /\ NoLostWakeup
(***************************************************************************)
(* Counting                                                                *)
(***************************************************************************)

\* A set of at most m elements can be numbered from 1 to m.
LEMMA Numbering ==
    ASSUME NEW S, IsFiniteSet(S), NEW m \in Nat, Cardinality(S) <= m
    PROVE  \E f \in [S -> 1 .. m] : \A a, b \in S : f[a] = f[b] => a = b
  <1>1. Cardinality(S) \in Nat /\ ExistsBijection(1 .. Cardinality(S), S)
    BY FS_CardinalityType
  <1>2. ExistsBijection(S, 1 .. Cardinality(S))
    BY <1>1, Fun_ExistsBijSymmetric
  <1>3. PICK f : f \in Bijection(S, 1 .. Cardinality(S))
    <2>1. Bijection(S, 1 .. Cardinality(S)) # {}
      BY <1>2, Fun_ExistsBij
    <2> QED
      BY <2>1
  <1>4. /\ f \in [S -> 1 .. Cardinality(S)]
        /\ \A a, b \in S : f[a] = f[b] => a = b
    BY <1>3, Zenon DEF Bijection, Injection, IsInjective
  <1>5. f \in [S -> 1 .. m]
    BY <1>1, <1>4
  <1> QED
    BY <1>4, <1>5

\* Operations that wrote at most m blocks each are charged at most m times
\* their number.
LEMMA ChargedBound ==
    ASSUME NEW A, NEW w, NEW m \in Nat, IsFiniteSet(A),
           \A p \in A : IsFiniteSet(w[p]) /\ Cardinality(w[p]) <= m
    PROVE  /\ IsFiniteSet(Charged(A, w))
           /\ Cardinality(Charged(A, w)) \in Nat
           /\ Cardinality(Charged(A, w)) <= Cardinality(A) * m
  <1> DEFINE Inj(p) == {f \in [w[p] -> 1 .. m] :
                          \A a, b \in w[p] : f[a] = f[b] => a = b}
             num(p) == CHOOSE f : f \in Inj(p)
             C == Charged(A, w)
             g == [e \in C |-> <<e[1], num(e[1])[e[2]]>>]
  <1>1. ASSUME NEW p \in A PROVE num(p) \in Inj(p)
    <2>1. \E f : f \in Inj(p)
      BY Numbering
    <2> QED
      BY <2>1
  <1>2. ASSUME NEW e \in C
        PROVE  e[1] \in A /\ e[2] \in w[e[1]] /\ e = <<e[1], e[2]>>
    BY DEF Charged
  <1>3. g \in [C -> A \X (1 .. m)]
    <2>1. ASSUME NEW e \in C PROVE num(e[1])[e[2]] \in 1 .. m
      <3>1. e[1] \in A /\ e[2] \in w[e[1]]
        BY <1>2
      <3>2. num(e[1]) \in [w[e[1]] -> 1 .. m]
        BY <1>1, <3>1
      <3> HIDE DEF num
      <3> QED
        BY <3>1, <3>2
    <2> QED
      BY <1>2, <2>1
  <1>4. ASSUME NEW d \in C, NEW e \in C, g[d] = g[e] PROVE d = e
    <2>1. d[1] = e[1] /\ num(d[1])[d[2]] = num(e[1])[e[2]]
      <3>1. <<d[1], num(d[1])[d[2]]>> = <<e[1], num(e[1])[e[2]]>>
        BY <1>4
      <3> HIDE DEF num
      <3> QED
        BY <3>1
    <2>2. d[2] = e[2]
      BY <1>1, <1>2, <2>1
    <2> QED
      BY <1>2, <2>1, <2>2
  <1>5. g \in Injection(C, A \X (1 .. m))
    BY <1>3, <1>4, Fun_IsInj
  <1>6. IsFiniteSet(1 .. m) /\ Cardinality(1 .. m) = m
    BY FS_Interval
  <1>7. /\ IsFiniteSet(A \X (1 .. m))
        /\ Cardinality(A \X (1 .. m)) = Cardinality(A) * m
    BY <1>6, FS_Product
  <1>8. IsFiniteSet(C) /\ Cardinality(C) <= Cardinality(A \X (1 .. m))
    BY <1>5, <1>7, FS_Injection
  <1> QED
    BY <1>7, <1>8, FS_CardinalityType

\* One operation is charged for the blocks it wrote.
LEMMA ChargedOne ==
    ASSUME NEW p, NEW w, w[p] \subseteq Block, IsFiniteSet(w[p])
    PROVE  /\ IsFiniteSet(Charged({p}, w))
           /\ Cardinality(Charged({p}, w)) = Cardinality(w[p])
  <1> DEFINE g == [b \in w[p] |-> <<p, b>>]
  <1>1. g \in [w[p] -> Charged({p}, w)]
    BY DEF Charged
  <1>2. \A a, b \in w[p] : g[a] = g[b] => a = b
    OBVIOUS
  <1>3. \A e \in Charged({p}, w) : e[2] \in w[p] /\ g[e[2]] = e
    BY DEF Charged
  <1>4. g \in Bijection(w[p], Charged({p}, w))
    BY <1>1, <1>2, <1>3, Fun_IsBij
  <1> QED
    BY <1>4, FS_Bijection, Fun_ExistsBij

\* What all are charged is what one is and what the others are.
LEMMA ChargedSplit ==
    ASSUME NEW A, NEW w, NEW p \in A, w[p] \subseteq Block,
           IsFiniteSet(w[p]), IsFiniteSet(Charged(A \ {p}, w))
    PROVE  Cardinality(Charged(A, w))
             = Cardinality(Charged(A \ {p}, w)) + Cardinality(w[p])
  <1>1. Charged(A, w) = Charged(A \ {p}, w) \cup Charged({p}, w)
    BY DEF Charged
  <1>2. Charged(A \ {p}, w) \cap Charged({p}, w) = {}
    BY DEF Charged
  <1>3. Cardinality(Charged(A \ {p}, w) \cap Charged({p}, w)) = 0
    BY <1>2, FS_EmptySet
  <1>4. /\ Cardinality(Charged(A \ {p}, w)) \in Nat
        /\ Cardinality(w[p]) \in Nat
    BY FS_CardinalityType
  <1>5. /\ IsFiniteSet(Charged({p}, w))
        /\ Cardinality(Charged({p}, w)) = Cardinality(w[p])
    BY ChargedOne
  <1>6. Cardinality(Charged(A, w))
          = Cardinality(Charged(A \ {p}, w)) + Cardinality(w[p]) - 0
    BY <1>1, <1>3, <1>5, FS_Union
  <1> QED
    BY <1>4, <1>6

(***************************************************************************)
(* Headers                                                                 *)
(***************************************************************************)

\* A header names its entries, and none when it is empty.
LEMMA EntriesEmpty == Entries(<<>>) = {}
  BY DEF Entries

\* What log absorption makes of the header.
LEMMA AbsorbFacts ==
    ASSUME NEW b \in Block, lh \in Seq(Block), Distinct(lh)
    PROVE  /\ Absorb(b) \in Seq(Block)
           /\ Distinct(Absorb(b))
           /\ Entries(Absorb(b)) = Entries(lh) \cup {b}
           /\ Len(Absorb(b)) >= Len(lh) /\ Len(Absorb(b)) <= Len(lh) + 1
           /\ b \in Entries(lh) => Absorb(b) = lh
  <1>1. CASE \E i \in 1 .. Len(lh) : lh[i] = b
    BY <1>1 DEF Absorb, Entries
  <1>2. CASE ~\E i \in 1 .. Len(lh) : lh[i] = b
    <2>1. Absorb(b) = Append(lh, b)
      BY <1>2 DEF Absorb
    <2>2. /\ Append(lh, b) \in Seq(Block) /\ Len(Append(lh, b)) = Len(lh) + 1
          /\ \A i \in 1 .. Len(lh) : Append(lh, b)[i] = lh[i]
          /\ Append(lh, b)[Len(lh) + 1] = b
          /\ Len(lh) \in Nat
      OBVIOUS
    <2>3. Distinct(Append(lh, b))
      BY <1>2, <2>2 DEF Distinct
    <2>4. Entries(Append(lh, b)) = Entries(lh) \cup {b}
      BY <2>2 DEF Entries
    <2>5. b \notin Entries(lh)
      BY <1>2 DEF Entries
    <2> QED
      BY <2>1, <2>2, <2>3, <2>4, <2>5
  <1> QED
    BY <1>1, <1>2

(***************************************************************************)
(* Operations in progress                                                  *)
(***************************************************************************)

\* There are finitely many operations in progress.
LEMMA ActiveFinite == Active \subseteq Proc /\ IsFiniteSet(Active)
  BY LogAssumption, FS_Subset DEF Active

\* What each step does to the set of operations in progress.
LEMMA ActiveChange ==
    ASSUME TypeOK
    PROVE  /\ \A p \in Proc :
                  /\ BeginCall(p) \/ BeginWait(p) \/ LogCheck(p)
                        \/ LogPanic(p) \/ EndCommit(p) => Active' = Active
                  /\ BeginGo(p) => p \notin Active /\ Active' = Active \cup {p}
                  /\ EndOp(p) => p \in Active /\ Active' = Active \ {p}
                  /\ \A b \in Block, v \in Val :
                        LogWrite(p, b, v) => p \in Active /\ Active' = Active
           /\ Commit => Active' = Active
           /\ \A b \in Block : Evict(b) => Active' = Active
           /\ Crash => Active' = {}
           /\ UNCHANGED vars => Active' = Active
  <1>1. pc \in [Proc -> {"idle", "begin", "sleep", "op", "log", "panic",
                         "commit"}]
    BY DEF TypeOK
  <1>2. ASSUME NEW p \in Proc
        PROVE  BeginCall(p) \/ BeginWait(p) \/ LogCheck(p) \/ LogPanic(p)
                 => Active' = Active
    BY <1>1 DEF BeginCall, BeginWait, LogCheck, LogPanic, Active
  <1>3. ASSUME NEW p \in Proc, EndCommit(p)
        PROVE  Active' = Active
    BY <1>1, <1>3 DEF EndCommit, Active, Wake
  <1>4. ASSUME NEW p \in Proc, BeginGo(p)
        PROVE  p \notin Active /\ Active' = Active \cup {p}
    BY <1>1, <1>4 DEF BeginGo, Active
  <1>5. ASSUME NEW p \in Proc, EndOp(p)
        PROVE  p \in Active /\ Active' = Active \ {p}
    BY <1>1, <1>5 DEF EndOp, Active, Wake
  <1>6. ASSUME NEW p \in Proc, NEW b \in Block, NEW v \in Val,
               LogWrite(p, b, v)
        PROVE  p \in Active /\ Active' = Active
    BY <1>1, <1>6 DEF LogWrite, Active
  <1>7. Commit => Active' = Active
    BY DEF Commit, WriteLog, WriteHead, Install, InstallEnd, ClearHead, ops,
           Active
  <1>8. ASSUME NEW b \in Block, Evict(b) PROVE Active' = Active
    BY <1>8 DEF Evict, ops, Active
  <1>9. Crash => Active' = {}
    BY DEF Crash, Active
  <1>10. UNCHANGED vars => Active' = Active
    BY DEF vars, ops, Active
  <1> QED
    BY <1>2, <1>3, <1>4, <1>5, <1>6, <1>7, <1>8, <1>9, <1>10

\* No operation is in progress while a commit or the recovery goes on.
LEMMA QuietCommit ==
    ASSUME LogInv, phase # "none"
    PROVE  Active = {}
  <1>1. CASE booting
    BY <1>1 DEF LogInv, CommitInv, Active
  <1>2. CASE ~booting
    <2>1. outstanding = 0
      BY <1>2 DEF LogInv, CommitInv
    <2> QED
      BY <2>1, ActiveFinite, FS_EmptySet DEF LogInv, CountInv
  <1> QED
    BY <1>1, <1>2

\* log.outstanding stays the number of operations in progress, and what they
\* wrote stays in the header.
LEMMA CountStep ==
    ASSUME LogInv, [Next]_vars
    PROVE  CountInv'
  <1>t. TypeOK /\ CountInv
    BY DEF LogInv
  <1>a. Cardinality(Active) \in Nat
    BY ActiveFinite, FS_CardinalityType
  <1>1. ASSUME Active' = Active, UNCHANGED <<outstanding, wrote>>,
               lh' = lh \/ Active = {}
        PROVE  CountInv'
    BY <1>t, <1>1 DEF CountInv
  <1>2. ASSUME NEW p \in Proc, BeginGo(p) PROVE CountInv'
    <2>1. Cardinality(Active') = Cardinality(Active) + 1
      BY <1>2, <1>t, ActiveChange, ActiveFinite, FS_AddElement
    <2> QED
      BY <1>2, <1>t, <2>1, ActiveChange DEF CountInv, BeginGo
  <1>3. ASSUME NEW p \in Proc, EndOp(p) PROVE CountInv'
    <2>1. Cardinality(Active') = Cardinality(Active) - 1
      BY <1>3, <1>t, ActiveChange, ActiveFinite, FS_RemoveElement
    <2>2. p \in Active /\ Active' = Active \ {p}
      BY <1>3, <1>t, ActiveChange
    <2>3. outstanding' = outstanding - 1 /\ lh' = lh
      BY <1>3 DEF EndOp
    <2>4. \A q \in Proc : wrote'[q] = IF q = p THEN {} ELSE wrote[q]
      BY <1>3, <1>t DEF EndOp, TypeOK
    <2>5. IsFiniteSet({}) /\ Cardinality({}) = 0
      BY FS_EmptySet
    <2> QED
      BY <1>t, <2>1, <2>2, <2>3, <2>4, <2>5, LogAssumption DEF CountInv
  <1>4. ASSUME NEW p \in Proc, NEW b \in Block, NEW v \in Val,
               LogWrite(p, b, v)
        PROVE  CountInv'
    <2>1. p \in Active /\ Active' = Active
      BY <1>4, <1>t, ActiveChange
    <2>2. \A q \in Proc : wrote'[q] = IF q = p THEN wrote[p] \cup {b}
                                       ELSE wrote[q]
      BY <1>4, <1>t DEF LogWrite, TypeOK
    <2>3. Entries(lh') = Entries(lh) \cup {b}
      BY <1>4, <1>t, AbsorbFacts DEF LogWrite, TypeOK
    <2>4. /\ IsFiniteSet(wrote[p] \cup {b})
          /\ Cardinality(wrote[p] \cup {b}) <= MAXOPBLOCKS
      <3>1. IsFiniteSet(wrote[p]) /\ Cardinality(wrote[p]) \in Nat
        BY <1>t, FS_CardinalityType DEF CountInv
      <3>2. b \in wrote[p] \/ Cardinality(wrote[p]) + 1 <= MAXOPBLOCKS
        BY <1>4, <3>1, LogAssumption DEF LogWrite
      <3> QED
        BY <1>t, <3>1, <3>2, FS_AddElement DEF CountInv
    <2>5. outstanding' = outstanding
      BY <1>4 DEF LogWrite
    <2> QED
      BY <1>t, <2>1, <2>2, <2>3, <2>4, <2>5 DEF CountInv
  <1>5. CASE Crash
    <2>1. Active' = {} /\ Cardinality(Active') = 0
      BY <1>5, <1>t, ActiveChange, FS_EmptySet
    <2>2. outstanding' = 0 /\ \A q \in Proc : wrote'[q] = {}
      BY <1>5 DEF Crash
    <2> QED
      BY <2>1, <2>2, FS_EmptySet, LogAssumption DEF CountInv
  <1>6. CASE Commit
    <2>1. phase # "none"
      BY <1>6 DEF Commit, WriteLog, WriteHead, Install, InstallEnd, ClearHead
    <2>2. Active = {} /\ Active' = {}
      BY <1>6, <1>t, <2>1, QuietCommit, ActiveChange
    <2>3. UNCHANGED <<outstanding, wrote>>
      BY <1>6
      DEF Commit, WriteLog, WriteHead, Install, InstallEnd, ClearHead, ops
    <2> QED
      BY <1>1, <2>2, <2>3
  <1>7. ASSUME NEW b \in Block, Evict(b) PROVE CountInv'
    BY <1>1, <1>7, <1>t, ActiveChange DEF Evict, ops
  <1>8. ASSUME NEW p \in Proc, BeginCall(p) \/ BeginWait(p) \/ LogCheck(p)
                                \/ LogPanic(p) \/ EndCommit(p)
        PROVE  CountInv'
    BY <1>1, <1>8, <1>t, ActiveChange
    DEF BeginCall, BeginWait, LogCheck, LogPanic, EndCommit
  <1>9. CASE UNCHANGED vars
    BY <1>1, <1>9, <1>t, ActiveChange DEF vars, ops
  <1> QED
    BY <1>2, <1>3, <1>4, <1>5, <1>6, <1>7, <1>8, <1>9 DEF Next, Begin

\* begin_op lets an operation in only when its reservation fits as well, and
\* a block counts against a reservation when it may add an entry.
LEMMA RoomStep ==
    ASSUME LogInv, [Next]_vars
    PROVE  RoomInv'
  <1>t. TypeOK /\ CountInv /\ RoomInv /\ CountInv'
    BY CountStep DEF LogInv
  <1> DEFINE M == MAXOPBLOCKS
             C == Cardinality(Charged(Active, wrote))
  <1>a. /\ MAXOPBLOCKS \in Nat /\ LOGSIZE \in Nat /\ outstanding \in Nat
        /\ Len(lh) \in Nat
    BY <1>t, LogAssumption DEF TypeOK
  <1>b. IsFiniteSet(Charged(Active, wrote)) /\ C \in Nat
    BY <1>t, <1>a, ActiveFinite, ChargedBound DEF CountInv
  <1>c. Len(lh) + outstanding * M <= LOGSIZE + C
    BY <1>t DEF RoomInv
  <1>1. ASSUME Active' = Active, UNCHANGED <<outstanding, wrote, lh>>
        PROVE  RoomInv'
    BY <1>t, <1>1 DEF RoomInv
  <1>2. ASSUME NEW p \in Proc, BeginGo(p) PROVE RoomInv'
    <2>1. Len(lh) + (outstanding + 1) * M <= LOGSIZE
      BY <1>2, <1>a DEF BeginGo, MustWait
    <2>2. Cardinality(Charged(Active', wrote')) \in Nat
      <3>1. IsFiniteSet(Active')
        BY <1>2, <1>t, ActiveChange, ActiveFinite, FS_AddElement
      <3>2. Active' \subseteq Proc
        BY DEF Active
      <3> QED
        BY <1>t, <1>a, <3>1, <3>2, ChargedBound DEF CountInv
    <2>3. lh' = lh /\ outstanding' = outstanding + 1
      BY <1>2 DEF BeginGo
    <2> HIDE DEF M
    <2> QED
      BY <1>a, <2>1, <2>2, <2>3 DEF RoomInv, M
  <1>3. ASSUME NEW p \in Proc, EndOp(p) PROVE RoomInv'
    <2>1. p \in Active /\ Active' = Active \ {p} /\ Active \subseteq Proc
      BY <1>3, <1>t, ActiveChange, ActiveFinite
    <2>2. Charged(Active', wrote') = Charged(Active \ {p}, wrote)
      BY <1>3, <1>t, <2>1 DEF EndOp, TypeOK, Charged
    <2>3. /\ IsFiniteSet(wrote[p]) /\ Cardinality(wrote[p]) \in Nat
          /\ wrote[p] \subseteq Block /\ Cardinality(wrote[p]) <= M
      BY <1>t, FS_CardinalityType DEF CountInv, TypeOK
    <2>4. /\ IsFiniteSet(Charged(Active \ {p}, wrote))
          /\ Cardinality(Charged(Active \ {p}, wrote)) \in Nat
      <3>1. IsFiniteSet(Active \ {p})
        BY ActiveFinite, FS_RemoveElement
      <3> QED
        BY <1>t, <1>a, <2>1, <3>1, ChargedBound DEF CountInv
    <2>5. C = Cardinality(Charged(Active', wrote')) + Cardinality(wrote[p])
      BY <2>1, <2>2, <2>3, <2>4, ChargedSplit
    <2>6. lh' = lh /\ outstanding' = outstanding - 1
      BY <1>3 DEF EndOp
    <2>7. (outstanding - 1) * M = outstanding * M - M
      BY <1>a
    <2>8. outstanding * M \in Nat
      BY <1>a
    <2> HIDE DEF M, C
    <2>9. Len(lh) + (outstanding - 1) * M
            <= LOGSIZE + Cardinality(Charged(Active', wrote'))
      BY <1>a, <1>b, <1>c, <2>2, <2>3, <2>4, <2>5, <2>7, <2>8 DEF M
    <2> QED
      BY <2>6, <2>9 DEF RoomInv, M
  <1>4. ASSUME NEW p \in Proc, NEW b \in Block, NEW v \in Val,
               LogWrite(p, b, v)
        PROVE  RoomInv'
    <2>1. p \in Active /\ Active' = Active /\ outstanding' = outstanding
      BY <1>4, <1>t, ActiveChange DEF LogWrite
    <2>2. /\ lh' = Absorb(b)
          /\ wrote' = [wrote EXCEPT ![p] = wrote[p] \cup {b}]
      BY <1>4 DEF LogWrite
    <2>3. /\ Len(lh') \in Nat /\ Len(lh') <= Len(lh) + 1
          /\ b \in Entries(lh) => lh' = lh
      BY <1>t, <2>2, AbsorbFacts DEF TypeOK
    <2>4. CASE b \in wrote[p]
      <3>1. lh' = lh /\ wrote' = wrote
        BY <1>t, <2>2, <2>3, <2>4 DEF CountInv, TypeOK
      <3> QED
        BY <1>1, <2>1, <3>1
    <2>5. CASE b \notin wrote[p]
      <3>1. Charged(Active, wrote') = Charged(Active, wrote) \cup {<<p, b>>}
        BY <1>t, <2>1, <2>2 DEF Charged, TypeOK, Active
      <3>2. <<p, b>> \notin Charged(Active, wrote)
        BY <2>5 DEF Charged
      <3>3. Cardinality(Charged(Active', wrote')) = C + 1
        BY <1>b, <2>1, <3>1, <3>2, FS_AddElement
      <3>4. outstanding * M \in Nat
        BY <1>a
      <3> HIDE DEF M, C
      <3> QED
        BY <1>a, <1>b, <1>c, <2>1, <2>3, <3>3, <3>4 DEF RoomInv, M
    <2> QED
      BY <2>4, <2>5
  <1>5. CASE Crash
    <2>1. outstanding' = 0 /\ Len(lh') <= LOGSIZE /\ Len(lh') \in Nat
      BY <1>5, <1>t DEF Crash, TypeOK
    <2>2. Active' = {}
      BY <1>5, <1>t, ActiveChange
    <2>3. Charged({}, wrote') = {} /\ Cardinality({}) = 0
      BY FS_EmptySet DEF Charged
    <2> QED
      BY <1>a, <2>1, <2>2, <2>3 DEF RoomInv
  <1>6. CASE ClearHead
    <2>1. Active = {} /\ Active' = {}
      BY <1>6, <1>t, QuietCommit, ActiveChange DEF ClearHead, Commit
    <2>2. outstanding = 0 /\ outstanding' = 0 /\ lh' = <<>>
      BY <1>6, <1>t, <2>1, FS_EmptySet DEF CountInv, ClearHead, ops
    <2>3. Charged({}, wrote') = {} /\ Cardinality({}) = 0
      BY FS_EmptySet DEF Charged
    <2> QED
      BY <1>a, <2>1, <2>2, <2>3 DEF RoomInv
  <1>7. CASE WriteLog \/ WriteHead \/ Install \/ InstallEnd
    BY <1>1, <1>7, <1>t, ActiveChange
    DEF Commit, WriteLog, WriteHead, Install, InstallEnd, ops
  <1>8. ASSUME NEW b \in Block, Evict(b) PROVE RoomInv'
    BY <1>1, <1>8, <1>t, ActiveChange DEF Evict, ops
  <1>9. ASSUME NEW p \in Proc, BeginCall(p) \/ BeginWait(p) \/ LogCheck(p)
                                \/ LogPanic(p) \/ EndCommit(p)
        PROVE  RoomInv'
    BY <1>1, <1>9, <1>t, ActiveChange
    DEF BeginCall, BeginWait, LogCheck, LogPanic, EndCommit
  <1>10. CASE UNCHANGED vars
    BY <1>1, <1>10, <1>t, ActiveChange DEF vars, ops
  <1> QED
    BY <1>2, <1>3, <1>4, <1>5, <1>6, <1>7, <1>8, <1>9, <1>10
    DEF Next, Begin, Commit

\* The reservation: the entries in the header and what the operations in
\* progress may still write fit, for all of them together and for each.
LEMMA RoomForAll ==
    ASSUME TypeOK, CountInv, RoomInv
    PROVE  /\ Len(lh) <= LOGSIZE /\ Reserved
           /\ \A p \in Active :
                 Len(lh) + (MAXOPBLOCKS - Cardinality(wrote[p])) <= LOGSIZE
  <1> DEFINE M == MAXOPBLOCKS
             W(p) == Cardinality(wrote[p])
             Rest(A) == Cardinality(Charged(A, wrote))
  <1>a. /\ M \in Nat /\ LOGSIZE \in Nat /\ outstanding \in Nat
        /\ Len(lh) \in Nat
    BY LogAssumption DEF TypeOK
  <1>b. ASSUME NEW p \in Proc
        PROVE  /\ IsFiniteSet(wrote[p]) /\ wrote[p] \subseteq Block
               /\ W(p) \in Nat /\ W(p) <= M
    BY FS_CardinalityType DEF CountInv, TypeOK
  <1>c. ASSUME NEW A \in SUBSET Active
        PROVE  /\ IsFiniteSet(A) /\ IsFiniteSet(Charged(A, wrote))
               /\ Cardinality(A) \in Nat
               /\ Rest(A) \in Nat /\ Rest(A) <= Cardinality(A) * M
    <2>1. IsFiniteSet(A) /\ A \subseteq Proc
      BY ActiveFinite, FS_Subset
    <2> QED
      BY <1>a, <2>1, ChargedBound, FS_CardinalityType DEF CountInv
  <1>d. Len(lh) + outstanding * M <= LOGSIZE + Rest(Active)
    BY DEF RoomInv
  <1>e. outstanding = Cardinality(Active)
    BY DEF CountInv
  <1>f. outstanding * M \in Nat
    BY <1>a
  <1>1. Len(lh) <= LOGSIZE
    <2>1. Rest(Active) \in Nat /\ Rest(Active) <= outstanding * M
      BY <1>c, <1>e
    <2> HIDE DEF M, Rest
    <2> QED
      BY <1>a, <1>d, <1>f, <2>1
  <1>2. ASSUME NEW p \in Active
        PROVE  Len(lh) + (M - W(p)) <= LOGSIZE
    <2>1. p \in Proc
      BY DEF Active
    <2>2. Cardinality(Active \ {p}) = outstanding - 1
      BY <1>e, ActiveFinite, FS_RemoveElement
    <2>3. /\ Rest(Active \ {p}) \in Nat
          /\ Rest(Active \ {p}) <= (outstanding - 1) * M
      BY <1>c, <2>2
    <2>4. Rest(Active) = Rest(Active \ {p}) + W(p)
      BY <1>b, <1>c, <2>1, ChargedSplit
    <2>5. (outstanding - 1) * M = outstanding * M - M
      BY <1>a
    <2>6. W(p) \in Nat
      BY <1>b, <2>1
    <2> HIDE DEF M, Rest, W
    <2> QED
      BY <1>a, <1>d, <1>f, <2>3, <2>4, <2>5, <2>6
  <1>3. Reserved
    BY <1>1, <1>d, <1>e DEF Reserved
  <1> QED
    BY <1>1, <1>2, <1>3

(***************************************************************************)
(* The steps                                                               *)
(***************************************************************************)

\* Every step keeps the types; the header does not outgrow LOGSIZE and names
\* a block once.
LEMMA TypeStep ==
    ASSUME LogInv, [Next]_vars
    PROVE  TypeOK'
  <1>t. TypeOK /\ CountInv /\ RoomInv /\ CommitInv /\ DiskInv
    BY DEF LogInv
  <1>a. /\ MAXOPBLOCKS \in Nat \ {0} /\ LOGSIZE \in Nat
        /\ MAXOPBLOCKS <= LOGSIZE
    BY LogAssumption
  <1>1. ASSUME NEW p \in Proc, BeginCall(p) PROVE TypeOK'
    BY <1>t, <1>1 DEF TypeOK, BeginCall, disk
  <1>2. ASSUME NEW p \in Proc, BeginWait(p) PROVE TypeOK'
    BY <1>t, <1>2 DEF TypeOK, BeginWait, disk
  <1>3. ASSUME NEW p \in Proc, BeginGo(p) PROVE TypeOK'
    BY <1>t, <1>3 DEF TypeOK, BeginGo, disk
  <1>4. ASSUME NEW p \in Proc, LogCheck(p) \/ LogPanic(p) PROVE TypeOK'
    BY <1>t, <1>4 DEF TypeOK, LogCheck, LogPanic, disk
  <1>5. ASSUME NEW p \in Proc, EndOp(p) PROVE TypeOK'
    <2>1. outstanding' \in Nat
      <3>1. p \in Active /\ outstanding = Cardinality(Active)
        BY <1>5, <1>t, ActiveChange DEF CountInv
      <3>2. outstanding # 0 /\ outstanding \in Nat
        BY <1>t, <3>1, ActiveFinite, FS_EmptySet DEF TypeOK
      <3> QED
        BY <1>5, <3>2 DEF EndOp
    <2>2. pc' \in [Proc -> {"idle", "begin", "sleep", "op", "log", "panic",
                            "commit"}]
      BY <1>5, <1>t DEF TypeOK, EndOp, Wake
    <2>3. wrote' \in [Proc -> SUBSET Block]
      BY <1>5, <1>t DEF TypeOK, EndOp
    <2>4. committing' \in BOOLEAN
      BY <1>5, <1>t DEF TypeOK, EndOp
    <2>5. /\ phase' \in {"none", "log", "head", "install", "clear", "done"}
          /\ tail' \in 1 .. LOGSIZE + 1
      BY <1>5, <1>t, <1>a DEF TypeOK, EndOp, CommitStart
    <2> QED
      BY <1>5, <1>t, <2>1, <2>2, <2>3, <2>4, <2>5 DEF TypeOK, EndOp, disk
  <1>6. ASSUME NEW p \in Proc, EndCommit(p) PROVE TypeOK'
    <2>1. pc' \in [Proc -> {"idle", "begin", "sleep", "op", "log", "panic",
                            "commit"}]
      BY <1>6, <1>t DEF TypeOK, EndCommit, Wake
    <2> QED
      BY <1>6, <1>t, <2>1 DEF TypeOK, EndCommit, disk
  <1>7. ASSUME NEW p \in Proc, NEW b \in Block, NEW v \in Val,
               LogWrite(p, b, v)
        PROVE  TypeOK'
    <2>1. lh' \in Seq(Block) /\ Distinct(lh')
      BY <1>7, <1>t, AbsorbFacts DEF LogWrite, TypeOK
    <2>2. Len(lh') <= LOGSIZE
      <3>1. CASE b \in wrote[p]
        BY <1>7, <1>t, <3>1, AbsorbFacts DEF LogWrite, TypeOK, CountInv
      <3>2. CASE b \notin wrote[p]
        <4>1. Cardinality(wrote[p]) \in Nat
          BY <1>t, FS_CardinalityType DEF CountInv
        <4>2. Cardinality(wrote[p]) < MAXOPBLOCKS
          BY <1>7, <3>2 DEF LogWrite
        <4>3. Len(lh) + (MAXOPBLOCKS - Cardinality(wrote[p])) <= LOGSIZE
          BY <1>7, <1>t, RoomForAll, ActiveChange
        <4>4. /\ Len(lh) \in Nat /\ Len(lh') \in Nat
              /\ Len(lh') <= Len(lh) + 1
          BY <1>7, <1>t, AbsorbFacts DEF LogWrite, TypeOK
        <4> QED
          BY <1>a, <4>1, <4>2, <4>3, <4>4
      <3> QED
        BY <3>1, <3>2
    <2>3. wrote' \in [Proc -> SUBSET Block] /\ dirty' \subseteq Block
      BY <1>7, <1>t DEF LogWrite, Pin, TypeOK
    <2>4. /\ cache' \in [Block -> Val]
          /\ pc' \in [Proc -> {"idle", "begin", "sleep", "op", "log", "panic",
                               "commit"}]
      BY <1>7, <1>t DEF LogWrite, TypeOK
    <2> QED
      BY <1>7, <1>t, <2>1, <2>2, <2>3, <2>4 DEF TypeOK, LogWrite, disk
  <1>8. CASE WriteLog
    <2>1. /\ lh \in Seq(Block) /\ tail \in 1 .. Len(lh) /\ tail \in Slot
          /\ Len(lh) \in Nat /\ Len(lh) <= LOGSIZE
      BY <1>8, <1>t, <1>a DEF WriteLog, TypeOK, Slot
    <2>2. logged' \in [Slot -> Val]
      BY <1>8, <1>t, <2>1 DEF WriteLog, TypeOK
    <2>3. tail' \in 1 .. LOGSIZE + 1
      BY <1>8, <1>a, <2>1 DEF WriteLog, NextTail
    <2> QED
      BY <1>8, <1>t, <2>2, <2>3 DEF TypeOK, WriteLog, ops
  <1>9. CASE WriteHead
    BY <1>9, <1>t, <1>a DEF TypeOK, WriteHead, ops
  <1>10. CASE Install
    <2>1. /\ lh \in Seq(Block) /\ tail \in 1 .. Len(lh) /\ tail \in Slot
          /\ Len(lh) \in Nat /\ Len(lh) <= LOGSIZE
      BY <1>10, <1>t, <1>a DEF Install, TypeOK, Slot
    <2>2. home' \in [Block -> Val] /\ cache' \in [Block -> Val]
      BY <1>10, <1>t, <2>1 DEF Install, TypeOK
    <2>3. tail' \in 1 .. LOGSIZE + 1
      BY <1>10, <1>a, <2>1 DEF Install, NextTail
    <2> QED
      BY <1>10, <1>t, <2>2, <2>3 DEF TypeOK, Install, ops
  <1>11. CASE InstallEnd
    BY <1>11, <1>t DEF TypeOK, InstallEnd, disk, ops
  <1>12. CASE ClearHead
    <2>1. lh' = <<>> /\ head' = <<>> /\ tail' \in 1 .. LOGSIZE + 1
      BY <1>12, <1>a DEF ClearHead
    <2>2. <<>> \in Seq(Block) /\ Len(<<>>) <= LOGSIZE /\ Distinct(<<>>)
      BY <1>a DEF Distinct
    <2>3. booting' \in BOOLEAN
      BY <1>12 DEF ClearHead
    <2>4. phase' \in {"none", "log", "head", "install", "clear", "done"}
      BY <1>12 DEF ClearHead
    <2>5. UNCHANGED <<home, logged, cache, dirty, outstanding, committing, pc,
                      wrote>>
      BY <1>12 DEF ClearHead, ops
    <2> QED
      BY <1>t, <2>1, <2>2, <2>3, <2>4, <2>5 DEF TypeOK
  <1>13. ASSUME NEW b \in Block, Evict(b) PROVE TypeOK'
    BY <1>13, <1>t DEF TypeOK, Evict, disk, ops
  <1>14. CASE Crash
    <2>1. committing' \in BOOLEAN /\ booting' \in BOOLEAN
      BY <1>14 DEF Crash
    <2>2. tail' \in 1 .. LOGSIZE + 1 /\ outstanding' \in Nat
      BY <1>14, <1>a DEF Crash
    <2>3. /\ pc' \in [Proc -> {"idle", "begin", "sleep", "op", "log", "panic",
                               "commit"}]
          /\ wrote' \in [Proc -> SUBSET Block]
      BY <1>14 DEF Crash
    <2>4. /\ UNCHANGED <<home, logged, head>> /\ cache' = home /\ dirty' = {}
          /\ lh' = head /\ phase' = "install"
      BY <1>14 DEF Crash, disk
    <2> QED
      BY <1>t, <2>1, <2>2, <2>3, <2>4 DEF TypeOK
  <1>15. CASE UNCHANGED vars
    BY <1>15, <1>t DEF TypeOK, vars, disk, ops
  <1> QED
    BY <1>1, <1>2, <1>3, <1>4, <1>5, <1>6, <1>7, <1>8, <1>9, <1>10, <1>11,
       <1>12, <1>13, <1>14, <1>15
    DEF Next, Begin, Commit

\* One process commits at a time, with no operation in progress.
LEMMA CommitStepInv ==
    ASSUME LogInv, [Next]_vars
    PROVE  CommitInv'
  <1>t. TypeOK /\ CountInv /\ CommitInv /\ CountInv'
    BY CountStep DEF LogInv
  <1>1. ASSUME NEW p \in Proc, BeginCall(p) \/ BeginWait(p) \/ LogCheck(p)
                                \/ LogPanic(p)
        PROVE  CommitInv'
    BY <1>1, <1>t
    DEF CommitInv, BeginCall, BeginWait, LogCheck, LogPanic, TypeOK
  <1>2. ASSUME NEW p \in Proc, BeginGo(p) PROVE CommitInv'
    BY <1>2, <1>t DEF CommitInv, BeginGo, TypeOK, MustWait
  <1>3. ASSUME NEW p \in Proc, NEW b \in Block, NEW v \in Val,
               LogWrite(p, b, v)
        PROVE  CommitInv'
    BY <1>3, <1>t DEF CommitInv, LogWrite, TypeOK
  <1>4. ASSUME NEW p \in Proc, EndOp(p) PROVE CommitInv'
    <2>1. ~committing
      <3>1. p \in Active
        BY <1>4, <1>t, ActiveChange
      <3> QED
        BY <1>t, <3>1, ActiveFinite, FS_EmptySet DEF CommitInv, CountInv
    <2>2. \A q \in Proc : pc[q] # "commit"
      BY <1>t, <2>1 DEF CommitInv
    <2>3. CASE outstanding' = 0
      <3>1. /\ committing' = TRUE /\ pc' = [pc EXCEPT ![p] = "commit"]
            /\ phase' = CommitStart /\ booting' = booting /\ ~booting
        BY <1>4, <2>3 DEF EndOp
      <3>2. phase' # "none"
        BY <3>1 DEF CommitStart
      <3>3. \A q \in Proc : pc'[q] = "commit" <=> q = p
        BY <1>t, <2>2, <3>1 DEF TypeOK
      <3> QED
        BY <2>3, <3>1, <3>2, <3>3 DEF CommitInv
    <2>4. CASE outstanding' # 0
      <3>1. /\ committing' = committing /\ phase' = phase
            /\ booting' = booting /\ ~booting
            /\ pc' = Wake([pc EXCEPT ![p] = "idle"])
        BY <1>4, <2>4 DEF EndOp
      <3>2. \A q \in Proc : pc'[q] # "commit"
        BY <1>t, <2>2, <3>1 DEF TypeOK, Wake
      <3> QED
        BY <1>t, <2>1, <3>1, <3>2 DEF CommitInv
    <2> QED
      BY <2>3, <2>4
  <1>5. ASSUME NEW p \in Proc, EndCommit(p) PROVE CommitInv'
    <2>1. \A q \in Proc : pc'[q] # "commit"
      BY <1>5, <1>t DEF EndCommit, CommitInv, TypeOK, Wake
    <2> QED
      BY <1>5, <1>t, <2>1 DEF CommitInv, EndCommit
  <1>6. CASE WriteLog \/ WriteHead \/ Install \/ InstallEnd
    BY <1>6, <1>t
    DEF CommitInv, WriteLog, WriteHead, Install, InstallEnd, ops
  <1>7. CASE ClearHead
    <2>1. booting' = FALSE /\ UNCHANGED <<committing, outstanding, pc>>
      BY <1>7 DEF ClearHead, ops
    <2>2. booting => phase' = "none" /\ ~committing
      BY <1>7, <1>t DEF ClearHead, CommitInv
    <2>3. ~booting => phase' = "done" /\ committing
      BY <1>7, <1>t DEF ClearHead, CommitInv
    <2> QED
      BY <1>t, <2>1, <2>2, <2>3 DEF CommitInv
  <1>8. ASSUME NEW b \in Block, Evict(b) PROVE CommitInv'
    BY <1>8, <1>t DEF CommitInv, Evict, ops
  <1>9. CASE Crash
    <2>1. /\ ~committing' /\ booting' /\ phase' = "install"
          /\ \A p \in Proc : pc'[p] = "idle"
      BY <1>9 DEF Crash
    <2> QED
      BY <2>1 DEF CommitInv
  <1>10. CASE UNCHANGED vars
    BY <1>10, <1>t DEF CommitInv, vars, ops
  <1> QED
    BY <1>1, <1>2, <1>3, <1>4, <1>5, <1>6, <1>7, <1>8, <1>9, <1>10
    DEF Next, Begin, Commit

\* Memory, log and home blocks keep their relation at every disk write and at
\* every crash.
LEMMA DiskStep ==
    ASSUME LogInv, [Next]_vars
    PROVE  DiskInv'
  <1>t. TypeOK /\ CountInv /\ CommitInv /\ DiskInv
    BY DEF LogInv
  <1>a. /\ lh \in Seq(Block) /\ Len(lh) \in Nat /\ Distinct(lh)
        /\ \A i \in 1 .. Len(lh) : lh[i] \in Block
        /\ Len(lh) <= LOGSIZE /\ LOGSIZE \in Nat /\ tail \in Nat \ {0}
        /\ cache \in [Block -> Val] /\ home \in [Block -> Val]
        /\ logged \in [Slot -> Val]
    BY <1>t, LogAssumption DEF TypeOK
  <1>b. ASSUME NEW p \in Active PROVE phase = "none" /\ outstanding # 0
    BY <1>t, QuietCommit, ActiveFinite, FS_EmptySet DEF CountInv
  <1>1. ASSUME UNCHANGED <<home, logged, head, cache, dirty, lh, phase, tail,
                           booting>>,
               outstanding' = outstanding \/ outstanding' # 0
        PROVE  DiskInv'
    BY <1>1, <1>t DEF DiskInv
  <1>2. ASSUME NEW p \in Proc, BeginCall(p) \/ BeginWait(p) \/ LogCheck(p)
                                \/ LogPanic(p)
        PROVE  DiskInv'
    BY <1>1, <1>2 DEF BeginCall, BeginWait, LogCheck, LogPanic, disk
  <1>3. ASSUME NEW p \in Proc, BeginGo(p) PROVE DiskInv'
    <2>1. outstanding' # 0
      BY <1>3, <1>t DEF BeginGo, TypeOK
    <2> QED
      BY <1>1, <1>3, <2>1 DEF BeginGo, disk
  <1>4. ASSUME NEW p \in Proc, NEW b \in Block, NEW v \in Val,
               LogWrite(p, b, v)
        PROVE  DiskInv'
    <2>1. phase = "none" /\ outstanding # 0
      BY <1>4, <1>t, <1>b, ActiveChange
    <2>2. head = <<>> /\ dirty = Entries(lh)
      BY <1>t, <2>1 DEF DiskInv
    <2>3. dirty' = Entries(lh')
      BY <1>4, <1>a, <2>2, AbsorbFacts DEF LogWrite, Pin
    <2>4. \A c \in Block \ dirty' : cache'[c] = home'[c]
      BY <1>4, <1>a, <1>t DEF LogWrite, Pin, DiskInv, disk
    <2>5. phase' = "none" /\ outstanding' # 0 /\ head' = <<>>
      BY <1>4, <2>1, <2>2 DEF LogWrite, disk
    <2> QED
      BY <2>3, <2>4, <2>5 DEF DiskInv
  <1>5. ASSUME NEW p \in Proc, EndOp(p) PROVE DiskInv'
    <2>1. phase = "none" /\ head = <<>> /\ dirty = Entries(lh)
      BY <1>5, <1>t, <1>b, ActiveChange DEF DiskInv
    <2>2. UNCHANGED <<home, logged, head, cache, dirty, lh, booting>>
      BY <1>5 DEF EndOp, disk
    <2>3. CASE outstanding' # 0
      BY <1>1, <1>5, <2>2, <2>3 DEF EndOp
    <2>4. CASE outstanding' = 0 /\ lh = <<>>
      <3>1. phase' = "done" /\ dirty = {}
        BY <1>5, <2>1, <2>4, EntriesEmpty DEF EndOp, CommitStart
      <3> QED
        BY <1>t, <2>1, <2>2, <2>4, <3>1 DEF DiskInv
    <2>5. CASE outstanding' = 0 /\ lh # <<>>
      <3>1. phase' = "log" /\ tail' = 1
        BY <1>5, <2>5 DEF EndOp, CommitStart
      <3>2. tail' <= Len(lh)
        BY <1>a, <2>5, <3>1
      <3> QED
        BY <1>t, <2>1, <2>2, <3>1, <3>2 DEF DiskInv
    <2> QED
      BY <2>3, <2>4, <2>5
  <1>6. ASSUME NEW p \in Proc, EndCommit(p) PROVE DiskInv'
    <2>1. lh = <<>> /\ head = <<>> /\ dirty = {}
      BY <1>6, <1>t DEF DiskInv, EndCommit
    <2>2. phase' = "none" /\ UNCHANGED <<home, logged, head, cache, dirty, lh>>
      BY <1>6 DEF EndCommit, disk
    <2> QED
      BY <1>t, <2>1, <2>2, EntriesEmpty DEF DiskInv
  <1>7. CASE WriteLog
    <2>1. /\ tail \in 1 .. Len(lh) /\ tail \in Slot /\ head = <<>>
          /\ dirty = Entries(lh)
          /\ \A i \in 1 .. tail - 1 : logged[i] = cache[lh[i]]
      BY <1>7, <1>a, <1>t DEF WriteLog, DiskInv, Slot
    <2>2. /\ UNCHANGED <<home, head, cache, dirty, lh>>
          /\ logged' = [logged EXCEPT ![tail] = cache[lh[tail]]]
          /\ tail' = tail + 1
          /\ phase' = IF tail' <= Len(lh) THEN "log" ELSE "head"
      BY <1>7 DEF WriteLog, NextTail
    <2>3. \A i \in 1 .. tail : logged'[i] = cache'[lh'[i]]
      <3> SUFFICES ASSUME NEW i \in 1 .. tail
                   PROVE  logged'[i] = cache[lh[i]]
        BY <2>2
      <3>1. i \in Slot
        BY <1>a, <2>1 DEF Slot
      <3> QED
        BY <1>a, <2>1, <2>2, <3>1
    <2>4. CASE tail' <= Len(lh)
      BY <1>a, <1>t, <2>1, <2>2, <2>3, <2>4 DEF DiskInv
    <2>5. CASE ~(tail' <= Len(lh))
      <3>1. tail = Len(lh)
        BY <1>a, <2>1, <2>2, <2>5
      <3> QED
        BY <1>t, <2>1, <2>2, <2>3, <2>5, <3>1 DEF DiskInv
    <2> QED
      BY <2>4, <2>5
  <1>8. CASE WriteHead
    <2>1. /\ dirty = Entries(lh) /\ ~booting
          /\ \A i \in 1 .. Len(lh) : logged[i] = cache[lh[i]]
      BY <1>8, <1>t DEF WriteHead, DiskInv, CommitInv
    <2>2. /\ head' = lh /\ phase' = "install" /\ tail' = 1
          /\ UNCHANGED <<home, logged, cache, dirty, lh, booting>>
      BY <1>8 DEF WriteHead
    <2> QED
      BY <1>a, <1>t, <2>1, <2>2 DEF DiskInv, Entries
  <1>9. CASE Install
    <2>1. /\ tail \in 1 .. Len(lh) /\ tail \in Slot
          /\ head = lh
          /\ \A i \in 1 .. tail - 1 : home[lh[i]] = logged[i]
          /\ ~booting => \A i \in 1 .. Len(lh) : cache[lh[i]] = logged[i]
          /\ dirty \subseteq {lh[i] : i \in tail .. Len(lh)}
          /\ booting => dirty = {}
      BY <1>9, <1>a, <1>t DEF Install, DiskInv, Slot
    <2>2. /\ home' = [home EXCEPT ![lh[tail]] = logged[tail]]
          /\ cache' = [cache EXCEPT ![lh[tail]] = logged[tail]]
          /\ dirty' = dirty \ {lh[tail]}
          /\ tail' = tail + 1 /\ phase' = "install"
          /\ UNCHANGED <<logged, head, lh, booting>>
      BY <1>9 DEF Install, NextTail
    <2>3. \A i \in 1 .. Len(lh) : i # tail => lh[i] # lh[tail]
      BY <1>a, <2>1 DEF Distinct
    <2>4. \A i \in 1 .. tail : home'[lh[i]] = logged[i]
      <3> SUFFICES ASSUME NEW i \in 1 .. tail PROVE home'[lh[i]] = logged[i]
        OBVIOUS
      <3>1. i \in 1 .. Len(lh) /\ lh[i] \in Block /\ lh[tail] \in Block
        BY <1>a, <2>1
      <3>2. CASE i = tail
        BY <1>a, <2>2, <3>1, <3>2
      <3>3. CASE i # tail
        BY <1>a, <2>1, <2>2, <2>3, <3>1, <3>3
      <3> QED
        BY <3>2, <3>3
    <2>5. ~booting => \A i \in 1 .. Len(lh) : cache'[lh[i]] = logged[i]
      BY <1>a, <2>1, <2>2
    <2>6. dirty' \subseteq {lh[i] : i \in tail + 1 .. Len(lh)}
      BY <1>a, <2>1, <2>2
    <2>7. \A b \in Block \ dirty' : cache'[b] = home'[b]
      BY <1>a, <1>t, <2>1, <2>2 DEF DiskInv
    <2>8. tail' <= Len(lh) + 1
      BY <1>a, <2>1, <2>2
    <2>9. tail' - 1 = tail
      BY <1>a, <2>2
    <2>10. booting => dirty' = {}
      BY <2>1, <2>2
    <2> QED
      BY <2>1, <2>2, <2>4, <2>5, <2>6, <2>7, <2>8, <2>9, <2>10 DEF DiskInv
  <1>10. CASE InstallEnd
    <2>1. tail = Len(lh) + 1 /\ phase = "install"
      BY <1>10, <1>a, <1>t DEF InstallEnd, DiskInv
    <2>2. /\ phase' = "clear"
          /\ UNCHANGED <<home, logged, head, cache, dirty, lh>>
      BY <1>10 DEF InstallEnd, disk
    <2>3. dirty = {}
      BY <1>a, <1>t, <2>1 DEF DiskInv
    <2>4. head = lh /\ \A i \in 1 .. Len(lh) : home[lh[i]] = logged[i]
      BY <1>a, <1>t, <2>1 DEF DiskInv
    <2> QED
      BY <1>t, <2>2, <2>3, <2>4 DEF DiskInv
  <1>11. CASE ClearHead
    <2>1. dirty = {}
      BY <1>11, <1>t DEF ClearHead, DiskInv
    <2>2. /\ lh' = <<>> /\ head' = <<>> /\ phase' \in {"none", "done"}
          /\ UNCHANGED <<home, logged, cache, dirty>>
      BY <1>11 DEF ClearHead
    <2> QED
      BY <1>t, <2>1, <2>2, EntriesEmpty DEF DiskInv
  <1>12. ASSUME NEW b \in Block, Evict(b) PROVE DiskInv'
    <2>1. cache' = cache
      BY <1>12, <1>a, <1>t DEF Evict, DiskInv
    <2> QED
      BY <1>1, <1>12, <2>1 DEF Evict, disk, ops
  <1>13. CASE Crash
    <2>1. /\ UNCHANGED <<home, logged, head>> /\ cache' = home /\ dirty' = {}
          /\ lh' = head /\ phase' = "install" /\ tail' = 1 /\ booting' = TRUE
      BY <1>13 DEF Crash, disk
    <2>2. Len(head) \in Nat
      BY <1>t DEF TypeOK
    <2> QED
      BY <2>1, <2>2 DEF DiskInv
  <1>14. CASE UNCHANGED vars
    BY <1>1, <1>14 DEF vars, disk, ops
  <1> QED
    BY <1>2, <1>3, <1>4, <1>5, <1>6, <1>7, <1>8, <1>9, <1>10, <1>11, <1>12,
       <1>13, <1>14
    DEF Next, Begin, Commit

\* A process sleeps in begin_op only while it must: whoever makes room, or
\* ends a commit, wakes it.
LEMMA WakeStep ==
    ASSUME LogInv, [Next]_vars
    PROVE  NoLostWakeup'
  <1>t. TypeOK /\ CommitInv /\ NoLostWakeup
    BY DEF LogInv
  <1>a. /\ MAXOPBLOCKS \in Nat /\ LOGSIZE \in Nat /\ outstanding \in Nat
        /\ lh \in Seq(Block) /\ Len(lh) \in Nat
    BY <1>t, LogAssumption DEF TypeOK
  <1>1. ASSUME UNCHANGED <<lh, outstanding, committing>>,
               \A p \in Proc : pc'[p] = "sleep" => pc[p] = "sleep"
        PROVE  NoLostWakeup'
    BY <1>1, <1>t DEF NoLostWakeup, MustWait
  <1>2. ASSUME \A p \in Proc : pc'[p] # "sleep" PROVE NoLostWakeup'
    BY <1>2 DEF NoLostWakeup
  <1>3. ASSUME NEW p \in Proc, BeginCall(p) \/ LogCheck(p) \/ LogPanic(p)
        PROVE  NoLostWakeup'
    BY <1>1, <1>3, <1>t DEF BeginCall, LogCheck, LogPanic, TypeOK
  <1>4. ASSUME NEW p \in Proc, BeginWait(p) PROVE NoLostWakeup'
    BY <1>4, <1>t DEF BeginWait, NoLostWakeup, MustWait, TypeOK
  <1>5. ASSUME NEW p \in Proc, BeginGo(p) PROVE NoLostWakeup'
    <2>1. /\ outstanding' = outstanding + 1 /\ lh' = lh
          /\ committing' = committing
          /\ \A q \in Proc : pc'[q] = "sleep" => pc[q] = "sleep"
      BY <1>5, <1>t DEF BeginGo, TypeOK
    <2>2. (outstanding + 2) * MAXOPBLOCKS >= (outstanding + 1) * MAXOPBLOCKS
      BY <1>a
    <2>3. /\ (outstanding + 2) * MAXOPBLOCKS \in Nat
          /\ (outstanding + 1) * MAXOPBLOCKS \in Nat
          /\ outstanding' + 1 = outstanding + 2
      BY <1>a, <2>1
    <2>4. MustWait => MustWait'
      BY <1>a, <2>1, <2>2, <2>3 DEF MustWait
    <2> QED
      BY <1>t, <2>1, <2>4 DEF NoLostWakeup
  <1>6. ASSUME NEW p \in Proc, NEW b \in Block, NEW v \in Val,
               LogWrite(p, b, v)
        PROVE  NoLostWakeup'
    <2>1. /\ outstanding' = outstanding /\ committing' = committing
          /\ \A q \in Proc : pc'[q] = "sleep" => pc[q] = "sleep"
      BY <1>6, <1>t DEF LogWrite, TypeOK
    <2>2. Len(lh') \in Nat /\ Len(lh') >= Len(lh)
      BY <1>6, <1>t, AbsorbFacts DEF LogWrite, TypeOK
    <2>3. (outstanding + 1) * MAXOPBLOCKS \in Nat
      BY <1>a
    <2>4. MustWait => MustWait'
      BY <1>a, <2>1, <2>2, <2>3 DEF MustWait
    <2> QED
      BY <1>t, <2>1, <2>4 DEF NoLostWakeup
  <1>7. ASSUME NEW p \in Proc, EndOp(p) PROVE NoLostWakeup'
    <2>1. CASE outstanding' = 0
      BY <1>7, <2>1 DEF EndOp, NoLostWakeup, MustWait
    <2>2. CASE outstanding' # 0
      BY <1>2, <1>7, <1>t, <2>2 DEF EndOp, Wake, TypeOK
    <2> QED
      BY <2>1, <2>2
  <1>8. ASSUME NEW p \in Proc, EndCommit(p) PROVE NoLostWakeup'
    BY <1>2, <1>8, <1>t DEF EndCommit, Wake, TypeOK
  <1>9. CASE WriteLog \/ WriteHead \/ Install \/ InstallEnd
    BY <1>1, <1>9 DEF WriteLog, WriteHead, Install, InstallEnd, ops
  <1>10. CASE ClearHead
    <2>1. CASE booting
      BY <1>2, <1>10, <1>t, <2>1 DEF ClearHead, CommitInv, ops
    <2>2. CASE ~booting
      BY <1>10, <1>t, <2>2
      DEF ClearHead, CommitInv, ops, NoLostWakeup, MustWait
    <2> QED
      BY <2>1, <2>2
  <1>11. ASSUME NEW b \in Block, Evict(b) PROVE NoLostWakeup'
    BY <1>1, <1>11 DEF Evict, ops
  <1>12. CASE Crash
    BY <1>2, <1>12 DEF Crash
  <1>13. CASE UNCHANGED vars
    BY <1>1, <1>13 DEF vars, ops
  <1> QED
    BY <1>3, <1>4, <1>5, <1>6, <1>7, <1>8, <1>9, <1>10, <1>11, <1>12, <1>13
    DEF Next, Begin, Commit

(***************************************************************************)
(* Safety                                                                  *)
(***************************************************************************)

\* The inductive invariant holds on the image that mkfs made.
LEMMA LogInit == Init => LogInv
  <1> SUFFICES ASSUME Init PROVE LogInv
    OBVIOUS
  <1>1. Active = {} /\ Charged(Active, wrote) = {}
    BY DEF Init, Active, Charged
  <1>2. IsFiniteSet({}) /\ Cardinality({}) = 0
    BY FS_EmptySet
  <1>3. /\ home \in [Block -> Val] /\ cache = home
        /\ head = <<>> /\ lh = <<>> /\ dirty = {} /\ outstanding = 0
        /\ phase = "none" /\ tail = 1
        /\ \A p \in Proc : pc[p] = "idle" /\ wrote[p] = {}
    BY DEF Init
  <1>4. TypeOK
    <2>1. logged \in [Slot -> Val]
      BY DEF Init
    <2>2. tail \in 1 .. LOGSIZE + 1 /\ Len(<<>>) <= LOGSIZE
      BY <1>3, LogAssumption
    <2>3. committing \in BOOLEAN /\ booting \in BOOLEAN
      BY DEF Init
    <2>4. /\ pc \in [Proc -> {"idle", "begin", "sleep", "op", "log", "panic",
                              "commit"}]
          /\ wrote \in [Proc -> SUBSET Block]
      BY DEF Init
    <2>5. <<>> \in Seq(Block) /\ Distinct(<<>>)
      BY DEF Distinct
    <2> QED
      BY <1>3, <2>1, <2>2, <2>3, <2>4, <2>5 DEF TypeOK
  <1>5. CountInv
    <2>1. outstanding = Cardinality(Active)
      BY <1>1, <1>2, <1>3
    <2>2. ASSUME NEW p \in Proc
          PROVE  /\ IsFiniteSet(wrote[p]) /\ Cardinality(wrote[p]) = 0
                 /\ wrote[p] = {}
      BY <1>2, <1>3
    <2>3. 0 <= MAXOPBLOCKS
      BY LogAssumption
    <2> QED
      BY <2>1, <2>2, <2>3 DEF CountInv
  <1>6. RoomInv
    <2>1. Cardinality(Charged(Active, wrote)) = 0
      BY <1>1, <1>2
    <2>2. Len(lh) = 0 /\ outstanding = 0
      BY <1>3
    <2> QED
      BY <2>1, <2>2, LogAssumption DEF RoomInv
  <1>7. CommitInv
    <2>1. committing = FALSE /\ booting = FALSE
      BY DEF Init
    <2> QED
      BY <1>3, <2>1 DEF CommitInv
  <1>8. DiskInv
    BY <1>3, EntriesEmpty DEF DiskInv
  <1>9. NoLostWakeup
    BY <1>3 DEF NoLostWakeup
  <1> QED
    BY <1>4, <1>5, <1>6, <1>7, <1>8, <1>9 DEF LogInv

\* Every step keeps the inductive invariant.
LEMMA LogStep == LogInv /\ [Next]_vars => LogInv'
  BY TypeStep, CountStep, RoomStep, CommitStepInv, DiskStep, WakeStep
  DEF LogInv

\* The inductive invariant holds in every reachable state.
LEMMA LogInvariance == Spec => []LogInv
  BY LogInit, LogStep, PTL DEF Spec

(***************************************************************************)
(* What recovery makes of a disk                                           *)
(***************************************************************************)

\* Recovered, of home blocks hm, log blocks lg and header hd.
RecoveredOf(hm, lg, hd) ==
    [b \in Block |->
        IF \E i \in 1 .. Len(hd) : hd[i] = b
        THEN lg[CHOOSE i \in 1 .. Len(hd) : hd[i] = b]
        ELSE hm[b]]

\* Recovery takes the blocks in the header from the log, the others from
\* their home.
LEMMA RecoveredFacts ==
    ASSUME NEW hm, NEW lg, NEW hd \in Seq(Block), Distinct(hd)
    PROVE  LET r == RecoveredOf(hm, lg, hd)
           IN  /\ r = [b \in Block |-> r[b]]
               /\ \A i \in 1 .. Len(hd) : r[hd[i]] = lg[i]
               /\ \A b \in Block \ Entries(hd) : r[b] = hm[b]
  <1> DEFINE r == RecoveredOf(hm, lg, hd)
  <1>1. r = [b \in Block |-> r[b]]
    BY DEF RecoveredOf
  <1>2. ASSUME NEW i \in 1 .. Len(hd) PROVE r[hd[i]] = lg[i]
    <2> DEFINE j == CHOOSE k \in 1 .. Len(hd) : hd[k] = hd[i]
    <2>1. j \in 1 .. Len(hd) /\ hd[j] = hd[i]
      OBVIOUS
    <2>2. j = i
      BY <2>1 DEF Distinct
    <2>3. hd[i] \in Block
      OBVIOUS
    <2>4. r[hd[i]] = lg[j]
      BY <2>3 DEF RecoveredOf
    <2> QED
      BY <2>2, <2>4
  <1>3. ASSUME NEW b \in Block \ Entries(hd) PROVE r[b] = hm[b]
    BY DEF RecoveredOf, Entries
  <1> QED
    BY <1>1, <1>2, <1>3

\* A disk with an empty header needs no recovery.
LEMMA RecoveredEmpty ==
    ASSUME NEW hm \in [Block -> Val], NEW lg
    PROVE  RecoveredOf(hm, lg, <<>>) = hm
  BY DEF RecoveredOf

\* Two disks with the same header and log, and the same home blocks outside
\* of it, recover alike.
LEMMA RecoveredSame ==
    ASSUME NEW hm, NEW hn, NEW lg, NEW hd \in Seq(Block), Distinct(hd),
           \A b \in Block \ Entries(hd) : hm[b] = hn[b]
    PROVE  RecoveredOf(hm, lg, hd) = RecoveredOf(hn, lg, hd)
  BY DEF RecoveredOf, Entries

\* When every block in the header is as the log has it in f, and every other
\* one is at home as in f, recovery makes f.
LEMMA RecoveredIs ==
    ASSUME NEW hm, NEW lg, NEW hd \in Seq(Block), Distinct(hd),
           NEW f \in [Block -> Val],
           \A i \in 1 .. Len(hd) : f[hd[i]] = lg[i],
           \A b \in Block \ Entries(hd) : f[b] = hm[b]
    PROVE  RecoveredOf(hm, lg, hd) = f
  <1> DEFINE r == RecoveredOf(hm, lg, hd)
  <1>1. ASSUME NEW b \in Block PROVE r[b] = f[b]
    <2>1. CASE b \in Entries(hd)
      <3>1. PICK i \in 1 .. Len(hd) : b = hd[i]
        BY <2>1 DEF Entries
      <3> QED
        BY <3>1, RecoveredFacts
    <2>2. CASE b \notin Entries(hd)
      BY <2>2, RecoveredFacts
    <2> QED
      BY <2>1, <2>2
  <1>2. r = [b \in Block |-> r[b]]
    BY RecoveredFacts
  <1> HIDE DEF r
  <1>3. r = f
    BY <1>1, <1>2
  <1> QED
    BY <1>3 DEF r

\* For any number of processes and any size of the log: begin_op's
\* reservation covers all that log_write enters, a group is committed with no
\* operation open, and at rest, after recovery included, nothing is pending.
THEOREM LogSafe == Spec => []LogSound
<1>1. LogInv => LogSound
  <2> SUFFICES ASSUME LogInv PROVE LogSound
    OBVIOUS
  <2>1. TypeOK /\ Reserved
    BY RoomForAll DEF LogInv
  <2>2. CommitAlone
    <3>1. committing => phase # "none" /\ outstanding = 0
      BY DEF LogInv, CommitInv
    <3> QED
      BY <3>1, QuietCommit DEF CommitAlone
  <2>3. AtRest
    <3> SUFFICES ASSUME ~booting, outstanding = 0, ~committing
                 PROVE  Recovered = cache /\ head = <<>> /\ dirty = {}
      BY DEF AtRest
    <3>1. phase = "none"
      BY DEF LogInv, CommitInv
    <3>2. head = <<>> /\ dirty = {}
      BY <3>1, EntriesEmpty DEF LogInv, DiskInv
    <3>3. home = cache /\ home \in [Block -> Val]
      BY <3>2 DEF LogInv, DiskInv, TypeOK
    <3>4. Recovered = RecoveredOf(home, logged, <<>>)
      BY <3>2 DEF Recovered, RecoveredOf
    <3> QED
      BY <3>2, <3>3, <3>4, RecoveredEmpty
  <2> QED
    BY <2>1, <2>2, <2>3 DEF LogSound
<1> QED
  BY <1>1, LogInvariance, PTL

\* begin_op never sleeps for room that is there, whatever the order in which
\* operations end, commits finish and others begin.
THEOREM LogWakeups == Spec => []NoLostWakeup
<1>1. LogInv => NoLostWakeup
  BY DEF LogInv
<1> QED
  BY <1>1, LogInvariance, PTL

(***************************************************************************)
(* Crash safety: the log implements AtomicOps                              *)
(***************************************************************************)

\* The contents that operations see, as the refinement maps them.
Seen == IF booting THEN Recovered ELSE cache

\* Each step of the log is a step of AtomicOps or leaves what it shows alone.
LEMMA AtomicStep ==
    ASSUME LogInv, [Next]_vars
    PROVE  [Atomic!AtomicNext]_(Atomic!atomicVars)
  <1> DEFINE Stutter == UNCHANGED <<Recovered, Seen, Active>>
  <1>t. TypeOK /\ CountInv /\ CommitInv /\ DiskInv
    BY DEF LogInv
  <1>a. /\ lh \in Seq(Block) /\ head \in Seq(Block)
        /\ Len(lh) \in Nat /\ Distinct(lh) /\ Distinct(head)
        /\ cache \in [Block -> Val] /\ home \in [Block -> Val]
        /\ logged \in [Slot -> Val]
    BY <1>t DEF TypeOK
  <1>b. /\ Recovered = RecoveredOf(home, logged, head)
        /\ Recovered' = RecoveredOf(home', logged', head')
    BY DEF Recovered, RecoveredOf
  <1>c. UNCHANGED <<home, logged, head>> => Recovered' = Recovered
    BY <1>b
  <1>d. UNCHANGED <<Recovered, booting, cache>> => Seen' = Seen
    BY DEF Seen
  <1>1. ASSUME Stutter PROVE UNCHANGED Atomic!atomicVars
    BY <1>1 DEF Atomic!atomicVars, Seen
  <1>2. ASSUME NEW p \in Proc, BeginCall(p) \/ BeginWait(p) \/ LogCheck(p)
                                \/ LogPanic(p) \/ EndCommit(p)
        PROVE  Stutter
    BY <1>2, <1>t, <1>c, <1>d, ActiveChange
    DEF BeginCall, BeginWait, LogCheck, LogPanic, EndCommit, disk
  <1>3. ASSUME NEW p \in Proc, BeginGo(p) PROVE Atomic!Begin(p)
    <2>1. p \notin Active /\ Active' = Active \cup {p}
      BY <1>3, <1>t, ActiveChange
    <2>2. Recovered' = Recovered /\ Seen' = Seen
      BY <1>3, <1>c, <1>d DEF BeginGo, disk
    <2> QED
      BY <2>1, <2>2 DEF Atomic!Begin, Seen
  <1>4. ASSUME NEW p \in Proc, EndOp(p) PROVE Atomic!End(p)
    <2>1. Active' = Active \ {p}
      BY <1>4, <1>t, ActiveChange
    <2>2. Recovered' = Recovered /\ Seen' = Seen
      BY <1>4, <1>c, <1>d DEF EndOp, disk
    <2> QED
      BY <2>1, <2>2 DEF Atomic!End, Seen
  <1>5. ASSUME NEW p \in Proc, NEW b \in Block, NEW v \in Val,
               LogWrite(p, b, v)
        PROVE  Atomic!Write(p, b, v)
    <2>1. p \in Active /\ Active' = Active
      BY <1>5, <1>t, ActiveChange
    <2>2. Recovered' = Recovered
      BY <1>5, <1>c DEF LogWrite, disk
    <2>3. Seen = cache /\ Seen' = cache' /\ cache' = [cache EXCEPT ![b] = v]
      BY <1>5 DEF LogWrite, Seen
    <2> QED
      BY <2>1, <2>2, <2>3 DEF Atomic!Write, Seen
  <1>6. ASSUME WriteLog PROVE Stutter
    <2>1. head = <<>> /\ head' = <<>> /\ home' = home
      BY <1>6, <1>t DEF WriteLog, DiskInv
    <2>2. Recovered = home /\ Recovered' = home
      BY <1>a, <1>b, <2>1, RecoveredEmpty
    <2>3. UNCHANGED <<booting, cache>>
      BY <1>6 DEF WriteLog
    <2> QED
      BY <1>6, <1>t, <1>d, <2>2, <2>3, ActiveChange DEF Commit
  <1>7. ASSUME WriteHead PROVE Atomic!Commit
    <2>1. /\ ~booting /\ head' = lh /\ dirty = Entries(lh)
          /\ UNCHANGED <<home, logged, cache, booting>>
          /\ \A i \in 1 .. Len(lh) : cache[lh[i]] = logged[i]
          /\ \A b \in Block \ dirty : cache[b] = home[b]
      BY <1>7, <1>t DEF WriteHead, DiskInv, CommitInv
    <2>2. Recovered' = cache
      BY <1>a, <1>b, <2>1, RecoveredIs
    <2>3. Active = {} /\ Active' = Active
      BY <1>7, <1>t, QuietCommit, ActiveChange DEF WriteHead, Commit
    <2>4. Seen = cache /\ Seen' = cache
      BY <2>1 DEF Seen
    <2> QED
      BY <2>2, <2>3, <2>4 DEF Atomic!Commit, Seen
  <1>8. ASSUME Install PROVE Stutter
    <2>1. /\ head = lh /\ tail \in 1 .. Len(lh)
          /\ UNCHANGED <<logged, head, booting>>
          /\ home' = [home EXCEPT ![lh[tail]] = logged[tail]]
          /\ cache' = [cache EXCEPT ![lh[tail]] = logged[tail]]
          /\ ~booting => \A i \in 1 .. Len(lh) : cache[lh[i]] = logged[i]
      BY <1>8, <1>t DEF Install, DiskInv, TypeOK
    <2>2. \A b \in Block \ Entries(head) : home[b] = home'[b]
      BY <1>a, <2>1 DEF Entries
    <2>3. Recovered' = Recovered
      <3>1. RecoveredOf(home, logged, head) = RecoveredOf(home', logged, head)
        BY <1>a, <2>2, RecoveredSame
      <3> QED
        BY <1>b, <2>1, <3>1
    <2>4. ~booting => cache' = cache
      BY <1>a, <2>1
    <2>5. Seen' = Seen
      BY <2>1, <2>3, <2>4 DEF Seen
    <2> QED
      BY <1>8, <1>t, <2>3, <2>5, ActiveChange DEF Commit
  <1>9. ASSUME InstallEnd PROVE Stutter
    BY <1>9, <1>t, <1>c, <1>d, ActiveChange DEF InstallEnd, disk, Commit
  <1>10. ASSUME ClearHead PROVE Stutter
    <2>1. /\ head = lh /\ dirty = {}
          /\ \A i \in 1 .. Len(lh) : home[lh[i]] = logged[i]
          /\ \A b \in Block \ dirty : cache[b] = home[b]
      BY <1>10, <1>t DEF ClearHead, DiskInv
    <2>2. /\ head' = <<>> /\ booting' = FALSE
          /\ UNCHANGED <<home, logged, cache>>
      BY <1>10 DEF ClearHead
    <2>3. Recovered = home
      BY <1>a, <1>b, <2>1, RecoveredIs
    <2>4. Recovered' = home
      BY <1>a, <1>b, <2>2, RecoveredEmpty
    <2>5. cache = home
      BY <1>a, <2>1
    <2>6. Seen = home /\ Seen' = home
      BY <2>2, <2>3, <2>5 DEF Seen
    <2> QED
      BY <1>10, <1>t, <2>3, <2>4, <2>6, ActiveChange DEF Commit
  <1>11. ASSUME NEW b \in Block, Evict(b) PROVE Stutter
    <2>1. cache' = cache
      BY <1>11, <1>a, <1>t DEF Evict, DiskInv
    <2> QED
      BY <1>11, <1>t, <1>c, <1>d, <2>1, ActiveChange DEF Evict, disk
  <1>12. ASSUME Crash PROVE Atomic!Crash
    <2>1. Recovered' = Recovered /\ Active' = {}
      BY <1>12, <1>t, <1>c, ActiveChange DEF Crash, disk
    <2>2. Seen' = Recovered'
      BY <1>12 DEF Crash, Seen
    <2> QED
      BY <2>1, <2>2 DEF Atomic!Crash, Seen
  <1>13. ASSUME UNCHANGED vars PROVE Stutter
    BY <1>13, <1>t, <1>c, <1>d, ActiveChange DEF vars, disk
  <1> HIDE DEF Stutter
  <1>14. \/ Stutter \/ Atomic!AtomicNext
    BY <1>2, <1>3, <1>4, <1>5, <1>6, <1>7, <1>8, <1>9, <1>10, <1>11, <1>12,
       <1>13
    DEF Next, Begin, Commit, Atomic!AtomicNext
  <1> QED
    BY <1>1, <1>14

\* With a crash at any disk write of a commit, and again at any one of the
\* recovery, the disk after recovery shows whole groups of operations, and
\* while the system is up no block goes back.  The entries of the header have
\* a block each: this is about behaviours in which they do not outgrow the log
\* on disk (InLog).
THEOREM LogAtomic == Spec => IsAtomic
<1>1. Init => Atomic!AtomicInit
  <2> SUFFICES ASSUME Init PROVE Atomic!AtomicInit
    OBVIOUS
  <2>1. home \in [Block -> Val] /\ cache = home /\ head = <<>>
    BY DEF Init
  <2>2. Recovered = home
    BY <2>1 DEF Recovered
  <2>3. Active = {} /\ Seen = home
    BY <2>1, <2>2 DEF Init, Active, Seen
  <2> QED
    BY <2>1, <2>2, <2>3 DEF Atomic!AtomicInit, Seen
<1>2. LogInv /\ [Next]_vars => [Atomic!AtomicNext]_(Atomic!atomicVars)
  BY AtomicStep
<1> QED
  BY <1>1, <1>2, LogInvariance, PTL DEF Spec, IsAtomic, Atomic!AtomicSpec
=============================================================================
