---------------------------- MODULE PrimeProofs ----------------------------
(***************************************************************************)
(* Proofs about PrimeIPC: primecalc publishes its primes on plain shared   *)
(* memory, without a lock, and still every reader finds a written element  *)
(* at or below the index, no published element changes, and a pause is     *)
(* obeyed after one more prime at most, for every size of the array and    *)
(* every range of candidates.                                              *)
(***************************************************************************)
EXTENDS PrimeIPC, TLAPS

\* Where primecalc is inside its loop: a call of get_shared is one of the
\* four in its text, a candidate on its way to the array is a prime that
\* fits, and an element is written before it is published.
CalcInv ==
    /\ calc.in => calc.pc \in {"niz", "index", "komanda", "komanda2"}
    /\ calc.pc \in {"niz", "index", "store"} => calc.i <= MaxI
    /\ calc.pc = "publish" => calc.n < NIZ /\ niz[calc.n] # Unset

\* The index is one behind primecalc's count, and all below it is written.
Published ==
    /\ idx = IF calc.n = 0 THEN 0 ELSE calc.n - 1
    /\ \A k \in 0 .. calc.n - 1 : niz[k] # Unset

\* primecom's branches: which command it is at work on, and the bound that it
\* has tested before it reads the array.
ComInv ==
    /\ com.in => com.pc \in {"index", "niz", "komanda"}
    /\ com.pc \in {"index", "niz", "readidx", "readniz"}
         => com.cmd \in {"latest", "prime"}
    /\ com.pc \in {"komanda", "write"} => com.cmd \in {"resume", "pause", "end"}
    /\ com.pc = "readniz" /\ com.cmd = "prime" => com.arg <= NIZ - 1

\* A prime stored after a pause leaves primecalc behind the store, on its way
\* to the test of the command.
PauseInv ==
    /\ kom # 4 => late = 0
    /\ late <= 1
    /\ late = 1 => calc.pc \notin {"test", "niz", "index", "store"}

PrimeInv == TypeOK /\ CalcInv /\ Published /\ ComInv /\ PauseInv

\* The inductive invariant holds when primestart has set the regions up.
LEMMA PrimeInit == Init => PrimeInv
<1> SUFFICES ASSUME Init PROVE PrimeInv
  OBVIOUS
<1>1. calc \in CalcState
  BY PrimeAssumption DEF Init, CalcState, CalcPC
<1>2. com \in ComState
  BY PrimeAssumption DEF Init, ComState, ComPC, Cmd
<1>3. out \in Output
  BY PrimeAssumption DEF Init, Output, NoOut
<1>4. /\ niz \in [0 .. NIZ - 1 -> 0 .. MaxI]
      /\ idx \in 0 .. NIZ - 1 /\ base \in 0 .. NIZ /\ late \in 0 .. NIZ
  BY PrimeAssumption DEF Init, Unset
<1>5. panicked \in BOOLEAN /\ flag \in {0, 1}
  BY DEF Init
<1>6. start \in 0 .. 3 /\ kom \in {0, 3, 4, 5}
  BY DEF Init
<1>7. TypeOK
  BY <1>1, <1>2, <1>3, <1>4, <1>5, <1>6 DEF TypeOK
<1>8. CalcInv /\ Published
  BY PrimeAssumption DEF Init, CalcInv, Published
<1>9. ComInv /\ PauseInv
  BY PrimeAssumption DEF Init, ComInv, PauseInv
<1> QED
  BY <1>7, <1>8, <1>9 DEF PrimeInv

\* Every access to the shared memory, and every command, keeps it.
LEMMA PrimeStep == PrimeInv /\ [Next]_vars => PrimeInv'
<1> SUFFICES ASSUME PrimeInv, [Next]_vars PROVE PrimeInv'
  OBVIOUS
<1>t. TypeOK /\ CalcInv /\ Published /\ ComInv /\ PauseInv
  BY DEF PrimeInv
<1>a. /\ calc.pc \in CalcPC /\ calc.in \in BOOLEAN
      /\ calc.i \in 2 .. MaxI + 1 /\ calc.n \in 0 .. NIZ
  BY <1>t DEF TypeOK, CalcState
<1>b. /\ com.pc \in ComPC /\ com.in \in BOOLEAN /\ com.cmd \in Cmd
      /\ com.arg \in 0 .. NIZ + 1 /\ com.k \in 0 .. NIZ - 1
  BY <1>t DEF TypeOK, ComState
<1>1. CASE CalcEnter
  <2>1. CASE flag = 1
    <3>1. TypeOK'
      BY <1>1, <2>1, <1>t DEF CalcEnter, TypeOK
    <3>2. CalcInv'
      BY <1>1, <2>1, <1>t, <1>a DEF CalcEnter, CalcInv
    <3>3. Published'
      BY <1>1, <2>1, <1>t, <1>a DEF CalcEnter, Published
    <3>4. ComInv'
      BY <1>1, <2>1, <1>t, <1>b DEF CalcEnter, ComInv
    <3>5. PauseInv'
      BY <1>1, <2>1, <1>t, <1>a DEF CalcEnter, PauseInv
    <3> QED
      BY <3>1, <3>2, <3>3, <3>4, <3>5 DEF PrimeInv
  <2>2. CASE flag # 1
    <3>1. /\ calc' \in CalcState
          /\ calc'.pc = calc.pc /\ calc'.in = TRUE
          /\ calc'.i = calc.i /\ calc'.n = calc.n
      BY <1>1, <2>2, <1>t DEF CalcEnter, TypeOK, CalcState, CalcPC
    <3>2. TypeOK'
      BY <1>1, <2>2, <1>t, <3>1 DEF CalcEnter, TypeOK
    <3>3. CalcInv'
      BY <1>1, <2>2, <1>t, <1>a, <3>1 DEF CalcEnter, CalcInv
    <3>4. Published'
      BY <1>1, <2>2, <1>t, <1>a, <3>1 DEF CalcEnter, Published
    <3>5. ComInv'
      BY <1>1, <2>2, <1>t, <1>b, <3>1 DEF CalcEnter, ComInv
    <3>6. PauseInv'
      BY <1>1, <2>2, <1>t, <1>a, <3>1 DEF CalcEnter, PauseInv
    <3> QED
      BY <3>2, <3>3, <3>4, <3>5, <3>6 DEF PrimeInv
  <2> QED
    BY <2>1, <2>2
<1>2. CASE CalcLeave
  <2>1. /\ calc' \in CalcState
        /\ calc'.pc = AfterCalc(calc.pc) /\ calc'.in = FALSE
        /\ calc'.i = calc.i /\ calc'.n = calc.n
    BY <1>2, <1>t DEF CalcLeave, AfterCalc, TypeOK, CalcState, CalcPC, CalcInv
  <2>2. TypeOK'
    BY <1>2, <1>t, <2>1 DEF CalcLeave, TypeOK
  <2>3. CalcInv'
    BY <1>2, <1>t, <1>a, <2>1 DEF CalcLeave, CalcInv, AfterCalc
  <2>4. Published'
    BY <1>2, <1>t, <1>a, <2>1 DEF CalcLeave, Published
  <2>5. ComInv'
    BY <1>2, <1>t, <1>b, <2>1 DEF CalcLeave, ComInv
  <2>6. PauseInv'
    BY <1>2, <1>t, <1>a, <2>1 DEF CalcLeave, PauseInv, AfterCalc, CalcInv
  <2> QED
    BY <2>2, <2>3, <2>4, <2>5, <2>6 DEF PrimeInv
<1>3. CASE CalcTest
  <2>1. CASE calc.i <= MaxI /\ IsPrime(calc.i)
    <3>1. /\ calc' \in CalcState
          /\ calc'.pc = "niz" /\ calc'.in = calc.in
          /\ calc'.i = calc.i /\ calc'.n = calc.n
      BY <1>3, <2>1, <1>t DEF CalcTest, TypeOK, CalcState, CalcPC
    <3>2. TypeOK'
      BY <1>3, <2>1, <1>t, <3>1 DEF CalcTest, TypeOK
    <3>3. CalcInv'
      BY <1>3, <2>1, <1>t, <1>a, <3>1 DEF CalcTest, CalcInv
    <3>4. Published'
      BY <1>3, <2>1, <1>t, <1>a, <3>1 DEF CalcTest, Published
    <3>5. ComInv'
      BY <1>3, <2>1, <1>t, <1>b, <3>1 DEF CalcTest, ComInv
    <3>6. PauseInv'
      BY <1>3, <2>1, <1>t, <1>a, <3>1 DEF CalcTest, PauseInv
    <3> QED
      BY <3>2, <3>3, <3>4, <3>5, <3>6 DEF PrimeInv
  <2>2. CASE ~(calc.i <= MaxI /\ IsPrime(calc.i))
    <3>1. /\ calc' \in CalcState
          /\ calc'.pc = "komanda" /\ calc'.in = calc.in
          /\ calc'.i = calc.i /\ calc'.n = calc.n
      BY <1>3, <2>2, <1>t DEF CalcTest, TypeOK, CalcState, CalcPC
    <3>2. TypeOK'
      BY <1>3, <2>2, <1>t, <3>1 DEF CalcTest, TypeOK
    <3>3. CalcInv'
      BY <1>3, <2>2, <1>t, <1>a, <3>1 DEF CalcTest, CalcInv
    <3>4. Published'
      BY <1>3, <2>2, <1>t, <1>a, <3>1 DEF CalcTest, Published
    <3>5. ComInv'
      BY <1>3, <2>2, <1>t, <1>b, <3>1 DEF CalcTest, ComInv
    <3>6. PauseInv'
      BY <1>3, <2>2, <1>t, <1>a, <3>1 DEF CalcTest, PauseInv
    <3> QED
      BY <3>2, <3>3, <3>4, <3>5, <3>6 DEF PrimeInv
  <2> QED
    BY <2>1, <2>2
<1>4. CASE CalcStore
  <2>1. CASE calc.n < NIZ
    <3>1. /\ calc' \in CalcState
          /\ calc'.pc = "publish" /\ calc'.in = calc.in
          /\ calc'.i = calc.i /\ calc'.n = calc.n
      BY <1>4, <2>1, <1>t DEF CalcStore, TypeOK, CalcState, CalcPC
    <3>2. niz' \in [0 .. NIZ - 1 -> 0 .. MaxI]
      <4>1. calc.n \in 0 .. NIZ - 1 /\ calc.i \in 0 .. MaxI
        BY <1>4, <2>1, <1>t, <1>a, PrimeAssumption DEF CalcStore, CalcInv
      <4> QED
        BY <1>4, <2>1, <1>t, <4>1 DEF CalcStore, TypeOK
    <3>3. niz'[calc.n] # 0 /\ \A k \in 0 .. calc.n - 1 : niz'[k] = niz[k]
      <4>1. calc.n \in 0 .. NIZ - 1 /\ calc.i # 0
        BY <2>1, <1>a, PrimeAssumption
      <4>2. niz' = [niz EXCEPT ![calc.n] = calc.i]
        BY <1>4, <2>1 DEF CalcStore
      <4> QED
        BY <1>t, <1>a, <4>1, <4>2 DEF TypeOK
    <3>4. late' \in 0 .. NIZ
      <4>1. late = 0
        BY <1>4, <1>t, PrimeAssumption DEF CalcStore, TypeOK, PauseInv
      <4> QED
        BY <1>4, <2>1, <4>1, PrimeAssumption DEF CalcStore
    <3>5. TypeOK'
      BY <1>4, <2>1, <1>t, <3>1, <3>2, <3>3, <3>4 DEF CalcStore, TypeOK
    <3>6. CalcInv'
      BY <1>4, <2>1, <1>t, <1>a, <3>1, <3>2, <3>3, <3>4
      DEF CalcStore, CalcInv, Unset
    <3>7. Published'
      BY <1>4, <2>1, <1>t, <1>a, <3>1, <3>2, <3>3, <3>4
      DEF CalcStore, Published, Unset
    <3>8. ComInv'
      BY <1>4, <2>1, <1>t, <1>b, <3>1 DEF CalcStore, ComInv
    <3>9. PauseInv'
      BY <1>4, <2>1, <1>t, <1>a, <3>1, <3>2, <3>3, <3>4
      DEF CalcStore, PauseInv, TypeOK
    <3> QED
      BY <3>5, <3>6, <3>7, <3>8, <3>9 DEF PrimeInv
  <2>2. CASE ~(calc.n < NIZ)
    <3>1. /\ calc' \in CalcState
          /\ calc'.pc = "exited" /\ calc'.in = calc.in
          /\ calc'.i = calc.i /\ calc'.n = calc.n
      BY <1>4, <2>2, <1>t DEF CalcStore, TypeOK, CalcState, CalcPC
    <3>2. TypeOK'
      BY <1>4, <2>2, <1>t, <3>1 DEF CalcStore, TypeOK
    <3>3. CalcInv'
      BY <1>4, <2>2, <1>t, <1>a, <3>1 DEF CalcStore, CalcInv
    <3>4. Published'
      BY <1>4, <2>2, <1>t, <1>a, <3>1 DEF CalcStore, Published
    <3>5. ComInv'
      BY <1>4, <2>2, <1>t, <1>b, <3>1 DEF CalcStore, ComInv
    <3>6. PauseInv'
      BY <1>4, <2>2, <1>t, <1>a, <3>1 DEF CalcStore, PauseInv
    <3> QED
      BY <3>2, <3>3, <3>4, <3>5, <3>6 DEF PrimeInv
  <2> QED
    BY <2>1, <2>2
<1>5. CASE CalcPublish
  <2>1. /\ calc' \in CalcState
        /\ calc'.pc = "komanda" /\ calc'.in = calc.in
        /\ calc'.i = calc.i /\ calc'.n = calc.n + 1
    <3>1. calc.n + 1 \in 0 .. NIZ
      BY <1>5, <1>t, <1>a, PrimeAssumption DEF CalcPublish, CalcInv
    <3> QED
      BY <1>5, <1>t, <3>1 DEF CalcPublish, TypeOK, CalcState, CalcPC
  <2>2. TypeOK'
    BY <1>5, <1>t, <1>a, <2>1, PrimeAssumption DEF CalcPublish, TypeOK, CalcInv
  <2>3. CalcInv'
    BY <1>5, <1>t, <1>a, <2>1 DEF CalcPublish, CalcInv
  <2>4. Published'
    BY <1>5, <1>t, <1>a, <2>1 DEF CalcPublish, Published, CalcInv
  <2>5. ComInv'
    BY <1>5, <1>t, <1>b, <2>1 DEF CalcPublish, ComInv
  <2>6. PauseInv'
    BY <1>5, <1>t, <1>a, <2>1 DEF CalcPublish, PauseInv
  <2> QED
    BY <2>2, <2>3, <2>4, <2>5, <2>6 DEF PrimeInv
<1>6. CASE CalcRead
  <2>1. CASE HeardRunning(kom) = "test"
    <3>1. /\ calc' \in CalcState
          /\ calc'.pc = "test" /\ calc'.in = calc.in
          /\ calc'.i = NextI /\ calc'.n = calc.n
      <4>1. NextI \in 2 .. MaxI + 1
        BY <1>a, PrimeAssumption DEF NextI
      <4> QED
        BY <1>6, <2>1, <1>t, <4>1 DEF CalcRead, Obey, TypeOK, CalcState, CalcPC
    <3>2. TypeOK'
      BY <1>6, <2>1, <1>t, <3>1 DEF CalcRead, TypeOK
    <3>3. CalcInv'
      BY <1>6, <2>1, <1>t, <1>a, <3>1 DEF CalcRead, CalcInv
    <3>4. Published'
      BY <1>6, <2>1, <1>t, <1>a, <3>1 DEF CalcRead, Published
    <3>5. ComInv'
      BY <1>6, <2>1, <1>t, <1>b, <3>1 DEF CalcRead, ComInv
    <3>6. PauseInv'
      BY <1>6, <2>1, <1>t, <1>a, <3>1
      DEF CalcRead, PauseInv, HeardRunning, TypeOK
    <3> QED
      BY <3>2, <3>3, <3>4, <3>5, <3>6 DEF PrimeInv
  <2>2. CASE HeardRunning(kom) # "test"
    <3>1. /\ calc' \in CalcState
          /\ calc'.pc = HeardRunning(kom) /\ calc'.in = calc.in
          /\ calc'.i = calc.i /\ calc'.n = calc.n
      BY <1>6, <2>2, <1>t
      DEF CalcRead, Obey, TypeOK, CalcState, CalcPC, HeardRunning
    <3>2. TypeOK'
      BY <1>6, <2>2, <1>t, <3>1 DEF CalcRead, TypeOK
    <3>3. CalcInv'
      BY <1>6, <2>2, <1>t, <1>a, <3>1 DEF CalcRead, CalcInv, HeardRunning
    <3>4. Published'
      BY <1>6, <2>2, <1>t, <1>a, <3>1 DEF CalcRead, Published
    <3>5. ComInv'
      BY <1>6, <2>2, <1>t, <1>b, <3>1 DEF CalcRead, ComInv
    <3>6. PauseInv'
      BY <1>6, <2>2, <1>t, <1>a, <3>1 DEF CalcRead, PauseInv, HeardRunning
    <3> QED
      BY <3>2, <3>3, <3>4, <3>5, <3>6 DEF PrimeInv
  <2> QED
    BY <2>1, <2>2
<1>7. CASE CalcSleep
  <2>1. /\ calc' \in CalcState
        /\ calc'.pc = "komanda2" /\ calc'.in = calc.in
        /\ calc'.i = calc.i /\ calc'.n = calc.n
    BY <1>7, <1>t DEF CalcSleep, TypeOK, CalcState, CalcPC
  <2>2. TypeOK'
    BY <1>7, <1>t, <2>1 DEF CalcSleep, TypeOK
  <2>3. CalcInv'
    BY <1>7, <1>t, <1>a, <2>1 DEF CalcSleep, CalcInv
  <2>4. Published'
    BY <1>7, <1>t, <1>a, <2>1 DEF CalcSleep, Published
  <2>5. ComInv'
    BY <1>7, <1>t, <1>b, <2>1 DEF CalcSleep, ComInv
  <2>6. PauseInv'
    BY <1>7, <1>t, <1>a, <2>1 DEF CalcSleep, PauseInv
  <2> QED
    BY <2>2, <2>3, <2>4, <2>5, <2>6 DEF PrimeInv
<1>8. CASE CalcRead2
  <2>1. CASE HeardPaused(kom) = "test"
    <3>1. /\ calc' \in CalcState
          /\ calc'.pc = "test" /\ calc'.in = calc.in
          /\ calc'.i = NextI /\ calc'.n = calc.n
      <4>1. NextI \in 2 .. MaxI + 1
        BY <1>a, PrimeAssumption DEF NextI
      <4> QED
        BY <1>8, <2>1, <1>t, <4>1 DEF CalcRead2, Obey, TypeOK, CalcState, CalcPC
    <3>2. TypeOK'
      BY <1>8, <2>1, <1>t, <3>1 DEF CalcRead2, TypeOK
    <3>3. CalcInv'
      BY <1>8, <2>1, <1>t, <1>a, <3>1 DEF CalcRead2, CalcInv
    <3>4. Published'
      BY <1>8, <2>1, <1>t, <1>a, <3>1 DEF CalcRead2, Published
    <3>5. ComInv'
      BY <1>8, <2>1, <1>t, <1>b, <3>1 DEF CalcRead2, ComInv
    <3>6. PauseInv'
      BY <1>8, <2>1, <1>t, <1>a, <3>1
      DEF CalcRead2, PauseInv, HeardPaused, TypeOK
    <3> QED
      BY <3>2, <3>3, <3>4, <3>5, <3>6 DEF PrimeInv
  <2>2. CASE HeardPaused(kom) # "test"
    <3>1. /\ calc' \in CalcState
          /\ calc'.pc = HeardPaused(kom) /\ calc'.in = calc.in
          /\ calc'.i = calc.i /\ calc'.n = calc.n
      BY <1>8, <2>2, <1>t
      DEF CalcRead2, Obey, TypeOK, CalcState, CalcPC, HeardPaused
    <3>2. TypeOK'
      BY <1>8, <2>2, <1>t, <3>1 DEF CalcRead2, TypeOK
    <3>3. CalcInv'
      BY <1>8, <2>2, <1>t, <1>a, <3>1 DEF CalcRead2, CalcInv, HeardPaused
    <3>4. Published'
      BY <1>8, <2>2, <1>t, <1>a, <3>1 DEF CalcRead2, Published
    <3>5. ComInv'
      BY <1>8, <2>2, <1>t, <1>b, <3>1 DEF CalcRead2, ComInv
    <3>6. PauseInv'
      BY <1>8, <2>2, <1>t, <1>a, <3>1 DEF CalcRead2, PauseInv, HeardPaused
    <3> QED
      BY <3>2, <3>3, <3>4, <3>5, <3>6 DEF PrimeInv
  <2> QED
    BY <2>1, <2>2
<1>9. CASE ComEnter
  <2>1. /\ com' \in ComState
        /\ com'.pc = com.pc /\ com'.in = TRUE /\ com'.cmd = com.cmd
        /\ com'.arg = com.arg /\ com'.k = com.k
    BY <1>9, <1>t DEF ComEnter, TypeOK, ComState, ComPC
  <2>2. TypeOK'
    BY <1>9, <1>t, <2>1 DEF ComEnter, TypeOK
  <2>3. CalcInv'
    BY <1>9, <1>t, <1>a, <2>1 DEF ComEnter, CalcInv
  <2>4. Published'
    BY <1>9, <1>t, <1>a, <2>1 DEF ComEnter, Published
  <2>5. ComInv'
    BY <1>9, <1>t, <1>b, <2>1 DEF ComEnter, ComInv
  <2>6. PauseInv'
    BY <1>9, <1>t, <1>a, <2>1 DEF ComEnter, PauseInv
  <2> QED
    BY <2>2, <2>3, <2>4, <2>5, <2>6 DEF PrimeInv
<1>10. CASE ComLeave
  <2>1. /\ com' \in ComState
        /\ com'.pc = AfterCom(com.pc) /\ com'.in = FALSE
        /\ com'.cmd = com.cmd /\ com'.arg = com.arg
        /\ com'.k = com.k
    BY <1>10, <1>t DEF ComLeave, AfterCom, TypeOK, ComState, ComPC, ComInv
  <2>2. TypeOK'
    BY <1>10, <1>t, <2>1 DEF ComLeave, TypeOK
  <2>3. CalcInv'
    BY <1>10, <1>t, <1>a, <2>1 DEF ComLeave, CalcInv
  <2>4. Published'
    BY <1>10, <1>t, <1>a, <2>1 DEF ComLeave, Published
  <2>5. ComInv'
    BY <1>10, <1>t, <1>b, <2>1 DEF ComLeave, ComInv, AfterCom
  <2>6. PauseInv'
    BY <1>10, <1>t, <1>a, <2>1 DEF ComLeave, PauseInv
  <2> QED
    BY <2>2, <2>3, <2>4, <2>5, <2>6 DEF PrimeInv
<1>11. CASE ComReadIdx
  <2>1. CASE com.cmd = "prime" /\ com.arg > idx
    <3>1. /\ com' \in ComState
          /\ com'.pc = "gets" /\ com'.in = com.in
          /\ com'.cmd = com.cmd /\ com'.arg = com.arg
          /\ com'.k = com.k
      BY <1>11, <2>1, <1>t DEF ComReadIdx, TypeOK, ComState, ComPC
    <3>2. out' \in Output
      BY <1>11, <2>1, <1>b, PrimeAssumption DEF ComReadIdx, Output
    <3>3. TypeOK'
      BY <1>11, <2>1, <1>t, <3>1, <3>2 DEF ComReadIdx, TypeOK
    <3>4. CalcInv'
      BY <1>11, <2>1, <1>t, <1>a, <3>1, <3>2 DEF ComReadIdx, CalcInv
    <3>5. Published'
      BY <1>11, <2>1, <1>t, <1>a, <3>1, <3>2 DEF ComReadIdx, Published
    <3>6. ComInv'
      BY <1>11, <2>1, <1>t, <1>b, <3>1, <3>2 DEF ComReadIdx, ComInv
    <3>7. PauseInv'
      BY <1>11, <2>1, <1>t, <1>a, <3>1, <3>2 DEF ComReadIdx, PauseInv
    <3> QED
      BY <3>3, <3>4, <3>5, <3>6, <3>7 DEF PrimeInv
  <2>2. CASE ~(com.cmd = "prime" /\ com.arg > idx)
    <3>1. /\ com' \in ComState
          /\ com'.pc = "readniz" /\ com'.in = com.in
          /\ com'.cmd = com.cmd /\ com'.arg = com.arg /\ com'.k = idx
      BY <1>11, <2>2, <1>t DEF ComReadIdx, TypeOK, ComState, ComPC
    <3>2. TypeOK'
      BY <1>11, <2>2, <1>t, <3>1 DEF ComReadIdx, TypeOK
    <3>3. CalcInv'
      BY <1>11, <2>2, <1>t, <1>a, <3>1 DEF ComReadIdx, CalcInv
    <3>4. Published'
      BY <1>11, <2>2, <1>t, <1>a, <3>1 DEF ComReadIdx, Published
    <3>5. ComInv'
      <4>1. com.cmd = "prime" => com.arg <= NIZ - 1
        BY <2>2, <1>t, <1>b, PrimeAssumption DEF TypeOK
      <4> QED
        BY <1>11, <2>2, <1>t, <1>b, <3>1, <4>1 DEF ComReadIdx, ComInv
    <3>6. PauseInv'
      BY <1>11, <2>2, <1>t, <1>a, <3>1 DEF ComReadIdx, PauseInv
    <3> QED
      BY <3>2, <3>3, <3>4, <3>5, <3>6 DEF PrimeInv
  <2> QED
    BY <2>1, <2>2
<1>12. CASE ComReadNiz
  <2>1. /\ com' \in ComState
        /\ com'.pc = "gets" /\ com'.in = com.in
        /\ com'.cmd = com.cmd /\ com'.arg = com.arg
        /\ com'.k = com.k
    BY <1>12, <1>t DEF ComReadNiz, TypeOK, ComState, ComPC
  <2>2. out' \in Output
    <3> DEFINE k == IF com.cmd = "latest" THEN com.k ELSE com.arg
    <3>1. k \in 0 .. NIZ - 1 /\ com.cmd \in {"latest", "prime"}
      BY <1>12, <1>t, <1>b, PrimeAssumption DEF ComReadNiz, ComInv
    <3>2. NizBefore(k) \in 0 .. MaxI + 1
      BY <3>1, <1>t, PrimeAssumption DEF NizBefore, Junk, TypeOK
    <3> QED
      BY <1>12, <3>1, <3>2 DEF ComReadNiz, Output
  <2>3. TypeOK'
    BY <1>12, <1>t, <2>1, <2>2 DEF ComReadNiz, TypeOK
  <2>4. CalcInv'
    BY <1>12, <1>t, <1>a, <2>1, <2>2 DEF ComReadNiz, CalcInv
  <2>5. Published'
    BY <1>12, <1>t, <1>a, <2>1, <2>2 DEF ComReadNiz, Published
  <2>6. ComInv'
    BY <1>12, <1>t, <1>b, <2>1, <2>2 DEF ComReadNiz, ComInv
  <2>7. PauseInv'
    BY <1>12, <1>t, <1>a, <2>1, <2>2 DEF ComReadNiz, PauseInv
  <2> QED
    BY <2>3, <2>4, <2>5, <2>6, <2>7 DEF PrimeInv
<1>13. CASE ComWrite
  <2>1. /\ com' \in ComState
        /\ com'.pc = IF com.cmd = "end" THEN "exited" ELSE "gets"
        /\ com'.in = com.in /\ com'.cmd = com.cmd
        /\ com'.arg = com.arg /\ com'.k = com.k
    BY <1>13, <1>t DEF ComWrite, TypeOK, ComState, ComPC
  <2>2. kom' \in {3, 4, 5}
    BY <1>13, <1>t, <1>a, <1>b, <2>1 DEF ComWrite, Code, ComInv
  <2>3. TypeOK'
    BY <1>13, <1>t, <2>1, <2>2, PrimeAssumption DEF ComWrite, TypeOK
  <2>4. CalcInv'
    BY <1>13, <1>t, <1>a, <2>1, <2>2 DEF ComWrite, CalcInv
  <2>5. Published'
    BY <1>13, <1>t, <1>a, <2>1, <2>2 DEF ComWrite, Published
  <2>6. ComInv'
    BY <1>13, <1>t, <1>b, <2>1, <2>2 DEF ComWrite, ComInv
  <2>7. PauseInv'
    BY <1>13, <1>t, <1>a, <2>1, <2>2 DEF ComWrite, PauseInv
  <2> QED
    BY <2>3, <2>4, <2>5, <2>6, <2>7 DEF PrimeInv
<1>14. CASE StartWait
  <2>1. TypeOK'
    BY <1>14, <1>t, PrimeAssumption DEF StartWait, TypeOK
  <2>2. CalcInv'
    BY <1>14, <1>t, <1>a DEF StartWait, CalcInv
  <2>3. Published'
    BY <1>14, <1>t, <1>a DEF StartWait, Published
  <2>4. ComInv'
    BY <1>14, <1>t, <1>b DEF StartWait, ComInv
  <2>5. PauseInv'
    BY <1>14, <1>t, <1>a DEF StartWait, PauseInv
  <2> QED
    BY <2>1, <2>2, <2>3, <2>4, <2>5 DEF PrimeInv
<1>15. CASE StartExit
  <2>1. TypeOK'
    BY <1>15, <1>t, PrimeAssumption DEF StartExit, TypeOK
  <2>2. CalcInv'
    BY <1>15, <1>t, <1>a DEF StartExit, CalcInv
  <2>3. Published'
    BY <1>15, <1>t, <1>a DEF StartExit, Published
  <2>4. ComInv'
    BY <1>15, <1>t, <1>b DEF StartExit, ComInv
  <2>5. PauseInv'
    BY <1>15, <1>t, <1>a DEF StartExit, PauseInv
  <2> QED
    BY <2>1, <2>2, <2>3, <2>4, <2>5 DEF PrimeInv
<1>16. ASSUME NEW c \in Cmd, NEW a \in 0 .. NIZ + 1, ComGets(c, a)
       PROVE  PrimeInv'
  <2>1. /\ com' \in ComState
        /\ com'.pc = IF c \in {"latest", "prime"} THEN "index" ELSE "komanda"
        /\ com'.in = com.in /\ com'.cmd = c /\ com'.arg = a
        /\ com'.k = com.k
    BY <1>16, <1>t DEF ComGets, TypeOK, ComState, ComPC, Cmd
  <2>2. out' \in Output
    BY <1>16, <1>t, <1>a, <1>b, <2>1, PrimeAssumption
    DEF ComGets, Output, NoOut
  <2>3. TypeOK'
    BY <1>16, <1>t, <1>a, <2>1, <2>2 DEF ComGets, TypeOK
  <2>4. CalcInv'
    BY <1>16, <1>t, <1>a, <2>1, <2>2 DEF ComGets, CalcInv
  <2>5. Published'
    BY <1>16, <1>t, <1>a, <2>1, <2>2 DEF ComGets, Published
  <2>6. ComInv'
    BY <1>16, <1>t, <1>b, <2>1, <2>2 DEF ComGets, ComInv, Cmd
  <2>7. PauseInv'
    BY <1>16, <1>t, <1>a, <2>1, <2>2 DEF ComGets, PauseInv
  <2> QED
    BY <2>3, <2>4, <2>5, <2>6, <2>7 DEF PrimeInv
<1>17. CASE UNCHANGED vars
  <2>1. TypeOK'
    BY <1>17, <1>t DEF vars, TypeOK
  <2>2. CalcInv'
    BY <1>17, <1>t, <1>a DEF vars, CalcInv
  <2>3. Published'
    BY <1>17, <1>t, <1>a DEF vars, Published
  <2>4. ComInv'
    BY <1>17, <1>t, <1>b DEF vars, ComInv
  <2>5. PauseInv'
    BY <1>17, <1>t, <1>a DEF vars, PauseInv
  <2> QED
    BY <2>1, <2>2, <2>3, <2>4, <2>5 DEF PrimeInv
<1> QED
  BY <1>1, <1>2, <1>3, <1>4, <1>5, <1>6, <1>7, <1>8, <1>9, <1>10, <1>11,
     <1>12, <1>13, <1>14, <1>15, <1>16, <1>17
  DEF Next, CalcNext, ComNext, StartNext

\* The inductive invariant holds in every reachable state.
LEMMA PrimeInvariance == Spec => []PrimeInv
  BY PrimeInit, PrimeStep, PTL DEF Spec

\* Publication order and pause: at every interleaving of primecalc and
\* primecom, with any size of the array, what lies at or below the index has
\* been written, and after a pause at most one more prime is stored.
THEOREM PublicationSound == Spec => []PrimeSound
<1>1. PrimeInv => PrimeSound
  BY PrimeAssumption
  DEF PrimeInv, PrimeSound, PublishedWritten, PauseHonoured, TypeOK,
      Published, PauseInv
<1> QED
  BY <1>1, PrimeInvariance, PTL

\* What one reader saw stays true: the index never moves back, and the
\* elements at or below it are never overwritten.
THEOREM PublicationStable == Spec => PublishedStable
<1> DEFINE Stable == calc.n > 0 => /\ idx' >= idx
                                   /\ \A k \in 0 .. idx : niz'[k] = niz[k]
<1>1. PrimeInv /\ [Next]_vars => [Stable]_vars
  <2> SUFFICES ASSUME PrimeInv, Next PROVE Stable
    OBVIOUS
  <2>1. calc.n \in Nat /\ idx \in Nat
    BY PrimeAssumption DEF PrimeInv, TypeOK, CalcState
  <2>2. calc.n > 0 => idx = calc.n - 1
    BY <2>1 DEF PrimeInv, Published
  <2>3. CASE CalcStore
    <3>1. idx' = idx /\ \A k \in 0 .. calc.n - 1 : niz'[k] = niz[k]
      BY <2>1, <2>3, PrimeAssumption DEF CalcStore, PrimeInv, TypeOK
    <3> QED
      BY <2>1, <2>2, <3>1
  <2>4. CASE CalcPublish
    BY <2>1, <2>2, <2>4 DEF CalcPublish
  <2>5. CASE idx' = idx /\ niz' = niz
    BY <2>1, <2>5
  <2> QED
    BY <2>3, <2>4, <2>5
    DEF Next, CalcNext, ComNext, StartNext, CalcEnter, CalcLeave, CalcTest,
        CalcRead, CalcSleep, CalcRead2, ComEnter, ComLeave, ComReadIdx,
        ComReadNiz, ComWrite, StartWait, StartExit, ComGets
<1> QED
  BY <1>1, PrimeInvariance, PTL DEF Spec, PublishedStable
=============================================================================
