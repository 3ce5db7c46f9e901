--------------------------- MODULE ConsoleProofs ---------------------------
(***************************************************************************)
(* Proofs about Console, for any number of readers, any size of the buffer *)
(* that divides the range of its indices, and any characters: no reader    *)
(* misses a line, an end of file is read once, and the ring with its three *)
(* indices is a line being edited behind the complete lines.               *)
(***************************************************************************)
EXTENDS Console, SequenceTheorems, TLAPS

(***************************************************************************)
(* The indices                                                             *)
(***************************************************************************)
Index == 0 .. Wrap - 1

\* What the assumption on the constants gives.
LEMMA SizeFacts ==
    /\ INPUT_BUF \in Nat \ {0} /\ Wrap \in Nat \ {0} /\ 2 * INPUT_BUF <= Wrap
    /\ NoProc \notin Proc /\ MaxCount \in Nat
    /\ NL \in Char /\ EOT \in Char
  BY ConsoleAssumption

\* An index that moves by at most Wrap, up or down, wraps at most once.
LEMMA PlusFacts ==
    ASSUME NEW a \in Index, NEW k \in -Wrap .. Wrap
    PROVE  /\ Plus(a, k) \in Index
           /\ 0 <= a + k /\ a + k < Wrap => Plus(a, k) = a + k
           /\ Wrap <= a + k => Plus(a, k) = a + k - Wrap
           /\ a + k < 0 => Plus(a, k) = a + k + Wrap
  <1>1. /\ Wrap \in Nat \ {0} /\ a + k \in Int
        /\ -Wrap <= a + k /\ a + k < 2 * Wrap
    BY SizeFacts DEF Index
  <1>2. PICK s \in Int : s = a + k
    BY <1>1
  <1>3. /\ s % Wrap \in 0 .. Wrap - 1
        /\ 0 <= s /\ s < Wrap => s % Wrap = s
        /\ Wrap <= s /\ s < 2 * Wrap => s % Wrap = s - Wrap
        /\ -Wrap <= s /\ s < 0 => s % Wrap = s + Wrap
    BY <1>1
  <1> QED  BY <1>1, <1>2, <1>3 DEF Plus, Index

\* The distance of two indices.
LEMMA DistFacts ==
    ASSUME NEW a \in Index, NEW b \in Index
    PROVE  /\ Dist(a, b) \in Index /\ Dist(a, b) \in Nat
           /\ Dist(a, b) = IF a <= b THEN b - a ELSE b - a + Wrap
           /\ Dist(a, b) = 0 <=> a = b
  <1>1. Wrap \in Nat \ {0} /\ b - a \in Int /\ -Wrap <= b - a /\ b - a < Wrap
    BY SizeFacts DEF Index
  <1>2. PICK s \in Int : s = b - a
    BY <1>1
  <1>3. /\ s % Wrap \in 0 .. Wrap - 1
        /\ 0 <= s => s % Wrap = s
        /\ s < 0 => s % Wrap = s + Wrap
    BY <1>1, <1>2
  <1> QED  BY <1>1, <1>2, <1>3 DEF Dist, Index

\* Counting from one index to another, and the test of a full buffer.
LEMMA DistPlus ==
    ASSUME NEW a \in Index, NEW b \in Index
    PROVE  /\ Plus(a, Dist(a, b)) = b /\ Plus(b, -Dist(a, b)) = a
           /\ b = Plus(a, INPUT_BUF) <=> Dist(a, b) = INPUT_BUF
  <1>1. PICK d \in Nat : /\ d = Dist(a, b) /\ d < Wrap
                         /\ d = IF a <= b THEN b - a ELSE b - a + Wrap
    <2>1. /\ Dist(a, b) \in Index /\ Dist(a, b) \in Nat
          /\ Dist(a, b) = IF a <= b THEN b - a ELSE b - a + Wrap
      BY DistFacts
    <2>2. Dist(a, b) < Wrap
      BY <2>1, SizeFacts DEF Index
    <2> QED  BY <2>1, <2>2
  <1>2. /\ d \in -Wrap .. Wrap /\ -d \in -Wrap .. Wrap
        /\ INPUT_BUF \in -Wrap .. Wrap
    BY <1>1, SizeFacts
  <1>3. /\ 0 <= a + d /\ a + d < Wrap => Plus(a, d) = a + d
        /\ Wrap <= a + d => Plus(a, d) = a + d - Wrap
    BY <1>2, PlusFacts
  <1>4. /\ 0 <= b + (-d) /\ b + (-d) < Wrap => Plus(b, -d) = b + (-d)
        /\ b + (-d) < 0 => Plus(b, -d) = b + (-d) + Wrap
    BY <1>2, PlusFacts
  <1>5. /\ 0 <= a + INPUT_BUF /\ a + INPUT_BUF < Wrap
              => Plus(a, INPUT_BUF) = a + INPUT_BUF
        /\ Wrap <= a + INPUT_BUF => Plus(a, INPUT_BUF) = a + INPUT_BUF - Wrap
    BY <1>2, PlusFacts
  <1>6. Plus(a, d) = b
    BY <1>1, <1>3, SizeFacts DEF Index
  <1>7. Plus(b, -d) = a
    BY <1>1, <1>4, SizeFacts DEF Index
  <1>8. b = Plus(a, INPUT_BUF) <=> d = INPUT_BUF
    BY <1>1, <1>5, SizeFacts DEF Index
  <1> QED  BY <1>1, <1>6, <1>7, <1>8

\* How a distance changes when one of its ends moves by one.
LEMMA DistStep ==
    ASSUME NEW a \in Index, NEW b \in Index
    PROVE  /\ Plus(b, 1) \in Index /\ Plus(b, -1) \in Index
           /\ Plus(a, 1) \in Index /\ Plus(a, 1) # a
           /\ Dist(a, b) < INPUT_BUF => Dist(a, Plus(b, 1)) = Dist(a, b) + 1
           /\ a # b => Dist(a, Plus(b, -1)) = Dist(a, b) - 1
           /\ a # b => Dist(Plus(a, 1), b) = Dist(a, b) - 1
  <1>1. 1 \in -Wrap .. Wrap /\ -1 \in -Wrap .. Wrap
    BY SizeFacts
  <1>2. /\ Plus(b, 1) \in Index /\ Plus(b, -1) \in Index /\ Plus(a, 1) \in Index
        /\ Plus(b, 1) = IF b + 1 < Wrap THEN b + 1 ELSE 0
        /\ Plus(a, 1) = IF a + 1 < Wrap THEN a + 1 ELSE 0
        /\ Plus(b, -1) = IF 1 <= b THEN b - 1 ELSE Wrap - 1
    <2>1. /\ Plus(b, 1) \in Index
          /\ 0 <= b + 1 /\ b + 1 < Wrap => Plus(b, 1) = b + 1
          /\ Wrap <= b + 1 => Plus(b, 1) = b + 1 - Wrap
      BY <1>1, PlusFacts
    <2>2. /\ Plus(a, 1) \in Index
          /\ 0 <= a + 1 /\ a + 1 < Wrap => Plus(a, 1) = a + 1
          /\ Wrap <= a + 1 => Plus(a, 1) = a + 1 - Wrap
      BY <1>1, PlusFacts
    <2>3. /\ Plus(b, -1) \in Index
          /\ 0 <= b + (-1) /\ b + (-1) < Wrap => Plus(b, -1) = b + (-1)
          /\ b + (-1) < 0 => Plus(b, -1) = b + (-1) + Wrap
      BY <1>1, PlusFacts
    <2>4. Plus(b, 1) = IF b + 1 < Wrap THEN b + 1 ELSE 0
      BY <2>1, SizeFacts DEF Index
    <2>5. Plus(a, 1) = IF a + 1 < Wrap THEN a + 1 ELSE 0
      BY <2>2, SizeFacts DEF Index
    <2>6. Plus(b, -1) = IF 1 <= b THEN b - 1 ELSE Wrap - 1
      BY <2>3, SizeFacts DEF Index
    <2> QED  BY <2>1, <2>2, <2>3, <2>4, <2>5, <2>6
  <1>3. /\ Dist(a, b) = IF a <= b THEN b - a ELSE b - a + Wrap
        /\ Dist(a, Plus(b, 1)) = IF a <= Plus(b, 1) THEN Plus(b, 1) - a
                                 ELSE Plus(b, 1) - a + Wrap
        /\ Dist(a, Plus(b, -1)) = IF a <= Plus(b, -1) THEN Plus(b, -1) - a
                                  ELSE Plus(b, -1) - a + Wrap
        /\ Dist(Plus(a, 1), b) = IF Plus(a, 1) <= b THEN b - Plus(a, 1)
                                 ELSE b - Plus(a, 1) + Wrap
    BY <1>2, DistFacts
  <1>4. Dist(a, b) < INPUT_BUF => Dist(a, Plus(b, 1)) = Dist(a, b) + 1
    BY <1>2, <1>3, SizeFacts DEF Index
  <1>5. a # b => Dist(a, Plus(b, -1)) = Dist(a, b) - 1
    BY <1>2, <1>3, SizeFacts DEF Index
  <1>6. a # b => Dist(Plus(a, 1), b) = Dist(a, b) - 1
    BY <1>2, <1>3, SizeFacts DEF Index
  <1>7. Plus(a, 1) # a
    BY <1>2, SizeFacts DEF Index
  <1> QED  BY <1>2, <1>4, <1>5, <1>6, <1>7

\* Distances of three indices in their order add up.
LEMMA DistSum ==
    ASSUME NEW a \in Index, NEW b \in Index, NEW c \in Index,
           Dist(a, b) + Dist(b, c) <= INPUT_BUF
    PROVE  Dist(a, c) = Dist(a, b) + Dist(b, c)
  <1>1. /\ Dist(a, b) = IF a <= b THEN b - a ELSE b - a + Wrap
        /\ Dist(b, c) = IF b <= c THEN c - b ELSE c - b + Wrap
        /\ Dist(a, c) = IF a <= c THEN c - a ELSE c - a + Wrap
    BY DistFacts
  <1> QED  BY <1>1, SizeFacts DEF Index

\* Moving twice is moving by the sum.
LEMMA PlusPlus ==
    ASSUME NEW a \in Index, NEW i \in -Wrap .. Wrap, NEW j \in -Wrap .. Wrap,
           i + j \in -Wrap .. Wrap
    PROVE  Plus(Plus(a, i), j) = Plus(a, i + j)
  <1>1. PICK b \in Index : b = Plus(a, i)
    BY PlusFacts
  <1>2. PICK k \in -Wrap .. Wrap : k = i + j
    OBVIOUS
  <1>3. /\ 0 <= a + i /\ a + i < Wrap => b = a + i
        /\ Wrap <= a + i => b = a + i - Wrap
        /\ a + i < 0 => b = a + i + Wrap
    BY <1>1, PlusFacts
  <1>4. /\ Plus(b, j) \in Index
        /\ 0 <= b + j /\ b + j < Wrap => Plus(b, j) = b + j
        /\ Wrap <= b + j => Plus(b, j) = b + j - Wrap
        /\ b + j < 0 => Plus(b, j) = b + j + Wrap
    BY PlusFacts
  <1>5. /\ Plus(a, k) \in Index
        /\ 0 <= a + k /\ a + k < Wrap => Plus(a, k) = a + k
        /\ Wrap <= a + k => Plus(a, k) = a + k - Wrap
        /\ a + k < 0 => Plus(a, k) = a + k + Wrap
    BY PlusFacts
  <1>6. Plus(b, j) = Plus(a, k)
    BY <1>2, <1>3, <1>4, <1>5, SizeFacts DEF Index
  <1> QED  BY <1>1, <1>2, <1>6

(***************************************************************************)
(* The characters in the ring                                              *)
(***************************************************************************)
Buffers == [0 .. INPUT_BUF - 1 -> Char]

\* The characters of a buffer from one index to another.
CharsOf(b, from, to) ==
    [i \in 1 .. Dist(from, to) |-> b[Plus(from, i - 1) % INPUT_BUF]]

\* An index stands for a place in the buffer.
LEMMA SlotType ==
    ASSUME NEW a \in Index
    PROVE  a % INPUT_BUF \in 0 .. INPUT_BUF - 1
  <1>1. a \in Int /\ INPUT_BUF \in Nat \ {0}
    BY SizeFacts DEF Index
  <1> QED  BY <1>1

\* Indices less than a buffer apart stand for different places, also across
\* the wrap, since INPUT_BUF divides the range of the indices.
LEMMA SlotsDiffer ==
    ASSUME NEW a \in Index, NEW b \in Index,
           0 < Dist(a, b), Dist(a, b) < INPUT_BUF
    PROVE  a % INPUT_BUF # b % INPUT_BUF
  <1> SUFFICES ASSUME a % INPUT_BUF = b % INPUT_BUF PROVE FALSE
    OBVIOUS
  <1>0. PICK B \in Nat \ {0} : B = INPUT_BUF
    BY SizeFacts
  <1>1. a \in Int /\ b \in Int /\ Wrap \in Int
    BY SizeFacts DEF Index
  <1>2. \A s \in Int : /\ s \div B \in Int /\ s % B \in Int
                       /\ s = B * (s \div B) + (s % B)
    BY <1>0
  <1>3. PICK q \in Int : a = B * q + (a % B)
    BY <1>1, <1>2
  <1>4. PICK s \in Int : b = B * s + (b % B)
    BY <1>1, <1>2
  <1>5. PICK m \in Int : Wrap = B * m
    <2>1. Wrap % B = 0
      BY <1>0, ConsoleAssumption
    <2>2. Wrap = B * (Wrap \div B) + (Wrap % B) /\ Wrap \div B \in Int
      BY <1>1, <1>2
    <2>3. B * (Wrap \div B) \in Int
      BY <2>2
    <2>4. Wrap = B * (Wrap \div B)
      BY <2>1, <2>2, <2>3
    <2> QED  BY <2>2, <2>4
  <1>6. a % B = b % B /\ a % B \in Int
    BY <1>0, <1>1, <1>2
  <1>7. b - a = B * (s - q)
    BY <1>3, <1>4, <1>6
  <1>8. b - a + Wrap = B * (s - q + m)
    BY <1>5, <1>7
  <1>9. Dist(a, b) = b - a \/ Dist(a, b) = b - a + Wrap
    BY DistFacts
  <1>10. PICK t \in Int : Dist(a, b) = B * t
    <2>1. s - q \in Int /\ s - q + m \in Int
      OBVIOUS
    <2> QED  BY <1>7, <1>8, <1>9, <2>1
  <1>11. Dist(a, b) \in Int /\ 0 < B * t /\ B * t < B
    BY <1>0, <1>10, DistFacts
  <1>12. CASE t <= 0
    BY <1>11, <1>12
  <1>13. CASE t >= 1
    BY <1>11, <1>13
  <1> QED  BY <1>12, <1>13

\* They are a sequence, as long as the distance of the indices.
LEMMA CharsType ==
    ASSUME NEW b \in Buffers, NEW from \in Index, NEW to \in Index
    PROVE  /\ CharsOf(b, from, to) \in Seq(Char)
           /\ Len(CharsOf(b, from, to)) = Dist(from, to)
           /\ \A i \in 1 .. Dist(from, to) :
                 /\ Plus(from, i - 1) \in Index
                 /\ CharsOf(b, from, to)[i] = b[Plus(from, i - 1) % INPUT_BUF]
  <1>1. Dist(from, to) \in Nat /\ Dist(from, to) < Wrap
    <2>1. Dist(from, to) \in Index /\ Dist(from, to) \in Nat
      BY DistFacts
    <2> QED  BY <2>1, SizeFacts DEF Index
  <1>2. ASSUME NEW i \in 1 .. Dist(from, to)
        PROVE  /\ Plus(from, i - 1) \in Index
               /\ b[Plus(from, i - 1) % INPUT_BUF] \in Char
    <2>1. i - 1 \in -Wrap .. Wrap
      BY <1>1, SizeFacts
    <2>2. Plus(from, i - 1) \in Index
      BY <2>1, PlusFacts
    <2> QED  BY <2>2, SlotType DEF Buffers
  <1>3. CharsOf(b, from, to) \in [1 .. Dist(from, to) -> Char]
    BY <1>2 DEF CharsOf
  <1>4. CharsOf(b, from, to) \in Seq(Char)
    BY <1>1, <1>3, SeqDef
  <1>5. Len(CharsOf(b, from, to)) = Dist(from, to)
    BY <1>1, <1>3, <1>4
  <1> QED  BY <1>2, <1>4, <1>5 DEF CharsOf

\* Nothing lies between an index and itself.
LEMMA CharsEmpty ==
    ASSUME NEW b \in Buffers, NEW a \in Index
    PROVE  CharsOf(b, a, a) = <<>>
  <1>1. Dist(a, a) = 0
    BY DistFacts
  <1> QED  BY <1>1, CharsType, EmptySeq

\* Writing at an index that is not before the last of them leaves them.
LEMMA CharsKeep ==
    ASSUME NEW b \in Buffers, NEW c \in Char,
           NEW from \in Index, NEW to \in Index, NEW at \in Index,
           Dist(from, to) <= Dist(from, at), Dist(from, at) < INPUT_BUF
    PROVE  CharsOf([b EXCEPT ![at % INPUT_BUF] = c], from, to)
             = CharsOf(b, from, to)
  <1>0. PICK d \in Buffers : d = [b EXCEPT ![at % INPUT_BUF] = c]
    BY DEF Buffers
  <1>1. Dist(from, to) \in Nat /\ Dist(from, at) \in Nat /\ INPUT_BUF < Wrap
    BY DistFacts, SizeFacts
  <1>2. ASSUME NEW i \in 1 .. Dist(from, to)
        PROVE  CharsOf(d, from, to)[i] = CharsOf(b, from, to)[i]
    <2>1. PICK k \in -Wrap .. Wrap : k = i - 1 /\ 0 <= k /\ k < Dist(from, at)
      BY <1>1, SizeFacts
    <2>2. PICK p \in Index : p = Plus(from, k)
      BY PlusFacts
    <2>3. Dist(p, at) = Dist(from, at) - k
      <3>1. /\ 0 <= from + k /\ from + k < Wrap => p = from + k
            /\ Wrap <= from + k => p = from + k - Wrap
        BY <2>2, PlusFacts
      <3>2. /\ Dist(from, at) = IF from <= at THEN at - from ELSE at - from + Wrap
            /\ Dist(p, at) = IF p <= at THEN at - p ELSE at - p + Wrap
        BY DistFacts
      <3> QED  BY <2>1, <3>1, <3>2, SizeFacts DEF Index
    <2>4. p % INPUT_BUF # at % INPUT_BUF
      <3>1. 0 < Dist(p, at) /\ Dist(p, at) < INPUT_BUF
        BY <1>1, <2>1, <2>3, SizeFacts
      <3> QED  BY <3>1, SlotsDiffer
    <2>5. d[p % INPUT_BUF] = b[p % INPUT_BUF]
      BY <1>0, <2>4, SlotType DEF Buffers
    <2>6. /\ CharsOf(d, from, to)[i] = d[Plus(from, i - 1) % INPUT_BUF]
          /\ CharsOf(b, from, to)[i] = b[Plus(from, i - 1) % INPUT_BUF]
      BY CharsType
    <2> QED  BY <2>1, <2>2, <2>5, <2>6
  <1>3. /\ CharsOf(d, from, to) \in Seq(Char)
        /\ CharsOf(b, from, to) \in Seq(Char)
        /\ Len(CharsOf(d, from, to)) = Dist(from, to)
        /\ Len(CharsOf(b, from, to)) = Dist(from, to)
    BY CharsType
  <1>4. CharsOf(d, from, to) = CharsOf(b, from, to)
    BY <1>2, <1>3, SeqEqual
  <1> QED  BY <1>0, <1>4

\* A character written at their end is appended.
LEMMA CharsPut ==
    ASSUME NEW b \in Buffers, NEW c \in Char,
           NEW from \in Index, NEW to \in Index, Dist(from, to) < INPUT_BUF
    PROVE  CharsOf([b EXCEPT ![to % INPUT_BUF] = c], from, Plus(to, 1))
             = Append(CharsOf(b, from, to), c)
  <1>0. PICK d \in Buffers : d = [b EXCEPT ![to % INPUT_BUF] = c]
    BY DEF Buffers
  <1>1. PICK t \in Index : t = Plus(to, 1) /\ Dist(from, t) = Dist(from, to) + 1
    BY DistStep
  <1>2. PICK k \in Nat : k = Dist(from, to) /\ k + 1 \in Nat
    BY DistFacts
  <1>3. PICK s \in Seq(Char) :
           /\ s = CharsOf(d, from, t) /\ Len(s) = k + 1
           /\ \A i \in 1 .. k + 1 : s[i] = d[Plus(from, i - 1) % INPUT_BUF]
    <2>1. /\ CharsOf(d, from, t) \in Seq(Char)
          /\ Len(CharsOf(d, from, t)) = Dist(from, t)
          /\ \A i \in 1 .. Dist(from, t) :
                CharsOf(d, from, t)[i] = d[Plus(from, i - 1) % INPUT_BUF]
      BY CharsType
    <2>2. Dist(from, t) = k + 1
      BY <1>1, <1>2
    <2> QED  BY <2>1, <2>2
  <1>4. PICK u \in Seq(Char) : u = CharsOf(b, from, to) /\ Len(u) = k
    BY <1>2, CharsType
  <1>5. ASSUME NEW i \in 1 .. k PROVE s[i] = u[i]
    <2>1. CharsOf(d, from, to) = u
      <3>1. Dist(from, to) <= Dist(from, to)
        BY <1>2
      <3> QED  BY <1>0, <1>4, <3>1, CharsKeep
    <2>2. CharsOf(d, from, to)[i] = d[Plus(from, i - 1) % INPUT_BUF]
      BY <1>2, CharsType
    <2>3. i \in 1 .. k + 1
      BY <1>2
    <2> QED  BY <1>3, <2>1, <2>2, <2>3
  <1>6. s[k + 1] = c
    <2>1. k + 1 \in 1 .. k + 1 /\ k + 1 - 1 = k
      BY <1>2
    <2>2. Plus(from, k) = to
      BY <1>2, DistPlus
    <2>3. s[k + 1] = d[to % INPUT_BUF]
      BY <1>3, <2>1, <2>2
    <2> QED  BY <1>0, <2>3, SlotType DEF Buffers
  <1>7. s = Append(u, c)
    <2>1. /\ Append(u, c) \in Seq(Char) /\ Len(Append(u, c)) = k + 1
          /\ \A i \in 1 .. k : Append(u, c)[i] = u[i]
          /\ Append(u, c)[k + 1] = c
      BY <1>2, <1>4, AppendProperties
    <2>2. \A i \in 1 .. k + 1 : s[i] = Append(u, c)[i]
      BY <1>2, <1>5, <1>6, <2>1
    <2> QED  BY <1>3, <2>1, <2>2, SeqEqual
  <1> QED  BY <1>0, <1>1, <1>3, <1>4, <1>7

\* Two stretches that follow one another.
LEMMA CharsJoin ==
    ASSUME NEW b \in Buffers, NEW from \in Index, NEW mid \in Index,
           NEW to \in Index, Dist(from, mid) + Dist(mid, to) <= INPUT_BUF
    PROVE  CharsOf(b, from, to) = CharsOf(b, from, mid) \o CharsOf(b, mid, to)
  <1>1. PICK k \in Nat, m \in Nat :
           /\ k = Dist(from, mid) /\ m = Dist(mid, to)
           /\ k + m = Dist(from, to) /\ k + m <= Wrap
    BY DistFacts, DistSum, SizeFacts
  <1>2. PICK s \in Seq(Char) :
           /\ s = CharsOf(b, from, mid) /\ Len(s) = k
           /\ \A i \in 1 .. k : s[i] = b[Plus(from, i - 1) % INPUT_BUF]
    BY <1>1, CharsType
  <1>3. PICK u \in Seq(Char) :
           /\ u = CharsOf(b, mid, to) /\ Len(u) = m
           /\ \A i \in 1 .. m : u[i] = b[Plus(mid, i - 1) % INPUT_BUF]
    BY <1>1, CharsType
  <1>4. PICK v \in Seq(Char) :
           /\ v = CharsOf(b, from, to) /\ Len(v) = k + m
           /\ \A i \in 1 .. k + m : v[i] = b[Plus(from, i - 1) % INPUT_BUF]
    <2>1. /\ CharsOf(b, from, to) \in Seq(Char)
          /\ Len(CharsOf(b, from, to)) = Dist(from, to)
          /\ \A i \in 1 .. Dist(from, to) :
                CharsOf(b, from, to)[i] = b[Plus(from, i - 1) % INPUT_BUF]
      BY CharsType
    <2> QED  BY <1>1, <2>1
  <1>5. /\ s \o u \in Seq(Char) /\ Len(s \o u) = k + m
        /\ \A i \in 1 .. k + m : (s \o u)[i] = IF i <= k THEN s[i] ELSE u[i - k]
    <2>1. /\ s \o u \in Seq(Char) /\ Len(s \o u) = Len(s) + Len(u)
          /\ \A i \in 1 .. Len(s) + Len(u) :
                (s \o u)[i] = IF i <= Len(s) THEN s[i] ELSE u[i - Len(s)]
      BY ConcatProperties
    <2> QED  BY <1>2, <1>3, <2>1
  <1>6. ASSUME NEW i \in 1 .. k + m, k < i PROVE v[i] = u[i - k]
    <2>1. /\ k \in -Wrap .. Wrap /\ i - k - 1 \in -Wrap .. Wrap
          /\ k + (i - k - 1) \in -Wrap .. Wrap
          /\ k + (i - k - 1) = i - 1 /\ i - k \in 1 .. m
      BY <1>1, <1>6, SizeFacts
    <2>2. Plus(Plus(from, k), i - k - 1) = Plus(from, i - 1)
      BY <2>1, PlusPlus
    <2>3. Plus(from, k) = mid
      BY <1>1, DistPlus
    <2>4. u[i - k] = b[Plus(mid, i - k - 1) % INPUT_BUF]
      BY <1>3, <2>1
    <2> QED  BY <1>4, <2>2, <2>3, <2>4
  <1>7. ASSUME NEW i \in 1 .. k + m PROVE v[i] = (s \o u)[i]
    <2>1. CASE i <= k
      <3>1. i \in 1 .. k
        BY <2>1
      <3> QED  BY <1>2, <1>4, <1>5, <2>1, <3>1
    <2>2. CASE k < i
      <3>1. v[i] = u[i - k]
        BY <1>6, <2>2
      <3>2. ~(i <= k)
        BY <2>2
      <3> QED  BY <1>5, <3>1, <3>2
    <2>3. i <= k \/ k < i
      OBVIOUS
    <2> QED  BY <2>1, <2>2, <2>3
  <1>8. v = s \o u
    BY <1>4, <1>5, <1>7, SeqEqual
  <1> QED  BY <1>2, <1>3, <1>4, <1>8

\* Without the last character.
LEMMA CharsFront ==
    ASSUME NEW b \in Buffers, NEW from \in Index, NEW to \in Index, from # to
    PROVE  /\ CharsOf(b, from, to) # <<>>
           /\ CharsOf(b, from, Plus(to, -1))
                = SubSeq(CharsOf(b, from, to), 1, Len(CharsOf(b, from, to)) - 1)
  <1>1. PICK t \in Index : t = Plus(to, -1) /\ Dist(from, t) = Dist(from, to) - 1
    BY DistStep
  <1>2. PICK k \in Nat : Dist(from, to) = k + 1 /\ Dist(from, t) = k
    BY <1>1, DistFacts
  <1>3. PICK s \in Seq(Char) :
           /\ s = CharsOf(b, from, to) /\ Len(s) = k + 1
           /\ \A i \in 1 .. k + 1 : s[i] = b[Plus(from, i - 1) % INPUT_BUF]
    <2>1. /\ CharsOf(b, from, to) \in Seq(Char)
          /\ Len(CharsOf(b, from, to)) = Dist(from, to)
          /\ \A i \in 1 .. Dist(from, to) :
                CharsOf(b, from, to)[i] = b[Plus(from, i - 1) % INPUT_BUF]
      BY CharsType
    <2> QED  BY <1>2, <2>1
  <1>4. PICK u \in Seq(Char) :
           /\ u = CharsOf(b, from, t) /\ Len(u) = k
           /\ \A i \in 1 .. k : u[i] = b[Plus(from, i - 1) % INPUT_BUF]
    BY <1>2, CharsType
  <1>5. /\ SubSeq(s, 1, k) \in Seq(Char) /\ Len(SubSeq(s, 1, k)) = k
        /\ \A i \in 1 .. k : SubSeq(s, 1, k)[i] = s[i]
    BY <1>3
  <1>6. \A i \in 1 .. k : i \in 1 .. k + 1
    OBVIOUS
  <1>7. u = SubSeq(s, 1, k)
    BY <1>3, <1>4, <1>5, <1>6, SeqEqual
  <1>8. s # <<>> /\ Len(s) - 1 = k
    BY <1>3
  <1> QED  BY <1>1, <1>3, <1>4, <1>7, <1>8

\* Without the first character.
LEMMA CharsTail ==
    ASSUME NEW b \in Buffers, NEW from \in Index, NEW to \in Index, from # to
    PROVE  /\ CharsOf(b, from, to) # <<>>
           /\ CharsOf(b, Plus(from, 1), to) = Tail(CharsOf(b, from, to))
  <1>1. PICK f \in Index : f = Plus(from, 1) /\ Dist(f, to) = Dist(from, to) - 1
    BY DistStep
  <1>2. PICK k \in Nat :
           Dist(from, to) = k + 1 /\ Dist(f, to) = k /\ k + 1 < Wrap
    <2>1. Dist(from, to) \in Index /\ Dist(from, to) \in Nat /\ Dist(from, to) # 0
      BY DistFacts
    <2> QED  BY <1>1, <2>1, SizeFacts DEF Index
  <1>3. PICK s \in Seq(Char) :
           /\ s = CharsOf(b, from, to) /\ Len(s) = k + 1
           /\ \A i \in 1 .. k + 1 : s[i] = b[Plus(from, i - 1) % INPUT_BUF]
    <2>1. /\ CharsOf(b, from, to) \in Seq(Char)
          /\ Len(CharsOf(b, from, to)) = Dist(from, to)
          /\ \A i \in 1 .. Dist(from, to) :
                CharsOf(b, from, to)[i] = b[Plus(from, i - 1) % INPUT_BUF]
      BY CharsType
    <2> QED  BY <1>2, <2>1
  <1>4. PICK u \in Seq(Char) :
           /\ u = CharsOf(b, f, to) /\ Len(u) = k
           /\ \A i \in 1 .. k : u[i] = b[Plus(f, i - 1) % INPUT_BUF]
    BY <1>2, CharsType
  <1>5. s # <<>>
    BY <1>3
  <1>6. /\ Tail(s) \in Seq(Char) /\ Len(Tail(s)) = k
        /\ \A i \in 1 .. k : Tail(s)[i] = s[i + 1]
    BY <1>3, <1>5
  <1>7. ASSUME NEW i \in 1 .. k PROVE u[i] = Tail(s)[i]
    <2>1. /\ 1 \in -Wrap .. Wrap /\ i - 1 \in -Wrap .. Wrap
          /\ 1 + (i - 1) \in -Wrap .. Wrap
          /\ 1 + (i - 1) = i + 1 - 1 /\ i + 1 \in 1 .. k + 1
      BY <1>2, SizeFacts
    <2>2. Plus(Plus(from, 1), i - 1) = Plus(from, 1 + (i - 1))
      BY <2>1, PlusPlus
    <2>3. s[i + 1] = b[Plus(from, i + 1 - 1) % INPUT_BUF]
      BY <1>3, <2>1
    <2> QED  BY <1>1, <1>4, <1>6, <2>1, <2>2, <2>3
  <1>8. u = Tail(s)
    BY <1>4, <1>6, <1>7, SeqEqual
  <1> QED  BY <1>1, <1>3, <1>4, <1>5, <1>8

(***************************************************************************)
(* The inductive invariant                                                 *)
(***************************************************************************)

\* The holder of cons.lock is the one process in the loop of consoleread.
LockInv == \A p \in Proc : lock = p <=> pc[p] \in {"read", "tested"}

\* r, w and e come in this order, within one buffer.
RingInv == Dist(r, w) + Dist(w, e) <= INPUT_BUF

\* There is no line's end in the line that is being edited: C('U') goes back
\* to w and not further.
LineInv == \A i \in 1 .. Dist(w, e) : CharsOf(buf, w, e)[i] # NL

\* Who found the buffer empty, or sleeps since, is still right.
SleepInv == \A p \in Proc : pc[p] \in {"tested", "sleep"} => r = w

\* A read has at most as much left as it asked for.
CountInv == \A p \in Proc : n[p] <= target[p]

ConsInv ==
    /\ TypeOK
    /\ LockInv
    /\ RingInv
    /\ LineInv
    /\ SleepInv
    /\ CountInv

\* The types, as the lemmas above want them.
LEMMA IndexFacts ==
    ASSUME TypeOK
    PROVE  /\ r \in Index /\ w \in Index /\ e \in Index /\ buf \in Buffers
           /\ pc \in [Proc -> PC] /\ lock \in Proc \cup {NoProc}
           /\ n \in [Proc -> 0 .. MaxCount] /\ target \in [Proc -> 0 .. MaxCount]
  BY DEF TypeOK, Index, Buffers

\* What a step of a reader can change: its own place, the lock, and r.
LEMMA ReadFacts ==
    ASSUME TypeOK, NEW p \in Proc, Read(p)
    PROVE  /\ buf' = buf /\ w' = w /\ e' = e /\ killed' = killed
           /\ \/ r' = r
              \/ r' = Plus(r, 1) /\ r # w /\ pc[p] = "read"
           /\ \E at \in PC : pc' = [pc EXCEPT ![p] = at]
           /\ \E k \in 0 .. MaxCount, m \in 0 .. MaxCount :
                 /\ n' = [n EXCEPT ![p] = k] /\ target' = [target EXCEPT ![p] = m]
                 /\ n[p] <= target[p] => k <= m
           /\ lock' \in {lock, p, NoProc}
  <1>0. /\ pc \in [Proc -> PC] /\ n \in [Proc -> 0 .. MaxCount]
        /\ target \in [Proc -> 0 .. MaxCount] /\ MaxCount \in Nat
        /\ 0 \in 0 .. MaxCount
        /\ {"idle", "lock", "read", "tested", "sleep"} \subseteq PC
    BY IndexFacts, SizeFacts DEF PC
  <1>1. /\ pc = [pc EXCEPT ![p] = pc[p]] /\ pc[p] \in PC
        /\ n = [n EXCEPT ![p] = n[p]] /\ n[p] \in 0 .. MaxCount
        /\ target = [target EXCEPT ![p] = target[p]]
        /\ target[p] \in 0 .. MaxCount
    BY <1>0
  <1>2. ASSUME Return(p)
        PROVE  /\ \E at \in PC : pc' = [pc EXCEPT ![p] = at]
               /\ \E k \in 0 .. MaxCount, m \in 0 .. MaxCount :
                     /\ n' = [n EXCEPT ![p] = k]
                     /\ target' = [target EXCEPT ![p] = m]
                     /\ n[p] <= target[p] => k <= m
               /\ lock' \in {lock, p, NoProc}
    <2>1. 0 <= 0
      OBVIOUS
    <2> QED  BY <1>0, <1>2, <2>1 DEF Return
  <1>3. CASE ReadLock(p) \/ ReadEmpty(p) \/ ReadSleep(p)
    BY <1>0, <1>1, <1>3 DEF ReadLock, ReadEmpty, ReadSleep
  <1>4. CASE ReadEnd(p) \/ ReadKilled(p)
    BY <1>2, <1>4 DEF ReadEnd, ReadKilled
  <1>5. CASE ReadEOT(p)
    BY <1>2, <1>5 DEF ReadEOT, Saved
  <1>6. CASE ReadChar(p)
    <2>1. CASE Return(p)
      BY <1>2, <1>6, <2>1 DEF ReadChar
    <2>2. CASE n' = [n EXCEPT ![p] = @ - 1] /\ UNCHANGED <<lock, pc, target>>
      <3>1. n[p] - 1 \in 0 .. MaxCount /\ (n[p] <= target[p] => n[p] - 1 <= target[p])
        BY <1>0, <1>1, <1>6 DEF ReadChar
      <3>2. n' = [n EXCEPT ![p] = n[p] - 1]
        BY <2>2
      <3> QED  BY <1>1, <1>6, <2>2, <3>1, <3>2 DEF ReadChar
    <2> QED  BY <1>6, <2>1, <2>2 DEF ReadChar
  <1> QED  BY <1>3, <1>4, <1>5, <1>6 DEF Read

\* wakeup moves sleepers to the lock and nobody else.
LEMMA WakeupFacts ==
    ASSUME pc \in [Proc -> PC]
    PROVE  /\ Wakeup(pc) \in [Proc -> PC]
           /\ \A p \in Proc : Wakeup(pc)[p] = IF pc[p] = "sleep" THEN "lock"
                                             ELSE pc[p]
  BY DEF Wakeup, PC

\* C('U') goes back to the end of the last complete line.
LEMMA KillFacts ==
    ASSUME TypeOK, LineInv, RingInv, KillLine
    PROVE  e' = w
  <1>0. r \in Index /\ w \in Index /\ e \in Index /\ buf \in Buffers
    BY IndexFacts
  <1>1. PICK d \in Nat : d = Dist(w, e) /\ d <= INPUT_BUF
    <2>1. Dist(w, e) \in Nat /\ Dist(r, w) \in Nat
      BY <1>0, DistFacts
    <2> QED  BY <2>1, SizeFacts DEF RingInv
  <1>2. PICK k \in 0 .. INPUT_BUF :
           /\ \A i \in 1 .. k : Plus(e, 1 - i) # w
           /\ Plus(e, -k) = w \/ At(Plus(e, -k - 1)) = NL
           /\ e' = Plus(e, -k)
    BY DEF KillLine
  <1>3. Plus(e, -d) = w
    BY <1>0, <1>1, DistPlus
  <1>4. k <= d
    <2> SUFFICES ASSUME d < k PROVE FALSE
      BY <1>1, SizeFacts
    <2>1. d + 1 \in 1 .. k /\ 1 - (d + 1) = -d
      BY <1>1, SizeFacts
    <2> QED  BY <1>2, <1>3, <2>1
  <1>5. CASE k < d
    <2>1. /\ -d \in -Wrap .. Wrap /\ d - k - 1 \in -Wrap .. Wrap
          /\ -d + (d - k - 1) \in -Wrap .. Wrap
          /\ -d + (d - k - 1) = -k - 1 /\ d - k \in 1 .. d
      BY <1>1, <1>5, SizeFacts
    <2>2. Plus(Plus(e, -d), d - k - 1) = Plus(e, -k - 1)
      BY <1>0, <2>1, PlusPlus
    <2>3. CharsOf(buf, w, e)[d - k] = buf[Plus(w, d - k - 1) % INPUT_BUF]
      BY <1>0, <1>1, <2>1, CharsType
    <2>4. At(Plus(e, -k - 1)) # NL
      BY <1>1, <1>3, <2>1, <2>2, <2>3 DEF LineInv, At
    <2>5. Plus(e, -k) # w
      <3>1. /\ -k \in -Wrap .. Wrap /\ d - k \in -Wrap .. Wrap
            /\ -d \in -Wrap .. Wrap /\ -d + (d - k) = -k
        BY <1>1, <1>5, SizeFacts
      <3>2. Plus(Plus(e, -d), d - k) = Plus(e, -k)
        BY <1>0, <3>1, PlusPlus
      <3>3. PICK m \in -Wrap .. Wrap : m = d - k /\ 0 < m /\ m < Wrap
        BY <1>1, <1>5, <3>1, SizeFacts
      <3>4. /\ 0 <= w + m /\ w + m < Wrap => Plus(w, m) = w + m
            /\ Wrap <= w + m => Plus(w, m) = w + m - Wrap
        BY <1>0, PlusFacts
      <3>5. Plus(w, m) # w
        BY <1>0, <3>3, <3>4, SizeFacts DEF Index
      <3> QED  BY <1>3, <3>2, <3>3, <3>5
    <2> QED  BY <1>2, <2>4, <2>5
  <1>6. CASE k = d
    BY <1>2, <1>3, <1>6
  <1> QED  BY <1>1, <1>4, <1>5, <1>6, SizeFacts

\* What a typed character does to the ring.
LEMMA IntrFacts ==
    ASSUME TypeOK, RingInv, NEW c \in Char, Intr(c)
    PROVE  /\ e' = Plus(e, 1) /\ e' \in Index /\ r' = r
           /\ buf' = [buf EXCEPT ![e % INPUT_BUF] = c] /\ buf' \in Buffers
           /\ Dist(r, e) = Dist(r, w) + Dist(w, e) /\ Dist(r, e) < INPUT_BUF
           /\ Dist(w, e) < INPUT_BUF
           /\ Dist(w, e') = Dist(w, e) + 1 /\ Dist(r, e') = Dist(r, e) + 1
           /\ \/ /\ c \in {NL, EOT} \/ Dist(r, e) + 1 = INPUT_BUF
                 /\ w' = e' /\ pc' = Wakeup(pc)
              \/ /\ c \notin {NL, EOT} /\ Dist(r, e) + 1 # INPUT_BUF
                 /\ w' = w /\ pc' = pc
  <1>0. r \in Index /\ w \in Index /\ e \in Index /\ buf \in Buffers
    BY IndexFacts
  <1>1. Dist(r, e) = Dist(r, w) + Dist(w, e)
    BY <1>0, DistSum DEF RingInv
  <1>2. /\ Dist(r, w) \in Nat /\ Dist(w, e) \in Nat /\ Dist(r, e) < INPUT_BUF
        /\ Dist(w, e) < INPUT_BUF
    BY <1>0, <1>1, DistFacts, SizeFacts DEF Intr, HasRoom
  <1>3. /\ e' = Plus(e, 1) /\ e' \in Index
        /\ Dist(w, e') = Dist(w, e) + 1 /\ Dist(r, e') = Dist(r, e) + 1
    BY <1>0, <1>2, DistStep DEF Intr
  <1>4. e' = Plus(r, INPUT_BUF) <=> Dist(r, e) + 1 = INPUT_BUF
    BY <1>0, <1>3, DistPlus
  <1>5. buf' = [buf EXCEPT ![e % INPUT_BUF] = c] /\ buf' \in Buffers
    BY <1>0 DEF Intr, Buffers
  <1>6. Complete(c, e') <=> c \in {NL, EOT} \/ Dist(r, e) + 1 = INPUT_BUF
    BY <1>4 DEF Complete
  <1> QED  BY <1>1, <1>2, <1>3, <1>5, <1>6 DEF Intr

\* The steps of the console, as the proofs below take them apart.
LEMMA Steps ==
    ASSUME [Next]_vars
    PROVE  \/ Backspace \/ KillLine
           \/ \E c \in Char : Intr(c)
           \/ \E p \in Proc : Read(p)
           \/ \E p \in Proc : Kill(p)
           \/ \E p \in Proc, k \in 0 .. MaxCount : ReadCall(p, k)
           \/ UNCHANGED vars
  BY DEF Next

\* Every step keeps the types.
LEMMA TypeStep == ASSUME ConsInv, [Next]_vars PROVE TypeOK'
  <1>0. /\ TypeOK /\ RingInv /\ LineInv
        /\ r \in Index /\ w \in Index /\ e \in Index /\ buf \in Buffers
        /\ pc \in [Proc -> PC] /\ lock \in Proc \cup {NoProc}
        /\ n \in [Proc -> 0 .. MaxCount] /\ target \in [Proc -> 0 .. MaxCount]
        /\ killed \in [Proc -> BOOLEAN]
    BY IndexFacts DEF ConsInv, TypeOK
  <1>1. ASSUME r' \in Index, w' \in Index, e' \in Index, buf' \in Buffers,
               pc' \in [Proc -> PC], lock' \in Proc \cup {NoProc},
               n' \in [Proc -> 0 .. MaxCount],
               target' \in [Proc -> 0 .. MaxCount],
               killed' \in [Proc -> BOOLEAN]
        PROVE  TypeOK'
    BY <1>1 DEF TypeOK, Index, Buffers
  <1>2. CASE Backspace
    <2>1. e' \in Index
      BY <1>0, <1>2, DistStep DEF Backspace
    <2> QED  BY <1>0, <1>1, <1>2, <2>1 DEF Backspace
  <1>3. CASE KillLine
    <2>1. e' \in Index
      BY <1>0, <1>3, KillFacts
    <2> QED  BY <1>0, <1>1, <1>3, <2>1 DEF KillLine
  <1>4. ASSUME NEW c \in Char, Intr(c) PROVE TypeOK'
    <2>1. /\ e' \in Index /\ buf' \in Buffers
          /\ w' = e' \/ w' = w
          /\ pc' = Wakeup(pc) \/ pc' = pc
      BY <1>0, <1>4, IntrFacts
    <2>2. w' \in Index /\ pc' \in [Proc -> PC]
      BY <1>0, <2>1, WakeupFacts
    <2> QED  BY <1>0, <1>1, <1>4, <2>1, <2>2 DEF Intr
  <1>5. ASSUME NEW p \in Proc, Read(p) PROVE TypeOK'
    <2>1. /\ buf' = buf /\ w' = w /\ e' = e /\ killed' = killed
          /\ r' = r \/ r' = Plus(r, 1)
          /\ \E at \in PC : pc' = [pc EXCEPT ![p] = at]
          /\ \E k \in 0 .. MaxCount, m \in 0 .. MaxCount :
                n' = [n EXCEPT ![p] = k] /\ target' = [target EXCEPT ![p] = m]
          /\ lock' \in {lock, p, NoProc}
      BY <1>0, <1>5, ReadFacts
    <2>2. r' \in Index
      BY <1>0, <2>1, DistStep
    <2>3. pc' \in [Proc -> PC]
      BY <1>0, <2>1
    <2>4. n' \in [Proc -> 0 .. MaxCount] /\ target' \in [Proc -> 0 .. MaxCount]
      BY <1>0, <2>1
    <2> QED  BY <1>0, <1>1, <2>1, <2>2, <2>3, <2>4
  <1>6. ASSUME NEW p \in Proc, Kill(p) PROVE TypeOK'
    <2>1. pc' \in [Proc -> PC]
      BY <1>0, <1>6 DEF Kill, PC
    <2>2. killed' \in [Proc -> BOOLEAN]
      BY <1>0, <1>6 DEF Kill
    <2> QED  BY <1>0, <1>1, <1>6, <2>1, <2>2 DEF Kill
  <1>7. ASSUME NEW p \in Proc, NEW k \in 0 .. MaxCount, ReadCall(p, k)
        PROVE  TypeOK'
    <2>1. pc' \in [Proc -> PC]
      BY <1>0, <1>7 DEF ReadCall, PC
    <2>2. n' \in [Proc -> 0 .. MaxCount] /\ target' \in [Proc -> 0 .. MaxCount]
      BY <1>0, <1>7 DEF ReadCall
    <2> QED  BY <1>0, <1>1, <1>7, <2>1, <2>2 DEF ReadCall
  <1>8. CASE UNCHANGED vars
    BY <1>0, <1>1, <1>8 DEF vars
  <1> QED  BY <1>2, <1>3, <1>4, <1>5, <1>6, <1>7, <1>8, Steps

\* A reader passes the lock on in every step that leaves the loop.
LEMMA LockStep == ASSUME ConsInv, [Next]_vars PROVE LockInv'
  <1>0. /\ TypeOK /\ RingInv /\ LockInv /\ pc \in [Proc -> PC]
        /\ NoProc \notin Proc
    BY IndexFacts, SizeFacts DEF ConsInv
  <1>1. ASSUME lock' = lock,
               \A p \in Proc : pc'[p] \in {"read", "tested"}
                                  <=> pc[p] \in {"read", "tested"}
        PROVE  LockInv'
    BY <1>0, <1>1 DEF LockInv
  <1>2. CASE Backspace \/ KillLine \/ UNCHANGED vars
    BY <1>1, <1>2 DEF Backspace, KillLine, vars
  <1>3. ASSUME NEW c \in Char, Intr(c) PROVE LockInv'
    <2>1. pc' = Wakeup(pc) \/ pc' = pc
      BY <1>0, <1>3, IntrFacts
    <2> QED  BY <1>0, <1>1, <1>3, <2>1, WakeupFacts DEF Intr
  <1>4. ASSUME NEW p \in Proc, Read(p) PROVE LockInv'
    <2>1. CASE ReadLock(p)
      BY <1>0, <2>1 DEF ReadLock, LockInv
    <2>2. CASE ReadEmpty(p)
      BY <1>0, <2>2 DEF ReadEmpty, LockInv
    <2>3. CASE ReadSleep(p)
      BY <1>0, <2>3 DEF ReadSleep, LockInv
    <2>4. ASSUME Return(p), pc[p] = "read" PROVE LockInv'
      BY <1>0, <2>4 DEF Return, LockInv
    <2>5. CASE ReadEnd(p) \/ ReadKilled(p) \/ ReadEOT(p)
      BY <2>4, <2>5 DEF ReadEnd, ReadKilled, ReadEOT
    <2>6. CASE ReadChar(p)
      BY <1>1, <2>4, <2>6 DEF ReadChar
    <2> QED  BY <1>4, <2>1, <2>2, <2>3, <2>5, <2>6 DEF Read
  <1>5. ASSUME NEW p \in Proc, Kill(p) PROVE LockInv'
    BY <1>0, <1>1, <1>5 DEF Kill
  <1>6. ASSUME NEW p \in Proc, NEW k \in 0 .. MaxCount, ReadCall(p, k)
        PROVE  LockInv'
    BY <1>0, <1>1, <1>6 DEF ReadCall
  <1> QED  BY <1>2, <1>3, <1>4, <1>5, <1>6, Steps

\* The indices stay in their order.
LEMMA RingStep == ASSUME ConsInv, [Next]_vars PROVE RingInv'
  <1>0. /\ TypeOK /\ RingInv /\ LineInv
        /\ r \in Index /\ w \in Index /\ e \in Index
        /\ Dist(r, w) \in Nat /\ Dist(w, e) \in Nat
        /\ INPUT_BUF \in Nat /\ Dist(r, w) + Dist(w, e) <= INPUT_BUF
    BY IndexFacts, DistFacts, SizeFacts DEF ConsInv, RingInv
  <1>1. ASSUME r' = r, w' = w, e' = e PROVE RingInv'
    BY <1>0, <1>1 DEF RingInv, Dist
  <1>2. ASSUME Dist(r', w') + Dist(w', e') <= INPUT_BUF PROVE RingInv'
    BY <1>2 DEF RingInv, Dist
  <1>3. CASE Backspace
    <2>1. Dist(w, e') = Dist(w, e) - 1 /\ r' = r /\ w' = w
      BY <1>0, <1>3, DistStep DEF Backspace
    <2> QED  BY <1>0, <1>2, <2>1
  <1>4. CASE KillLine
    <2>1. e' = w /\ r' = r /\ w' = w /\ Dist(w, w) = 0
      BY <1>0, <1>4, KillFacts, DistFacts DEF KillLine
    <2> QED  BY <1>0, <1>2, <2>1
  <1>5. ASSUME NEW c \in Char, Intr(c) PROVE RingInv'
    <2>1. /\ r' = r /\ w' \in {w, e'} /\ e' \in Index
          /\ Dist(r, e) = Dist(r, w) + Dist(w, e) /\ Dist(r, e) < INPUT_BUF
          /\ Dist(w, e') = Dist(w, e) + 1 /\ Dist(r, e') = Dist(r, e) + 1
      BY <1>0, <1>5, IntrFacts
    <2>2. Dist(e', e') = 0
      BY <2>1, DistFacts
    <2>3. Dist(r, w) + Dist(w, e') <= INPUT_BUF
      BY <1>0, <2>1
    <2>4. Dist(r, e') + Dist(e', e') <= INPUT_BUF
      BY <1>0, <2>1, <2>2
    <2> QED  BY <1>2, <2>1, <2>3, <2>4
  <1>6. ASSUME NEW p \in Proc, Read(p) PROVE RingInv'
    <2>1. w' = w /\ e' = e /\ (r' = r \/ (r' = Plus(r, 1) /\ r # w))
      BY <1>0, <1>6, ReadFacts
    <2>2. r # w => Dist(Plus(r, 1), w) = Dist(r, w) - 1
      BY <1>0, DistStep
    <2> QED  BY <1>0, <1>1, <1>2, <2>1, <2>2
  <1>7. ASSUME NEW p \in Proc, Kill(p) PROVE RingInv'
    BY <1>1, <1>7 DEF Kill
  <1>8. ASSUME NEW p \in Proc, NEW k \in 0 .. MaxCount, ReadCall(p, k)
        PROVE  RingInv'
    BY <1>1, <1>8 DEF ReadCall
  <1>9. CASE UNCHANGED vars
    BY <1>1, <1>9 DEF vars
  <1> QED  BY <1>3, <1>4, <1>5, <1>6, <1>7, <1>8, <1>9, Steps

\* A line's end completes the line, so that none is left in it.
LEMMA LineStep == ASSUME ConsInv, [Next]_vars PROVE LineInv'
  <1>0. /\ TypeOK /\ RingInv /\ LineInv /\ buf \in Buffers
        /\ r \in Index /\ w \in Index /\ e \in Index /\ Dist(w, e) \in Nat
    BY IndexFacts, DistFacts DEF ConsInv
  <1>1. ASSUME \A i \in 1 .. Dist(w', e') : CharsOf(buf', w', e')[i] # NL
        PROVE  LineInv'
    BY <1>1 DEF LineInv, CharsOf, Dist, Plus
  <1>2. ASSUME buf' = buf, w' = w, e' = e PROVE LineInv'
    BY <1>0, <1>1, <1>2 DEF LineInv
  <1>3. ASSUME w' = e', e' \in Index PROVE LineInv'
    <2>1. Dist(w', e') = 0
      BY <1>3, DistFacts
    <2> QED  BY <1>1, <2>1
  <1>4. CASE Backspace
    <2>1. /\ Dist(w, e') = Dist(w, e) - 1 /\ buf' = buf /\ w' = w /\ e' \in Index
          /\ w # e
      BY <1>0, <1>4, DistStep DEF Backspace
    <2>2. \A i \in 1 .. Dist(w, e') : i \in 1 .. Dist(w, e)
      BY <1>0, <2>1
    <2>3. ASSUME NEW i \in 1 .. Dist(w, e')
          PROVE  CharsOf(buf, w, e')[i] = CharsOf(buf, w, e)[i]
      <3>1. CharsOf(buf, w, e')[i] = buf[Plus(w, i - 1) % INPUT_BUF]
        BY <1>0, <2>1, CharsType
      <3>2. CharsOf(buf, w, e)[i] = buf[Plus(w, i - 1) % INPUT_BUF]
        BY <1>0, <2>2, CharsType
      <3> QED  BY <3>1, <3>2
    <2> QED  BY <1>0, <1>1, <2>1, <2>2, <2>3 DEF LineInv
  <1>5. CASE KillLine
    <2>1. e' = w /\ w' = w
      BY <1>0, <1>5, KillFacts DEF KillLine
    <2> QED  BY <1>0, <1>3, <2>1
  <1>6. ASSUME NEW c \in Char, Intr(c) PROVE LineInv'
    <2>1. /\ e' = Plus(e, 1) /\ e' \in Index
          /\ buf' = [buf EXCEPT ![e % INPUT_BUF] = c]
          /\ Dist(w, e) < INPUT_BUF /\ Dist(w, e') = Dist(w, e) + 1
          /\ w' = e' \/ (w' = w /\ c \notin {NL, EOT})
      BY <1>0, <1>6, IntrFacts
    <2>2. CASE w' = w /\ c # NL
      <3>1. PICK s \in Seq(Char) : s = CharsOf(buf, w, e) /\ Len(s) = Dist(w, e)
        BY <1>0, CharsType
      <3>2. CharsOf(buf', w', e') = Append(s, c)
        BY <1>0, <2>1, <2>2, <3>1, CharsPut
      <3>3. PICK k \in Nat : k = Dist(w, e)
        BY <1>0
      <3>4. \A i \in 1 .. k + 1 : Append(s, c)[i] = IF i <= k THEN s[i] ELSE c
        BY <3>1, <3>3
      <3>5. \A i \in 1 .. k + 1 : i <= k => i \in 1 .. k
        BY <3>3
      <3>6. \A i \in 1 .. k : s[i] # NL
        BY <1>0, <3>1, <3>3 DEF LineInv
      <3>7. \A i \in 1 .. k + 1 : Append(s, c)[i] # NL
        BY <2>2, <3>4, <3>5, <3>6
      <3>8. Dist(w', e') = k + 1
        BY <2>1, <2>2, <3>3
      <3> QED  BY <1>1, <3>2, <3>7, <3>8
    <2> QED  BY <1>3, <2>1, <2>2
  <1>7. ASSUME NEW p \in Proc, Read(p) PROVE LineInv'
    BY <1>0, <1>2, <1>7, ReadFacts
  <1>8. ASSUME NEW p \in Proc, Kill(p) PROVE LineInv'
    BY <1>2, <1>8 DEF Kill
  <1>9. ASSUME NEW p \in Proc, NEW k \in 0 .. MaxCount, ReadCall(p, k)
        PROVE  LineInv'
    BY <1>2, <1>9 DEF ReadCall
  <1>10. CASE UNCHANGED vars
    BY <1>2, <1>10 DEF vars
  <1> QED  BY <1>4, <1>5, <1>6, <1>7, <1>8, <1>9, <1>10, Steps

\* w moves with a wakeup, and r only while nobody sleeps.
LEMMA SleepStep == ASSUME ConsInv, [Next]_vars PROVE SleepInv'
  <1>0. /\ TypeOK /\ RingInv /\ LockInv /\ SleepInv /\ pc \in [Proc -> PC]
        /\ NoProc \notin Proc
    BY IndexFacts, SizeFacts DEF ConsInv
  <1>1. ASSUME r' = r, w' = w,
               \A p \in Proc : pc'[p] \in {"tested", "sleep"}
                                  => pc[p] \in {"tested", "sleep"}
        PROVE  SleepInv'
    BY <1>0, <1>1 DEF SleepInv
  <1>2. ASSUME \A p \in Proc : pc'[p] \notin {"tested", "sleep"} PROVE SleepInv'
    BY <1>2 DEF SleepInv
  <1>3. CASE Backspace \/ KillLine \/ UNCHANGED vars
    BY <1>1, <1>3 DEF Backspace, KillLine, vars
  <1>4. ASSUME NEW c \in Char, Intr(c) PROVE SleepInv'
    <2>1. r' = r /\ ((w' = w /\ pc' = pc) \/ pc' = Wakeup(pc))
      BY <1>0, <1>4, IntrFacts
    <2>2. \A p \in Proc : pc[p] # "tested"
      BY <1>0, <1>4 DEF Intr, LockInv
    <2>3. CASE pc' = Wakeup(pc)
      BY <1>0, <1>2, <2>2, <2>3, WakeupFacts
    <2> QED  BY <1>1, <2>1, <2>3
  <1>5. ASSUME NEW p \in Proc, Read(p) PROVE SleepInv'
    <2>1. w' = w
      BY <1>0, <1>5, ReadFacts
    <2>2. CASE ReadLock(p)
      BY <1>0, <1>1, <2>2 DEF ReadLock
    <2>3. CASE ReadEmpty(p)
      BY <1>0, <2>3 DEF ReadEmpty, SleepInv
    <2>4. CASE ReadSleep(p)
      BY <1>0, <1>1, <2>4 DEF ReadSleep
    <2>5. CASE ReadEnd(p) \/ ReadKilled(p)
      BY <1>0, <1>1, <2>5 DEF ReadEnd, ReadKilled, Return
    <2>6. CASE ReadEOT(p) \/ ReadChar(p)
      <3>1. \A q \in Proc : pc[q] \notin {"tested", "sleep"}
        BY <1>0, <2>6 DEF ReadEOT, ReadChar, SleepInv
      <3>2. pc' = [pc EXCEPT ![p] = "idle"] \/ pc' = pc
        BY <2>6 DEF ReadEOT, ReadChar, Return
      <3> QED  BY <1>0, <1>2, <3>1, <3>2
    <2> QED  BY <1>5, <2>2, <2>3, <2>4, <2>5, <2>6 DEF Read
  <1>6. ASSUME NEW p \in Proc, Kill(p) PROVE SleepInv'
    BY <1>0, <1>1, <1>6 DEF Kill
  <1>7. ASSUME NEW p \in Proc, NEW k \in 0 .. MaxCount, ReadCall(p, k)
        PROVE  SleepInv'
    BY <1>0, <1>1, <1>7 DEF ReadCall
  <1> QED  BY <1>3, <1>4, <1>5, <1>6, <1>7, Steps

\* n counts down from target.
LEMMA CountStep == ASSUME ConsInv, [Next]_vars PROVE CountInv'
  <1>0. /\ TypeOK /\ RingInv /\ CountInv
        /\ n \in [Proc -> 0 .. MaxCount] /\ target \in [Proc -> 0 .. MaxCount]
    BY IndexFacts DEF ConsInv
  <1>1. ASSUME n' = n, target' = target PROVE CountInv'
    BY <1>0, <1>1 DEF CountInv
  <1>2. CASE Backspace \/ KillLine \/ UNCHANGED vars
    BY <1>1, <1>2 DEF Backspace, KillLine, vars
  <1>3. ASSUME NEW c \in Char, Intr(c) PROVE CountInv'
    BY <1>1, <1>3 DEF Intr
  <1>4. ASSUME NEW p \in Proc, Read(p) PROVE CountInv'
    <2>1. PICK k \in 0 .. MaxCount, m \in 0 .. MaxCount :
             /\ n' = [n EXCEPT ![p] = k] /\ target' = [target EXCEPT ![p] = m]
             /\ n[p] <= target[p] => k <= m
      BY <1>0, <1>4, ReadFacts
    <2>2. k <= m
      BY <1>0, <2>1 DEF CountInv
    <2> QED  BY <1>0, <2>1, <2>2 DEF CountInv
  <1>5. ASSUME NEW p \in Proc, Kill(p) PROVE CountInv'
    BY <1>1, <1>5 DEF Kill
  <1>6. ASSUME NEW p \in Proc, NEW k \in 0 .. MaxCount, ReadCall(p, k)
        PROVE  CountInv'
    <2>1. k <= k
      BY SizeFacts
    <2> QED  BY <1>0, <1>6, <2>1 DEF ReadCall, CountInv
  <1> QED  BY <1>2, <1>3, <1>4, <1>5, <1>6, Steps

\* An empty buffer, and nobody reads.
LEMMA InitInv == Init => ConsInv
  <1> SUFFICES ASSUME Init PROVE ConsInv
    OBVIOUS
  <1>0. /\ 0 \in Index /\ Dist(0, 0) = 0 /\ 0 \in 0 .. MaxCount
        /\ INPUT_BUF \in Nat /\ NoProc \notin Proc /\ "idle" \in PC
    <2>1. 0 \in Index
      BY SizeFacts DEF Index
    <2>2. Dist(0, 0) = 0
      BY <2>1, DistFacts
    <2> QED  BY <2>1, <2>2, SizeFacts DEF PC
  <1>1. TypeOK
    BY <1>0 DEF Init, TypeOK, Index
  <1>2. LockInv
    BY <1>0 DEF Init, LockInv
  <1>3. RingInv
    BY <1>0 DEF Init, RingInv
  <1>4. LineInv
    BY <1>0 DEF Init, LineInv
  <1>5. SleepInv
    BY DEF Init, SleepInv
  <1>6. CountInv
    <2>1. 0 <= 0
      OBVIOUS
    <2> QED  BY <2>1 DEF Init, CountInv
  <1> QED  BY <1>1, <1>2, <1>3, <1>4, <1>5, <1>6 DEF ConsInv

\* ConsInv is inductive.
LEMMA Invariance == Spec => []ConsInv
  <1>1. ConsInv /\ [Next]_vars => ConsInv'
    BY TypeStep, LockStep, RingStep, LineStep, SleepStep, CountStep DEF ConsInv
  <1> QED  BY <1>1, InitInv, PTL DEF Spec

(***************************************************************************)
(* What readers can rely on                                                *)
(***************************************************************************)

\* The indices stay in their range, and no reader of the console sleeps at a
\* buffer that has something to read, however the keyboard's interrupts,
\* several readers and kills interleave.
THEOREM ReadersSafe == Spec => []ReaderSound
  <1>1. ConsInv => ReaderSound
    BY DEF ConsInv, SleepInv, ReaderSound, NoLostWakeup
  <1> QED  BY <1>1, Invariance, PTL

\* C('D') is consumed by a read that returns nothing else, and a read returns
\* nothing only because of it or of kill.
THEOREM EndOfFile == Spec => EndOfFileOnce
  <1>1. ASSUME ConsInv, [Next]_vars, NEW p \in Proc
        PROVE  /\ lock = p /\ r # w /\ At(r) = EOT /\ r' # r
                  => n[p] = target[p] /\ pc'[p] = "idle"
               /\ lock = p /\ pc'[p] = "idle" /\ n[p] = target[p] /\ n[p] > 0
                  => killed[p] \/ r' # r
    <2>0. /\ TypeOK /\ RingInv /\ r \in Index /\ pc \in [Proc -> PC]
          /\ n[p] \in Nat /\ target[p] \in Nat /\ n[p] <= target[p]
          /\ Plus(r, 1) # r /\ NoProc \notin Proc
      BY <1>1, IndexFacts, DistStep, SizeFacts DEF ConsInv, CountInv
    <2>1. \A q \in Proc : pc[q] \in {"read", "tested"} => lock = q
      BY <1>1 DEF ConsInv, LockInv
    <2>2. lock = p => pc[p] \in {"read", "tested"}
      BY <1>1 DEF ConsInv, LockInv
    <2>3. ASSUME r' = r, lock = p => pc'[p] # "idle"
          PROVE  /\ lock = p /\ r # w /\ At(r) = EOT /\ r' # r
                    => n[p] = target[p] /\ pc'[p] = "idle"
                 /\ lock = p /\ pc'[p] = "idle" /\ n[p] = target[p] /\ n[p] > 0
                    => killed[p] \/ r' # r
      BY <2>3
    <2>4. CASE Backspace \/ KillLine \/ UNCHANGED vars
      BY <2>2, <2>3, <2>4 DEF Backspace, KillLine, vars
    <2>5. ASSUME NEW c \in Char, Intr(c) PROVE lock # p /\ r' = r
      BY <2>0, <2>5 DEF Intr
    <2>6. ASSUME NEW q \in Proc, Kill(q)
          PROVE  r' = r /\ (lock = p => pc'[p] # "idle")
      BY <2>0, <2>2, <2>6 DEF Kill
    <2>7. ASSUME NEW q \in Proc, NEW k \in 0 .. MaxCount, ReadCall(q, k)
          PROVE  r' = r /\ (lock = p => pc'[p] # "idle")
      BY <2>0, <2>2, <2>7 DEF ReadCall
    <2>8. ASSUME NEW q \in Proc, Read(q), q # p
          PROVE  lock # p \/ (r' = r /\ pc'[p] # "idle")
      <3>1. CASE ReadLock(q)
        BY <2>0, <3>1 DEF ReadLock
      <3>2. CASE ~ReadLock(q)
        <4>1. pc[q] \in {"read", "tested"}
          BY <2>8, <3>2 DEF Read, ReadEnd, ReadKilled, ReadEmpty, ReadSleep,
                            ReadEOT, ReadChar
        <4> QED  BY <2>1, <2>8, <4>1
      <3> QED  BY <3>1, <3>2
    <2>9. ASSUME Read(p)
          PROVE  /\ r # w /\ At(r) = EOT /\ r' # r
                    => n[p] = target[p] /\ pc'[p] = "idle"
                 /\ pc'[p] = "idle" /\ n[p] = target[p] /\ n[p] > 0
                    => killed[p] \/ r' # r
      <3>1. CASE ReadLock(p) \/ ReadEmpty(p) \/ ReadSleep(p)
        BY <2>0, <3>1 DEF ReadLock, ReadEmpty, ReadSleep
      <3>2. CASE ReadEnd(p) \/ ReadKilled(p)
        BY <2>0, <3>2 DEF ReadEnd, ReadKilled
      <3>3. CASE ReadEOT(p)
        <4>1. pc'[p] = "idle"
          BY <2>0, <3>3 DEF ReadEOT, Return
        <4>2. n[p] < target[p] => r' = r
          BY <3>3 DEF ReadEOT, Saved
        <4>3. ~(n[p] < target[p]) => r' # r /\ n[p] = target[p]
          BY <2>0, <3>3 DEF ReadEOT, Saved
        <4>4. n[p] = target[p] => ~(n[p] < target[p])
          BY <2>0
        <4> QED  BY <4>1, <4>2, <4>3, <4>4
      <3>4. CASE ReadChar(p)
        BY <2>0, <3>4 DEF ReadChar
      <3> QED  BY <2>9, <3>1, <3>2, <3>3, <3>4 DEF Read
    <2> QED  BY <1>1, <2>3, <2>4, <2>5, <2>6, <2>7, <2>8, <2>9, Steps
  <1>2. ConsInv /\ [Next]_vars =>
            [\A p \in Proc :
               /\ lock = p /\ r # w /\ At(r) = EOT /\ r' # r
                  => n[p] = target[p] /\ pc'[p] = "idle"
               /\ lock = p /\ pc'[p] = "idle" /\ n[p] = target[p] /\ n[p] > 0
                  => killed[p] \/ r' # r]_vars
    BY <1>1
  <1> QED  BY <1>2, Invariance, PTL DEF Spec, EndOfFileOnce

(***************************************************************************)
(* The ring is a queue of lines                                            *)
(***************************************************************************)

\* The refinement's characters, with the buffer as a parameter.
LEMMA CharsNow ==
    /\ Chars(r, w) = CharsOf(buf, r, w) /\ Chars(w, e) = CharsOf(buf, w, e)
    /\ Chars(r, w)' = CharsOf(buf', r', w')
    /\ Chars(w, e)' = CharsOf(buf', w', e')
  BY DEF Chars, CharsOf, At, Plus, Dist

\* The queue's variables are the characters from r to w and from w to e.
LEMMA LinesKept ==
    ASSUME buf' = buf, r' = r, w' = w, e' = e
    PROVE  UNCHANGED Lines!lineVars
  BY CharsNow DEF Lines!lineVars

\* Every behaviour of the console's ring, with its three wrapping indices, is
\* one of a line that is edited until it is complete and then handed out
\* once, in order.
THEOREM ConsoleIsLineQueue == Spec => IsLineQueue
  <1>1. Init => Lines!LineInit
    <2> SUFFICES ASSUME Init PROVE Lines!LineInit
      OBVIOUS
    <2>1. TypeOK /\ r = 0 /\ w = 0 /\ e = 0
      BY InitInv DEF Init, ConsInv
    <2>2. 0 \in Index /\ buf \in Buffers
      BY <2>1, IndexFacts
    <2>3. CharsOf(buf, r, w) = <<>> /\ CharsOf(buf, w, e) = <<>>
      BY <2>1, <2>2, CharsEmpty
    <2> QED  BY <2>3, CharsNow DEF Lines!LineInit
  <1>2. ConsInv /\ [Next]_vars => [Lines!LineNext]_(Lines!lineVars)
    <2> SUFFICES ASSUME ConsInv, [Next]_vars
                 PROVE  [Lines!LineNext]_(Lines!lineVars)
      OBVIOUS
    <2>0. /\ TypeOK /\ RingInv /\ LineInv /\ buf \in Buffers
          /\ r \in Index /\ w \in Index /\ e \in Index
          /\ Dist(r, w) \in Nat /\ Dist(w, e) \in Nat
      BY IndexFacts, DistFacts DEF ConsInv
    <2>1. ASSUME NEW c \in Char, Intr(c) PROVE Lines!Type(c)
      <3>1. /\ e' = Plus(e, 1) /\ e' \in Index /\ r' = r
            /\ buf' = [buf EXCEPT ![e % INPUT_BUF] = c] /\ buf' \in Buffers
            /\ Dist(r, e) = Dist(r, w) + Dist(w, e) /\ Dist(r, e) < INPUT_BUF
            /\ Dist(w, e) < INPUT_BUF
            /\ Dist(w, e') = Dist(w, e) + 1
            /\ \/ /\ c \in {NL, EOT} \/ Dist(r, e) + 1 = INPUT_BUF
                  /\ w' = e'
               \/ /\ c \notin {NL, EOT} /\ Dist(r, e) + 1 # INPUT_BUF
                  /\ w' = w
        BY <2>0, <2>1, IntrFacts
      <3>2. /\ Len(CharsOf(buf, r, w)) = Dist(r, w)
            /\ Len(CharsOf(buf, w, e)) = Dist(w, e)
        BY <2>0, CharsType
      <3>3. CharsOf(buf', r, w) = CharsOf(buf, r, w)
        <4>0. buf \in Buffers /\ r \in Index /\ w \in Index /\ e \in Index
          BY <2>0
        <4>1. Dist(r, w) <= Dist(r, e) /\ Dist(r, e) < INPUT_BUF
          BY <2>0, <3>1
        <4>2. CharsOf([buf EXCEPT ![e % INPUT_BUF] = c], r, w)
                = CharsOf(buf, r, w)
          BY <4>0, <4>1, CharsKeep
        <4> QED  BY <3>1, <4>2
      <3>4. CharsOf(buf', w, e') = Append(CharsOf(buf, w, e), c)
        BY <2>0, <3>1, CharsPut
      <3>5. CharsOf(buf', r, e')
              = CharsOf(buf, r, w) \o Append(CharsOf(buf, w, e), c)
        <4>1. Dist(r, w) + Dist(w, e') <= INPUT_BUF
          BY <2>0, <3>1, SizeFacts
        <4>2. CharsOf(buf', r, e') = CharsOf(buf', r, w) \o CharsOf(buf', w, e')
          <5>1. PICK b \in Buffers, x \in Index : b = buf' /\ x = e'
            BY <3>1
          <5>2. Dist(r, w) + Dist(w, x) <= INPUT_BUF
            BY <4>1, <5>1
          <5>3. CharsOf(b, r, x) = CharsOf(b, r, w) \o CharsOf(b, w, x)
            BY <2>0, <5>2, CharsJoin
          <5> QED  BY <5>1, <5>3
        <4> QED  BY <3>3, <3>4, <4>2
      <3>6. CharsOf(buf', e', e') = <<>>
        BY <3>1, CharsEmpty
      <3>7. CASE /\ c \in {NL, EOT} \/ Dist(r, e) + 1 = INPUT_BUF
                 /\ w' = e'
        BY <3>1, <3>2, <3>5, <3>6, <3>7, CharsNow DEF Lines!Type
      <3>8. CASE /\ c \notin {NL, EOT} /\ Dist(r, e) + 1 # INPUT_BUF
                 /\ w' = w
        BY <3>1, <3>2, <3>3, <3>4, <3>8, CharsNow DEF Lines!Type
      <3> QED  BY <3>1, <3>7, <3>8
    <2>2. ASSUME Backspace PROVE Lines!Erase
      <3>1. e' = Plus(e, -1) /\ r' = r /\ w' = w /\ buf' = buf /\ w # e
        BY <2>2 DEF Backspace
      <3>2. /\ CharsOf(buf, w, e) # <<>>
            /\ CharsOf(buf, w, e')
                 = SubSeq(CharsOf(buf, w, e), 1, Len(CharsOf(buf, w, e)) - 1)
        BY <2>0, <3>1, CharsFront
      <3> QED  BY <3>1, <3>2, CharsNow DEF Lines!Erase, Lines!Front
    <2>3. ASSUME KillLine PROVE Lines!KillLine
      <3>1. e' = w /\ r' = r /\ w' = w /\ buf' = buf
        BY <2>0, <2>3, KillFacts DEF KillLine
      <3>2. CharsOf(buf, w, w) = <<>>
        BY <2>0, CharsEmpty
      <3> QED  BY <3>1, <3>2, CharsNow DEF Lines!KillLine
    <2>4. ASSUME NEW p \in Proc, Read(p)
          PROVE  Lines!Take \/ UNCHANGED Lines!lineVars
      <3>1. /\ buf' = buf /\ w' = w /\ e' = e
            /\ r' = r \/ (r' = Plus(r, 1) /\ r # w)
        BY <2>0, <2>4, ReadFacts
      <3>2. CASE r' = r
        BY <3>1, <3>2, LinesKept
      <3>3. CASE r' = Plus(r, 1) /\ r # w
        <4>1. /\ CharsOf(buf, r, w) # <<>>
              /\ CharsOf(buf, r', w) = Tail(CharsOf(buf, r, w))
          BY <2>0, <3>3, CharsTail
        <4> QED  BY <3>1, <4>1, CharsNow DEF Lines!Take
      <3> QED  BY <3>1, <3>2, <3>3
    <2>5. ASSUME NEW p \in Proc, Kill(p) PROVE UNCHANGED Lines!lineVars
      BY <2>5, LinesKept DEF Kill
    <2>6. ASSUME NEW p \in Proc, NEW k \in 0 .. MaxCount, ReadCall(p, k)
          PROVE  UNCHANGED Lines!lineVars
      BY <2>6, LinesKept DEF ReadCall
    <2>7. ASSUME UNCHANGED vars PROVE UNCHANGED Lines!lineVars
      BY <2>7, LinesKept DEF vars
    <2> QED  BY <2>1, <2>2, <2>3, <2>4, <2>5, <2>6, <2>7, Steps
             DEF Lines!LineNext
  <1> QED  BY <1>1, <1>2, Invariance, PTL DEF Spec, IsLineQueue, Lines!LineSpec
=============================================================================
