------------------------ MODULE ReopenedTableProofs ------------------------
(***************************************************************************)
(* Proofs about ReopenedTable for columns, names and values of any number  *)
(* and any length, and bytes of any number of bits.                        *)
(***************************************************************************)
EXTENDS ReopenedTable, SequenceTheorems, FiniteSetTheorems, WellFoundedInduction, TLAPS

-----------------------------------------------------------------------------
(* Sequences and numbers.                                                  *)

\* A set of numbers that has a member has a least one.
LEMMA LeastExists ==
    ASSUME NEW T \in SUBSET Nat, T # {}
    PROVE  \E x \in T : \A y \in T : x <= y
<1>1. PICK x \in T : \A y \in T : ~ (<<y, x>> \in OpToRel(<, Nat))
  BY NatLessThanWellFounded, WFMin, Zenon
<1>2. \A y \in T : ~ (y < x)
  BY <1>1, Zenon DEF OpToRel
<1> QED BY <1>2

-----------------------------------------------------------------------------
(* Induction and recursion, with sets and functions in the place of          *)
(* predicates and operators.                                                 *)

LEMMA NumberInduction ==
    ASSUME NEW T, 0 \in T, \A k \in Nat : k \in T => k + 1 \in T
    PROVE  \A n \in Nat : n \in T
<1> DEFINE U == {n \in Nat : n \notin T}
<1> SUFFICES ASSUME U # {} PROVE FALSE
  OBVIOUS
<1>1. PICK x \in U : \A y \in U : x <= y
  BY LeastExists
<1>2. x \in Nat /\ x \notin T /\ x # 0
  OBVIOUS
<1>3. x - 1 \in Nat /\ x - 1 \notin U
  BY <1>1, <1>2
<1>4. x - 1 \in T
  BY <1>3
<1>5. (x - 1) + 1 \in T
  BY <1>3, <1>4
<1> QED BY <1>2, <1>5

\* What a loop computes in n turns, when turn k makes F[k][x] of x.
Turns(n, X, start, F) ==
    {f \in [0 .. n -> X] : f[0] = start /\ \A k \in 1 .. n : f[k] = F[k][f[k - 1]]}

\* Such a loop exists.
LEMMA TurnsExist ==
    ASSUME NEW X, NEW start \in X, NEW m \in Nat, NEW F, \A k \in 1 .. m : F[k] \in [X -> X]
    PROVE  Turns(m, X, start, F) # {}
<1> DEFINE T == {n \in Nat : n <= m => Turns(n, X, start, F) # {}}
<1>1. 0 \in T
  <2>1. [k \in 0 .. 0 |-> start] \in Turns(0, X, start, F)
    BY DEF Turns
  <2> QED BY <2>1
<1>2. ASSUME NEW k \in Nat, k \in T PROVE k + 1 \in T
  <2> SUFFICES ASSUME k + 1 <= m PROVE Turns(k + 1, X, start, F) # {}
    OBVIOUS
  <2>1. PICK f \in [0 .. k -> X] : f[0] = start /\ \A j \in 1 .. k : f[j] = F[j][f[j - 1]]
    BY <1>2 DEF Turns
  <2> DEFINE g == [j \in 0 .. k + 1 |-> IF j = k + 1 THEN F[k + 1][f[k]] ELSE f[j]]
  <2>2. F[k + 1][f[k]] \in X
    BY <2>1
  <2>3. \A j \in 0 .. k : g[j] = f[j] /\ j \in 0 .. k + 1
    OBVIOUS
  <2>4. g \in [0 .. k + 1 -> X] /\ g[0] = start
    <3>1. \A j \in 0 .. k + 1 : j = k + 1 \/ j \in 0 .. k
      OBVIOUS
    <3> QED BY <2>1, <2>2, <2>3, <3>1
  <2>5. ASSUME NEW j \in 1 .. k + 1 PROVE g[j] = F[j][g[j - 1]]
    <3>1. j - 1 \in 0 .. k
      OBVIOUS
    <3>2. g[j - 1] = f[j - 1]
      BY <3>1, <2>3
    <3>3. CASE j = k + 1
      <4>1. g[j] = F[k + 1][f[k]] /\ j - 1 = k
        BY <3>3
      <4> HIDE DEF g
      <4> QED BY <3>2, <3>3, <4>1
    <3>4. CASE j # k + 1
      <4>1. j \in 1 .. k /\ g[j] = f[j]
        BY <3>4
      <4> HIDE DEF g
      <4> QED BY <2>1, <3>2, <4>1
    <3> QED BY <3>3, <3>4
  <2> HIDE DEF g
  <2>6. g \in Turns(k + 1, X, start, F)
    BY <2>4, <2>5 DEF Turns
  <2> QED BY <2>6
<1>3. m \in T
  <2> HIDE DEF T
  <2> QED BY <1>1, <1>2, NumberInduction
<1> QED BY <1>3

\* The same for a loop that does not end.
Forever(X, start, F) ==
    {f \in [Nat -> X] : f[0] = start /\ \A k \in Nat \ {0} : f[k] = F[k][f[k - 1]]}

LEMMA LoopGoesOn ==
    ASSUME NEW X, NEW start \in X, NEW F \in [Nat -> [X -> X]]
    PROVE  Forever(X, start, F) # {}
<1>1. ASSUME NEW n \in Nat PROVE Turns(n, X, start, F) # {}
  <2>1. \A k \in 1 .. n : F[k] \in [X -> X]
    OBVIOUS
  <2> QED BY <2>1, TurnsExist
<1>2. ASSUME NEW m \in Nat, NEW n \in Nat, NEW g \in Turns(m, X, start, F),
             NEW h \in Turns(n, X, start, F)
      PROVE  \A k \in Nat : k <= m /\ k <= n => g[k] = h[k]
  <2> DEFINE T == {k \in Nat : k <= m /\ k <= n => g[k] = h[k]}
  <2>1. 0 \in T
    BY DEF Turns
  <2>2. ASSUME NEW k \in Nat, k \in T PROVE k + 1 \in T
    <3> SUFFICES ASSUME k + 1 <= m, k + 1 <= n PROVE g[k + 1] = h[k + 1]
      OBVIOUS
    <3>1. g[k] = h[k]
      BY <2>2
    <3>2. k + 1 \in 1 .. m /\ k + 1 \in 1 .. n /\ (k + 1) - 1 = k
      OBVIOUS
    <3> HIDE DEF T
    <3> QED BY <3>1, <3>2 DEF Turns
  <2>3. \A k \in Nat : k \in T
    <3> HIDE DEF T
    <3> QED BY <2>1, <2>2, NumberInduction
  <2> QED BY <2>3
<1> DEFINE sol(n) == CHOOSE g : g \in Turns(n, X, start, F)
           f == [n \in Nat |-> sol(n)[n]]
<1>3. ASSUME NEW n \in Nat PROVE sol(n) \in Turns(n, X, start, F)
  BY <1>1
<1> HIDE DEF sol
<1>4. ASSUME NEW k \in Nat PROVE f[k] \in X /\ f[k] = IF k = 0 THEN start ELSE F[k][f[k - 1]]
  <2>1. f[k] = sol(k)[k] /\ sol(k) \in Turns(k, X, start, F)
    BY <1>3
  <2>2. sol(k)[k] \in X /\ (k = 0 => sol(k)[k] = start)
    BY <2>1 DEF Turns
  <2>3. CASE k # 0
    <3>1. k - 1 \in Nat /\ k \in 1 .. k
      BY <2>3
    <3>2. f[k - 1] = sol(k - 1)[k - 1] /\ sol(k - 1) \in Turns(k - 1, X, start, F)
      BY <1>3, <3>1
    <3>3. sol(k - 1)[k - 1] = sol(k)[k - 1]
      <4>1. k - 1 <= k - 1 /\ k - 1 <= k
        BY <3>1
      <4> QED BY <1>2, <2>1, <3>1, <3>2, <4>1
    <3>4. sol(k)[k] = F[k][sol(k)[k - 1]]
      BY <2>1, <3>1 DEF Turns
    <3> HIDE DEF f
    <3> QED BY <2>1, <2>2, <2>3, <3>2, <3>3, <3>4
  <2> QED BY <2>1, <2>2, <2>3
<1>5. f \in [Nat -> X]
  BY <1>4
<1>6. f[0] = start /\ \A k \in Nat \ {0} : f[k] = F[k][f[k - 1]]
  <2> HIDE DEF f
  <2> QED BY <1>4
<1> QED BY <1>5, <1>6 DEF Forever

\* A loop whose turns stay in a set ends in it.
LEMMA LoopStays ==
    ASSUME NEW n \in Nat, NEW f, NEW X, f[0] \in X,
           \A k \in 1 .. n : f[k - 1] \in X => f[k] \in X
    PROVE  \A k \in 0 .. n : f[k] \in X
<1> DEFINE T == {k \in Nat : k <= n => f[k] \in X}
<1>1. 0 \in T
  OBVIOUS
<1>2. ASSUME NEW k \in Nat, k \in T PROVE k + 1 \in T
  <2> SUFFICES ASSUME k + 1 <= n PROVE f[k + 1] \in X
    OBVIOUS
  <2>1. k + 1 \in 1 .. n /\ (k + 1) - 1 = k /\ f[k] \in X
    BY <1>2
  <2> HIDE DEF T
  <2> QED BY <2>1
<1>3. \A k \in Nat : k \in T
  <2> HIDE DEF T
  <2> QED BY <1>1, <1>2, NumberInduction
<1> QED BY <1>3

\* A loop that adds numbers up.
LEMMA SumExists ==
    ASSUME NEW n \in Nat, NEW g, \A k \in 1 .. n : g[k] \in Nat
    PROVE  \E f \in [0 .. n -> Nat] : f[0] = 0 /\ \A k \in 1 .. n : f[k] = f[k - 1] + g[k]
<1> DEFINE F == [k \in 1 .. n |-> [x \in Nat |-> x + g[k]]]
<1>1. \A k \in 1 .. n : F[k] \in [Nat -> Nat] /\ \A x \in Nat : F[k][x] = x + g[k]
  OBVIOUS
<1> HIDE DEF F
<1>2. Turns(n, Nat, 0, F) # {}
  <2>1. \A k \in 1 .. n : F[k] \in [Nat -> Nat]
    BY <1>1
  <2> QED BY <2>1, TurnsExist
<1>3. PICK f \in [0 .. n -> Nat] : f[0] = 0 /\ \A k \in 1 .. n : f[k] = F[k][f[k - 1]]
  BY <1>2 DEF Turns
<1>4. ASSUME NEW k \in 1 .. n PROVE f[k] = f[k - 1] + g[k]
  <2>1. k - 1 \in 0 .. n
    OBVIOUS
  <2>2. f[k - 1] \in Nat
    BY <2>1
  <2> QED BY <1>1, <1>3, <2>2
<1> QED BY <1>3, <1>4

-----------------------------------------------------------------------------
(* Parts of a sequence.                                                      *)

\* The sequence part lies in s behind the first p elements.
Holds(s, p, part) ==
    /\ p + Len(part) <= Len(s)
    /\ \A b \in 1 .. Len(part) : s[p + b] = part[b]

\* What is written behind a sequence leaves the parts it had and is a part;
\* the parts of what is written lie behind it.
LEMMA WrittenBehind ==
    ASSUME NEW S, NEW s \in Seq(S), NEW t \in Seq(S), NEW part \in Seq(S), NEW p \in Nat
    PROVE  /\ s \o t \in Seq(S) /\ Len(s \o t) = Len(s) + Len(t)
           /\ Holds(s, p, part) => Holds(s \o t, p, part)
           /\ Holds(s \o t, Len(s), t)
           /\ Holds(t, p, part) => Holds(s \o t, Len(s) + p, part)
<1> DEFINE u == s \o t
<1>1. Len(s) \in Nat /\ Len(t) \in Nat /\ Len(part) \in Nat
  BY LenProperties
<1>2. /\ u \in Seq(S) /\ Len(u) = Len(s) + Len(t)
      /\ \A n \in 1 .. Len(s) + Len(t) : u[n] = IF n <= Len(s) THEN s[n] ELSE t[n - Len(s)]
  BY ConcatProperties
<1> HIDE DEF u
<1>3. \A n \in 1 .. Len(s) : u[n] = s[n]
  BY <1>1, <1>2
<1>4. \A n \in 1 .. Len(t) : u[Len(s) + n] = t[n]
  <2> TAKE n \in 1 .. Len(t)
  <2>1. Len(s) + n \in 1 .. Len(s) + Len(t) /\ ~ (Len(s) + n <= Len(s)) /\ (Len(s) + n) - Len(s) = n
    BY <1>1
  <2> QED BY <1>2, <2>1
<1>5. ASSUME Holds(s, p, part) PROVE Holds(u, p, part)
  BY <1>1, <1>2, <1>3, <1>5 DEF Holds
<1>6. Holds(u, Len(s), t)
  BY <1>1, <1>2, <1>4 DEF Holds
<1>7. ASSUME Holds(t, p, part) PROVE Holds(u, Len(s) + p, part)
  <2>1. \A b \in 1 .. Len(part) : u[(Len(s) + p) + b] = part[b]
    <3> TAKE b \in 1 .. Len(part)
    <3>1. p + b \in 1 .. Len(t) /\ t[p + b] = part[b] /\ (Len(s) + p) + b = Len(s) + (p + b)
      BY <1>1, <1>7 DEF Holds
    <3> QED BY <1>4, <3>1
  <2> QED BY <1>1, <1>2, <1>7, <2>1 DEF Holds
<1> QED BY <1>2, <1>5, <1>6, <1>7 DEF u

\* A part is what is read at its place, and its parts lie where they lie in it.
LEMMA PartRead ==
    ASSUME NEW S, NEW s \in Seq(S), NEW part \in Seq(S), NEW p \in Nat, Holds(s, p, part)
    PROVE  SubSeq(s, p + 1, p + Len(part)) = part
<1>1. Len(part) \in Nat /\ Len(s) \in Nat
  BY LenProperties
<1>2. \A n \in p + 1 .. p + Len(part) : s[n] \in S
  <2> TAKE n \in p + 1 .. p + Len(part)
  <2>1. n \in 1 .. Len(s)
    BY <1>1 DEF Holds
  <2> QED BY <2>1, ElementOfSeq
<1> DEFINE u == SubSeq(s, p + 1, p + Len(part))
<1>3. /\ u \in Seq(S)
      /\ Len(u) = IF p + 1 <= p + Len(part) THEN (p + Len(part)) - (p + 1) + 1 ELSE 0
      /\ \A n \in 1 .. (p + Len(part)) - (p + 1) + 1 : u[n] = s[(p + 1) + n - 1]
  <2>1. p + 1 \in Int /\ p + Len(part) \in Int
    BY <1>1
  <2> QED BY <1>2, <2>1, SubSeqProperties
<1> HIDE DEF u
<1>4. Len(u) = Len(part)
  BY <1>1, <1>3
<1>5. \A n \in 1 .. Len(u) : u[n] = part[n]
  <2> TAKE n \in 1 .. Len(u)
  <2>1. n \in 1 .. (p + Len(part)) - (p + 1) + 1 /\ (p + 1) + n - 1 = p + n
    BY <1>1, <1>4
  <2>2. u[n] = s[p + n]
    BY <1>3, <2>1
  <2> QED BY <1>4, <2>2 DEF Holds
<1> QED BY <1>3, <1>4, <1>5, SeqEqual DEF u

LEMMA PartOfPart ==
    ASSUME NEW S, NEW s \in Seq(S), NEW a \in Seq(S), NEW b \in Seq(S), NEW p \in Nat,
           Holds(s, p, a \o b)
    PROVE  Holds(s, p, a) /\ Holds(s, p + Len(a), b)
<1> DEFINE u == a \o b
<1>1. Len(a) \in Nat /\ Len(b) \in Nat /\ Len(s) \in Nat
  BY LenProperties
<1>2. /\ Len(u) = Len(a) + Len(b)
      /\ \A n \in 1 .. Len(a) + Len(b) : u[n] = IF n <= Len(a) THEN a[n] ELSE b[n - Len(a)]
  BY ConcatProperties
<1>3. /\ p + Len(u) <= Len(s)
      /\ \A n \in 1 .. Len(u) : s[p + n] = u[n]
  BY DEF Holds
<1> HIDE DEF u
<1>4. Holds(s, p, a)
  BY <1>1, <1>2, <1>3 DEF Holds
<1>5. \A n \in 1 .. Len(b) : s[(p + Len(a)) + n] = b[n]
  <2> TAKE n \in 1 .. Len(b)
  <2>1. /\ Len(a) + n \in 1 .. Len(a) + Len(b) /\ ~ (Len(a) + n <= Len(a))
        /\ (Len(a) + n) - Len(a) = n /\ (p + Len(a)) + n = p + (Len(a) + n)
    BY <1>1
  <2> QED BY <1>2, <1>3, <2>1
<1> QED BY <1>1, <1>2, <1>3, <1>4, <1>5 DEF Holds

\* A concatenation is taken apart where it was put together.
LEMMA TakenApart ==
    ASSUME NEW S, NEW s \in Seq(S), NEW t \in Seq(S)
    PROVE  /\ SubSeq(s \o t, 1, Len(s)) = s
           /\ SubSeq(s \o t, Len(s) + 1, Len(s \o t)) = t
<1>1. Len(s) \in Nat /\ Len(t) \in Nat
  BY LenProperties
<1>2. s \o t \in Seq(S) /\ Len(s \o t) = Len(s) + Len(t) /\ Holds(s \o t, 0, s)
         /\ Holds(s \o t, Len(s), t)
  <2>1. Holds(s, 0, s)
    BY <1>1 DEF Holds
  <2> QED BY <2>1, WrittenBehind
<1>3. SubSeq(s \o t, 0 + 1, 0 + Len(s)) = s
  BY <1>2, PartRead
<1>4. SubSeq(s \o t, Len(s) + 1, Len(s) + Len(t)) = t
  BY <1>1, <1>2, PartRead
<1> QED BY <1>1, <1>2, <1>3, <1>4

\* What a loop has joined to start after each of the parts, and what is left
\* to join, counted from the end.
FrontJoined(start, parts) ==
    LET joined[k \in 0 .. Len(parts)] == IF k = 0 THEN start ELSE joined[k - 1] \o parts[k]
    IN  joined

BackJoined(parts) ==
    LET left[k \in 0 .. Len(parts)] ==
            IF k = 0 THEN <<>> ELSE parts[Len(parts) + 1 - k] \o left[k - 1]
    IN  left

LEMMA FrontJoins ==
    ASSUME NEW S, NEW start \in Seq(S), NEW parts \in Seq(Seq(S))
    PROVE  /\ FrontJoined(start, parts)[0] = start
           /\ \A k \in 1 .. Len(parts) :
                 FrontJoined(start, parts)[k] = FrontJoined(start, parts)[k - 1] \o parts[k]
           /\ \A k \in 0 .. Len(parts) : FrontJoined(start, parts)[k] \in Seq(S)
<1> DEFINE n == Len(parts)
           X == Seq(S)
           F == [k \in 1 .. n |-> [x \in X |-> x \o parts[k]]]
           b == FrontJoined(start, parts)
<1>1. n \in Nat /\ \A k \in 1 .. n : parts[k] \in X
  BY LenProperties, ElementOfSeq
<1>2. \A x, y \in X : x \o y \in X
  BY ConcatProperties
<1>3. b = CHOOSE f : f = [k \in 0 .. n |-> IF k = 0 THEN start ELSE f[k - 1] \o parts[k]]
  BY DEF FrontJoined
<1> HIDE DEF n, X, b
<1>4. \A k \in 1 .. n : F[k] \in [X -> X] /\ \A x \in X : F[k][x] = x \o parts[k]
  BY <1>1, <1>2
<1> HIDE DEF F
<1>5. PICK f \in [0 .. n -> X] : f[0] = start /\ \A k \in 1 .. n : f[k] = F[k][f[k - 1]]
  <2>1. \A k \in 1 .. n : F[k] \in [X -> X]
    BY <1>4
  <2>2. start \in X
    BY DEF X
  <2>3. Turns(n, X, start, F) # {}
    BY <1>1, <2>1, <2>2, TurnsExist
  <2> QED BY <2>3 DEF Turns
<1>6. f = [k \in 0 .. n |-> IF k = 0 THEN start ELSE f[k - 1] \o parts[k]]
  <2>1. ASSUME NEW k \in 0 .. n PROVE f[k] = IF k = 0 THEN start ELSE f[k - 1] \o parts[k]
    <3>1. CASE k # 0
      <4>1. k \in 1 .. n /\ k - 1 \in 0 .. n
        BY <1>1, <3>1
      <4>2. f[k - 1] \in X /\ f[k] = F[k][f[k - 1]]
        BY <1>5, <4>1
      <4> QED BY <1>4, <3>1, <4>1, <4>2
    <3> QED BY <1>5, <3>1
  <2> QED BY <1>5, <2>1
<1>7. b = [k \in 0 .. n |-> IF k = 0 THEN start ELSE b[k - 1] \o parts[k]]
  BY <1>3, <1>6
<1>8. b[0] = start /\ \A k \in 1 .. n : b[k] = b[k - 1] \o parts[k]
  <2>1. 0 \in 0 .. n /\ \A k \in 1 .. n : k \in 0 .. n /\ k # 0
    BY <1>1
  <2> QED BY <1>7, <2>1
<1>9. \A k \in 0 .. n : b[k] \in X
  <2>1. b[0] \in X
    BY <1>8 DEF X
  <2>2. \A k \in 1 .. n : b[k - 1] \in X => b[k] \in X
    BY <1>1, <1>2, <1>8
  <2> QED BY <1>1, <2>1, <2>2, LoopStays
<1> QED BY <1>8, <1>9 DEF n, X, b

LEMMA BackJoins ==
    ASSUME NEW S, NEW parts \in Seq(Seq(S))
    PROVE  /\ BackJoined(parts)[0] = <<>>
           /\ \A k \in 1 .. Len(parts) :
                 BackJoined(parts)[k] = parts[Len(parts) + 1 - k] \o BackJoined(parts)[k - 1]
           /\ \A k \in 0 .. Len(parts) : BackJoined(parts)[k] \in Seq(S)
<1> DEFINE n == Len(parts)
           X == Seq(S)
           F == [k \in 1 .. n |-> [x \in X |-> parts[n + 1 - k] \o x]]
           b == BackJoined(parts)
<1>1. n \in Nat /\ \A k \in 1 .. n : parts[n + 1 - k] \in X
  <2>1. n \in Nat
    BY LenProperties
  <2>2. \A k \in 1 .. n : n + 1 - k \in 1 .. n
    BY <2>1
  <2> HIDE DEF n, X
  <2> QED BY <2>1, <2>2, ElementOfSeq DEF n, X
<1>2. <<>> \in X /\ \A x, y \in X : x \o y \in X
  BY ConcatProperties, EmptySeq
<1>3. b = CHOOSE f : f = [k \in 0 .. n |-> IF k = 0 THEN <<>> ELSE parts[n + 1 - k] \o f[k - 1]]
  BY DEF BackJoined
<1> HIDE DEF n, X, b
<1>4. \A k \in 1 .. n : F[k] \in [X -> X] /\ \A x \in X : F[k][x] = parts[n + 1 - k] \o x
  BY <1>1, <1>2
<1> HIDE DEF F
<1>5. PICK f \in [0 .. n -> X] : f[0] = <<>> /\ \A k \in 1 .. n : f[k] = F[k][f[k - 1]]
  <2>1. \A k \in 1 .. n : F[k] \in [X -> X]
    BY <1>4
  <2>3. Turns(n, X, <<>>, F) # {}
    BY <1>1, <1>2, <2>1, TurnsExist
  <2> QED BY <2>3 DEF Turns
<1>6. f = [k \in 0 .. n |-> IF k = 0 THEN <<>> ELSE parts[n + 1 - k] \o f[k - 1]]
  <2>1. ASSUME NEW k \in 0 .. n PROVE f[k] = IF k = 0 THEN <<>> ELSE parts[n + 1 - k] \o f[k - 1]
    <3>1. CASE k # 0
      <4>1. k \in 1 .. n /\ k - 1 \in 0 .. n
        BY <1>1, <3>1
      <4>2. f[k - 1] \in X /\ f[k] = F[k][f[k - 1]]
        BY <1>5, <4>1
      <4> QED BY <1>4, <3>1, <4>1, <4>2
    <3> QED BY <1>5, <3>1
  <2> QED BY <1>5, <2>1
<1>7. b = [k \in 0 .. n |-> IF k = 0 THEN <<>> ELSE parts[n + 1 - k] \o b[k - 1]]
  BY <1>3, <1>6
<1>8. b[0] = <<>> /\ \A k \in 1 .. n : b[k] = parts[n + 1 - k] \o b[k - 1]
  <2>1. 0 \in 0 .. n /\ \A k \in 1 .. n : k \in 0 .. n /\ k # 0
    BY <1>1
  <2> QED BY <1>7, <2>1
<1>9. \A k \in 0 .. n : b[k] \in X
  <2>1. b[0] \in X
    BY <1>2, <1>8
  <2>2. \A k \in 1 .. n : b[k - 1] \in X => b[k] \in X
    BY <1>1, <1>2, <1>8
  <2> QED BY <1>1, <2>1, <2>2, LoopStays
<1> QED BY <1>8, <1>9 DEF n, X, b

\* What is joined and what is left is always the whole.
LEMMA JoinedAndLeft ==
    ASSUME NEW S, NEW start \in Seq(S), NEW parts \in Seq(Seq(S))
    PROVE  \A k \in 0 .. Len(parts) :
              FrontJoined(start, parts)[Len(parts)]
                  = FrontJoined(start, parts)[Len(parts) - k] \o BackJoined(parts)[k]
<1> DEFINE n == Len(parts)
           b == FrontJoined(start, parts)
           c == BackJoined(parts)
           f == [k \in 0 .. n |-> b[n - k] \o c[k]]
<1>1. n \in Nat /\ \A k \in 1 .. n : parts[k] \in Seq(S)
  BY LenProperties, ElementOfSeq
<1>2. /\ \A k \in 1 .. n : b[k] = b[k - 1] \o parts[k]
      /\ \A k \in 0 .. n : b[k] \in Seq(S)
  <2>1. /\ FrontJoined(start, parts)[0] = start
        /\ \A k \in 1 .. Len(parts) :
              FrontJoined(start, parts)[k] = FrontJoined(start, parts)[k - 1] \o parts[k]
        /\ \A k \in 0 .. Len(parts) : FrontJoined(start, parts)[k] \in Seq(S)
    BY FrontJoins, Zenon
  <2> QED BY <2>1
<1>3. /\ c[0] = <<>>
      /\ \A k \in 1 .. n : c[k] = parts[n + 1 - k] \o c[k - 1]
      /\ \A k \in 0 .. n : c[k] \in Seq(S)
  BY BackJoins
<1> HIDE DEF n, b, c
<1>4. \A k \in 0 .. n : f[k] = b[n - k] \o c[k]
  OBVIOUS
<1> HIDE DEF f
<1>5. f[0] \in {b[n]}
  <2>1. f[0] = b[n] \o <<>> /\ b[n] \in Seq(S)
    <3>1. 0 \in 0 .. n /\ n \in 0 .. n /\ n - 0 = n
      BY <1>1
    <3> QED BY <1>2, <1>3, <1>4, <3>1
  <2>2. b[n] \o <<>> = b[n]
    BY <2>1, ConcatEmptySeq
  <2> QED BY <2>1, <2>2
<1>6. ASSUME NEW k \in 1 .. n, f[k - 1] \in {b[n]} PROVE f[k] \in {b[n]}
  <2>1. n - k + 1 \in 1 .. n /\ n - k \in 0 .. n /\ k - 1 \in 0 .. n /\ k \in 0 .. n
           /\ (n - k + 1) - 1 = n - k /\ n + 1 - k = n - k + 1 /\ n - (k - 1) = n - k + 1
    BY <1>1
  <2>2. f[k] = b[n - k] \o (parts[n - k + 1] \o c[k - 1])
    BY <1>3, <1>4, <2>1
  <2>3. f[k - 1] = (b[n - k] \o parts[n - k + 1]) \o c[k - 1]
    <3>1. f[k - 1] = b[n - k + 1] \o c[k - 1]
      BY <1>4, <2>1
    <3>2. b[n - k + 1] = b[n - k] \o parts[n - k + 1]
      BY <1>2, <2>1
    <3> QED BY <3>1, <3>2
  <2>4. b[n - k] \in Seq(S) /\ parts[n - k + 1] \in Seq(S) /\ c[k - 1] \in Seq(S)
    BY <1>1, <1>2, <1>3, <2>1
  <2>5. f[k] = f[k - 1]
    <3>1. (b[n - k] \o parts[n - k + 1]) \o c[k - 1] = b[n - k] \o (parts[n - k + 1] \o c[k - 1])
      <4> DEFINE x == b[n - k]
                 y == parts[n - k + 1]
                 z == c[k - 1]
      <4>1. x \in Seq(S) /\ y \in Seq(S) /\ z \in Seq(S)
        BY <2>4
      <4> HIDE DEF x, y, z
      <4>2. (x \o y) \o z = x \o (y \o z)
        BY <4>1, ConcatAssociative, SMTT(30)
      <4> QED BY <4>2 DEF x, y, z
    <3> QED BY <2>2, <2>3, <3>1
  <2> QED BY <1>6, <2>5
<1>7. \A k \in 0 .. n : f[k] \in {b[n]}
  BY <1>1, <1>5, <1>6, LoopStays
<1> QED BY <1>4, <1>7 DEF n, b, c

-----------------------------------------------------------------------------
(* Quotients, powers of 2 and digits.                                        *)

\* What is less than the divisor is the remainder.
LEMMA QuotientUnique ==
    ASSUME NEW a \in Int, NEW d \in Nat, NEW q \in Int, NEW r \in Nat, r < d, a = q * d + r
    PROVE  a \div d = q /\ a % d = r
<1>1. a = (a \div d) * d + (a % d) /\ a % d \in 0 .. d - 1 /\ a \div d \in Int
  OBVIOUS
<1>2. (a \div d - q) * d = r - (a % d)
  BY <1>1
<1>3. (a \div d - q) * d < d /\ (a \div d - q) * d > 0 - d
  BY <1>1, <1>2
<1>4. a \div d - q = 0
  <2> DEFINE x == a \div d - q
  <2>1. x \in Int /\ x * d < d /\ x * d > 0 - d
    BY <1>1, <1>3
  <2> HIDE DEF x
  <2>2. ~ (x >= 1)
    BY <2>1
  <2>3. ~ (x <= -1)
    BY <2>1
  <2> QED BY <2>1, <2>2, <2>3 DEF x
<1> QED BY <1>1, <1>4

\* A number below a divisor does not reach the digits above it.
LEMMA QuotientOfSum ==
    ASSUME NEW q \in Nat, NEW p \in Nat, NEW c \in Nat \ {0}, NEW e \in Nat, e < p,
           NEW a, a = q * p + e, NEW b, b = c * p
    PROVE  a \div b = q \div c
<1> DEFINE d == q \div c
           t == q % c
<1>1. d \in Nat /\ t \in 0 .. c - 1 /\ q = d * c + t
  OBVIOUS
<1> HIDE DEF d, t
<1>2. t * p + e < c * p /\ t * p + e \in Nat
  <2>1. t * p <= (c - 1) * p
    BY <1>1
  <2>2. (c - 1) * p = c * p - p
    OBVIOUS
  <2>3. t * p \in Nat
    BY <1>1
  <2> QED BY <2>1, <2>2, <2>3
<1>3. q * p + e = d * (c * p) + (t * p + e)
  BY <1>1
<1>4. q * p + e \in Int /\ c * p \in Nat
  OBVIOUS
<1>5. (q * p + e) \div (c * p) = d
  BY <1>1, <1>2, <1>3, <1>4, QuotientUnique
<1> QED BY <1>5 DEF d

\* What doubles from one number to the next multiplies where they are added.
LEMMA PowersMultiply ==
    ASSUME NEW s, s[0] = 1, \A n \in Nat : s[n] \in Nat /\ s[n + 1] = 2 * s[n]
    PROVE  /\ \A a, b \in Nat : s[a + b] = s[a] * s[b]
           /\ \A n \in Nat : s[n] >= 1
           /\ \A a, b \in Nat : a <= b => s[a] <= s[b]
<1>1. ASSUME NEW a \in Nat PROVE \A b \in Nat : s[a + b] = s[a] * s[b]
  <2> DEFINE T == {b \in Nat : s[a + b] = s[a] * s[b]}
  <2>1. 0 \in T
    OBVIOUS
  <2>2. ASSUME NEW b \in Nat, b \in T PROVE b + 1 \in T
    <3>1. s[a + b] = s[a] * s[b]
      BY <2>2
    <3>2. s[a + (b + 1)] = 2 * s[a + b] /\ s[b + 1] = 2 * s[b]
      <4>1. a + (b + 1) = (a + b) + 1 /\ a + b \in Nat
        OBVIOUS
      <4> QED BY <4>1
    <3>3. 2 * (s[a] * s[b]) = s[a] * (2 * s[b])
      <4>1. s[a] \in Nat /\ s[b] \in Nat
        OBVIOUS
      <4> QED BY <4>1
    <3> QED BY <3>1, <3>2, <3>3
  <2>3. \A b \in Nat : b \in T
    <3> HIDE DEF T
    <3> QED BY <2>1, <2>2, NumberInduction
  <2> QED BY <2>3
<1>2. \A n \in Nat : s[n] >= 1
  <2> DEFINE T == {n \in Nat : s[n] >= 1}
  <2>1. 0 \in T
    OBVIOUS
  <2>2. ASSUME NEW n \in Nat, n \in T PROVE n + 1 \in T
    BY <2>2
  <2>3. \A n \in Nat : n \in T
    <3> HIDE DEF T
    <3> QED BY <2>1, <2>2, NumberInduction
  <2> QED BY <2>3
<1>3. ASSUME NEW a \in Nat, NEW b \in Nat, a <= b PROVE s[a] <= s[b]
  <2>1. b - a \in Nat /\ a + (b - a) = b
    BY <1>3
  <2>2. s[a + (b - a)] = s[a] * s[b - a] /\ s[b - a] >= 1
    BY <1>1, <1>2, <2>1
  <2> DEFINE x == s[a]
             y == s[b - a]
  <2>3. x \in Nat /\ y \in Nat /\ y >= 1
    BY <2>1, <2>2
  <2> HIDE DEF x, y
  <2>4. x <= x * y
    BY <2>3
  <2> QED BY <2>1, <2>2, <2>4 DEF x, y
<1> QED BY <1>1, <1>2, <1>3

\* The digits of a number, cut off one by one from below.
LEMMA DigitsRead ==
    ASSUME NEW r \in Nat \ {0}, NEW v \in Nat
    PROVE  /\ (v % r) = v - (v \div r) * r
           /\ v \div (r * r) = (v \div r) \div r
           /\ v \div (r * r * r) = ((v \div r) \div r) \div r
           /\ v < r => v \div r = 0
           /\ v < r * r => (v \div r) \div r = 0
           /\ v < r * r * r * r => (((v \div r) \div r) \div r) \div r = 0
OBVIOUS
-----------------------------------------------------------------------------
\* 2 to the n, as a loop computes it.
Doubling[n \in Nat] == IF n = 0 THEN 1 ELSE 2 * Doubling[n - 1]

\* The loop computes powers of 2.
LEMMA DoublingDoubles ==
    /\ Doubling[0] = 1
    /\ \A n \in Nat : Doubling[n] \in Nat /\ Doubling[n + 1] = 2 * Doubling[n]
<1> DEFINE F == [k \in Nat |-> [x \in Nat |-> 2 * x]]
<1>1. F \in [Nat -> [Nat -> Nat]] /\ \A k \in Nat : \A x \in Nat : F[k][x] = 2 * x
  OBVIOUS
<1> HIDE DEF F
<1>2. PICK f \in [Nat -> Nat] : f[0] = 1 /\ \A k \in Nat \ {0} : f[k] = F[k][f[k - 1]]
  <2>1. 1 \in Nat
    OBVIOUS
  <2>2. Forever(Nat, 1, F) # {}
    BY <1>1, <2>1, LoopGoesOn
  <2> QED BY <2>2 DEF Forever
<1>3. f = [n \in Nat |-> IF n = 0 THEN 1 ELSE 2 * f[n - 1]]
  <2>1. ASSUME NEW n \in Nat PROVE f[n] = IF n = 0 THEN 1 ELSE 2 * f[n - 1]
    <3>1. CASE n # 0
      <4>1. n - 1 \in Nat /\ n \in Nat \ {0}
        BY <3>1
      <4>2. f[n - 1] \in Nat /\ f[n] = F[n][f[n - 1]]
        BY <1>2, <4>1
      <4> QED BY <1>1, <3>1, <4>2
    <3> QED BY <1>2, <3>1
  <2> QED BY <1>2, <2>1
<1>4. Doubling = [n \in Nat |-> IF n = 0 THEN 1 ELSE 2 * Doubling[n - 1]]
  BY <1>3 DEF Doubling
<1>5. \A n \in Nat : Doubling[n] \in Nat
  <2> DEFINE T == {n \in Nat : Doubling[n] \in Nat}
  <2>1. 0 \in T
    BY <1>4
  <2>2. ASSUME NEW n \in Nat, n \in T PROVE n + 1 \in T
    <3>1. n + 1 \in Nat /\ n + 1 # 0 /\ (n + 1) - 1 = n
      OBVIOUS
    <3>2. Doubling[n + 1] = 2 * Doubling[n]
      BY <1>4, <3>1
    <3> QED BY <2>2, <3>2
  <2>3. \A n \in Nat : n \in T
    <3> HIDE DEF T
    <3> QED BY <2>1, <2>2, NumberInduction
  <2> QED BY <2>3
<1>6. ASSUME NEW n \in Nat PROVE Doubling[n + 1] = 2 * Doubling[n]
  <2>1. n + 1 \in Nat /\ n + 1 # 0 /\ (n + 1) - 1 = n
    OBVIOUS
  <2> QED BY <1>4, <2>1
<1> QED BY <1>4, <1>5, <1>6

\* The number whose digits to the base r are s.
Horner(s, r) ==
    LET value[k \in 0 .. Len(s)] == IF k = 0 THEN 0 ELSE value[k - 1] * r + s[k]
    IN  value[Len(s)]

\* The number that digits make, digit by digit.
LEMMA HornerTurns ==
    ASSUME NEW s \in Seq(Nat), NEW r \in Nat
    PROVE  \E value \in [0 .. Len(s) -> Nat] :
              /\ value[0] = 0
              /\ \A k \in 1 .. Len(s) : value[k] = value[k - 1] * r + s[k]
              /\ Horner(s, r) = value[Len(s)]
<1> DEFINE n == Len(s)
           F == [k \in 1 .. n |-> [x \in Nat |-> x * r + s[k]]]
           value == CHOOSE value : value = [k \in 0 .. n |->
                        IF k = 0 THEN 0 ELSE value[k - 1] * r + s[k]]
<1>1. n \in Nat /\ \A k \in 1 .. n : s[k] \in Nat
  BY LenProperties, ElementOfSeq
<1>2. Horner(s, r) = value[n]
  BY DEF Horner
<1> HIDE DEF n
<1>3. \A k \in 1 .. n : /\ F[k] \in [Nat -> Nat]
                        /\ \A x \in Nat : F[k][x] = x * r + s[k]
  BY <1>1
<1> HIDE DEF F
<1>4. PICK f \in [0 .. n -> Nat] : f[0] = 0 /\ \A k \in 1 .. n : f[k] = F[k][f[k - 1]]
  <2>1. \A k \in 1 .. n : F[k] \in [Nat -> Nat]
    BY <1>3
  <2>2. Turns(n, Nat, 0, F) # {}
    BY <1>1, <2>1, TurnsExist
  <2> QED BY <2>2 DEF Turns
<1>5. f = [k \in 0 .. n |-> IF k = 0 THEN 0 ELSE f[k - 1] * r + s[k]]
  <2>1. ASSUME NEW k \in 0 .. n PROVE f[k] = IF k = 0 THEN 0 ELSE f[k - 1] * r + s[k]
    <3>1. CASE k # 0
      <4>1. k \in 1 .. n /\ k - 1 \in 0 .. n
        BY <1>1, <3>1
      <4>2. f[k - 1] \in Nat /\ f[k] = F[k][f[k - 1]]
        BY <1>4, <4>1
      <4> QED BY <1>3, <3>1, <4>1, <4>2
    <3> QED BY <1>4, <3>1
  <2> QED BY <1>4, <2>1
<1>6. value = [k \in 0 .. n |-> IF k = 0 THEN 0 ELSE value[k - 1] * r + s[k]]
  BY <1>5
<1> HIDE DEF value
<1>7. value[0] = 0 /\ \A k \in 1 .. n : value[k] = value[k - 1] * r + s[k]
  <2>1. 0 \in 0 .. n
    BY <1>1
  <2>2. \A k \in 1 .. n : k \in 0 .. n /\ k # 0
    BY <1>1
  <2> QED BY <1>6, <2>1, <2>2
<1>8. \A k \in 0 .. n : value[k] \in Nat
  <2> DEFINE T == {k \in Nat : k <= n => value[k] \in Nat}
  <2>1. 0 \in T
    BY <1>7
  <2>2. ASSUME NEW k \in Nat, k \in T PROVE k + 1 \in T
    <3> SUFFICES ASSUME k + 1 <= n PROVE value[k + 1] \in Nat
      OBVIOUS
    <3>1. value[k] \in Nat /\ k + 1 \in 1 .. n /\ (k + 1) - 1 = k
      BY <1>1, <2>2
    <3>2. value[k + 1] = value[k] * r + s[k + 1] /\ s[k + 1] \in Nat
      BY <1>1, <1>7, <3>1
    <3>3. \A x, y \in Nat : x * r + y \in Nat
      OBVIOUS
    <3> HIDE DEF T
    <3> QED BY <3>1, <3>2, <3>3
  <2>3. \A k \in Nat : k \in T
    <3> HIDE DEF T
    <3> QED BY <2>1, <2>2, NumberInduction
  <2> QED BY <1>1, <2>3
<1>9. value \in [0 .. n -> Nat]
  BY <1>6, <1>8
<1> QED BY <1>2, <1>7, <1>9 DEF n

\* The numbers that one, two and four digits make.
LEMMA HornerOf ==
    ASSUME NEW s \in Seq(Nat), NEW r \in Nat
    PROVE  /\ Horner(s, r) \in Nat
           /\ Len(s) = 1 => Horner(s, r) = s[1]
           /\ Len(s) = 2 => Horner(s, r) = s[1] * r + s[2]
           /\ Len(s) = 4 => Horner(s, r) = ((s[1] * r + s[2]) * r + s[3]) * r + s[4]
<1>1. PICK value \in [0 .. Len(s) -> Nat] :
              /\ value[0] = 0
              /\ \A k \in 1 .. Len(s) : value[k] = value[k - 1] * r + s[k]
              /\ Horner(s, r) = value[Len(s)]
  BY HornerTurns
<1>2. Len(s) \in Nat /\ \A k \in 1 .. Len(s) : s[k] \in Nat
  BY LenProperties, ElementOfSeq
<1>3. Horner(s, r) \in Nat
  BY <1>1, <1>2
<1>4. Len(s) >= 1 => value[1] = s[1]
  BY <1>1, <1>2
<1>5. Len(s) >= 2 => value[2] = s[1] * r + s[2]
  BY <1>1, <1>2, <1>4
<1>6. Len(s) >= 4 => value[4] = ((s[1] * r + s[2]) * r + s[3]) * r + s[4]
  <2> SUFFICES ASSUME Len(s) >= 4
               PROVE  value[4] = ((s[1] * r + s[2]) * r + s[3]) * r + s[4]
    OBVIOUS
  <2>1. 3 \in 1 .. Len(s) /\ 4 \in 1 .. Len(s) /\ 4 - 1 = 3 /\ 3 - 1 = 2
    BY <1>2
  <2>2. value[3] = value[2] * r + s[3] /\ value[4] = value[3] * r + s[4]
    BY <1>1, <2>1
  <2> QED BY <1>2, <1>5, <2>2
<1>7. Horner(s, r) = value[Len(s)]
  BY <1>1
<1>8. Len(s) = 1 => Horner(s, r) = s[1]
  BY <1>4, <1>7
<1>9. Len(s) = 2 => Horner(s, r) = s[1] * r + s[2]
  BY <1>5, <1>7
<1>10. Len(s) = 4 => Horner(s, r) = ((s[1] * r + s[2]) * r + s[3]) * r + s[4]
  BY <1>6, <1>7
<1> QED BY <1>3, <1>8, <1>9, <1>10

\* A number of so many digits, with a digit more.
LEMMA OneDigitMore ==
    ASSUME NEW r \in Nat, NEW x \in Nat, NEW m \in Nat, NEW y \in 0 .. r - 1, x <= m - 1
    PROVE  x * r + y \in Nat /\ m * r \in Nat /\ x * r + y <= m * r - 1
<1>1. x * r <= (m - 1) * r
  OBVIOUS
<1>2. (m - 1) * r = m * r - r
  OBVIOUS
<1>3. x * r \in Nat /\ m * r \in Nat
  OBVIOUS
<1> QED BY <1>1, <1>2, <1>3

\* So many digits make no number that needs more.
LEMMA HornerBounded ==
    ASSUME NEW r \in Nat \ {0}, NEW s \in Seq(0 .. r - 1)
    PROVE  /\ Len(s) = 1 => Horner(s, r) \in 0 .. r - 1
           /\ Len(s) = 2 => Horner(s, r) \in 0 .. r * r - 1
           /\ Len(s) = 4 => Horner(s, r) \in 0 .. r * r * r * r - 1
<1>1. \A k \in 1 .. Len(s) : s[k] \in 0 .. r - 1
  BY ElementOfSeq
<1>2. s \in Seq(Nat)
  <2>1. 0 .. r - 1 \subseteq Nat
    OBVIOUS
  <2> QED BY <2>1, SeqMonotonic
<1>4. ASSUME Len(s) = 1 PROVE Horner(s, r) \in 0 .. r - 1
  <2>1. Horner(s, r) = s[1]
    BY <1>2, <1>4, HornerOf
  <2> QED BY <1>1, <1>4, <2>1
<1>5. ASSUME Len(s) = 2 PROVE Horner(s, r) \in 0 .. r * r - 1
  <2> DEFINE a == s[1]
             b == s[2]
  <2>1. Horner(s, r) = a * r + b
    BY <1>2, <1>5, HornerOf
  <2>2. a \in 0 .. r - 1 /\ b \in 0 .. r - 1
    BY <1>1, <1>5
  <2> HIDE DEF a, b
  <2>3. a \in Nat /\ a <= r - 1
    BY <2>2
  <2>4. a * r + b \in Nat /\ r * r \in Nat /\ a * r + b <= r * r - 1
    BY <2>2, <2>3, OneDigitMore
  <2> QED BY <2>1, <2>4
<1>6. ASSUME Len(s) = 4 PROVE Horner(s, r) \in 0 .. r * r * r * r - 1
  <2> DEFINE a == s[1]
             b == s[2]
             c == s[3]
             d == s[4]
             ab == a * r + b
             abc == ab * r + c
             r2 == r * r
             r3 == r2 * r
             r4 == r3 * r
  <2>1. Horner(s, r) = abc * r + d
    BY <1>2, <1>6, HornerOf
  <2>2. a \in 0 .. r - 1 /\ b \in 0 .. r - 1 /\ c \in 0 .. r - 1 /\ d \in 0 .. r - 1
    BY <1>1, <1>6
  <2> HIDE DEF a, b, c, d
  <2>3. a \in Nat /\ a <= r - 1 /\ r \in Nat
    BY <2>2
  <2>4. ab \in Nat /\ r2 \in Nat /\ ab <= r2 - 1
    BY <2>2, <2>3, OneDigitMore
  <2> HIDE DEF ab, r2
  <2>5. abc \in Nat /\ r3 \in Nat /\ abc <= r3 - 1
    BY <2>2, <2>3, <2>4, OneDigitMore
  <2> HIDE DEF abc, r3
  <2>6. abc * r + d \in Nat /\ r4 \in Nat /\ abc * r + d <= r4 - 1
    BY <2>2, <2>3, <2>5, OneDigitMore
  <2>7. r4 = r * r * r * r
    BY DEF r4, r3, r2
  <2> HIDE DEF r4
  <2>8. Horner(s, r) \in 0 .. r4 - 1
    BY <2>1, <2>6
  <2> QED BY <2>7, <2>8
<1> QED BY <1>4, <1>5, <1>6

\* The bytes of a number, the most significant first.
Digits(v, n, bits) ==
    [k \in 1 .. n |-> (v \div Doubling[(n - k) * bits]) % Doubling[1 * bits]]

\* What one to four digits can count.
LEMMA Radices ==
    ASSUME NEW bits \in Nat \ {0}
    PROVE  LET r == Doubling[1 * bits]
           IN  /\ r \in Nat /\ r >= 2
               /\ Doubling[0 * bits] = 1
               /\ Doubling[2 * bits] = r * r
               /\ Doubling[3 * bits] = r * r * r
               /\ Doubling[4 * bits] = r * r * r * r
               /\ r <= r * r /\ r * r <= r * r * r * r
<1>1. /\ \A a, b \in Nat : Doubling[a + b] = Doubling[a] * Doubling[b]
      /\ \A n \in Nat : Doubling[n] \in Nat /\ Doubling[n] >= 1
      /\ \A a, b \in Nat : a <= b => Doubling[a] <= Doubling[b]
      /\ Doubling[1] = 2 /\ Doubling[0] = 1
  <2>1. Doubling[0 + 1] = 2 * Doubling[0]
    BY DoublingDoubles
  <2>2. /\ \A a, b \in Nat : Doubling[a + b] = Doubling[a] * Doubling[b]
        /\ \A n \in Nat : Doubling[n] >= 1
        /\ \A a, b \in Nat : a <= b => Doubling[a] <= Doubling[b]
    BY DoublingDoubles, PowersMultiply
  <2>3. Doubling[0] = 1 /\ \A n \in Nat : Doubling[n] \in Nat
    BY DoublingDoubles
  <2>4. Doubling[1] = 2
    BY <2>1, <2>3
  <2> QED BY <2>2, <2>3, <2>4
<1>2. /\ 0 * bits = 0 /\ 1 * bits = bits /\ 2 * bits = bits + bits
      /\ 3 * bits = (bits + bits) + bits /\ 4 * bits = ((bits + bits) + bits) + bits
      /\ bits >= 1 /\ bits \in Nat /\ bits + bits \in Nat /\ (bits + bits) + bits \in Nat
  OBVIOUS
<1> DEFINE r == Doubling[bits]
<1>3. r \in Nat /\ r >= 2
  BY <1>1, <1>2
<1>4. Doubling[bits + bits] = r * r
  BY <1>1, <1>2
<1>5. Doubling[(bits + bits) + bits] = (r * r) * r
  <2>1. Doubling[(bits + bits) + bits] = Doubling[bits + bits] * Doubling[bits]
    BY <1>1, <1>2
  <2> QED BY <1>4, <2>1
<1>6. Doubling[((bits + bits) + bits) + bits] = ((r * r) * r) * r
  <2>1. Doubling[((bits + bits) + bits) + bits]
            = Doubling[(bits + bits) + bits] * Doubling[bits]
    BY <1>1, <1>2
  <2> QED BY <1>5, <2>1
<1>7. Doubling[1 * bits] = r /\ Doubling[0 * bits] = 1
  BY <1>1, <1>2
<1>8. /\ Doubling[2 * bits] = r * r /\ Doubling[3 * bits] = r * r * r
      /\ Doubling[4 * bits] = r * r * r * r
  BY <1>2, <1>4, <1>5, <1>6
<1> HIDE DEF r
<1>9. r <= r * r /\ r * r <= r * r * r * r
  <2>1. r <= r * r /\ r * r \in Nat
    BY <1>3
  <2>2. \A x \in Nat : x <= x * (r * r)
    BY <1>3
  <2>3. r * r <= (r * r) * (r * r) /\ r * r * r * r = (r * r) * (r * r)
    BY <1>3, <2>1, <2>2
  <2> QED BY <2>1, <2>3
<1> QED BY <1>3, <1>7, <1>8, <1>9

\* A number is read back from its digits, without those it was cut by.
LEMMA DigitsReadBack ==
    ASSUME NEW bits \in Nat \ {0}, NEW v \in Nat, NEW n \in {1, 2, 4}
    PROVE  LET r == Doubling[1 * bits]
               s == Digits(v, n, bits)
           IN  /\ s \in Seq(0 .. r - 1) /\ Len(s) = n
               /\ Horner(s, r) = v % Doubling[n * bits]
<1> DEFINE r == Doubling[1 * bits]
           s == Digits(v, n, bits)
           a1 == v \div r
           a2 == a1 \div r
           a3 == a2 \div r
           a4 == a3 \div r
<1>1. /\ r \in Nat \ {0} /\ Doubling[0 * bits] = 1 /\ Doubling[2 * bits] = r * r
      /\ Doubling[3 * bits] = r * r * r /\ Doubling[4 * bits] = r * r * r * r
  BY Radices
<1> HIDE DEF r
<1>2. /\ a1 \in Nat /\ a2 \in Nat /\ a3 \in Nat /\ a4 \in Nat
      /\ v \div 1 = v /\ v \div (r * r) = a2 /\ v \div (r * r * r) = a3
  <2>1. \A x \in Nat : x \div r \in Nat /\ x \div 1 = x
    BY <1>1
  <2>2. v \div (r * r) = a2 /\ v \div (r * r * r) = a3
    BY <1>1, DigitsRead
  <2> QED BY <2>1, <2>2
<1>3. /\ v % r = v - a1 * r /\ a1 % r = a1 - a2 * r
      /\ a2 % r = a2 - a3 * r /\ a3 % r = a3 - a4 * r
  BY <1>1, <1>2, DigitsRead
<1> HIDE DEF a2, a3, a4
<1>4. \A x \in Nat : x % r \in 0 .. r - 1
  BY <1>1
<1>5. \A k \in 1 .. n : v \div Doubling[(n - k) * bits] \in Nat
  <2> TAKE k \in 1 .. n
  <2>1. n - k \in {0, 1, 2, 3}
    OBVIOUS
  <2> QED BY <1>1, <1>2, <2>1 DEF r, a1
<1>6. s \in [1 .. n -> 0 .. r - 1] /\ n \in Nat
  <2>1. s = [k \in 1 .. n |-> (v \div Doubling[(n - k) * bits]) % r]
    BY DEF Digits, r
  <2>2. \A k \in 1 .. n : (v \div Doubling[(n - k) * bits]) % r \in 0 .. r - 1
    BY <1>4, <1>5
  <2>3. n \in Nat
    OBVIOUS
  <2> HIDE DEF s
  <2>4. s \in [1 .. n -> 0 .. r - 1]
    BY <2>1, <2>2, Zenon
  <2> QED BY <2>3, <2>4
<1>7. s \in Seq(0 .. r - 1) /\ Len(s) = n
  <2> DEFINE X == 0 .. r - 1
  <2>1. s \in [1 .. n -> X] /\ n \in Nat
    BY <1>6
  <2> HIDE DEF s, X
  <2>2. s \in Seq(X) /\ Len(s) = n
    BY <2>1, SeqDef, LenProperties
  <2> QED BY <2>2 DEF X
<1>8. s \in Seq(Nat)
  <2>1. 0 .. r - 1 \subseteq Nat
    OBVIOUS
  <2> QED BY <1>7, <2>1, SeqMonotonic
<1>9. \A k \in 1 .. n : s[k] = (v \div Doubling[(n - k) * bits]) % r
  BY DEF Digits, r
<1> HIDE DEF s
<1>10. /\ n = 1 => Horner(s, r) \in 0 .. r - 1
       /\ n = 2 => Horner(s, r) \in 0 .. r * r - 1
       /\ n = 4 => Horner(s, r) \in 0 .. r * r * r * r - 1
  BY <1>1, <1>7, HornerBounded
<1>11. CASE n = 1
  <2>1. s[1] = v % r
    BY <1>1, <1>2, <1>9, <1>11
  <2>2. Horner(s, r) = s[1]
    BY <1>1, <1>7, <1>8, <1>11, HornerOf
  <2> QED BY <1>7, <1>11, <2>1, <2>2 DEF r, s
<1>12. CASE n = 2
  <2>1. s[1] = a1 % r /\ s[2] = v % r
    BY <1>1, <1>2, <1>9, <1>12 DEF r, a1
  <2>2. Horner(s, r) = s[1] * r + s[2]
    BY <1>1, <1>7, <1>8, <1>12, HornerOf
  <2>3. Horner(s, r) = v - a2 * (r * r)
    BY <1>1, <1>2, <1>3, <2>1, <2>2
  <2>4. Horner(s, r) \in Nat /\ Horner(s, r) < r * r /\ r * r \in Nat
    BY <1>1, <1>10, <1>12
  <2>5. v = a2 * (r * r) + Horner(s, r)
    BY <1>1, <1>2, <2>3, <2>4
  <2>6. v % (r * r) = Horner(s, r)
    <3> DEFINE h == Horner(s, r)
               d == r * r
    <3>1. h \in Nat /\ d \in Nat /\ h < d /\ v = a2 * d + h
      BY <2>4, <2>5
    <3> HIDE DEF h, d, a1
    <3>2. v \in Int /\ a2 \in Int
      BY <1>2
    <3>3. v % d = h
      BY <3>1, <3>2, QuotientUnique
    <3> QED BY <3>3 DEF h, d
  <2> QED BY <1>1, <1>7, <1>12, <2>6 DEF r, s
<1>13. CASE n = 4
  <2>1. s[1] = a3 % r /\ s[2] = a2 % r /\ s[3] = a1 % r /\ s[4] = v % r
    <3>1. /\ s[1] = (v \div Doubling[3 * bits]) % r /\ s[2] = (v \div Doubling[2 * bits]) % r
          /\ s[3] = (v \div Doubling[1 * bits]) % r /\ s[4] = (v \div Doubling[0 * bits]) % r
      BY <1>9, <1>13
    <3> QED BY <1>1, <1>2, <3>1 DEF r, a1
  <2>2. Horner(s, r) = ((s[1] * r + s[2]) * r + s[3]) * r + s[4]
    BY <1>1, <1>7, <1>8, <1>13, HornerOf
  <2>3. Horner(s, r) = v - a4 * (r * r * r * r)
    <3> HIDE DEF a1
    <3>1. s[1] * r + s[2] = a2 - a4 * (r * r)
      BY <1>1, <1>2, <1>3, <2>1
    <3>2. (s[1] * r + s[2]) * r + s[3] = a1 - a4 * (r * r * r)
      BY <1>1, <1>2, <1>3, <2>1, <3>1
    <3> QED BY <1>1, <1>2, <1>3, <2>1, <2>2, <3>2
  <2>4. Horner(s, r) \in Nat /\ Horner(s, r) < r * r * r * r /\ r * r * r * r \in Nat
    BY <1>1, <1>10, <1>13
  <2>6. v % (r * r * r * r) = Horner(s, r)
    <3> DEFINE h == Horner(s, r)
               d == r * r * r * r
    <3>1. h \in Nat /\ d \in Nat /\ h < d /\ h = v - a4 * d
      BY <2>3, <2>4
    <3> HIDE DEF h, d, a1
    <3>2. v = a4 * d + h
      BY <1>2, <3>1
    <3>3. v \in Int /\ a4 \in Int
      BY <1>2
    <3>4. v % d = h
      BY <3>1, <3>2, <3>3, QuotientUnique
    <3> QED BY <3>4 DEF h, d
  <2> QED BY <1>1, <1>7, <1>13, <2>6 DEF r, s
<1> QED BY <1>11, <1>12, <1>13

-----------------------------------------------------------------------------
(* Numbers and their bytes. *)

\* to_be_bytes and back, in the catalog page; what the numbers of bytes hold.
LEMMA CatalogNumbers ==
    ASSUME NEW v \in Nat, NEW n \in {1, 2, 4}
    PROVE  /\ Catalog!to_be_bytes(v, n) \in Seq(Int) /\ Len(Catalog!to_be_bytes(v, n)) = n
           /\ v \in Catalog!UInt(n)
                => Catalog!from_be_bytes(Catalog!to_be_bytes(v, n)) = v
           /\ Catalog!UInt(1) \subseteq Catalog!UInt(n)
           /\ Catalog!UInt(n) \subseteq Catalog!UInt(4)
           /\ \A x \in Nat, y \in Catalog!UInt(n) : x <= y => x \in Catalog!UInt(n)
<1> DEFINE r == Doubling[1 * CatalogBits]
           s == Digits(v, n, CatalogBits)
<1>1. CatalogBits \in Nat \ {0}
  BY CatalogAssumption
<1>2. Catalog!Shifted = Doubling
  BY DEF Catalog!Shifted, Doubling
<1>3. Catalog!to_be_bytes(v, n) = s /\ Catalog!Radix(1) = r
  BY <1>2 DEF Catalog!to_be_bytes, Catalog!Radix, Digits
<1>4. Catalog!from_be_bytes(s) = Horner(s, r)
  BY <1>3, Zenon DEF Catalog!from_be_bytes, Horner
<1>5. s \in Seq(0 .. r - 1) /\ Len(s) = n /\ Horner(s, r) = v % Doubling[n * CatalogBits]
  BY <1>1, DigitsReadBack
<1>6. /\ r \in Nat /\ r >= 2
      /\ Doubling[2 * CatalogBits] = r * r /\ Doubling[4 * CatalogBits] = r * r * r * r
      /\ r <= r * r /\ r * r <= r * r * r * r
  BY <1>1, Radices
<1> HIDE DEF s
<1>7. s \in Seq(Int)
  <2>1. 0 .. r - 1 \subseteq Int
    OBVIOUS
  <2> QED BY <1>5, <2>1, SeqMonotonic
<1>8. \A k \in {1, 2, 4} : Catalog!UInt(k) = 0 .. Doubling[k * CatalogBits] - 1
  BY <1>2 DEF Catalog!UInt, Catalog!Radix
<1> HIDE DEF r
<1> DEFINE m == Doubling[n * CatalogBits]
<1>9. m \in Nat /\ r <= m /\ m <= r * r * r * r /\ r * r * r * r \in Nat
  BY <1>6 DEF r
<1>10. v < m => v % m = v
  <2> HIDE DEF m
  <2> QED BY <1>9
<1>11. v \in Catalog!UInt(n) => Horner(s, r) = v
  <2>1. Catalog!UInt(n) = 0 .. m - 1
    BY <1>8
  <2>2. Horner(s, r) = v % m
    BY <1>5 DEF r
  <2> HIDE DEF m
  <2> QED BY <1>9, <1>10, <2>1, <2>2
<1>12. Catalog!UInt(1) \subseteq Catalog!UInt(n) /\ Catalog!UInt(n) \subseteq Catalog!UInt(4)
  <2>1. /\ Catalog!UInt(1) = 0 .. r - 1 /\ Catalog!UInt(n) = 0 .. m - 1
        /\ Catalog!UInt(4) = 0 .. r * r * r * r - 1
    BY <1>6, <1>8 DEF r
  <2> HIDE DEF m
  <2> QED BY <1>6, <1>9, <2>1
<1>13. \A x \in Nat, y \in Catalog!UInt(n) : x <= y => x \in Catalog!UInt(n)
  <2>1. Catalog!UInt(n) = 0 .. m - 1
    BY <1>8
  <2> HIDE DEF m
  <2> QED BY <1>9, <2>1
<1> QED BY <1>3, <1>4, <1>5, <1>7, <1>11, <1>12, <1>13

-----------------------------------------------------------------------------
(* Prefixes. *)

\* A prefix, element by element.
LEMMA PrefixByElements ==
    ASSUME NEW S, NEW s \in Seq(S), NEW t \in Seq(S), Len(s) <= Len(t),
           \A k \in 1 .. Len(s) : s[k] = t[k]
    PROVE  IsPrefix(s, t)
<1>1. Len(s) \in Nat /\ Len(t) \in Nat
  BY LenProperties
<1>2. Holds(t, 0, s)
  BY <1>1 DEF Holds
<1>3. SubSeq(t, 0 + 1, 0 + Len(s)) = s
  BY <1>2, PartRead
<1>4. SubSeq(s, 1, Len(s)) = s
  BY SubSeqFull
<1> QED BY <1>1, <1>3, <1>4 DEF IsPrefix

-----------------------------------------------------------------------------
(* A column and its bytes. *)

\* What a column definition is.
LEMMA ColumnType ==
    ASSUME NEW c \in Columns
    PROVE  /\ c.name \in Seq(Int) /\ c.is_nullable \in BOOLEAN
           /\ c = [name |-> c.name, data_type |-> c.data_type, is_nullable |-> c.is_nullable]
           /\ \E k \in DOMAIN Catalog!DataType : Catalog!DataType[k] = c.data_type
<1>1. Columns \subseteq [name : Seq(Catalog!UInt(1)),
                         data_type : {Catalog!DataType[k] : k \in DOMAIN Catalog!DataType},
                         is_nullable : BOOLEAN]
  BY CatalogAssumption DEF Catalog!Assumptions
<1>2. /\ c.name \in Seq(Catalog!UInt(1)) /\ c.is_nullable \in BOOLEAN
      /\ c = [name |-> c.name, data_type |-> c.data_type, is_nullable |-> c.is_nullable]
      /\ c.data_type \in {Catalog!DataType[k] : k \in DOMAIN Catalog!DataType}
  BY <1>1
<1>3. Catalog!UInt(1) \subseteq Int
  BY DEF Catalog!UInt
<1>4. c.name \in Seq(Int)
  BY <1>2, <1>3, SeqMonotonic
<1> QED BY <1>2, <1>4

\* What to_be_bytes of a column writes.
LEMMA ColumnAsBytes ==
    ASSUME NEW c \in Columns
    PROVE  LET s == Catalog!ColumnBytes(c)
               n == Len(c.name)
           IN  /\ s \in Seq(Int) /\ n \in Nat /\ Len(s) = n + 3
               /\ s[1] = n /\ Holds(s, 1, c.name)
               /\ s[n + 2] + 1 \in DOMAIN Catalog!DataType
               /\ Catalog!DataType[s[n + 2] + 1] = c.data_type
               /\ s[n + 3] \in {0, 1} /\ (s[n + 3] = 1) = c.is_nullable
<1> DEFINE n  == Len(c.name)
           k  == CHOOSE k \in DOMAIN Catalog!DataType : Catalog!DataType[k] = c.data_type
           fl == IF c.is_nullable THEN 1 ELSE 0
           a  == <<n>>
           b  == <<k - 1, fl>>
           s  == (a \o c.name) \o b
<1>1. n \in Nat /\ c.name \in Seq(Int)
  BY ColumnType, LenProperties
<1>2. k \in DOMAIN Catalog!DataType /\ Catalog!DataType[k] = c.data_type
  BY ColumnType
<1>3. k \in Int
  BY <1>2 DEF Catalog!DataType
<1>4. fl \in {0, 1} /\ (fl = 1) = c.is_nullable
  BY ColumnType
<1>5. Catalog!ColumnBytes(c) = s
  BY Zenon DEF Catalog!ColumnBytes, Catalog!Counted, Catalog!TypeByte
<1> HIDE DEF n, k, fl
<1>6. /\ a \in Seq(Int) /\ Len(a) = 1 /\ a[1] = n
      /\ b \in Seq(Int) /\ Len(b) = 2 /\ b[1] = k - 1 /\ b[2] = fl
  BY <1>1, <1>3, <1>4
<1> HIDE DEF a, b
<1> DEFINE u == a \o c.name
<1>7. /\ u \in Seq(Int) /\ Len(u) = n + 1 /\ Holds(u, 1, c.name) /\ Holds(u, 0, a)
  <2> DEFINE name == c.name
  <2>1. a \in Seq(Int) /\ name \in Seq(Int) /\ Len(a) = 1 /\ Len(name) = n
    BY <1>1, <1>6 DEF n
  <2>2. Holds(a, 0, a)
    BY <2>1 DEF Holds
  <2> HIDE DEF name
  <2>3. /\ a \o name \in Seq(Int) /\ Len(a \o name) = Len(a) + Len(name)
        /\ Holds(a \o name, Len(a), name) /\ Holds(a \o name, 0, a)
    BY <2>1, <2>2, WrittenBehind
  <2> QED BY <1>1, <2>1, <2>3 DEF name
<1> HIDE DEF u
<1>8. /\ s \in Seq(Int) /\ Len(s) = n + 3 /\ Holds(s, 1, c.name) /\ Holds(s, 0, a)
      /\ Holds(s, n + 1, b)
  <2> DEFINE name == c.name
  <2>1. s = u \o b
    BY DEF u
  <2>2. name \in Seq(Int) /\ Holds(u, 1, name) /\ b \in Seq(Int) /\ Len(b) = 2
    BY <1>1, <1>6, <1>7
  <2> HIDE DEF name, s
  <2>3. /\ s \in Seq(Int) /\ Len(s) = Len(u) + Len(b)
        /\ Holds(s, Len(u), b)
    BY <1>7, <2>1, <2>2, WrittenBehind
  <2>4. Holds(s, 1, name) /\ Holds(s, 0, a)
    BY <1>6, <1>7, <2>1, <2>2, WrittenBehind
  <2> QED BY <1>1, <1>7, <2>2, <2>3, <2>4 DEF name
<1> HIDE DEF s
<1>9. s[1] = n /\ s[n + 2] = k - 1 /\ s[n + 3] = fl
  <2>1. s[0 + 1] = a[1]
    BY <1>6, <1>8 DEF Holds
  <2>2. s[(n + 1) + 1] = b[1] /\ s[(n + 1) + 2] = b[2]
    BY <1>6, <1>8 DEF Holds
  <2>3. (n + 1) + 1 = n + 2 /\ (n + 1) + 2 = n + 3
    BY <1>1
  <2> QED BY <1>6, <2>1, <2>2, <2>3
<1>10. s[n + 2] + 1 = k
  BY <1>3, <1>9
<1> QED BY <1>1, <1>2, <1>4, <1>5, <1>8, <1>9, <1>10 DEF n

\* from_be_bytes of a column gives back what its to_be_bytes has written, and
\* moves on by as much.
LEMMA ColumnReadBack ==
    ASSUME NEW c \in Columns, NEW tail \in Seq(Int), data = Catalog!ColumnBytes(c) \o tail
    PROVE  /\ Catalog!ColumnReadable
           /\ [name |-> SubSeq(data, 2, Catalog!name_len + 1),
               data_type |-> Catalog!DataType[data[Catalog!name_len + 2] + 1],
               is_nullable |-> data[Catalog!name_len + 3] = 1] = c
           /\ Catalog!After(data, Catalog!ColumnLen) = tail
<1> DEFINE s == Catalog!ColumnBytes(c)
           n == Len(c.name)
<1>1. /\ s \in Seq(Int) /\ n \in Nat /\ Len(s) = n + 3
      /\ s[1] = n /\ Holds(s, 1, c.name)
      /\ s[n + 2] + 1 \in DOMAIN Catalog!DataType
      /\ Catalog!DataType[s[n + 2] + 1] = c.data_type
      /\ s[n + 3] \in {0, 1} /\ (s[n + 3] = 1) = c.is_nullable
  BY ColumnAsBytes
<1>2. /\ c.name \in Seq(Int)
      /\ c = [name |-> c.name, data_type |-> c.data_type, is_nullable |-> c.is_nullable]
  BY ColumnType
<1> HIDE DEF s, n
<1>3. /\ data \in Seq(Int) /\ Len(data) = (n + 3) + Len(tail) /\ Len(tail) \in Nat
      /\ \A k \in 1 .. n + 3 : data[k] = s[k]
  <2>1. /\ s \o tail \in Seq(Int) /\ Len(s \o tail) = Len(s) + Len(tail)
        /\ \A k \in 1 .. Len(s) + Len(tail) :
              (s \o tail)[k] = IF k <= Len(s) THEN s[k] ELSE tail[k - Len(s)]
    <3>1. s \in Seq(Int)
      BY <1>1
    <3> QED BY <3>1, ConcatProperties
  <2>2. data = s \o tail
    BY DEF s
  <2>3. Len(tail) \in Nat
    BY LenProperties
  <2> QED BY <1>1, <2>1, <2>2, <2>3
<1>4. Catalog!name_len = n /\ data[n + 2] = s[n + 2] /\ data[n + 3] = s[n + 3]
  <2>1. 1 \in 1 .. n + 3 /\ n + 2 \in 1 .. n + 3 /\ n + 3 \in 1 .. n + 3 /\ s[1] = n
    BY <1>1
  <2> QED BY <1>3, <2>1 DEF Catalog!name_len
<1>5. SubSeq(data, 2, n + 1) = c.name
  <2> DEFINE name == c.name
  <2>1. s \in Seq(Int) /\ name \in Seq(Int) /\ Holds(s, 1, name)
    BY <1>1, <1>2
  <2>2. Len(name) = n /\ data = s \o tail
    BY DEF n, s
  <2> HIDE DEF name
  <2>3. Holds(data, 1, name)
    BY <2>1, <2>2, WrittenBehind
  <2>4. SubSeq(data, 1 + 1, 1 + Len(name)) = name
    BY <1>3, <2>1, <2>3, PartRead
  <2>5. 1 + 1 = 2 /\ 1 + Len(name) = n + 1
    BY <1>1, <2>2
  <2>6. SubSeq(data, 2, n + 1) = name
    BY <2>4, <2>5
  <2> QED BY <2>6 DEF name
<1>6. Catalog!After(data, Catalog!ColumnLen) = tail
  <2>1. SubSeq(s \o tail, Len(s) + 1, Len(s \o tail)) = tail
    BY <1>1, TakenApart
  <2>2. Catalog!ColumnLen = Len(s)
    BY <1>1, <1>4 DEF Catalog!ColumnLen
  <2> QED BY <2>1, <2>2 DEF Catalog!After, s
<1>7. Catalog!ColumnReadable
  <2>1. data # <<>>
    BY <1>1, <1>3
  <2> QED BY <1>1, <1>3, <1>4, <2>1 DEF Catalog!ColumnReadable
<1> QED BY <1>1, <1>2, <1>4, <1>5, <1>6, <1>7

-----------------------------------------------------------------------------
(* An entry of the catalog page and its bytes. *)

\* It does not matter which two of three sequences are joined first.
JoinsAlike(x, y, z) == (x \o y) \o z = x \o (y \o z)

\* Concatenation is associative.
LEMMA Associates ==
    \A x, y, z \in Seq(Int) : JoinsAlike(x, y, z)
<1> TAKE x, y, z \in Seq(Int)
<1> QED BY ConcatAssociative DEF JoinsAlike

\* A name is found behind its length.
LEMMA CountedReadBack ==
    ASSUME NEW name \in Seq(Int), NEW rest \in Seq(Int), NEW s,
           s = Catalog!Counted(name) \o rest
    PROVE  /\ Catalog!Counted(name) \in Seq(Int)
           /\ s[1] = Len(name)
           /\ Catalog!Leading(Catalog!After(s, 1), s[1]) = name
           /\ Catalog!After(s, 1 + Len(name)) = rest
<1> DEFINE a == <<Len(name)>>
           u == a \o name
<1>1. a \in Seq(Int) /\ Len(a) = 1 /\ a[1] = Len(name) /\ Len(name) \in Nat /\ Len(rest) \in Nat
  BY LenProperties
<1> HIDE DEF a
<1>2. u \in Seq(Int) /\ Len(u) = 1 + Len(name) /\ Catalog!Counted(name) = u
  BY <1>1, ConcatProperties, Zenon DEF Catalog!Counted, a
<1>3. s = a \o (name \o rest) /\ name \o rest \in Seq(Int)
  BY <1>1, <1>2, ConcatAssociative, ConcatProperties
<1>4. s[1] = Len(name)
  <2> DEFINE b == name \o rest
  <2>1. b \in Seq(Int) /\ Len(b) \in Nat
    BY <1>3, LenProperties
  <2> HIDE DEF b
  <2>2. \A k \in 1 .. Len(a) + Len(b) : (a \o b)[k] = IF k <= Len(a) THEN a[k] ELSE b[k - Len(a)]
    BY <1>1, <2>1, ConcatProperties, ZenonT(40)
  <2>3. (a \o b)[1] = a[1]
    <3>1. 1 \in 1 .. Len(a) + Len(b) /\ 1 <= Len(a)
      BY <1>1, <2>1
    <3> QED BY <2>2, <3>1
  <2> QED BY <1>1, <1>3, <2>3 DEF b
<1>5. Catalog!After(s, 1) = name \o rest
  <2> DEFINE b == name \o rest
  <2>1. b \in Seq(Int) /\ s = a \o b
    BY <1>3
  <2> HIDE DEF b
  <2>2. SubSeq(a \o b, Len(a) + 1, Len(a \o b)) = b
    BY <1>1, <2>1, TakenApart
  <2>3. SubSeq(s, 1 + 1, Len(s)) = b
    BY <1>1, <2>1, <2>2
  <2> QED BY <2>3 DEF Catalog!After, b
<1>6. Catalog!Leading(name \o rest, Len(name)) = name
  BY TakenApart DEF Catalog!Leading
<1> HIDE DEF u
<1>7. Catalog!After(s, 1 + Len(name)) = rest
  <2>1. SubSeq(u \o rest, Len(u) + 1, Len(u \o rest)) = rest
    BY <1>2, TakenApart
  <2> QED BY <1>2, <2>1 DEF Catalog!After
<1> QED BY <1>2, <1>4, <1>5, <1>6, <1>7

\* What from_be_bytes of an entry finds in e.
ReadsAs(e, id, name, file, schemaBytes) ==
    LET afterId == Catalog!After(e, 4)
        rest    == Catalog!After(afterId, 1 + Len(name))
        lenAt   == Catalog!After(rest, 1 + Len(file))
    IN  /\ Catalog!from_be_bytes(Catalog!Leading(e, 4)) = id
        /\ Catalog!Leading(Catalog!After(afterId, 1), afterId[1]) = name
        /\ Catalog!Leading(Catalog!After(rest, 1), rest[1]) = file
        /\ Catalog!Leading(Catalog!After(lenAt, 2),
                           Catalog!from_be_bytes(Catalog!Leading(lenAt, 2))) = schemaBytes

\* The bytes of the names and of the schema are found behind their lengths.
LEMMA EntryReadBack ==
    ASSUME NEW id \in Catalog!UInt(4), NEW name \in Seq(Int), NEW file \in Seq(Int),
           NEW schemaBytes \in Seq(Int), Len(schemaBytes) \in Catalog!UInt(2), NEW e,
           e = Catalog!to_be_bytes(id, 4) \o Catalog!Counted(name) \o Catalog!Counted(file)
                  \o Catalog!to_be_bytes(Len(schemaBytes), 2) \o schemaBytes
    PROVE  ReadsAs(e, id, name, file, schemaBytes)
<1> DEFINE i4 == Catalog!to_be_bytes(id, 4)
           l2 == Catalog!to_be_bytes(Len(schemaBytes), 2)
           cn == Catalog!Counted(name)
           cf == Catalog!Counted(file)
           r2 == l2 \o schemaBytes
           r1 == cf \o r2
           r0 == cn \o r1
<1>1. id \in Nat /\ Len(schemaBytes) \in Nat
  BY LenProperties DEF Catalog!UInt
<1>2. /\ i4 \in Seq(Int) /\ Len(i4) = 4 /\ Catalog!from_be_bytes(i4) = id
      /\ l2 \in Seq(Int) /\ Len(l2) = 2 /\ Catalog!from_be_bytes(l2) = Len(schemaBytes)
  BY <1>1, CatalogNumbers
<1>3. cn \in Seq(Int) /\ cf \in Seq(Int)
  BY CountedReadBack
<1>4. e = (((i4 \o cn) \o cf) \o l2) \o schemaBytes
  OBVIOUS
<1> HIDE DEF i4, l2, cn, cf
<1>5. r2 \in Seq(Int) /\ r1 \in Seq(Int) /\ r0 \in Seq(Int)
  BY <1>2, <1>3, ConcatProperties
<1> HIDE DEF r2, r1, r0
<1>6. e = i4 \o r0
  <2> DEFINE p1 == i4 \o cn
             p2 == p1 \o cf
  <2>1. p1 \in Seq(Int)
    BY <1>2, <1>3, ConcatProperties
  <2> HIDE DEF p1
  <2>2. p2 \in Seq(Int)
    BY <1>3, <2>1, ConcatProperties
  <2> HIDE DEF p2
  <2>3. JoinsAlike(p2, l2, schemaBytes) /\ JoinsAlike(p1, cf, r2) /\ JoinsAlike(i4, cn, r1)
    BY <1>2, <1>3, <1>5, <2>1, <2>2, Associates
  <2> QED BY <1>4, <2>3 DEF JoinsAlike, r2, r1, r0, p2, p1
<1>7. Catalog!Leading(e, 4) = i4 /\ Catalog!After(e, 4) = r0
  <2>1. SubSeq(i4 \o r0, 1, Len(i4)) = i4 /\ SubSeq(i4 \o r0, Len(i4) + 1, Len(i4 \o r0)) = r0
    BY <1>2, <1>5, TakenApart, ZenonT(40)
  <2> QED BY <1>2, <1>6, <2>1 DEF Catalog!Leading, Catalog!After
<1>8. /\ Catalog!Leading(Catalog!After(r0, 1), r0[1]) = name
      /\ Catalog!After(r0, 1 + Len(name)) = r1
  BY <1>5, CountedReadBack DEF r0, cn
<1>9. /\ Catalog!Leading(Catalog!After(r1, 1), r1[1]) = file
      /\ Catalog!After(r1, 1 + Len(file)) = r2
  BY <1>5, CountedReadBack DEF r1, cf
<1>10. Catalog!Leading(r2, 2) = l2 /\ Catalog!After(r2, 2) = schemaBytes
  <2>1. /\ SubSeq(l2 \o schemaBytes, 1, Len(l2)) = l2
        /\ SubSeq(l2 \o schemaBytes, Len(l2) + 1, Len(l2 \o schemaBytes)) = schemaBytes
    BY <1>2, TakenApart
  <2> QED BY <1>2, <2>1 DEF r2, Catalog!Leading, Catalog!After
<1>11. Catalog!Leading(schemaBytes, Len(schemaBytes)) = schemaBytes
  BY SubSeqFull DEF Catalog!Leading
<1> QED BY <1>2, <1>7, <1>8, <1>9, <1>10, <1>11 DEF ReadsAs

-----------------------------------------------------------------------------
(* The schema: the inductive invariant of SchemaCodec. *)

\* The bytes of the columns, one part for each, and the count in front of them.
Count(columns) == Catalog!to_be_bytes(Len(columns), 4)
Parts(columns) == [k \in 1 .. Len(columns) |-> Catalog!ColumnBytes(columns[k])]

\* The bytes of the schema up to its k-th column, and of its last k columns.
Written(columns) == FrontJoined(Count(columns), Parts(columns))
Unread(columns)  == BackJoined(Parts(columns))
Whole(columns)   == Written(columns)[Len(columns)]

StoredEntry ==
    Catalog!to_be_bytes(table_id, 4) \o Catalog!Counted(table_name)
        \o Catalog!Counted(Catalog!file_name)
        \o Catalog!to_be_bytes(Len(Whole(attributes)), 2) \o Whole(attributes)

SchemaTypes ==
    /\ attributes \in Seq(Columns)
    /\ table_id \in 1 .. MaxId
    /\ table_name \in TableNames
    /\ num_attrs \in Nat
    /\ stage \in {"Encode", "Refused", "Stored", "Decode", "Open"}
    /\ found \in [id : Int, name : Seq(Int), file : Seq(Int), attributes : Seq(Columns)]

\* The writer has written the columns it has counted.
EncodedSoFar ==
    stage = "Encode" =>
        IF blob = <<>> THEN num_attrs = 0
        ELSE num_attrs <= Len(attributes) /\ blob = Written(attributes)[num_attrs]

EntryStored ==
    stage = "Stored" => entry = StoredEntry /\ Len(Whole(attributes)) \in Catalog!UInt(2)

\* The reader has read the first columns and has the bytes of the others.
DecodedSoFar ==
    stage \in {"Decode", "Open"} =>
        /\ found.id = table_id /\ found.name = table_name /\ found.file = Catalog!file_name
        /\ num_attrs = Len(attributes)
        /\ Len(found.attributes) <= Len(attributes)
        /\ \A k \in 1 .. Len(found.attributes) : found.attributes[k] = attributes[k]
        /\ data = Unread(attributes)[Len(attributes) - Len(found.attributes)]
        /\ stage = "Open" => Len(found.attributes) = Len(attributes)

SchemaInv == SchemaTypes /\ EncodedSoFar /\ EntryStored /\ DecodedSoFar

-----------------------------------------------------------------------------
(* The bytes of a schema. *)

\* The bytes of a schema, from the front and from the back.
LEMMA SchemaBytes ==
    ASSUME NEW columns \in Seq(Columns)
    PROVE  LET n == Len(columns)
           IN  /\ n \in Nat
               /\ Written(columns)[0] = Count(columns)
               /\ \A k \in 1 .. n :
                     Written(columns)[k] = Written(columns)[k - 1] \o Catalog!ColumnBytes(columns[k])
               /\ \A k \in 0 .. n : Written(columns)[k] \in Seq(Int)
               /\ Unread(columns)[0] = <<>>
               /\ \A k \in 1 .. n :
                     Unread(columns)[k]
                         = Catalog!ColumnBytes(columns[n + 1 - k]) \o Unread(columns)[k - 1]
               /\ \A k \in 0 .. n : Unread(columns)[k] \in Seq(Int)
               /\ Whole(columns) = Count(columns) \o Unread(columns)[n]
               /\ Count(columns) \in Seq(Int) /\ Len(Count(columns)) = 4
<1> DEFINE n == Len(columns)
           p == Parts(columns)
           c == Count(columns)
<1>1. n \in Nat /\ \A k \in 1 .. n : columns[k] \in Columns
  BY LenProperties, ElementOfSeq
<1>2. c \in Seq(Int) /\ Len(c) = 4
  BY <1>1, CatalogNumbers DEF Count
<1>3. \A k \in 1 .. n : p[k] = Catalog!ColumnBytes(columns[k])
  BY DEF Parts
<1>4. p \in Seq(Seq(Int)) /\ Len(p) = n
  <2> DEFINE X == Seq(Int)
  <2>1. \A k \in 1 .. n : Catalog!ColumnBytes(columns[k]) \in X
    BY <1>1, ColumnAsBytes
  <2>2. p = [k \in 1 .. n |-> Catalog!ColumnBytes(columns[k])]
    BY DEF Parts
  <2> HIDE DEF X, p, n
  <2>3. p \in [1 .. n -> X]
    BY <2>1, <2>2, Zenon
  <2>4. p \in Seq(X) /\ Len(p) = n
    BY <1>1, <2>3, SeqDef, LenProperties
  <2> QED BY <2>4 DEF X
<1>5. Written(columns) = FrontJoined(c, p) /\ Unread(columns) = BackJoined(p)
  BY DEF Written, Unread
<1> HIDE DEF n, p, c
<1>6. /\ FrontJoined(c, p)[0] = c
      /\ \A k \in 1 .. Len(p) : FrontJoined(c, p)[k] = FrontJoined(c, p)[k - 1] \o p[k]
      /\ \A k \in 0 .. Len(p) : FrontJoined(c, p)[k] \in Seq(Int)
  BY <1>2, <1>4, FrontJoins
<1>7. /\ BackJoined(p)[0] = <<>>
      /\ \A k \in 1 .. Len(p) : BackJoined(p)[k] = p[Len(p) + 1 - k] \o BackJoined(p)[k - 1]
      /\ \A k \in 0 .. Len(p) : BackJoined(p)[k] \in Seq(Int)
  BY <1>4, BackJoins
<1>8. Whole(columns) = c \o BackJoined(p)[n]
  <2>1. \A k \in 0 .. Len(p) : FrontJoined(c, p)[Len(p)] = FrontJoined(c, p)[Len(p) - k] \o BackJoined(p)[k]
    BY <1>2, <1>4, JoinedAndLeft
  <2>2. n \in 0 .. n /\ n - n = 0
    BY <1>1
  <2>3. FrontJoined(c, p)[n] = FrontJoined(c, p)[0] \o BackJoined(p)[n]
    BY <1>4, <2>1, <2>2
  <2> QED BY <1>5, <1>6, <2>3 DEF Whole, n
<1>9. \A k \in 1 .. n : n + 1 - k \in 1 .. n
  BY <1>1
<1> QED BY <1>1, <1>2, <1>3, <1>4, <1>5, <1>6, <1>7, <1>8, <1>9 DEF n, c

\* A schema has more bytes than columns.
LEMMA SchemaLength ==
    ASSUME NEW columns \in Seq(Columns)
    PROVE  /\ Whole(columns) \in Seq(Int) /\ Len(Whole(columns)) \in Nat
           /\ Len(columns) <= Len(Whole(columns))
           /\ \A k \in 0 .. Len(columns) : Written(columns)[k] # <<>>
<1> DEFINE n == Len(columns)
           w == Written(columns)
           f == [k \in 0 .. n |-> Len(w[k]) - k]
           X == Nat \ {0}
<1>1. /\ n \in Nat /\ w[0] = Count(columns) /\ Len(Count(columns)) = 4
      /\ \A k \in 1 .. n : w[k] = w[k - 1] \o Catalog!ColumnBytes(columns[k])
      /\ \A k \in 0 .. n : w[k] \in Seq(Int)
  BY SchemaBytes
<1>2. \A k \in 1 .. n : columns[k] \in Columns
  BY ElementOfSeq
<1>3. w[n] = Whole(columns)
  BY DEF Whole
<1> HIDE DEF n, w
<1>4. \A k \in 0 .. n : f[k] = Len(w[k]) - k
  OBVIOUS
<1> HIDE DEF f
<1>5. f[0] \in X
  <2>1. 0 \in 0 .. n
    BY <1>1
  <2>2. f[0] = Len(w[0]) - 0
    BY <1>4, <2>1
  <2>3. Len(w[0]) = 4
    BY <1>1, Zenon
  <2> QED BY <2>2, <2>3
<1>6. ASSUME NEW k \in 1 .. n, f[k - 1] \in X PROVE f[k] \in X
  <2> DEFINE a == w[k - 1]
             b == Catalog!ColumnBytes(columns[k])
  <2>1. a \in Seq(Int) /\ w[k] = a \o b /\ k - 1 \in 0 .. n /\ k \in 0 .. n
    <3>1. k - 1 \in 0 .. n /\ k \in 0 .. n
      BY <1>1
    <3> QED BY <1>1, <3>1
  <2>2. b \in Seq(Int) /\ Len(b) = Len(columns[k].name) + 3 /\ Len(columns[k].name) \in Nat
    BY <1>2, ColumnAsBytes
  <2>3. f[k - 1] = Len(a) - (k - 1) /\ f[k] = Len(w[k]) - k
    BY <1>4, <2>1
  <2> HIDE DEF a, b
  <2>4. Len(a \o b) = Len(a) + Len(b) /\ Len(a) \in Nat
    BY <2>1, <2>2, ConcatProperties, LenProperties
  <2>5. Len(w[k]) = Len(a) + (Len(columns[k].name) + 3)
    BY <2>1, <2>2, <2>4
  <2>6. Len(a) - (k - 1) \in Nat \ {0}
    BY <1>6, <2>3
  <2>7. Len(w[k]) - k \in Nat \ {0}
    <3> DEFINE x == Len(a)
               y == Len(columns[k].name)
    <3>1. x \in Nat /\ y \in Nat /\ x - (k - 1) \in Nat \ {0} /\ Len(w[k]) = x + (y + 3)
      BY <2>2, <2>4, <2>5, <2>6
    <3>2. k \in Int
      OBVIOUS
    <3> HIDE DEF x, y
    <3> QED BY <3>1, <3>2
  <2> QED BY <2>3, <2>7
<1> HIDE DEF X
<1>7. \A k \in 0 .. n : f[k] \in X
  BY <1>1, <1>5, <1>6, LoopStays
<1>8. \A k \in 0 .. n : Len(w[k]) \in Nat /\ Len(w[k]) > k
  <2> TAKE k \in 0 .. n
  <2>1. f[k] \in Nat \ {0} /\ f[k] = Len(w[k]) - k
    BY <1>4, <1>7 DEF X
  <2>2. Len(w[k]) \in Nat
    BY <1>1, LenProperties
  <2> QED BY <2>1, <2>2
<1>9. \A k \in 0 .. n : w[k] # <<>>
  <2> TAKE k \in 0 .. n
  <2>1. Len(w[k]) > 0
    BY <1>8
  <2> QED BY <2>1
<1>10. w[n] \in Seq(Int) /\ Len(w[n]) \in Nat /\ n <= Len(w[n])
  BY <1>1, <1>8
<1> QED BY <1>3, <1>9, <1>10 DEF n, w

-----------------------------------------------------------------------------
(* Every action keeps the invariant of the schema. *)

\* CREATE TABLE has written nothing.
LEMMA InitSchema == Catalog!Init => SchemaInv
<1> SUFFICES ASSUME Catalog!Init PROVE SchemaInv
  OBVIOUS
<1>1. attributes \in Seq(Columns)
  <2>1. PICK n \in 1 .. MaxColumns : attributes \in [1 .. n -> Columns]
    BY DEF Catalog!Init
  <2>2. n \in Nat
    BY BoundsAssumption
  <2> QED BY <2>1, <2>2, SeqDef
<1>2. SchemaTypes
  <2>1. <<>> \in Seq(Int) /\ <<>> \in Seq(Columns)
    BY EmptySeq
  <2>2. /\ table_id \in 1 .. MaxId /\ table_name \in TableNames /\ num_attrs = 0
        /\ stage = "Encode"
        /\ found = [id |-> 0, name |-> <<>>, file |-> <<>>, attributes |-> <<>>]
    BY DEF Catalog!Init
  <2> QED BY <1>1, <2>1, <2>2 DEF SchemaTypes
<1> QED BY <1>2 DEF Catalog!Init, SchemaInv, EncodedSoFar, EntryStored, DecodedSoFar

\* A name or a schema is too long.
LEMMA RefusalsKeepSchema ==
    ASSUME SchemaInv, Catalog!ColumnRefused \/ Catalog!EntryRefused
    PROVE  SchemaInv'
BY Zenon DEF SchemaInv, SchemaTypes, EncodedSoFar, EntryStored, DecodedSoFar,
       Catalog!ColumnRefused, Catalog!EntryRefused, Catalog!table

\* The number of columns is written.
LEMMA EncodeStartsKeepsSchema ==
    ASSUME SchemaInv, Catalog!EncodeStarts
    PROVE  SchemaInv'
<1>1. /\ stage = "Encode" /\ blob = <<>> /\ blob' = Count(attributes)
      /\ UNCHANGED <<table_id, table_name, attributes, stage, entry, data, num_attrs, found>>
  BY DEF Catalog!EncodeStarts, Catalog!table, Count
<1>2. attributes \in Seq(Columns) /\ num_attrs = 0
  BY <1>1 DEF SchemaInv, SchemaTypes, EncodedSoFar
<1>3. blob' = Written(attributes)[0] /\ Len(attributes) \in Nat
  BY <1>1, <1>2, SchemaBytes
<1>4. SchemaTypes'
  BY <1>1 DEF SchemaInv, SchemaTypes
<1>5. EncodedSoFar'
  BY <1>1, <1>2, <1>3 DEF EncodedSoFar
<1> QED BY <1>1, <1>4, <1>5 DEF SchemaInv, EntryStored, DecodedSoFar

\* A column is written.
LEMMA EncodeColumnKeepsSchema ==
    ASSUME SchemaInv, Catalog!EncodeColumn
    PROVE  SchemaInv'
<1>1. /\ stage = "Encode" /\ blob # <<>> /\ num_attrs < Len(attributes)
      /\ blob' = blob \o Catalog!ColumnBytes(attributes[num_attrs + 1])
      /\ num_attrs' = num_attrs + 1
      /\ UNCHANGED <<table_id, table_name, attributes, stage, entry, data, found>>
  BY DEF Catalog!EncodeColumn, Catalog!table
<1>2. attributes \in Seq(Columns) /\ num_attrs \in Nat /\ blob = Written(attributes)[num_attrs]
  BY <1>1 DEF SchemaInv, SchemaTypes, EncodedSoFar
<1>3. Len(attributes) \in Nat /\ num_attrs + 1 \in 1 .. Len(attributes)
  BY <1>1, <1>2, LenProperties
<1>4. blob' = Written(attributes)[num_attrs + 1]
  <2>1. \A k \in 1 .. Len(attributes) :
           Written(attributes)[k] = Written(attributes)[k - 1] \o Catalog!ColumnBytes(attributes[k])
    BY <1>2, SchemaBytes
  <2>2. (num_attrs + 1) - 1 = num_attrs
    BY <1>2
  <2> QED BY <1>1, <1>2, <1>3, <2>1, <2>2
<1>5. SchemaTypes'
  BY <1>1, <1>2 DEF SchemaInv, SchemaTypes
<1>6. EncodedSoFar'
  <2>1. blob' # <<>>
    BY <1>2, <1>3, <1>4, SchemaLength
  <2> QED BY <1>1, <1>3, <1>4, <2>1 DEF EncodedSoFar
<1> QED BY <1>1, <1>5, <1>6 DEF SchemaInv, EntryStored, DecodedSoFar

\* The entry is put into the catalog page.
LEMMA EncodeEntryKeepsSchema ==
    ASSUME SchemaInv, Catalog!EncodeEntry
    PROVE  SchemaInv'
<1>1. /\ stage = "Encode" /\ blob # <<>> /\ num_attrs = Len(attributes)
      /\ Len(blob) \in Catalog!UInt(2)
      /\ entry' = Catalog!to_be_bytes(table_id, 4) \o Catalog!Counted(table_name)
                     \o Catalog!Counted(Catalog!file_name)
                     \o Catalog!to_be_bytes(Len(blob), 2) \o blob
      /\ stage' = "Stored"
      /\ UNCHANGED <<table_id, table_name, attributes, blob, data, num_attrs, found>>
  BY DEF Catalog!EncodeEntry, Catalog!Encoded, Catalog!LengthsFit, Catalog!table
<1>2. blob = Whole(attributes)
  BY <1>1 DEF SchemaInv, EncodedSoFar, Whole
<1>3. entry' = StoredEntry
  BY <1>1, <1>2 DEF StoredEntry
<1>4. StoredEntry' = StoredEntry
  BY <1>1 DEF StoredEntry, Catalog!file_name
<1>5. SchemaTypes'
  BY <1>1 DEF SchemaInv, SchemaTypes
<1>6. EntryStored'
  BY <1>1, <1>2, <1>3, <1>4 DEF EntryStored
<1> QED BY <1>1, <1>5, <1>6 DEF SchemaInv, EncodedSoFar, DecodedSoFar

\* The names and the bytes of the schema are taken out of the entry.
LEMMA DecodeEntryKeepsSchema ==
    ASSUME SchemaInv, Catalog!DecodeEntry
    PROVE  SchemaInv'
<1> DEFINE w == Whole(attributes)
           n == Len(attributes)
           file == Catalog!file_name
<1>1. /\ entry = StoredEntry /\ Len(w) \in Catalog!UInt(2)
      /\ attributes \in Seq(Columns) /\ table_id \in 1 .. MaxId /\ table_name \in TableNames
  BY DEF Catalog!DecodeEntry, SchemaInv, SchemaTypes, EntryStored
<1>2. table_name \in Seq(Int) /\ file \in Seq(Int) /\ table_id \in Catalog!UInt(4)
  <2>1. /\ table_name \in Seq(Catalog!UInt(1)) /\ Suffix \in Seq(Catalog!UInt(1))
        /\ MaxId \in Catalog!UInt(4)
    BY <1>1, CatalogAssumption DEF Catalog!Assumptions
  <2>2. Catalog!UInt(1) \subseteq Int
    BY DEF Catalog!UInt
  <2>3. table_name \in Seq(Int) /\ Suffix \in Seq(Int)
    BY <2>1, <2>2, SeqMonotonic
  <2>4. table_name \o Suffix \in Seq(Int)
    BY <2>3, ConcatProperties
  <2>5. table_id \in Catalog!UInt(4)
    <3>1. \A x \in Nat, y \in Catalog!UInt(4) : x <= y => x \in Catalog!UInt(4)
      BY CatalogNumbers
    <3>2. table_id \in Nat /\ table_id <= MaxId
      BY <1>1, <2>1
    <3> QED BY <2>1, <3>1, <3>2
  <2> QED BY <2>3, <2>4, <2>5 DEF Catalog!file_name
<1>3. /\ w \in Seq(Int) /\ Len(w) \in Nat /\ n <= Len(w) /\ n \in Nat
      /\ w = Count(attributes) \o Unread(attributes)[n]
      /\ Count(attributes) \in Seq(Int) /\ Len(Count(attributes)) = 4
      /\ Unread(attributes)[n] \in Seq(Int)
  <2>1. n \in Nat /\ n \in 0 .. n
    BY <1>1, LenProperties
  <2> QED BY <1>1, <2>1, SchemaBytes, SchemaLength
<1>4. n \in Catalog!UInt(4) /\ Catalog!from_be_bytes(Count(attributes)) = n
  <2>1. Catalog!UInt(2) \subseteq Catalog!UInt(4)
    BY CatalogNumbers
  <2>2. n \in Catalog!UInt(2)
    <3>1. \A x \in Nat, y \in Catalog!UInt(2) : x <= y => x \in Catalog!UInt(2)
      BY CatalogNumbers
    <3> QED BY <1>1, <1>3, <3>1
  <2> QED BY <1>3, <2>1, <2>2, CatalogNumbers DEF Count
<1>5. ReadsAs(entry, table_id, table_name, file, w)
  <2> HIDE DEF w, file
  <2>1. entry = Catalog!to_be_bytes(table_id, 4) \o Catalog!Counted(table_name)
                   \o Catalog!Counted(file) \o Catalog!to_be_bytes(Len(w), 2) \o w
    BY <1>1 DEF StoredEntry, w, file
  <2>2. /\ table_id \in Catalog!UInt(4) /\ table_name \in Seq(Int) /\ file \in Seq(Int)
        /\ w \in Seq(Int) /\ Len(w) \in Catalog!UInt(2)
    BY <1>1, <1>2, <1>3
  <2> QED BY <2>1, <2>2, EntryReadBack
<1>6. Catalog!Leading(w, 4) = Count(attributes) /\ Catalog!After(w, 4) = Unread(attributes)[n]
  <2> DEFINE c == Count(attributes)
             u == Unread(attributes)[n]
  <2>1. c \in Seq(Int) /\ u \in Seq(Int) /\ Len(c) = 4 /\ w = c \o u
    BY <1>3
  <2> HIDE DEF c, u, w
  <2>2. SubSeq(c \o u, 1, Len(c)) = c /\ SubSeq(c \o u, Len(c) + 1, Len(c \o u)) = u
    BY <2>1, TakenApart
  <2> QED BY <2>1, <2>2 DEF Catalog!Leading, Catalog!After, c, u
<1>7. /\ found' = [id |-> table_id, name |-> table_name, file |-> file, attributes |-> <<>>]
      /\ num_attrs' = n
      /\ data' = Unread(attributes)[n]
      /\ stage' = "Decode"
      /\ UNCHANGED <<table_id, table_name, attributes, blob, entry>>
  <2> HIDE DEF w, n, file
  <2> QED BY <1>4, <1>5, <1>6, Zenon DEF ReadsAs, Catalog!DecodeEntry, Catalog!table
<1>8. SchemaTypes'
  <2>1. <<>> \in Seq(Columns) /\ table_id \in Int
    BY <1>1, EmptySeq
  <2> HIDE DEF n, file
  <2>2. found' \in [id : Int, name : Seq(Int), file : Seq(Int), attributes : Seq(Columns)]
    BY <1>2, <1>7, <2>1
  <2> QED BY <1>1, <1>3, <1>7, <2>2 DEF SchemaTypes
<1>9. DecodedSoFar'
  <2>1. Catalog!file_name' = file
    BY <1>7 DEF Catalog!file_name
  <2>2. Len(<<>>) = 0 /\ n - 0 = n
    BY <1>3
  <2>3. /\ found.id' = table_id /\ found.name' = table_name /\ found.file' = file
        /\ found.attributes' = <<>>
    BY <1>7
  <2> HIDE DEF file
  <2> QED BY <1>3, <1>7, <2>1, <2>2, <2>3 DEF DecodedSoFar
<1> QED BY <1>7, <1>8, <1>9 DEF SchemaInv, EncodedSoFar, EntryStored

\* While there are columns to read, the next one's bytes come next.
LEMMA NextColumn ==
    ASSUME SchemaInv, Catalog!Decoding
    PROVE  LET m == Len(found.attributes)
               n == Len(attributes)
           IN  /\ m \in Nat /\ n \in Nat /\ m < n /\ attributes[m + 1] \in Columns
               /\ Unread(attributes)[n - m - 1] \in Seq(Int)
               /\ data = Catalog!ColumnBytes(attributes[m + 1]) \o Unread(attributes)[n - m - 1]
<1> DEFINE m == Len(found.attributes)
           n == Len(attributes)
           u == Unread(attributes)
<1>1. /\ attributes \in Seq(Columns) /\ found.attributes \in Seq(Columns)
      /\ num_attrs = n /\ m < n /\ data = u[n - m]
  BY DEF SchemaInv, SchemaTypes, DecodedSoFar, Catalog!Decoding
<1>2. m \in Nat /\ n \in Nat
  BY <1>1, LenProperties
<1>3. /\ \A k \in 1 .. n : u[k] = Catalog!ColumnBytes(attributes[n + 1 - k]) \o u[k - 1]
      /\ \A k \in 0 .. n : u[k] \in Seq(Int)
  BY <1>1, SchemaBytes
<1>4. m + 1 \in 1 .. n
  BY <1>1, <1>2
<1>5. attributes[m + 1] \in Columns
  BY <1>1, <1>4, ElementOfSeq
<1> HIDE DEF m, n, u
<1>6. /\ n - m \in 1 .. n /\ n + 1 - (n - m) = m + 1 /\ n - m - 1 \in 0 .. n
      /\ (n - m) - 1 = n - m - 1
  BY <1>1, <1>2
<1>7. data = Catalog!ColumnBytes(attributes[m + 1]) \o u[n - m - 1]
  BY <1>1, <1>3, <1>6
<1> QED BY <1>1, <1>2, <1>3, <1>5, <1>6, <1>7 DEF m, n, u

\* A column is read.
LEMMA DecodeColumnKeepsSchema ==
    ASSUME SchemaInv, Catalog!DecodeColumn
    PROVE  SchemaInv'
<1> DEFINE m == Len(found.attributes)
           n == Len(attributes)
           c == attributes[m + 1]
           u == Unread(attributes)
<1>1. /\ m \in Nat /\ n \in Nat /\ m < n /\ c \in Columns /\ u[n - m - 1] \in Seq(Int)
      /\ data = Catalog!ColumnBytes(c) \o u[n - m - 1]
  BY NextColumn DEF Catalog!DecodeColumn
<1>2. /\ attributes \in Seq(Columns) /\ found.attributes \in Seq(Columns)
      /\ found.id = table_id /\ found.name = table_name /\ found.file = Catalog!file_name
      /\ num_attrs = n
      /\ \A k \in 1 .. m : found.attributes[k] = attributes[k]
      /\ found \in [id : Int, name : Seq(Int), file : Seq(Int), attributes : Seq(Columns)]
  BY DEF SchemaInv, SchemaTypes, DecodedSoFar, Catalog!DecodeColumn, Catalog!Decoding
<1>3. /\ [name |-> SubSeq(data, 2, Catalog!name_len + 1),
          data_type |-> Catalog!DataType[data[Catalog!name_len + 2] + 1],
          is_nullable |-> data[Catalog!name_len + 3] = 1] = c
      /\ Catalog!After(data, Catalog!ColumnLen) = u[n - m - 1]
  <2> HIDE DEF c, u, n, m
  <2> DEFINE tail == u[n - m - 1]
  <2>1. c \in Columns /\ tail \in Seq(Int) /\ data = Catalog!ColumnBytes(c) \o tail
    BY <1>1
  <2> HIDE DEF tail
  <2> QED BY <2>1, ColumnReadBack DEF tail
<1>4. /\ stage = "Decode"
      /\ found' = [found EXCEPT !.attributes = Append(@, c)]
      /\ data' = u[n - m - 1]
      /\ UNCHANGED <<table_id, table_name, attributes, stage, blob, entry, num_attrs>>
  <2> HIDE DEF c, u, n, m
  <2> QED BY <1>3 DEF Catalog!DecodeColumn, Catalog!Decoding, Catalog!table
<1>5. /\ found'.id = found.id /\ found'.name = found.name /\ found'.file = found.file
      /\ found'.attributes = Append(found.attributes, c)
      /\ found' \in [id : Int, name : Seq(Int), file : Seq(Int), attributes : Seq(Columns)]
  <2> HIDE DEF c
  <2>1. Append(found.attributes, c) \in Seq(Columns)
    BY <1>1, <1>2, AppendProperties
  <2> QED BY <1>2, <1>4, <2>1
<1>6. /\ Len(Append(found.attributes, c)) = m + 1
      /\ \A k \in 1 .. m + 1 : Append(found.attributes, c)[k] = attributes[k]
  <2> DEFINE s == found.attributes
             a == Append(s, c)
  <2>1. Len(s) = m /\ s \in Seq(Columns) /\ \A k \in 1 .. m : s[k] = attributes[k]
    BY <1>2
  <2>2. c = attributes[m + 1]
    OBVIOUS
  <2> HIDE DEF s, c, m
  <2>3. Len(a) = Len(s) + 1 /\ (\A k \in 1 .. Len(s) : a[k] = s[k]) /\ a[Len(s) + 1] = c
    BY <1>1, <2>1, AppendProperties
  <2>4. \A k \in 1 .. m + 1 : k \in 1 .. m \/ k = m + 1
    BY <1>1
  <2> HIDE DEF a
  <2>5. \A k \in 1 .. m + 1 : a[k] = attributes[k]
    BY <2>1, <2>2, <2>3, <2>4
  <2> QED BY <2>1, <2>3, <2>5 DEF a, s
<1>7. SchemaTypes'
  <2> HIDE DEF c, m, n, u
  <2> QED BY <1>4, <1>5 DEF SchemaInv, SchemaTypes
<1>8. DecodedSoFar'
  <2>1. Catalog!file_name' = Catalog!file_name
    BY <1>4 DEF Catalog!file_name
  <2>2. attributes' = attributes
    BY <1>4
  <2>3. Len(attributes') = n /\ data' = Unread(attributes')[n - m - 1]
    BY <1>4
  <2> HIDE DEF c, m, n, u
  <2>4. Len(found'.attributes) = m + 1 /\ n - (m + 1) = n - m - 1 /\ m + 1 <= n
    BY <1>1, <1>5, <1>6
  <2>5. \A k \in 1 .. m + 1 : found'.attributes[k] = attributes'[k]
    BY <1>4, <1>5, <1>6
  <2>6. stage' = "Decode" /\ num_attrs' = n /\ table_id' = table_id /\ table_name' = table_name
    BY <1>2, <1>4
  <2> QED BY <1>2, <1>5, <2>1, <2>3, <2>4, <2>5, <2>6 DEF DecodedSoFar
<1>9. stage' = "Decode"
  BY <1>4
<1> QED BY <1>7, <1>8, <1>9 DEF SchemaInv, EncodedSoFar, EntryStored

\* All columns are read.
LEMMA DecodeEndsKeepsSchema ==
    ASSUME SchemaInv, Catalog!DecodeEnds
    PROVE  SchemaInv'
<1>1. /\ stage = "Decode" /\ Len(found.attributes) = num_attrs /\ stage' = "Open"
      /\ UNCHANGED <<table_id, table_name, attributes, blob, entry, data, num_attrs, found>>
  BY DEF Catalog!DecodeEnds, Catalog!table
<1>2. SchemaTypes'
  BY <1>1 DEF SchemaInv, SchemaTypes
<1>3. DecodedSoFar'
  <2>1. Catalog!file_name' = Catalog!file_name
    BY <1>1 DEF Catalog!file_name
  <2> QED BY <1>1, <2>1 DEF SchemaInv, DecodedSoFar
<1> QED BY <1>1, <1>2, <1>3 DEF SchemaInv, EncodedSoFar, EntryStored

\* Every step of both loops.
LEMMA StepsKeepSchema ==
    ASSUME SchemaInv, Catalog!Next \/ UNCHANGED catalogVars
    PROVE  SchemaInv'
<1>1. CASE UNCHANGED catalogVars
  BY <1>1 DEF catalogVars, SchemaInv, SchemaTypes, EncodedSoFar, EntryStored, DecodedSoFar,
              StoredEntry, Catalog!file_name
<1>2. CASE Catalog!Encode
  BY <1>2, RefusalsKeepSchema, EncodeStartsKeepsSchema, EncodeColumnKeepsSchema,
     EncodeEntryKeepsSchema DEF Catalog!Encode
<1>3. CASE Catalog!Decode
  BY <1>3, DecodeEntryKeepsSchema, DecodeColumnKeepsSchema, DecodeEndsKeepsSchema
     DEF Catalog!Decode
<1> QED BY <1>1, <1>2, <1>3 DEF Catalog!Next

\* What a session finds is what was created.
LEMMA FoundIsCreated == SchemaInv => SchemaSurvives
<1> SUFFICES ASSUME SchemaInv PROVE SchemaSurvives
  OBVIOUS
<1>1. Catalog!Decoding => Catalog!ColumnReadable
  <2> SUFFICES ASSUME Catalog!Decoding PROVE Catalog!ColumnReadable
    OBVIOUS
  <2> DEFINE m == Len(found.attributes)
             c == attributes[m + 1]
             tail == Unread(attributes)[Len(attributes) - m - 1]
  <2>1. c \in Columns /\ tail \in Seq(Int) /\ data = Catalog!ColumnBytes(c) \o tail
    BY NextColumn
  <2> HIDE DEF c, tail
  <2> QED BY <2>1, ColumnReadBack
<1>2. ASSUME stage \in {"Decode", "Open"}
      PROVE  /\ IsPrefix(found.attributes, attributes)
             /\ stage = "Open" => found.attributes = attributes
  <2> DEFINE s == found.attributes
             t == attributes
  <2>1. /\ s \in Seq(Columns) /\ t \in Seq(Columns) /\ Len(s) <= Len(t)
        /\ \A k \in 1 .. Len(s) : s[k] = t[k]
        /\ stage = "Open" => Len(s) = Len(t)
    BY <1>2 DEF SchemaInv, SchemaTypes, DecodedSoFar
  <2> HIDE DEF s, t
  <2>2. IsPrefix(s, t)
    BY <2>1, PrefixByElements DEF IsPrefix
  <2>3. stage = "Open" => s = t
    BY <2>1, SeqEqual
  <2> QED BY <2>2, <2>3 DEF s, t
<1> QED BY <1>1, <1>2 DEF SchemaSurvives, Catalog!SchemaSurvives, SchemaInv, DecodedSoFar,
                          IsPrefix, Catalog!IsPrefix

\* A session changes nothing else of the schema.
LEMMA SessionsKeepSchema == Sessions => []SchemaInv
<1>1. OpensNew => SchemaInv
  BY InitSchema DEF OpensNew
<1>2. SchemaInv /\ [NextSession]_<<vars, catalogVars>> => SchemaInv'
  <2> SUFFICES ASSUME SchemaInv, [NextSession]_<<vars, catalogVars>> PROVE SchemaInv'
    OBVIOUS
  <2>1. Catalog!Next \/ UNCHANGED catalogVars
    BY DEF NextSession, CreateTable, Writes, Reopens, Reads, Catalog!Next
  <2> QED BY <2>1, StepsKeepSchema
<1> QED BY <1>1, <1>2, PTL DEF Sessions

\* A table is opened under the id, the names and the columns it was created
\* with, however many and however long they are, and no entry that was written
\* makes the reader panic (from_be_bytes of an entry, a schema and a column).
THEOREM SchemasSurvive == Sessions => []SchemaSurvives
BY SessionsKeepSchema, FoundIsCreated, PTL

-----------------------------------------------------------------------------
(* Numbers and their bytes in a record. *)

\* to_be_bytes and back: what fits is read as it was written, and what does not
\* as something smaller.
LEMMA RecordNumbers ==
    ASSUME NEW v \in Nat, NEW n \in {1, 2, 4}
    PROVE  /\ to_be_bytes(v, n) \in Seq(UInt(1)) /\ Len(to_be_bytes(v, n)) = n
           /\ from_be_bytes(to_be_bytes(v, n)) \in Nat
           /\ from_be_bytes(to_be_bytes(v, n)) <= v
           /\ v \in UInt(n) => from_be_bytes(to_be_bytes(v, n)) = v
<1> DEFINE r == Doubling[1 * BitsPerByte]
           s == Digits(v, n, BitsPerByte)
           m == Doubling[n * BitsPerByte]
<1>1. BitsPerByte \in Nat \ {0}
  BY BitsAssumption
<1>2. Shifted = Doubling
  BY DEF Shifted, Doubling
<1>3. to_be_bytes(v, n) = s /\ Radix(1) = r
  BY <1>2 DEF to_be_bytes, Radix, Digits
<1>4. from_be_bytes(s) = Horner(s, r)
  BY <1>3, Zenon DEF from_be_bytes, Horner
<1>5. s \in Seq(0 .. r - 1) /\ Len(s) = n /\ Horner(s, r) = v % m
  BY <1>1, DigitsReadBack
<1>6. /\ r \in Nat /\ r >= 2
      /\ Doubling[2 * BitsPerByte] = r * r /\ Doubling[4 * BitsPerByte] = r * r * r * r
      /\ r <= r * r /\ r * r <= r * r * r * r
  BY <1>1, Radices
<1>7. UInt(1) = 0 .. r - 1 /\ UInt(n) = 0 .. m - 1
  BY <1>2, <1>3 DEF UInt, Radix
<1> HIDE DEF r, s
<1>8. m \in Nat /\ m > 0
  BY <1>6 DEF r
<1> HIDE DEF m
<1>9. v % m \in Nat /\ v % m <= v /\ (v < m => v % m = v)
  <2>1. v = (v \div m) * m + (v % m) /\ v \div m \in Nat /\ v % m \in 0 .. m - 1
    BY <1>8
  <2>2. (v \div m) * m >= 0
    BY <1>8, <2>1
  <2>3. v < m => v % m = v
    BY <1>8
  <2> QED BY <1>8, <2>1, <2>2, <2>3
<1> QED BY <1>3, <1>4, <1>5, <1>7, <1>8, <1>9

\* What one, two and four bytes hold.
LEMMA RecordUInts ==
    /\ UInt(1) \subseteq UInt(2) /\ UInt(2) \subseteq UInt(4) /\ UInt(4) \subseteq Nat
    /\ 0 \in UInt(1) /\ 1 \in UInt(1)
    /\ \A n \in {1, 2, 4} : \A x \in Nat, y \in UInt(n) : x <= y => x \in UInt(n)
    /\ \A n \in {1, 2, 4} : \A s \in Seq(UInt(1)) : Len(s) = n => from_be_bytes(s) \in UInt(n)
<1> DEFINE r == Doubling[1 * BitsPerByte]
<1>1. BitsPerByte \in Nat \ {0}
  BY BitsAssumption
<1>2. Shifted = Doubling
  BY DEF Shifted, Doubling
<1>3. Radix(1) = r
  BY <1>2 DEF Radix
<1>6. /\ r \in Nat /\ r >= 2
      /\ Doubling[2 * BitsPerByte] = r * r /\ Doubling[4 * BitsPerByte] = r * r * r * r
      /\ r <= r * r /\ r * r <= r * r * r * r
  BY <1>1, Radices
<1>7. UInt(1) = 0 .. r - 1 /\ UInt(2) = 0 .. r * r - 1 /\ UInt(4) = 0 .. r * r * r * r - 1
  BY <1>2, <1>3, <1>6 DEF UInt, Radix
<1> HIDE DEF r
<1> DEFINE r2 == r * r
           r4 == r * r * r * r
<1>8. r2 \in Nat /\ r4 \in Nat /\ r <= r2 /\ r2 <= r4
  BY <1>6
<1>9. ASSUME NEW n \in {1, 2, 4}, NEW s \in Seq(UInt(1)), Len(s) = n
      PROVE  from_be_bytes(s) \in UInt(n)
  <2>1. s \in Seq(0 .. r - 1) /\ r \in Nat \ {0}
    BY <1>6, <1>7
  <2>2. from_be_bytes(s) = Horner(s, r)
    BY <1>3, Zenon DEF from_be_bytes, Horner
  <2>3. /\ Len(s) = 1 => Horner(s, r) \in 0 .. r - 1
        /\ Len(s) = 2 => Horner(s, r) \in 0 .. r * r - 1
        /\ Len(s) = 4 => Horner(s, r) \in 0 .. r * r * r * r - 1
    BY <2>1, HornerBounded
  <2> QED BY <1>7, <1>9, <2>2, <2>3, Zenon
<1>10. UInt(1) = 0 .. r - 1 /\ UInt(2) = 0 .. r2 - 1 /\ UInt(4) = 0 .. r4 - 1
  BY <1>7
<1> HIDE DEF r2, r4
<1>11. \A n \in {1, 2, 4} : \A x \in Nat, y \in UInt(n) : x <= y => x \in UInt(n)
  BY <1>6, <1>8, <1>10
<1> QED BY <1>6, <1>8, <1>9, <1>10, <1>11

-----------------------------------------------------------------------------
(* The loops over the columns, as sums. *)

\* The loop of header_size.
LEMMA ValueBytesAddUp ==
    ASSUME Len(values) \in Nat
    PROVE  /\ ValueBytes[0] = 0
           /\ \A k \in 1 .. Len(values) : ValueBytes[k] = ValueBytes[k - 1] + (IF values[k] = Null THEN 0 ELSE size(values[k].type))
           /\ \A k \in 0 .. Len(values) : ValueBytes[k] \in Nat
<1> DEFINE n == Len(values)
           g == [k \in 1 .. n |-> (IF values[k] = Null THEN 0 ELSE size(values[k].type))]
<1>1. n \in Nat /\ \A k \in 1 .. n : g[k] \in Nat /\ g[k] = (IF values[k] = Null THEN 0 ELSE size(values[k].type))
  BY DEF size
<1>2. PICK f \in [0 .. n -> Nat] : f[0] = 0 /\ \A k \in 1 .. n : f[k] = f[k - 1] + g[k]
  <2> HIDE DEF n, g
  <2> QED BY <1>1, SumExists
<1>3. f = [k \in 0 .. n |-> IF k = 0 THEN 0 ELSE f[k - 1] + (IF values[k] = Null THEN 0 ELSE size(values[k].type))]
  <2> HIDE DEF n, g
  <2>1. \A k \in 0 .. n : k = 0 \/ k \in 1 .. n
    BY <1>1
  <2>2. \A k \in 0 .. n : f[k] = IF k = 0 THEN 0 ELSE f[k - 1] + (IF values[k] = Null THEN 0 ELSE size(values[k].type))
    BY <1>1, <1>2, <2>1
  <2> QED BY <1>2, <2>2
<1>4. ValueBytes = [k \in 0 .. n |-> IF k = 0 THEN 0 ELSE ValueBytes[k - 1] + (IF values[k] = Null THEN 0 ELSE size(values[k].type))]
  BY <1>3 DEF ValueBytes
<1> HIDE DEF n
<1>5. ValueBytes[0] = 0 /\ \A k \in 1 .. n : ValueBytes[k] = ValueBytes[k - 1] + (IF values[k] = Null THEN 0 ELSE size(values[k].type))
  <2>1. 0 \in 0 .. n /\ \A k \in 1 .. n : k \in 0 .. n /\ k # 0
    BY <1>1
  <2> HIDE DEF g
  <2> QED BY <1>4, <2>1
<1>6. ASSUME NEW k \in 1 .. n, ValueBytes[k - 1] \in Nat PROVE ValueBytes[k] \in Nat
  <2> HIDE DEF g
  <2>1. ValueBytes[k] = ValueBytes[k - 1] + g[k]
    BY <1>1, <1>5, Zenon
  <2> QED BY <1>1, <1>6, <2>1
<1>7. ValueBytes[0] \in Nat
  BY <1>5
<1>8. \A k \in 0 .. n : ValueBytes[k] \in Nat
  BY <1>1, <1>6, <1>7, LoopStays
<1> QED BY <1>5, <1>8 DEF n

\* The loop of get_attr.
LEMMA ColumnBytesAddUp ==
    ASSUME Len(schema) \in Nat
    PROVE  /\ ColumnBytes[0] = 0
           /\ \A k \in 1 .. Len(schema) : ColumnBytes[k] = ColumnBytes[k - 1] + size(schema[k])
           /\ \A k \in 0 .. Len(schema) : ColumnBytes[k] \in Nat
<1> DEFINE n == Len(schema)
           g == [k \in 1 .. n |-> size(schema[k])]
<1>1. n \in Nat /\ \A k \in 1 .. n : g[k] \in Nat /\ g[k] = size(schema[k])
  BY DEF size
<1>2. PICK f \in [0 .. n -> Nat] : f[0] = 0 /\ \A k \in 1 .. n : f[k] = f[k - 1] + g[k]
  <2> HIDE DEF n, g
  <2> QED BY <1>1, SumExists
<1>3. f = [k \in 0 .. n |-> IF k = 0 THEN 0 ELSE f[k - 1] + size(schema[k])]
  <2> HIDE DEF n, g
  <2>1. \A k \in 0 .. n : k = 0 \/ k \in 1 .. n
    BY <1>1
  <2>2. \A k \in 0 .. n : f[k] = IF k = 0 THEN 0 ELSE f[k - 1] + size(schema[k])
    BY <1>1, <1>2, <2>1
  <2> QED BY <1>2, <2>2
<1>4. ColumnBytes = [k \in 0 .. n |-> IF k = 0 THEN 0 ELSE ColumnBytes[k - 1] + size(schema[k])]
  BY <1>3 DEF ColumnBytes
<1> HIDE DEF n
<1>5. ColumnBytes[0] = 0 /\ \A k \in 1 .. n : ColumnBytes[k] = ColumnBytes[k - 1] + size(schema[k])
  <2>1. 0 \in 0 .. n /\ \A k \in 1 .. n : k \in 0 .. n /\ k # 0
    BY <1>1
  <2> HIDE DEF g
  <2> QED BY <1>4, <2>1
<1>6. ASSUME NEW k \in 1 .. n, ColumnBytes[k - 1] \in Nat PROVE ColumnBytes[k] \in Nat
  <2> HIDE DEF g
  <2>1. ColumnBytes[k] = ColumnBytes[k - 1] + g[k]
    BY <1>1, <1>5, Zenon
  <2> QED BY <1>1, <1>6, <2>1
<1>7. ColumnBytes[0] \in Nat
  BY <1>5
<1>8. \A k \in 0 .. n : ColumnBytes[k] \in Nat
  BY <1>1, <1>6, <1>7, LoopStays
<1> QED BY <1>5, <1>8 DEF n

\* The bytes of the strings among the first n values.
StringBytes[n \in 0 .. Len(values)] ==
    IF n = 0 THEN 0
    ELSE StringBytes[n - 1] + (IF IsVariable(values[n].type) THEN Len(values[n].v) ELSE 0)

\* Where the strings lie.
LEMMA StringBytesAddUp ==
    ASSUME Len(values) \in Nat,
           \A k \in 1 .. Len(values) : IsVariable(values[k].type) => Len(values[k].v) \in Nat
    PROVE  /\ StringBytes[0] = 0
           /\ \A k \in 1 .. Len(values) : StringBytes[k] = StringBytes[k - 1] + (IF IsVariable(values[k].type) THEN Len(values[k].v) ELSE 0)
           /\ \A k \in 0 .. Len(values) : StringBytes[k] \in Nat
<1> DEFINE n == Len(values)
           g == [k \in 1 .. n |-> (IF IsVariable(values[k].type) THEN Len(values[k].v) ELSE 0)]
<1>1. n \in Nat /\ \A k \in 1 .. n : g[k] \in Nat /\ g[k] = (IF IsVariable(values[k].type) THEN Len(values[k].v) ELSE 0)
  OBVIOUS
<1>2. PICK f \in [0 .. n -> Nat] : f[0] = 0 /\ \A k \in 1 .. n : f[k] = f[k - 1] + g[k]
  <2> HIDE DEF n, g
  <2> QED BY <1>1, SumExists
<1>3. f = [k \in 0 .. n |-> IF k = 0 THEN 0 ELSE f[k - 1] + (IF IsVariable(values[k].type) THEN Len(values[k].v) ELSE 0)]
  <2> HIDE DEF n, g
  <2>1. \A k \in 0 .. n : k = 0 \/ k \in 1 .. n
    BY <1>1
  <2>2. \A k \in 0 .. n : f[k] = IF k = 0 THEN 0 ELSE f[k - 1] + (IF IsVariable(values[k].type) THEN Len(values[k].v) ELSE 0)
    BY <1>1, <1>2, <2>1
  <2> QED BY <1>2, <2>2
<1>4. StringBytes = [k \in 0 .. n |-> IF k = 0 THEN 0 ELSE StringBytes[k - 1] + (IF IsVariable(values[k].type) THEN Len(values[k].v) ELSE 0)]
  BY <1>3 DEF StringBytes
<1> HIDE DEF n
<1>5. StringBytes[0] = 0 /\ \A k \in 1 .. n : StringBytes[k] = StringBytes[k - 1] + (IF IsVariable(values[k].type) THEN Len(values[k].v) ELSE 0)
  <2>1. 0 \in 0 .. n /\ \A k \in 1 .. n : k \in 0 .. n /\ k # 0
    BY <1>1
  <2> HIDE DEF g
  <2> QED BY <1>4, <2>1
<1>6. ASSUME NEW k \in 1 .. n, StringBytes[k - 1] \in Nat PROVE StringBytes[k] \in Nat
  <2> HIDE DEF g
  <2>1. StringBytes[k] = StringBytes[k - 1] + g[k]
    BY <1>1, <1>5, Zenon
  <2> QED BY <1>1, <1>6, <2>1
<1>7. StringBytes[0] \in Nat
  BY <1>5
<1>8. \A k \in 0 .. n : StringBytes[k] \in Nat
  BY <1>1, <1>6, <1>7, LoopStays
<1> QED BY <1>5, <1>8 DEF n

-----------------------------------------------------------------------------
(* The null bitmap, bit by bit. *)

\* Powers of two.
LEMMA Powers ==
    /\ \A a, b \in Nat : Doubling[a + b] = Doubling[a] * Doubling[b]
    /\ \A n \in Nat : Doubling[n] \in Nat /\ Doubling[n] >= 1 /\ Doubling[n + 1] = 2 * Doubling[n]
    /\ Doubling[0] = 1
BY DoublingDoubles, PowersMultiply

\* A byte whose first r bits are those of q gets one more, e: the byte is that
\* of another number, has the new bit, and keeps the old ones.
OneBit(bits, r, q, e) ==
    LET p == Doubling[bits - 1 - r]
        x == q * Doubling[bits - r]
        y == x + e * p
    IN  /\ 2 * q + e \in 0 .. Doubling[r + 1] - 1
        /\ y = (2 * q + e) * p
        /\ (y \div p) % 2 = e
        /\ \A c \in 0 .. r - 1 :
              y \div Doubling[bits - 1 - c] = x \div Doubling[bits - 1 - c]

\* The next column's bit.
LEMMA OneBitMore ==
    ASSUME NEW bits \in Nat, NEW r \in 0 .. bits - 1, NEW q \in 0 .. Doubling[r] - 1,
           NEW e \in {0, 1}
    PROVE  OneBit(bits, r, q, e)
<1> DEFINE p == Doubling[bits - 1 - r]
           w == Doubling[bits - r]
           x == q * w
           y == x + e * p
<1>1. /\ bits - 1 - r \in Nat /\ bits - r \in Nat /\ r \in Nat /\ r + 1 \in Nat
      /\ (bits - 1 - r) + 1 = bits - r
  OBVIOUS
<1>2. p \in Nat /\ p >= 1 /\ w = 2 * p /\ w \in Nat
  <2>1. Doubling[(bits - 1 - r) + 1] = 2 * Doubling[bits - 1 - r]
    BY <1>1, Powers
  <2> QED BY <1>1, <2>1, Powers
<1>3. Doubling[r] \in Nat /\ Doubling[r + 1] = 2 * Doubling[r] /\ q \in Nat
  <2>1. \A n \in Nat : Doubling[n] \in Nat /\ Doubling[n + 1] = 2 * Doubling[n]
    BY DoublingDoubles
  <2>2. Doubling[r] \in Nat /\ Doubling[r + 1] = 2 * Doubling[r]
    BY <1>1, <2>1
  <2> QED BY <2>2
<1>4. 2 * q + e \in 0 .. Doubling[r + 1] - 1
  <2> DEFINE z == Doubling[r]
  <2>1. z \in Nat /\ q \in 0 .. z - 1 /\ Doubling[r + 1] = 2 * z
    BY <1>3
  <2> HIDE DEF z
  <2> QED BY <2>1
<1> HIDE DEF p, w
<1>5. y = (2 * q + e) * p /\ x \in Nat
  BY <1>2, <1>3
<1>6. (y \div p) % 2 = e
  <2>1. (2 * q + e) * p \in Int /\ 2 * q + e \in Int /\ (2 * q + e) * p = (2 * q + e) * p + 0
    BY <1>2, <1>3
  <2>2. ((2 * q + e) * p) \div p = 2 * q + e
    <3> DEFINE m == 2 * q + e
    <3>1. m \in Int /\ m * p \in Int /\ m * p = m * p + 0 /\ 0 < p
      BY <1>2, <2>1
    <3> HIDE DEF m
    <3>2. (m * p) \div p = m
      BY <1>2, <3>1, QuotientUnique
    <3> QED BY <3>2 DEF m
  <2>3. (2 * q + e) % 2 = e
    BY <1>3
  <2> QED BY <1>5, <2>2, <2>3
<1>7. ASSUME NEW c \in 0 .. r - 1
      PROVE  y \div Doubling[bits - 1 - c] = x \div Doubling[bits - 1 - c]
  <2> DEFINE d == Doubling[r - 1 - c]
  <2>1. r - 1 - c \in Nat /\ bits - 1 - c = (r - 1 - c) + (bits - r)
    BY <1>1
  <2>2. d \in Nat \ {0}
    <3>1. \A n \in Nat : Doubling[n] \in Nat /\ Doubling[n] >= 1
      BY Powers
    <3> HIDE DEF x, y
    <3> QED BY <2>1, <3>1
  <2>3. Doubling[bits - 1 - c] = d * w
    BY <1>1, <2>1, Powers DEF w
  <2> HIDE DEF d
  <2>4. e * p \in Nat /\ e * p < w
    BY <1>2
  <2>5. PICK f \in Nat : f = e * p /\ f < w
    BY <2>4
  <2>9. q \in Nat /\ w \in Nat /\ 0 \in Nat /\ 0 < w
    BY <1>2, <1>3
  <2> HIDE DEF x, y
  <2> DEFINE y1 == q * w + f
             x1 == q * w
             dw == d * w
  <2>6. /\ 0 <= 0 /\ y1 = q * w + f /\ x1 = q * w + 0 /\ dw = d * w /\ x1 = x /\ y1 = y
    BY <1>2, <2>5, <2>9 DEF x, y
  <2> HIDE DEF y1, x1, dw
  <2>7. y1 \div dw = q \div d
    BY <2>2, <2>5, <2>6, <2>9, QuotientOfSum
  <2>8. x1 \div dw = q \div d
    BY <2>2, <2>5, <2>6, <2>9, QuotientOfSum
  <2> QED BY <2>3, <2>6, <2>7, <2>8
<1> QED BY <1>4, <1>5, <1>6, <1>7 DEF p, w, OneBit

\* There is a byte for the bit of every column.
LEMMA BytesOfBitmap ==
    ASSUME NEW n \in Nat
    PROVE  /\ div_ceil(n) \in Nat
           /\ \A k \in 0 .. n - 1 : k \div BitsPerByte + 1 \in 1 .. div_ceil(n)
           /\ n >= 1 => div_ceil(n) >= 1
<1> DEFINE b == BitsPerByte
           d == (n + b - 1) \div b
<1>1. b \in Nat /\ b >= 1
  BY BitsAssumption
<1> HIDE DEF b
<1>2. d \in Nat /\ n + b - 1 = (d * b) + ((n + b - 1) % b) /\ ((n + b - 1) % b) \in 0 .. b - 1
  BY <1>1
<1>3. n <= d * b
  <2> DEFINE x == (n + b - 1) % b
  <2>1. n + b - 1 = d * b + x /\ x <= b - 1 /\ x \in Nat /\ d * b \in Nat
    BY <1>1, <1>2
  <2> HIDE DEF x, d
  <2> QED BY <1>1, <2>1
<1> HIDE DEF d
<1>4. ASSUME NEW k \in 0 .. n - 1 PROVE k \div b + 1 \in 1 .. d
  <2> DEFINE q == k \div b
  <2>1. q \in Nat /\ q * b <= k
    BY <1>1
  <2> HIDE DEF q
  <2>2. q * b < d * b
    BY <1>1, <1>2, <1>3, <2>1
  <2>3. q < d
    BY <1>1, <1>2, <2>1, <2>2
  <2> QED BY <1>2, <2>1, <2>3 DEF q
<1>5. n >= 1 => d >= 1
  BY <1>1, <1>2, <1>3
<1>6. div_ceil(n) = d
  BY DEF div_ceil, d, b
<1> QED BY <1>2, <1>4, <1>5, <1>6 DEF b

\* The mask of a column's bit.
LEMMA BitIsPower ==
    ASSUME NEW k \in Nat
    PROVE  /\ k % BitsPerByte \in 0 .. BitsPerByte - 1
           /\ Bit(k) = Doubling[BitsPerByte - 1 - (k % BitsPerByte)] /\ Bit(k) \in Nat
<1>1. Shifted = Doubling
  BY DEF Shifted, Doubling
<1>2. k % BitsPerByte \in 0 .. BitsPerByte - 1
  BY BitsAssumption
<1>3. BitsPerByte - 1 - (k % BitsPerByte) \in Nat
  BY <1>2, BitsAssumption
<1>4. \A m \in Nat : Doubling[m] \in Nat
  BY DoublingDoubles
<1>5. Bit(k) = Doubling[BitsPerByte - 1 - (k % BitsPerByte)]
  BY <1>1 DEF Bit
<1> QED BY <1>2, <1>3, <1>4, <1>5

\* The byte, counted from 1, that has the bit of column k, counted from 0.
ByteOf(k) == k \div BitsPerByte + 1

\* 1 for NULL.
NullBit(k) == IF values[k] = Null THEN 1 ELSE 0

\* The loop of gen_null_bitmap.
LEMMA NullBitsAddUp ==
    ASSUME Len(values) \in Nat
    PROVE  LET n == Len(values)
               d == div_ceil(n)
           IN  /\ \A k \in 0 .. n : NullBits[k] \in [1 .. d -> Nat]
               /\ \A j \in 1 .. d : NullBits[0][j] = 0
               /\ \A k \in 1 .. n : \A j \in 1 .. d :
                     NullBits[k][j] = NullBits[k - 1][j]
                         + IF j = ByteOf(k - 1) THEN NullBit(k) * Bit(k - 1) ELSE 0
<1> DEFINE n == Len(values)
           d == div_ceil(n)
           X == [1 .. d -> Nat]
           start == [j \in 1 .. d |-> 0]
           With(x, k) == IF values[k] = Null
                            THEN [x EXCEPT ![(k - 1) \div BitsPerByte + 1] = @ + Bit(k - 1)]
                            ELSE x
           F == [k \in 1 .. n |-> [x \in X |-> With(x, k)]]
<1>1. n \in Nat /\ d \in Nat
  BY BytesOfBitmap
<1> HIDE DEF n, d
<1>2. start \in X
  OBVIOUS
<1>3. ASSUME NEW k \in 1 .. n, NEW x \in X
      PROVE  /\ With(x, k) \in X
             /\ \A j \in 1 .. d : With(x, k)[j]
                    = x[j] + IF j = ByteOf(k - 1) THEN NullBit(k) * Bit(k - 1) ELSE 0
  <2>1. k - 1 \in 0 .. n - 1 /\ k - 1 \in Nat
    BY <1>1
  <2>2. ByteOf(k - 1) \in 1 .. d
    BY <1>1, <2>1, BytesOfBitmap DEF ByteOf, d
  <2>3. Bit(k - 1) \in Nat
    BY <2>1, BitIsPower
  <2> DEFINE p == ByteOf(k - 1)
             b == Bit(k - 1)
  <2>4. With(x, k) = IF values[k] = Null THEN [x EXCEPT ![p] = @ + b] ELSE x
    BY DEF ByteOf
  <2>5. NullBit(k) \in {0, 1} /\ (values[k] = Null <=> NullBit(k) = 1)
    BY DEF NullBit
  <2> HIDE DEF With, p, b
  <2>6. CASE values[k] = Null
    <3>1. With(x, k) = [x EXCEPT ![p] = @ + b] /\ NullBit(k) * b = b
      BY <2>3, <2>4, <2>5, <2>6 DEF b
    <3> QED BY <2>2, <2>3, <3>1 DEF p, b
  <2>7. CASE values[k] # Null
    <3>1. With(x, k) = x /\ NullBit(k) * b = 0
      BY <2>3, <2>4, <2>5, <2>7 DEF b
    <3> QED BY <3>1 DEF p, b
  <2> QED BY <2>6, <2>7
<1> HIDE DEF With
<1>4. \A k \in 1 .. n : F[k] \in [X -> X] /\ \A x \in X : F[k][x] = With(x, k)
  <2> HIDE DEF X
  <2> QED BY <1>3
<1> HIDE DEF F, X
<1>5. PICK f \in [0 .. n -> X] : f[0] = start /\ \A k \in 1 .. n : f[k] = F[k][f[k - 1]]
  <2> HIDE DEF start
  <2>1. \A k \in 1 .. n : F[k] \in [X -> X]
    BY <1>4
  <2>2. Turns(n, X, start, F) # {}
    BY <1>1, <1>2, <2>1, TurnsExist
  <2> QED BY <2>2 DEF Turns
<1>6. f = [k \in 0 .. n |-> IF k = 0 THEN start ELSE With(f[k - 1], k)]
  <2> HIDE DEF start
  <2>1. ASSUME NEW k \in 0 .. n PROVE f[k] = IF k = 0 THEN start ELSE With(f[k - 1], k)
    <3>1. CASE k # 0
      <4>1. k \in 1 .. n /\ k - 1 \in 0 .. n
        BY <1>1, <3>1
      <4>2. f[k - 1] \in X /\ f[k] = F[k][f[k - 1]]
        BY <1>5, <4>1
      <4> QED BY <1>4, <3>1, <4>1, <4>2
    <3> QED BY <1>5, <3>1
  <2> QED BY <1>5, <2>1
<1>7. NullBits = CHOOSE g : g = [k \in 0 .. n |-> IF k = 0 THEN start ELSE With(g[k - 1], k)]
  BY DEF NullBits, With, n, d
<1> HIDE DEF start
<1>8. NullBits = [k \in 0 .. n |-> IF k = 0 THEN start ELSE With(NullBits[k - 1], k)]
  BY <1>6, <1>7
<1>9. NullBits[0] = start /\ \A k \in 1 .. n : NullBits[k] = With(NullBits[k - 1], k)
  <2>1. 0 \in 0 .. n /\ \A k \in 1 .. n : k \in 0 .. n /\ k # 0
    BY <1>1
  <2> QED BY <1>8, <2>1
<1>10. \A k \in 0 .. n : NullBits[k] \in X
  <2>1. NullBits[0] \in X
    BY <1>2, <1>9
  <2>2. ASSUME NEW k \in 1 .. n, NullBits[k - 1] \in X PROVE NullBits[k] \in X
    BY <1>3, <1>9, <2>2
  <2> QED BY <1>1, <2>1, <2>2, LoopStays
<1>11. \A j \in 1 .. d : NullBits[0][j] = 0
  BY <1>9 DEF start
<1>12. ASSUME NEW k \in 1 .. n, NEW j \in 1 .. d
       PROVE  NullBits[k][j] = NullBits[k - 1][j]
                  + IF j = ByteOf(k - 1) THEN NullBit(k) * Bit(k - 1) ELSE 0
  <2>1. k - 1 \in 0 .. n
    BY <1>1
  <2>2. NullBits[k - 1] \in X /\ NullBits[k] = With(NullBits[k - 1], k)
    BY <1>9, <1>10, <2>1
  <2> QED BY <1>3, <2>2
<1> QED BY <1>10, <1>11, <1>12 DEF n, d, X

\* How many of the columns of the byte j of the bitmap are among the first k.
Filled(k, j) ==
    IF k <= (j - 1) * BitsPerByte THEN 0
    ELSE IF k >= j * BitsPerByte THEN BitsPerByte
    ELSE k - (j - 1) * BitsPerByte

\* A column fills one more bit of its own byte and none of the others.
LEMMA ColumnFillsBit ==
    ASSUME NEW k \in Nat, NEW j \in Nat \ {0}
    PROVE  /\ Filled(k, j) \in 0 .. BitsPerByte
           /\ j = ByteOf(k) => /\ k = (j - 1) * BitsPerByte + (k % BitsPerByte)
                               /\ Filled(k, j) = k % BitsPerByte
                               /\ Filled(k + 1, j) = (k % BitsPerByte) + 1
           /\ j # ByteOf(k) => Filled(k + 1, j) = Filled(k, j)
           /\ \A n \in Nat : j = ByteOf(k) /\ k < n => k % BitsPerByte < Filled(n, j)
<1> DEFINE b == BitsPerByte
           q == k \div b
           r == k % b
           lo == (j - 1) * b
           hi == j * b
<1>1. b \in Nat /\ b >= 1
  BY BitsAssumption
<1> HIDE DEF b
<1>2. q \in Nat /\ r \in 0 .. b - 1 /\ k = (q * b) + r
  BY <1>1
<1> HIDE DEF q, r
<1>3. lo \in Nat /\ hi = lo + b /\ hi \in Nat
  BY <1>1
<1>4. j = q + 1 => lo = q * b
  BY <1>1, <1>2
<1>5. q + 1 < j => (q * b) + b <= lo
  <2>1. q + 1 < j => (q + 1) * b <= (j - 1) * b
    BY <1>1, <1>2
  <2>2. (q + 1) * b = (q * b) + b
    BY <1>1, <1>2
  <2> QED BY <2>1, <2>2
<1>6. q + 1 > j => hi <= q * b
  BY <1>1, <1>2
<1>7. q * b \in Nat
  BY <1>1, <1>2
<1>8. \A m \in Nat : Filled(m, j) = IF m <= lo THEN 0 ELSE IF m >= hi THEN b ELSE m - lo
  BY DEF Filled, lo, hi, b
<1>9. ByteOf(k) = q + 1
  BY DEF ByteOf, q, b
<1> HIDE DEF lo, hi
<1> DEFINE z == q * b
<1> HIDE DEF z
<1>10. /\ z \in Nat /\ k = z + r /\ (j = q + 1 => lo = z)
       /\ (q + 1 < j => z + b <= lo) /\ (q + 1 > j => hi <= z)
  BY <1>2, <1>4, <1>5, <1>6, <1>7 DEF z
<1>11. Filled(k, j) \in 0 .. b
  BY <1>1, <1>3, <1>8
<1>12. ASSUME j = q + 1 PROVE k = lo + r /\ Filled(k, j) = r /\ Filled(k + 1, j) = r + 1
  BY <1>1, <1>2, <1>3, <1>8, <1>10, <1>12
<1>13. ASSUME j # q + 1 PROVE Filled(k + 1, j) = Filled(k, j)
  BY <1>1, <1>2, <1>3, <1>8, <1>10, <1>13
<1>14. ASSUME NEW n \in Nat, j = q + 1, k < n PROVE r < Filled(n, j)
  BY <1>1, <1>2, <1>3, <1>8, <1>10, <1>14
<1> QED BY <1>9, <1>11, <1>12, <1>13, <1>14 DEF b, r, lo

\* x is a byte of the bitmap, the byte j, with the bits of its first r columns.
HasBits(x, j, r) ==
    /\ \E q \in 0 .. Doubling[r] - 1 : x = q * Doubling[BitsPerByte - r]
    /\ \A c \in 0 .. r - 1 :
          (x \div Doubling[BitsPerByte - 1 - c]) % 2 = NullBit((j - 1) * BitsPerByte + c + 1)

\* A column more in the byte j.
LEMMA OneColumnMore ==
    ASSUME NEW x \in Nat, NEW j \in Nat \ {0}, NEW r \in 0 .. BitsPerByte - 1, HasBits(x, j, r)
    PROVE  HasBits(x + NullBit((j - 1) * BitsPerByte + r + 1) * Doubling[BitsPerByte - 1 - r],
                   j, r + 1)
<1> DEFINE b == BitsPerByte
           e == NullBit((j - 1) * BitsPerByte + r + 1)
           p == Doubling[b - 1 - r]
           y == x + e * p
<1>1. b \in Nat /\ b >= 1 /\ r \in 0 .. b - 1
  BY BitsAssumption
<1>2. e \in {0, 1}
  BY DEF NullBit
<1>3. PICK q \in 0 .. Doubling[r] - 1 : x = q * Doubling[b - r]
  BY DEF HasBits
<1>4. \A c \in 0 .. r - 1 : (x \div Doubling[b - 1 - c]) % 2 = NullBit((j - 1) * b + c + 1)
  BY DEF HasBits
<1> HIDE DEF b, e
<1>5. /\ 2 * q + e \in 0 .. Doubling[r + 1] - 1
      /\ y = (2 * q + e) * p
      /\ (y \div p) % 2 = e
      /\ \A c \in 0 .. r - 1 : y \div Doubling[b - 1 - c] = x \div Doubling[b - 1 - c]
  <2> DEFINE x1 == q * Doubling[b - r]
             y1 == x1 + e * p
  <2>1. q \in 0 .. Doubling[r] - 1 /\ e \in {0, 1} /\ b \in Nat /\ r \in 0 .. b - 1
    BY <1>1, <1>2, <1>3
  <2>2. /\ 2 * q + e \in 0 .. Doubling[r + 1] - 1
        /\ y1 = (2 * q + e) * p
        /\ (y1 \div p) % 2 = e
        /\ \A c \in 0 .. r - 1 : y1 \div Doubling[b - 1 - c] = x1 \div Doubling[b - 1 - c]
    <3>1. OneBit(b, r, q, e)
      BY <2>1, OneBitMore
    <3> QED BY <3>1, Zenon DEF OneBit
  <2>3. x1 = x /\ y1 = y
    BY <1>3
  <2> HIDE DEF x1, y1, y, p
  <2> QED BY <2>2, <2>3
<1> HIDE DEF y, p
<1>6. b - (r + 1) = b - 1 - r
  BY <1>1
<1>7. \E q1 \in 0 .. Doubling[r + 1] - 1 : y = q1 * Doubling[b - (r + 1)]
  BY <1>5, <1>6 DEF p
<1>8. ASSUME NEW c \in 0 .. (r + 1) - 1
      PROVE  (y \div Doubling[b - 1 - c]) % 2 = NullBit((j - 1) * b + c + 1)
  <2>1. CASE c = r
    <3>1. NullBit((j - 1) * b + c + 1) = e /\ Doubling[b - 1 - c] = p
      BY <2>1 DEF e, p, b
    <3> QED BY <1>5, <3>1
  <2>2. CASE c # r
    <3>1. c \in 0 .. r - 1
      BY <1>1, <2>2
    <3> QED BY <1>4, <1>5, <3>1
  <2> QED BY <2>1, <2>2
<1>9. HasBits(y, j, r + 1)
  BY <1>7, <1>8 DEF HasBits, b
<1> QED BY <1>9 DEF y, p, e, b

\* The bits of the bitmap tell which values are NULL, and its bytes are bytes.
LEMMA BitmapTellsNull ==
    ASSUME Len(values) \in Nat
    PROVE  /\ gen_null_bitmap \in Seq(UInt(1))
           /\ Len(gen_null_bitmap) = div_ceil(Len(values))
           /\ \A c \in 0 .. Len(values) - 1 :
                 ((gen_null_bitmap[ByteOf(c)] \div Bit(c)) % 2 = 1) <=> values[c + 1] = Null
<1> DEFINE n == Len(values)
           d == div_ceil(n)
           b == BitsPerByte
<1>1. n \in Nat /\ d \in Nat /\ b \in Nat /\ b >= 1
  BY BytesOfBitmap, BitsAssumption
<1>2. /\ \A k \in 0 .. n : NullBits[k] \in [1 .. d -> Nat]
      /\ \A j \in 1 .. d : NullBits[0][j] = 0
      /\ \A k \in 1 .. n : \A j \in 1 .. d :
            NullBits[k][j] = NullBits[k - 1][j]
                + IF j = ByteOf(k - 1) THEN NullBit(k) * Bit(k - 1) ELSE 0
  BY NullBitsAddUp
<1>3. \A c \in 0 .. n - 1 : ByteOf(c) \in 1 .. d
  BY <1>1, BytesOfBitmap DEF ByteOf
<1> HIDE DEF n, d, b
<1>4. ASSUME NEW j \in 1 .. d
      PROVE  \A k \in 0 .. n : HasBits(NullBits[k][j], j, Filled(k, j))
  <2> DEFINE f == [k \in 0 .. n |-> HasBits(NullBits[k][j], j, Filled(k, j))]
  <2>0. j \in Nat \ {0} /\ j - 1 \in Nat
    BY <1>1
  <2>1. HasBits(0, j, 0)
    <3>1. Doubling[0] = 1 /\ Doubling[b - 0] \in Nat
      <4>1. b - 0 = b /\ b \in Nat
        BY <1>1
      <4> QED BY <4>1, Powers
    <3>2. 0 \in 0 .. Doubling[0] - 1 /\ 0 = 0 * Doubling[b - 0]
      BY <3>1
    <3> QED BY <3>2 DEF HasBits, b
  <2>2. f[0]
    <3>1. Filled(0, j) = 0
      <4>1. (j - 1) * b \in Nat
        BY <1>1, <2>0
      <4> QED BY <4>1 DEF Filled, b
    <3>2. NullBits[0][j] = 0 /\ 0 \in 0 .. n
      BY <1>1, <1>2
    <3> QED BY <2>1, <3>1, <3>2
  <2>3. ASSUME NEW k \in 1 .. n, f[k - 1] PROVE f[k]
    <3>1. k - 1 \in 0 .. n /\ k - 1 \in Nat /\ (k - 1) + 1 = k /\ k \in 0 .. n
      BY <1>1
    <3>2. HasBits(NullBits[k - 1][j], j, Filled(k - 1, j)) /\ NullBits[k - 1][j] \in Nat
      BY <1>2, <2>3, <3>1
    <3>3. CASE j = ByteOf(k - 1)
      <4> DEFINE r == (k - 1) % BitsPerByte
                 x == NullBits[k - 1][j]
      <4>1. /\ k - 1 = ((j - 1) * BitsPerByte) + r
            /\ Filled(k - 1, j) = r /\ Filled(k, j) = r + 1
        <5>1. Filled((k - 1) + 1, j) = r + 1 /\ k - 1 = ((j - 1) * BitsPerByte) + r
              /\ Filled(k - 1, j) = r
          BY <2>0, <3>1, <3>3, ColumnFillsBit
        <5> QED BY <3>1, <5>1
      <4>2. r \in 0 .. BitsPerByte - 1 /\ Bit(k - 1) = Doubling[BitsPerByte - 1 - r]
        BY <3>1, BitIsPower
      <4>3. (j - 1) * BitsPerByte + r + 1 = k
        BY <3>1, <4>1, <4>2, <2>0, <1>1 DEF b
      <4>4. x \in Nat /\ HasBits(x, j, r)
        BY <3>2, <4>1
      <4> HIDE DEF r, x
      <4>5. HasBits(x + NullBit((j - 1) * BitsPerByte + r + 1) * Doubling[BitsPerByte - 1 - r],
                    j, r + 1)
        BY <2>0, <4>2, <4>4, OneColumnMore
      <4>6. NullBits[k][j] = x + NullBit(k) * Bit(k - 1)
        BY <1>2, <3>3 DEF x
      <4>7. HasBits(NullBits[k][j], j, Filled(k, j))
        BY <4>1, <4>2, <4>3, <4>5, <4>6
      <4> QED BY <3>1, <4>7
    <3>4. CASE j # ByteOf(k - 1)
      <4>1. Filled((k - 1) + 1, j) = Filled(k - 1, j)
        BY <2>0, <3>1, <3>4, ColumnFillsBit
      <4>2. NullBits[k][j] = NullBits[k - 1][j] + 0
        BY <1>2, <3>4
      <4>3. HasBits(NullBits[k][j], j, Filled(k, j))
        BY <3>1, <3>2, <4>1, <4>2
      <4> QED BY <3>1, <4>3
    <3> QED BY <3>3, <3>4
  <2> HIDE DEF f
  <2>4. f[0] \in {TRUE} /\ \A k \in 1 .. n : f[k - 1] \in {TRUE} => f[k] \in {TRUE}
    BY <2>2, <2>3 DEF f
  <2>5. \A k \in 0 .. n : f[k] \in {TRUE}
    BY <1>1, <2>4, LoopStays
  <2> QED BY <2>5 DEF f
<1>5. gen_null_bitmap = NullBits[n] /\ n \in 0 .. n
  BY <1>1 DEF gen_null_bitmap, n
<1>6. ASSUME NEW j \in 1 .. d PROVE gen_null_bitmap[j] \in UInt(1)
  <2> DEFINE r == Filled(n, j)
             x == gen_null_bitmap[j]
  <2>1. r \in 0 .. b /\ j \in Nat \ {0}
    BY <1>1, ColumnFillsBit DEF b
  <2>2. HasBits(x, j, r)
    BY <1>4, <1>5
  <2> HIDE DEF r, x
  <2>3. PICK q \in 0 .. Doubling[r] - 1 : x = q * Doubling[b - r]
    BY <2>2 DEF HasBits, b
  <2>4. r \in Nat /\ b - r \in Nat /\ r + (b - r) = b
    BY <1>1, <2>1
  <2> DEFINE u == Doubling[r]
             v == Doubling[b - r]
             w == Doubling[b]
  <2>5. u \in Nat /\ v \in Nat /\ v >= 1 /\ w = u * v
    <3>1. Doubling[r + (b - r)] = Doubling[r] * Doubling[b - r]
      BY <2>4, Powers
    <3> QED BY <2>4, <3>1, Powers
  <2>6. q \in Nat /\ q <= u - 1 /\ x = q * v
    BY <2>3, <2>5
  <2> HIDE DEF u, v, w
  <2>7. x \in Nat /\ q * v < u * v
    BY <2>5, <2>6
  <2>8. x \in 0 .. w - 1
    BY <2>5, <2>6, <2>7
  <2>9. UInt(1) = 0 .. w - 1
    <3>1. Shifted = Doubling /\ 1 * BitsPerByte = b
      BY <1>1 DEF Shifted, Doubling, b
    <3> QED BY <3>1 DEF UInt, Radix, w
  <2> QED BY <2>8, <2>9 DEF x
<1>7. gen_null_bitmap \in Seq(UInt(1)) /\ Len(gen_null_bitmap) = d
  <2>1. gen_null_bitmap \in [1 .. d -> UInt(1)]
    <3>1. gen_null_bitmap \in [1 .. d -> Nat]
      BY <1>2, <1>5
    <3> QED BY <1>6, <3>1, Zenon
  <2>2. gen_null_bitmap \in Seq(UInt(1))
    BY <1>1, <2>1, SeqDef
  <2> QED BY <1>1, <2>1, <2>2, LenProperties
<1>8. ASSUME NEW c \in 0 .. n - 1
      PROVE  (gen_null_bitmap[ByteOf(c)] \div Bit(c)) % 2 = NullBit(c + 1)
  <2> DEFINE j == ByteOf(c)
             r == c % BitsPerByte
  <2>1. j \in 1 .. d /\ c \in Nat /\ c < n /\ j \in Nat \ {0}
    BY <1>1, <1>3
  <2>2. /\ c = ((j - 1) * BitsPerByte) + r
        /\ r < Filled(n, j) /\ Filled(n, j) \in 0 .. BitsPerByte
    BY <1>1, <2>1, ColumnFillsBit
  <2>3. r \in 0 .. BitsPerByte - 1 /\ Bit(c) = Doubling[BitsPerByte - 1 - r]
    BY <2>1, BitIsPower
  <2>4. HasBits(gen_null_bitmap[j], j, Filled(n, j))
    BY <1>4, <1>5, <2>1
  <2>5. (j - 1) * BitsPerByte + r + 1 = c + 1
    BY <1>1, <2>1, <2>2, <2>3 DEF b
  <2> HIDE DEF j, r
  <2>6. r \in 0 .. Filled(n, j) - 1
    BY <1>1, <2>2, <2>3 DEF b
  <2>7. (gen_null_bitmap[j] \div Doubling[BitsPerByte - 1 - r]) % 2
            = NullBit((j - 1) * BitsPerByte + r + 1)
    BY <2>4, <2>6 DEF HasBits
  <2> QED BY <2>3, <2>5, <2>7 DEF j
<1>9. \A c \in 0 .. n - 1 :
         ((gen_null_bitmap[ByteOf(c)] \div Bit(c)) % 2 = 1) <=> values[c + 1] = Null
  BY <1>8 DEF NullBit
<1> QED BY <1>7, <1>9 DEF n, d

-----------------------------------------------------------------------------
(* The tuple: the inductive invariant of TupleCodec. *)

\* What deserialize may push.
ReadOf(type) == [type : {type}, v : IF IsVariable(type) THEN Seq(UInt(1)) ELSE UInt(4)]
Readables == {Null} \cup (UNION {ReadOf(type) : type \in DataTypes})

\* The tuple fits the columns, as is_valid_tuple and the library's callers see to.
Fits ==
    /\ Len(values) = Len(schema)
    /\ \A k \in 1 .. Len(schema) : FitsColumn(k) \/ (caller = "Library" /\ values[k] = Null)

\* What serialize writes into the header for a column.
ColumnPart(k) ==
    IF values[k] = Null THEN to_be_bytes(0, size(schema[k]))
    ELSE IF IsVariable(values[k].type)
            THEN to_be_bytes(header_size + StringBytes[k - 1], 2) \o to_be_bytes(Len(values[k].v), 2)
            ELSE to_be_bytes(values[k].v, size(values[k].type))

\* The bytes h and s, and the offset o, are those behind the first m columns.
RecordOf(h, s, o, m) ==
    /\ o = header_size + StringBytes[m]
    /\ Len(h) = attr_pos(m) /\ Len(s) = StringBytes[m]
    /\ Holds(h, 0, gen_null_bitmap)
    /\ \A k \in 1 .. m : Holds(h, attr_pos(k - 1), ColumnPart(k))
    /\ \A k \in 1 .. m : IsVariable(values[k].type) => Holds(s, StringBytes[k - 1], values[k].v)

RecordUpTo(m) == RecordOf(header, variable, offset, m)

\* The whole record: the header and the strings behind it.
WholeRecord == RecordUpTo(Len(schema)) /\ bytes = header \o variable

TupleTypes ==
    /\ caller \in {"Insert", "Library"}
    /\ schema \in Seq(DataTypes) /\ Len(schema) \in 1 .. MaxColumns
    /\ values \in Seq(Value)
    /\ phase \in {"Check", "Rejected", "NullPanics", "Serialize", "TooLarge",
                  "Deserialize", "Done"}
    /\ i \in 1 .. MaxColumns + 1
    /\ header \in Seq(UInt(1)) /\ variable \in Seq(UInt(1)) /\ bytes \in Seq(UInt(1))
    /\ offset \in Nat /\ pos \in Nat
    /\ decoded \in Seq(Readables)

TupleFits ==
    caller = "Library" \/ phase \in {"Serialize", "TooLarge", "Deserialize", "Done"} => Fits

\* serialize has written the columns in front of i.
WrittenSoFar ==
    /\ phase = "Check" => i = 1 /\ header = <<>> /\ variable = <<>>
    /\ phase = "Serialize" => i - 1 <= Len(schema) /\ RecordUpTo(i - 1)
    /\ phase \in {"Deserialize", "Done"} =>
          WholeRecord /\ (caller = "Insert" => Len(bytes) <= MaxRecord)

\* deserialize has read the columns in front of i.
ReadSoFar ==
    /\ phase \notin {"Deserialize", "Done"} => decoded = <<>>
    /\ phase \in {"Deserialize", "Done"} =>
          /\ i - 1 <= Len(schema) /\ Len(decoded) = i - 1 /\ pos = attr_pos(i - 1)
          /\ \A k \in 1 .. i - 1 : decoded[k] = Null \/ decoded[k] \in ReadOf(schema[k])
          /\ OffsetsAreRight => \A k \in 1 .. i - 1 : decoded[k] = values[k]
          /\ phase = "Done" => i - 1 = Len(schema)

TupleInv == TupleTypes /\ TupleFits /\ WrittenSoFar /\ ReadSoFar

\* The columns of the table are those of the tuple; a session reads from the start.
SessionInv ==
    /\ schema = TypesOf(attributes)
    /\ phase = "Deserialize" /\ stage # "Open" => i = 1

-----------------------------------------------------------------------------
(* Values, positions and the bytes of a column. *)

\* What a value holds, by its type.
LEMMA ValueTypes ==
    ASSUME NEW v \in Value, v # Null
    PROVE  /\ v.type \in DataTypes /\ v = [type |-> v.type, v |-> v.v]
           /\ IsVariable(v.type) => v.v \in Seq(UInt(1)) /\ Len(v.v) \in Nat
           /\ ~ IsVariable(v.type) => v.v \in UInt(size(v.type))
           /\ v \in ReadOf(v.type)
<1>1. PICK t \in DataTypes : v \in ValuesOf(t)
  <2>1. v \in UNION {ValuesOf(type) : type \in DataTypes}
    BY DEF Value
  <2> QED BY <2>1, Zenon
<1>2. UInt(1) \subseteq UInt(4) /\ 0 \in UInt(1) /\ 1 \in UInt(1)
  BY RecordUInts
<1>3. v \in [type : {t}, v : IF IsVariable(t) THEN Strings ELSE IF t = "Boolean" THEN {0, 1} ELSE Numbers]
  BY <1>1 DEF ValuesOf
<1>4. /\ v.type = t /\ v = [type |-> v.type, v |-> v.v]
      /\ v.v \in IF IsVariable(t) THEN Strings ELSE IF t = "Boolean" THEN {0, 1} ELSE Numbers
  BY <1>3
<1>5. IsVariable(t) => v.v \in Seq(UInt(1)) /\ Len(v.v) \in Nat
  BY <1>4, StringsAssumption, LenProperties
<1>6. ~ IsVariable(t) => v.v \in UInt(size(t)) /\ v.v \in UInt(4)
  BY <1>2, <1>4, NumbersAssumption DEF size
<1> QED BY <1>1, <1>4, <1>5, <1>6 DEF ReadOf

\* NULL is of no column's type.
LEMMA NullIsNoType ==
    /\ Null.type \notin DataTypes /\ ~ IsVariable(Null.type)
    /\ \A t \in DataTypes : size(t) \in {1, 4} /\ (IsVariable(t) => size(t) = 4)
BY TypesAssumption DEF Null, IsVariable, size

\* A value and its column.
LEMMA ValueFits ==
    ASSUME TupleTypes, Fits, NEW k \in 1 .. Len(schema)
    PROVE  /\ schema[k] \in DataTypes /\ values[k] \in Value
           /\ values[k] # Null => values[k].type = schema[k]
           /\ IsVariable(values[k].type) => values[k] # Null
           /\ caller = "Insert" => values[k] # Null
<1>1. schema[k] \in DataTypes /\ values[k] \in Value
  BY ElementOfSeq DEF TupleTypes, Fits
<1>2. values[k].type = schema[k] \/ (caller = "Library" /\ values[k] = Null)
  BY DEF Fits, FitsColumn
<1>3. IsVariable(values[k].type) => values[k] # Null
  BY NullIsNoType
<1>4. caller = "Insert" => values[k] # Null
  BY <1>1, <1>2, NullIsNoType
<1> QED BY <1>1, <1>2, <1>3, <1>4

\* Positions and lengths in the record.
LEMMA Positions ==
    ASSUME TupleTypes, Fits
    PROVE  LET n == Len(schema)
           IN  /\ n \in Nat /\ n >= 1 /\ n <= MaxColumns /\ Len(values) = n
               /\ div_ceil(n) \in Nat
               /\ attr_pos(0) = div_ceil(n)
               /\ \A k \in 1 .. n : attr_pos(k) = attr_pos(k - 1) + size(schema[k])
               /\ \A k \in 0 .. n : attr_pos(k) \in Nat
               /\ StringBytes[0] = 0
               /\ \A k \in 1 .. n : StringBytes[k] = StringBytes[k - 1]
                      + (IF IsVariable(values[k].type) THEN Len(values[k].v) ELSE 0)
               /\ \A k \in 0 .. n : StringBytes[k] \in Nat
               /\ header_size \in Nat /\ header_size <= attr_pos(n)
               /\ (\A k \in 1 .. n : values[k] # Null) => header_size = attr_pos(n)
<1> DEFINE n == Len(schema)
<1>1. n \in Nat /\ n >= 1 /\ n <= MaxColumns /\ Len(values) = n
  BY BoundsAssumption DEF TupleTypes, Fits
<1>2. div_ceil(n) \in Nat
  BY <1>1, BytesOfBitmap
<1>3. /\ ColumnBytes[0] = 0
      /\ \A k \in 1 .. n : ColumnBytes[k] = ColumnBytes[k - 1] + size(schema[k])
      /\ \A k \in 0 .. n : ColumnBytes[k] \in Nat
  BY <1>1, ColumnBytesAddUp
<1>4. /\ ValueBytes[0] = 0
      /\ \A k \in 1 .. n : ValueBytes[k] = ValueBytes[k - 1]
             + (IF values[k] = Null THEN 0 ELSE size(values[k].type))
      /\ \A k \in 0 .. n : ValueBytes[k] \in Nat
  BY <1>1, ValueBytesAddUp
<1>5. \A k \in 1 .. n : IsVariable(values[k].type) => Len(values[k].v) \in Nat
  BY ValueFits, ValueTypes
<1>6. /\ StringBytes[0] = 0
      /\ \A k \in 1 .. n : StringBytes[k] = StringBytes[k - 1]
             + (IF IsVariable(values[k].type) THEN Len(values[k].v) ELSE 0)
      /\ \A k \in 0 .. n : StringBytes[k] \in Nat
  <2>1. \A k \in 1 .. Len(values) : IsVariable(values[k].type) => Len(values[k].v) \in Nat
    BY <1>1, <1>5
  <2>2. Len(values) \in Nat
    BY <1>1
  <2> HIDE DEF n
  <2> QED BY <1>1, <2>1, <2>2, StringBytesAddUp, Zenon
<1>7. \A k \in 1 .. n : size(schema[k]) \in Nat /\ (values[k] # Null => values[k].type = schema[k])
  BY ValueFits, NullIsNoType
<1> HIDE DEF n
<1> DEFINE p == div_ceil(n)
<1>8. \A k : attr_pos(k) = p + ColumnBytes[k]
  BY DEF attr_pos, n
<1>9. /\ attr_pos(0) = p
      /\ \A k \in 1 .. n : attr_pos(k) = attr_pos(k - 1) + size(schema[k])
      /\ \A k \in 0 .. n : attr_pos(k) \in Nat
  <2> HIDE DEF p
  <2>1. \A k \in 1 .. n : k - 1 \in 0 .. n /\ k \in 0 .. n
    BY <1>1
  <2>2. p \in Nat
    BY <1>2 DEF p
  <2> QED BY <1>3, <1>7, <1>8, <2>1, <2>2
<1>10. \A k \in 0 .. n : ValueBytes[k] <= ColumnBytes[k]
  <2> DEFINE f == [k \in 0 .. n |-> ColumnBytes[k] - ValueBytes[k]]
  <2>1. f[0] \in Nat
    <3>1. 0 \in 0 .. n /\ ValueBytes[0] = 0 /\ ColumnBytes[0] = 0
      BY <1>1, <1>3, <1>4
    <3> QED BY <3>1
  <2>2. ASSUME NEW k \in 1 .. n, f[k - 1] \in Nat PROVE f[k] \in Nat
    <3>1. k - 1 \in 0 .. n /\ k \in 0 .. n
      BY <1>1
    <3>2. ColumnBytes[k - 1] - ValueBytes[k - 1] \in Nat
      BY <2>2, <3>1
    <3>3. (IF values[k] = Null THEN 0 ELSE size(values[k].type)) <= size(schema[k])
      BY <1>7
    <3>4. ColumnBytes[k] - ValueBytes[k] \in Nat
      BY <1>3, <1>4, <1>7, <3>1, <3>2, <3>3
    <3> QED BY <3>1, <3>4
  <2> HIDE DEF f
  <2>3. \A k \in 0 .. n : f[k] \in Nat
    BY <1>1, <2>1, <2>2, LoopStays
  <2>4. \A k \in 0 .. n : ColumnBytes[k] - ValueBytes[k] \in Nat
    BY <2>3 DEF f
  <2> QED BY <1>3, <1>4, <2>4
<1>11. ASSUME \A k \in 1 .. n : values[k] # Null
       PROVE  \A k \in 0 .. n : ValueBytes[k] = ColumnBytes[k]
  <2> DEFINE f == [k \in 0 .. n |-> ColumnBytes[k] - ValueBytes[k]]
  <2>1. f[0] \in {0}
    <3>1. 0 \in 0 .. n /\ ValueBytes[0] = 0 /\ ColumnBytes[0] = 0
      BY <1>1, <1>3, <1>4
    <3> QED BY <3>1
  <2>2. ASSUME NEW k \in 1 .. n, f[k - 1] \in {0} PROVE f[k] \in {0}
    <3>1. k - 1 \in 0 .. n /\ k \in 0 .. n
      BY <1>1
    <3>2. ColumnBytes[k - 1] - ValueBytes[k - 1] = 0
      BY <2>2, <3>1
    <3>3. (IF values[k] = Null THEN 0 ELSE size(values[k].type)) = size(schema[k])
      BY <1>7, <1>11
    <3>4. ColumnBytes[k] - ValueBytes[k] = 0
      BY <1>3, <1>4, <1>7, <3>1, <3>2, <3>3
    <3> QED BY <3>1, <3>4
  <2> HIDE DEF f
  <2>3. \A k \in 0 .. n : f[k] \in {0}
    BY <1>1, <2>1, <2>2, LoopStays
  <2>4. \A k \in 0 .. n : ColumnBytes[k] - ValueBytes[k] = 0
    BY <2>3 DEF f
  <2> QED BY <1>3, <1>4, <2>4
<1>12. header_size = p + ValueBytes[n] /\ n \in 0 .. n
  BY <1>1 DEF header_size
<1>13. header_size \in Nat /\ header_size <= attr_pos(n)
  <2> HIDE DEF p
  <2>1. p \in Nat
    BY <1>2 DEF p
  <2> QED BY <1>3, <1>4, <1>8, <1>10, <1>12, <2>1
<1>14. (\A k \in 1 .. n : values[k] # Null) => header_size = attr_pos(n)
  <2>1. (\A k \in 1 .. n : values[k] # Null) => ValueBytes[n] = ColumnBytes[n]
    BY <1>11, <1>12
  <2> QED BY <1>8, <1>12, <2>1
<1> QED BY <1>1, <1>2, <1>6, <1>9, <1>13, <1>14 DEF n

\* The bytes of a column are as many as get_attr counts.
LEMMA PartOfColumn ==
    ASSUME TupleTypes, Fits, NEW k \in 1 .. Len(schema)
    PROVE  ColumnPart(k) \in Seq(UInt(1)) /\ Len(ColumnPart(k)) = size(schema[k])
<1>1. /\ schema[k] \in DataTypes /\ values[k] \in Value
      /\ values[k] # Null => values[k].type = schema[k]
  BY ValueFits
<1>2. size(schema[k]) \in {1, 2, 4} /\ (IsVariable(schema[k]) => size(schema[k]) = 4)
  BY <1>1, NullIsNoType
<1>3. CASE values[k] = Null
  <2>1. ColumnPart(k) = to_be_bytes(0, size(schema[k]))
    BY <1>3 DEF ColumnPart
  <2> QED BY <1>2, <2>1, RecordNumbers, ZenonT(40)
<1>4. CASE values[k] # Null /\ IsVariable(values[k].type)
  <2> DEFINE a == header_size + StringBytes[k - 1]
             b == Len(values[k].v)
             x == to_be_bytes(a, 2)
             y == to_be_bytes(b, 2)
  <2>1. ColumnPart(k) = x \o y
    BY <1>4 DEF ColumnPart
  <2>2. a \in Nat /\ b \in Nat
    <3>1. b \in Nat
      BY <1>1, <1>4, ValueTypes
    <3>2. header_size \in Nat /\ StringBytes[k - 1] \in Nat
      <4>1. k - 1 \in 0 .. Len(schema)
        OBVIOUS
      <4> QED BY <4>1, Positions
    <3> QED BY <3>1, <3>2
  <2> HIDE DEF a, b
  <2>3. x \in Seq(UInt(1)) /\ Len(x) = 2 /\ y \in Seq(UInt(1)) /\ Len(y) = 2
    BY <2>2, RecordNumbers
  <2> HIDE DEF x, y
  <2>4. x \o y \in Seq(UInt(1)) /\ Len(x \o y) = 4
    <3>1. x \o y \in Seq(UInt(1)) /\ Len(x \o y) = Len(x) + Len(y)
      BY <2>3, ConcatProperties
    <3> QED BY <2>3, <3>1
  <2> QED BY <1>1, <1>2, <1>4, <2>1, <2>4
<1>5. CASE values[k] # Null /\ ~ IsVariable(values[k].type)
  <2>1. ColumnPart(k) = to_be_bytes(values[k].v, size(schema[k]))
    BY <1>1, <1>5 DEF ColumnPart
  <2>2. values[k].v \in Nat
    <3>1. values[k].v \in UInt(size(schema[k]))
      BY <1>1, <1>5, ValueTypes
    <3> QED BY <3>1 DEF UInt
  <2> QED BY <1>2, <2>1, <2>2, RecordNumbers
<1> QED BY <1>3, <1>4, <1>5

-----------------------------------------------------------------------------
(* serialize. *)

\* What is to be found in a record depends on the tuple and its columns only.
LEMMA SameTuple ==
    ASSUME UNCHANGED <<values, schema>>, NEW h, NEW s, NEW o, NEW m
    PROVE  RecordOf(h, s, o, m)' = RecordOf(h, s, o, m)
<1>1. header_size' = header_size /\ StringBytes' = StringBytes
  BY DEF header_size, div_ceil, ValueBytes, StringBytes
<1>2. gen_null_bitmap' = gen_null_bitmap
  BY DEF gen_null_bitmap, NullBits, div_ceil, Bit
<1>3. \A k : attr_pos(k)' = attr_pos(k)
  BY DEF attr_pos, div_ceil, ColumnBytes
<1>4. \A k : ColumnPart(k)' = ColumnPart(k)
  BY <1>1 DEF ColumnPart
<1> QED BY <1>1, <1>2, <1>3, <1>4 DEF RecordOf

\* A record begins with the bitmap.
LEMMA RecordBegins ==
    ASSUME TupleTypes, Fits
    PROVE  /\ RecordOf(gen_null_bitmap, <<>>, header_size, 0)
           /\ gen_null_bitmap \in Seq(UInt(1)) /\ header_size \in Nat
<1> DEFINE g == gen_null_bitmap
           n == Len(schema)
<1>1. /\ n \in Nat /\ Len(values) = n /\ attr_pos(0) = div_ceil(n)
      /\ StringBytes[0] = 0 /\ header_size \in Nat
  BY Positions
<1>2. g \in Seq(UInt(1)) /\ Len(g) = div_ceil(n)
  BY <1>1, BitmapTellsNull
<1> HIDE DEF g
<1>3. Holds(g, 0, g)
  <2>1. Len(g) \in Nat
    BY <1>2, LenProperties
  <2> QED BY <2>1 DEF Holds
<1>4. /\ header_size = header_size + StringBytes[0]
      /\ Len(g) = attr_pos(0) /\ Len(<<>>) = StringBytes[0]
  <2>1. Len(<<>>) = 0
    OBVIOUS
  <2> QED BY <1>1, <1>2, <2>1
<1>5. RecordOf(g, <<>>, header_size, 0)
  <2>1. 1 .. 0 = {}
    OBVIOUS
  <2> QED BY <1>3, <1>4, <2>1 DEF RecordOf, g
<1> QED BY <1>1, <1>2, <1>5 DEF g

\* What serialize adds for a column.
LEMMA ColumnWritten ==
    ASSUME TupleTypes, Fits, NEW k \in 1 .. Len(schema), RecordUpTo(k - 1),
           NEW t \in Seq(UInt(1)), IsVariable(values[k].type) => t = values[k].v,
           ~ IsVariable(values[k].type) => t = <<>>
    PROVE  /\ RecordOf(header \o ColumnPart(k), variable \o t, offset + Len(t), k)
           /\ header \o ColumnPart(k) \in Seq(UInt(1)) /\ variable \o t \in Seq(UInt(1))
           /\ offset + Len(t) \in Nat
<1> DEFINE n == Len(schema)
           B == UInt(1)
           c == ColumnPart(k)
           h == header \o c
           s == variable \o t
           o == offset + Len(t)
<1>1. /\ n \in Nat /\ Len(values) = n /\ header_size \in Nat
      /\ \A j \in 1 .. n : attr_pos(j) = attr_pos(j - 1) + size(schema[j])
      /\ \A j \in 0 .. n : attr_pos(j) \in Nat
      /\ \A j \in 1 .. n : StringBytes[j] = StringBytes[j - 1]
             + (IF IsVariable(values[j].type) THEN Len(values[j].v) ELSE 0)
      /\ \A j \in 0 .. n : StringBytes[j] \in Nat
  BY Positions
<1>2. c \in Seq(B) /\ Len(c) = size(schema[k])
  BY PartOfColumn
<1>3. header \in Seq(B) /\ variable \in Seq(B) /\ offset \in Nat /\ t \in Seq(B) /\ Len(t) \in Nat
  BY LenProperties DEF TupleTypes
<1>4. /\ offset = header_size + StringBytes[k - 1]
      /\ Len(header) = attr_pos(k - 1) /\ Len(variable) = StringBytes[k - 1]
      /\ Holds(header, 0, gen_null_bitmap)
      /\ \A j \in 1 .. k - 1 : Holds(header, attr_pos(j - 1), ColumnPart(j))
      /\ \A j \in 1 .. k - 1 : IsVariable(values[j].type) => Holds(variable, StringBytes[j - 1], values[j].v)
  BY DEF RecordUpTo, RecordOf
<1>5. k - 1 \in 0 .. n /\ k \in 1 .. n /\ attr_pos(k - 1) \in Nat /\ StringBytes[k - 1] \in Nat
  BY <1>1, SMTT(30)
<1>6. gen_null_bitmap \in Seq(B)
  <2>1. Len(values) \in Nat
    BY <1>1
  <2> QED BY <2>1, BitmapTellsNull
<1> HIDE DEF n, B, c
<1>7. h \in Seq(B) /\ Len(h) = Len(header) + Len(c) /\ Holds(h, Len(header), c)
  BY <1>2, <1>3, WrittenBehind
<1>8. s \in Seq(B) /\ Len(s) = Len(variable) + Len(t) /\ Holds(s, Len(variable), t)
  BY <1>3, WrittenBehind
<1>9. Holds(h, 0, gen_null_bitmap)
  <2>1. 0 \in Nat /\ Holds(header, 0, gen_null_bitmap)
    BY <1>4
  <2> QED BY <1>2, <1>3, <1>6, <2>1, WrittenBehind
<1>10. Len(t) = IF IsVariable(values[k].type) THEN Len(values[k].v) ELSE 0
  <2>1. Len(<<>>) = 0
    OBVIOUS
  <2> QED BY <2>1
<1>11. Len(h) = attr_pos(k) /\ Len(s) = StringBytes[k] /\ o = header_size + StringBytes[k] /\ o \in Nat
  <2>1. attr_pos(k) = attr_pos(k - 1) + size(schema[k])
    BY <1>1, <1>5
  <2>2. StringBytes[k] = StringBytes[k - 1] + Len(t)
    BY <1>1, <1>5, <1>10
  <2>3. Len(h) = attr_pos(k)
    BY <1>2, <1>4, <1>7, <2>1
  <2>4. Len(s) = StringBytes[k]
    BY <1>4, <1>8, <2>2
  <2>5. o = header_size + StringBytes[k] /\ o \in Nat
    <3>1. /\ header_size \in Nat /\ StringBytes[k - 1] \in Nat /\ Len(t) \in Nat
          /\ offset = header_size + StringBytes[k - 1]
      BY <1>1, <1>3, <1>4, <1>5
    <3> QED BY <2>2, <3>1
  <2> QED BY <2>3, <2>4, <2>5
<1>12. ASSUME NEW j \in 1 .. k PROVE Holds(h, attr_pos(j - 1), ColumnPart(j))
  <2>1. CASE j = k
    BY <1>4, <1>7, <2>1 DEF c
  <2>2. CASE j # k
    <3>1. j \in 1 .. k - 1 /\ j - 1 \in 0 .. n /\ j \in 1 .. Len(schema)
      BY <1>1, <1>5, <2>2 DEF n
    <3>2. Holds(header, attr_pos(j - 1), ColumnPart(j)) /\ attr_pos(j - 1) \in Nat
      BY <1>1, <1>4, <3>1
    <3>3. ColumnPart(j) \in Seq(B)
      BY <3>1, PartOfColumn DEF B
    <3> QED BY <1>2, <1>3, <3>2, <3>3, WrittenBehind
  <2> QED BY <2>1, <2>2
<1>13. ASSUME NEW j \in 1 .. k, IsVariable(values[j].type)
       PROVE  Holds(s, StringBytes[j - 1], values[j].v)
  <2>1. CASE j = k
    BY <1>4, <1>8, <1>13, <2>1
  <2>2. CASE j # k
    <3>1. j \in 1 .. k - 1 /\ j - 1 \in 0 .. n /\ j \in 1 .. Len(schema)
      BY <1>1, <1>5, <2>2 DEF n
    <3>2. Holds(variable, StringBytes[j - 1], values[j].v) /\ StringBytes[j - 1] \in Nat
      BY <1>1, <1>4, <1>13, <3>1
    <3>3. values[j].v \in Seq(B)
      BY <1>13, <3>1, ValueFits, ValueTypes DEF B
    <3> QED BY <1>3, <3>2, <3>3, WrittenBehind
  <2> QED BY <2>1, <2>2
<1>14. RecordOf(h, s, o, k)
  <2> HIDE DEF h, s, o
  <2> QED BY <1>9, <1>11, <1>12, <1>13 DEF RecordOf
<1> QED BY <1>7, <1>8, <1>11, <1>14 DEF h, s, o, c, B

-----------------------------------------------------------------------------
(* deserialize. *)

\* What lies where in the whole record.
LEMMA RecordHolds ==
    ASSUME TupleTypes, Fits, WholeRecord, NEW k \in 1 .. Len(schema)
    PROVE  /\ Holds(bytes, 0, gen_null_bitmap)
           /\ attr_pos(k - 1) \in Nat
           /\ Holds(bytes, attr_pos(k - 1), ColumnPart(k))
           /\ Len(header) \in Nat /\ header_size <= Len(header)
           /\ Len(bytes) = Len(header) + Len(variable) /\ Len(variable) \in Nat
           /\ IsVariable(values[k].type) =>
                 /\ Len(header) + StringBytes[k - 1] \in Nat
                 /\ StringBytes[k - 1] + Len(values[k].v) <= Len(variable)
                 /\ Holds(bytes, Len(header) + StringBytes[k - 1], values[k].v)
<1> DEFINE n == Len(schema)
           B == UInt(1)
<1>1. /\ n \in Nat /\ Len(values) = n /\ header_size \in Nat /\ header_size <= attr_pos(n)
      /\ \A j \in 0 .. n : attr_pos(j) \in Nat
      /\ \A j \in 0 .. n : StringBytes[j] \in Nat
  BY Positions
<1>2. header \in Seq(B) /\ variable \in Seq(B) /\ Len(header) \in Nat /\ Len(variable) \in Nat
  BY LenProperties DEF TupleTypes
<1>3. /\ Len(header) = attr_pos(n)
      /\ Holds(header, 0, gen_null_bitmap)
      /\ Holds(header, attr_pos(k - 1), ColumnPart(k))
      /\ IsVariable(values[k].type) => Holds(variable, StringBytes[k - 1], values[k].v)
  BY DEF WholeRecord, RecordUpTo, RecordOf
<1>4. gen_null_bitmap \in Seq(B)
  <2>1. Len(values) \in Nat
    BY <1>1
  <2> QED BY <2>1, BitmapTellsNull
<1>5. ColumnPart(k) \in Seq(B)
  BY PartOfColumn
<1>6. k - 1 \in 0 .. n
  BY <1>1
<1>7. bytes = header \o variable
  BY DEF WholeRecord
<1> HIDE DEF B, n
<1>8. Len(bytes) = Len(header) + Len(variable)
  BY <1>2, <1>7, WrittenBehind
<1>9. Holds(bytes, 0, gen_null_bitmap)
  <2>1. 0 \in Nat
    OBVIOUS
  <2> QED BY <1>2, <1>3, <1>4, <1>7, <2>1, WrittenBehind
<1>10. attr_pos(k - 1) \in Nat /\ Holds(bytes, attr_pos(k - 1), ColumnPart(k))
  <2>1. attr_pos(k - 1) \in Nat
    BY <1>1, <1>6
  <2> QED BY <1>2, <1>3, <1>5, <1>7, <2>1, WrittenBehind
<1>11. ASSUME IsVariable(values[k].type)
       PROVE  /\ Len(header) + StringBytes[k - 1] \in Nat
              /\ StringBytes[k - 1] + Len(values[k].v) <= Len(variable)
              /\ Holds(bytes, Len(header) + StringBytes[k - 1], values[k].v)
  <2>1. values[k].v \in Seq(B)
    BY <1>11, ValueFits, ValueTypes DEF B
  <2>2. StringBytes[k - 1] \in Nat
    BY <1>1, <1>6
  <2>3. Holds(variable, StringBytes[k - 1], values[k].v)
    BY <1>3, <1>11
  <2>4. Holds(bytes, Len(header) + StringBytes[k - 1], values[k].v)
    BY <1>2, <1>7, <2>1, <2>2, <2>3, WrittenBehind
  <2> QED BY <1>2, <2>2, <2>3, <2>4 DEF Holds
<1>12. header_size <= Len(header)
  BY <1>1, <1>3
<1> QED BY <1>2, <1>8, <1>9, <1>10, <1>11, <1>12

\* deserialize sees the NULLs that serialize has marked.
LEMMA NullsSeen ==
    ASSUME TupleTypes, Fits, WholeRecord, NEW k \in 1 .. Len(schema)
    PROVE  is_value_null(k - 1) <=> values[k] = Null
<1> DEFINE n == Len(values)
           g == gen_null_bitmap
           c == k - 1
<1>1. n \in Nat /\ n = Len(schema)
  BY Positions
<1>2. c \in 0 .. n - 1 /\ c + 1 = k
  BY <1>1
<1>3. /\ g \in Seq(UInt(1)) /\ Len(g) = div_ceil(n)
      /\ ((g[ByteOf(c)] \div Bit(c)) % 2 = 1) <=> values[c + 1] = Null
  BY <1>1, <1>2, BitmapTellsNull
<1>4. ByteOf(c) \in 1 .. div_ceil(n)
  BY <1>1, <1>2, BytesOfBitmap DEF ByteOf
<1>5. bytes[ByteOf(c)] = g[ByteOf(c)]
  <2>1. Holds(bytes, 0, g)
    BY RecordHolds
  <2>2. div_ceil(n) \in Nat
    BY <1>1, BytesOfBitmap
  <2> DEFINE b == ByteOf(c)
  <2> HIDE DEF g, b
  <2>3. bytes[0 + b] = g[b] /\ 0 + b = b
    BY <1>3, <1>4, <2>1, <2>2 DEF Holds, b
  <2> QED BY <2>3 DEF b
<1>6. is_value_null(c) <=> (g[ByteOf(c)] \div Bit(c)) % 2 = 1
  BY <1>5 DEF is_value_null, ByteOf
<1> QED BY <1>2, <1>3, <1>6

\* A value is there to be read, whatever its offset; what is read is a value of the
\* column, and the one that was written if the offsets are right.
LEMMA FixedRead ==
    ASSUME TupleTypes, Fits, WholeRecord, NEW k \in 1 .. Len(schema),
           values[k] # Null, ~ IsVariable(schema[k])
    PROVE  /\ Readable(attr_pos(k - 1), schema[k])
           /\ ValueAt(attr_pos(k - 1), schema[k]) = values[k]
<1> DEFINE p == attr_pos(k - 1)
           t == schema[k]
           w == size(t)
           x == values[k].v
           c == ColumnPart(k)
<1>1. /\ t \in DataTypes /\ values[k] \in Value /\ values[k].type = t
      /\ values[k] = [type |-> t, v |-> x] /\ x \in UInt(w)
  BY ValueFits, ValueTypes
<1>2. w \in {1, 2, 4}
  BY <1>1, NullIsNoType
<1>3. p \in Nat /\ Holds(bytes, p, c) /\ bytes \in Seq(UInt(1))
  BY RecordHolds DEF TupleTypes
<1>4. c = to_be_bytes(x, w)
  BY <1>1 DEF ColumnPart
<1>5. x \in Nat
  BY <1>1 DEF UInt
<1> HIDE DEF p, w, x, c
<1>6. c \in Seq(UInt(1)) /\ Len(c) = w /\ from_be_bytes(c) = x
  BY <1>1, <1>2, <1>4, <1>5, RecordNumbers
<1>7. SubSeq(bytes, p + 1, p + w) = c /\ p + w <= Len(bytes)
  <2>1. SubSeq(bytes, p + 1, p + Len(c)) = c
    BY <1>3, <1>6, PartRead
  <2> QED BY <1>3, <1>6, <2>1 DEF Holds
<1>8. ValueAt(p, t) = [type |-> t, v |-> x]
  BY <1>6, <1>7 DEF ValueAt, w
<1>9. Readable(p, t)
  BY <1>7 DEF Readable, w
<1> QED BY <1>1, <1>8, <1>9 DEF p, x

\* A string, by its offset and length.
LEMMA VariableRead ==
    ASSUME TupleTypes, Fits, WholeRecord, NEW k \in 1 .. Len(schema),
           values[k] # Null, IsVariable(schema[k])
    PROVE  /\ Readable(attr_pos(k - 1), schema[k])
           /\ ValueAt(attr_pos(k - 1), schema[k]) \in ReadOf(schema[k])
           /\ OffsetsAreRight => ValueAt(attr_pos(k - 1), schema[k]) = values[k]
<1> DEFINE p == attr_pos(k - 1)
           t == schema[k]
           s == values[k].v
           o == header_size + StringBytes[k - 1]
           l == Len(s)
           x == to_be_bytes(o, 2)
           y == to_be_bytes(l, 2)
           a == from_be_bytes(x)
           b == from_be_bytes(y)
           B == UInt(1)
           n == Len(schema)
<1>1. /\ t \in DataTypes /\ values[k] \in Value /\ values[k].type = t
      /\ values[k] = [type |-> t, v |-> s] /\ s \in Seq(B) /\ l \in Nat
  BY ValueFits, ValueTypes
<1>2. size(t) = 4
  BY <1>1, NullIsNoType
<1>3. /\ p \in Nat /\ Holds(bytes, p, ColumnPart(k))
      /\ Len(header) \in Nat /\ header_size <= Len(header)
      /\ Len(bytes) = Len(header) + Len(variable) /\ Len(variable) \in Nat
      /\ StringBytes[k - 1] + l <= Len(variable)
      /\ Holds(bytes, Len(header) + StringBytes[k - 1], s)
  BY <1>1, RecordHolds
<1>4. header_size \in Nat /\ StringBytes[k - 1] \in Nat
  <2>1. k - 1 \in 0 .. n
    OBVIOUS
  <2> QED BY <2>1, Positions
<1>5. bytes \in Seq(B)
  BY DEF TupleTypes
<1>6. ColumnPart(k) = x \o y
  BY <1>1 DEF ColumnPart
<1>7. /\ x \in Seq(B) /\ Len(x) = 2 /\ a \in Nat /\ a <= o /\ (o \in UInt(2) => a = o)
      /\ y \in Seq(B) /\ Len(y) = 2 /\ b \in Nat /\ b <= l /\ (l \in UInt(2) => b = l)
  <2>1. o \in Nat /\ l \in Nat /\ 2 \in {1, 2, 4}
    BY <1>1, <1>4
  <2> HIDE DEF o, l
  <2> QED BY <2>1, RecordNumbers
<1>8. o + l <= Len(bytes)
  BY <1>1, <1>3, <1>4
<1>9. OffsetsAreRight => header_size = Len(header) /\ o \in UInt(2) /\ l \in UInt(2)
  <2> SUFFICES ASSUME OffsetsAreRight PROVE header_size = Len(header) /\ o \in UInt(2) /\ l \in UInt(2)
    OBVIOUS
  <2>1. Len(values) = n /\ DOMAIN values = 1 .. n
    <3>1. values \in Seq(Value) /\ Len(values) = n
      BY DEF TupleTypes, Fits
    <3> QED BY <3>1, LenProperties
  <2>2. \A j \in 1 .. n : values[j] # Null
    BY <1>1, <2>1 DEF OffsetsAreRight
  <2>3. header_size = attr_pos(n)
    BY <2>2, Positions
  <2>4. Len(header) = attr_pos(n)
    BY DEF WholeRecord, RecordUpTo, RecordOf
  <2>5. Len(bytes) \in UInt(2) /\ 2 \in {1, 2, 4}
    BY DEF OffsetsAreRight
  <2>6. o \in Nat /\ l \in Nat /\ o <= Len(bytes) /\ l <= Len(bytes)
    BY <1>1, <1>4, <1>8
  <2> HIDE DEF o, l
  <2>7. o \in UInt(2) /\ l \in UInt(2)
    BY <2>5, <2>6, RecordUInts
  <2> QED BY <2>3, <2>4, <2>7
<1> HIDE DEF x, y, a, b
<1>10. Pair(p, 1) = a /\ Pair(p, 2) = b /\ p + 4 <= Len(bytes)
  <2>1. Holds(bytes, p, x \o y)
    BY <1>3, <1>6
  <2> HIDE DEF p, B
  <2>2. Holds(bytes, p, x) /\ Holds(bytes, p + Len(x), y)
    BY <1>3, <1>5, <1>7, <2>1, PartOfPart
  <2>3. p + 2 \in Nat /\ Holds(bytes, p + 2, y)
    BY <1>3, <1>7, <2>2
  <2>4. SubSeq(bytes, p + 1, p + Len(x)) = x
    BY <1>3, <1>5, <1>7, <2>2, PartRead
  <2>5. SubSeq(bytes, (p + 2) + 1, (p + 2) + Len(y)) = y
    BY <1>5, <1>7, <2>3, PartRead
  <2>6. /\ p + 2 * 1 - 1 = p + 1 /\ p + 2 * 1 = p + Len(x)
        /\ p + 2 * 2 - 1 = (p + 2) + 1 /\ p + 2 * 2 = (p + 2) + Len(y)
    BY <1>3, <1>7
  <2>7. Pair(p, 1) = a /\ Pair(p, 2) = b
    BY <2>4, <2>5, <2>6 DEF Pair, a, b
  <2>8. p + 4 <= Len(bytes)
    <3>1. (p + 2) + Len(y) <= Len(bytes)
      BY <2>3 DEF Holds
    <3> QED BY <1>3, <1>7, <3>1
  <2> QED BY <2>7, <2>8
<1> HIDE DEF p
<1>11. a + b <= Len(bytes)
  <2> HIDE DEF o, l
  <2>1. o \in Nat /\ l \in Nat /\ Len(bytes) \in Nat
    BY <1>1, <1>3, <1>4 DEF o, l
  <2> QED BY <1>7, <1>8, <2>1
<1>12. Readable(p, t)
  BY <1>2, <1>10, <1>11 DEF Readable
<1>13. ValueAt(p, t) = [type |-> t, v |-> SubSeq(bytes, a + 1, a + b)]
  BY <1>10 DEF ValueAt
<1>14. SubSeq(bytes, a + 1, a + b) \in Seq(B)
  <2>1. \A j \in a + 1 .. a + b : bytes[j] \in B
    <3>1. \A j \in 1 .. Len(bytes) : bytes[j] \in B
      BY <1>5, ElementOfSeq
    <3>2. Len(bytes) \in Nat
      BY <1>3
    <3>3. \A j \in a + 1 .. a + b : j \in 1 .. Len(bytes)
      BY <1>7, <1>11, <3>2
    <3> QED BY <3>1, <3>3
  <2>2. a + 1 \in Int /\ a + b \in Int
    BY <1>7
  <2> HIDE DEF B
  <2> QED BY <2>1, <2>2, SubSeqProperties
<1>15. ValueAt(p, t) \in ReadOf(t)
  BY <1>13, <1>14 DEF ReadOf
<1>16. ASSUME OffsetsAreRight PROVE ValueAt(p, t) = values[k]
  <2>1. a = Len(header) + StringBytes[k - 1] /\ b = l
    BY <1>7, <1>9, <1>16
  <2>2. a \in Nat /\ Holds(bytes, a, s)
    BY <1>3, <1>7, <2>1
  <2>3. SubSeq(bytes, a + 1, a + Len(s)) = s
    <3> HIDE DEF s, B
    <3> QED BY <1>1, <1>5, <2>2, PartRead
  <2> QED BY <1>1, <1>13, <2>1, <2>3
<1> QED BY <1>12, <1>15, <1>16 DEF p

\* A value that is not NULL: what deserialize and get_attr find.
LEMMA ValueRead ==
    ASSUME TupleTypes, Fits, WholeRecord, NEW k \in 1 .. Len(schema), values[k] # Null
    PROVE  /\ Readable(attr_pos(k - 1), schema[k])
           /\ ValueAt(attr_pos(k - 1), schema[k]) \in ReadOf(schema[k])
           /\ OffsetsAreRight => ValueAt(attr_pos(k - 1), schema[k]) = values[k]
<1>1. CASE IsVariable(schema[k])
  BY <1>1, VariableRead
<1>2. CASE ~ IsVariable(schema[k])
  <2>1. values[k] \in ReadOf(schema[k])
    BY ValueFits, ValueTypes
  <2> QED BY <1>2, <2>1, FixedRead
<1> QED BY <1>1, <1>2

\* What a statement stores has no NULL and is not longer than a u16 counts.
LEMMA StoredOffsetsAreRight ==
    ASSUME TupleTypes, Fits, caller = "Insert", Len(bytes) <= MaxRecord
    PROVE  OffsetsAreRight
<1>1. \A k \in DOMAIN values : values[k] # Null
  <2>1. values \in Seq(Value) /\ Len(values) = Len(schema)
    BY DEF TupleTypes, Fits
  <2>2. DOMAIN values = 1 .. Len(schema)
    BY <2>1, LenProperties
  <2> QED BY <2>2, ValueFits
<1>2. Len(bytes) \in Nat
  BY LenProperties DEF TupleTypes
<1>3. Len(bytes) \in UInt(2)
  <2>1. MaxRecord \in UInt(2) /\ 2 \in {1, 2, 4}
    BY BoundsAssumption
  <2> QED BY <1>2, <2>1, RecordUInts
<1> QED BY <1>1, <1>3 DEF OffsetsAreRight

-----------------------------------------------------------------------------
(* The steps. *)

\* A tuple that nobody has written.
LEMMA InitTuple == Init => TupleInv
<1> SUFFICES ASSUME Init PROVE TupleInv
  OBVIOUS
<1>1. PICK n \in 1 .. MaxColumns : schema \in [1 .. n -> DataTypes]
  BY Zenon DEF Init, UpTo
<1>2. PICK m \in 1 .. MaxColumns : values \in [1 .. m -> Value]
  BY Zenon DEF Init, UpTo
<1>3. MaxColumns \in Nat /\ n \in Nat /\ m \in Nat
  BY BoundsAssumption
<1>4. schema \in Seq(DataTypes) /\ Len(schema) \in 1 .. MaxColumns /\ values \in Seq(Value)
  BY <1>1, <1>2, <1>3, SeqDef, LenProperties
<1>5. DOMAIN schema = 1 .. Len(schema)
  BY <1>4, LenProperties
<1>6. /\ caller \in {"Insert", "Library"} /\ phase = "Check" /\ i = 1
      /\ header = <<>> /\ variable = <<>> /\ bytes = <<>> /\ decoded = <<>>
      /\ offset = 0 /\ pos = 0
  BY DEF Init
<1>7. TupleTypes
  <2>1. /\ header \in Seq(UInt(1)) /\ variable \in Seq(UInt(1)) /\ bytes \in Seq(UInt(1))
        /\ decoded \in Seq(Readables)
    BY <1>6, EmptySeq
  <2> QED BY <1>3, <1>4, <1>6, <2>1 DEF TupleTypes
<1>8. caller = "Library" => Fits
  BY <1>5 DEF Init, Fits
<1>9. TupleFits /\ WrittenSoFar /\ ReadSoFar
  BY <1>6, <1>8 DEF TupleFits, WrittenSoFar, ReadSoFar
<1> QED BY <1>7, <1>9 DEF TupleInv

\* is_valid_tuple refuses the tuple, or panics.
LEMMA ChecksKeepTuple ==
    ASSUME TupleInv, Rejects \/ CheckFails
    PROVE  TupleInv'
<1>1. /\ phase = "Check" /\ caller = "Insert" /\ phase' \in {"Rejected", "NullPanics"}
      /\ UNCHANGED <<caller, schema, values, i, header, variable, offset, bytes, pos, decoded>>
  BY DEF Rejects, CheckFails, Checked, tuple
<1>2. TupleTypes'
  BY <1>1 DEF TupleInv, TupleTypes
<1>3. decoded = <<>>
  BY <1>1 DEF TupleInv, ReadSoFar
<1> QED BY <1>1, <1>2, <1>3 DEF TupleInv, TupleFits, WrittenSoFar, ReadSoFar

\* serialize begins with the bitmap.
LEMMA SerializeStartsKeepsTuple ==
    ASSUME TupleInv, SerializeStarts
    PROVE  TupleInv'
<1>1. /\ phase = "Check" /\ phase' = "Serialize"
      /\ header' = gen_null_bitmap /\ offset' = header_size
      /\ UNCHANGED <<caller, schema, values, i, variable, bytes, pos, decoded>>
  BY DEF SerializeStarts, tuple
<1>2. TupleTypes /\ i = 1 /\ variable = <<>> /\ decoded = <<>>
  BY <1>1 DEF TupleInv, WrittenSoFar, ReadSoFar
<1>3. Fits
  <2>1. caller = "Library" => Fits
    BY DEF TupleInv, TupleFits
  <2>2. DOMAIN schema = 1 .. Len(schema)
    BY <1>2, LenProperties DEF TupleTypes
  <2>3. caller = "Insert" => Fits
    BY <2>2 DEF SerializeStarts, is_valid_tuple, Fits
  <2> QED BY <1>2, <2>1, <2>3 DEF TupleTypes
<1>4. /\ RecordOf(header', variable', offset', 0)
      /\ header' \in Seq(UInt(1)) /\ offset' \in Nat
  BY <1>1, <1>2, <1>3, RecordBegins
<1>5. RecordUpTo(i - 1)'
  <2>1. i' - 1 = 0
    BY <1>1, <1>2
  <2> QED BY <1>1, <1>4, <2>1, SameTuple DEF RecordUpTo
<1>6. TupleTypes'
  BY <1>1, <1>2, <1>4 DEF TupleTypes
<1>7. TupleFits'
  BY <1>1, <1>3 DEF TupleFits, Fits, FitsColumn
<1>8. WrittenSoFar'
  <2>1. i' - 1 <= Len(schema')
    BY <1>1, <1>2 DEF TupleTypes
  <2> QED BY <1>1, <1>5, <2>1 DEF WrittenSoFar
<1>9. ReadSoFar'
  BY <1>1, <1>2 DEF ReadSoFar
<1> QED BY <1>6, <1>7, <1>8, <1>9 DEF TupleInv

\* A turn of the loop of serialize.
LEMMA ColumnKeepsTuple ==
    ASSUME TupleInv, phase = "Serialize", i <= Len(values),
           NEW t \in Seq(UInt(1)), IsVariable(values[i].type) => t = values[i].v,
           ~ IsVariable(values[i].type) => t = <<>>,
           header' = header \o ColumnPart(i), variable' = variable \o t,
           offset' = offset + Len(t), i' = i + 1,
           UNCHANGED <<tuple, phase, bytes, pos, decoded>>
    PROVE  TupleInv'
<1>1. UNCHANGED <<caller, schema, values, phase, bytes, pos, decoded>>
  BY DEF tuple
<1>2. TupleTypes /\ Fits /\ RecordUpTo(i - 1) /\ decoded = <<>>
  BY DEF TupleInv, TupleFits, WrittenSoFar, ReadSoFar
<1>3. i \in 1 .. Len(schema) /\ Len(schema) \in Nat /\ Len(schema) <= MaxColumns
  BY <1>2, Positions DEF TupleTypes
<1>4. /\ RecordOf(header', variable', offset', i)
      /\ header' \in Seq(UInt(1)) /\ variable' \in Seq(UInt(1)) /\ offset' \in Nat
  BY <1>2, <1>3, ColumnWritten
<1>5. i' - 1 = i /\ i' \in 1 .. MaxColumns + 1
  BY <1>3, BoundsAssumption
<1>6. RecordUpTo(i - 1)'
  BY <1>1, <1>4, <1>5, SameTuple DEF RecordUpTo
<1>7. TupleTypes'
  BY <1>1, <1>2, <1>4, <1>5 DEF TupleTypes
<1>8. TupleFits'
  BY <1>1, <1>2 DEF TupleFits, Fits, FitsColumn
<1>9. WrittenSoFar'
  BY <1>1, <1>3, <1>5, <1>6 DEF WrittenSoFar
<1>10. ReadSoFar'
  BY <1>1, <1>2 DEF ReadSoFar
<1> QED BY <1>7, <1>8, <1>9, <1>10 DEF TupleInv

\* The three kinds of column.
LEMMA SerializeKeepsTuple ==
    ASSUME TupleInv, SerializeFixed \/ SerializeVariable \/ SerializeNull
    PROVE  TupleInv'
<1>1. phase = "Serialize" /\ i <= Len(values)
  BY DEF SerializeFixed, SerializeVariable, SerializeNull, Serializing
<1>2. TupleTypes /\ Fits /\ RecordUpTo(i - 1)
  BY <1>1 DEF TupleInv, TupleFits, WrittenSoFar
<1>3. i \in 1 .. Len(schema)
  BY <1>1, <1>2, Positions DEF TupleTypes
<1>4. /\ variable \in Seq(UInt(1)) /\ offset \in Nat /\ header \in Seq(UInt(1))
      /\ variable \o <<>> = variable /\ offset + Len(<<>>) = offset
      /\ <<>> \in Seq(UInt(1))
  <2>1. variable \in Seq(UInt(1)) /\ offset \in Nat /\ header \in Seq(UInt(1))
    BY <1>2 DEF TupleTypes
  <2>2. variable \o <<>> = variable
    BY <2>1, ConcatEmptySeq
  <2>3. Len(<<>>) = 0
    OBVIOUS
  <2> QED BY <2>1, <2>2, <2>3, EmptySeq
<1>5. CASE SerializeFixed
  <2>1. /\ values[i] # Null /\ ~ IsVariable(values[i].type)
        /\ header' = header \o ColumnPart(i)
        /\ i' = i + 1 /\ UNCHANGED <<tuple, phase, bytes, pos, decoded>>
        /\ UNCHANGED <<variable, offset>>
    BY <1>5 DEF SerializeFixed, ColumnPart
  <2>2. variable' = variable \o <<>> /\ offset' = offset + Len(<<>>)
    BY <1>4, <2>1
  <2> QED BY <1>1, <1>4, <2>1, <2>2, ColumnKeepsTuple
<1>6. CASE SerializeNull
  <2>1. /\ values[i] = Null
        /\ header' = header \o ColumnPart(i)
        /\ i' = i + 1 /\ UNCHANGED <<tuple, phase, bytes, pos, decoded>>
        /\ UNCHANGED <<variable, offset>>
    BY <1>6 DEF SerializeNull, ColumnPart
  <2>2. variable' = variable \o <<>> /\ offset' = offset + Len(<<>>)
    BY <1>4, <2>1
  <2>3. ~ IsVariable(values[i].type)
    BY <2>1, NullIsNoType
  <2> QED BY <1>1, <1>4, <2>1, <2>2, <2>3, ColumnKeepsTuple
<1>7. CASE SerializeVariable
  <2> DEFINE s == values[i].v
             x == to_be_bytes(offset, 2)
             y == to_be_bytes(Len(s), 2)
  <2>1. /\ IsVariable(values[i].type)
        /\ header' = header \o x \o y
        /\ offset' = offset + Len(s)
        /\ variable' = variable \o s
        /\ i' = i + 1 /\ UNCHANGED <<tuple, phase, bytes, pos, decoded>>
    BY <1>7 DEF SerializeVariable
  <2>2. values[i] # Null /\ values[i] \in Value
    BY <1>2, <1>3, <2>1, ValueFits
  <2>3. s \in Seq(UInt(1)) /\ Len(s) \in Nat
    BY <2>1, <2>2, ValueTypes
  <2>4. offset = header_size + StringBytes[i - 1]
    BY <1>2 DEF RecordUpTo, RecordOf
  <2>5. ColumnPart(i) = x \o y
    BY <2>1, <2>2, <2>4 DEF ColumnPart
  <2>6. x \in Seq(UInt(1)) /\ y \in Seq(UInt(1))
    BY <1>4, <2>3, RecordNumbers
  <2> HIDE DEF x, y
  <2>7. header' = header \o ColumnPart(i)
    <3>1. (header \o x) \o y = header \o (x \o y)
      BY <1>4, <2>6, ConcatAssociative
    <3> QED BY <2>1, <2>5, <3>1
  <2> QED BY <1>1, <2>1, <2>3, <2>7, ColumnKeepsTuple
<1> QED BY <1>5, <1>6, <1>7

\* The record of the same tuple is read the same way.
LEMMA SameRecord ==
    ASSUME UNCHANGED <<values, schema, header, variable, offset, bytes>>
    PROVE  /\ WholeRecord' = WholeRecord /\ OffsetsAreRight' = OffsetsAreRight
           /\ \A k : attr_pos(k)' = attr_pos(k)
<1>1. RecordUpTo(Len(schema))' = RecordUpTo(Len(schema))
  BY SameTuple DEF RecordUpTo
<1>2. WholeRecord' = WholeRecord
  BY <1>1 DEF WholeRecord
<1>3. OffsetsAreRight' = OffsetsAreRight
  BY DEF OffsetsAreRight
<1>4. \A k : attr_pos(k)' = attr_pos(k)
  BY DEF attr_pos, div_ceil, ColumnBytes
<1> QED BY <1>2, <1>3, <1>4

\* insert_record refuses the record.
LEMMA TooLargeKeepsTuple ==
    ASSUME TupleInv, RecordTooLarge
    PROVE  TupleInv'
<1>1. /\ phase = "Serialize" /\ phase' = "TooLarge"
      /\ UNCHANGED <<caller, schema, values, i, header, variable, offset, bytes, pos, decoded>>
  BY DEF RecordTooLarge, Serialized, tuple
<1>2. TupleTypes'
  BY <1>1 DEF TupleInv, TupleTypes
<1>3. Fits /\ decoded = <<>>
  BY <1>1 DEF TupleInv, TupleFits, ReadSoFar
<1> QED BY <1>1, <1>2, <1>3 DEF TupleInv, TupleFits, WrittenSoFar, ReadSoFar, Fits, FitsColumn

\* The record is whole and the reader starts behind the bitmap.
LEMMA SerializeEndsKeepsTuple ==
    ASSUME TupleInv, SerializeEnds
    PROVE  TupleInv'
<1>1. /\ phase = "Serialize" /\ phase' = "Deserialize" /\ i > Len(values)
      /\ caller = "Insert" => Len(header) + Len(variable) <= MaxRecord
      /\ bytes' = header \o variable /\ pos' = div_ceil(Len(schema)) /\ i' = 1
      /\ UNCHANGED <<caller, schema, values, header, variable, offset, decoded>>
  BY DEF SerializeEnds, Serialized, tuple
<1>2. TupleTypes /\ Fits /\ i - 1 <= Len(schema) /\ RecordUpTo(i - 1) /\ decoded = <<>>
  BY <1>1 DEF TupleInv, TupleFits, WrittenSoFar, ReadSoFar
<1>3. /\ Len(schema) \in Nat /\ Len(values) = Len(schema) /\ attr_pos(0) = div_ceil(Len(schema))
      /\ attr_pos(0) \in Nat
  <2>1. 0 \in 0 .. Len(schema)
    BY <1>2, Positions
  <2> QED BY <1>2, <2>1, Positions
<1>4. i - 1 = Len(schema)
  BY <1>1, <1>2, <1>3 DEF TupleTypes
<1>5. /\ bytes' \in Seq(UInt(1)) /\ Len(bytes') = Len(header) + Len(variable)
  <2>1. header \in Seq(UInt(1)) /\ variable \in Seq(UInt(1))
    BY <1>2 DEF TupleTypes
  <2> QED BY <1>1, <2>1, ConcatProperties
<1>6. WholeRecord'
  <2>1. RecordUpTo(Len(schema))
    BY <1>2, <1>4
  <2>2. RecordUpTo(Len(schema))'
    BY <1>1, <2>1, SameTuple DEF RecordUpTo
  <2> QED BY <1>1, <2>2 DEF WholeRecord
<1>7. TupleTypes'
  <2>1. 1 \in 1 .. MaxColumns + 1
    BY BoundsAssumption
  <2> QED BY <1>1, <1>2, <1>3, <1>5, <2>1 DEF TupleTypes
<1>8. TupleFits'
  BY <1>1, <1>2 DEF TupleFits, Fits, FitsColumn
<1>9. WrittenSoFar'
  BY <1>1, <1>5, <1>6 DEF WrittenSoFar
<1>10. ReadSoFar'
  <2>1. i' - 1 = 0 /\ 1 .. i' - 1 = {}
    BY <1>1
  <2>2. pos' = attr_pos(i - 1)'
    <3>1. \A k : attr_pos(k)' = attr_pos(k)
      BY <1>1 DEF attr_pos, div_ceil, ColumnBytes
    <3>2. attr_pos(i - 1)' = attr_pos(0)
      BY <2>1, <3>1
    <3> QED BY <1>1, <1>3, <3>2
  <2>3. Len(decoded') = 0
    BY <1>1, <1>2
  <2> QED BY <1>1, <1>3, <2>1, <2>2, <2>3 DEF ReadSoFar
<1> QED BY <1>7, <1>8, <1>9, <1>10 DEF TupleInv

\* A turn of the loop of deserialize.
LEMMA PushedKeepsTuple ==
    ASSUME TupleInv, Deserializing, NEW v \in Readables, v = Null \/ v \in ReadOf(schema[i]),
           OffsetsAreRight => v = values[i], Pushed(v)
    PROVE  TupleInv'
<1>1. /\ phase = "Deserialize" /\ i <= Len(schema)
      /\ decoded' = Append(decoded, v) /\ pos' = pos + size(schema[i]) /\ i' = i + 1
      /\ UNCHANGED <<caller, schema, values, phase, header, variable, offset, bytes>>
  BY DEF Deserializing, Pushed, tuple
<1>2. TupleTypes /\ Fits /\ WholeRecord /\ (caller = "Insert" => Len(bytes) <= MaxRecord)
  BY <1>1 DEF TupleInv, TupleFits, WrittenSoFar
<1>3. /\ Len(decoded) = i - 1 /\ pos = attr_pos(i - 1)
      /\ \A k \in 1 .. i - 1 : decoded[k] = Null \/ decoded[k] \in ReadOf(schema[k])
      /\ OffsetsAreRight => \A k \in 1 .. i - 1 : decoded[k] = values[k]
  BY <1>1 DEF TupleInv, ReadSoFar
<1>4. /\ Len(schema) \in Nat /\ Len(schema) <= MaxColumns /\ i \in 1 .. Len(schema)
      /\ decoded \in Seq(Readables)
  BY <1>1, <1>2, Positions DEF TupleTypes
<1>5. attr_pos(i) = attr_pos(i - 1) + size(schema[i]) /\ attr_pos(i) \in Nat
  <2>1. i \in 0 .. Len(schema)
    BY <1>4
  <2> QED BY <1>2, <1>4, <2>1, Positions
<1>6. i' - 1 = i /\ i' \in 1 .. MaxColumns + 1 /\ i \in Nat
  BY <1>1, <1>4, BoundsAssumption
<1>7. /\ decoded' \in Seq(Readables) /\ Len(decoded') = i
      /\ \A k \in 1 .. i : decoded'[k] = IF k = i THEN v ELSE decoded[k]
  <2>1. /\ Append(decoded, v) \in Seq(Readables) /\ Len(Append(decoded, v)) = Len(decoded) + 1
        /\ \A k \in 1 .. Len(decoded) : Append(decoded, v)[k] = decoded[k]
        /\ Append(decoded, v)[Len(decoded) + 1] = v
    BY <1>4, AppendProperties
  <2>2. Len(decoded) + 1 = i /\ \A k \in 1 .. i : k # i => k \in 1 .. Len(decoded)
    BY <1>3, <1>4
  <2> QED BY <1>1, <2>1, <2>2
<1>8. /\ WholeRecord' = WholeRecord /\ OffsetsAreRight' = OffsetsAreRight
      /\ \A k : attr_pos(k)' = attr_pos(k)
  BY <1>1, SameRecord
<1>9. TupleTypes'
  BY <1>1, <1>2, <1>3, <1>5, <1>6, <1>7 DEF TupleTypes
<1>10. TupleFits'
  BY <1>1, <1>2 DEF TupleFits, Fits, FitsColumn
<1>11. WrittenSoFar'
  BY <1>1, <1>2, <1>8 DEF WrittenSoFar
<1>12. \A k \in 1 .. i : decoded'[k] = Null \/ decoded'[k] \in ReadOf(schema[k])
  <2>1. \A k \in 1 .. i : k # i => k \in 1 .. i - 1
    BY <1>4
  <2> QED BY <1>3, <1>7, <2>1
<1>13. OffsetsAreRight => \A k \in 1 .. i : decoded'[k] = values[k]
  <2>1. \A k \in 1 .. i : k # i => k \in 1 .. i - 1
    BY <1>4
  <2> QED BY <1>3, <1>7, <2>1
<1>14. ReadSoFar'
  <2>1. pos' = attr_pos(i)
    BY <1>1, <1>3, <1>5
  <2>2. attr_pos(i - 1)' = attr_pos(i)
    BY <1>6, <1>8
  <2>3. ReadOf(schema[1])' = ReadOf(schema[1])
    BY <1>1
  <2>4. \A k : (ReadOf(schema[k]))' = ReadOf(schema[k])
    BY <1>1 DEF ReadOf
  <2> QED BY <1>1, <1>4, <1>6, <1>7, <1>8, <1>12, <1>13, <2>1, <2>2, <2>4 DEF ReadSoFar
<1> QED BY <1>9, <1>10, <1>11, <1>14 DEF TupleInv

\* NULL, or what the column holds.
LEMMA DeserializeKeepsTuple ==
    ASSUME TupleInv, DeserializeNull \/ DeserializeValue
    PROVE  TupleInv'
<1>1. phase = "Deserialize" /\ i <= Len(schema) /\ Deserializing
  BY DEF DeserializeNull, DeserializeValue, Deserializing
<1>2. TupleTypes /\ Fits /\ WholeRecord /\ pos = attr_pos(i - 1)
  BY <1>1 DEF TupleInv, TupleFits, WrittenSoFar, ReadSoFar
<1>3. i \in 1 .. Len(schema)
  BY <1>1, <1>2, Positions DEF TupleTypes
<1>4. is_value_null(i - 1) <=> values[i] = Null
  BY <1>2, <1>3, NullsSeen
<1>5. CASE DeserializeNull
  <2>1. is_value_null(i - 1) /\ Pushed(Null)
    BY <1>5 DEF DeserializeNull
  <2>2. values[i] = Null /\ Null \in Readables
    BY <1>4, <2>1 DEF Readables
  <2> QED BY <1>1, <2>1, <2>2, PushedKeepsTuple
<1>6. CASE DeserializeValue
  <2> DEFINE v == ValueAt(pos, schema[i])
  <2>1. ~ is_value_null(i - 1) /\ Pushed(v)
    BY <1>6 DEF DeserializeValue
  <2>2. values[i] # Null
    BY <1>4, <2>1
  <2>3. v \in ReadOf(schema[i]) /\ (OffsetsAreRight => v = values[i])
    BY <1>2, <1>3, <2>2, ValueRead
  <2>4. v \in Readables
    <3>1. schema[i] \in DataTypes
      BY <1>2, <1>3, ValueFits
    <3>2. v \in UNION {ReadOf(type) : type \in DataTypes}
      BY <2>3, <3>1, Zenon
    <3> QED BY <3>2 DEF Readables
  <2> HIDE DEF v
  <2> QED BY <1>1, <2>1, <2>3, <2>4, PushedKeepsTuple
<1> QED BY <1>5, <1>6

\* All columns are read.
LEMMA DeserializeEndsKeepsTuple ==
    ASSUME TupleInv, DeserializeEnds
    PROVE  TupleInv'
<1>1. /\ phase = "Deserialize" /\ i > Len(schema) /\ phase' = "Done"
      /\ UNCHANGED <<caller, schema, values, i, header, variable, offset, bytes, pos, decoded>>
  BY DEF DeserializeEnds, tuple
<1>2. TupleTypes /\ Fits /\ WholeRecord /\ (caller = "Insert" => Len(bytes) <= MaxRecord)
  BY <1>1 DEF TupleInv, TupleFits, WrittenSoFar
<1>3. /\ i - 1 <= Len(schema) /\ Len(decoded) = i - 1 /\ pos = attr_pos(i - 1)
      /\ \A k \in 1 .. i - 1 : decoded[k] = Null \/ decoded[k] \in ReadOf(schema[k])
      /\ OffsetsAreRight => \A k \in 1 .. i - 1 : decoded[k] = values[k]
  BY <1>1 DEF TupleInv, ReadSoFar
<1>4. i - 1 = Len(schema)
  <2>1. Len(schema) \in Nat
    BY <1>2, Positions
  <2> QED BY <1>1, <1>2, <1>3, <2>1 DEF TupleTypes
<1>5. /\ WholeRecord' = WholeRecord /\ OffsetsAreRight' = OffsetsAreRight
      /\ \A k : attr_pos(k)' = attr_pos(k)
  BY <1>1, SameRecord
<1>6. TupleTypes'
  BY <1>1, <1>2 DEF TupleTypes
<1>7. TupleFits'
  BY <1>1, <1>2 DEF TupleFits, Fits, FitsColumn
<1>8. WrittenSoFar'
  BY <1>1, <1>2, <1>5 DEF WrittenSoFar
<1>9. ReadSoFar'
  <2>1. attr_pos(i - 1)' = attr_pos(i - 1)
    BY <1>1, <1>5
  <2>2. \A k : (ReadOf(schema[k]))' = ReadOf(schema[k])
    BY <1>1 DEF ReadOf
  <2> QED BY <1>1, <1>3, <1>4, <1>5, <2>1, <2>2 DEF ReadSoFar
<1> QED BY <1>6, <1>7, <1>8, <1>9 DEF TupleInv

-----------------------------------------------------------------------------
(* Sessions, and what follows. *)

\* Every step of the codec.
LEMMA StepsKeepTuple ==
    ASSUME TupleInv, Next
    PROVE  TupleInv'
BY ChecksKeepTuple, SerializeStartsKeepsTuple, SerializeKeepsTuple, TooLargeKeepsTuple,
   SerializeEndsKeepsTuple, DeserializeKeepsTuple, DeserializeEndsKeepsTuple DEF Next

\* Nothing of a tuple changes but, perhaps, its columns and pos: these stay as they are.
LEMMA StillKeepsTuple ==
    ASSUME TupleInv, schema' = schema, pos' = pos,
           UNCHANGED <<caller, values, phase, i, header, variable, offset, bytes, decoded>>
    PROVE  TupleInv'
<1>1. UNCHANGED <<caller, schema, values, phase, i, header, variable, offset, bytes, pos, decoded>>
  OBVIOUS
<1>2. /\ WholeRecord' = WholeRecord /\ OffsetsAreRight' = OffsetsAreRight
      /\ \A k : attr_pos(k)' = attr_pos(k)
  BY <1>1, SameRecord
<1>3. RecordUpTo(i - 1)' = RecordUpTo(i - 1)
  BY <1>1, SameTuple DEF RecordUpTo
<1>4. attr_pos(i - 1)' = attr_pos(i - 1)
  BY <1>1, <1>2
<1>5. \A k : (ReadOf(schema[k]))' = ReadOf(schema[k])
  BY <1>1 DEF ReadOf
<1>6. TupleTypes' /\ TupleFits'
  BY <1>1 DEF TupleInv, TupleTypes, TupleFits, Fits, FitsColumn
<1>7. WrittenSoFar'
  BY <1>1, <1>2, <1>3 DEF TupleInv, WrittenSoFar
<1>8. ReadSoFar'
  BY <1>1, <1>2, <1>4, <1>5 DEF TupleInv, ReadSoFar
<1> QED BY <1>6, <1>7, <1>8 DEF TupleInv

\* The invariant of both codecs and of the sessions.
SessionSafe == SchemaInv /\ SessionInv /\ TupleInv

\* The next session reads the record under the columns it was written with.
LEMMA ReopensKeepsTuple ==
    ASSUME SessionSafe, SchemaInv', Reopens
    PROVE  SessionInv' /\ TupleInv'
<1>1. /\ phase = "Deserialize" /\ stage # "Open" /\ i = 1 /\ attributes' = attributes
      /\ schema = TypesOf(attributes)
      /\ UNCHANGED <<caller, values, phase, i, header, variable, offset, bytes, decoded>>
  <2>1. phase = "Deserialize" /\ stage # "Open" /\ attributes' = attributes
    BY DEF Reopens, Catalog!Decode, Catalog!DecodeEntry, Catalog!DecodeColumn, Catalog!DecodeEnds,
           Catalog!Decoding, Catalog!table
  <2>2. UNCHANGED <<caller, values, phase, i, header, variable, offset, bytes, decoded>>
    BY DEF Reopens, Read, vars, tuple
  <2> QED BY <2>1, <2>2 DEF SessionSafe, SessionInv
<1>2. pos = div_ceil(Len(schema))
  <2>1. TupleTypes /\ Fits /\ pos = attr_pos(i - 1)
    BY <1>1 DEF SessionSafe, TupleInv, TupleFits, ReadSoFar
  <2>2. attr_pos(0) = div_ceil(Len(schema))
    BY <2>1, Positions
  <2> QED BY <1>1, <2>1, <2>2
<1>3. schema' = schema /\ pos' = pos
  <2>1. CASE stage' = "Open"
    <3>1. /\ schema' = TypesOf(found.attributes) /\ pos' = div_ceil(Len(found.attributes))
          /\ found' = found
      BY <2>1 DEF Reopens, Read, Catalog!Decode, Catalog!DecodeEntry, Catalog!DecodeColumn,
                  Catalog!DecodeEnds, Catalog!Decoding
    <3>2. SchemaSurvives'
      <4>1. (SchemaInv => SchemaSurvives)'
        BY FoundIsCreated, PTL
      <4> QED BY <4>1
    <3>3. found'.attributes = attributes'
      BY <2>1, <3>2 DEF SchemaSurvives, Catalog!SchemaSurvives
    <3>4. Len(schema) = Len(attributes)
      <4>1. attributes \in Seq(Columns)
        BY DEF SessionSafe, SchemaInv, SchemaTypes
      <4>2. DOMAIN attributes = 1 .. Len(attributes) /\ Len(attributes) \in Nat
        BY <4>1, LenProperties
      <4>3. schema = [k \in 1 .. Len(attributes) |-> attributes[k].data_type]
        BY <1>1, <4>2 DEF TypesOf
      <4>4. schema \in Seq(DataTypes) /\ Len(schema) \in Nat
        BY LenProperties DEF SessionSafe, TupleInv, TupleTypes
      <4> QED BY <4>2, <4>3, <4>4, LenProperties
    <3> QED BY <1>1, <1>2, <3>1, <3>3, <3>4
  <2>2. CASE stage' # "Open"
    BY <2>2 DEF Reopens, vars, tuple
  <2> QED BY <2>1, <2>2
<1>4. TupleInv'
  BY <1>1, <1>3, StillKeepsTuple DEF SessionSafe
<1>5. SessionInv'
  BY <1>1, <1>3 DEF SessionInv, TypesOf
<1> QED BY <1>4, <1>5

\* Every step of a session.
LEMMA SessionStep ==
    ASSUME SessionSafe, [NextSession]_<<vars, catalogVars>>
    PROVE  SessionSafe'
<1>1. SchemaInv'
  <2>1. Catalog!Next \/ UNCHANGED catalogVars
    BY DEF NextSession, CreateTable, Writes, Reopens, Reads, Catalog!Next
  <2> QED BY <2>1, StepsKeepSchema DEF SessionSafe
<1>2. CASE UNCHANGED vars /\ (Catalog!Encode \/ UNCHANGED catalogVars)
  <2>1. UNCHANGED <<caller, schema, values, phase, i, header, variable, offset, bytes, pos, decoded>>
    BY <1>2 DEF vars, tuple
  <2>2. attributes' = attributes /\ (stage' = "Open" <=> stage = "Open")
    BY <1>2 DEF catalogVars, Catalog!Encode, Catalog!ColumnRefused, Catalog!EncodeStarts,
                Catalog!EncodeColumn, Catalog!EncodeEntry, Catalog!EntryRefused, Catalog!Encoded,
                Catalog!table
  <2>3. SessionInv'
    BY <2>1, <2>2 DEF SessionSafe, SessionInv, TypesOf
  <2> QED BY <1>1, <2>1, <2>3, StillKeepsTuple DEF SessionSafe
<1>3. CASE (Writes \/ Reads)
  <2>1. TupleInv'
    BY <1>3, StepsKeepTuple DEF SessionSafe, Writes, Reads
  <2>2. UNCHANGED <<attributes, stage>> /\ schema' = schema
    <3>1. Next /\ UNCHANGED catalogVars
      BY <1>3 DEF Writes, Reads
    <3>2. schema' = schema
      BY <3>1 DEF Next, Rejects, CheckFails, Checked, SerializeStarts, SerializeFixed,
                  SerializeVariable, SerializeNull, RecordTooLarge, SerializeEnds,
                  DeserializeNull, DeserializeValue, Pushed, DeserializeEnds, tuple
    <3> QED BY <3>1, <3>2 DEF catalogVars
  <2>3. phase' = "Deserialize" /\ stage' # "Open" => i' = 1
    <3>1. CASE Reads
      BY <2>2, <3>1 DEF Reads
    <3>2. CASE Writes /\ phase' = "Deserialize"
      <4>1. phase # "Deserialize" /\ Next
        BY <3>2 DEF Writes
      <4>2. SerializeEnds
        BY <3>2, <4>1 DEF Next, Rejects, CheckFails, Checked, SerializeStarts, SerializeFixed,
                  SerializeVariable, SerializeNull, RecordTooLarge, Serializing, Serialized,
                  DeserializeNull, DeserializeValue, Deserializing, DeserializeEnds
      <4> QED BY <4>2 DEF SerializeEnds
    <3> QED BY <1>3, <3>1, <3>2
  <2>4. SessionInv'
    BY <2>2, <2>3 DEF SessionSafe, SessionInv, TypesOf
  <2> QED BY <1>1, <2>1, <2>4 DEF SessionSafe
<1>4. CASE Reopens
  BY <1>1, <1>4, ReopensKeepsTuple DEF SessionSafe
<1> QED BY <1>2, <1>3, <1>4 DEF NextSession, CreateTable, vars, catalogVars

\* The inductive invariant of a table's columns, a record and its reader.
THEOREM SessionsAreSafe == Sessions => []SessionSafe
<1>1. OpensNew => SessionSafe
  <2> SUFFICES ASSUME OpensNew PROVE SessionSafe
    OBVIOUS
  <2>1. Catalog!Init /\ schema = TypesOf(attributes) /\ Init
    BY DEF OpensNew
  <2>2. phase = "Check"
    BY <2>1 DEF Init
  <2> QED BY <2>1, <2>2, InitSchema, InitTuple DEF SessionSafe, SessionInv
<1>2. SessionSafe /\ [NextSession]_<<vars, catalogVars>> => SessionSafe'
  BY SessionStep
<1> QED BY <1>1, <1>2, PTL DEF Sessions

\* The types of TupleCodec.
LEMMA SafeIsWellTyped == SessionSafe => TypeOK
<1> SUFFICES ASSUME SessionSafe PROVE TypeOK
  OBVIOUS
<1>1. TupleTypes
  BY DEF SessionSafe, TupleInv
<1>2. ASSUME NEW k \in DOMAIN decoded, decoded[k] # Null
      PROVE  /\ decoded[k].type = schema[k]
             /\ IF IsVariable(schema[k]) THEN decoded[k].v \in Seq(UInt(1))
                                         ELSE decoded[k].v \in UInt(4)
  <2>1. phase \in {"Deserialize", "Done"}
    <3>1. decoded # <<>>
      BY <1>2
    <3> QED BY <3>1 DEF SessionSafe, TupleInv, ReadSoFar
  <2>2. k \in 1 .. i - 1
    <3>1. DOMAIN decoded = 1 .. Len(decoded)
      BY <1>1, LenProperties DEF TupleTypes
    <3> QED BY <2>1, <3>1 DEF SessionSafe, TupleInv, ReadSoFar
  <2>3. decoded[k] \in ReadOf(schema[k])
    BY <1>2, <2>1, <2>2 DEF SessionSafe, TupleInv, ReadSoFar
  <2> QED BY <2>3 DEF ReadOf
<1> QED BY <1>1, <1>2 DEF TypeOK, TupleTypes

\* No read leaves the record, and what is read is the tuple.
LEMMA SafeRoundTrips == SessionSafe => RoundTrips
<1> SUFFICES ASSUME SessionSafe PROVE RoundTrips
  OBVIOUS
<1>1. ASSUME Deserializing
      PROVE  is_value_null(i - 1) \/ Readable(pos, schema[i])
  <2>1. phase = "Deserialize" /\ i <= Len(schema)
    BY <1>1 DEF Deserializing
  <2>2. TupleTypes /\ Fits /\ WholeRecord /\ pos = attr_pos(i - 1)
    BY <2>1 DEF SessionSafe, TupleInv, TupleFits, WrittenSoFar, ReadSoFar
  <2>3. i \in 1 .. Len(schema)
    BY <2>1, <2>2, Positions DEF TupleTypes
  <2>4. is_value_null(i - 1) <=> values[i] = Null
    BY <2>2, <2>3, NullsSeen
  <2>5. values[i] # Null => Readable(pos, schema[i])
    BY <2>2, <2>3, ValueRead
  <2> QED BY <2>4, <2>5
<1>2. ASSUME phase \in {"Deserialize", "Done"}, caller = "Insert" \/ OffsetsAreRight
      PROVE  IsPrefix(decoded, values) /\ (phase = "Done" => decoded = values)
  <2>1. TupleTypes /\ Fits /\ (caller = "Insert" => Len(bytes) <= MaxRecord)
    BY <1>2 DEF SessionSafe, TupleInv, TupleFits, WrittenSoFar
  <2>2. OffsetsAreRight
    BY <1>2, <2>1, StoredOffsetsAreRight
  <2>3. /\ Len(decoded) = i - 1 /\ i - 1 <= Len(schema)
        /\ \A k \in 1 .. i - 1 : decoded[k] = values[k]
        /\ phase = "Done" => i - 1 = Len(schema)
    BY <1>2, <2>2 DEF SessionSafe, TupleInv, ReadSoFar
  <2> DEFINE S == Value \cup Readables
             s == decoded
             t == values
  <2>4. s \in Seq(S) /\ t \in Seq(S)
    <3>1. decoded \in Seq(Readables) /\ values \in Seq(Value)
      BY <2>1 DEF TupleTypes
    <3>2. Readables \subseteq S /\ Value \subseteq S
      OBVIOUS
    <3> QED BY <3>1, <3>2, SeqMonotonic
  <2>5. /\ Len(s) <= Len(t) /\ \A k \in 1 .. Len(s) : s[k] = t[k]
        /\ phase = "Done" => Len(s) = Len(t)
    BY <2>1, <2>3 DEF Fits
  <2> HIDE DEF s, t, S
  <2>6. IsPrefix(s, t)
    BY <2>4, <2>5, PrefixByElements
  <2>7. phase = "Done" => s = t
    BY <2>4, <2>5, SeqEqual
  <2> QED BY <2>6, <2>7 DEF s, t
<1> QED BY <1>1, <1>2 DEF RoundTrips

\* get_attr finds what deserialize finds.
LEMMA SafeAttrsAgree == SessionSafe => AttrsAgree
<1> SUFFICES ASSUME SessionSafe, phase = "Deserialize", caller = "Insert",
                    NEW idx \in 0 .. Len(schema) - 1
             PROVE  /\ Readable(attr_pos(idx), schema[idx + 1])
                    /\ ValueAt(attr_pos(idx), schema[idx + 1]) = values[idx + 1]
  BY DEF AttrsAgree
<1>1. TupleTypes /\ Fits /\ WholeRecord /\ Len(bytes) <= MaxRecord
  BY DEF SessionSafe, TupleInv, TupleFits, WrittenSoFar
<1>2. OffsetsAreRight
  BY <1>1, StoredOffsetsAreRight
<1> DEFINE k == idx + 1
<1>3. k \in 1 .. Len(schema) /\ k - 1 = idx
  <2>1. Len(schema) \in Nat
    BY <1>1, Positions
  <2> QED BY <2>1
<1> HIDE DEF k
<1>4. values[k] # Null
  BY <1>1, <1>3, ValueFits
<1>5. /\ Readable(attr_pos(k - 1), schema[k])
      /\ ValueAt(attr_pos(k - 1), schema[k]) = values[k]
  BY <1>1, <1>2, <1>3, <1>4, ValueRead
<1> QED BY <1>3, <1>5 DEF k

\* The variables of both loops stay well typed; a byte is a byte.
THEOREM TuplesAreWellTyped == Sessions => []TypeOK
BY SessionsAreSafe, SafeIsWellTyped, PTL

\* A record gives back the tuple it was made of, for any columns and values:
\* every record a statement stores, and any other whose offsets are right.  No
\* record makes deserialize panic (Tuple::serialize, Tuple::deserialize).
THEOREM TuplesRoundTrip == Sessions => []RoundTrips
BY SessionsAreSafe, SafeRoundTrips, PTL

\* A filter and a projection see in a stored record what SELECT * sees, in every
\* column (TupleRef::get_attr).
THEOREM FiltersSeeTheTuple == Sessions => []AttrsAgree
BY SessionsAreSafe, SafeAttrsAgree, PTL
=============================================================================
