----------------------------- MODULE SpeechProofs -----------------------------
(***************************************************************************)
(* What becomes of the words of a voice note, for texts of any length.     *)
(***************************************************************************)
EXTENDS MCTurn, WellFoundedInduction, TLAPS

-----------------------------------------------------------------------------
(* Induction.  A set of numbers stands for what is proved of them.         *)

LEMMA NatSets ==
  ASSUME NEW T \in SUBSET Nat, 0 \in T, \A n \in T : n + 1 \in T
  PROVE  T = Nat
<1> DEFINE U == Nat \ T
           less == {p \in Nat \X Nat : p[1] < p[2]}
<1>1. IsWellFoundedOn(less, Nat)
  BY NatLessThanWellFounded DEF OpToRel
<1>2. ASSUME U # {} PROVE FALSE
  <2>1. \E n \in U : \A m \in U : <<m, n>> \notin less
    <3> HIDE DEF less
    <3>1. U \subseteq Nat
      OBVIOUS
    <3> HIDE DEF U
    <3> QED
      BY <1>1, <1>2, <3>1, WFMin
  <2>2. PICK n \in U : \A m \in U : ~(m < n)
    BY <2>1
  <2>3. n - 1 \in Nat /\ n - 1 < n
    BY <2>2
  <2>4. n - 1 \in T
    BY <2>2, <2>3
  <2> QED
    BY <2>2, <2>3, <2>4
<1> QED
  BY <1>2

LEMMA UpToSets ==
  ASSUME NEW n \in Nat, NEW T, 0 \in T, \A i \in 0..n : i \in T /\ i < n => i + 1 \in T
  PROVE  \A i \in 0..n : i \in T
<1> DEFINE V == {i \in Nat : i <= n => i \in T}
<1>1. 0 \in V
  OBVIOUS
<1>2. \A i \in V : i + 1 \in V
  OBVIOUS
<1>3. V = Nat
  <2> HIDE DEF V
  <2> QED
    BY <1>1, <1>2, NatSets DEF V
<1> QED
  BY <1>3

-----------------------------------------------------------------------------
(* The words of a voice note, and what the passes may leave of them.       *)

Plain == Noise \cup {"noun", "variant", "loan", "the", "a", "comma"}

Words == (Plain \X {0} \X {0}) \cup ({"marker", "form", "longer", "mangled"} \X Nat \X Nat)

Remains == Words \cup ({"gone"} \X {0} \X {0})

-----------------------------------------------------------------------------
(* Leaving words out.                                                      *)

Steps(f, text, positions) ==
  f = [i \in 0..Len(text) |->
         IF i = 0 THEN <<>>
         ELSE IF i \in positions THEN f[i - 1] ELSE Append(f[i - 1], text[i])]

\* What is left of the first words of a text.
Kept(text, positions) == CHOOSE f : Steps(f, text, positions)

LEMMA KeptExists ==
  ASSUME NEW text \in Seq(Remains), NEW P
  PROVE  Steps(Kept(text, P), text, P)
<1> DEFINE Def(f, n) ==
      f = [i \in 0..n |-> IF i = 0 THEN <<>>
                          ELSE IF i \in P THEN f[i - 1] ELSE Append(f[i - 1], text[i])]
           T == {n \in Nat : \E f : Def(f, n)}
<1>1. 0 \in T
  <2>1. Def([i \in 0..0 |-> <<>>], 0)
    OBVIOUS
  <2> QED
    BY <2>1
<1>2. ASSUME NEW n \in T PROVE n + 1 \in T
  <2>1. PICK f : Def(f, n)
    BY <1>2
  <2> DEFINE new == IF n + 1 \in P THEN f[n] ELSE Append(f[n], text[n + 1])
             g == [i \in 0..(n + 1) |-> IF i = n + 1 THEN new ELSE f[i]]
  <2> HIDE DEF new
  <2>2. g = [i \in 0..(n + 1) |-> IF i = 0 THEN <<>>
                ELSE IF i \in P THEN g[i - 1] ELSE Append(g[i - 1], text[i])]
    <3> SUFFICES ASSUME NEW i \in 0..(n + 1)
                 PROVE  g[i] = IF i = 0 THEN <<>>
                          ELSE IF i \in P THEN g[i - 1] ELSE Append(g[i - 1], text[i])
      OBVIOUS
    <3>1. CASE i = n + 1
      <4>1. i # 0 /\ i - 1 = n /\ i - 1 \in 0..(n + 1) /\ i - 1 # n + 1
        BY <3>1
      <4>2. g[i] = new /\ g[i - 1] = f[n]
        BY <3>1, <4>1
      <4> QED
        BY <3>1, <4>1, <4>2 DEF new
    <3>2. CASE i # n + 1
      <4>1. i \in 0..n /\ (i # 0 => i - 1 \in 0..n /\ i - 1 # n + 1)
        BY <3>2
      <4>2. f[i] = IF i = 0 THEN <<>>
                   ELSE IF i \in P THEN f[i - 1] ELSE Append(f[i - 1], text[i])
        BY <2>1, <4>1
      <4>3. g[i] = f[i] /\ (i # 0 => g[i - 1] = f[i - 1])
        BY <3>2, <4>1
      <4> QED
        BY <4>2, <4>3
    <3> QED
      BY <3>1, <3>2
  <2>3. \E f2 : Def(f2, n + 1)
    <3>1. Def(g, n + 1)
      BY <2>2
    <3> HIDE DEF g
    <3> QED
      BY <3>1
  <2>4. n + 1 \in Nat
    OBVIOUS
  <2> HIDE DEF Def
  <2> QED
    BY <2>3, <2>4
<1>3. T = Nat
  <2> HIDE DEF T
  <2> QED
    BY <1>1, <1>2, NatSets DEF T
<1>4. \E f : Steps(f, text, P)
  <2>0. Len(text) \in Nat
    OBVIOUS
  <2>1. Len(text) \in T
    <3> HIDE DEF T
    <3> QED
      BY <1>3, <2>0
  <2> QED
    BY <2>1 DEF Steps
<1> QED
  BY <1>4 DEF Kept

LEMMA OmitIsKept ==
  ASSUME NEW text, NEW P
  PROVE  Omit(text, P) = Kept(text, P)[Len(text)]
BY DEF Omit, Kept, Steps

LEMMA KeptSteps ==
  ASSUME NEW text \in Seq(Remains), NEW P
  PROVE  /\ Kept(text, P)[0] = <<>>
         /\ \A i \in 1..Len(text) :
              /\ i \in P => Kept(text, P)[i] = Kept(text, P)[i - 1]
              /\ i \notin P => Kept(text, P)[i] = Append(Kept(text, P)[i - 1], text[i])
<1> DEFINE f == Kept(text, P)
<1>1. f = [i \in 0..Len(text) |->
             IF i = 0 THEN <<>>
             ELSE IF i \in P THEN f[i - 1] ELSE Append(f[i - 1], text[i])]
  BY KeptExists DEF Steps
<1> HIDE DEF f
<1>2. Len(text) \in Nat
  OBVIOUS
<1>3. f[0] = <<>>
  BY <1>1, <1>2
<1>4. ASSUME NEW i \in 1..Len(text)
      PROVE  /\ i \in P => f[i] = f[i - 1]
             /\ i \notin P => f[i] = Append(f[i - 1], text[i])
  <2>1. i \in 0..Len(text) /\ i # 0
    BY <1>2
  <2> HIDE DEF f
  <2>2. f[i] = IF i = 0 THEN <<>>
               ELSE IF i \in P THEN f[i - 1] ELSE Append(f[i - 1], text[i])
    BY <1>1, <2>1
  <2> QED
    BY <2>1, <2>2
<1> QED
  BY <1>3, <1>4 DEF f

\* The positions of a set in their order.
Enumerates(h, K) ==
  /\ h \in Seq(K)
  /\ \A i, j \in 1..Len(h) : i < j => h[i] < h[j]
  /\ \A k \in K : \E i \in 1..Len(h) : h[i] = k

Picked(text, h) == [j \in 1..Len(h) |-> text[h[j]]]

LEMMA KeptPositions ==
  ASSUME NEW text \in Seq(Remains), NEW P
  PROVE  \A i \in 0..Len(text) :
           \E h : Enumerates(h, (1..i) \ P) /\ Kept(text, P)[i] = Picked(text, h)
<1> DEFINE At(i, h) == Enumerates(h, (1..i) \ P) /\ Kept(text, P)[i] = Picked(text, h)
           T == {i \in 0..Len(text) : \E h : At(i, h)}
<1>0. Len(text) \in Nat
  OBVIOUS
<1>1. 0 \in T
  <2>1. Enumerates(<<>>, (1..0) \ P)
    BY DEF Enumerates
  <2>2. Picked(text, <<>>) = <<>>
    BY DEF Picked
  <2>3. Kept(text, P)[0] = <<>>
    BY KeptSteps
  <2> QED
    BY <1>0, <2>1, <2>2, <2>3
<1>2. ASSUME NEW i \in 0..Len(text), i \in T, i < Len(text) PROVE i + 1 \in T
  <2>1. PICK h : At(i, h)
    BY <1>2
  <2>0. i + 1 \in 1..Len(text) /\ (i + 1) - 1 = i /\ i \in Nat
    BY <1>0, <1>2
  <2>2. CASE i + 1 \in P
    <3>1. (1..(i + 1)) \ P = (1..i) \ P
      BY <2>0, <2>2
    <3>2. Kept(text, P)[i + 1] = Kept(text, P)[i]
      BY <2>0, <2>2, KeptSteps
    <3>3. At(i + 1, h)
      BY <2>1, <3>1, <3>2
    <3> QED
      BY <2>0, <3>3
  <2>3. CASE i + 1 \notin P
    <3> DEFINE K == (1..i) \ P
               L == (1..(i + 1)) \ P
               g == Append(h, i + 1)
    <3>1. L = K \cup {i + 1} /\ \A k \in K : k \in Int /\ k < i + 1
      BY <2>0, <2>3
    <3>2. Kept(text, P)[i + 1] = Append(Picked(text, h), text[i + 1])
      <4>1. \A a \in 1..Len(text) : a \notin P =>
              Kept(text, P)[a] = Append(Kept(text, P)[a - 1], text[a])
        BY KeptSteps
      <4>2. Kept(text, P)[i + 1] = Append(Kept(text, P)[(i + 1) - 1], text[i + 1])
        BY <2>0, <2>3, <4>1
      <4> HIDE DEF T
      <4> QED
        BY <2>0, <2>1, <4>2
    <3>3. h \in Seq(K) /\ (\A a, b \in 1..Len(h) : a < b => h[a] < h[b])
          /\ \A k \in K : \E a \in 1..Len(h) : h[a] = k
      BY <2>1 DEF Enumerates
    <3> HIDE DEF K, L
    <3>4. h \in Seq(L)
      BY <3>1, <3>3
    <3>5. /\ g \in Seq(L) /\ Len(h) \in Nat /\ Len(g) = Len(h) + 1
          /\ g[Len(h) + 1] = i + 1 /\ \A a \in 1..Len(h) : g[a] = h[a] /\ h[a] \in K
      BY <3>1, <3>3, <3>4
    <3> HIDE DEF g
    <3>6. \A a, b \in 1..Len(g) : a < b => g[a] < g[b]
      <4> SUFFICES ASSUME NEW a \in 1..Len(g), NEW b \in 1..Len(g), a < b PROVE g[a] < g[b]
        OBVIOUS
      <4>1. a \in 1..Len(h)
        BY <3>5
      <4>2. CASE b \in 1..Len(h)
        BY <3>3, <3>5, <4>1, <4>2
      <4>3. CASE b = Len(h) + 1
        BY <3>1, <3>5, <4>1, <4>3
      <4> QED
        BY <3>5, <4>2, <4>3
    <3>7. \A k \in L : \E a \in 1..Len(g) : g[a] = k
      <4> SUFFICES ASSUME NEW k \in L PROVE \E a \in 1..Len(g) : g[a] = k
        OBVIOUS
      <4>1. CASE k = i + 1
        <5>1. Len(h) + 1 \in 1..Len(g)
          BY <3>5
        <5> QED
          BY <3>5, <4>1, <5>1
      <4>2. CASE k \in K
        <5>1. PICK a \in 1..Len(h) : h[a] = k
          BY <3>3, <4>2
        <5>2. a \in 1..Len(g) /\ g[a] = k
          BY <3>5, <5>1
        <5> QED
          BY <5>2
      <4> QED
        BY <3>1, <4>1, <4>2
    <3>8. Picked(text, g) = Append(Picked(text, h), text[i + 1])
      <4>1. Picked(text, h) \in Seq({text[a] : a \in K}) /\ Len(Picked(text, h)) = Len(h)
            /\ \A a \in 1..Len(h) : Picked(text, h)[a] = text[h[a]]
        BY <3>5 DEF Picked
      <4>2. Append(Picked(text, h), text[i + 1]) =
              [a \in 1..(Len(h) + 1) |->
                 IF a = Len(h) + 1 THEN text[i + 1] ELSE Picked(text, h)[a]]
        BY <3>5, <4>1
      <4>3. \A a \in 1..(Len(h) + 1) :
              text[g[a]] = IF a = Len(h) + 1 THEN text[i + 1] ELSE Picked(text, h)[a]
        BY <3>5, <4>1
      <4> QED
        BY <3>5, <4>2, <4>3 DEF Picked
    <3>9. At(i + 1, g)
      BY <3>2, <3>5, <3>6, <3>7, <3>8 DEF Enumerates, L
    <3> QED
      BY <2>0, <3>9
  <2> QED
    BY <2>2, <2>3
<1>3. \A i \in 0..Len(text) : i \in T
  <2> HIDE DEF T
  <2> QED
    BY <1>0, <1>1, <1>2, UpToSets
<1> QED
  BY <1>3

\* A text without some of its words is made of the others, in their order.
LEMMA OmitPositions ==
  ASSUME NEW text \in Seq(Remains), NEW P
  PROVE  \E h : Enumerates(h, DOMAIN text \ P) /\ Omit(text, P) = Picked(text, h)
<1>1. DOMAIN text = 1..Len(text) /\ Len(text) \in 0..Len(text)
  OBVIOUS
<1> QED
  BY <1>1, KeptPositions, OmitIsKept

LEMMA OneEnumeration ==
  ASSUME NEW K \in SUBSET Int, NEW h, NEW k, Enumerates(h, K), Enumerates(k, K)
  PROVE  h = k
<1>1. ASSUME NEW f, NEW g, Enumerates(f, K), Enumerates(g, K)
      PROVE  Len(f) <= Len(g) /\ \A j \in 1..Len(f) : f[j] = g[j]
  <2> DEFINE T == {i \in Nat : i <= Len(g) /\ \A j \in 1..i : f[j] = g[j]}
  <2>1. /\ Len(f) \in Nat /\ Len(g) \in Nat
        /\ \A j \in 1..Len(f) : f[j] \in K /\ f[j] \in Int
        /\ \A j \in 1..Len(g) : g[j] \in K /\ g[j] \in Int
    <3>1. f \in Seq(K) /\ g \in Seq(K)
      BY <1>1 DEF Enumerates
    <3>2. \A x \in K : x \in Int
      OBVIOUS
    <3>3. Len(f) \in Nat /\ Len(g) \in Nat
      BY <3>1
    <3>4. \A j \in 1..Len(f) : f[j] \in K
      BY <3>1
    <3>5. \A j \in 1..Len(g) : g[j] \in K
      BY <3>1
    <3> QED
      BY <3>2, <3>3, <3>4, <3>5
  <2>2. 0 \in T
    BY <2>1
  <2>3. ASSUME NEW i \in 0..Len(f), i \in T, i < Len(f) PROVE i + 1 \in T
    <3>0. i + 1 \in 1..Len(f) /\ i <= Len(g) /\ \A j \in 1..i : f[j] = g[j]
      BY <2>1, <2>3
    <3>1. PICK j \in 1..Len(g) : g[j] = f[i + 1]
      BY <1>1, <2>1, <3>0 DEF Enumerates
    <3>2. j > i
      <4> SUFFICES ASSUME j <= i PROVE FALSE
        BY <3>0, <3>1
      <4>1. j \in 1..i /\ j \in 1..Len(f) /\ j < i + 1
        BY <2>1, <3>0, <3>1
      <4>2. f[j] = f[i + 1]
        BY <3>0, <3>1, <4>1
      <4>3. f[j] < f[i + 1]
        BY <1>1, <3>0, <4>1 DEF Enumerates
      <4>4. f[j] \in Int
        BY <2>1, <4>1
      <4> QED
        BY <4>2, <4>3, <4>4
    <3>3. i + 1 \in 1..Len(g)
      BY <2>1, <3>0, <3>1, <3>2
    <3>4. g[i + 1] <= f[i + 1]
      <4>1. i + 1 = j \/ i + 1 < j
        BY <3>0, <3>1, <3>2
      <4>2. g[i + 1] = g[j] \/ g[i + 1] < g[j]
        BY <1>1, <3>1, <3>3, <4>1 DEF Enumerates
      <4> QED
        BY <2>1, <3>0, <3>1, <3>3, <4>2
    <3>5. PICK m \in 1..Len(f) : f[m] = g[i + 1]
      BY <1>1, <2>1, <3>3 DEF Enumerates
    <3>6. m > i
      <4> SUFFICES ASSUME m <= i PROVE FALSE
        BY <3>0, <3>5
      <4>1. m \in 1..i /\ m \in 1..Len(g) /\ m < i + 1
        BY <2>1, <3>0, <3>5
      <4>2. g[m] = g[i + 1]
        BY <3>0, <3>5, <4>1
      <4>3. g[m] < g[i + 1]
        BY <1>1, <3>3, <4>1 DEF Enumerates
      <4>4. g[m] \in Int
        BY <2>1, <4>1
      <4> QED
        BY <4>2, <4>3, <4>4
    <3>7. f[i + 1] <= g[i + 1]
      <4>1. i + 1 = m \/ i + 1 < m
        BY <3>0, <3>5, <3>6
      <4>2. f[i + 1] = f[m] \/ f[i + 1] < f[m]
        BY <1>1, <3>0, <3>5, <4>1 DEF Enumerates
      <4> QED
        BY <2>1, <3>0, <3>3, <3>5, <4>2
    <3>8. f[i + 1] = g[i + 1]
      BY <2>1, <3>0, <3>3, <3>4, <3>7
    <3>9. \A a \in 1..(i + 1) : f[a] = g[a]
      BY <3>0, <3>8
    <3> QED
      BY <3>3, <3>9
  <2>4. \A i \in 0..Len(f) : i \in T
    <3> HIDE DEF T
    <3> QED
      BY <2>1, <2>2, <2>3, UpToSets
  <2>5. Len(f) \in 0..Len(f)
    BY <2>1
  <2> QED
    BY <2>1, <2>4, <2>5
<1>2. Len(h) <= Len(k) /\ \A j \in 1..Len(h) : h[j] = k[j]
  BY <1>1
<1>3. Len(k) <= Len(h)
  BY <1>1
<1>4. h \in Seq(K) /\ k \in Seq(K)
  BY DEF Enumerates
<1>5. Len(h) = Len(k)
  BY <1>2, <1>3, <1>4
<1> QED
  BY <1>2, <1>4, <1>5

LEMMA Positions ==
  ASSUME NEW text \in Seq(Remains), NEW P, NEW h, Enumerates(h, DOMAIN text \ P)
  PROVE  /\ Len(h) \in Nat /\ Len(text) \in Nat /\ DOMAIN text = 1..Len(text)
         /\ \A j \in 1..Len(h) : h[j] \in DOMAIN text /\ h[j] \notin P /\ h[j] \in Int
         /\ h \in Seq(DOMAIN text)
<1>1. DOMAIN text = 1..Len(text) /\ Len(text) \in Nat
  OBVIOUS
<1>2. h \in Seq(DOMAIN text \ P)
  BY DEF Enumerates
<1>3. Len(h) \in Nat /\ \A j \in 1..Len(h) : h[j] \in DOMAIN text \ P
  BY <1>2
<1>4. \A j \in 1..Len(h) : h[j] \in DOMAIN text /\ h[j] \notin P /\ h[j] \in Int
  BY <1>1, <1>3
<1>5. h \in Seq(DOMAIN text)
  BY <1>2
<1> QED
  BY <1>1, <1>3, <1>4, <1>5

LEMMA PickedIn ==
  ASSUME NEW text \in Seq(Remains), NEW h \in Seq(DOMAIN text)
  PROVE  /\ Picked(text, h) \in Seq(Remains) /\ Len(Picked(text, h)) = Len(h)
         /\ DOMAIN Picked(text, h) = 1..Len(h)
         /\ \A j \in 1..Len(h) : Picked(text, h)[j] = text[h[j]]
<1>1. /\ Len(h) \in Nat
      /\ \A j \in 1..Len(h) : text[h[j]] \in Remains
  <2>1. Len(h) \in Nat /\ \A j \in 1..Len(h) : h[j] \in DOMAIN text
    OBVIOUS
  <2>2. \A i \in DOMAIN text : text[i] \in Remains
    OBVIOUS
  <2> QED
    BY <2>1, <2>2
<1>2. Picked(text, h) \in [1..Len(h) -> Remains]
  BY <1>1 DEF Picked
<1>3. Picked(text, h) \in Seq(Remains) /\ Len(Picked(text, h)) = Len(h)
  <2>1. Len(h) \in Nat
    OBVIOUS
  <2>2. \A s \in [1..Len(h) -> Remains] : s \in Seq(Remains) /\ Len(s) = Len(h)
    BY <2>1, SMTT(30)
  <2> QED
    BY <1>2, <2>2
<1> QED
  BY <1>2, <1>3 DEF Picked

\* The same words are left when the same words are left out.
LEMMA OmitSame ==
  ASSUME NEW text \in Seq(Remains), NEW P, NEW Q, DOMAIN text \ P = DOMAIN text \ Q
  PROVE  Omit(text, P) = Omit(text, Q)
<1>1. PICK h : Enumerates(h, DOMAIN text \ P) /\ Omit(text, P) = Picked(text, h)
  BY OmitPositions
<1>2. PICK k : Enumerates(k, DOMAIN text \ Q) /\ Omit(text, Q) = Picked(text, k)
  BY OmitPositions
<1>3. DOMAIN text \ P \in SUBSET Int
  <2>1. DOMAIN text = 1..Len(text) /\ Len(text) \in Nat
    OBVIOUS
  <2> QED
    BY <2>1
<1>4. h = k
  BY <1>1, <1>2, <1>3, OneEnumeration
<1> QED
  BY <1>1, <1>2, <1>4

LEMMA OmitNone ==
  ASSUME NEW text \in Seq(Remains), NEW P, \A i \in DOMAIN text : i \notin P
  PROVE  Omit(text, P) = text
<1>1. PICK h : Enumerates(h, DOMAIN text \ P) /\ Omit(text, P) = Picked(text, h)
  BY OmitPositions
<1> DEFINE k == [i \in 1..Len(text) |-> i]
<1>2. DOMAIN text = 1..Len(text) /\ Len(text) \in Nat /\ DOMAIN text \ P = DOMAIN text
  OBVIOUS
<1>3. k \in Seq(DOMAIN text \ P) /\ Len(k) = Len(text) /\ \A i \in 1..Len(text) : k[i] = i
  BY <1>2
<1> HIDE DEF k
<1>4. Enumerates(k, DOMAIN text \ P)
  <2>1. \A i, j \in 1..Len(k) : i < j => k[i] < k[j]
    BY <1>3
  <2>2. \A i \in DOMAIN text \ P : \E j \in 1..Len(k) : k[j] = i
    BY <1>2, <1>3
  <2> QED
    BY <1>3, <2>1, <2>2 DEF Enumerates
<1>5. DOMAIN text \ P \in SUBSET Int
  BY <1>2
<1>6. h = k
  BY <1>1, <1>4, <1>5, OneEnumeration
<1>7. Picked(text, k) = [j \in 1..Len(text) |-> text[j]]
  BY <1>3 DEF Picked
<1> QED
  BY <1>1, <1>2, <1>6, <1>7

\* The words left are words of the text, and none of those left out.
LEMMA OmitIn ==
  ASSUME NEW text \in Seq(Remains), NEW P
  PROVE  /\ Omit(text, P) \in Seq(Remains)
         /\ \A j \in DOMAIN Omit(text, P) :
              \E i \in DOMAIN text \ P : Omit(text, P)[j] = text[i]
<1>1. PICK h : Enumerates(h, DOMAIN text \ P) /\ Omit(text, P) = Picked(text, h)
  BY OmitPositions
<1> DEFINE out == Picked(text, h)
<1>2. out \in Seq(Remains) /\ DOMAIN out = 1..Len(h) /\ \A j \in 1..Len(h) : out[j] = text[h[j]]
  <2>1. h \in Seq(DOMAIN text)
    BY <1>1, Positions
  <2> QED
    BY <2>1, PickedIn
<1>3. \A j \in 1..Len(h) : h[j] \in DOMAIN text \ P
  BY <1>1, Positions
<1> HIDE DEF out
<1>4. Omit(text, P) = out
  BY <1>1 DEF out
<1> QED
  BY <1>2, <1>3, <1>4

\* Two words side by side had nothing but words left out between them.
Parted(text, P) ==
  \A i \in 1..(Len(Omit(text, P)) - 1) :
    \E p, q \in DOMAIN text \ P :
      /\ p < q /\ \A r \in (p + 1)..(q - 1) : r \in P
      /\ Omit(text, P)[i] = text[p] /\ Omit(text, P)[i + 1] = text[q]

LEMMA Neighbours ==
  ASSUME NEW text \in Seq(Remains), NEW P
  PROVE  Parted(text, P)
<1> SUFFICES ASSUME NEW i \in 1..(Len(Omit(text, P)) - 1)
             PROVE  \E p, q \in DOMAIN text \ P :
                      /\ p < q /\ \A r \in (p + 1)..(q - 1) : r \in P
                      /\ Omit(text, P)[i] = text[p] /\ Omit(text, P)[i + 1] = text[q]
  BY DEF Parted
<1>1. PICK h : Enumerates(h, DOMAIN text \ P) /\ Omit(text, P) = Picked(text, h)
  BY OmitPositions
<1>2. /\ Len(h) \in Nat /\ Len(text) \in Nat /\ DOMAIN text = 1..Len(text)
      /\ \A j \in 1..Len(h) : h[j] \in DOMAIN text /\ h[j] \notin P /\ h[j] \in Int
  BY <1>1, Positions
<1>3. /\ Len(Omit(text, P)) = Len(h)
      /\ \A j \in 1..Len(h) : Omit(text, P)[j] = text[h[j]]
  <2>1. /\ Len(Picked(text, h)) = Len(h)
        /\ \A j \in 1..Len(h) : Picked(text, h)[j] = text[h[j]]
    <3>1. h \in Seq(DOMAIN text)
      BY <1>1, Positions
    <3> QED
      BY <3>1, PickedIn
  <2> QED
    BY <1>1, <2>1
<1>4. i \in 1..Len(h) /\ i + 1 \in 1..Len(h) /\ i < i + 1 /\ i \in Int
  BY <1>2, <1>3
<1>5. h[i] < h[i + 1]
  BY <1>1, <1>4 DEF Enumerates
<1>6. ASSUME NEW r \in (h[i] + 1)..(h[i + 1] - 1), r \notin P PROVE FALSE
  <2>1. r \in DOMAIN text /\ r \in Int /\ h[i] < r /\ r < h[i + 1]
    BY <1>2, <1>4, <1>6
  <2>2. PICK j \in 1..Len(h) : h[j] = r
    BY <1>1, <1>6, <2>1 DEF Enumerates
  <2>3. j \in Int /\ (j = i \/ j < i \/ j = i + 1 \/ i + 1 < j)
    BY <1>2, <1>4
  <2>4. /\ j < i => h[j] < h[i]
        /\ i + 1 < j => h[i + 1] < h[j]
    BY <1>1, <1>4 DEF Enumerates
  <2> QED
    BY <1>2, <1>4, <2>1, <2>2, <2>3, <2>4
<1>7. h[i] \in DOMAIN text \ P /\ h[i + 1] \in DOMAIN text \ P
  BY <1>2, <1>4
<1>8. \A r \in (h[i] + 1)..(h[i + 1] - 1) : r \in P
  BY <1>6
<1> QED
  BY <1>3, <1>4, <1>5, <1>7, <1>8

\* And the other way round.
LEMMA Joined ==
  ASSUME NEW text \in Seq(Remains), NEW P
  PROVE  \A p, q \in DOMAIN text \ P :
           p < q /\ (\A r \in (p + 1)..(q - 1) : r \in P) =>
             \E i \in 1..(Len(Omit(text, P)) - 1) :
               Omit(text, P)[i] = text[p] /\ Omit(text, P)[i + 1] = text[q]
<1> SUFFICES ASSUME NEW p \in DOMAIN text \ P, NEW q \in DOMAIN text \ P,
                    p < q, \A r \in (p + 1)..(q - 1) : r \in P
             PROVE  \E i \in 1..(Len(Omit(text, P)) - 1) :
                      Omit(text, P)[i] = text[p] /\ Omit(text, P)[i + 1] = text[q]
  OBVIOUS
<1>1. PICK h : Enumerates(h, DOMAIN text \ P) /\ Omit(text, P) = Picked(text, h)
  BY OmitPositions
<1>2. /\ Len(h) \in Nat /\ Len(text) \in Nat /\ DOMAIN text = 1..Len(text)
      /\ \A j \in 1..Len(h) : h[j] \in DOMAIN text /\ h[j] \notin P /\ h[j] \in Int
  BY <1>1, Positions
<1>3. /\ Len(Omit(text, P)) = Len(h)
      /\ \A j \in 1..Len(h) : Omit(text, P)[j] = text[h[j]]
  <2>1. /\ Len(Picked(text, h)) = Len(h)
        /\ \A j \in 1..Len(h) : Picked(text, h)[j] = text[h[j]]
    <3>1. h \in Seq(DOMAIN text)
      BY <1>1, Positions
    <3> QED
      BY <3>1, PickedIn
  <2> QED
    BY <1>1, <2>1
<1>4. PICK i \in 1..Len(h) : h[i] = p
  BY <1>1 DEF Enumerates
<1>5. PICK j \in 1..Len(h) : h[j] = q
  BY <1>1 DEF Enumerates
<1>6. p \in Int /\ q \in Int /\ i \in Int /\ j \in Int
  BY <1>2
<1>7. i < j
  <2>1. j < i => h[j] < h[i]
    BY <1>1 DEF Enumerates
  <2> QED
    BY <1>4, <1>5, <1>6, <2>1
<1>8. i + 1 \in 1..Len(h) /\ i < i + 1
  BY <1>2, <1>6, <1>7
<1>9. h[i + 1] = q
  <2>1. p < h[i + 1]
    BY <1>1, <1>4, <1>8 DEF Enumerates
  <2>2. h[i + 1] = h[j] \/ h[i + 1] < h[j]
    <3>1. i + 1 = j \/ i + 1 < j
      BY <1>6, <1>7
    <3> QED
      BY <1>1, <1>8, <3>1 DEF Enumerates
  <2>3. h[i + 1] \in Int /\ h[i + 1] \notin P
    BY <1>2, <1>8
  <2> QED
    BY <1>5, <1>6, <2>1, <2>2, <2>3
<1>10. i \in 1..(Len(h) - 1)
  BY <1>2, <1>6, <1>8
<1> QED
  BY <1>3, <1>4, <1>8, <1>9, <1>10

LEMMA Ends ==
  ASSUME NEW text \in Seq(Remains), NEW P, Omit(text, P) # <<>>
  PROVE  LET out == Omit(text, P)
         IN  /\ Len(out) \in Nat \ {0}
             /\ \E p \in DOMAIN text \ P : out[1] = text[p] /\ \A r \in 1..(p - 1) : r \in P
             /\ \E p \in DOMAIN text \ P :
                  out[Len(out)] = text[p] /\ \A r \in (p + 1)..Len(text) : r \in P
<1>1. PICK h : Enumerates(h, DOMAIN text \ P) /\ Omit(text, P) = Picked(text, h)
  BY OmitPositions
<1>2. /\ Len(h) \in Nat /\ Len(text) \in Nat /\ DOMAIN text = 1..Len(text)
      /\ \A j \in 1..Len(h) : h[j] \in DOMAIN text /\ h[j] \notin P /\ h[j] \in Int
  BY <1>1, Positions
<1>3. /\ Len(Omit(text, P)) = Len(h) /\ Omit(text, P) \in Seq(Remains)
      /\ \A j \in 1..Len(h) : Omit(text, P)[j] = text[h[j]]
  <2>1. /\ Len(Picked(text, h)) = Len(h) /\ Picked(text, h) \in Seq(Remains)
        /\ \A j \in 1..Len(h) : Picked(text, h)[j] = text[h[j]]
    <3>1. h \in Seq(DOMAIN text)
      BY <1>1, Positions
    <3> QED
      BY <3>1, PickedIn
  <2> QED
    BY <1>1, <2>1
<1>4. Len(h) \in Nat \ {0}
  BY <1>2, <1>3
<1>5. 1 \in 1..Len(h) /\ Len(h) \in 1..Len(h)
  BY <1>4
<1>6. ASSUME NEW r \in 1..(h[1] - 1), r \notin P PROVE FALSE
  <2>1. r \in DOMAIN text /\ r < h[1]
    BY <1>2, <1>5
  <2>2. PICK j \in 1..Len(h) : h[j] = r
    BY <1>1, <1>6, <2>1 DEF Enumerates
  <2>3. 1 < j => h[1] < h[j]
    BY <1>1, <1>5 DEF Enumerates
  <2> QED
    BY <1>2, <1>5, <2>1, <2>2, <2>3
<1>7. ASSUME NEW r \in (h[Len(h)] + 1)..Len(text), r \notin P PROVE FALSE
  <2>1. r \in DOMAIN text /\ h[Len(h)] < r
    BY <1>2, <1>5
  <2>2. PICK j \in 1..Len(h) : h[j] = r
    BY <1>1, <1>7, <2>1 DEF Enumerates
  <2>3. j < Len(h) => h[j] < h[Len(h)]
    BY <1>1, <1>5 DEF Enumerates
  <2> QED
    BY <1>2, <1>5, <2>1, <2>2, <2>3
<1>8. h[1] \in DOMAIN text \ P /\ h[Len(h)] \in DOMAIN text \ P
  BY <1>2, <1>5
<1>9. (\A r \in 1..(h[1] - 1) : r \in P) /\ \A r \in (h[Len(h)] + 1)..Len(text) : r \in P
  BY <1>6, <1>7
<1> QED
  BY <1>3, <1>4, <1>5, <1>8, <1>9

\* Where the words of a set are.
WordsAt(text, W) == {i \in DOMAIN text : text[i] \in W}

\* Leaving out words twice is leaving them all out once.
LEMMA OmitMore ==
  ASSUME NEW text \in Seq(Remains), NEW P, NEW W
  PROVE  Omit(Omit(text, P), WordsAt(Omit(text, P), W)) = Omit(text, P \cup WordsAt(text, W))
<1> DEFINE out == Omit(text, P)
           L == DOMAIN out \ WordsAt(out, W)
           K == DOMAIN text \ (P \cup WordsAt(text, W))
<1>1. PICK h : Enumerates(h, DOMAIN text \ P) /\ out = Picked(text, h)
  BY OmitPositions
<1>2. /\ Len(h) \in Nat /\ Len(text) \in Nat /\ DOMAIN text = 1..Len(text)
      /\ \A j \in 1..Len(h) : h[j] \in DOMAIN text /\ h[j] \notin P /\ h[j] \in Int
      /\ h \in Seq(DOMAIN text)
  BY <1>1, Positions
<1>3. /\ out \in Seq(Remains) /\ DOMAIN out = 1..Len(h) /\ Len(out) = Len(h)
      /\ \A j \in 1..Len(h) : out[j] = text[h[j]]
  <2>1. /\ Picked(text, h) \in Seq(Remains) /\ DOMAIN Picked(text, h) = 1..Len(h)
        /\ Len(Picked(text, h)) = Len(h)
        /\ \A j \in 1..Len(h) : Picked(text, h)[j] = text[h[j]]
    BY <1>2, PickedIn
  <2> HIDE DEF out
  <2> QED
    BY <1>1, <2>1
<1> HIDE DEF out
<1>4. PICK k : Enumerates(k, L) /\ Omit(out, WordsAt(out, W)) = Picked(out, k)
  BY <1>3, OmitPositions
<1>5. /\ Len(k) \in Nat /\ k \in Seq(DOMAIN out)
      /\ \A j \in 1..Len(k) : k[j] \in 1..Len(h) /\ k[j] \notin WordsAt(out, W) /\ k[j] \in Int
  BY <1>3, <1>4, Positions
<1>6. PICK m : Enumerates(m, K) /\ Omit(text, P \cup WordsAt(text, W)) = Picked(text, m)
  BY OmitPositions
<1> DEFINE g == [j \in 1..Len(k) |-> h[k[j]]]
<1>7. \A j \in 1..Len(k) : h[k[j]] \in K
  <2> SUFFICES ASSUME NEW j \in 1..Len(k) PROVE h[k[j]] \in K
    OBVIOUS
  <2>1. k[j] \in 1..Len(h) /\ k[j] \in DOMAIN out /\ k[j] \notin WordsAt(out, W)
    BY <1>3, <1>5
  <2>2. out[k[j]] \notin W
    BY <2>1 DEF WordsAt
  <2>3. h[k[j]] \in DOMAIN text /\ h[k[j]] \notin P /\ text[h[k[j]]] \notin W
    BY <1>2, <1>3, <2>1, <2>2
  <2> QED
    BY <2>3 DEF WordsAt
<1>8. g \in Seq(K) /\ Len(g) = Len(k) /\ \A j \in 1..Len(k) : g[j] = h[k[j]]
  BY <1>5, <1>7
<1> HIDE DEF g
<1>9. \A i, j \in 1..Len(g) : i < j => g[i] < g[j]
  <2> SUFFICES ASSUME NEW i \in 1..Len(k), NEW j \in 1..Len(k), i < j PROVE h[k[i]] < h[k[j]]
    BY <1>8
  <2>1. k[i] < k[j] /\ k[i] \in 1..Len(h) /\ k[j] \in 1..Len(h)
    BY <1>4, <1>5 DEF Enumerates
  <2> QED
    BY <1>1, <2>1 DEF Enumerates
<1>10. \A p \in K : \E j \in 1..Len(g) : g[j] = p
  <2> SUFFICES ASSUME NEW p \in K PROVE \E j \in 1..Len(k) : h[k[j]] = p
    BY <1>8
  <2>1. p \in DOMAIN text \ P /\ text[p] \notin W
    BY DEF WordsAt
  <2>2. PICK a \in 1..Len(h) : h[a] = p
    BY <1>1, <2>1 DEF Enumerates
  <2>3. a \in L
    BY <1>3, <2>1, <2>2 DEF WordsAt
  <2>4. PICK j \in 1..Len(k) : k[j] = a
    BY <1>4, <2>3 DEF Enumerates
  <2> QED
    BY <2>2, <2>4
<1>11. K \in SUBSET Int
  BY <1>2
<1>12. Enumerates(g, K)
  <2> HIDE DEF K
  <2> QED
    BY <1>8, <1>9, <1>10 DEF Enumerates
<1>13. g = m
  <2> HIDE DEF K
  <2> QED
    BY <1>6, <1>11, <1>12, OneEnumeration
<1>14. Picked(out, k) = Picked(text, g)
  BY <1>3, <1>5, <1>8 DEF Picked
<1> QED
  BY <1>4, <1>6, <1>13, <1>14 DEF out

Mapped(F, text) == [i \in DOMAIN text |-> F[text[i]]]

LEMMA MappedIn ==
  ASSUME NEW F \in [Remains -> Remains], NEW text \in Seq(Remains)
  PROVE  /\ Mapped(F, text) \in Seq(Remains) /\ DOMAIN Mapped(F, text) = DOMAIN text
         /\ Len(Mapped(F, text)) = Len(text)
         /\ \A i \in DOMAIN text : Mapped(F, text)[i] = F[text[i]]
<1>1. DOMAIN text = 1..Len(text) /\ Len(text) \in Nat /\ \A i \in DOMAIN text : text[i] \in Remains
  OBVIOUS
<1>2. Mapped(F, text) \in [1..Len(text) -> Remains]
  BY <1>1 DEF Mapped
<1>3. Mapped(F, text) \in Seq(Remains) /\ Len(Mapped(F, text)) = Len(text)
  BY <1>1, <1>2
<1> QED
  BY <1>3 DEF Mapped

\* Changing each word and leaving out some of them may change places.
LEMMA OmitMapped ==
  ASSUME NEW F \in [Remains -> Remains], NEW text \in Seq(Remains), NEW P
  PROVE  Omit(Mapped(F, text), P) = Mapped(F, Omit(text, P))
<1> DEFINE new == Mapped(F, text)
<1>1. new \in Seq(Remains) /\ DOMAIN new = DOMAIN text /\ \A i \in DOMAIN text : new[i] = F[text[i]]
  BY MappedIn
<1> HIDE DEF new
<1>2. PICK h : Enumerates(h, DOMAIN text \ P) /\ Omit(text, P) = Picked(text, h)
  BY OmitPositions
<1>3. PICK k : Enumerates(k, DOMAIN new \ P) /\ Omit(new, P) = Picked(new, k)
  BY <1>1, OmitPositions
<1>4. /\ Len(h) \in Nat /\ Len(text) \in Nat /\ DOMAIN text = 1..Len(text)
      /\ \A j \in 1..Len(h) : h[j] \in DOMAIN text
  BY <1>2, Positions
<1>5. h = k
  <2>1. DOMAIN text \ P \in SUBSET Int
    BY <1>4
  <2> QED
    BY <1>1, <1>2, <1>3, <2>1, OneEnumeration
<1>6. Picked(new, h) = Mapped(F, Picked(text, h))
  <2>1. \A j \in 1..Len(h) : new[h[j]] = F[text[h[j]]]
    BY <1>1, <1>4
  <2>2. Mapped(F, Picked(text, h)) = [j \in 1..Len(h) |-> F[text[h[j]]]]
    <3>1. DOMAIN Picked(text, h) = 1..Len(h) /\ \A j \in 1..Len(h) : Picked(text, h)[j] = text[h[j]]
      BY DEF Picked
    <3> QED
      BY <3>1 DEF Mapped
  <2> QED
    BY <2>1, <2>2 DEF Picked
<1> QED
  BY <1>2, <1>3, <1>5, <1>6 DEF new

Kind(kinds) == {w \in Remains : w[1] \in kinds}

Besides(kinds) == {w \in Remains : w[1] \notin kinds}

Unsaid == Besides(Native \cup {"loan"})

LEMMA KindsAt ==
  ASSUME NEW text \in Seq(Remains), NEW kinds
  PROVE  OfKind(text, kinds) = WordsAt(text, Kind(kinds))
<1>1. \A i \in DOMAIN text : text[i] \in Remains
  OBVIOUS
<1> QED
  BY <1>1 DEF OfKind, WordsAt, Kind

LEMMA OnlyAt ==
  ASSUME NEW text \in Seq(Remains), NEW kinds
  PROVE  Only(text, kinds) = Omit(text, WordsAt(text, Besides(kinds)))
<1>1. \A i \in DOMAIN text : text[i] \in Remains
  OBVIOUS
<1>2. {i \in DOMAIN text : text[i][1] \notin kinds} = WordsAt(text, Besides(kinds))
  BY <1>1 DEF WordsAt, Besides
<1> QED
  BY <1>2 DEF Only

LEMMA SaidAt ==
  ASSUME NEW text \in Seq(Remains)
  PROVE  Said(text) = Omit(text, WordsAt(text, Unsaid))
BY OnlyAt DEF Said, Unsaid

\* Leaving out other kinds leaves all of the kinds.
LEMMA OnlyOmit ==
  ASSUME NEW text \in Seq(Remains), NEW kinds, NEW P,
         \A i \in DOMAIN text : i \in P => text[i] \in Besides(kinds)
  PROVE  Only(Omit(text, P), kinds) = Only(text, kinds)
<1> DEFINE U == Besides(kinds)
<1>1. Omit(text, P) \in Seq(Remains)
  BY OmitIn
<1>2. Omit(Omit(text, P), WordsAt(Omit(text, P), U)) = Omit(text, P \cup WordsAt(text, U))
  BY OmitMore
<1>3. DOMAIN text \ (P \cup WordsAt(text, U)) = DOMAIN text \ WordsAt(text, U)
  BY DEF WordsAt
<1>4. Omit(text, P \cup WordsAt(text, U)) = Omit(text, WordsAt(text, U))
  BY <1>3, OmitSame
<1> QED
  BY <1>1, <1>2, <1>4, OnlyAt

LEMMA OnlyMapped ==
  ASSUME NEW text \in Seq(Remains), NEW kinds, NEW F \in [Remains -> Remains],
         \A w \in Remains : F[w][1] \in kinds <=> w[1] \in kinds
  PROVE  Only(Mapped(F, text), kinds) = Mapped(F, Only(text, kinds))
<1> DEFINE new == Mapped(F, text)
           U == Besides(kinds)
<1>1. new \in Seq(Remains) /\ DOMAIN new = DOMAIN text /\ \A i \in DOMAIN text : new[i] = F[text[i]]
  BY MappedIn
<1> HIDE DEF new
<1>2. \A i \in DOMAIN text : text[i] \in Remains /\ F[text[i]] \in Remains
  OBVIOUS
<1>3. WordsAt(new, U) = WordsAt(text, U)
  <2>1. \A i \in DOMAIN text : new[i] \in U <=> text[i] \in U
    BY <1>1, <1>2 DEF Besides
  <2> QED
    BY <1>1, <2>1 DEF WordsAt
<1>4. Omit(new, WordsAt(text, U)) = Mapped(F, Omit(text, WordsAt(text, U)))
  BY OmitMapped DEF new
<1>5. Only(new, kinds) = Omit(new, WordsAt(text, U))
  BY <1>1, <1>3, OnlyAt
<1>6. Only(text, kinds) = Omit(text, WordsAt(text, U))
  BY OnlyAt
<1> QED
  BY <1>4, <1>5, <1>6 DEF new

LEMMA OnlyIn ==
  ASSUME NEW text \in Seq(Remains), NEW kinds
  PROVE  Only(text, kinds) \in Seq(Remains)
<1>1. Omit(text, WordsAt(text, Besides(kinds))) \in Seq(Remains)
  BY OmitIn
<1> QED
  BY <1>1, OnlyAt

LEMMA SaidIn ==
  ASSUME NEW text \in Seq(Remains)
  PROVE  Said(text) \in Seq(Remains) /\ \A i \in DOMAIN Said(text) : Said(text)[i] \notin Unsaid
<1> DEFINE out == Omit(text, WordsAt(text, Unsaid))
<1>1. /\ out \in Seq(Remains)
      /\ \A j \in DOMAIN out : \E i \in DOMAIN text \ WordsAt(text, Unsaid) : out[j] = text[i]
  BY OmitIn
<1> HIDE DEF out
<1>2. \A j \in DOMAIN out : out[j] \notin Unsaid
  BY <1>1 DEF WordsAt
<1>3. Said(text) = out
  BY SaidAt DEF out
<1> QED
  BY <1>1, <1>2, <1>3

-----------------------------------------------------------------------------
(* The passes, word by word.                                               *)

LeftOf == [w \in Remains |-> Left(w)]
CanonicalOf == [w \in Remains |-> Canonical(w)]
SpeltFor(dialect) == [w \in Remains |-> IF w[2] \in dialect THEN Rewritten(w) ELSE w]

Swept == {"tag", "gone", "listed"}

\* The kinds of which the passes neither drop a word nor make one.
Lasting(kinds) == kinds = Native \cup {"loan"} \/ kinds = Broken

LEMMA WordKinds ==
  /\ \A k : Word(k)[1] = k
  /\ \A d, i : /\ Marker(d, i)[1] = "marker" /\ Form(d, i)[1] = "form"
               /\ Longer(d, i)[1] = "longer" /\ Mangled(d, i)[1] = "mangled"
BY DEF Word, Marker, Form, Longer, Mangled

LEMMA SingleWords ==
  \A w \in Remains :
    \/ w[1] \in Plain \cup {"gone"} /\ w = Word(w[1])
    \/ /\ w[1] \in {"marker", "form", "longer", "mangled"} /\ w[2] \in Nat /\ w[3] \in Nat
       /\ w = <<w[1], w[2], w[3]>>
BY DEF Remains, Words, Word

LEMMA LeftTypes ==
  /\ LeftOf \in [Remains -> Remains]
  /\ \A w \in Remains : /\ w[1] \notin Noise => LeftOf[w] = w
                        /\ LeftOf[w][1] \in Native \cup {"loan"} <=> w[1] \in Native \cup {"loan"}
                        /\ LeftOf[w][1] \in Broken <=> w[1] \in Broken
                        /\ LeftOf[w][1] = "tag" <=> w[1] = "tag"
                        /\ LeftOf[w][1] \in Swept <=> w[1] \in (Noise \ Broken) \cup {"gone"}
                        /\ LeftOf[w][1] \notin {"foreign", "glued", "accented"}
<1> SUFFICES ASSUME NEW w \in Remains
             PROVE  /\ Left(w) \in Remains
                    /\ w[1] \notin Noise => Left(w) = w
                    /\ Left(w)[1] \in Native \cup {"loan"} <=> w[1] \in Native \cup {"loan"}
                    /\ Left(w)[1] \in Broken <=> w[1] \in Broken
                    /\ Left(w)[1] = "tag" <=> w[1] = "tag"
                    /\ Left(w)[1] \in Swept <=> w[1] \in (Noise \ Broken) \cup {"gone"}
                    /\ Left(w)[1] \notin {"foreign", "glued", "accented"}
  BY DEF LeftOf
<1>1. \A k \in {"gone", "listed", "fragment"} : Word(k) \in Remains
  BY DEF Remains, Words, Plain, Noise, Broken, Word
<1>2. CASE w = Word("foreign")
  <2>1. Left(w) = Word("gone") /\ w[1] = "foreign" /\ Left(w)[1] = "gone"
    BY <1>2, WordKinds DEF Left
  <2> QED
    BY <1>1, <2>1 DEF Native, Noise, Broken, Swept
<1>3. CASE w = Word("glued")
  <2>1. w # Word("foreign")
    BY <1>3 DEF Word
  <2>2. Left(w) = Word("listed") /\ w[1] = "glued" /\ Left(w)[1] = "listed"
    BY <1>3, <2>1, WordKinds DEF Left
  <2> QED
    BY <1>1, <2>2 DEF Native, Noise, Broken, Swept
<1>4. CASE w = Word("accented")
  <2>1. w # Word("foreign") /\ w # Word("glued")
    BY <1>4 DEF Word
  <2>2. Left(w) = Word("fragment") /\ w[1] = "accented" /\ Left(w)[1] = "fragment"
    BY <1>4, <2>1, WordKinds DEF Left
  <2> QED
    BY <1>1, <2>2 DEF Native, Noise, Broken, Swept
<1>5. CASE w # Word("foreign") /\ w # Word("glued") /\ w # Word("accented")
  <2>1. Left(w) = w
    BY <1>5 DEF Left
  <2>2. w[1] \notin {"foreign", "glued", "accented"}
    BY <1>5, SingleWords
  <2> QED
    BY <2>1, <2>2 DEF Noise, Broken, Swept
<1> QED
  BY <1>2, <1>3, <1>4, <1>5

LEMMA CanonicalTypes ==
  /\ CanonicalOf \in [Remains -> Remains]
  /\ \A w \in Remains : /\ w[1] \notin Native => CanonicalOf[w] = w
                        /\ w[1] \in Native <=> CanonicalOf[w][1] \in Native
<1> SUFFICES ASSUME NEW w \in Remains
             PROVE  /\ Canonical(w) \in Remains
                    /\ w[1] \notin Native => Canonical(w) = w
                    /\ w[1] \in Native <=> Canonical(w)[1] \in Native
  BY DEF CanonicalOf
<1>1. CASE w = Word("variant")
  <2>1. Canonical(w) = Word("noun") /\ w[1] = "variant" /\ Canonical(w)[1] = "noun"
    BY <1>1, WordKinds DEF Canonical
  <2>2. Word("noun") \in Remains
    BY DEF Remains, Words, Plain, Word
  <2> QED
    BY <2>1, <2>2 DEF Native
<1>2. CASE w # Word("variant")
  BY <1>2 DEF Canonical
<1> QED
  BY <1>1, <1>2

LEMMA SpeltTypes ==
  ASSUME NEW dialect
  PROVE  /\ SpeltFor(dialect) \in [Remains -> Remains]
         /\ \A w \in Remains : /\ w[1] \notin Native => SpeltFor(dialect)[w] = w
                               /\ w[1] \in Native <=> SpeltFor(dialect)[w][1] \in Native
<1> SUFFICES ASSUME NEW w \in Remains
             PROVE  /\ Rewritten(w) \in Remains
                    /\ w[1] \notin Native => Rewritten(w) = w
                    /\ w[1] \in Native <=> Rewritten(w)[1] \in Native
  BY DEF SpeltFor
<1>1. w[1] \in {"form", "longer"} => w[2] \in Nat /\ w[3] \in Nat
  BY SingleWords DEF Plain, Noise, Broken
<1>2. CASE w[1] = "form"
  <2>1. Rewritten(w) = Marker(w[2], w[3])
    BY <1>2 DEF Rewritten
  <2>2. Marker(w[2], w[3]) \in Remains
    BY <1>1, <1>2 DEF Remains, Words, Marker
  <2> QED
    BY <1>2, <2>1, <2>2, WordKinds DEF Native
<1>3. CASE w[1] = "longer"
  <2>1. Rewritten(w) = Mangled(w[2], w[3])
    BY <1>3 DEF Rewritten
  <2>2. Mangled(w[2], w[3]) \in Remains
    BY <1>1, <1>3 DEF Remains, Words, Mangled
  <2> QED
    BY <1>3, <2>1, <2>2, WordKinds DEF Native
<1>4. CASE w[1] \notin {"form", "longer"}
  BY <1>4 DEF Rewritten
<1> QED
  BY <1>2, <1>3, <1>4

\* A pass that changes native words into native words keeps the lasting kinds.
LEMMA LastingKept ==
  ASSUME NEW kinds, Lasting(kinds), NEW F \in [Remains -> Remains],
         \A w \in Remains : /\ w[1] \notin Native => F[w] = w
                            /\ w[1] \in Native <=> F[w][1] \in Native
  PROVE  \A w \in Remains : F[w][1] \in kinds <=> w[1] \in kinds
<1> SUFFICES ASSUME NEW w \in Remains PROVE F[w][1] \in kinds <=> w[1] \in kinds
  OBVIOUS
<1>1. Native \subseteq kinds \/ Native \cap kinds = {}
  BY DEF Lasting, Native, Broken
<1>2. w[1] \notin Native => F[w] = w
  OBVIOUS
<1>3. w[1] \in Native => F[w][1] \in Native
  OBVIOUS
<1> QED
  BY <1>1, <1>2, <1>3

LEMMA PassesMapped ==
  ASSUME NEW text \in Seq(Remains), NEW l, NEW dialect
  PROVE  /\ Spelled(text) = Mapped(CanonicalOf, text)
         /\ Vocabulary(l, text, dialect) = Mapped(SpeltFor(dialect), text)
         /\ [i \in DOMAIN text |-> Left(text[i])] = Mapped(LeftOf, text)
<1>1. \A i \in DOMAIN text : text[i] \in Remains
  OBVIOUS
<1>2. \A i \in DOMAIN text : CanonicalOf[text[i]] = Canonical(text[i])
  BY <1>1 DEF CanonicalOf
<1>3. \A i \in DOMAIN text : LeftOf[text[i]] = Left(text[i])
  BY <1>1 DEF LeftOf
<1>4. \A i \in DOMAIN text : SpeltFor(dialect)[text[i]] =
        IF text[i][2] \in dialect THEN Rewritten(text[i]) ELSE text[i]
  BY <1>1 DEF SpeltFor
<1>5. Spelled(text) = Mapped(CanonicalOf, text)
  BY <1>2 DEF Spelled, Mapped
<1>6. Vocabulary(l, text, dialect) = Mapped(SpeltFor(dialect), text)
  BY <1>4 DEF Vocabulary, Mapped
<1>7. [i \in DOMAIN text |-> Left(text[i])] = Mapped(LeftOf, text)
  BY <1>3 DEF Mapped
<1> QED
  BY <1>5, <1>6, <1>7

\* The first three passes in one.
Swipe(text) == Omit(Mapped(LeftOf, text), WordsAt(Mapped(LeftOf, text), Kind(Swept)))

LEMMA SweptOnce ==
  ASSUME NEW text \in Seq(Remains)
  PROVE  /\ Unlisted(Unscripted(Untagged(text))) = Swipe(text)
         /\ Swipe(text) \in Seq(Remains)
<1> DEFINE new == Mapped(LeftOf, text)
           one == Untagged(text)
           left == [i \in DOMAIN one |-> Left(one[i])]
           two == Unscripted(one)
<1>1. /\ new \in Seq(Remains) /\ DOMAIN new = DOMAIN text
      /\ \A i \in DOMAIN text : new[i] = LeftOf[text[i]]
  BY LeftTypes, MappedIn
<1>2. \A i \in DOMAIN text : text[i] \in Remains
  OBVIOUS
<1>3. one = Omit(text, WordsAt(text, Kind({"tag"}))) /\ one \in Seq(Remains)
  BY KindsAt, OmitIn DEF Untagged
<1>4. WordsAt(text, Kind({"tag"})) = WordsAt(new, Kind({"tag"}))
  <2>1. \A w \in Remains : LeftOf[w] \in Kind({"tag"}) <=> w \in Kind({"tag"})
    BY LeftTypes DEF Kind
  <2>2. \A i \in DOMAIN text : new[i] \in Kind({"tag"}) <=> text[i] \in Kind({"tag"})
    BY <1>1, <1>2, <2>1
  <2> HIDE DEF new
  <2> QED
    BY <1>1, <2>2 DEF WordsAt
<1>5. left = Omit(new, WordsAt(new, Kind({"tag"})))
  <2>1. left = Mapped(LeftOf, one)
    <3> HIDE DEF one
    <3> QED
      BY <1>3, PassesMapped
  <2>2. Mapped(LeftOf, Omit(text, WordsAt(text, Kind({"tag"})))) =
          Omit(new, WordsAt(text, Kind({"tag"})))
    BY LeftTypes, OmitMapped
  <2> QED
    BY <1>3, <1>4, <2>1, <2>2
<1> HIDE DEF new, left
<1>6. left \in Seq(Remains)
  BY <1>1, <1>5, OmitIn
<1>7. two = Omit(new, WordsAt(new, Kind({"tag"})) \cup WordsAt(new, Kind({"gone"})))
  <2>1. two = Omit(left, OfKind(left, {"gone"}))
    BY DEF Unscripted, left
  <2>2. OfKind(left, {"gone"}) = WordsAt(left, Kind({"gone"}))
    BY <1>6, KindsAt
  <2>3. Omit(Omit(new, WordsAt(new, Kind({"tag"}))), WordsAt(Omit(new, WordsAt(new, Kind({"tag"}))), Kind({"gone"}))) =
          Omit(new, WordsAt(new, Kind({"tag"})) \cup WordsAt(new, Kind({"gone"})))
    BY <1>1, OmitMore
  <2> HIDE DEF two
  <2> QED
    BY <1>5, <2>1, <2>2, <2>3
<1> HIDE DEF two
<1>8. two \in Seq(Remains)
  BY <1>1, <1>7, OmitIn
<1> DEFINE P == WordsAt(new, Kind({"tag"})) \cup WordsAt(new, Kind({"gone"}))
           Q == WordsAt(new, Kind({"listed", "accented"}))
<1>9. Unlisted(two) = Omit(new, P \cup Q)
  <2>1. Unlisted(two) = Omit(two, WordsAt(two, Kind({"listed", "accented"})))
    BY <1>8, KindsAt DEF Unlisted
  <2>2. two = Omit(new, P)
    BY <1>7
  <2> HIDE DEF P
  <2>3. Omit(Omit(new, P), WordsAt(Omit(new, P), Kind({"listed", "accented"}))) = Omit(new, P \cup Q)
    BY <1>1, OmitMore
  <2> QED
    BY <2>1, <2>2, <2>3
<1>10. P \cup Q = WordsAt(new, Kind(Swept))
  <2>1. \A i \in DOMAIN new : new[i] \in Remains /\ new[i][1] # "accented"
    BY <1>1, <1>2, LeftTypes
  <2> QED
    BY <2>1 DEF WordsAt, Kind, Swept
<1>11. Unlisted(two) = Swipe(text)
  BY <1>9, <1>10 DEF Swipe, new
<1>12. Omit(new, WordsAt(new, Kind(Swept))) \in Seq(Remains)
  BY <1>1, OmitIn
<1> QED
  BY <1>11, <1>12 DEF Swipe, new, two

\* Every pass leaves words of the same kinds.
LEMMA PassesIn ==
  ASSUME NEW text \in Seq(Remains), NEW article, NEW l, NEW dialect
  PROVE  /\ Halved(text) \in Seq(Remains) /\ Trimmed(text) \in Seq(Remains)
         /\ Without(article, text) \in Seq(Remains)
         /\ Spelled(text) \in Seq(Remains)
         /\ Vocabulary(l, text, dialect) \in Seq(Remains)
<1>1. Halved(text) \in Seq(Remains)
  BY OmitIn DEF Halved
<1>2. Trimmed(text) \in Seq(Remains)
  BY OmitIn DEF Trimmed
<1>3. Without(article, text) \in Seq(Remains)
  BY OmitIn DEF Without
<1>4. Spelled(text) \in Seq(Remains)
  BY CanonicalTypes, MappedIn, PassesMapped
<1>5. Vocabulary(l, text, dialect) \in Seq(Remains)
  BY SpeltTypes, MappedIn, PassesMapped
<1> QED
  BY <1>1, <1>2, <1>3, <1>4, <1>5

-----------------------------------------------------------------------------
(* Nothing the customer said is lost, and nothing broken is made whole.    *)

LEMMA NotLasting ==
  ASSUME NEW kinds, Lasting(kinds)
  PROVE  /\ Word("comma") \in Besides(kinds) /\ Word("the") \in Besides(kinds)
         /\ Word("a") \in Besides(kinds)
         /\ Kind(Swept) \subseteq Besides(kinds)
<1>1. ASSUME NEW k \in {"comma", "the", "a"} PROVE Word(k) \in Besides(kinds)
  <2>1. Word(k) \in Remains /\ Word(k)[1] = k
    BY DEF Remains, Words, Plain, Word
  <2>2. k \notin kinds
    BY DEF Lasting, Native, Broken
  <2> QED
    BY <2>1, <2>2 DEF Besides
<1>2. Kind(Swept) \subseteq Besides(kinds)
  <2>1. Swept \cap kinds = {}
    BY DEF Lasting, Native, Broken, Swept
  <2> QED
    BY <2>1 DEF Kind, Besides
<1> QED
  BY <1>1, <1>2

LEMMA PassesKeep ==
  ASSUME NEW text \in Seq(Remains), NEW article \in {"the", "a"}, NEW kinds, Lasting(kinds)
  PROVE  /\ Only(Halved(text), kinds) = Only(text, kinds) /\ Only(Trimmed(text), kinds) = Only(text, kinds)
         /\ Only(Without(article, text), kinds) = Only(text, kinds)
<1> DEFINE Run(i, n) == /\ \A j \in (i - n + 1)..i : text[j] = Word("comma")
                        /\ n = i \/ text[i - n] # Word("comma")
           P == {i \in DOMAIN text : \E n \in 1..i : n % 2 = 0 /\ Run(i, n)}
           Q == {i \in DOMAIN text : i \in {1, Len(text)} /\ text[i] = Word("comma")}
<1>1. Only(Halved(text), kinds) = Only(text, kinds)
  <2>1. \A i \in DOMAIN text : i \in P => text[i] = Word("comma")
    <3> SUFFICES ASSUME NEW i \in DOMAIN text, i \in P PROVE text[i] = Word("comma")
      OBVIOUS
    <3>1. PICK n \in 1..i : \A j \in (i - n + 1)..i : text[j] = Word("comma")
      OBVIOUS
    <3> HIDE DEF P
    <3>2. i \in Int /\ n \in Int /\ n >= 1
      <4>1. DOMAIN text = 1..Len(text) /\ Len(text) \in Nat
        OBVIOUS
      <4>2. i \in Int
        BY <4>1
      <4>3. n \in Int /\ n >= 1
        BY <4>2
      <4> QED
        BY <4>2, <4>3
    <3>3. i \in (i - n + 1)..i
      BY <3>2
    <3> QED
      BY <3>1, <3>3
  <2>2. \A i \in DOMAIN text : i \in P => text[i] \in Besides(kinds)
    BY <2>1, NotLasting
  <2>3. Halved(text) = Omit(text, P)
    BY DEF Halved
  <2> HIDE DEF P
  <2> QED
    BY <2>2, <2>3, OnlyOmit
<1>2. Only(Trimmed(text), kinds) = Only(text, kinds)
  <2>1. \A i \in DOMAIN text : i \in Q => text[i] \in Besides(kinds)
    BY NotLasting
  <2>2. Trimmed(text) = Omit(text, Q)
    BY DEF Trimmed
  <2> HIDE DEF Q
  <2> QED
    BY <2>1, <2>2, OnlyOmit
<1>3. Only(Without(article, text), kinds) = Only(text, kinds)
  <2>1. \A i \in DOMAIN text : i \in Before(article, text) => text[i] \in Besides(kinds)
    BY NotLasting DEF Before
  <2> QED
    BY <2>1, OnlyOmit DEF Without
<1> QED
  BY <1>1, <1>2, <1>3

LEMMA SwipeKeeps ==
  ASSUME NEW text \in Seq(Remains), NEW kinds, Lasting(kinds)
  PROVE  Only(Swipe(text), kinds) = Mapped(LeftOf, Only(text, kinds))
<1> DEFINE new == Mapped(LeftOf, text)
<1>1. new \in Seq(Remains)
  BY LeftTypes, MappedIn
<1>2. Only(new, kinds) = Mapped(LeftOf, Only(text, kinds))
  <2>1. \A w \in Remains : LeftOf[w][1] \in kinds <=> w[1] \in kinds
    BY LeftTypes DEF Lasting
  <2> QED
    BY <2>1, LeftTypes, OnlyMapped
<1> HIDE DEF new
<1>3. \A i \in DOMAIN new : i \in WordsAt(new, Kind(Swept)) => new[i] \in Besides(kinds)
  BY NotLasting DEF WordsAt
<1>4. Only(Omit(new, WordsAt(new, Kind(Swept))), kinds) = Only(new, kinds)
  BY <1>1, <1>3, OnlyOmit
<1> QED
  BY <1>2, <1>4 DEF Swipe, new

\* The lasting words of the result are those of the text, word by word.
LEMMA Lasts ==
  ASSUME NEW l \in South, NEW text \in Seq(Words), NEW dialect, NEW kinds, Lasting(kinds)
  PROVE  Only(Normalize(l, text, dialect), kinds) =
           Mapped(SpeltFor(dialect), Mapped(CanonicalOf, Mapped(LeftOf, Only(text, kinds))))
<1> DEFINE clean == Clean(l, text)
           spelled == Spelled(clean)
           bare == Articles(l, spelled)
<1>0. text \in Seq(Remains)
  BY DEF Remains
<1>1. clean \in Seq(Remains) /\ Only(clean, kinds) = Mapped(LeftOf, Only(text, kinds))
  <2>1. clean = Trimmed(Halved(Swipe(text))) /\ Swipe(text) \in Seq(Remains)
    BY <1>0, SweptOnce DEF Clean, Commas
  <2>2. Halved(Swipe(text)) \in Seq(Remains) /\ Only(Halved(Swipe(text)), kinds) = Only(Swipe(text), kinds)
    BY <2>1, PassesIn, PassesKeep
  <2> HIDE DEF clean
  <2>3. clean \in Seq(Remains) /\ Only(clean, kinds) = Only(Halved(Swipe(text)), kinds)
    BY <2>1, <2>2, PassesIn, PassesKeep
  <2> QED
    BY <1>0, <2>2, <2>3, SwipeKeeps
<1> HIDE DEF clean
<1>2. spelled \in Seq(Remains) /\ Only(spelled, kinds) = Mapped(CanonicalOf, Only(clean, kinds))
  <2>1. spelled \in Seq(Remains) /\ spelled = Mapped(CanonicalOf, clean)
    BY <1>1, PassesIn, PassesMapped
  <2>2. \A w \in Remains : CanonicalOf[w][1] \in kinds <=> w[1] \in kinds
    BY CanonicalTypes, LastingKept
  <2>3. Only(Mapped(CanonicalOf, clean), kinds) = Mapped(CanonicalOf, Only(clean, kinds))
    BY <1>1, <2>2, CanonicalTypes, OnlyMapped
  <2> QED
    BY <2>1, <2>3
<1> HIDE DEF spelled
<1>3. bare \in Seq(Remains) /\ Only(bare, kinds) = Only(spelled, kinds)
  <2>1. CASE l \in {"te", "kn"}
    <3>1. bare = Without("a", Without("the", spelled))
      BY <2>1 DEF Articles
    <3>2. /\ Without("the", spelled) \in Seq(Remains)
          /\ Only(Without("the", spelled), kinds) = Only(spelled, kinds)
      BY <1>2, PassesIn, PassesKeep
    <3> HIDE DEF bare
    <3>3. bare \in Seq(Remains) /\ Only(bare, kinds) = Only(Without("the", spelled), kinds)
      BY <3>1, <3>2, PassesIn, PassesKeep
    <3> QED
      BY <3>2, <3>3
  <2>2. CASE l \notin {"te", "kn"}
    BY <1>2, <2>2 DEF Articles
  <2> QED
    BY <2>1, <2>2
<1> HIDE DEF bare
<1>4. Normalize(l, text, dialect) = Mapped(SpeltFor(dialect), bare)
  BY <1>3, PassesMapped DEF Normalize, bare, spelled, clean
<1>5. Only(Mapped(SpeltFor(dialect), bare), kinds) = Mapped(SpeltFor(dialect), Only(bare, kinds))
  <2>1. \A w \in Remains : SpeltFor(dialect)[w][1] \in kinds <=> w[1] \in kinds
    BY SpeltTypes, LastingKept
  <2> QED
    BY <1>3, <2>1, SpeltTypes, OnlyMapped
<1> QED
  BY <1>1, <1>2, <1>3, <1>4, <1>5

\* What was said is left as it is by all the passes but the last two.
LEMMA SaidIsSpelt ==
  ASSUME NEW l \in South, NEW text \in Seq(Words), NEW dialect
  PROVE  Said(Normalize(l, text, dialect)) =
           Mapped(SpeltFor(dialect), Mapped(CanonicalOf, Said(text)))
<1>0. text \in Seq(Remains)
  BY DEF Remains
<1>1. /\ Said(text) \in Seq(Remains)
      /\ \A i \in DOMAIN Said(text) : Said(text)[i] \in Remains /\ Said(text)[i] \notin Unsaid
  <2>1. Said(text) \in Seq(Remains) /\ \A i \in DOMAIN Said(text) : Said(text)[i] \notin Unsaid
    BY <1>0, SaidIn
  <2> QED
    BY <2>1
<1>2. \A w \in Remains : w \notin Unsaid => LeftOf[w] = w
  <2>1. \A w \in Remains : w \notin Unsaid => w[1] \notin Noise
    BY DEF Unsaid, Besides, Noise, Broken, Native
  <2> QED
    BY <2>1, LeftTypes
<1>3. Mapped(LeftOf, Said(text)) = Said(text)
  <2>1. \A i \in DOMAIN Said(text) : LeftOf[Said(text)[i]] = Said(text)[i]
    BY <1>1, <1>2
  <2>2. Said(text) = [i \in DOMAIN Said(text) |-> Said(text)[i]]
    BY <1>1
  <2> QED
    BY <2>1, <2>2 DEF Mapped
<1>4. Lasting(Native \cup {"loan"})
  BY DEF Lasting
<1> QED
  BY <1>3, <1>4, Lasts DEF Said

\* How a word is read after the two passes that respell it.
LEMMA ReadAfter ==
  ASSUME NEW w \in Remains, NEW dialect
  PROVE  Reading(SpeltFor(dialect)[CanonicalOf[w]]) =
           IF w[1] = "longer" /\ w[2] \in dialect THEN Mangled(w[2], w[3]) ELSE Reading(w)
<1>1. CanonicalOf[w] = Canonical(w) /\ Canonical(w) \in Remains
  BY CanonicalTypes DEF CanonicalOf
<1>2. SpeltFor(dialect)[CanonicalOf[w]] =
        IF Canonical(w)[2] \in dialect THEN Rewritten(Canonical(w)) ELSE Canonical(w)
  BY <1>1 DEF SpeltFor
<1>3. CASE w = Word("variant")
  <2>1. Canonical(w) = Word("noun") /\ w[1] = "variant"
    BY <1>3, WordKinds DEF Canonical
  <2>2. Rewritten(Word("noun")) = Word("noun")
    BY WordKinds DEF Rewritten
  <2>3. Word("noun") # Word("variant")
    BY WordKinds
  <2> QED
    BY <1>2, <2>1, <2>2, <2>3, WordKinds DEF Reading, Canonical
<1>4. CASE w # Word("variant") /\ w[1] = "form"
  <2>1. Canonical(w) = w /\ Rewritten(w) = Marker(w[2], w[3])
    BY <1>4 DEF Canonical, Rewritten
  <2>2. Marker(w[2], w[3]) # Word("variant") /\ Marker(w[2], w[3])[1] # "form"
    BY WordKinds
  <2> QED
    BY <1>2, <1>4, <2>1, <2>2 DEF Reading, Canonical
<1>5. CASE w # Word("variant") /\ w[1] = "longer"
  <2>1. Canonical(w) = w /\ Rewritten(w) = Mangled(w[2], w[3])
    BY <1>5 DEF Canonical, Rewritten
  <2>2. Mangled(w[2], w[3]) # Word("variant") /\ Mangled(w[2], w[3])[1] # "form"
    BY WordKinds
  <2> QED
    BY <1>2, <1>5, <2>1, <2>2 DEF Reading, Canonical
<1>6. CASE w # Word("variant") /\ w[1] \notin {"form", "longer"}
  <2>1. Canonical(w) = w /\ Rewritten(w) = w
    BY <1>6 DEF Canonical, Rewritten
  <2> QED
    BY <1>2, <1>6, <2>1
<1> QED
  BY <1>3, <1>4, <1>5, <1>6

(* The words of the customer stay, in their order, and are read as before, *)
(* in a text of any length and for any dialect, all but the longer words   *)
(* that the unanchored pattern of the dialect rewrites inside              *)
(* (normalizer.py: "we never change meaning").                             *)
THEOREM WordsStay ==
  ASSUME NEW l \in South, NEW text \in Seq(Words), NEW dialect
  PROVE  StaysSaid(l, text, dialect)
<1> DEFINE spoken == Said(text)
           spelled == Mapped(CanonicalOf, spoken)
           out == Said(Normalize(l, text, dialect))
<1>0. text \in Seq(Remains)
  BY DEF Remains
<1>1. spoken \in Seq(Remains) /\ \A i \in DOMAIN spoken : spoken[i] \in Remains
  BY <1>0, SaidIn
<1> HIDE DEF spoken
<1>2. /\ spelled \in Seq(Remains) /\ DOMAIN spelled = DOMAIN spoken
      /\ \A i \in DOMAIN spoken : spelled[i] = CanonicalOf[spoken[i]]
  BY <1>1, CanonicalTypes, MappedIn
<1>3. out = Mapped(SpeltFor(dialect), spelled)
  BY SaidIsSpelt DEF spoken
<1> HIDE DEF spelled, out
<1>4. /\ DOMAIN out = DOMAIN spelled
      /\ \A i \in DOMAIN spelled : out[i] = SpeltFor(dialect)[spelled[i]]
  BY <1>2, <1>3, SpeltTypes, MappedIn, ZenonT(30)
<1>5. ASSUME NEW i \in DOMAIN spoken
      PROVE  Reading(out[i]) = IF spoken[i][1] = "longer" /\ spoken[i][2] \in dialect
                               THEN Mangled(spoken[i][2], spoken[i][3]) ELSE Reading(spoken[i])
  <2>1. out[i] = SpeltFor(dialect)[CanonicalOf[spoken[i]]]
    BY <1>2, <1>4, <1>5
  <2> QED
    BY <1>1, <2>1, ReadAfter
<1> QED
  BY <1>2, <1>4, <1>5 DEF StaysSaid, spoken, out

-----------------------------------------------------------------------------
(* What Whisper made up is gone, and what stood beside it.                 *)

LEMMA Lengths ==
  ASSUME NEW text \in Seq(Remains)
  PROVE  /\ Len(text) \in Nat /\ DOMAIN text = 1..Len(text)
         /\ \A i \in DOMAIN text : text[i] \in Remains
         /\ \A i \in 1..(Len(text) - 1) : i \in DOMAIN text /\ i + 1 \in DOMAIN text
<1>1. Len(text) \in Nat /\ DOMAIN text = 1..Len(text)
  OBVIOUS
<1>2. \A i \in DOMAIN text : text[i] \in Remains
  OBVIOUS
<1>3. \A i \in 1..(Len(text) - 1) : i \in DOMAIN text /\ i + 1 \in DOMAIN text
  BY <1>1
<1> QED
  BY <1>1, <1>2, <1>3

\* Two words that noise alone kept apart stand together in the real text.
LEMMA SweptApart ==
  ASSUME NEW text \in Seq(Words), NEW W,
         \A w \in W : w[1] \notin Noise \cup {"gone"},
         NEW i \in 1..(Len(Swipe(text)) - 1),
         Swipe(text)[i] \in W, Swipe(text)[i + 1] \in W
  PROVE  Together(W, Real(text))
<1> DEFINE new == Mapped(LeftOf, text)
           P == WordsAt(new, Kind(Swept))
           Q == OfKind(text, Noise \ Broken)
<1>0. text \in Seq(Remains)
  BY DEF Remains
<1>1. /\ new \in Seq(Remains) /\ DOMAIN new = DOMAIN text
      /\ \A j \in DOMAIN text : new[j] = LeftOf[text[j]]
  BY <1>0, LeftTypes, MappedIn
<1>2. \A j \in DOMAIN text : text[j] \in Words /\ text[j] \in Remains
  BY DEF Remains
<1>3. \A j \in DOMAIN text : new[j] \in W => text[j] = new[j] /\ j \notin Q
  <2> SUFFICES ASSUME NEW j \in DOMAIN text, new[j] \in W PROVE text[j] = new[j] /\ j \notin Q
    OBVIOUS
  <2>1. LeftOf[text[j]] \in W /\ text[j] \in Remains
    BY <1>1, <1>2
  <2>2. LeftOf[text[j]][1] \notin Noise \cup {"gone"}
    BY <2>1
  <2>3. LeftOf[text[j]][1] \notin Swept /\ LeftOf[text[j]][1] \notin Broken
    BY <2>2 DEF Swept, Noise
  <2>4. text[j][1] \notin Noise
    BY <2>1, <2>3, LeftTypes
  <2>5. LeftOf[text[j]] = text[j]
    BY <2>1, <2>4, LeftTypes
  <2> HIDE DEF new
  <2> QED
    BY <1>1, <2>4, <2>5 DEF OfKind
<1> HIDE DEF new
<1>4. \A j \in DOMAIN text : j \in P => j \in Q
  <2> SUFFICES ASSUME NEW j \in DOMAIN text, j \in P PROVE text[j][1] \in Noise \ Broken
    BY DEF OfKind
  <2>1. LeftOf[text[j]][1] \in Swept /\ text[j] \in Words /\ text[j] \in Remains
    BY <1>1, <1>2 DEF WordsAt, Kind
  <2>2. text[j][1] \in (Noise \ Broken) \cup {"gone"}
    BY <2>1, LeftTypes
  <2>3. text[j][1] # "gone"
    BY <2>1 DEF Words, Plain, Noise, Broken
  <2> QED
    BY <2>2, <2>3
<1>5. Swipe(text) = Omit(new, P)
  BY DEF Swipe, new
<1> HIDE DEF P
<1>6. PICK p \in DOMAIN new \ P, q \in DOMAIN new \ P :
        /\ p < q /\ \A r \in (p + 1)..(q - 1) : r \in P
        /\ Swipe(text)[i] = new[p] /\ Swipe(text)[i + 1] = new[q]
  <2>1. i \in 1..(Len(Omit(new, P)) - 1)
    BY <1>5
  <2>2. Parted(new, P)
    BY <1>1, Neighbours
  <2> QED
    BY <1>5, <2>1, <2>2 DEF Parted
<1>7. text[p] \in W /\ text[q] \in W /\ p \in DOMAIN text \ Q /\ q \in DOMAIN text \ Q
  BY <1>1, <1>3, <1>6
<1>8. \A r \in (p + 1)..(q - 1) : r \in Q
  <2> SUFFICES ASSUME NEW r \in (p + 1)..(q - 1) PROVE r \in Q
    OBVIOUS
  <2>1. DOMAIN text = 1..Len(text) /\ Len(text) \in Nat
    OBVIOUS
  <2>2. r \in DOMAIN text
    BY <1>7, <2>1
  <2> HIDE DEF Q
  <2> QED
    BY <1>4, <1>6, <2>2
<1>9. PICK k \in 1..(Len(Omit(text, Q)) - 1) :
        Omit(text, Q)[k] = text[p] /\ Omit(text, Q)[k + 1] = text[q]
  <2> HIDE DEF Q, P
  <2>1. \A a, b \in DOMAIN text \ Q :
          a < b /\ (\A r \in (a + 1)..(b - 1) : r \in Q) =>
            \E k \in 1..(Len(Omit(text, Q)) - 1) :
              Omit(text, Q)[k] = text[a] /\ Omit(text, Q)[k + 1] = text[b]
    BY <1>0, Joined, SMTT(30)
  <2> QED
    BY <1>6, <1>7, <1>8, <2>1, SMTT(30)
<1>10. Real(text) = Omit(text, Q)
  BY DEF Real
<1> HIDE DEF Q
<1> QED
  BY <1>7, <1>9, <1>10 DEF Together

\* Where no commas stand together, the commas at the ends are all that goes.
LEMMA CommasGo ==
  ASSUME NEW text \in Seq(Remains), ~Together({Word("comma")}, text)
  PROVE  /\ Halved(text) = text
         /\ Trimmed(text) # <<>> =>
              /\ Trimmed(text)[1] # Word("comma")
              /\ Trimmed(text)[Len(Trimmed(text))] # Word("comma")
<1> DEFINE Run(i, n) == /\ \A j \in (i - n + 1)..i : text[j] = Word("comma")
                        /\ n = i \/ text[i - n] # Word("comma")
           P == {i \in DOMAIN text : \E n \in 1..i : n % 2 = 0 /\ Run(i, n)}
           Q == {i \in DOMAIN text : i \in {1, Len(text)} /\ text[i] = Word("comma")}
<1>0. Len(text) \in Nat /\ DOMAIN text = 1..Len(text)
  BY Lengths
<1>1. \A i \in 1..(Len(text) - 1) : text[i] # Word("comma") \/ text[i + 1] # Word("comma")
  BY DEF Together
<1>2. \A i \in DOMAIN text : i \notin P
  <2> SUFFICES ASSUME NEW i \in DOMAIN text, NEW n \in 1..i, n % 2 = 0,
                      \A j \in (i - n + 1)..i : text[j] = Word("comma")
               PROVE  FALSE
    OBVIOUS
  <2>1. i \in Int /\ n \in Int /\ 1 <= n /\ n <= i /\ i <= Len(text)
    BY <1>0
  <2>2. n # 1
    OBVIOUS
  <2>3. i \in (i - n + 1)..i /\ i - 1 \in (i - n + 1)..i
    BY <2>1, <2>2
  <2>4. i - 1 \in 1..(Len(text) - 1) /\ (i - 1) + 1 = i
    BY <1>0, <2>1, <2>2
  <2>5. text[i] = Word("comma") /\ text[i - 1] = Word("comma")
    BY <2>3
  <2> QED
    BY <1>1, <2>4, <2>5
<1>3. Halved(text) = text
  <2>1. Halved(text) = Omit(text, P)
    BY DEF Halved
  <2> HIDE DEF P
  <2> QED
    BY <1>2, <2>1, OmitNone
<1>4. ASSUME Trimmed(text) # <<>>
      PROVE  /\ Trimmed(text)[1] # Word("comma")
             /\ Trimmed(text)[Len(Trimmed(text))] # Word("comma")
  <2>1. Trimmed(text) = Omit(text, Q)
    BY DEF Trimmed
  <2> HIDE DEF Q
  <2>2. /\ \E p \in DOMAIN text \ Q :
             Trimmed(text)[1] = text[p] /\ \A r \in 1..(p - 1) : r \in Q
        /\ \E p \in DOMAIN text \ Q :
             Trimmed(text)[Len(Trimmed(text))] = text[p] /\ \A r \in (p + 1)..Len(text) : r \in Q
    BY <1>4, <2>1, Ends
  <2>3. ASSUME NEW p \in DOMAIN text \ Q, \A r \in 1..(p - 1) : r \in Q PROVE text[p] # Word("comma")
    <3>1. p \in 1..Len(text) /\ p \in Int
      BY <1>0
    <3>2. CASE p = 1
      BY <1>0, <3>1, <3>2 DEF Q
    <3>3. CASE p # 1
      <4>1. p - 1 \in 1..(p - 1) /\ p - 1 \in Int /\ (p - 1) + 1 = p /\ p - 1 < Len(text)
        BY <1>0, <3>1, <3>3
      <4>2. p - 1 \in Q
        BY <2>3, <4>1
      <4>3. text[p - 1] = Word("comma")
        BY <4>2 DEF Q
      <4>4. p - 1 \in 1..(Len(text) - 1)
        BY <1>0, <4>1
      <4> QED
        BY <1>1, <4>1, <4>3, <4>4
    <3> QED
      BY <3>2, <3>3
  <2>4. ASSUME NEW p \in DOMAIN text \ Q, \A r \in (p + 1)..Len(text) : r \in Q
        PROVE  text[p] # Word("comma")
    <3>1. p \in 1..Len(text) /\ p \in Int
      BY <1>0
    <3>2. CASE p = Len(text)
      BY <1>0, <3>1, <3>2 DEF Q
    <3>3. CASE p # Len(text)
      <4>0. Len(text) \in Int /\ p <= Len(text) /\ 1 <= p /\ p \in Int
        BY <1>0, <3>1
      <4>1. p + 1 \in (p + 1)..Len(text) /\ p \in 1..(Len(text) - 1)
        BY <3>3, <4>0
      <4>2. p + 1 \in Q
        BY <2>4, <4>1
      <4>3. text[p + 1] = Word("comma")
        BY <4>2 DEF Q
      <4> QED
        BY <1>1, <4>1, <4>3
    <3> QED
      BY <3>2, <3>3
  <2> QED
    BY <2>2, <2>3, <2>4
<1> QED
  BY <1>3, <1>4

LEMMA NotTheEnds ==
  ASSUME NEW p \in Int, NEW q \in Int, NEW n \in Int, 1 <= p, q <= n, p + 1 < q
  PROVE  p + 1 # 1 /\ p + 1 # n
OBVIOUS

\* No other words come to stand together.
LEMMA CommasJoin ==
  ASSUME NEW text \in Seq(Remains), Together(Articled, Trimmed(Halved(text)))
  PROVE  Together(Articled, text)
<1> DEFINE half == Halved(text)
           Run(i, n) == /\ \A j \in (i - n + 1)..i : text[j] = Word("comma")
                        /\ n = i \/ text[i - n] # Word("comma")
           P == {i \in DOMAIN text : \E n \in 1..i : n % 2 = 0 /\ Run(i, n)}
           Q == {i \in DOMAIN half : i \in {1, Len(half)} /\ half[i] = Word("comma")}
<1>0. half \in Seq(Remains)
  BY PassesIn
<1>1. half = Omit(text, P)
  BY DEF Halved
<1>2. Trimmed(half) = Omit(half, Q)
  BY DEF Trimmed
<1>3. Word("comma") \notin Articled
  BY DEF Articled, Word
<1> HIDE DEF half, Q
<1>4. PICK i \in 1..(Len(Trimmed(half)) - 1) :
        Trimmed(half)[i] \in Articled /\ Trimmed(half)[i + 1] \in Articled
  BY DEF Together, half
<1>5. PICK p \in DOMAIN half \ Q, q \in DOMAIN half \ Q :
        /\ p < q /\ \A r \in (p + 1)..(q - 1) : r \in Q
        /\ Trimmed(half)[i] = half[p] /\ Trimmed(half)[i + 1] = half[q]
  <2>1. i \in 1..(Len(Omit(half, Q)) - 1)
    BY <1>2
  <2>2. Parted(half, Q)
    BY <1>0, Neighbours
  <2> QED
    BY <1>2, <2>1, <2>2 DEF Parted
<1>6. Len(half) \in Nat /\ DOMAIN half = 1..Len(half)
  BY <1>0, Lengths
<1>7. q = p + 1 /\ p \in 1..(Len(half) - 1)
  <2>1. p \in Int /\ q \in Int /\ 1 <= p /\ q <= Len(half)
    BY <1>6
  <2>2. ASSUME p + 1 < q PROVE FALSE
    <3>1. p + 1 \in (p + 1)..(q - 1)
      BY <2>1, <2>2
    <3>2. p + 1 \in Q
      BY <1>5, <3>1
    <3>3. p + 1 = 1 \/ p + 1 = Len(half)
      BY <3>2 DEF Q
    <3>4. Len(half) \in Int
      BY <1>6
    <3>5. p + 1 # 1 /\ p + 1 # Len(half)
      BY <2>1, <2>2, <3>4, NotTheEnds
    <3> QED
      BY <3>3, <3>5
  <2> QED
    BY <1>5, <1>6, <2>1, <2>2
<1> DEFINE x == p
<1>8. half[p] \in Articled /\ half[p + 1] \in Articled
  BY <1>4, <1>5, <1>7
<1> HIDE DEF P
<1>9. PICK a \in DOMAIN text \ P, b \in DOMAIN text \ P :
        /\ a < b /\ \A r \in (a + 1)..(b - 1) : r \in P
        /\ half[p] = text[a] /\ half[p + 1] = text[b]
  <2>1. p \in 1..(Len(Omit(text, P)) - 1)
    BY <1>1, <1>7
  <2>2. Parted(text, P)
    BY Neighbours
  <2> QED
    BY <1>1, <2>1, <2>2 DEF Parted
<1>10. Len(text) \in Nat /\ DOMAIN text = 1..Len(text)
  BY Lengths
<1>11. a \in Int /\ b \in Int /\ 1 <= a /\ b <= Len(text)
  BY <1>10
<1>12. ASSUME a + 1 < b PROVE FALSE
  <2>1. a + 1 \in P
    <3>1. a + 1 \in (a + 1)..(b - 1)
      BY <1>11, <1>12
    <3> QED
      BY <1>9, <3>1
  <2>2. PICK n \in 1..(a + 1) : n % 2 = 0 /\ \A j \in ((a + 1) - n + 1)..(a + 1) : text[j] = Word("comma")
    BY <2>1 DEF P
  <2>3. n \in Int /\ 2 <= n
    BY <1>11, <2>2
  <2>4. a \in ((a + 1) - n + 1)..(a + 1)
    BY <1>11, <2>3
  <2>5. text[a] = Word("comma")
    BY <2>2, <2>4
  <2> QED
    BY <1>3, <1>8, <1>9, <2>5
<1>13. b = a + 1 /\ a \in 1..(Len(text) - 1)
  BY <1>9, <1>10, <1>11, <1>12
<1> QED
  BY <1>8, <1>9, <1>13 DEF Together

\* An article that goes had a native word behind it.
Paired(article, text) ==
  \A i \in 1..(Len(Without(article, text)) - 1) :
    \E p \in 1..(Len(text) - 1) :
      /\ Without(article, text)[i] = text[p]
      /\ \/ p \notin Before(article, text) /\ Without(article, text)[i + 1] = text[p + 1]
         \/ text[p + 1] = Word(article) /\ Without(article, text)[i + 1][1] \in Native

LEMMA ArticlePairs ==
  ASSUME NEW text \in Seq(Remains), NEW article \in {"the", "a"}
  PROVE  Paired(article, text)
<1> DEFINE P == Before(article, text)
           out == Without(article, text)
<1>0. Len(text) \in Nat /\ DOMAIN text = 1..Len(text)
  BY Lengths
<1>1. Word(article)[1] \notin Native
  BY WordKinds DEF Native
<1>2. out = Omit(text, P)
  BY DEF Without
<1> HIDE DEF out, P
<1>3. ASSUME NEW i \in 1..(Len(out) - 1)
      PROVE  \E p \in 1..(Len(text) - 1) :
               /\ out[i] = text[p]
               /\ \/ p \notin P /\ out[i + 1] = text[p + 1]
                  \/ text[p + 1] = Word(article) /\ out[i + 1][1] \in Native
  <2>1. PICK p \in DOMAIN text \ P, q \in DOMAIN text \ P :
          /\ p < q /\ \A r \in (p + 1)..(q - 1) : r \in P
          /\ out[i] = text[p] /\ out[i + 1] = text[q]
    <3>1. i \in 1..(Len(Omit(text, P)) - 1)
      BY <1>2, <1>3
    <3>2. Parted(text, P)
      BY Neighbours
    <3> QED
      BY <1>2, <3>1, <3>2 DEF Parted
  <2>2. p \in Int /\ q \in Int /\ 1 <= p /\ q <= Len(text) /\ p \notin P
    BY <1>0
  <2>3. p \in 1..(Len(text) - 1)
    BY <1>0, <2>1, <2>2
  <2>4. CASE q = p + 1
    BY <2>1, <2>2, <2>3, <2>4
  <2>5. CASE p + 1 < q
    <3>1. p + 1 \in (p + 1)..(q - 1)
      BY <2>2, <2>5
    <3>2. p + 1 \in P
      BY <2>1, <3>1
    <3>3. text[p + 1] = Word(article) /\ text[(p + 1) + 1][1] \in Native
      BY <3>2 DEF P, Before
    <3>4. ASSUME (p + 1) + 1 < q PROVE FALSE
      <4>1. (p + 1) + 1 \in (p + 1)..(q - 1)
        BY <2>2, <3>4
      <4>2. (p + 1) + 1 \in P
        BY <2>1, <4>1
      <4>3. text[(p + 1) + 1] = Word(article)
        BY <4>2 DEF P, Before
      <4> QED
        BY <1>1, <3>3, <4>3
    <3>5. (p + 1) + 1 = q
      BY <2>2, <2>5, <3>4
    <3> QED
      BY <2>1, <2>3, <3>3, <3>5
  <2> QED
    BY <2>1, <2>2, <2>4, <2>5
<1> QED
  BY <1>3 DEF Paired, out, P

\* Only an article behind another stays in front of a native word.
LEMMA ArticlesJoin ==
  ASSUME NEW text \in Seq(Remains),
         NEW i \in 1..(Len(Without("a", Without("the", text))) - 1),
         Without("a", Without("the", text))[i] \in Articled,
         Without("a", Without("the", text))[i + 1][1] \in Native
  PROVE  Together(Articled, text)
<1> DEFINE mid == Without("the", text)
           out == Without("a", mid)
<1>0. mid \in Seq(Remains)
  BY PassesIn
<1>1. Articled = {Word("the"), Word("a")} /\ Word("a")[1] \notin Native
  BY WordKinds DEF Articled, Native
<1>2. out[i] \in Articled /\ out[i + 1][1] \in Native /\ i \in 1..(Len(out) - 1)
  OBVIOUS
<1>3. Paired("a", mid)
  <2> HIDE DEF mid
  <2> QED
    BY <1>0, ArticlePairs
<1>4. PICK p \in 1..(Len(mid) - 1) :
        /\ out[i] = mid[p]
        /\ \/ p \notin Before("a", mid) /\ out[i + 1] = mid[p + 1]
           \/ mid[p + 1] = Word("a") /\ out[i + 1][1] \in Native
  <2> HIDE DEF mid
  <2> QED
    BY <1>2, <1>3 DEF Paired
<1>5. PICK r \in 1..(Len(text) - 1) :
        /\ mid[p] = text[r]
        /\ \/ r \notin Before("the", text) /\ mid[p + 1] = text[r + 1]
           \/ text[r + 1] = Word("the") /\ mid[p + 1][1] \in Native
  <2>1. Paired("the", text)
    BY ArticlePairs
  <2> QED
    BY <1>4, <2>1 DEF Paired
<1> HIDE DEF out, mid
<1>6. CASE p \notin Before("a", mid) /\ out[i + 1] = mid[p + 1]
  <2>1. mid[p] # Word("a") /\ mid[p + 1][1] \in Native
    BY <1>2, <1>4, <1>6 DEF Before
  <2>2. text[r] = Word("the")
    BY <1>1, <1>2, <1>4, <1>5, <2>1
  <2>3. ~(r \notin Before("the", text) /\ mid[p + 1] = text[r + 1])
    BY <2>1, <2>2 DEF Before
  <2>4. text[r + 1] = Word("the")
    BY <1>5, <2>3
  <2> QED
    BY <1>1, <2>2, <2>4 DEF Together
<1>7. CASE mid[p + 1] = Word("a")
  <2>1. mid[p + 1] = text[r + 1]
    BY <1>1, <1>5, <1>7
  <2>2. text[r] \in Articled /\ text[r + 1] \in Articled
    BY <1>1, <1>2, <1>4, <1>5, <1>7, <2>1
  <2> QED
    BY <2>2 DEF Together
<1> QED
  BY <1>4, <1>6, <1>7

\* A text that neither begins nor ends with a comma.
Bare(text) == text # <<>> => text[1] # Word("comma") /\ text[Len(text)] # Word("comma")

LEMMA WithoutBare ==
  ASSUME NEW text \in Seq(Remains), NEW article \in {"the", "a"}, Bare(text)
  PROVE  Bare(Without(article, text))
<1> DEFINE P == Before(article, text)
           out == Without(article, text)
<1>0. Len(text) \in Nat /\ DOMAIN text = 1..Len(text)
  BY Lengths
<1>1. Word("comma")[1] \notin Native
  BY WordKinds DEF Native
<1>2. out = Omit(text, P)
  BY DEF Without
<1>3. \A r \in P : r \in 1..(Len(text) - 1) /\ text[r + 1] # Word("comma")
  BY <1>1 DEF Before
<1> HIDE DEF out, P
<1>4. SUFFICES ASSUME out # <<>>
               PROVE  out[1] # Word("comma") /\ out[Len(out)] # Word("comma")
  BY DEF Bare, out
<1>5. /\ \E p \in DOMAIN text \ P : out[1] = text[p] /\ \A r \in 1..(p - 1) : r \in P
      /\ \E p \in DOMAIN text \ P :
           out[Len(out)] = text[p] /\ \A r \in (p + 1)..Len(text) : r \in P
  BY <1>2, <1>4, Ends
<1>6. ASSUME NEW p \in DOMAIN text \ P, \A r \in 1..(p - 1) : r \in P PROVE text[p] # Word("comma")
  <2>1. p \in Int /\ 1 <= p /\ p <= Len(text) /\ text # <<>>
    BY <1>0
  <2>2. CASE p = 1
    BY <2>1, <2>2 DEF Bare
  <2>3. CASE p # 1
    <3>1. p - 1 \in 1..(p - 1) /\ (p - 1) + 1 = p
      BY <2>1, <2>3
    <3>2. p - 1 \in P
      BY <1>6, <3>1
    <3>3. text[(p - 1) + 1] # Word("comma")
      BY <1>3, <3>2
    <3>4. (p - 1) + 1 = p
      BY <2>1
    <3> QED
      BY <3>3, <3>4
  <2> QED
    BY <2>2, <2>3
<1>7. ASSUME NEW p \in DOMAIN text \ P, \A r \in (p + 1)..Len(text) : r \in P
      PROVE  text[p] # Word("comma")
  <2>1. p \in Int /\ 1 <= p /\ p <= Len(text) /\ text # <<>>
    BY <1>0
  <2>2. CASE p = Len(text)
    BY <2>1, <2>2 DEF Bare
  <2>3. CASE p # Len(text)
    <3>0. Len(text) \in Int
      BY <1>0
    <3>4. p + 1 <= Len(text)
      BY <2>1, <2>3, <3>0
    <3>1. Len(text) \in (p + 1)..Len(text)
      BY <2>1, <3>0, <3>4
    <3>2. Len(text) \in P
      BY <1>7, <3>1
    <3>3. Len(text) \in 1..(Len(text) - 1)
      BY <1>3, <3>2
    <3> QED
      BY <1>0, <3>3
  <2> QED
    BY <2>2, <2>3
<1> QED
  BY <1>5, <1>6, <1>7

\* Nothing changes a word into a comma.
LEMMA MappedBare ==
  ASSUME NEW text \in Seq(Remains), NEW F \in [Remains -> Remains],
         \A w \in Remains : F[w] = Word("comma") => w = Word("comma"), Bare(text)
  PROVE  Bare(Mapped(F, text))
<1> DEFINE new == Mapped(F, text)
<1>1. Len(text) \in Nat /\ DOMAIN text = 1..Len(text) /\ \A i \in DOMAIN text : text[i] \in Remains
  BY Lengths
<1>2. new \in Seq(Remains) /\ Len(new) = Len(text) /\ \A i \in DOMAIN text : new[i] = F[text[i]]
  BY MappedIn
<1> HIDE DEF new
<1>3. SUFFICES ASSUME new # <<>>
               PROVE  new[1] # Word("comma") /\ new[Len(new)] # Word("comma")
  BY DEF Bare, new
<1>4. Len(text) \in Nat \ {0} /\ text # <<>>
  BY <1>1, <1>2, <1>3
<1>5. 1 \in DOMAIN text /\ Len(text) \in DOMAIN text
  BY <1>1, <1>4
<1>6. text[1] # Word("comma") /\ text[Len(text)] # Word("comma")
  BY <1>4 DEF Bare
<1> QED
  BY <1>1, <1>2, <1>5, <1>6

\* No noise in a text but fragments.
Loud == Noise \ {"fragment"}

Quiet(text) == \A i \in DOMAIN text : text[i][1] \notin Loud

LEMMA OmitQuiet ==
  ASSUME NEW text \in Seq(Remains), NEW P, Quiet(text)
  PROVE  Quiet(Omit(text, P))
<1>1. \A j \in DOMAIN Omit(text, P) : \E i \in DOMAIN text \ P : Omit(text, P)[j] = text[i]
  BY OmitIn
<1> QED
  BY <1>1 DEF Quiet

LEMMA MappedQuiet ==
  ASSUME NEW text \in Seq(Remains), NEW F \in [Remains -> Remains], Quiet(text),
         \A w \in Remains : w[1] \notin Loud => F[w][1] \notin Loud
  PROVE  Quiet(Mapped(F, text))
<1>1. \A i \in DOMAIN text : text[i] \in Remains
  BY Lengths
<1>2. DOMAIN Mapped(F, text) = DOMAIN text /\ \A i \in DOMAIN text : Mapped(F, text)[i] = F[text[i]]
  BY MappedIn
<1> QED
  BY <1>1, <1>2 DEF Quiet

LEMMA SwipeQuiet ==
  ASSUME NEW text \in Seq(Remains)
  PROVE  Quiet(Swipe(text))
<1> DEFINE new == Mapped(LeftOf, text)
           P == WordsAt(new, Kind(Swept))
<1>1. /\ new \in Seq(Remains) /\ DOMAIN new = DOMAIN text
      /\ \A i \in DOMAIN text : new[i] = LeftOf[text[i]] /\ text[i] \in Remains
  BY LeftTypes, MappedIn, Lengths
<1> HIDE DEF new
<1>2. ASSUME NEW i \in DOMAIN new \ P PROVE new[i][1] \notin Loud
  <2>1. new[i] \in Remains /\ new[i] \notin Kind(Swept)
    BY <1>1 DEF WordsAt
  <2>2. new[i][1] \notin Swept
    BY <2>1 DEF Kind
  <2>3. new[i][1] \notin {"foreign", "glued", "accented"}
    BY <1>1, LeftTypes
  <2> QED
    BY <2>2, <2>3 DEF Swept, Loud, Noise, Broken
<1>3. \A j \in DOMAIN Omit(new, P) : \E i \in DOMAIN new \ P : Omit(new, P)[j] = new[i]
  <2> HIDE DEF P
  <2> QED
    BY <1>1, OmitIn
<1>4. Quiet(Omit(new, P))
  BY <1>2, <1>3 DEF Quiet
<1> QED
  BY <1>4 DEF Swipe, new

LEMMA WordChanges ==
  ASSUME NEW F \in [Remains -> Remains],
         \A w \in Remains : /\ w[1] \notin Native => F[w] = w
                            /\ w[1] \in Native <=> F[w][1] \in Native
  PROVE  \A w \in Remains : /\ w[1] \notin Loud => F[w][1] \notin Loud
                            /\ F[w] = Word("comma") => w = Word("comma")
                            /\ F[w] \in Articled <=> w \in Articled
<1>1. Word("comma")[1] \notin Native /\ \A x \in Articled : x[1] \notin Native
  BY WordKinds DEF Native, Articled
<1>2. Native \cap Loud = {}
  BY DEF Native, Loud, Noise, Broken
<1> SUFFICES ASSUME NEW w \in Remains
             PROVE  /\ w[1] \notin Loud => F[w][1] \notin Loud
                    /\ F[w] = Word("comma") => w = Word("comma")
                    /\ F[w] \in Articled <=> w \in Articled
  OBVIOUS
<1>3. CASE w[1] \in Native
  <2>1. F[w][1] \in Native
    BY <1>3
  <2>2. F[w][1] \notin Loud
    BY <1>2, <2>1
  <2> QED
    BY <1>1, <1>3, <2>1, <2>2
<1>4. CASE w[1] \notin Native
  BY <1>4
<1> QED
  BY <1>3, <1>4

LEMMA MappedTogether ==
  ASSUME NEW text \in Seq(Remains), NEW F \in [Remains -> Remains],
         \A w \in Remains : F[w] \in Articled <=> w \in Articled,
         Together(Articled, Mapped(F, text))
  PROVE  Together(Articled, text)
<1> DEFINE new == Mapped(F, text)
<1>1. /\ Len(new) = Len(text) /\ DOMAIN new = DOMAIN text
      /\ \A i \in DOMAIN text : new[i] = F[text[i]]
  BY MappedIn
<1>2. PICK i \in 1..(Len(new) - 1) : new[i] \in Articled /\ new[i + 1] \in Articled
  BY DEF Together
<1> HIDE DEF new
<1>3. i \in 1..(Len(text) - 1)
  BY <1>1, <1>2
<1>4. i \in DOMAIN text /\ i + 1 \in DOMAIN text /\ text[i] \in Remains /\ text[i + 1] \in Remains
  BY <1>3, Lengths
<1>5. text[i] \in Articled /\ text[i + 1] \in Articled
  BY <1>1, <1>2, <1>4
<1> QED
  BY <1>3, <1>5 DEF Together

\* One fragment is left of each accented word.
LEMMA FragmentsStay ==
  ASSUME NEW l \in South, NEW text \in Seq(Words), NEW dialect
  PROVE  Len(Only(Normalize(l, text, dialect), Broken)) = Len(Only(text, Broken))
<1> DEFINE one == Only(text, Broken)
           two == Mapped(LeftOf, one)
           three == Mapped(CanonicalOf, two)
           four == Mapped(SpeltFor(dialect), three)
<1>0. text \in Seq(Remains) /\ Lasting(Broken)
  BY DEF Remains, Lasting
<1>1. one \in Seq(Remains)
  BY <1>0, OnlyIn
<1>2. Only(Normalize(l, text, dialect), Broken) = four
  BY <1>0, Lasts
<1> HIDE DEF one
<1>3. two \in Seq(Remains) /\ Len(two) = Len(one)
  BY <1>1, LeftTypes, MappedIn
<1> HIDE DEF two
<1>4. three \in Seq(Remains) /\ Len(three) = Len(two)
  BY <1>3, CanonicalTypes, MappedIn
<1> HIDE DEF three
<1>5. Len(four) = Len(three)
  BY <1>4, SpeltTypes, MappedIn
<1> QED
  BY <1>2, <1>3, <1>4, <1>5 DEF one

(* What Whisper made up is gone, and with it the commas and articles that   *)
(* stood beside it (_clean_whisper_hallucinations, _normalize_telugu), from *)
(* a text of any length and for any dialect.  What stays of the noise is    *)
(* one fragment of each accented word: its letters go before the list of    *)
(* words is searched.                                                       *)
THEOREM NoiseGoes ==
  ASSUME NEW l \in South, NEW text \in Seq(Words), NEW dialect
  PROVE  LosesNoise(l, text, dialect)
<1> DEFINE swiped == Swipe(text)
           clean == Clean(l, text)
           spelled == Spelled(clean)
           bare == Articles(l, spelled)
           out == Normalize(l, text, dialect)
<1>0. text \in Seq(Remains)
  BY DEF Remains
<1>1. swiped \in Seq(Remains) /\ Quiet(swiped)
  BY <1>0, SweptOnce, SwipeQuiet
<1>2. clean = Trimmed(Halved(swiped))
  BY <1>0, SweptOnce DEF Clean, Commas
<1>3. Halved(swiped) \in Seq(Remains) /\ Quiet(Halved(swiped))
  <2> HIDE DEF swiped
  <2> QED
    BY <1>1, PassesIn, OmitQuiet DEF Halved
<1>4. clean \in Seq(Remains) /\ Quiet(clean)
  <2> DEFINE half == Halved(swiped)
  <2>1. half \in Seq(Remains) /\ Quiet(half)
    BY <1>3
  <2> HIDE DEF half
  <2>2. Trimmed(half) \in Seq(Remains) /\ Quiet(Trimmed(half))
    BY <2>1, PassesIn, OmitQuiet DEF Trimmed
  <2> HIDE DEF clean
  <2> QED
    BY <1>2, <2>2 DEF half
<1> HIDE DEF clean
<1>5. spelled = Mapped(CanonicalOf, clean)
  BY <1>4, PassesMapped
<1>6. /\ \A w \in Remains : /\ w[1] \notin Loud => CanonicalOf[w][1] \notin Loud
                            /\ CanonicalOf[w] = Word("comma") => w = Word("comma")
                            /\ CanonicalOf[w] \in Articled <=> w \in Articled
      /\ CanonicalOf \in [Remains -> Remains]
  BY CanonicalTypes, WordChanges
<1>7. /\ \A w \in Remains : /\ w[1] \notin Loud => SpeltFor(dialect)[w][1] \notin Loud
                            /\ SpeltFor(dialect)[w] = Word("comma") => w = Word("comma")
                            /\ SpeltFor(dialect)[w] \in Articled <=> w \in Articled
      /\ SpeltFor(dialect) \in [Remains -> Remains]
  BY SpeltTypes, WordChanges
<1>8. spelled \in Seq(Remains) /\ Quiet(spelled)
  <2>1. Mapped(CanonicalOf, clean) \in Seq(Remains)
    BY <1>4, <1>6, MappedIn
  <2>2. Quiet(Mapped(CanonicalOf, clean))
    BY <1>4, <1>6, MappedQuiet
  <2> QED
    BY <1>5, <2>1, <2>2
<1> HIDE DEF spelled
<1> DEFINE mid == Without("the", spelled)
<1>9. mid \in Seq(Remains) /\ Quiet(mid)
  BY <1>8, PassesIn, OmitQuiet DEF Without
<1>10. l \in {"te", "kn"} => bare = Without("a", mid)
  BY DEF Articles
<1>11. l \notin {"te", "kn"} => bare = spelled
  BY DEF Articles
<1> HIDE DEF mid, bare
<1>12. bare \in Seq(Remains) /\ Quiet(bare)
  <2>1. Without("a", mid) \in Seq(Remains) /\ Quiet(Without("a", mid))
    BY <1>9, PassesIn, OmitQuiet DEF Without
  <2> QED
    BY <1>8, <1>10, <1>11, <2>1
<1>13. out = Mapped(SpeltFor(dialect), bare)
  BY <1>12, PassesMapped DEF Normalize, bare, spelled, clean
<1>14. /\ out \in Seq(Remains) /\ Quiet(out) /\ Len(out) = Len(bare) /\ DOMAIN out = DOMAIN bare
       /\ \A i \in DOMAIN bare : out[i] = SpeltFor(dialect)[bare[i]]
  <2> DEFINE new == Mapped(SpeltFor(dialect), bare)
  <2>1. /\ new \in Seq(Remains) /\ Len(new) = Len(bare) /\ DOMAIN new = DOMAIN bare
        /\ \A i \in DOMAIN bare : new[i] = SpeltFor(dialect)[bare[i]]
    BY <1>7, <1>12, MappedIn
  <2>2. Quiet(new)
    BY <1>7, <1>12, MappedQuiet
  <2> HIDE DEF new, out
  <2> QED
    BY <1>13, <2>1, <2>2 DEF new
<1> HIDE DEF out, swiped
<1>15. ASSUME ~Together({Word("comma")}, Real(text)) PROVE Bare(out)
  <2>1. ~Together({Word("comma")}, swiped)
    <3> SUFFICES ASSUME NEW i \in 1..(Len(swiped) - 1),
                        swiped[i] \in {Word("comma")}, swiped[i + 1] \in {Word("comma")}
                 PROVE  FALSE
      BY DEF Together
    <3>1. \A w \in {Word("comma")} : w[1] \notin Noise \cup {"gone"}
      BY WordKinds DEF Noise, Broken
    <3>2. Together({Word("comma")}, Real(text))
      BY <3>1, SweptApart DEF swiped
    <3> QED
      BY <1>15, <3>2
  <2>2. /\ Halved(swiped) = swiped
        /\ Trimmed(swiped) # <<>> =>
             /\ Trimmed(swiped)[1] # Word("comma")
             /\ Trimmed(swiped)[Len(Trimmed(swiped))] # Word("comma")
    BY <1>1, <2>1, CommasGo
  <2>3. Bare(clean)
    BY <1>2, <2>2 DEF Bare
  <2>4. Bare(spelled)
    BY <1>4, <1>5, <1>6, <2>3, MappedBare
  <2>5. Bare(mid)
    BY <1>8, <2>4, WithoutBare DEF mid
  <2>6. Bare(Without("a", mid))
    BY <1>9, <2>5, WithoutBare
  <2>7. Bare(bare)
    BY <1>10, <1>11, <2>4, <2>6
  <2>8. Bare(Mapped(SpeltFor(dialect), bare))
    BY <1>7, <1>12, <2>7, MappedBare
  <2> QED
    BY <1>13, <2>8
<1>16. ASSUME l \in {"te", "kn"}, NEW i \in 1..(Len(out) - 1),
              out[i] \in Articled, out[i + 1][1] \in Native
       PROVE  Together(Articled, Real(text))
  <2>1. i \in 1..(Len(bare) - 1)
    BY <1>14, <1>16
  <2>2. i \in DOMAIN bare /\ i + 1 \in DOMAIN bare /\ bare[i] \in Remains /\ bare[i + 1] \in Remains
    BY <1>12, <2>1, Lengths
  <2>3. bare[i] \in Articled
    BY <1>7, <1>14, <1>16, <2>2
  <2>4. bare[i + 1][1] \in Native
    BY <1>14, <1>16, <2>2, SpeltTypes
  <2>5. bare = Without("a", Without("the", spelled))
    BY <1>10, <1>16 DEF mid
  <2>6. Together(Articled, spelled)
    BY <1>8, <2>1, <2>3, <2>4, <2>5, ArticlesJoin
  <2>7. Together(Articled, clean)
    BY <1>4, <1>5, <1>6, <2>6, MappedTogether
  <2>8. Together(Articled, swiped)
    BY <1>1, <1>2, <2>7, CommasJoin
  <2>9. PICK j \in 1..(Len(swiped) - 1) : swiped[j] \in Articled /\ swiped[j + 1] \in Articled
    BY <2>8 DEF Together
  <2>10. \A w \in Articled : w[1] \notin Noise \cup {"gone"}
    BY WordKinds DEF Articled, Noise, Broken
  <2> QED
    BY <2>9, <2>10, SweptApart DEF swiped
<1>17. \A i \in DOMAIN out : out[i][1] \notin Noise \ {"fragment"}
  BY <1>14 DEF Quiet, Loud
<1>18. out # <<>> /\ Word("comma") \in {out[1], out[Len(out)]} => Together({Word("comma")}, Real(text))
  BY <1>15 DEF Bare
<1>19. Len(Only(out, Broken)) = Len(Only(text, Broken))
  BY FragmentsStay DEF out
<1> QED
  BY <1>16, <1>17, <1>18, <1>19 DEF LosesNoise, out

-----------------------------------------------------------------------------
(* The scores of the detector.                                             *)

LEMMA Tables ==
  /\ Malayalam \in Seq(Seq(Nat)) /\ Tamil \in Seq(Seq(Nat))
  /\ Telugu \in Seq(Seq(Nat)) /\ Kannada \in Seq(Seq(Nat))
<1>1. Malayalam \in Seq(Seq(Nat))
  BY DEF Malayalam
<1>2. Tamil \in Seq(Seq(Nat))
  BY DEF Tamil
<1>3. Telugu \in Seq(Seq(Nat))
  BY DEF Telugu
<1>4. Kannada \in Seq(Seq(Nat))
  BY DEF Kannada
<1> QED
  BY <1>1, <1>2, <1>3, <1>4

LEMMA Languages ==
  /\ South = {"ml", "ta", "te", "kn"}
  /\ \A l \in South : /\ Weights[l] \in Seq(Seq(Nat)) /\ DOMAIN Weights[l] \subseteq Nat
                      /\ \A d \in DOMAIN Weights[l] : Weights[l][d] \in Seq(Nat)
<1>1. South = {"ml", "ta", "te", "kn"} /\ \A l \in South : Weights[l] \in Seq(Seq(Nat))
  BY Tables DEF South, Weights
<1>2. ASSUME NEW l \in South
      PROVE  /\ DOMAIN Weights[l] \subseteq Nat
             /\ \A d \in DOMAIN Weights[l] : Weights[l][d] \in Seq(Nat)
  BY <1>1
<1> QED
  BY <1>1, <1>2

Sums(f, l, text, d) ==
  f = [i \in 0..Len(Weights[l][d]) |->
         IF i = 0 THEN 0
         ELSE f[i - 1] + IF Contains(l, text, Marker(d, i)) THEN Weights[l][d][i] ELSE 0]

\* The score of the first markers of a list.
Partial(l, text, d) == CHOOSE f : Sums(f, l, text, d)

LEMMA ScoreIsPartial ==
  ASSUME NEW l, NEW text, NEW d
  PROVE  Score(l, text, d) = Partial(l, text, d)[Len(Weights[l][d])]
BY DEF Score, Partial, Sums

LEMMA SumsExist ==
  ASSUME NEW l \in South, NEW text, NEW d \in DOMAIN Weights[l]
  PROVE  Sums(Partial(l, text, d), l, text, d)
<1> DEFINE v(i) == IF Contains(l, text, Marker(d, i)) THEN Weights[l][d][i] ELSE 0
           Def(f, n) == f = [i \in 0..n |-> IF i = 0 THEN 0 ELSE f[i - 1] + v(i)]
           T == {n \in Nat : \E f : Def(f, n)}
<1>0. Len(Weights[l][d]) \in Nat
  BY Languages
<1> HIDE DEF v
<1>1. 0 \in T
  <2>1. Def([i \in 0..0 |-> 0], 0)
    OBVIOUS
  <2> QED
    BY <2>1
<1>2. ASSUME NEW n \in T PROVE n + 1 \in T
  <2>1. PICK f : Def(f, n)
    BY <1>2
  <2> DEFINE g == [i \in 0..(n + 1) |-> IF i = n + 1 THEN f[n] + v(n + 1) ELSE f[i]]
  <2>2. g = [i \in 0..(n + 1) |-> IF i = 0 THEN 0 ELSE g[i - 1] + v(i)]
    <3> SUFFICES ASSUME NEW i \in 0..(n + 1)
                 PROVE  g[i] = IF i = 0 THEN 0 ELSE g[i - 1] + v(i)
      OBVIOUS
    <3>1. CASE i = n + 1
      <4>1. i # 0 /\ i - 1 = n /\ i - 1 \in 0..(n + 1) /\ i - 1 # n + 1
        BY <3>1
      <4>2. g[i] = f[n] + v(n + 1) /\ g[i - 1] = f[n]
        BY <3>1, <4>1
      <4> QED
        BY <3>1, <4>1, <4>2
    <3>2. CASE i # n + 1
      <4>1. i \in 0..n /\ (i # 0 => i - 1 \in 0..n /\ i - 1 # n + 1)
        BY <3>2
      <4>2. f[i] = IF i = 0 THEN 0 ELSE f[i - 1] + v(i)
        BY <2>1, <4>1
      <4>3. g[i] = f[i] /\ (i # 0 => g[i - 1] = f[i - 1])
        BY <3>2, <4>1
      <4> QED
        BY <4>2, <4>3
    <3> QED
      BY <3>1, <3>2
  <2>3. \E f2 : Def(f2, n + 1)
    <3>1. Def(g, n + 1)
      BY <2>2
    <3> HIDE DEF g
    <3> QED
      BY <3>1
  <2>4. n + 1 \in Nat
    OBVIOUS
  <2> HIDE DEF Def
  <2> QED
    BY <2>3, <2>4
<1>3. T = Nat
  <2> HIDE DEF T
  <2> QED
    BY <1>1, <1>2, NatSets DEF T
<1>4. \E f : Sums(f, l, text, d)
  <2>1. Len(Weights[l][d]) \in T
    BY <1>0, <1>3
  <2> QED
    BY <2>1 DEF Sums, v
<1> QED
  BY <1>4 DEF Partial

LEMMA ScoreSteps ==
  ASSUME NEW l \in South, NEW text, NEW d \in DOMAIN Weights[l]
  PROVE  /\ Len(Weights[l][d]) \in Nat
         /\ Partial(l, text, d)[0] = 0
         /\ \A i \in 1..Len(Weights[l][d]) :
              /\ Weights[l][d][i] \in Nat
              /\ Contains(l, text, Marker(d, i)) =>
                   Partial(l, text, d)[i] = Partial(l, text, d)[i - 1] + Weights[l][d][i]
              /\ ~Contains(l, text, Marker(d, i)) =>
                   Partial(l, text, d)[i] = Partial(l, text, d)[i - 1] + 0
<1> DEFINE f == Partial(l, text, d)
           v(i) == IF Contains(l, text, Marker(d, i)) THEN Weights[l][d][i] ELSE 0
<1>1. Len(Weights[l][d]) \in Nat /\ \A i \in 1..Len(Weights[l][d]) : Weights[l][d][i] \in Nat
  <2>1. Weights[l][d] \in Seq(Nat)
    BY Languages
  <2> HIDE DEF f, v
  <2> QED
    BY <2>1
<1>2. f = [i \in 0..Len(Weights[l][d]) |-> IF i = 0 THEN 0 ELSE f[i - 1] + v(i)]
  BY SumsExist DEF Sums
<1> HIDE DEF f
<1>3. f[0] = 0
  BY <1>1, <1>2
<1>4. ASSUME NEW i \in 1..Len(Weights[l][d])
      PROVE  /\ Contains(l, text, Marker(d, i)) => f[i] = f[i - 1] + Weights[l][d][i]
             /\ ~Contains(l, text, Marker(d, i)) => f[i] = f[i - 1] + 0
  <2>1. i \in 0..Len(Weights[l][d]) /\ i # 0
    BY <1>1
  <2> HIDE DEF v
  <2>2. f[i] = IF i = 0 THEN 0 ELSE f[i - 1] + v(i)
    BY <1>2, <2>1
  <2>3. f[i] = f[i - 1] + v(i)
    BY <2>1, <2>2
  <2> QED
    BY <2>3 DEF v
<1> QED
  BY <1>1, <1>3, <1>4 DEF f

LEMMA PartialNat ==
  ASSUME NEW l \in South, NEW text, NEW d \in DOMAIN Weights[l]
  PROVE  \A i \in 0..Len(Weights[l][d]) : Partial(l, text, d)[i] \in Nat
<1> DEFINE n == Len(Weights[l][d])
           f == Partial(l, text, d)
           T == {i \in Nat : f[i] \in Nat}
<1>1. n \in Nat /\ f[0] = 0
  BY ScoreSteps
<1> HIDE DEF f
<1>2. 0 \in T
  BY <1>1
<1>3. \A i \in 0..n : i \in T /\ i < n => i + 1 \in T
  <2> SUFFICES ASSUME NEW i \in 0..n, i \in T, i < n PROVE i + 1 \in T
    OBVIOUS
  <2>1. i + 1 \in 1..n /\ (i + 1) - 1 = i /\ f[i] \in Nat /\ i \in Nat
    BY <1>1
  <2>2. /\ Weights[l][d][i + 1] \in Nat
        /\ \/ f[i + 1] = f[(i + 1) - 1] + Weights[l][d][i + 1]
           \/ f[i + 1] = f[(i + 1) - 1] + 0
    BY <2>1, ScoreSteps DEF f
  <2>3. f[i + 1] \in Nat
    BY <2>1, <2>2
  <2> QED
    BY <2>1, <2>3
<1>4. \A i \in 0..n : i \in T
  <2> HIDE DEF T, n
  <2> QED
    BY <1>1, <1>2, <1>3, UpToSets
<1> QED
  BY <1>4 DEF f

\* Whoever is found to say more scores more.
LEMMA ScoreMore ==
  ASSUME NEW l \in South, NEW text, NEW more, NEW d \in DOMAIN Weights[l],
         \A i \in 1..Len(Weights[l][d]) :
           Contains(l, text, Marker(d, i)) => Contains(l, more, Marker(d, i))
  PROVE  Score(l, text, d) <= Score(l, more, d)
<1> DEFINE n == Len(Weights[l][d])
           f == Partial(l, text, d)
           g == Partial(l, more, d)
           T == {i \in Nat : f[i] <= g[i]}
<1>1. n \in Nat /\ f[0] = 0 /\ g[0] = 0
  BY ScoreSteps
<1>2. \A i \in 0..n : f[i] \in Nat /\ g[i] \in Nat
  BY PartialNat
<1> HIDE DEF f, g
<1>3. 0 \in T
  BY <1>1
<1>4. \A i \in 0..n : i \in T /\ i < n => i + 1 \in T
  <2> SUFFICES ASSUME NEW i \in 0..n, i \in T, i < n PROVE i + 1 \in T
    OBVIOUS
  <2>1. i + 1 \in 1..n /\ (i + 1) - 1 = i /\ f[i] <= g[i] /\ i \in Nat /\ i \in 0..n
    BY <1>1
  <2>2. f[i] \in Nat /\ g[i] \in Nat
    BY <1>2, <2>1
  <2>3. /\ Weights[l][d][i + 1] \in Nat
        /\ Contains(l, text, Marker(d, i + 1)) => f[i + 1] = f[(i + 1) - 1] + Weights[l][d][i + 1]
        /\ ~Contains(l, text, Marker(d, i + 1)) => f[i + 1] = f[(i + 1) - 1] + 0
    BY <2>1, ScoreSteps DEF f
  <2>4. /\ Contains(l, more, Marker(d, i + 1)) => g[i + 1] = g[(i + 1) - 1] + Weights[l][d][i + 1]
        /\ ~Contains(l, more, Marker(d, i + 1)) => g[i + 1] = g[(i + 1) - 1] + 0
    BY <2>1, ScoreSteps DEF g
  <2>5. Contains(l, text, Marker(d, i + 1)) => Contains(l, more, Marker(d, i + 1))
    BY <2>1
  <2>6. f[i + 1] <= g[i + 1]
    BY <2>1, <2>2, <2>3, <2>4, <2>5
  <2> QED
    BY <2>1, <2>6
<1>5. \A i \in 0..n : i \in T
  <2> HIDE DEF T, n
  <2> QED
    BY <1>1, <1>3, <1>4, UpToSets
<1>6. n \in 0..n
  BY <1>1
<1> QED
  BY <1>5, <1>6, ScoreIsPartial DEF f, g

LEMMA ScoreNat ==
  ASSUME NEW l \in South, NEW text, NEW d \in DOMAIN Weights[l]
  PROVE  Score(l, text, d) \in Nat
<1>1. Len(Weights[l][d]) \in 0..Len(Weights[l][d])
  BY ScoreSteps
<1> QED
  BY <1>1, PartialNat, ScoreIsPartial

LEMMA ScoreSame ==
  ASSUME NEW l \in South, NEW text, NEW other, NEW d \in DOMAIN Weights[l],
         \A i \in 1..Len(Weights[l][d]) :
           Contains(l, text, Marker(d, i)) <=> Contains(l, other, Marker(d, i))
  PROVE  Score(l, text, d) = Score(l, other, d)
<1>1. Score(l, text, d) <= Score(l, other, d)
  BY ScoreMore
<1>2. Score(l, other, d) <= Score(l, text, d)
  BY ScoreMore
<1> QED
  BY <1>1, <1>2, ScoreNat

LEMMA ScoreAtLeast ==
  ASSUME NEW l \in South, NEW text, NEW d \in DOMAIN Weights[l],
         NEW k \in 1..Len(Weights[l][d]), Contains(l, text, Marker(d, k))
  PROVE  Weights[l][d][k] <= Score(l, text, d)
<1> DEFINE n == Len(Weights[l][d])
           f == Partial(l, text, d)
           T == {i \in Nat : k <= i => Weights[l][d][k] <= f[i]}
<1>1. n \in Nat /\ k \in Int /\ 1 <= k /\ k <= n /\ Weights[l][d][k] \in Nat
  BY ScoreSteps
<1>2. \A i \in 0..n : f[i] \in Nat
  BY PartialNat
<1>3. 0 \in T
  BY <1>1
<1> HIDE DEF f
<1>4. \A i \in 0..n : i \in T /\ i < n => i + 1 \in T
  <2> SUFFICES ASSUME NEW i \in 0..n, i \in T, i < n PROVE i + 1 \in T
    OBVIOUS
  <2>1. i + 1 \in 1..n /\ (i + 1) - 1 = i /\ i \in Nat /\ i \in 0..n
    BY <1>1
  <2>2. f[i] \in Nat /\ (k <= i => Weights[l][d][k] <= f[i])
    BY <1>2, <2>1
  <2>3. /\ Weights[l][d][i + 1] \in Nat
        /\ Contains(l, text, Marker(d, i + 1)) => f[i + 1] = f[(i + 1) - 1] + Weights[l][d][i + 1]
        /\ ~Contains(l, text, Marker(d, i + 1)) => f[i + 1] = f[(i + 1) - 1] + 0
    BY <2>1, ScoreSteps DEF f
  <2>4. CASE k = i + 1
    <3>1. f[i + 1] = f[(i + 1) - 1] + Weights[l][d][i + 1]
      BY <2>3, <2>4
    <3>2. Weights[l][d][i + 1] <= f[i + 1]
      BY <2>1, <2>2, <2>3, <3>1
    <3> QED
      BY <2>1, <2>4, <3>2
  <2>5. CASE k # i + 1
    <3>1. f[i] <= f[i + 1]
      BY <2>1, <2>2, <2>3
    <3>2. f[i + 1] \in Nat
      BY <2>1, <2>2, <2>3
    <3>3. k <= i + 1 => k <= i
      BY <1>1, <2>1, <2>5
    <3>4. k <= i + 1 => Weights[l][d][k] <= f[i + 1]
      BY <1>1, <2>2, <3>1, <3>2, <3>3
    <3> QED
      BY <2>1, <3>4
  <2> QED
    BY <2>4, <2>5
<1>5. \A i \in 0..n : i \in T
  <2> HIDE DEF T, n
  <2> QED
    BY <1>1, <1>3, <1>4, UpToSets
<1>6. n \in 0..n
  BY <1>1
<1> QED
  BY <1>1, <1>5, <1>6, ScoreIsPartial DEF f

\* The score of one marker at most, the first.
LEMMA ScoreAtMost ==
  ASSUME NEW l \in South, NEW text, NEW d \in DOMAIN Weights[l], NEW c \in Nat,
         \A i \in 1..Len(Weights[l][d]) :
           Contains(l, text, Marker(d, i)) => i = 1 /\ Weights[l][d][i] <= c
  PROVE  Score(l, text, d) <= c
<1> DEFINE n == Len(Weights[l][d])
           f == Partial(l, text, d)
           T == {i \in Nat : f[i] <= c}
<1>1. n \in Nat /\ f[0] = 0
  BY ScoreSteps
<1>2. \A i \in 0..n : f[i] \in Nat
  BY PartialNat
<1> HIDE DEF f
<1>3. 0 \in T
  BY <1>1
<1>4. \A i \in 0..n : i \in T /\ i < n => i + 1 \in T
  <2> SUFFICES ASSUME NEW i \in 0..n, i \in T, i < n PROVE i + 1 \in T
    OBVIOUS
  <2>1. i + 1 \in 1..n /\ (i + 1) - 1 = i /\ i \in Nat /\ i \in 0..n /\ f[i] <= c
    BY <1>1
  <2>2. f[i] \in Nat
    BY <1>2, <2>1
  <2>3. /\ Weights[l][d][i + 1] \in Nat
        /\ Contains(l, text, Marker(d, i + 1)) => f[i + 1] = f[(i + 1) - 1] + Weights[l][d][i + 1]
        /\ ~Contains(l, text, Marker(d, i + 1)) => f[i + 1] = f[(i + 1) - 1] + 0
    BY <2>1, ScoreSteps DEF f
  <2>4. CASE Contains(l, text, Marker(d, i + 1))
    <3>1. i + 1 = 1 /\ Weights[l][d][i + 1] <= c
      BY <2>1, <2>4
    <3>2. i = 0
      BY <2>1, <3>1
    <3>3. f[i + 1] = 0 + Weights[l][d][i + 1]
      BY <1>1, <2>1, <2>3, <2>4, <3>2
    <3>4. f[i + 1] <= c
      BY <2>3, <3>1, <3>3
    <3> QED
      BY <2>1, <3>4
  <2>5. CASE ~Contains(l, text, Marker(d, i + 1))
    BY <2>1, <2>2, <2>3, <2>5
  <2> QED
    BY <2>4, <2>5
<1>5. \A i \in 0..n : i \in T
  <2> HIDE DEF T, n
  <2> QED
    BY <1>1, <1>3, <1>4, UpToSets
<1>6. n \in 0..n
  BY <1>1
<1> QED
  BY <1>5, <1>6, ScoreIsPartial DEF f

\* The one marker of another dialect that a marker has in it.
LEMMA OnlyOwn ==
  ASSUME NEW l \in South, NEW d \in DOMAIN Weights[l], NEW text \in Seq(MarkersOf(l, d)),
         NEW e \in DOMAIN Weights[l], e # d, NEW i \in 1..Len(Weights[l][e]),
         Contains(l, text, Marker(e, i))
  PROVE  /\ l = "te" /\ d = 1 /\ e = 3 /\ i = 1
         /\ Contains(l, text, Marker(1, 3))
<1>1. PICK j \in DOMAIN text : text[j] = Marker(e, i) \/ <<Marker(e, i), text[j]>> \in Within[l]
  BY DEF Contains
<1>2. PICK k \in DOMAIN Weights[l][d] : text[j] = Marker(d, k)
  <2>1. text[j] \in MarkersOf(l, d)
    OBVIOUS
  <2> QED
    BY <2>1 DEF MarkersOf
<1>3. <<Marker(e, i), Marker(d, k)>> \in Within[l]
  BY <1>1, <1>2 DEF Marker
<1>4. l = "te" /\ d = 1 /\ e = 3 /\ i = 1 /\ k = 3
  <2>1. CASE l = "ml"
    BY <1>3, <2>1 DEF Within, Marker, Form, Mangled
  <2>2. CASE l = "ta"
    BY <1>3, <2>2 DEF Within, Marker, Form
  <2>3. CASE l = "te"
    BY <1>3, <2>3 DEF Within, Marker, Form
  <2>4. CASE l = "kn"
    BY <1>3, <2>4 DEF Within, Marker, Form
  <2> QED
    BY <2>1, <2>2, <2>3, <2>4, Languages
<1>5. Contains(l, text, Marker(1, 3))
  BY <1>2, <1>4 DEF Contains
<1> QED
  BY <1>4, <1>5

LEMMA Telangana ==
  /\ 3 \in DOMAIN Weights["te"] /\ 1 \in DOMAIN Weights["te"]
  /\ Weights["te"][3][1] = 12 /\ Weights["te"][1][3] = 12 /\ 3 \in 1..Len(Weights["te"][1])
BY DEF Weights, Telugu

(* Whoever uses the words of one dialect only, however many, is put down   *)
(* as a speaker of it, or of none when they weigh too little (detect,      *)
(* _score_dialect), although markers are searched for as substrings.       *)
THEOREM SpeakerNamed ==
  ASSUME NEW l \in South, NEW d \in DOMAIN Weights[l], NEW text \in Seq(MarkersOf(l, d))
  PROVE  NamesSpeaker(l, d, text)
<1>0. /\ \A e \in DOMAIN Weights[l] : Score(l, text, e) \in Nat /\ e \in Nat
  BY Languages, ScoreNat
<1>1. ASSUME NEW e \in DOMAIN Weights[l], e # d
      PROVE  \/ Score(l, text, e) = 0
             \/ Score(l, text, e) <= 12 /\ 12 <= Score(l, text, d) /\ d < e
  <2>1. CASE \A i \in 1..Len(Weights[l][e]) : ~Contains(l, text, Marker(e, i))
    <3>1. Score(l, text, e) <= 0
      BY <2>1, ScoreAtMost
    <3> QED
      BY <1>0, <3>1
  <2>2. CASE \E i \in 1..Len(Weights[l][e]) : Contains(l, text, Marker(e, i))
    <3>1. l = "te" /\ d = 1 /\ e = 3 /\ Contains(l, text, Marker(1, 3))
      BY <1>1, <2>2, OnlyOwn
    <3>2. \A i \in 1..Len(Weights[l][e]) :
            Contains(l, text, Marker(e, i)) => i = 1 /\ Weights[l][e][i] <= 12
      <4>1. \A i \in 1..Len(Weights[l][e]) : Contains(l, text, Marker(e, i)) => i = 1
        BY <1>1, OnlyOwn
      <4> QED
        BY <3>1, <4>1, Telangana
    <3>3. Score(l, text, e) <= 12
      BY <3>2, ScoreAtMost
    <3>4. Weights[l][d][3] <= Score(l, text, d)
      BY <3>1, Telangana, ScoreAtLeast
    <3> QED
      BY <3>1, <3>3, <3>4, Telangana
  <2> QED
    BY <2>1, <2>2
<1>2. Detect(l, text) =
        {e \in DOMAIN Weights[l] :
           /\ Score(l, text, e) >= 6
           /\ \A o \in DOMAIN Weights[l] \ {e} :
                \/ Score(l, text, o) < Score(l, text, e)
                \/ Score(l, text, o) = Score(l, text, e) /\ e < o}
  BY DEF Detect
<1>3. CASE Score(l, text, d) < 6
  <2>1. \A e \in DOMAIN Weights[l] : Score(l, text, e) < 6
    BY <1>0, <1>1, <1>3
  <2>2. Detect(l, text) = {}
    BY <1>0, <1>2, <2>1
  <2> QED
    BY <1>3, <2>2 DEF NamesSpeaker
<1>4. CASE ~(Score(l, text, d) < 6)
  <2>1. Score(l, text, d) >= 6
    BY <1>0, <1>4
  <2>2. \A e \in DOMAIN Weights[l] \ {d} :
          \/ Score(l, text, e) < Score(l, text, d)
          \/ Score(l, text, e) = Score(l, text, d) /\ d < e
    BY <1>0, <1>1, <2>1
  <2>3. d \in Detect(l, text)
    BY <1>2, <2>1, <2>2
  <2>4. ASSUME NEW e \in Detect(l, text), e # d PROVE FALSE
    <3>1. /\ e \in DOMAIN Weights[l]
          /\ \/ Score(l, text, d) < Score(l, text, e)
             \/ Score(l, text, d) = Score(l, text, e) /\ e < d
      BY <1>2, <2>4
    <3>2. \/ Score(l, text, e) < Score(l, text, d)
          \/ Score(l, text, e) = Score(l, text, d) /\ d < e
      BY <2>2, <2>4, <3>1
    <3>3. Score(l, text, d) \in Nat /\ Score(l, text, e) \in Nat /\ d \in Nat /\ e \in Nat
      BY <1>0, <3>1
    <3> QED
      BY <3>1, <3>2, <3>3
  <2>5. Detect(l, text) = {d}
    BY <2>3, <2>4
  <2> QED
    BY <1>4, <2>5 DEF NamesSpeaker
<1> QED
  BY <1>3, <1>4

-----------------------------------------------------------------------------
(* The dialect of the text that is stored is the dialect stored with it.   *)

\* The words of a language, and what Whisper makes up.
Marked(l) == UNION {MarkersOf(l, d) : d \in DOMAIN Weights[l]}

Tongue(l) == (Plain \X {0} \X {0}) \cup Marked(l) \cup Forms[l]

Shows(l, m, w) == w = m \/ <<m, w>> \in Within[l]

LEMMA TongueWords ==
  ASSUME NEW l \in South
  PROVE  Tongue(l) \subseteq Words
<1>1. Forms[l] \subseteq Words
  <2>1. CASE l = "ml"
    BY <2>1 DEF Forms, Form, Longer, Words
  <2>2. CASE l = "ta"
    BY <2>2 DEF Forms, Form, Words
  <2>3. CASE l = "te"
    BY <2>3 DEF Forms, Form, Words
  <2>4. CASE l = "kn"
    BY <2>4 DEF Forms, Form, Words
  <2> QED
    BY <2>1, <2>2, <2>3, <2>4, Languages
<1>2. ASSUME NEW d \in DOMAIN Weights[l] PROVE MarkersOf(l, d) \subseteq Words
  <2>1. d \in Nat /\ Weights[l][d] \in Seq(Nat)
    BY Languages
  <2>2. DOMAIN Weights[l][d] \subseteq Nat
    BY <2>1
  <2> QED
    BY <2>1, <2>2 DEF MarkersOf, Marker, Words
<1>3. Plain \X {0} \X {0} \subseteq Words
  BY DEF Words
<1>4. ASSUME NEW w \in Marked(l) PROVE w \in Words
  <2>1. PICK d \in DOMAIN Weights[l] : w \in MarkersOf(l, d)
    BY <1>4 DEF Marked
  <2> QED
    BY <1>2, <2>1
<1> QED
  BY <1>1, <1>3, <1>4 DEF Tongue

\* What a word shows of the markers once it is spelt for a dialect.
LEMMA SpeltShows ==
  ASSUME NEW l \in South, NEW w \in Tongue(l), NEW dialect, NEW e, NEW i
  PROVE  LET new == SpeltFor(dialect)[CanonicalOf[w]]
             m == Marker(e, i)
         IN  /\ Shows(l, m, w) => Shows(l, m, new)
             /\ e \notin dialect /\ Shows(l, m, new) => Shows(l, m, w)
<1> DEFINE new == SpeltFor(dialect)[CanonicalOf[w]]
           m == Marker(e, i)
<1> SUFFICES /\ Shows(l, m, w) => Shows(l, m, new)
             /\ e \notin dialect /\ Shows(l, m, new) => Shows(l, m, w)
  OBVIOUS
<1>1. w \in Remains /\ CanonicalOf[w] = Canonical(w) /\ Canonical(w) \in Remains
  <2>1. w \in Remains
    BY TongueWords DEF Remains
  <2>2. CanonicalOf[w] \in Remains /\ CanonicalOf[w] = Canonical(w)
    BY <2>1, CanonicalTypes DEF CanonicalOf
  <2> QED
    BY <2>1, <2>2
<1>2. new = IF Canonical(w)[2] \in dialect THEN Rewritten(Canonical(w)) ELSE Canonical(w)
  BY <1>1 DEF SpeltFor
<1> HIDE DEF new
<1>3. CASE w = Word("variant")
  <2>1. Canonical(w) = Word("noun")
    BY <1>3 DEF Canonical
  <2>2. new = Word("noun")
    BY <1>2, <2>1, WordKinds DEF Rewritten
  <2>3. ~Shows(l, m, w) /\ ~Shows(l, m, new)
    <3>1. CASE l = "ml"
      BY <1>3, <2>2, <3>1 DEF Shows, Within, Marker, Form, Mangled, Word
    <3>2. CASE l = "ta"
      BY <1>3, <2>2, <3>2 DEF Shows, Within, Marker, Form, Mangled, Word
    <3>3. CASE l = "te"
      BY <1>3, <2>2, <3>3 DEF Shows, Within, Marker, Form, Mangled, Word
    <3>4. CASE l = "kn"
      BY <1>3, <2>2, <3>4 DEF Shows, Within, Marker, Form, Mangled, Word
    <3> QED
      BY <3>1, <3>2, <3>3, <3>4, Languages
  <2> QED
    BY <2>3
<1>4. CASE w # Word("variant") /\ ~(w[1] \in {"form", "longer"} /\ w[2] \in dialect)
  <2>1. new = w
    BY <1>2, <1>4 DEF Canonical, Rewritten
  <2> QED
    BY <2>1
<1>5. CASE w[1] \in {"form", "longer"} /\ w[2] \in dialect
  <2>1. w \in Forms[l]
    <3>1. w \notin Plain \X {0} \X {0}
      BY <1>5 DEF Plain, Noise, Broken
    <3>2. ASSUME NEW d \in DOMAIN Weights[l], w \in MarkersOf(l, d) PROVE FALSE
      <4>1. PICK k : w = Marker(d, k)
        BY <3>2 DEF MarkersOf
      <4> QED
        BY <1>5, <4>1, WordKinds
    <3>3. w \notin Marked(l)
      BY <3>2 DEF Marked
    <3> QED
      BY <3>1, <3>3 DEF Tongue
  <2>2. w # Word("variant")
    BY <1>5, WordKinds
  <2>3. new = Rewritten(w)
    BY <1>2, <1>5, <2>2 DEF Canonical
  <2>4. Shows(l, m, w) => Shows(l, m, new)
    <3>1. CASE l = "ml"
      BY <2>1, <2>3, <3>1 DEF Shows, Within, Marker, Form, Longer, Mangled, Forms, Rewritten
    <3>2. CASE l = "ta"
      BY <2>1, <2>3, <3>2 DEF Shows, Within, Marker, Form, Longer, Mangled, Forms, Rewritten
    <3>3. CASE l = "te"
      BY <2>1, <2>3, <3>3 DEF Shows, Within, Marker, Form, Longer, Mangled, Forms, Rewritten
    <3>4. CASE l = "kn"
      BY <2>1, <2>3, <3>4 DEF Shows, Within, Marker, Form, Longer, Mangled, Forms, Rewritten
    <3> QED
      BY <3>1, <3>2, <3>3, <3>4, Languages
  <2>5. Shows(l, m, new) => e = w[2]
    <3>1. CASE l = "ml"
      BY <2>1, <2>3, <3>1 DEF Shows, Within, Marker, Form, Longer, Mangled, Forms, Rewritten
    <3>2. CASE l = "ta"
      BY <2>1, <2>3, <3>2 DEF Shows, Within, Marker, Form, Longer, Mangled, Forms, Rewritten
    <3>3. CASE l = "te"
      BY <2>1, <2>3, <3>3 DEF Shows, Within, Marker, Form, Longer, Mangled, Forms, Rewritten
    <3>4. CASE l = "kn"
      BY <2>1, <2>3, <3>4 DEF Shows, Within, Marker, Form, Longer, Mangled, Forms, Rewritten
    <3> QED
      BY <3>1, <3>2, <3>3, <3>4, Languages
  <2> QED
    BY <1>5, <2>4, <2>5
<1> QED
  BY <1>3, <1>4, <1>5

\* Only what is said is searched.
LEMMA OnlySaidShows ==
  ASSUME NEW l \in South, NEW w \in Remains, NEW e, NEW i, Shows(l, Marker(e, i), w)
  PROVE  w \notin Unsaid
<1>1. w[1] \in {"marker", "form", "mangled"}
  <2>1. CASE l = "ml"
    BY <2>1 DEF Shows, Within, Marker, Form, Mangled
  <2>2. CASE l = "ta"
    BY <2>2 DEF Shows, Within, Marker, Form, Mangled
  <2>3. CASE l = "te"
    BY <2>3 DEF Shows, Within, Marker, Form, Mangled
  <2>4. CASE l = "kn"
    BY <2>4 DEF Shows, Within, Marker, Form, Mangled
  <2> QED
    BY <2>1, <2>2, <2>3, <2>4, Languages
<1> QED
  BY <1>1 DEF Unsaid, Besides, Native

LEMMA SaidContains ==
  ASSUME NEW l \in South, NEW text \in Seq(Remains), NEW e, NEW i
  PROVE  Contains(l, Said(text), Marker(e, i)) <=> Contains(l, text, Marker(e, i))
<1> DEFINE m == Marker(e, i)
           P == WordsAt(text, Unsaid)
<1>0. Said(text) = Omit(text, P)
  BY SaidAt
<1>1. \A t : Contains(l, t, m) <=> \E j \in DOMAIN t : Shows(l, m, t[j])
  BY DEF Contains, Shows
<1>2. PICK h : Enumerates(h, DOMAIN text \ P) /\ Omit(text, P) = Picked(text, h)
  BY OmitPositions
<1>3. /\ DOMAIN Picked(text, h) = 1..Len(h)
      /\ \A j \in 1..Len(h) : Picked(text, h)[j] = text[h[j]] /\ h[j] \in DOMAIN text
  <2>1. /\ \A j \in 1..Len(h) : h[j] \in DOMAIN text
        /\ h \in Seq(DOMAIN text)
    BY <1>2, Positions
  <2>2. /\ DOMAIN Picked(text, h) = 1..Len(h)
        /\ \A j \in 1..Len(h) : Picked(text, h)[j] = text[h[j]]
    BY <2>1, PickedIn
  <2> QED
    BY <2>1, <2>2
<1>4. ASSUME NEW j \in DOMAIN text, Shows(l, m, text[j])
      PROVE  \E k \in 1..Len(h) : Shows(l, m, Picked(text, h)[k])
  <2>1. text[j] \in Remains
    BY Lengths
  <2>2. j \in DOMAIN text \ P
    BY <1>4, <2>1, OnlySaidShows DEF WordsAt
  <2>3. PICK k \in 1..Len(h) : h[k] = j
    BY <1>2, <2>2 DEF Enumerates
  <2> QED
    BY <1>3, <1>4, <2>3
<1>5. ASSUME NEW k \in 1..Len(h), Shows(l, m, Picked(text, h)[k])
      PROVE  \E j \in DOMAIN text : Shows(l, m, text[j])
  BY <1>3, <1>5
<1> HIDE DEF m, P
<1>6. Contains(l, Picked(text, h), m) <=> Contains(l, text, m)
  BY <1>1, <1>3, <1>4, <1>5
<1> QED
  BY <1>0, <1>2, <1>6 DEF m

LEMMA NormalizeIn ==
  ASSUME NEW l \in South, NEW text \in Seq(Words), NEW dialect
  PROVE  Normalize(l, text, dialect) \in Seq(Remains)
<1>0. text \in Seq(Remains)
  BY DEF Remains
<1>1. Clean(l, text) = Trimmed(Halved(Swipe(text))) /\ Swipe(text) \in Seq(Remains)
  BY <1>0, SweptOnce DEF Clean, Commas
<1>2. Halved(Swipe(text)) \in Seq(Remains)
  BY <1>1, PassesIn
<1>3. Clean(l, text) \in Seq(Remains)
  BY <1>1, <1>2, PassesIn
<1>4. Spelled(Clean(l, text)) \in Seq(Remains)
  BY <1>3, PassesIn
<1>5. Without("the", Spelled(Clean(l, text))) \in Seq(Remains)
  BY <1>4, PassesIn
<1>6. Without("a", Without("the", Spelled(Clean(l, text)))) \in Seq(Remains)
  BY <1>5, PassesIn
<1>7. Articles(l, Spelled(Clean(l, text))) \in Seq(Remains)
  BY <1>4, <1>6 DEF Articles
<1> QED
  BY <1>7, PassesIn DEF Normalize

\* What the stored text shows of the markers.
LEMMA StoredShows ==
  ASSUME NEW l \in South, NEW text \in Seq(Tongue(l)), NEW dialect, NEW e, NEW i
  PROVE  LET out == Normalize(l, text, dialect)
             m == Marker(e, i)
         IN  /\ Contains(l, text, m) => Contains(l, out, m)
             /\ e \notin dialect /\ Contains(l, out, m) => Contains(l, text, m)
<1> DEFINE out == Normalize(l, text, dialect)
           m == Marker(e, i)
           spoken == Said(text)
           spelled == Mapped(CanonicalOf, spoken)
           new == Mapped(SpeltFor(dialect), spelled)
<1> SUFFICES /\ Contains(l, text, m) => Contains(l, out, m)
             /\ e \notin dialect /\ Contains(l, out, m) => Contains(l, text, m)
  OBVIOUS
<1>1. text \in Seq(Words) /\ text \in Seq(Remains)
  BY TongueWords DEF Remains
<1>2. out \in Seq(Remains)
  BY <1>1, NormalizeIn
<1>3. /\ spoken \in Seq(Remains)
      /\ \A j \in DOMAIN spoken : spoken[j] \in Tongue(l)
  <2>1. spoken = Omit(text, WordsAt(text, Unsaid))
    BY <1>1, SaidAt
  <2>2. /\ Omit(text, WordsAt(text, Unsaid)) \in Seq(Remains)
        /\ \A j \in DOMAIN Omit(text, WordsAt(text, Unsaid)) :
             \E k \in DOMAIN text \ WordsAt(text, Unsaid) :
               Omit(text, WordsAt(text, Unsaid))[j] = text[k]
    BY <1>1, OmitIn
  <2>3. \A k \in DOMAIN text : text[k] \in Tongue(l)
    OBVIOUS
  <2> HIDE DEF spoken
  <2> QED
    BY <2>1, <2>2, <2>3
<1>4. Said(out) = new
  BY <1>1, SaidIsSpelt
<1> HIDE DEF spoken, out
<1>5. /\ spelled \in Seq(Remains) /\ DOMAIN spelled = DOMAIN spoken
      /\ \A j \in DOMAIN spoken : spelled[j] = CanonicalOf[spoken[j]]
  BY <1>3, CanonicalTypes, MappedIn
<1> HIDE DEF spelled
<1>6. /\ DOMAIN new = DOMAIN spelled
      /\ \A j \in DOMAIN spelled : new[j] = SpeltFor(dialect)[spelled[j]]
  BY <1>5, SpeltTypes, MappedIn, ZenonT(30)
<1> HIDE DEF new
<1>7. \A j \in DOMAIN spoken : new[j] = SpeltFor(dialect)[CanonicalOf[spoken[j]]]
  BY <1>5, <1>6
<1>8. \A j \in DOMAIN spoken : /\ Shows(l, m, spoken[j]) => Shows(l, m, new[j])
                               /\ e \notin dialect /\ Shows(l, m, new[j]) => Shows(l, m, spoken[j])
  <2> SUFFICES ASSUME NEW j \in DOMAIN spoken
               PROVE  /\ Shows(l, m, spoken[j]) => Shows(l, m, new[j])
                      /\ e \notin dialect /\ Shows(l, m, new[j]) => Shows(l, m, spoken[j])
    OBVIOUS
  <2>1. spoken[j] \in Tongue(l)
    BY <1>3
  <2> QED
    BY <1>7, <2>1, SpeltShows
<1>9. \A t : Contains(l, t, m) <=> \E j \in DOMAIN t : Shows(l, m, t[j])
  BY DEF Contains, Shows
<1>10. Contains(l, text, m) <=> Contains(l, spoken, m)
  BY <1>1, SaidContains DEF spoken
<1>11. Contains(l, out, m) <=> Contains(l, new, m)
  BY <1>2, <1>4, SaidContains
<1> HIDE DEF m
<1> QED
  BY <1>5, <1>6, <1>8, <1>9, <1>10, <1>11

\* The detector names one dialect at most.
LEMMA OneDialect ==
  ASSUME NEW l \in South, NEW text, NEW d \in Detect(l, text), NEW e \in Detect(l, text)
  PROVE  d = e
<1> SUFFICES ASSUME d # e PROVE FALSE
  OBVIOUS
<1>1. /\ d \in DOMAIN Weights[l] /\ e \in DOMAIN Weights[l]
      /\ \/ Score(l, text, e) < Score(l, text, d)
         \/ Score(l, text, e) = Score(l, text, d) /\ d < e
      /\ \/ Score(l, text, d) < Score(l, text, e)
         \/ Score(l, text, d) = Score(l, text, e) /\ e < d
  BY DEF Detect
<1>2. Score(l, text, d) \in Nat /\ Score(l, text, e) \in Nat /\ d \in Nat /\ e \in Nat
  BY <1>1, ScoreNat, Languages
<1> QED
  BY <1>1, <1>2

(* The detector names the same dialect for the text that is stored as for  *)
(* the raw text it was asked about (transcribe, _apply_dialect_vocabulary),*)
(* in a text of any length of the words of a language, noise included.     *)
THEOREM SameDialect ==
  ASSUME NEW l \in South, NEW text \in Seq(Tongue(l))
  PROVE  NamesAlike(l, text)
<1> DEFINE dialect == Detect(l, text)
           out == Normalize(l, text, dialect)
<1>1. \A d \in DOMAIN Weights[l] : /\ Score(l, text, d) \in Nat /\ Score(l, out, d) \in Nat
                                   /\ Score(l, text, d) <= Score(l, out, d)
                                   /\ d \notin dialect => Score(l, out, d) = Score(l, text, d)
  <2> SUFFICES ASSUME NEW d \in DOMAIN Weights[l]
               PROVE  /\ Score(l, text, d) \in Nat /\ Score(l, out, d) \in Nat
                      /\ Score(l, text, d) <= Score(l, out, d)
                      /\ d \notin dialect => Score(l, out, d) = Score(l, text, d)
    OBVIOUS
  <2>1. /\ \A i : Contains(l, text, Marker(d, i)) => Contains(l, out, Marker(d, i))
        /\ d \notin dialect =>
             \A i : Contains(l, out, Marker(d, i)) => Contains(l, text, Marker(d, i))
    <3> HIDE DEF dialect
    <3> QED
      BY StoredShows
  <2> HIDE DEF dialect, out
  <2>2. Score(l, text, d) <= Score(l, out, d)
    BY <2>1, ScoreMore
  <2>3. ASSUME d \notin dialect PROVE Score(l, out, d) = Score(l, text, d)
    BY <2>1, <2>3, ScoreSame
  <2> QED
    BY <2>2, <2>3, ScoreNat
<1>2. DOMAIN Weights[l] \subseteq Nat
  BY Languages
<1>3. \A t : Detect(l, t) =
        {d \in DOMAIN Weights[l] :
           /\ Score(l, t, d) >= 6
           /\ \A e \in DOMAIN Weights[l] \ {d} :
                \/ Score(l, t, e) < Score(l, t, d)
                \/ Score(l, t, e) = Score(l, t, d) /\ d < e}
  BY DEF Detect
<1>4. Detect(l, out) = dialect
  <2>1. CASE dialect = {}
    <3>1. \A d \in DOMAIN Weights[l] : Score(l, out, d) = Score(l, text, d)
      BY <1>1, <2>1
    <3>2. Detect(l, text) = {}
      BY <2>1
    <3> HIDE DEF out, dialect
    <3>3. ASSUME NEW d \in Detect(l, out) PROVE d \in Detect(l, text)
      <4>1. /\ d \in DOMAIN Weights[l] /\ Score(l, out, d) >= 6
            /\ \A e \in DOMAIN Weights[l] \ {d} :
                 \/ Score(l, out, e) < Score(l, out, d)
                 \/ Score(l, out, e) = Score(l, out, d) /\ d < e
        BY <1>3
      <4> QED
        BY <1>3, <3>1, <4>1
    <3> QED
      BY <2>1, <3>2, <3>3
  <2>2. ASSUME NEW d \in dialect PROVE Detect(l, out) = dialect
    <3>1. d \in DOMAIN Weights[l] /\ dialect = {d}
      BY OneDialect DEF Detect
    <3>2. /\ Score(l, text, d) >= 6
          /\ \A e \in DOMAIN Weights[l] \ {d} :
               \/ Score(l, text, e) < Score(l, text, d)
               \/ Score(l, text, e) = Score(l, text, d) /\ d < e
      BY <1>3
    <3> HIDE DEF dialect, out
    <3>3. Score(l, out, d) >= 6
      BY <1>1, <3>1, <3>2
    <3>4. ASSUME NEW e \in DOMAIN Weights[l] \ {d}
          PROVE  \/ Score(l, out, e) < Score(l, out, d)
                 \/ Score(l, out, e) = Score(l, out, d) /\ d < e
      <4>1. Score(l, out, e) = Score(l, text, e) /\ Score(l, out, e) \in Nat
        BY <1>1, <3>1
      <4>2. /\ Score(l, text, d) <= Score(l, out, d)
            /\ Score(l, text, d) \in Nat /\ Score(l, out, d) \in Nat
        BY <1>1, <3>1
      <4>3. \/ Score(l, text, e) < Score(l, text, d)
            \/ Score(l, text, e) = Score(l, text, d) /\ d < e
        BY <3>2
      <4> QED
        BY <4>1, <4>2, <4>3
    <3>5. d \in Detect(l, out)
      BY <1>3, <3>1, <3>3, <3>4
    <3>6. \A e \in Detect(l, out) : e = d
      BY <3>5, OneDialect
    <3> QED
      BY <3>1, <3>5, <3>6
  <2> QED
    BY <2>1, <2>2
<1> QED
  BY <1>4 DEF NamesAlike, TranscribedAs

-----------------------------------------------------------------------------
(* What TLC is asked about the words follows for every text it tries.      *)

LEMMA TextsAreSequences ==
  ASSUME NEW spoken, NEW n \in Nat
  PROVE  Texts(spoken, n) \subseteq Seq(spoken)
<1> SUFFICES ASSUME NEW text \in Texts(spoken, n) PROVE text \in Seq(spoken)
  OBVIOUS
<1>1. PICK k \in 0..n : text \in [1..k -> spoken]
  BY DEF Texts
<1> QED
  BY <1>1

LEMMA HeardWords ==
  ASSUME NEW l \in South
  PROVE  /\ Texts(Heard, MaxHeard) \subseteq Seq(Words)
         /\ Texts(Heard \cup Forms[l], MaxSpoken) \subseteq Seq(Words)
<1>1. Heard \subseteq Words /\ Heard \cup Forms[l] \subseteq Words
  <2>1. Heard \subseteq Words
    BY DEF Heard, Words, Plain, Word, Noise, Broken
  <2>2. Forms[l] \subseteq Words
    BY TongueWords DEF Tongue
  <2> QED
    BY <2>1, <2>2
<1>2. Texts(Heard, MaxHeard) \subseteq Seq(Heard)
  BY TextsAreSequences DEF MaxHeard
<1>3. Texts(Heard \cup Forms[l], MaxSpoken) \subseteq Seq(Heard \cup Forms[l])
  BY TextsAreSequences DEF MaxSpoken
<1>4. Seq(Heard) \subseteq Seq(Words) /\ Seq(Heard \cup Forms[l]) \subseteq Seq(Words)
  BY <1>1
<1> QED
  BY <1>2, <1>3, <1>4

\* The words of one dialect are never taken for another dialect.
THEOREM NamedSpeaker == Spec => []OwnDialect
<1>1. OwnDialect
  <2> SUFFICES ASSUME NEW l \in South, NEW d \in DOMAIN Weights[l],
                      NEW text \in Texts(MarkersOf(l, d), MaxSpoken)
               PROVE  NamesSpeaker(l, d, text)
    BY DEF OwnDialect
  <2>1. text \in Seq(MarkersOf(l, d))
    BY TextsAreSequences DEF MaxSpoken
  <2> QED
    BY <2>1, SpeakerNamed
<1> QED
  BY <1>1, PTL

\* The stored dialect is that of the stored text.
THEOREM StoredDialect == Spec => []DialectStable
<1>1. DialectStable
  <2> SUFFICES ASSUME NEW l \in South, NEW form \in Forms[l] \cup {Word("noun")},
                      NEW m \in Marked(l), NEW n \in Marked(l)
               PROVE  NamesAlike(l, <<form, m, n>>)
    BY DEF DialectStable, Marked
  <2>1. Word("noun") \in Plain \X {0} \X {0}
    BY DEF Plain, Word
  <2>2. form \in Tongue(l) /\ m \in Tongue(l) /\ n \in Tongue(l)
    BY <2>1 DEF Tongue
  <2>3. <<form, m, n>> \in Seq(Tongue(l))
    BY <2>2
  <2> QED
    BY <2>3, SameDialect
<1> QED
  BY <1>1, PTL

\* Nothing the customer said is lost, or read as something else, but in the
\* words that the thrissur pattern rewrites inside.
THEOREM SaidWordsStay == Spec => []MeaningKept
<1>1. MeaningKept
  BY HeardWords, WordsStay DEF MeaningKept
<1> QED
  BY <1>1, PTL

\* What Whisper made up is gone, but for the fragments of accented words.
THEOREM MadeUpWordsGo == Spec => []NoiseGone
<1>1. NoiseGone
  BY HeardWords, NoiseGoes DEF NoiseGone
<1> QED
  BY <1>1, PTL
=============================================================================
