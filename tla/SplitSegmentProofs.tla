------------------------- MODULE SplitSegmentProofs -------------------------
(* What the split-segment parser makes of a file, for lists of any lengths   *)
(* and depth and numbers of any size.                                        *)
(*                                                                           *)
(* The definitions it is compared with, powers of two, sums, joined          *)
(* sequences and the values of groups of bits, are recursive functions.      *)
(* What they are is shown first: that each satisfies its own equation, from  *)
(* the lemma Recursion, and then what follows by induction on numbers.       *)
(* Next come the two directions of the file format, one list member at a     *)
(* time: what a list is as numbers and bytes, and what entries it denotes.   *)
(* The invariant of the parser is then that the file still holds, from the   *)
(* cursor on, the numbers for which the loops have rounds left, and that the *)
(* entries these denote complete the result.                                 *)
EXTENDS SplitSegment, TLAPS, WellFoundedInduction

-----------------------------------------------------------------------------
(* Induction.  A set that holds 0 and with each number the next holds them  *)
(* all: otherwise a least number would be missing.                          *)
LEMMA Induction ==
    ASSUME NEW S, 0 \in S, \A n \in Nat : n \in S => n + 1 \in S
    PROVE  Nat \subseteq S
<1> DEFINE missing == {n \in Nat : n \notin S}
<1> SUFFICES ASSUME missing # {} PROVE FALSE
  OBVIOUS
<1>1. PICK x \in missing : \A y \in missing : <<y, x>> \notin OpToRel(<, Nat)
  BY WFMin, NatLessThanWellFounded
<1>2. x \in Nat /\ x # 0 /\ x - 1 \in Nat /\ x - 1 < x
  OBVIOUS
<1>3. <<x - 1, x>> \in OpToRel(<, Nat)
  BY <1>2 DEF OpToRel
<1>4. x - 1 \notin missing
  BY <1>1, <1>3
<1> QED BY <1>2, <1>4

(* A function can be defined by its value at 0 and, from each value, the    *)
(* next: the beginnings of such functions exist and agree.                  *)
Recursive(f, S, base, step) ==
    f \in [Nat -> S] /\ f[0] = base /\ \A n \in Nat : f[n + 1] = step[n][f[n]]

LEMMA Recursion ==
    ASSUME NEW S, NEW base \in S, NEW step \in [Nat -> [S -> S]]
    PROVE  \E f : Recursive(f, S, base, step)
<1> DEFINE Starts(g, n) == g[0] = base /\ \A i \in Nat : i < n => g[i + 1] = step[i][g[i]]
           started == {n \in Nat : \E g \in [Nat -> S] : Starts(g, n)}
<1>1. Nat \subseteq started
  <2>1. 0 \in started
    <3>1. [i \in Nat |-> base] \in [Nat -> S] /\ Starts([i \in Nat |-> base], 0)
      OBVIOUS
    <3> QED BY <3>1
  <2>2. ASSUME NEW n \in Nat, n \in started PROVE n + 1 \in started
    <3>1. PICK g \in [Nat -> S] : Starts(g, n)
      BY <2>2
    <3> DEFINE h == [g EXCEPT ![n + 1] = step[n][g[n]]]
    <3>2. h \in [Nat -> S] /\ Starts(h, n + 1)
      BY <3>1
    <3> HIDE DEF h, Starts
    <3> QED BY <3>2
  <2> HIDE DEF started
  <2> QED BY <2>1, <2>2, Induction
<1>2. ASSUME NEW g \in [Nat -> S], NEW h \in [Nat -> S],
             NEW n \in Nat, Starts(g, n), NEW m \in Nat, Starts(h, m), n <= m
      PROVE  g[n] = h[n]
  <2> DEFINE agree == {i \in Nat : i <= n => g[i] = h[i]}
  <2>1. 0 \in agree /\ \A i \in Nat : i \in agree => i + 1 \in agree
    BY <1>2
  <2> HIDE DEF agree
  <2>2. n \in agree
    BY <2>1, Induction
  <2> QED BY <2>2 DEF agree
<1> DEFINE G(n) == CHOOSE g \in [Nat -> S] : Starts(g, n)
           f == [n \in Nat |-> G(n)[n]]
<1>3. ASSUME NEW n \in Nat PROVE G(n) \in [Nat -> S] /\ Starts(G(n), n)
  BY <1>1
<1> HIDE DEF G
<1>4. f \in [Nat -> S] /\ f[0] = base
  BY <1>3
<1>5. ASSUME NEW n \in Nat PROVE f[n + 1] = step[n][f[n]]
  <2>1. G(n) \in [Nat -> S] /\ Starts(G(n), n) /\ G(n + 1) \in [Nat -> S] /\ Starts(G(n + 1), n + 1)
    BY <1>3
  <2>2. f[n + 1] = step[n][G(n + 1)[n]]
    BY <2>1
  <2> HIDE DEF Starts
  <2>3. n + 1 \in Nat /\ n <= n + 1
    OBVIOUS
  <2>4. G(n)[n] = G(n + 1)[n]
    BY <1>2, <2>1, <2>3
  <2> QED BY <2>2, <2>4
<1> QED BY <1>4, <1>5 DEF Recursive

-----------------------------------------------------------------------------
(* Powers of two. *)
LEMMA Pow2Facts ==
    /\ Pow2 \in [Nat -> Nat] /\ Pow2[0] = 1
    /\ \A n \in Nat : Pow2[n + 1] = 2 * Pow2[n]
<1> DEFINE step == [n \in Nat |-> [x \in Nat |-> 2 * x]]
<1>1. step \in [Nat -> [Nat -> Nat]] /\ \A n, x \in Nat : step[n][x] = 2 * x
  OBVIOUS
<1> HIDE DEF step
<1>2. PICK f : Recursive(f, Nat, 1, step)
  BY <1>1, Recursion
<1>3. f \in [Nat -> Nat] /\ f[0] = 1 /\ \A n \in Nat : f[n + 1] = 2 * f[n]
  BY <1>1, <1>2 DEF Recursive
<1>4. f = [n \in Nat |-> IF n = 0 THEN 1 ELSE 2 * f[n - 1]]
  <2>1. ASSUME NEW n \in Nat PROVE f[n] = IF n = 0 THEN 1 ELSE 2 * f[n - 1]
    <3>1. n = 0 \/ (n - 1 \in Nat /\ (n - 1) + 1 = n)
      OBVIOUS
    <3> QED BY <1>3, <3>1
  <2>2. f = [n \in Nat |-> f[n]]
    BY <1>3
  <2> QED BY <2>1, <2>2
<1>5. Pow2 = [n \in Nat |-> IF n = 0 THEN 1 ELSE 2 * Pow2[n - 1]]
  BY <1>4 DEF Pow2
<1> DEFINE typed == {n \in Nat : Pow2[n] \in Nat}
<1>6. Pow2[0] = 1
  BY <1>5
<1>7. ASSUME NEW n \in Nat PROVE Pow2[n + 1] = 2 * Pow2[n]
  <2>1. Pow2[n + 1] = 2 * Pow2[(n + 1) - 1]
    BY <1>5
  <2> QED BY <2>1
<1>8. 0 \in typed /\ \A n \in Nat : n \in typed => n + 1 \in typed
  BY <1>6, <1>7
<1> HIDE DEF typed
<1>9. \A n \in Nat : Pow2[n] \in Nat
  BY <1>8, Induction DEF typed
<1> QED BY <1>5, <1>6, <1>7, <1>9

LEMMA Pow2Add == \A m, n \in Nat : Pow2[m + n] = Pow2[m] * Pow2[n] /\ Pow2[n] \in Nat \ {0}
<1> SUFFICES ASSUME NEW m \in Nat
             PROVE  \A n \in Nat : Pow2[m + n] = Pow2[m] * Pow2[n] /\ Pow2[n] \in Nat \ {0}
  OBVIOUS
<1> DEFINE good == {n \in Nat : Pow2[m + n] = Pow2[m] * Pow2[n] /\ Pow2[n] \in Nat \ {0}}
<1>1. 0 \in good
  BY Pow2Facts
<1>2. ASSUME NEW n \in Nat, n \in good PROVE n + 1 \in good
  <2>1. PICK a \in Nat, b \in Nat \ {0} : a = Pow2[m] /\ b = Pow2[n] /\ Pow2[m + n] = a * b
    BY <1>2, Pow2Facts
  <2>2. m + n \in Nat /\ (m + n) + 1 = m + (n + 1)
    OBVIOUS
  <2>3. Pow2[m + (n + 1)] = 2 * (a * b) /\ Pow2[n + 1] = 2 * b
    BY <2>1, <2>2, Pow2Facts
  <2>4. 2 * (a * b) = a * (2 * b) /\ 2 * b \in Nat \ {0}
    OBVIOUS
  <2> QED BY <2>1, <2>3, <2>4
<1> HIDE DEF good
<1>3. Nat \subseteq good
  BY <1>1, <1>2, Induction
<1> QED BY <1>3 DEF good

LEMMA Pow2Grows == \A n \in Nat : n < Pow2[n]
<1> DEFINE good == {n \in Nat : n < Pow2[n]}
<1>1. 0 \in good
  BY Pow2Facts
<1>2. \A n \in Nat : n \in good => n + 1 \in good
  BY Pow2Facts
<1> HIDE DEF good
<1> QED BY <1>1, <1>2, Induction DEF good

LEMMA Division ==
    ASSUME NEW a \in Nat, NEW p \in Nat \ {0}
    PROVE  /\ a \div p \in Nat /\ a % p \in 0 .. p - 1
           /\ a = p * (a \div p) + (a % p)
OBVIOUS

LEMMA ProductMonotone ==
    ASSUME NEW a \in Int, NEW b \in Int, NEW c \in Nat, a <= b
    PROVE  a * c <= b * c
OBVIOUS

LEMMA DivisionIsUnique ==
    ASSUME NEW p \in Nat \ {0}, NEW q \in Int, NEW r \in 0 .. p - 1,
           NEW s \in Int, NEW t \in 0 .. p - 1, p * q + r = p * s + t
    PROVE  q = s /\ r = t
<1>1. CASE q < s
  <2>1. p * (q + 1) <= p * s
    BY <1>1
  <2> QED BY <2>1
<1>2. CASE s < q
  <2>1. p * (s + 1) <= p * q
    BY <1>2
  <2> QED BY <2>1
<1> QED BY <1>1, <1>2

LEMMA DivisionOf ==
    ASSUME NEW p \in Nat \ {0}, NEW q \in Nat, NEW r \in 0 .. p - 1
    PROVE  (p * q + r) \div p = q /\ (p * q + r) % p = r
BY DivisionIsUnique, Division

LEMMA Regroup ==
    ASSUME NEW p \in Int, NEW b \in Int, NEW r \in Int, NEW s \in Int, NEW d \in Int
    PROVE  p * (b * s + d) + r = (p * b) * s + (d * p + r)
OBVIOUS

LEMMA ModuloProduct ==
    ASSUME NEW a \in Nat, NEW p \in Nat \ {0}, NEW b \in Nat \ {0}
    PROVE  /\ a % (p * b) = (a % p) + ((a \div p) % b) * p
           /\ p * b \in Nat \ {0}
<1>1. PICK q \in Nat, r \in 0 .. p - 1 : a = p * q + r /\ q = a \div p /\ r = a % p
  BY Division
<1>2. PICK s \in Nat, d \in 0 .. b - 1 : q = b * s + d /\ d = q % b
  BY Division
<1>3. a = (p * b) * s + (d * p + r)
  <2>1. p * (b * s + d) + r = (p * b) * s + (d * p + r)
    BY Regroup
  <2>2. a = p * (b * s + d) + r
    BY <1>1, <1>2, Zenon
  <2> QED BY <2>1, <2>2, Zenon
<1>4. p * b \in Nat \ {0}
  OBVIOUS
<1>5. d * p + r \in 0 .. (p * b) - 1
  <2>1. d * p \in Nat /\ d * p + p <= p * b
    <3>1. (d + 1) * p <= b * p
      BY ProductMonotone
    <3> QED BY <3>1
  <2> QED BY <2>1
<1>6. a % (p * b) = d * p + r
  BY <1>3, <1>4, <1>5, DivisionOf
<1>7. (a % p) + ((a \div p) % b) * p = r + d * p
  BY <1>1, <1>2
<1> QED BY <1>4, <1>6, <1>7
LEMMA Pow2Monotone == \A m, n \in Nat : m <= n => Pow2[m] <= Pow2[n]
<1> SUFFICES ASSUME NEW m \in Nat, NEW n \in Nat, m <= n
             PROVE  Pow2[m] <= Pow2[n]
  OBVIOUS
<1>1. PICK a \in Nat, b \in Nat \ {0} : a = Pow2[m] /\ b = Pow2[n - m] /\ Pow2[m + (n - m)] = a * b
  <2>1. n - m \in Nat
    OBVIOUS
  <2>2. /\ Pow2[m] \in Nat /\ Pow2[n - m] \in Nat \ {0}
        /\ Pow2[m + (n - m)] = Pow2[m] * Pow2[n - m]
    BY <2>1, Pow2Add
  <2> QED BY <2>2
<1>2. m + (n - m) = n
  OBVIOUS
<1>3. 1 * a <= b * a
  BY ProductMonotone
<1> QED BY <1>1, <1>2, <1>3

(* Bytes. *)
LEMMA Constants ==
    /\ Group \in Nat \ {0} /\ Width \in Nat \ {0}
    /\ Base \in Nat \ {0} /\ Base >= 2 /\ Limit \in Nat \ {0} /\ Version = Base - 1
<1>1. Group \in Nat \ {0} /\ Width \in Nat \ {0}
  BY ParserAssumption
<1>2. 1 < Pow2[1] /\ Pow2[1] <= Pow2[Group]
  BY <1>1, Pow2Grows, Pow2Monotone
<1>3. Pow2[Group] \in Nat \ {0} /\ Pow2[Width] \in Nat \ {0} /\ Pow2[1] \in Nat
  BY <1>1, Pow2Add
<1>4. Pow2[Group] >= 2
  BY <1>2, <1>3
<1> QED BY <1>1, <1>3, <1>4 DEF Base, Limit, Version

(* Size(n) groups hold n, and no fewer. *)
LEMMA SizeFacts ==
    ASSUME NEW n \in Nat
    PROVE  /\ Size(n) \in 1 .. n + 1 /\ n < Pow2[Group * Size(n)]
           /\ \A k \in 1 .. Size(n) - 1 : Pow2[Group * k] <= n
<1>1. Group \in Nat \ {0}
  BY Constants
<1> DEFINE small == {m \in Nat : m > 0 => Pow2[Group * m] <= n}
<1>2. n + 1 \notin small
  <2>1. 1 * (n + 1) <= Group * (n + 1) /\ Group * (n + 1) \in Nat
    BY <1>1, ProductMonotone
  <2>2. n + 1 < Pow2[n + 1] /\ Pow2[n + 1] <= Pow2[Group * (n + 1)]
    BY <2>1, Pow2Grows, Pow2Monotone
  <2> QED BY <2>1, <2>2, Pow2Facts
<1> DEFINE below == {m \in Nat : \A k \in 0 .. m : k \in small}
<1>3. 0 \in below
  OBVIOUS
<1>4. PICK m \in Nat : m \in below /\ m + 1 \notin below
  <2>1. n + 1 \notin below
    BY <1>2
  <2> HIDE DEF below
  <2> QED BY <1>3, <2>1, Induction
<1>5. m + 1 \notin small /\ \A k \in 1 .. m : k \in small
  BY <1>4
<1>6. m <= n
  BY <1>2, <1>5
<1>7. n < Pow2[Group * (m + 1)]
  <2>1. Group * (m + 1) \in Nat
    BY <1>1
  <2> QED BY <1>5, <2>1, Pow2Facts
<1>8. m + 1 \in 1 .. n + 1 /\ \A k \in 1 .. (m + 1) - 1 : Pow2[Group * k] <= n
  BY <1>5, <1>6
<1> QED BY <1>7, <1>8 DEF Size

-----------------------------------------------------------------------------
(* Functions defined on 0 .. m by recursion. *)
Unfolds(f, S, base, step, m) ==
    f \in [0 .. m -> S] /\ f[0] = base /\ \A n \in 1 .. m : f[n] = step[n][f[n - 1]]

LEMMA BoundedRecursion ==
    ASSUME NEW S, NEW base \in S, NEW m \in Nat, NEW step \in [1 .. m -> [S -> S]]
    PROVE  \E f : Unfolds(f, S, base, step, m)
<1> DEFINE next == [n \in Nat |-> IF n + 1 \in 1 .. m THEN step[n + 1] ELSE [x \in S |-> x]]
<1>1. next \in [Nat -> [S -> S]] /\ \A n \in Nat : n + 1 <= m => next[n] = step[n + 1]
  OBVIOUS
<1> HIDE DEF next
<1>2. PICK g : Recursive(g, S, base, next)
  BY <1>1, Recursion
<1> DEFINE h == [n \in 0 .. m |-> g[n]]
<1>3. h \in [0 .. m -> S] /\ h[0] = base
  BY <1>2 DEF Recursive
<1>4. ASSUME NEW n \in 1 .. m PROVE h[n] = step[n][h[n - 1]]
  <2>1. n - 1 \in Nat /\ n - 1 \in 0 .. m /\ (n - 1) + 1 = n /\ (n - 1) + 1 <= m
    OBVIOUS
  <2>2. g[(n - 1) + 1] = next[n - 1][g[n - 1]] /\ next[n - 1] = step[(n - 1) + 1]
    BY <1>1, <1>2, <2>1 DEF Recursive
  <2> QED BY <2>1, <2>2
<1> HIDE DEF h
<1> QED BY <1>3, <1>4 DEF Unfolds

(* To show something of 0 .. m, show it of 0 and from each of the next. *)
LEMMA BoundedInduction ==
    ASSUME NEW m \in Nat, NEW S, 0 \in S, \A n \in 1 .. m : n - 1 \in S => n \in S
    PROVE  0 .. m \subseteq S
<1> DEFINE T == {n \in Nat : n <= m => n \in S}
<1>1. ASSUME NEW n \in Nat, n \in T PROVE n + 1 \in T
  <2>1. CASE n + 1 <= m
    <3>1. n + 1 \in 1 .. m /\ (n + 1) - 1 = n /\ n \in S
      BY <1>1, <2>1
    <3> QED BY <3>1
  <2> QED BY <2>1
<1>2. 0 \in T
  OBVIOUS
<1> HIDE DEF T
<1>3. Nat \subseteq T
  BY <1>1, <1>2, Induction
<1> QED BY <1>3 DEF T

LEMMA JoinedFacts ==
    ASSUME NEW E, NEW seqs \in Seq(Seq(E))
    PROVE  /\ Joined(seqs) \in [0 .. Len(seqs) -> Seq(E)] /\ Joined(seqs)[0] = << >>
           /\ \A n \in 1 .. Len(seqs) :
                Joined(seqs)[n] = seqs[Len(seqs) - n + 1] \o Joined(seqs)[n - 1]
<1> DEFINE m == Len(seqs)
           step == [n \in 1 .. m |-> [x \in Seq(E) |-> seqs[m - n + 1] \o x]]
<1>1. m \in Nat /\ << >> \in Seq(E) /\ \A n \in 1 .. m : seqs[m - n + 1] \in Seq(E)
  OBVIOUS
<1>2. step \in [1 .. m -> [Seq(E) -> Seq(E)]]
  BY <1>1
<1>3. PICK f : Unfolds(f, Seq(E), << >>, step, m)
  <2> HIDE DEF step, m
  <2> QED BY <1>1, <1>2, BoundedRecursion
<1>4. f = [n \in 0 .. m |-> IF n = 0 THEN << >> ELSE seqs[m - n + 1] \o f[n - 1]]
  <2>1. ASSUME NEW n \in 0 .. m PROVE f[n] = IF n = 0 THEN << >> ELSE seqs[m - n + 1] \o f[n - 1]
    <3>1. CASE n = 0
      BY <1>3, <3>1 DEF Unfolds
    <3>2. CASE n \in 1 .. m
      <4>1. n - 1 \in 0 .. m /\ n # 0
        BY <1>1, <3>2
      <4>2. f[n] = step[n][f[n - 1]] /\ f[n - 1] \in Seq(E)
        BY <1>3, <3>2, <4>1 DEF Unfolds
      <4> QED BY <3>2, <4>1, <4>2
    <3> QED BY <1>1, <3>1, <3>2
  <2>2. f = [n \in 0 .. m |-> f[n]]
    BY <1>3 DEF Unfolds
  <2> QED BY <2>1, <2>2
<1>5. Joined(seqs) = [n \in 0 .. m |-> IF n = 0 THEN << >> ELSE seqs[m - n + 1] \o Joined(seqs)[n - 1]]
  BY <1>4 DEF Joined
<1> DEFINE typed == {n \in 0 .. m : Joined(seqs)[n] \in Seq(E)}
<1>6. Joined(seqs)[0] = << >> /\ 0 \in typed
  BY <1>1, <1>5
<1>7. ASSUME NEW n \in 1 .. m
      PROVE  Joined(seqs)[n] = seqs[m - n + 1] \o Joined(seqs)[n - 1]
  <2>1. n \in 0 .. m /\ n # 0
    BY <1>1
  <2> HIDE DEF m
  <2> QED BY <1>5, <2>1
<1>8. ASSUME NEW n \in 1 .. m, n - 1 \in typed PROVE n \in typed
  <2>1. Joined(seqs)[n - 1] \in Seq(E) /\ seqs[m - n + 1] \in Seq(E) /\ n \in 0 .. m
    BY <1>1, <1>8
  <2>2. seqs[m - n + 1] \o Joined(seqs)[n - 1] \in Seq(E)
    BY <2>1
  <2>3. Joined(seqs)[n] \in Seq(E)
    BY <1>7, <2>2
  <2> HIDE DEF m
  <2> QED BY <2>1, <2>3
<1> HIDE DEF typed, m
<1>9. 0 .. m \subseteq typed
  BY <1>1, <1>6, <1>8, BoundedInduction
<1> QED BY <1>5, <1>6, <1>7, <1>9 DEF typed, m

LEMMA SumsFacts ==
    ASSUME NEW numbers \in Seq(Nat)
    PROVE  /\ Sums(numbers) \in [0 .. Len(numbers) -> Nat] /\ Sums(numbers)[0] = 0
           /\ \A n \in 1 .. Len(numbers) : Sums(numbers)[n] = Sums(numbers)[n - 1] + numbers[n]
<1> DEFINE m == Len(numbers)
           step == [n \in 1 .. m |-> [x \in Nat |-> x + numbers[n]]]
<1>1. m \in Nat /\ \A n \in 1 .. m : numbers[n] \in Nat
  OBVIOUS
<1>2. step \in [1 .. m -> [Nat -> Nat]] /\ 0 \in Nat
  BY <1>1
<1>3. PICK f : Unfolds(f, Nat, 0, step, m)
  <2> HIDE DEF step, m
  <2> QED BY <1>1, <1>2, BoundedRecursion
<1>4. f = [n \in 0 .. m |-> IF n = 0 THEN 0 ELSE f[n - 1] + numbers[n]]
  <2>1. ASSUME NEW n \in 0 .. m PROVE f[n] = IF n = 0 THEN 0 ELSE f[n - 1] + numbers[n]
    <3>1. CASE n = 0
      BY <1>3, <3>1 DEF Unfolds
    <3>2. CASE n \in 1 .. m
      <4>1. n - 1 \in 0 .. m /\ n # 0
        BY <1>1, <3>2
      <4>2. f[n] = step[n][f[n - 1]] /\ f[n - 1] \in Nat
        BY <1>3, <3>2, <4>1 DEF Unfolds
      <4> QED BY <3>2, <4>1, <4>2
    <3> QED BY <1>1, <3>1, <3>2
  <2>2. f = [n \in 0 .. m |-> f[n]]
    BY <1>3 DEF Unfolds
  <2> QED BY <2>1, <2>2
<1>5. Sums(numbers) = [n \in 0 .. m |-> IF n = 0 THEN 0 ELSE Sums(numbers)[n - 1] + numbers[n]]
  BY <1>4 DEF Sums
<1> DEFINE typed == {n \in 0 .. m : Sums(numbers)[n] \in Nat}
<1>6. Sums(numbers)[0] = 0 /\ 0 \in typed
  BY <1>1, <1>5
<1>7. ASSUME NEW n \in 1 .. m PROVE Sums(numbers)[n] = Sums(numbers)[n - 1] + numbers[n]
  <2>1. n \in 0 .. m /\ n # 0
    BY <1>1
  <2> HIDE DEF m
  <2> QED BY <1>5, <2>1
<1>8. \A n \in 1 .. m : n - 1 \in typed => n \in typed
  BY <1>1, <1>7
<1> HIDE DEF typed, m
<1>9. 0 .. m \subseteq typed
  BY <1>1, <1>6, <1>8, BoundedInduction
<1> QED BY <1>5, <1>6, <1>7, <1>9 DEF typed, m

(* A list of sequences and the same list without its first. *)
Rests(tail, seq) == Len(seq) = Len(tail) + 1 /\ \A i \in DOMAIN tail : tail[i] = seq[i + 1]

LEMMA FlattenNone == Flatten(<< >>) = << >>
<1>1. << >> \in Seq(Seq({})) /\ Len(<< >>) = 0
  OBVIOUS
<1> QED BY <1>1, JoinedFacts DEF Flatten

LEMMA FlattenType ==
    ASSUME NEW E, NEW seqs \in Seq(Seq(E))
    PROVE  Flatten(seqs) \in Seq(E)
<1>1. Len(seqs) \in 0 .. Len(seqs)
  OBVIOUS
<1> QED BY <1>1, JoinedFacts DEF Flatten

LEMMA FlattenStep ==
    ASSUME NEW E, NEW seqs \in Seq(Seq(E)), NEW tail \in Seq(Seq(E)), Rests(tail, seqs)
    PROVE  Flatten(seqs) = seqs[1] \o Flatten(tail)
<1>1. PICK m \in Nat : m = Len(tail) /\ Len(seqs) = m + 1
  BY DEF Rests
<1>2. DOMAIN tail = 1 .. m
  BY <1>1
<1> DEFINE same == {n \in 0 .. m : Joined(seqs)[n] = Joined(tail)[n]}
<1>3. 0 \in same
  <2>1. Joined(seqs)[0] = << >>
    BY JoinedFacts
  <2>2. Joined(tail)[0] = << >>
    BY JoinedFacts
  <2> QED BY <2>1, <2>2
<1>4. ASSUME NEW n \in 1 .. m, n - 1 \in same PROVE n \in same
  <2>1. m - n + 1 \in 1 .. m /\ (m - n + 1) + 1 = (m + 1) - n + 1 /\ n \in 1 .. m + 1 /\ n \in 0 .. m
    BY <1>1
  <2>2. tail[m - n + 1] = seqs[(m - n + 1) + 1]
    BY <1>2, <2>1 DEF Rests
  <2>3. Joined(seqs)[n] = seqs[(m + 1) - n + 1] \o Joined(seqs)[n - 1]
    BY <1>1, <2>1, JoinedFacts
  <2>4. Joined(tail)[n] = tail[m - n + 1] \o Joined(tail)[n - 1]
    BY <1>1, JoinedFacts
  <2>5. Joined(tail)[n - 1] = Joined(seqs)[n - 1]
    BY <1>4
  <2>6. Joined(seqs)[n] = Joined(tail)[n]
    BY <2>1, <2>2, <2>3, <2>4, <2>5
  <2> QED BY <2>1, <2>6
<1>5. m \in same
  <2> HIDE DEF same
  <2>1. 0 .. m \subseteq same
    BY <1>3, <1>4, BoundedInduction
  <2> QED BY <2>1
<1>6. Joined(seqs)[m + 1] = seqs[1] \o Joined(seqs)[m]
  <2>1. m + 1 \in 1 .. m + 1 /\ (m + 1) - (m + 1) + 1 = 1 /\ (m + 1) - 1 = m
    OBVIOUS
  <2>2. Joined(seqs)[m + 1] = seqs[(m + 1) - (m + 1) + 1] \o Joined(seqs)[(m + 1) - 1]
    BY <1>1, <2>1, JoinedFacts
  <2> QED BY <2>1, <2>2
<1> QED BY <1>1, <1>5, <1>6 DEF Flatten

(* The sums of a list, and of the same list without its first. *)
LEMMA SumsStep ==
    ASSUME NEW numbers \in Seq(Nat), NEW tail \in Seq(Nat), Rests(tail, numbers)
    PROVE  /\ \A i \in DOMAIN tail : Sums(numbers)[i + 1] = numbers[1] + Sums(tail)[i]
           /\ Sums(numbers)[1] = numbers[1]
<1>1. PICK m \in Nat : m = Len(tail) /\ Len(numbers) = m + 1
  BY DEF Rests
<1>2. DOMAIN tail = 1 .. m /\ \A i \in 1 .. m + 1 : numbers[i] \in Nat
  BY <1>1
<1>3. Sums(numbers)[1] = numbers[1]
  <2>1. 1 \in 1 .. m + 1 /\ 1 - 1 = 0
    OBVIOUS
  <2>2. Sums(numbers)[1] = Sums(numbers)[1 - 1] + numbers[1] /\ Sums(numbers)[0] = 0
    BY <1>1, <2>1, SumsFacts
  <2> QED BY <1>2, <2>1, <2>2
<1> DEFINE right == {n \in 0 .. m : Sums(numbers)[n + 1] = numbers[1] + Sums(tail)[n]}
<1>4. 0 \in right
  BY <1>1, <1>3, SumsFacts
<1>5. ASSUME NEW n \in 1 .. m, n - 1 \in right PROVE n \in right
  <2>1. n + 1 \in 1 .. m + 1 /\ (n + 1) - 1 = n /\ n \in 0 .. m /\ n - 1 \in 0 .. m /\ (n - 1) + 1 = n
    BY <1>1
  <2>2. Sums(numbers)[n + 1] = Sums(numbers)[n] + numbers[n + 1]
    BY <1>1, <2>1, SumsFacts
  <2>3. Sums(tail)[n] = Sums(tail)[n - 1] + tail[n]
    BY <1>1, SumsFacts
  <2>4. Sums(tail)[n] = Sums(tail)[n - 1] + tail[n] /\ tail[n] = numbers[n + 1]
    BY <1>2, <2>3 DEF Rests
  <2>5. Sums(numbers)[n] = numbers[1] + Sums(tail)[n - 1]
    BY <1>5, <2>1
  <2>6. Sums(tail) \in [0 .. m -> Nat]
    BY <1>1, SumsFacts
  <2>7. Sums(tail)[n - 1] \in Nat /\ numbers[n + 1] \in Nat /\ numbers[1] \in Nat
    BY <1>2, <2>1, <2>6
  <2>8. Sums(numbers)[n + 1] = numbers[1] + Sums(tail)[n]
    BY <2>2, <2>4, <2>5, <2>7
  <2> QED BY <2>1, <2>8
<1> HIDE DEF right
<1>6. 0 .. m \subseteq right
  BY <1>4, <1>5, BoundedInduction
<1> QED BY <1>1, <1>3, <1>6 DEF right

-----------------------------------------------------------------------------
(* The numbers and the entries of a list, from those of its first member and *)
(* of the rest.                                                              *)
NumberRecords == [is : Numbers, n : Nat]
EntryRecords == [from_section : Nat, to_section : Nat, from_offset : Nat, to_offset : Nat, kind : Nat]

LEMMA NumType == ASSUME NEW name \in Numbers, NEW n \in Nat PROVE Num(name, n) \in NumberRecords
BY DEF Num, NumberRecords

LEMMA MapType ==
    ASSUME NEW S, NEW seq \in Seq(S), NEW E, NEW f \in [DOMAIN seq -> E]
    PROVE  f \in Seq(E)
OBVIOUS

LEMMA TailRests ==
    ASSUME NEW S, NEW seq \in Seq(S), seq # << >>
    PROVE  /\ Tail(seq) \in Seq(S) /\ Rests(Tail(seq), seq)
           /\ Head(seq) = seq[1] /\ Head(seq) \in S /\ 1 \in DOMAIN seq
           /\ Len(seq) = Len(Tail(seq)) + 1
BY DEF Rests

LEMMA SequenceEqual ==
    ASSUME NEW E, NEW s \in Seq(E), NEW t \in Seq(E), Len(s) = Len(t),
           \A i \in 1 .. Len(s) : s[i] = t[i]
    PROVE  s = t
OBVIOUS

LEMMA FirstAndRest ==
    ASSUME NEW E, NEW seq \in Seq(E), NEW tail \in Seq(E), Rests(tail, seq)
    PROVE  seq = <<seq[1]>> \o tail
<1>1. PICK m \in Nat : m = Len(tail) /\ Len(seq) = m + 1
  BY DEF Rests
<1>2. seq[1] \in E /\ DOMAIN tail = 1 .. m /\ \A i \in 1 .. m : tail[i] = seq[i + 1]
  BY <1>1 DEF Rests
<1> DEFINE r == <<seq[1]>> \o tail
<1>3. r \in Seq(E) /\ Len(r) = m + 1 /\ r[1] = seq[1]
  BY <1>1, <1>2
<1>4. ASSUME NEW i \in 2 .. m + 1 PROVE r[i] = seq[i]
  <2>1. i - 1 \in 1 .. m /\ (i - 1) + 1 = i
    OBVIOUS
  <2>2. r[i] = tail[i - 1]
    BY <1>1, <1>2
  <2> QED BY <1>2, <2>1, <2>2
<1> HIDE DEF r
<1>5. \A i \in 1 .. m + 1 : r[i] = seq[i]
  BY <1>3, <1>4
<1>6. r = seq
  BY <1>1, <1>3, <1>5, SequenceEqual
<1> QED BY <1>6 DEF r

LEMMA DeltaNumbersType ==
    ASSUME NEW ds \in Seq(Nat)
    PROVE  DeltaNumbers(ds) \in Seq(NumberRecords)
<1>1. "delta" \in Numbers /\ \A d \in DOMAIN ds : ds[d] \in Nat
  BY DEF Numbers
<1>2. \A d \in DOMAIN ds : Num("delta", ds[d]) \in NumberRecords
  BY <1>1, NumType
<1> QED BY <1>2, MapType DEF DeltaNumbers

LEMMA DeltaNumbersStep ==
    ASSUME NEW ds \in Seq(Nat), ds # << >>
    PROVE  DeltaNumbers(ds) = <<Num("delta", Head(ds))>> \o DeltaNumbers(Tail(ds))
<1>1. DeltaNumbers(ds) \in Seq(NumberRecords) /\ DeltaNumbers(Tail(ds)) \in Seq(NumberRecords)
  BY DeltaNumbersType, TailRests
<1>2. Rests(DeltaNumbers(Tail(ds)), DeltaNumbers(ds)) /\ DeltaNumbers(ds)[1] = Num("delta", Head(ds))
  BY DEF DeltaNumbers, Rests
<1> QED BY <1>1, <1>2, FirstAndRest

KindBlock(k) == <<Num("kind", k.kind), Num("deltas", Len(k.deltas))>> \o DeltaNumbers(k.deltas)
OffsetBlock(o) == <<Num("to_delta", o.delta), Num("from_offsets", Len(o.kinds))>> \o KindNumbers(o.kinds)
SectionBlock(s) ==
    <<Num("from_section", s.from), Num("to_section", s.to), Num("to_offsets", Len(s.offsets))>>
    \o OffsetNumbers(s.offsets)

LEMMA KindBlockType == ASSUME NEW k \in KindRecords PROVE KindBlock(k) \in Seq(NumberRecords)
<1>1. "kind" \in Numbers /\ "deltas" \in Numbers
  BY DEF Numbers
<1>2. k.kind \in Nat /\ k.deltas \in Seq(Nat) /\ Len(k.deltas) \in Nat
  BY DEF KindRecords
<1>3. <<Num("kind", k.kind), Num("deltas", Len(k.deltas))>> \in Seq(NumberRecords)
  BY <1>1, <1>2, NumType
<1> QED BY <1>2, <1>3, DeltaNumbersType DEF KindBlock

LEMMA KindNumbersType == ASSUME NEW ks \in Seq(KindRecords) PROVE KindNumbers(ks) \in Seq(NumberRecords)
<1>1. \A k \in DOMAIN ks : KindBlock(ks[k]) \in Seq(NumberRecords)
  BY KindBlockType
<1>2. [k \in DOMAIN ks |-> KindBlock(ks[k])] \in Seq(Seq(NumberRecords))
  BY <1>1, MapType
<1> QED BY <1>2, FlattenType DEF KindNumbers, KindBlock

LEMMA KindNumbersStep ==
    ASSUME NEW ks \in Seq(KindRecords), ks # << >>
    PROVE  KindNumbers(ks) = KindBlock(Head(ks)) \o KindNumbers(Tail(ks))
<1> DEFINE f == [k \in DOMAIN ks |-> KindBlock(ks[k])]
           g == [k \in DOMAIN Tail(ks) |-> KindBlock(Tail(ks)[k])]
<1>1. f \in Seq(Seq(NumberRecords)) /\ g \in Seq(Seq(NumberRecords)) /\ f[1] = KindBlock(Head(ks))
  BY KindBlockType
<1>2. Rests(g, f)
  BY DEF Rests
<1>3. KindNumbers(ks) = Flatten(f) /\ KindNumbers(Tail(ks)) = Flatten(g)
  BY DEF KindNumbers, KindBlock
<1> HIDE DEF f, g
<1> QED BY <1>1, <1>2, <1>3, FlattenStep

LEMMA OffsetBlockType == ASSUME NEW o \in OffsetRecords PROVE OffsetBlock(o) \in Seq(NumberRecords)
<1>1. "to_delta" \in Numbers /\ "from_offsets" \in Numbers
  BY DEF Numbers
<1>2. o.delta \in Nat /\ o.kinds \in Seq(KindRecords) /\ Len(o.kinds) \in Nat
  BY DEF OffsetRecords
<1>3. <<Num("to_delta", o.delta), Num("from_offsets", Len(o.kinds))>> \in Seq(NumberRecords)
  BY <1>1, <1>2, NumType
<1> QED BY <1>2, <1>3, KindNumbersType DEF OffsetBlock

LEMMA OffsetNumbersType ==
    ASSUME NEW os \in Seq(OffsetRecords)
    PROVE  OffsetNumbers(os) \in Seq(NumberRecords)
<1>1. \A o \in DOMAIN os : OffsetBlock(os[o]) \in Seq(NumberRecords)
  BY OffsetBlockType
<1>2. [o \in DOMAIN os |-> OffsetBlock(os[o])] \in Seq(Seq(NumberRecords))
  BY <1>1, MapType
<1> QED BY <1>2, FlattenType DEF OffsetNumbers, OffsetBlock

LEMMA OffsetNumbersStep ==
    ASSUME NEW os \in Seq(OffsetRecords), os # << >>
    PROVE  OffsetNumbers(os) = OffsetBlock(Head(os)) \o OffsetNumbers(Tail(os))
<1> DEFINE f == [o \in DOMAIN os |-> OffsetBlock(os[o])]
           g == [o \in DOMAIN Tail(os) |-> OffsetBlock(Tail(os)[o])]
<1>1. f \in Seq(Seq(NumberRecords)) /\ g \in Seq(Seq(NumberRecords)) /\ f[1] = OffsetBlock(Head(os))
  BY OffsetBlockType
<1>2. Rests(g, f)
  BY DEF Rests
<1>3. OffsetNumbers(os) = Flatten(f) /\ OffsetNumbers(Tail(os)) = Flatten(g)
  BY DEF OffsetNumbers, OffsetBlock
<1> HIDE DEF f, g
<1> QED BY <1>1, <1>2, <1>3, FlattenStep

LEMMA SectionBlockType == ASSUME NEW s \in SectionRecords PROVE SectionBlock(s) \in Seq(NumberRecords)
<1>1. "from_section" \in Numbers /\ "to_section" \in Numbers /\ "to_offsets" \in Numbers
  BY DEF Numbers
<1>2. s.from \in Nat /\ s.to \in Nat /\ s.offsets \in Seq(OffsetRecords) /\ Len(s.offsets) \in Nat
  BY DEF SectionRecords
<1>3. <<Num("from_section", s.from), Num("to_section", s.to), Num("to_offsets", Len(s.offsets))>>
      \in Seq(NumberRecords)
  BY <1>1, <1>2, NumType
<1> QED BY <1>2, <1>3, OffsetNumbersType DEF SectionBlock

LEMMA SectionNumbersType ==
    ASSUME NEW ss \in Seq(SectionRecords)
    PROVE  SectionNumbers(ss) \in Seq(NumberRecords)
<1>1. \A s \in DOMAIN ss : SectionBlock(ss[s]) \in Seq(NumberRecords)
  BY SectionBlockType
<1>2. [s \in DOMAIN ss |-> SectionBlock(ss[s])] \in Seq(Seq(NumberRecords))
  BY <1>1, MapType
<1> QED BY <1>2, FlattenType DEF SectionNumbers, SectionBlock

LEMMA SectionNumbersStep ==
    ASSUME NEW ss \in Seq(SectionRecords), ss # << >>
    PROVE  SectionNumbers(ss) = SectionBlock(Head(ss)) \o SectionNumbers(Tail(ss))
<1> DEFINE f == [s \in DOMAIN ss |-> SectionBlock(ss[s])]
           g == [s \in DOMAIN Tail(ss) |-> SectionBlock(Tail(ss)[s])]
<1>1. f \in Seq(Seq(NumberRecords)) /\ g \in Seq(Seq(NumberRecords)) /\ f[1] = SectionBlock(Head(ss))
  BY SectionBlockType
<1>2. Rests(g, f)
  BY DEF Rests
<1>3. SectionNumbers(ss) = Flatten(f) /\ SectionNumbers(Tail(ss)) = Flatten(g)
  BY DEF SectionNumbers, SectionBlock
<1> HIDE DEF f, g
<1> QED BY <1>1, <1>2, <1>3, FlattenStep

LEMMA ModuloAdd ==
    ASSUME NEW p \in Nat \ {0}, NEW a \in Nat, NEW b \in Nat
    PROVE  ((a % p) + b) % p = (a + b) % p
<1>1. PICK q \in Nat, r \in 0 .. p - 1 : a = p * q + r /\ r = a % p
  BY Division
<1>2. r + b \in Nat
  OBVIOUS
<1>3. PICK s \in Nat, t \in 0 .. p - 1 : r + b = p * s + t /\ t = (r + b) % p
  BY <1>2, Division
<1>4. p * q + (p * s + t) = p * (q + s) + t /\ q + s \in Nat
  OBVIOUS
<1>5. PICK u \in Nat : u = p * q
  OBVIOUS
<1>6. a + b = p * q + (r + b)
  BY <1>1, <1>5
<1>7. a + b = p * (q + s) + t
  BY <1>3, <1>4, <1>6, Zenon
<1>8. (p * (q + s) + t) % p = t
  BY <1>4, DivisionOf
<1>9. (a + b) % p = t /\ ((a % p) + b) % p = t
  BY <1>1, <1>3, <1>7, <1>8, Zenon
<1> QED BY <1>9

LEMMA SumToFacts ==
    ASSUME NEW start \in Nat, NEW numbers \in Seq(Nat), NEW i \in DOMAIN numbers
    PROVE  SumTo(start, numbers, i) \in Nat
<1>1. i \in 0 .. Len(numbers)
  OBVIOUS
<1>2. Sums(numbers)[i] \in Nat
  BY <1>1, SumsFacts
<1>3. start + Sums(numbers)[i] \in Nat /\ Limit \in Nat \ {0}
  BY <1>2, Constants
<1> HIDE DEF Limit, Sums
<1> QED BY <1>3 DEF SumTo

Carried(start, numbers, next, tail) ==
    /\ next \in Nat /\ SumTo(start, numbers, 1) = next
    /\ \A i \in DOMAIN tail : SumTo(next, tail, i) = SumTo(start, numbers, i + 1)

LEMMA SumToStep ==
    ASSUME NEW start \in Nat, NEW numbers \in Seq(Nat), NEW tail \in Seq(Nat), Rests(tail, numbers)
    PROVE  Carried(start, numbers, (start + numbers[1]) % Limit, tail)
<1> DEFINE next == (start + numbers[1]) % Limit
<1>1. Limit \in Nat \ {0} /\ numbers[1] \in Nat
  BY Constants DEF Rests
<1>2. SumTo(start, numbers, 1) = next
  BY SumsStep DEF SumTo
<1>3. ASSUME NEW i \in DOMAIN tail
      PROVE  SumTo(next, tail, i) = SumTo(start, numbers, i + 1)
  <2>1. i \in 0 .. Len(tail)
    OBVIOUS
  <2>2. PICK s \in Nat : s = Sums(tail)[i]
    BY <2>1, SumsFacts
  <2>3. Sums(numbers)[i + 1] = numbers[1] + s
    BY <2>2, SumsStep
  <2>4. (((start + numbers[1]) % Limit) + s) % Limit = ((start + numbers[1]) + s) % Limit
    <3>1. PICK d \in Nat : d = numbers[1]
      BY <1>1
    <3>2. start + numbers[1] \in Nat
      BY <3>1
    <3> HIDE DEF Limit
    <3> QED BY <1>1, <3>2, ModuloAdd
  <2>5. (start + numbers[1]) + s = start + (numbers[1] + s)
    BY <1>1
  <2> QED BY <2>2, <2>3, <2>4, <2>5 DEF SumTo
<1>4. next \in Nat
  <2>1. PICK d \in Nat : d = numbers[1]
    BY <1>1
  <2> HIDE DEF Limit
  <2> QED BY <1>1, <2>1
<1> QED BY <1>2, <1>3, <1>4 DEF Carried

LEMMA KindFields ==
    ASSUME NEW ks \in Seq(KindRecords), NEW k \in DOMAIN ks
    PROVE  ks[k].kind \in Nat /\ ks[k].deltas \in Seq(Nat)
<1>1. ks[k] \in KindRecords
  OBVIOUS
<1> QED BY <1>1 DEF KindRecords

LEMMA OffsetFields ==
    ASSUME NEW os \in Seq(OffsetRecords), NEW o \in DOMAIN os
    PROVE  os[o].delta \in Nat /\ os[o].kinds \in Seq(KindRecords)
<1>1. os[o] \in OffsetRecords
  OBVIOUS
<1> QED BY <1>1 DEF OffsetRecords

LEMMA SectionFields ==
    ASSUME NEW ss \in Seq(SectionRecords), NEW s \in DOMAIN ss
    PROVE  ss[s].from \in Nat /\ ss[s].to \in Nat /\ ss[s].offsets \in Seq(OffsetRecords)
<1>1. ss[s] \in SectionRecords
  OBVIOUS
<1> QED BY <1>1 DEF SectionRecords

LEMMA EntryType ==
    ASSUME NEW a \in Nat, NEW b \in Nat, NEW c \in Nat, NEW d \in Nat, NEW e \in Nat
    PROVE  Entry(a, b, c, d, e) \in EntryRecords
BY DEF Entry, EntryRecords

LEMMA DeltaEntriesType ==
    ASSUME NEW from \in Nat, NEW to \in Nat, NEW start \in Nat, NEW offset \in Nat, NEW kind \in Nat,
           NEW ds \in Seq(Nat)
    PROVE  DeltaEntries(from, to, start, offset, kind, ds) \in Seq(EntryRecords)
<1>1. \A d \in DOMAIN ds : Entry(from, to, SumTo(start, ds, d), offset, kind) \in EntryRecords
  BY EntryType, SumToFacts
<1> QED BY <1>1, MapType DEF DeltaEntries

DeltaStep(from, to, start, offset, kind, ds, next) ==
    /\ next \in Nat
    /\ DeltaEntries(from, to, start, offset, kind, ds) =
         <<Entry(from, to, next, offset, kind)>> \o DeltaEntries(from, to, next, offset, kind, Tail(ds))

LEMMA DeltaEntriesStep ==
    ASSUME NEW from \in Nat, NEW to \in Nat, NEW start \in Nat, NEW offset \in Nat, NEW kind \in Nat,
           NEW ds \in Seq(Nat), ds # << >>
    PROVE  DeltaStep(from, to, start, offset, kind, ds, (start + Head(ds)) % Limit)
<1> DEFINE next == (start + Head(ds)) % Limit
<1>1. Tail(ds) \in Seq(Nat) /\ Rests(Tail(ds), ds) /\ Head(ds) = ds[1] /\ 1 \in DOMAIN ds
  BY TailRests
<1>2. /\ next \in Nat /\ SumTo(start, ds, 1) = next
      /\ \A i \in DOMAIN Tail(ds) : SumTo(next, Tail(ds), i) = SumTo(start, ds, i + 1)
  <2>1. next = (start + ds[1]) % Limit
    BY <1>1
  <2>2. Carried(start, ds, (start + ds[1]) % Limit, Tail(ds))
    BY <1>1, SumToStep
  <2>3. Carried(start, ds, next, Tail(ds))
    BY <2>1, <2>2
  <2> QED BY <2>3 DEF Carried
<1> DEFINE f == DeltaEntries(from, to, start, offset, kind, ds)
           g == DeltaEntries(from, to, next, offset, kind, Tail(ds))
<1>3. f \in Seq(EntryRecords) /\ g \in Seq(EntryRecords)
  BY <1>1, <1>2, DeltaEntriesType
<1>4. f[1] = Entry(from, to, next, offset, kind)
  BY <1>1, <1>2 DEF DeltaEntries
<1>5. Rests(g, f)
  <2>1. Len(f) = Len(ds) /\ Len(g) = Len(Tail(ds)) /\ DOMAIN g = DOMAIN Tail(ds)
    BY DEF DeltaEntries
  <2>2. \A i \in DOMAIN Tail(ds) : g[i] = f[i + 1]
    <3>1. \A i \in DOMAIN Tail(ds) : i + 1 \in DOMAIN ds
      BY <1>1
    <3> QED BY <1>2, <3>1 DEF DeltaEntries
  <2> QED BY <1>1, <2>1, <2>2 DEF Rests
<1> HIDE DEF f, g
<1>6. f = <<f[1]>> \o g
  BY <1>3, <1>5, FirstAndRest
<1> QED BY <1>2, <1>4, <1>6 DEF f, g, DeltaStep

LEMMA KindEntriesType ==
    ASSUME NEW from \in Nat, NEW to \in Nat, NEW offset \in Nat, NEW ks \in Seq(KindRecords)
    PROVE  KindEntries(from, to, offset, ks) \in Seq(EntryRecords)
<1>1. \A k \in DOMAIN ks : ks[k].kind \in Nat /\ ks[k].deltas \in Seq(Nat)
  BY KindFields
<1>2. \A k \in DOMAIN ks :
        DeltaEntries(from, to, 0, offset, ks[k].kind, ks[k].deltas) \in Seq(EntryRecords)
  BY <1>1, DeltaEntriesType
<1>3. [k \in DOMAIN ks |-> DeltaEntries(from, to, 0, offset, ks[k].kind, ks[k].deltas)]
      \in Seq(Seq(EntryRecords))
  BY <1>2, MapType
<1> QED BY <1>3, FlattenType DEF KindEntries

LEMMA KindEntriesStep ==
    ASSUME NEW from \in Nat, NEW to \in Nat, NEW offset \in Nat, NEW ks \in Seq(KindRecords), ks # << >>
    PROVE  KindEntries(from, to, offset, ks) =
             DeltaEntries(from, to, 0, offset, Head(ks).kind, Head(ks).deltas)
             \o KindEntries(from, to, offset, Tail(ks))
<1> DEFINE block(k) == DeltaEntries(from, to, 0, offset, k.kind, k.deltas)
           f == [k \in DOMAIN ks |-> block(ks[k])]
           g == [k \in DOMAIN Tail(ks) |-> block(Tail(ks)[k])]
<1>1. ASSUME NEW k \in KindRecords PROVE block(k) \in Seq(EntryRecords)
  <2>1. k.kind \in Nat /\ k.deltas \in Seq(Nat)
    BY DEF KindRecords
  <2> QED BY <2>1, DeltaEntriesType
<1>2. KindEntries(from, to, offset, ks) = Flatten(f) /\ KindEntries(from, to, offset, Tail(ks)) = Flatten(g)
  BY DEF KindEntries
<1>3. block(Head(ks)) = DeltaEntries(from, to, 0, offset, Head(ks).kind, Head(ks).deltas)
  OBVIOUS
<1> HIDE DEF block
<1>4. f \in Seq(Seq(EntryRecords)) /\ g \in Seq(Seq(EntryRecords)) /\ f[1] = block(Head(ks))
  BY <1>1
<1>5. Rests(g, f)
  BY DEF Rests
<1> HIDE DEF f, g
<1> QED BY <1>2, <1>3, <1>4, <1>5, FlattenStep

LEMMA OffsetDeltasType ==
    ASSUME NEW os \in Seq(OffsetRecords)
    PROVE  OffsetDeltas(os) \in Seq(Nat) /\ DOMAIN OffsetDeltas(os) = DOMAIN os
<1>1. \A o \in DOMAIN os : os[o].delta \in Nat
  BY OffsetFields
<1> QED BY <1>1, MapType DEF OffsetDeltas

LEMMA OffsetEntriesType ==
    ASSUME NEW from \in Nat, NEW to \in Nat, NEW start \in Nat, NEW os \in Seq(OffsetRecords)
    PROVE  OffsetEntries(from, to, start, os) \in Seq(EntryRecords)
<1>1. \A o \in DOMAIN os : SumTo(start, OffsetDeltas(os), o) \in Nat /\ os[o].kinds \in Seq(KindRecords)
  BY OffsetDeltasType, SumToFacts, OffsetFields
<1>2. \A o \in DOMAIN os :
        KindEntries(from, to, SumTo(start, OffsetDeltas(os), o), os[o].kinds) \in Seq(EntryRecords)
  BY <1>1, KindEntriesType
<1>3. [o \in DOMAIN os |-> KindEntries(from, to, SumTo(start, OffsetDeltas(os), o), os[o].kinds)]
      \in Seq(Seq(EntryRecords))
  BY <1>2, MapType
<1> QED BY <1>3, FlattenType DEF OffsetEntries

OffsetStep(from, to, start, os, next) ==
    /\ next \in Nat
    /\ OffsetEntries(from, to, start, os) =
         KindEntries(from, to, next, Head(os).kinds) \o OffsetEntries(from, to, next, Tail(os))

LEMMA OffsetEntriesStep ==
    ASSUME NEW from \in Nat, NEW to \in Nat, NEW start \in Nat, NEW os \in Seq(OffsetRecords), os # << >>
    PROVE  OffsetStep(from, to, start, os, (start + Head(os).delta) % Limit)
<1> DEFINE next == (start + Head(os).delta) % Limit
           f == [o \in DOMAIN os |->
                   KindEntries(from, to, SumTo(start, OffsetDeltas(os), o), os[o].kinds)]
           g == [o \in DOMAIN Tail(os) |->
                   KindEntries(from, to, SumTo(next, OffsetDeltas(Tail(os)), o), Tail(os)[o].kinds)]
<1>1. Tail(os) \in Seq(OffsetRecords) /\ Rests(Tail(os), os) /\ Head(os) = os[1] /\ 1 \in DOMAIN os
  BY TailRests
<1>2. OffsetDeltas(os) \in Seq(Nat) /\ OffsetDeltas(Tail(os)) \in Seq(Nat)
  BY <1>1, OffsetDeltasType
<1>3. OffsetDeltas(os)[1] = Head(os).delta /\ Rests(OffsetDeltas(Tail(os)), OffsetDeltas(os))
  BY <1>1 DEF OffsetDeltas, Rests
<1>4. DOMAIN OffsetDeltas(Tail(os)) = DOMAIN Tail(os)
  BY <1>1, OffsetDeltasType
<1>5. /\ next \in Nat /\ SumTo(start, OffsetDeltas(os), 1) = next
      /\ \A i \in DOMAIN Tail(os) :
           SumTo(next, OffsetDeltas(Tail(os)), i) = SumTo(start, OffsetDeltas(os), i + 1)
  <2>1. next = (start + OffsetDeltas(os)[1]) % Limit
    BY <1>3
  <2>2. Carried(start, OffsetDeltas(os), (start + OffsetDeltas(os)[1]) % Limit, OffsetDeltas(Tail(os)))
    BY <1>2, <1>3, SumToStep
  <2>3. Carried(start, OffsetDeltas(os), next, OffsetDeltas(Tail(os)))
    BY <2>1, <2>2
  <2> QED BY <1>4, <2>3 DEF Carried
<1>6. /\ OffsetEntries(from, to, start, os) = Flatten(f)
      /\ OffsetEntries(from, to, next, Tail(os)) = Flatten(g)
  BY DEF OffsetEntries
<1>7. f \in Seq(Seq(EntryRecords))
  <2>1. \A o \in DOMAIN os : SumTo(start, OffsetDeltas(os), o) \in Nat /\ os[o].kinds \in Seq(KindRecords)
    BY OffsetDeltasType, SumToFacts, OffsetFields
  <2>2. \A o \in DOMAIN os :
          KindEntries(from, to, SumTo(start, OffsetDeltas(os), o), os[o].kinds) \in Seq(EntryRecords)
    BY <2>1, KindEntriesType
  <2> QED BY <2>2, MapType
<1>8. g \in Seq(Seq(EntryRecords))
  <2>1. \A o \in DOMAIN Tail(os) : /\ SumTo(next, OffsetDeltas(Tail(os)), o) \in Nat
                                  /\ Tail(os)[o].kinds \in Seq(KindRecords)
    BY <1>1, <1>2, <1>4, <1>5, SumToFacts, OffsetFields
  <2>2. \A o \in DOMAIN Tail(os) :
          KindEntries(from, to, SumTo(next, OffsetDeltas(Tail(os)), o), Tail(os)[o].kinds) \in Seq(EntryRecords)
    BY <2>1, KindEntriesType
  <2> QED BY <1>1, <2>2, MapType
<1>9. f[1] = KindEntries(from, to, next, Head(os).kinds)
  BY <1>1, <1>5
<1>10. Rests(g, f)
  <2>1. Len(f) = Len(os) /\ Len(g) = Len(Tail(os)) /\ DOMAIN g = DOMAIN Tail(os)
    OBVIOUS
  <2>2. \A i \in DOMAIN Tail(os) : i + 1 \in DOMAIN os /\ Tail(os)[i] = os[i + 1]
    BY <1>1 DEF Rests
  <2>3. \A i \in DOMAIN Tail(os) : g[i] = f[i + 1]
    BY <1>5, <2>2
  <2> QED BY <1>1, <2>1, <2>3 DEF Rests
<1> HIDE DEF f, g
<1>11. Flatten(f) = f[1] \o Flatten(g)
  BY <1>7, <1>8, <1>10, FlattenStep
<1> QED BY <1>5, <1>6, <1>9, <1>11 DEF OffsetStep

LEMMA EntriesType == ASSUME NEW ss \in Seq(SectionRecords) PROVE Entries(ss) \in Seq(EntryRecords)
<1>1. \A s \in DOMAIN ss : ss[s].from \in Nat /\ ss[s].to \in Nat /\ ss[s].offsets \in Seq(OffsetRecords)
  BY SectionFields
<1>2. \A s \in DOMAIN ss : OffsetEntries(ss[s].from, ss[s].to, 0, ss[s].offsets) \in Seq(EntryRecords)
  BY <1>1, OffsetEntriesType
<1>3. [s \in DOMAIN ss |-> OffsetEntries(ss[s].from, ss[s].to, 0, ss[s].offsets)] \in Seq(Seq(EntryRecords))
  BY <1>2, MapType
<1> QED BY <1>3, FlattenType DEF Entries

LEMMA EntriesStep ==
    ASSUME NEW ss \in Seq(SectionRecords), ss # << >>
    PROVE  Entries(ss) = OffsetEntries(Head(ss).from, Head(ss).to, 0, Head(ss).offsets) \o Entries(Tail(ss))
<1> DEFINE block(s) == OffsetEntries(s.from, s.to, 0, s.offsets)
           f == [s \in DOMAIN ss |-> block(ss[s])]
           g == [s \in DOMAIN Tail(ss) |-> block(Tail(ss)[s])]
<1>1. ASSUME NEW s \in SectionRecords PROVE block(s) \in Seq(EntryRecords)
  <2>1. s.from \in Nat /\ s.to \in Nat /\ s.offsets \in Seq(OffsetRecords)
    BY DEF SectionRecords
  <2> QED BY <2>1, OffsetEntriesType
<1>2. Entries(ss) = Flatten(f) /\ Entries(Tail(ss)) = Flatten(g)
  BY DEF Entries
<1>3. block(Head(ss)) = OffsetEntries(Head(ss).from, Head(ss).to, 0, Head(ss).offsets)
  OBVIOUS
<1> HIDE DEF block
<1>4. f \in Seq(Seq(EntryRecords)) /\ g \in Seq(Seq(EntryRecords)) /\ f[1] = block(Head(ss))
  BY <1>1
<1>5. Rests(g, f)
  BY DEF Rests
<1> HIDE DEF f, g
<1> QED BY <1>2, <1>3, <1>4, <1>5, FlattenStep

-----------------------------------------------------------------------------
(* What is left of a list while it is read: the deltas, kinds, offsets and   *)
(* sections for which the loops have still to run.                          *)
NumbersOf(ds, ks, os, ss) ==
    DeltaNumbers(ds) \o (KindNumbers(ks) \o (OffsetNumbers(os) \o SectionNumbers(ss)))
EntriesOf(from, to, start, offset, kind, ds, ks, os, ss) ==
    DeltaEntries(from, to, start, offset, kind, ds)
    \o (KindEntries(from, to, offset, ks) \o (OffsetEntries(from, to, offset, os) \o Entries(ss)))

LEMMA ConcatType ==
    ASSUME NEW E, NEW a \in Seq(E), NEW b \in Seq(E)
    PROVE  a \o b \in Seq(E)
OBVIOUS

LEMMA ConcatNone == ASSUME NEW E, NEW a \in Seq(E) PROVE << >> \o a = a /\ a \o << >> = a
OBVIOUS

LEMMA AppendOf ==
    ASSUME NEW E, NEW a \in Seq(E), NEW x \in E
    PROVE  <<x>> \in Seq(E) /\ Append(a, x) = a \o <<x>>
OBVIOUS

LEMMA PairOf ==
    ASSUME NEW E, NEW x \in E, NEW y \in E
    PROVE  <<x>> \in Seq(E) /\ <<y>> \in Seq(E) /\ <<x, y>> = <<x>> \o <<y>>
<1>1. <<x>> \in Seq(E) /\ <<y>> \in Seq(E) /\ Len(<<x>>) = 1
  OBVIOUS
<1>2. <<x, y>> = Append(<<x>>, y)
  OBVIOUS
<1>3. Append(<<x>>, y) = <<x>> \o <<y>>
  BY <1>1, AppendOf
<1> QED BY <1>1, <1>2, <1>3

Associate(a, b, c) == (a \o b) \o c = a \o (b \o c)
LEMMA Concat ==
    ASSUME NEW E, NEW a \in Seq(E), NEW b \in Seq(E), NEW c \in Seq(E)
    PROVE  Associate(a, b, c)
BY DEF Associate

(* A block of two parts and what it holds, before what follows it. *)
Block(a, b, c, d, e) == (((a \o b) \o c) \o d) \o e = a \o (b \o (c \o (d \o e)))
LEMMA ConcatBlock ==
    ASSUME NEW E, NEW a \in Seq(E), NEW b \in Seq(E), NEW c \in Seq(E), NEW d \in Seq(E), NEW e \in Seq(E)
    PROVE  Block(a, b, c, d, e)
<1>1. d \o e \in Seq(E) /\ a \o b \in Seq(E)
  BY ConcatType
<1>2. (a \o b) \o c \in Seq(E) /\ c \o (d \o e) \in Seq(E)
  BY <1>1, ConcatType
<1>3. Associate((a \o b) \o c, d, e)
  BY <1>2, Concat
<1>4. Associate(a \o b, c, d \o e)
  BY <1>1, Concat
<1>5. Associate(a, b, c \o (d \o e))
  BY <1>2, Concat
<1> QED BY <1>3, <1>4, <1>5 DEF Associate, Block

LEMMA NoneOf ==
    /\ DeltaNumbers(<< >>) = << >> /\ KindNumbers(<< >>) = << >>
    /\ OffsetNumbers(<< >>) = << >> /\ SectionNumbers(<< >>) = << >>
    /\ \A from, to, start, offset, kind :
         /\ DeltaEntries(from, to, start, offset, kind, << >>) = << >>
         /\ KindEntries(from, to, offset, << >>) = << >>
         /\ OffsetEntries(from, to, start, << >>) = << >>
    /\ Entries(<< >>) = << >>
<1>1. DOMAIN << >> = {}
  OBVIOUS
<1>2. \A f : DOMAIN f = {} /\ f = [x \in DOMAIN f |-> f[x]] => f = << >>
  OBVIOUS
<1> QED
  BY <1>1, FlattenNone DEF DeltaNumbers, KindNumbers, OffsetNumbers, SectionNumbers, DeltaEntries,
     KindEntries, OffsetEntries, Entries

LEMMA NumbersOfType ==
    ASSUME NEW ds \in Seq(Nat), NEW ks \in Seq(KindRecords), NEW os \in Seq(OffsetRecords),
           NEW ss \in Seq(SectionRecords)
    PROVE  NumbersOf(ds, ks, os, ss) \in Seq(NumberRecords)
<1>1. /\ DeltaNumbers(ds) \in Seq(NumberRecords) /\ KindNumbers(ks) \in Seq(NumberRecords)
      /\ OffsetNumbers(os) \in Seq(NumberRecords) /\ SectionNumbers(ss) \in Seq(NumberRecords)
  BY DeltaNumbersType, KindNumbersType, OffsetNumbersType, SectionNumbersType
<1> QED BY <1>1, ConcatType DEF NumbersOf

LEMMA EntriesOfType ==
    ASSUME NEW from \in Nat, NEW to \in Nat, NEW start \in Nat, NEW offset \in Nat, NEW kind \in Nat,
           NEW ds \in Seq(Nat), NEW ks \in Seq(KindRecords), NEW os \in Seq(OffsetRecords),
           NEW ss \in Seq(SectionRecords)
    PROVE  EntriesOf(from, to, start, offset, kind, ds, ks, os, ss) \in Seq(EntryRecords)
<1>1. /\ DeltaEntries(from, to, start, offset, kind, ds) \in Seq(EntryRecords)
      /\ KindEntries(from, to, offset, ks) \in Seq(EntryRecords)
      /\ OffsetEntries(from, to, offset, os) \in Seq(EntryRecords)
      /\ Entries(ss) \in Seq(EntryRecords)
  BY DeltaEntriesType, KindEntriesType, OffsetEntriesType, EntriesType
<1> QED BY <1>1, ConcatType DEF EntriesOf

LEMMA DeltaMove ==
    ASSUME NEW ds \in Seq(Nat), NEW ks \in Seq(KindRecords), NEW os \in Seq(OffsetRecords),
           NEW ss \in Seq(SectionRecords), ds # << >>
    PROVE  NumbersOf(ds, ks, os, ss) = <<Num("delta", Head(ds))>> \o NumbersOf(Tail(ds), ks, os, ss)
<1> DEFINE r == KindNumbers(ks) \o (OffsetNumbers(os) \o SectionNumbers(ss))
           h == <<Num("delta", Head(ds))>>
<1>1. DeltaNumbers(ds) = h \o DeltaNumbers(Tail(ds)) /\ DeltaNumbers(Tail(ds)) \in Seq(NumberRecords)
  BY DeltaNumbersStep, DeltaNumbersType, TailRests
<1>2. r \in Seq(NumberRecords)
  BY KindNumbersType, OffsetNumbersType, SectionNumbersType, ConcatType
<1>3. h \in Seq(NumberRecords)
  <2>1. Head(ds) \in Nat /\ "delta" \in Numbers
    BY DEF Numbers
  <2> QED BY <2>1, NumType
<1>4. NumbersOf(ds, ks, os, ss) = DeltaNumbers(ds) \o r
      /\ NumbersOf(Tail(ds), ks, os, ss) = DeltaNumbers(Tail(ds)) \o r
  BY DEF NumbersOf
<1> HIDE DEF r, h
<1>5. Associate(h, DeltaNumbers(Tail(ds)), r)
  BY <1>1, <1>2, <1>3, Concat
<1>6. NumbersOf(ds, ks, os, ss) = h \o NumbersOf(Tail(ds), ks, os, ss)
  BY <1>1, <1>4, <1>5 DEF Associate
<1> QED BY <1>6 DEF h

LEMMA KindMove ==
    ASSUME NEW ks \in Seq(KindRecords), NEW os \in Seq(OffsetRecords),
           NEW ss \in Seq(SectionRecords), ks # << >>
    PROVE  NumbersOf(<< >>, ks, os, ss) =
             <<Num("kind", Head(ks).kind)>>
             \o (<<Num("deltas", Len(Head(ks).deltas))>> \o NumbersOf(Head(ks).deltas, Tail(ks), os, ss))
<1> DEFINE k == Head(ks)
           r == OffsetNumbers(os) \o SectionNumbers(ss)
           a == <<Num("kind", k.kind)>>
           b == <<Num("deltas", Len(k.deltas))>>
           d == DeltaNumbers(k.deltas)
           t == KindNumbers(Tail(ks))
<1>1. /\ Tail(ks) \in Seq(KindRecords) /\ k.kind \in Nat /\ k.deltas \in Seq(Nat) /\ Len(k.deltas) \in Nat
      /\ "kind" \in Numbers /\ "deltas" \in Numbers
  <2>1. Tail(ks) \in Seq(KindRecords) /\ k \in KindRecords
    BY TailRests
  <2> QED BY <2>1 DEF KindRecords, Numbers
<1>2. r \in Seq(NumberRecords)
  BY OffsetNumbersType, SectionNumbersType, ConcatType
<1>3. d \in Seq(NumberRecords) /\ t \in Seq(NumberRecords)
  BY <1>1, DeltaNumbersType, KindNumbersType
<1>4. a \in Seq(NumberRecords) /\ b \in Seq(NumberRecords)
      /\ <<Num("kind", k.kind), Num("deltas", Len(k.deltas))>> = a \o b
  BY <1>1, NumType
<1>5. KindNumbers(ks) = ((a \o b) \o d) \o t
  BY <1>4, KindNumbersStep DEF KindBlock
<1>6. KindNumbers(<< >>) = << >> /\ DeltaNumbers(<< >>) = << >>
  BY NoneOf
<1>7. /\ NumbersOf(<< >>, ks, os, ss) = << >> \o (KindNumbers(ks) \o r)
      /\ NumbersOf(k.deltas, Tail(ks), os, ss) = d \o (t \o r)
  BY <1>6 DEF NumbersOf
<1> HIDE DEF a, b, d, t, r, k
<1>8. << >> \o ((((a \o b) \o d) \o t) \o r) = a \o (b \o (d \o (t \o r)))
  <2>1. Block(a, b, d, t, r)
    BY <1>2, <1>3, <1>4, ConcatBlock
  <2>2. a \o (b \o (d \o (t \o r))) \in Seq(NumberRecords)
    BY <1>2, <1>3, <1>4, ConcatType
  <2> QED BY <2>1, <2>2, ConcatNone DEF Block
<1>9. NumbersOf(<< >>, ks, os, ss) = a \o (b \o NumbersOf(k.deltas, Tail(ks), os, ss))
  BY <1>5, <1>7, <1>8
<1> QED BY <1>9 DEF a, b, k

LEMMA OffsetMove ==
    ASSUME NEW os \in Seq(OffsetRecords), NEW ss \in Seq(SectionRecords), os # << >>
    PROVE  NumbersOf(<< >>, << >>, os, ss) =
             <<Num("to_delta", Head(os).delta)>>
             \o (<<Num("from_offsets", Len(Head(os).kinds))>>
                 \o NumbersOf(<< >>, Head(os).kinds, Tail(os), ss))
<1> DEFINE o == Head(os)
           a == <<Num("to_delta", o.delta)>>
           b == <<Num("from_offsets", Len(o.kinds))>>
           d == KindNumbers(o.kinds)
           t == OffsetNumbers(Tail(os))
           r == SectionNumbers(ss)
<1>1. /\ Tail(os) \in Seq(OffsetRecords) /\ o.delta \in Nat /\ o.kinds \in Seq(KindRecords)
      /\ Len(o.kinds) \in Nat /\ "to_delta" \in Numbers /\ "from_offsets" \in Numbers
  <2>1. Tail(os) \in Seq(OffsetRecords) /\ o \in OffsetRecords
    BY TailRests
  <2> QED BY <2>1 DEF OffsetRecords, Numbers
<1>2. d \in Seq(NumberRecords) /\ t \in Seq(NumberRecords) /\ r \in Seq(NumberRecords)
  BY <1>1, KindNumbersType, OffsetNumbersType, SectionNumbersType
<1>3. /\ a \in Seq(NumberRecords) /\ b \in Seq(NumberRecords)
      /\ <<Num("to_delta", o.delta), Num("from_offsets", Len(o.kinds))>> = a \o b
  BY <1>1, NumType
<1>4. OffsetNumbers(os) = ((a \o b) \o d) \o t
  BY <1>3, OffsetNumbersStep DEF OffsetBlock
<1>5. KindNumbers(<< >>) = << >> /\ DeltaNumbers(<< >>) = << >>
  BY NoneOf
<1>6. /\ NumbersOf(<< >>, << >>, os, ss) = << >> \o (<< >> \o (OffsetNumbers(os) \o r))
      /\ NumbersOf(<< >>, o.kinds, Tail(os), ss) = << >> \o (d \o (t \o r))
  BY <1>5 DEF NumbersOf
<1> HIDE DEF a, b, d, t, r, o
<1>7. d \o (t \o r) \in Seq(NumberRecords) /\ a \o (b \o (d \o (t \o r))) \in Seq(NumberRecords)
  BY <1>2, <1>3, ConcatType
<1>8. Block(a, b, d, t, r)
  BY <1>2, <1>3, ConcatBlock
<1>9. /\ << >> \o (d \o (t \o r)) = d \o (t \o r)
      /\ << >> \o (<< >> \o (a \o (b \o (d \o (t \o r))))) = a \o (b \o (d \o (t \o r)))
  BY <1>7, ConcatNone
<1>10. NumbersOf(<< >>, << >>, os, ss) = a \o (b \o NumbersOf(<< >>, o.kinds, Tail(os), ss))
  BY <1>4, <1>6, <1>8, <1>9 DEF Block
<1> QED BY <1>10 DEF a, b, o

LEMMA SectionMove ==
    ASSUME NEW ss \in Seq(SectionRecords), ss # << >>
    PROVE  NumbersOf(<< >>, << >>, << >>, ss) =
             <<Num("from_section", Head(ss).from)>>
             \o (<<Num("to_section", Head(ss).to), Num("to_offsets", Len(Head(ss).offsets))>>
                 \o NumbersOf(<< >>, << >>, Head(ss).offsets, Tail(ss)))
<1> DEFINE s == Head(ss)
           a == <<Num("from_section", s.from)>>
           b == <<Num("to_section", s.to), Num("to_offsets", Len(s.offsets))>>
           d == OffsetNumbers(s.offsets)
           t == SectionNumbers(Tail(ss))
<1>1. /\ Tail(ss) \in Seq(SectionRecords) /\ s.from \in Nat /\ s.to \in Nat /\ s.offsets \in Seq(OffsetRecords)
      /\ Len(s.offsets) \in Nat
      /\ "from_section" \in Numbers /\ "to_section" \in Numbers /\ "to_offsets" \in Numbers
  <2>1. Tail(ss) \in Seq(SectionRecords) /\ s \in SectionRecords
    BY TailRests
  <2> QED BY <2>1 DEF SectionRecords, Numbers
<1>2. d \in Seq(NumberRecords) /\ t \in Seq(NumberRecords)
  BY <1>1, OffsetNumbersType, SectionNumbersType
<1>3. /\ a \in Seq(NumberRecords) /\ b \in Seq(NumberRecords)
      /\ <<Num("from_section", s.from), Num("to_section", s.to), Num("to_offsets", Len(s.offsets))>> = a \o b
  BY <1>1, NumType
<1>4. SectionNumbers(ss) = ((a \o b) \o d) \o t
  BY <1>3, SectionNumbersStep DEF SectionBlock
<1>5. KindNumbers(<< >>) = << >> /\ DeltaNumbers(<< >>) = << >> /\ OffsetNumbers(<< >>) = << >>
  BY NoneOf
<1>6. /\ NumbersOf(<< >>, << >>, << >>, ss) = << >> \o (<< >> \o (<< >> \o SectionNumbers(ss)))
      /\ NumbersOf(<< >>, << >>, s.offsets, Tail(ss)) = << >> \o (<< >> \o (d \o t))
  BY <1>5 DEF NumbersOf
<1> HIDE DEF a, b, d, t, s
<1>7. d \o t \in Seq(NumberRecords) /\ a \o (b \o (d \o t)) \in Seq(NumberRecords)
  BY <1>2, <1>3, ConcatType
<1>8. ((a \o b) \o d) \o t = a \o (b \o (d \o t))
  <2>1. << >> \in Seq(NumberRecords)
    OBVIOUS
  <2>2. Block(a, b, d, t, << >>)
    BY <1>2, <1>3, <2>1, ConcatBlock
  <2>3. (((a \o b) \o d) \o t) \o << >> = a \o (b \o (d \o (t \o << >>)))
    BY <2>2 DEF Block
  <2>4. ((a \o b) \o d) \o t \in Seq(NumberRecords)
    BY <1>2, <1>3, ConcatType
  <2>5. (((a \o b) \o d) \o t) \o << >> = ((a \o b) \o d) \o t /\ t \o << >> = t
    BY <1>2, <2>4, ConcatNone
  <2> QED BY <2>3, <2>5
<1>9. /\ << >> \o (<< >> \o (d \o t)) = d \o t
      /\ << >> \o (<< >> \o (<< >> \o (a \o (b \o (d \o t))))) = a \o (b \o (d \o t))
  BY <1>7, ConcatNone
<1>10. NumbersOf(<< >>, << >>, << >>, ss) = a \o (b \o NumbersOf(<< >>, << >>, s.offsets, Tail(ss)))
  BY <1>4, <1>6, <1>8, <1>9
<1> QED BY <1>10 DEF a, b, s

(* The same of the entries. *)
DeltaMoves(from, to, start, offset, kind, ds, ks, os, ss, next) ==
    /\ next \in Nat
    /\ EntriesOf(from, to, start, offset, kind, ds, ks, os, ss) =
         <<Entry(from, to, next, offset, kind)>>
         \o EntriesOf(from, to, next, offset, kind, Tail(ds), ks, os, ss)

LEMMA DeltaEntriesMove ==
    ASSUME NEW from \in Nat, NEW to \in Nat, NEW start \in Nat, NEW offset \in Nat, NEW kind \in Nat,
           NEW ds \in Seq(Nat), NEW ks \in Seq(KindRecords), NEW os \in Seq(OffsetRecords),
           NEW ss \in Seq(SectionRecords), ds # << >>
    PROVE  DeltaMoves(from, to, start, offset, kind, ds, ks, os, ss, (start + Head(ds)) % Limit)
<1> DEFINE next == (start + Head(ds)) % Limit
           r == KindEntries(from, to, offset, ks) \o (OffsetEntries(from, to, offset, os) \o Entries(ss))
           h == <<Entry(from, to, next, offset, kind)>>
           t == DeltaEntries(from, to, next, offset, kind, Tail(ds))
<1>1. next \in Nat /\ DeltaEntries(from, to, start, offset, kind, ds) = h \o t
  <2>1. DeltaStep(from, to, start, offset, kind, ds, (start + Head(ds)) % Limit)
    BY DeltaEntriesStep
  <2> QED BY <2>1 DEF DeltaStep
<1>2. t \in Seq(EntryRecords)
  BY <1>1, DeltaEntriesType, TailRests
<1>3. r \in Seq(EntryRecords)
  BY KindEntriesType, OffsetEntriesType, EntriesType, ConcatType
<1>4. h \in Seq(EntryRecords)
  <2>1. Entry(from, to, next, offset, kind) \in EntryRecords
    BY <1>1, EntryType
  <2> QED BY <2>1
<1>5. /\ EntriesOf(from, to, start, offset, kind, ds, ks, os, ss)
           = DeltaEntries(from, to, start, offset, kind, ds) \o r
      /\ EntriesOf(from, to, next, offset, kind, Tail(ds), ks, os, ss) = t \o r
  BY DEF EntriesOf
<1> HIDE DEF r, h, t
<1>6. Associate(h, t, r)
  BY <1>2, <1>3, <1>4, Concat
<1>7. EntriesOf(from, to, start, offset, kind, ds, ks, os, ss)
        = h \o EntriesOf(from, to, next, offset, kind, Tail(ds), ks, os, ss)
  BY <1>1, <1>5, <1>6 DEF Associate
<1> QED BY <1>1, <1>7 DEF h, DeltaMoves

KindMoves(from, to, start, offset, kind, ks, os, ss) ==
    EntriesOf(from, to, start, offset, kind, << >>, ks, os, ss) =
      EntriesOf(from, to, 0, offset, Head(ks).kind, Head(ks).deltas, Tail(ks), os, ss)

LEMMA KindEntriesMove ==
    ASSUME NEW from \in Nat, NEW to \in Nat, NEW start \in Nat, NEW offset \in Nat, NEW kind \in Nat,
           NEW ks \in Seq(KindRecords), NEW os \in Seq(OffsetRecords),
           NEW ss \in Seq(SectionRecords), ks # << >>
    PROVE  KindMoves(from, to, start, offset, kind, ks, os, ss)
<1> DEFINE k == Head(ks)
           r == OffsetEntries(from, to, offset, os) \o Entries(ss)
           d == DeltaEntries(from, to, 0, offset, k.kind, k.deltas)
           t == KindEntries(from, to, offset, Tail(ks))
<1>1. Tail(ks) \in Seq(KindRecords) /\ k.kind \in Nat /\ k.deltas \in Seq(Nat)
  <2>1. Tail(ks) \in Seq(KindRecords) /\ k \in KindRecords
    BY TailRests
  <2> QED BY <2>1 DEF KindRecords
<1>2. r \in Seq(EntryRecords)
  BY OffsetEntriesType, EntriesType, ConcatType
<1>3. d \in Seq(EntryRecords) /\ t \in Seq(EntryRecords)
  BY <1>1, DeltaEntriesType, KindEntriesType
<1>4. KindEntries(from, to, offset, ks) = d \o t
  BY KindEntriesStep
<1>5. DeltaEntries(from, to, start, offset, kind, << >>) = << >>
  BY NoneOf
<1>6. /\ EntriesOf(from, to, start, offset, kind, << >>, ks, os, ss)
           = << >> \o (KindEntries(from, to, offset, ks) \o r)
      /\ EntriesOf(from, to, 0, offset, k.kind, k.deltas, Tail(ks), os, ss) = d \o (t \o r)
  BY <1>5 DEF EntriesOf
<1> HIDE DEF d, t, r, k
<1>7. Associate(d, t, r) /\ (d \o t) \o r \in Seq(EntryRecords)
  <2>1. d \o t \in Seq(EntryRecords)
    BY <1>3, ConcatType
  <2> QED BY <1>2, <1>3, <2>1, Concat, ConcatType
<1>8. << >> \o ((d \o t) \o r) = (d \o t) \o r
  BY <1>7, ConcatNone
<1>9. EntriesOf(from, to, start, offset, kind, << >>, ks, os, ss)
        = EntriesOf(from, to, 0, offset, k.kind, k.deltas, Tail(ks), os, ss)
  BY <1>4, <1>6, <1>7, <1>8 DEF Associate
<1> QED BY <1>9 DEF k, KindMoves

OffsetMoves(from, to, start, offset, kind, os, ss, next) ==
    /\ next \in Nat
    /\ EntriesOf(from, to, start, offset, kind, << >>, << >>, os, ss) =
         EntriesOf(from, to, start, next, kind, << >>, Head(os).kinds, Tail(os), ss)

LEMMA OffsetEntriesMove ==
    ASSUME NEW from \in Nat, NEW to \in Nat, NEW start \in Nat, NEW offset \in Nat, NEW kind \in Nat,
           NEW os \in Seq(OffsetRecords), NEW ss \in Seq(SectionRecords), os # << >>
    PROVE  OffsetMoves(from, to, start, offset, kind, os, ss, (offset + Head(os).delta) % Limit)
<1> DEFINE next == (offset + Head(os).delta) % Limit
           r == Entries(ss)
           d == KindEntries(from, to, next, Head(os).kinds)
           t == OffsetEntries(from, to, next, Tail(os))
<1>1. Tail(os) \in Seq(OffsetRecords) /\ Head(os).kinds \in Seq(KindRecords)
  <2>1. Tail(os) \in Seq(OffsetRecords) /\ Head(os) \in OffsetRecords
    BY TailRests
  <2> QED BY <2>1 DEF OffsetRecords
<1>2. next \in Nat /\ OffsetEntries(from, to, offset, os) = d \o t
  <2>1. OffsetStep(from, to, offset, os, (offset + Head(os).delta) % Limit)
    BY OffsetEntriesStep
  <2> QED BY <2>1 DEF OffsetStep
<1>3. d \in Seq(EntryRecords) /\ t \in Seq(EntryRecords) /\ r \in Seq(EntryRecords)
  BY <1>1, <1>2, KindEntriesType, OffsetEntriesType, EntriesType
<1>4. /\ DeltaEntries(from, to, start, offset, kind, << >>) = << >>
      /\ DeltaEntries(from, to, start, next, kind, << >>) = << >>
      /\ KindEntries(from, to, offset, << >>) = << >>
  BY NoneOf
<1>5. /\ EntriesOf(from, to, start, offset, kind, << >>, << >>, os, ss)
            = << >> \o (<< >> \o (OffsetEntries(from, to, offset, os) \o r))
      /\ EntriesOf(from, to, start, next, kind, << >>, Head(os).kinds, Tail(os), ss) = << >> \o (d \o (t \o r))
  BY <1>4 DEF EntriesOf
<1> HIDE DEF d, t, r
<1>6. Associate(d, t, r) /\ (d \o t) \o r \in Seq(EntryRecords)
  <2>1. d \o t \in Seq(EntryRecords)
    BY <1>3, ConcatType
  <2> QED BY <1>3, <2>1, Concat, ConcatType
<1>7. << >> \o ((d \o t) \o r) = (d \o t) \o r
  BY <1>6, ConcatNone
<1>8. EntriesOf(from, to, start, offset, kind, << >>, << >>, os, ss)
        = EntriesOf(from, to, start, next, kind, << >>, Head(os).kinds, Tail(os), ss)
  BY <1>2, <1>5, <1>6, <1>7 DEF Associate
<1> QED BY <1>2, <1>8 DEF OffsetMoves

SectionMoves(from, to, start, offset, kind, ss) ==
    EntriesOf(from, to, start, offset, kind, << >>, << >>, << >>, ss) =
      EntriesOf(Head(ss).from, Head(ss).to, start, 0, kind, << >>, << >>, Head(ss).offsets, Tail(ss))

LEMMA SectionEntriesMove ==
    ASSUME NEW from \in Nat, NEW to \in Nat, NEW start \in Nat, NEW offset \in Nat, NEW kind \in Nat,
           NEW ss \in Seq(SectionRecords), ss # << >>
    PROVE  SectionMoves(from, to, start, offset, kind, ss)
<1>1. /\ DeltaEntries(from, to, start, offset, kind, << >>) = << >>
      /\ DeltaEntries(Head(ss).from, Head(ss).to, start, 0, kind, << >>) = << >>
      /\ KindEntries(from, to, offset, << >>) = << >>
      /\ KindEntries(Head(ss).from, Head(ss).to, 0, << >>) = << >>
      /\ OffsetEntries(from, to, offset, << >>) = << >>
  BY NoneOf
<1>2. Entries(ss) = OffsetEntries(Head(ss).from, Head(ss).to, 0, Head(ss).offsets) \o Entries(Tail(ss))
  BY EntriesStep
<1>3. Entries(ss) \in Seq(EntryRecords)
  BY EntriesType
<1>4. << >> \o Entries(ss) = Entries(ss)
  BY <1>3, ConcatNone
<1>5. EntriesOf(from, to, start, offset, kind, << >>, << >>, << >>, ss) = << >> \o (<< >> \o Entries(ss))
  BY <1>1, <1>4 DEF EntriesOf
<1> QED BY <1>1, <1>2, <1>5 DEF EntriesOf, SectionMoves

-----------------------------------------------------------------------------
(* The bytes of numbers. *)
LEMMA UlebFacts ==
    ASSUME NEW n \in Nat, NEW pad \in Nat
    PROVE  /\ Uleb(n, pad) \in Seq(Nat) /\ Len(Uleb(n, pad)) = Size(n) + pad
           /\ Size(n) + pad \in Nat \ {0}
           /\ \A i \in 1 .. Size(n) + pad :
                /\ Uleb(n, pad)[i] % Base = (n \div Pow2[Group * (i - 1)]) % Base
                /\ Uleb(n, pad)[i] >= Base <=> i < Size(n) + pad
<1> DEFINE m == Size(n) + pad
<1>1. m \in Nat \ {0} /\ Base \in Nat \ {0} /\ Group \in Nat
  <2>1. Size(n) \in 1 .. n + 1
    BY SizeFacts
  <2>2. Size(n) + pad \in Nat \ {0}
    BY <2>1
  <2> QED BY <2>2, Constants
<1>2. ASSUME NEW i \in 1 .. m
      PROVE  /\ Uleb(n, pad)[i] \in Nat
             /\ Uleb(n, pad)[i] % Base = (n \div Pow2[Group * (i - 1)]) % Base
             /\ Uleb(n, pad)[i] >= Base <=> i < m
  <2>1. Group * (i - 1) \in Nat
    BY <1>1
  <2>2. Pow2[Group * (i - 1)] \in Nat \ {0}
    BY <2>1, Pow2Add
  <2>3. PICK d \in 0 .. Base - 1 : d = (n \div Pow2[Group * (i - 1)]) % Base
    <3>1. n \div Pow2[Group * (i - 1)] \in Nat
      BY <2>2, Division
    <3> QED BY <1>1, <3>1, Division
  <2>4. Uleb(n, pad)[i] = d + (IF i < m THEN Base ELSE 0)
    BY <2>3 DEF Uleb
  <2>5. (Base * 1 + d) % Base = d /\ (Base * 0 + d) % Base = d
    BY <1>1, DivisionOf
  <2>6. CASE i < m
    BY <1>1, <2>3, <2>4, <2>5, <2>6
  <2>7. CASE ~(i < m)
    BY <1>1, <2>3, <2>4, <2>5, <2>7
  <2> QED BY <2>6, <2>7
<1>3. DOMAIN Uleb(n, pad) = 1 .. m /\ Uleb(n, pad) = [i \in 1 .. m |-> Uleb(n, pad)[i]]
  BY DEF Uleb
<1>4. Uleb(n, pad) \in Seq(Nat) /\ Len(Uleb(n, pad)) = m
  <2>1. Uleb(n, pad) \in [1 .. m -> Nat]
    BY <1>2, <1>3
  <2> HIDE DEF m
  <2>2. m \in Nat
    BY <1>1
  <2> QED BY <2>1, <2>2
<1> QED BY <1>1, <1>2, <1>4

BytesOf(numbers, pad) == Flatten(NumberBytes(numbers, pad))

LEMMA BytesOfType ==
    ASSUME NEW numbers \in Seq(NumberRecords), NEW pad \in Nat
    PROVE  BytesOf(numbers, pad) \in Seq(Nat)
<1>1. \A i \in DOMAIN numbers : numbers[i].n \in Nat
  <2>1. \A i \in DOMAIN numbers : numbers[i] \in NumberRecords
    OBVIOUS
  <2> QED BY <2>1 DEF NumberRecords
<1>2. \A i \in DOMAIN numbers : Uleb(numbers[i].n, pad) \in Seq(Nat)
  BY <1>1, UlebFacts
<1>3. NumberBytes(numbers, pad) \in Seq(Seq(Nat))
  BY <1>2, MapType DEF NumberBytes
<1> QED BY <1>3, FlattenType DEF BytesOf

LEMMA BytesOfNone == ASSUME NEW pad PROVE BytesOf(<< >>, pad) = << >>
<1>1. DOMAIN << >> = {}
  OBVIOUS
<1>2. \A f : DOMAIN f = {} /\ f = [x \in DOMAIN f |-> f[x]] => f = << >>
  OBVIOUS
<1> QED BY <1>1, <1>2, FlattenNone DEF BytesOf, NumberBytes

LEMMA BytesOfStep ==
    ASSUME NEW number \in NumberRecords, NEW tail \in Seq(NumberRecords), NEW pad \in Nat
    PROVE  BytesOf(<<number>> \o tail, pad) = Uleb(number.n, pad) \o BytesOf(tail, pad)
<1> DEFINE all == <<number>> \o tail
           f == [i \in DOMAIN all |-> Uleb(all[i].n, pad)]
           g == [i \in DOMAIN tail |-> Uleb(tail[i].n, pad)]
<1>1. all \in Seq(NumberRecords) /\ Rests(tail, all) /\ all[1] = number /\ 1 \in DOMAIN all
  BY DEF Rests
<1>2. BytesOf(all, pad) = Flatten(f) /\ BytesOf(tail, pad) = Flatten(g)
  BY DEF BytesOf, NumberBytes
<1> HIDE DEF all
<1>3. \A x \in NumberRecords : Uleb(x.n, pad) \in Seq(Nat)
  BY UlebFacts DEF NumberRecords
<1>4. f \in Seq(Seq(Nat))
  <2>1. \A i \in DOMAIN all : all[i] \in NumberRecords
    BY <1>1
  <2>2. \A i \in DOMAIN all : Uleb(all[i].n, pad) \in Seq(Nat)
    BY <1>3, <2>1
  <2> QED BY <1>1, <2>2, MapType
<1>5. g \in Seq(Seq(Nat))
  <2>1. \A i \in DOMAIN tail : tail[i] \in NumberRecords
    OBVIOUS
  <2>2. \A i \in DOMAIN tail : Uleb(tail[i].n, pad) \in Seq(Nat)
    BY <1>3, <2>1
  <2> QED BY <2>2, MapType
<1>6. f[1] = Uleb(number.n, pad)
  BY <1>1
<1>7. Rests(g, f)
  <2>1. Len(f) = Len(all) /\ Len(g) = Len(tail) /\ DOMAIN g = DOMAIN tail
    BY <1>1
  <2>2. \A i \in DOMAIN tail : i + 1 \in DOMAIN all /\ tail[i] = all[i + 1]
    BY <1>1 DEF Rests
  <2>3. \A i \in DOMAIN tail : g[i] = f[i + 1]
    BY <2>2
  <2> QED BY <1>1, <2>1, <2>3 DEF Rests
<1> HIDE DEF f, g
<1>8. Flatten(f) = f[1] \o Flatten(g)
  BY <1>4, <1>5, <1>7, FlattenStep
<1>9. BytesOf(all, pad) = Uleb(number.n, pad) \o BytesOf(tail, pad)
  BY <1>2, <1>6, <1>8
<1> QED BY <1>9 DEF all

(* The value of the first groups of a number. *)
LEMMA GroupsOf ==
    ASSUME NEW n \in Nat, NEW k \in Nat
    PROVE  /\ n % Pow2[Group * (k + 1)]
                = (n % Pow2[Group * k]) + ((n \div Pow2[Group * k]) % Base) * Pow2[Group * k]
           /\ Group * (k + 1) = Group * k + Group
           /\ Group * k \in Nat /\ Pow2[Group * k] \in Nat \ {0}
           /\ Pow2[Group * k + Group] = Pow2[Group * k] * Base
<1>1. Group \in Nat \ {0} /\ Base \in Nat \ {0}
  BY Constants
<1>2. PICK g \in Nat : g = Group * k
  BY <1>1
<1>3. Group * (k + 1) = g + Group
  BY <1>1, <1>2
<1>4. Pow2[g + Group] = Pow2[g] * Base /\ Pow2[g] \in Nat \ {0}
  BY <1>1, <1>2, Pow2Add DEF Base
<1>5. n % (Pow2[g] * Base) = (n % Pow2[g]) + ((n \div Pow2[g]) % Base) * Pow2[g]
  BY <1>1, <1>4, ModuloProduct
<1> QED BY <1>2, <1>3, <1>4, <1>5

LEMMA AllGroups ==
    ASSUME NEW n \in Nat, NEW pad \in Nat
    PROVE  n % Pow2[Group * (Size(n) + pad)] = n
<1>1. Group \in Nat \ {0} /\ Size(n) \in Nat /\ n < Pow2[Group * Size(n)]
  BY Constants, SizeFacts
<1>2. PICK a \in Nat, b \in Nat : a = Group * Size(n) /\ b = Group * (Size(n) + pad) /\ a <= b
  <2>1. PICK s \in Nat : s = Size(n)
    BY <1>1
  <2>2. s * Group <= (s + pad) * Group
    BY <1>1, ProductMonotone
  <2> QED BY <1>1, <2>1, <2>2
<1>3. PICK p \in Nat \ {0} : p = Pow2[b]
  BY <1>2, Pow2Add
<1>4. n < p
  <2>1. Pow2[a] <= Pow2[b] /\ Pow2[a] \in Nat
    BY <1>2, Pow2Monotone, Pow2Add
  <2> QED BY <1>1, <1>2, <1>3, <2>1
<1>5. (p * 0 + n) % p = n
  BY <1>3, <1>4, DivisionOf
<1> QED BY <1>2, <1>3, <1>5

(* The check of the bits shifted out, on a slice s, a bit b and what is read *)
(* so far, a: it refuses a slice exactly when the number has more than Width *)
(* bits.                                                                     *)
LEMMA ShiftedSlice ==
    ASSUME NEW p \in Nat \ {0}, NEW q \in Nat \ {0}, NEW s \in Nat
    PROVE  /\ ((s * p) % (p * q)) \div p = s <=> s * p < p * q
           /\ s * p < p * q => (s * p) % (p * q) = s * p /\ s * p + p <= p * q
<1>1. PICK u \in Nat, v \in 0 .. q - 1 : s = q * u + v
  BY Division
<1>2. (s * p) % (p * q) = v * p
  <2>1. s * p = (p * q) * u + v * p
    <3>1. (q * u + v) * p = (p * q) * u + v * p
      OBVIOUS
    <3> QED BY <1>1, <3>1, Zenon
  <2>2. v * p \in 0 .. (p * q) - 1
    <3>1. v * p \in Nat /\ (v + 1) * p <= q * p /\ (v + 1) * p = v * p + p /\ q * p = p * q
      BY ProductMonotone
    <3>2. p * q \in Nat
      OBVIOUS
    <3> QED BY <3>1, <3>2
  <2>3. p * q \in Nat \ {0}
    OBVIOUS
  <2>4. ((p * q) * u + v * p) % (p * q) = v * p
    BY <2>2, <2>3, DivisionOf
  <2> QED BY <2>1, <2>4, Zenon
<1>3. (v * p) \div p = v
  <2>1. (p * v + 0) \div p = v
    BY DivisionOf
  <2>2. p * v + 0 = v * p
    OBVIOUS
  <2> QED BY <2>1, <2>2
<1>4. ASSUME s * p < p * q PROVE s < q
  <2>1. CASE q <= s
    <3>1. q * p <= s * p /\ q * p = p * q /\ q * p \in Nat /\ s * p \in Nat
      BY <2>1, ProductMonotone
    <3> QED BY <1>4, <3>1
  <2> QED BY <2>1
<1>5. ASSUME s < q PROVE s * p + p <= p * q /\ s * p < p * q /\ (s * p) % (p * q) = s * p
  <2>1. (s + 1) * p <= q * p
    BY <1>5, ProductMonotone
  <2>2. (s + 1) * p = s * p + p /\ q * p = p * q /\ s * p \in Nat /\ p * q \in Nat
    OBVIOUS
  <2>3. s * p + p <= p * q /\ s * p < p * q
    BY <2>1, <2>2
  <2>4. s * p \in 0 .. (p * q) - 1 /\ p * q \in Nat \ {0}
    BY <2>2, <2>3
  <2>5. ((p * q) * 0 + s * p) % (p * q) = s * p
    BY <2>4, DivisionOf
  <2>6. (p * q) * 0 + s * p = s * p
    BY <2>2
  <2> QED BY <2>3, <2>5, <2>6
<1>6. v = s <=> s < q
  <2>1. CASE u = 0
    BY <1>1, <2>1
  <2>2. CASE u >= 1
    <3>1. 1 * q <= u * q /\ u * q = q * u
      BY <2>2, ProductMonotone
    <3>2. PICK w \in Nat : w = q * u
      OBVIOUS
    <3> QED BY <1>1, <3>1, <3>2
  <2> QED BY <2>1, <2>2
<1> QED BY <1>2, <1>3, <1>4, <1>5, <1>6

LEMMA SliceFits ==
    ASSUME NEW s \in 0 .. Base - 1, NEW b \in Nat, NEW a \in Nat, a < Pow2[b], a < Limit
    PROVE  LET p == Pow2[b]
               shifted == (s * p) % Limit
               fits == b < Width /\ shifted \div p = s IN
           /\ fits <=> b < Width /\ s * p < Limit
           /\ fits => shifted = s * p /\ a + shifted < Limit /\ a + shifted < p * Base
<1>1. Base \in Nat \ {0} /\ Limit \in Nat \ {0} /\ Width \in Nat
  BY Constants
<1>2. PICK p \in Nat \ {0} : p = Pow2[b]
  BY Pow2Add
<1>3. CASE b < Width
  <2>1. Width - b \in Nat /\ b + (Width - b) = Width
    BY <1>1, <1>3
  <2>2. PICK q \in Nat \ {0} : q = Pow2[Width - b] /\ Limit = p * q
    <3>1. /\ Pow2[b + (Width - b)] = Pow2[b] * Pow2[Width - b]
          /\ Pow2[Width - b] \in Nat \ {0}
      BY <2>1, Pow2Add
    <3>2. Pow2[Width] = p * Pow2[Width - b]
      BY <1>2, <2>1, <3>1
    <3> QED BY <3>1, <3>2 DEF Limit
  <2>3. /\ ((s * p) % Limit) \div p = s <=> s * p < Limit
        /\ s * p < Limit => (s * p) % Limit = s * p /\ s * p + p <= Limit
    <3>1. s \in Nat
      BY <1>1
    <3>2. /\ ((s * p) % (p * q)) \div p = s <=> s * p < p * q
          /\ s * p < p * q => (s * p) % (p * q) = s * p /\ s * p + p <= p * q
      BY <3>1, ShiftedSlice
    <3> QED BY <2>2, <3>2, Zenon
  <2>4. s * p + p <= p * Base
    <3>1. (s + 1) * p <= Base * p
      BY <1>1, ProductMonotone
    <3>2. (s + 1) * p = s * p + p /\ Base * p = p * Base
      BY <1>1
    <3> QED BY <3>1, <3>2
  <2>5. PICK x \in Nat, y \in Nat : x = s * p /\ y = p * Base
    BY <1>1
  <2>6. x + p <= Limit => a + x < Limit
    BY <1>1, <1>2
  <2>7. a + x < y
    BY <1>2, <2>4, <2>5
  <2> QED BY <1>2, <1>3, <2>3, <2>5, <2>6, <2>7
<1>4. CASE ~(b < Width)
  BY <1>4
<1> QED BY <1>3, <1>4

LEMMA ValuesFacts ==
    ASSUME NEW bytes \in Seq(Nat)
    PROVE  /\ Values(bytes) \in [0 .. Len(bytes) -> Nat] /\ Values(bytes)[0] = 0
           /\ \A n \in 1 .. Len(bytes) :
                Values(bytes)[n] = Values(bytes)[n - 1] + (bytes[n] % Base) * Pow2[Group * (n - 1)]
<1> DEFINE m == Len(bytes)
           part(n) == (bytes[n] % Base) * Pow2[Group * (n - 1)]
           step == [n \in 1 .. m |-> [x \in Nat |-> x + part(n)]]
<1>1. m \in Nat /\ 0 \in Nat
  OBVIOUS
<1>2. ASSUME NEW n \in 1 .. m PROVE part(n) \in Nat
  <2>1. Group * (n - 1) \in Nat /\ Base \in Nat \ {0}
    BY Constants
  <2>2. PICK p \in Nat : p = Pow2[Group * (n - 1)]
    BY <2>1, Pow2Add
  <2>3. bytes[n] \in Nat
    OBVIOUS
  <2>4. PICK d \in Nat : d = bytes[n] % Base
    <3>1. PICK x \in Nat : x = bytes[n]
      BY <2>3
    <3>2. x % Base \in 0 .. Base - 1
      BY <2>1, Division
    <3> QED BY <2>1, <3>1, <3>2
  <2>5. d * p \in Nat
    OBVIOUS
  <2> QED BY <2>2, <2>4, <2>5
<1> HIDE DEF part
<1>3. step \in [1 .. m -> [Nat -> Nat]]
  BY <1>2
<1>4. PICK f : Unfolds(f, Nat, 0, step, m)
  <2> HIDE DEF step, m
  <2> QED BY <1>1, <1>3, BoundedRecursion
<1>5. f = [n \in 0 .. m |-> IF n = 0 THEN 0 ELSE f[n - 1] + part(n)]
  <2>1. ASSUME NEW n \in 0 .. m PROVE f[n] = IF n = 0 THEN 0 ELSE f[n - 1] + part(n)
    <3>1. CASE n = 0
      BY <1>4, <3>1 DEF Unfolds
    <3>2. CASE n \in 1 .. m
      <4>1. n - 1 \in 0 .. m /\ n # 0
        BY <1>1, <3>2
      <4>2. f[n] = step[n][f[n - 1]] /\ f[n - 1] \in Nat
        BY <1>4, <3>2, <4>1 DEF Unfolds
      <4> QED BY <3>2, <4>1, <4>2
    <3> QED BY <1>1, <3>1, <3>2
  <2>2. f = [n \in 0 .. m |-> f[n]]
    BY <1>4 DEF Unfolds
  <2> QED BY <2>1, <2>2
<1>6. Values(bytes) = [n \in 0 .. m |-> IF n = 0 THEN 0 ELSE Values(bytes)[n - 1] + part(n)]
  BY <1>5 DEF Values, part
<1> DEFINE typed == {n \in 0 .. m : Values(bytes)[n] \in Nat}
<1>7. Values(bytes)[0] = 0 /\ 0 \in typed
  BY <1>1, <1>6
<1>8. ASSUME NEW n \in 1 .. m PROVE Values(bytes)[n] = Values(bytes)[n - 1] + part(n)
  <2>1. n \in 0 .. m /\ n # 0
    BY <1>1
  <2> HIDE DEF m
  <2> QED BY <1>6, <2>1
<1>9. \A n \in 1 .. m : n - 1 \in typed => n \in typed
  BY <1>1, <1>2, <1>8
<1> HIDE DEF typed, m
<1>10. 0 .. m \subseteq typed
  BY <1>1, <1>7, <1>9, BoundedInduction
<1> QED BY <1>6, <1>7, <1>8, <1>10 DEF typed, m, part

(* A number grows by one group with each byte. *)
LEMMA ValuesStep ==
    ASSUME NEW s \in Seq(Nat), NEW t \in Seq(Nat), Len(t) = Len(s) + 1, \A i \in 1 .. Len(s) : t[i] = s[i]
    PROVE  Values(t)[Len(t)] = Values(s)[Len(s)] + (t[Len(t)] % Base) * Pow2[Group * Len(s)]
<1>1. PICK m \in Nat : m = Len(s) /\ Len(t) = m + 1
  OBVIOUS
<1> DEFINE same == {n \in 0 .. m : Values(t)[n] = Values(s)[n]}
<1>2. 0 \in same
  <2>1. Values(s)[0] = 0
    BY ValuesFacts
  <2>2. Values(t)[0] = 0
    BY ValuesFacts
  <2> QED BY <2>1, <2>2
<1>3. ASSUME NEW n \in 1 .. m, n - 1 \in same PROVE n \in same
  <2>1. n \in 1 .. m + 1 /\ n \in 0 .. m
    OBVIOUS
  <2>2. Values(s)[n] = Values(s)[n - 1] + (s[n] % Base) * Pow2[Group * (n - 1)]
    BY <1>1, ValuesFacts
  <2>3. Values(t)[n] = Values(t)[n - 1] + (t[n] % Base) * Pow2[Group * (n - 1)]
    BY <1>1, <2>1, ValuesFacts
  <2>4. s[n] = t[n] /\ Values(t)[n - 1] = Values(s)[n - 1]
    BY <1>1, <1>3
  <2>5. Values(t)[n] = Values(s)[n]
    BY <2>2, <2>3, <2>4
  <2> QED BY <2>1, <2>5
<1> HIDE DEF same
<1>4. 0 .. m \subseteq same
  BY <1>2, <1>3, BoundedInduction
<1>5. Values(t)[m] = Values(s)[m]
  BY <1>4 DEF same
<1>6. m + 1 \in 1 .. m + 1 /\ (m + 1) - 1 = m
  OBVIOUS
<1>7. Values(t)[m + 1] = Values(t)[(m + 1) - 1] + (t[m + 1] % Base) * Pow2[Group * ((m + 1) - 1)]
  BY <1>1, <1>6, ValuesFacts
<1>8. Values(t)[m + 1] = Values(s)[m] + (t[m + 1] % Base) * Pow2[Group * m]
  BY <1>5, <1>6, <1>7
<1> QED BY <1>1, <1>8

-----------------------------------------------------------------------------
(* Numbers are read exactly.  Of the number that is being read, k groups are *)
(* in acc.                                                                   *)
Reading(k) ==
    /\ bit = Group * k /\ k <= cursor
    /\ acc \in Nat /\ acc < Pow2[bit] /\ acc < Limit
    /\ acc = Values(SubSeq(job.data, cursor - k + 1, cursor))[k]

NumberInv ==
    /\ job \in Jobs /\ cursor \in Nat
    /\ pc \in Numbers \cup {"open", "version", "done", "failed", "crashed"}
    /\ pc \in Numbers \cup {"version", "done"} => cursor <= Len(job.data)
    /\ pc \in {"open", "version", "done"} => bit = 0 /\ acc = 0
    /\ pc \in Numbers => \E k \in Nat : Reading(k)

LEMMA DataFacts ==
    ASSUME job \in Jobs
    PROVE  /\ job.data \in Seq(Nat) /\ job.dataoff \in Nat /\ job.pad \in Nat /\ Len(job.data) \in Nat
           /\ \A i \in 1 .. Len(job.data) : job.data[i] \in 0 .. 2 * Base - 1
<1>1. job.data \in Seq(0 .. 2 * Base - 1) /\ job.dataoff \in Nat /\ job.pad \in Nat
  BY ParserAssumption
<1>2. Base \in Nat
  BY Constants
<1>3. job.data \in Seq(Nat)
  <2> HIDE DEF Base
  <2> QED BY <1>1, <1>2
<1>4. \A i \in 1 .. Len(job.data) : job.data[i] \in 0 .. 2 * Base - 1
  <2> DEFINE S == 0 .. 2 * Base - 1
  <2>1. job.data \in Seq(S)
    BY <1>1
  <2> HIDE DEF S
  <2>2. \A i \in 1 .. Len(job.data) : job.data[i] \in S
    BY <2>1
  <2> QED BY <2>2 DEF S
<1>5. Len(job.data) \in Nat
  BY <1>3
<1> QED BY <1>1, <1>3, <1>4, <1>5

LEMMA ByteFacts ==
    ASSUME job \in Jobs, cursor \in Nat, HasByte
    PROVE  /\ cursor + 1 \in 1 .. Len(job.data) /\ Byte \in Nat
           /\ Slice \in 0 .. Base - 1 /\ Slice = Byte % Base
<1>1. cursor + 1 \in 1 .. Len(job.data)
  BY DataFacts DEF HasByte
<1>2. Byte \in Nat
  BY <1>1, DataFacts DEF Byte
<1>3. Byte % Base \in 0 .. Base - 1
  BY <1>2, Constants, Division
<1> QED BY <1>1, <1>2, <1>3 DEF Slice

LEMMA NumberFacts ==
    ASSUME job \in Jobs, cursor \in Nat, HasByte, NEW k \in Nat, Reading(k)
    PROVE  /\ Fits <=> bit < Width /\ Slice * Pow2[bit] < Limit
           /\ Fits => /\ Shifted = Slice * Pow2[bit] /\ Number \in Nat
                      /\ Number < Limit /\ Number < Pow2[bit + Group]
           /\ bit \in Nat /\ bit + Group = Group * (k + 1)
<1>1. /\ bit = Group * k /\ bit \in Nat /\ bit + Group = Group * (k + 1)
      /\ Pow2[bit] \in Nat \ {0} /\ Pow2[bit + Group] = Pow2[bit] * Base
  BY GroupsOf DEF Reading
<1>2. Slice \in 0 .. Base - 1 /\ Base \in Nat \ {0}
  BY ByteFacts, Constants
<1>3. LET p == Pow2[bit]
          shifted == (Slice * p) % Limit
          fits == bit < Width /\ shifted \div p = Slice IN
      /\ fits <=> bit < Width /\ Slice * p < Limit
      /\ fits => shifted = Slice * p /\ acc + shifted < Limit /\ acc + shifted < p * Base
  BY <1>1, <1>2, SliceFits DEF Reading
<1>4. Slice * Pow2[bit] \in Nat
  BY <1>1, <1>2
<1>5. acc \in Nat
  BY DEF Reading
<1>6. Fits => Number \in Nat
  BY <1>3, <1>4, <1>5 DEF Fits, Shifted, Number
<1> QED BY <1>1, <1>3, <1>6 DEF Fits, Shifted, Number

LEMMA NoGroups ==
    ASSUME NEW data \in Seq(Nat), NEW c \in Nat
    PROVE  Values(SubSeq(data, c - 0 + 1, c))[0] = 0 /\ Group * 0 = 0 /\ 0 < Pow2[0] /\ 0 < Limit
<1>1. SubSeq(data, c - 0 + 1, c) = << >> /\ << >> \in Seq(Nat)
  OBVIOUS
<1>2. Values(<< >>)[0] = 0
  BY <1>1, ValuesFacts
<1>3. Group * 0 = 0 /\ 0 < Limit
  BY Constants
<1>4. 0 < Pow2[0]
  BY Pow2Facts
<1>5. SubSeq(data, c - 0 + 1, c) = << >>
  BY <1>1
<1> QED BY <1>2, <1>3, <1>4, <1>5

LEMMA NextGroup ==
    ASSUME NumberInv, pc \in Numbers, NEW k \in Nat, Reading(k), HasByte, Fits,
           job' = job, acc' = Number, bit' = bit + Group, cursor' = cursor + 1
    PROVE  Reading(k + 1)'
<1>1. job \in Jobs /\ cursor \in Nat /\ k <= cursor /\ bit = Group * k
  BY DEF NumberInv, Reading
<1>2. /\ Shifted = Slice * Pow2[bit] /\ Number \in Nat /\ Number < Limit /\ Number < Pow2[bit + Group]
      /\ bit + Group = Group * (k + 1)
  BY <1>1, NumberFacts
<1>3. job.data \in Seq(Nat) /\ cursor + 1 \in 1 .. Len(job.data)
  BY <1>1, DataFacts, ByteFacts
<1> DEFINE s == SubSeq(job.data, cursor - k + 1, cursor)
           t == SubSeq(job.data, (cursor + 1) - (k + 1) + 1, cursor + 1)
<1>4. s \in Seq(Nat) /\ Len(s) = k /\ t \in Seq(Nat) /\ Len(t) = k + 1 /\ t[k + 1] = job.data[cursor + 1]
  BY <1>1, <1>3
<1>5. \A i \in 1 .. k : t[i] = s[i]
  BY <1>1, <1>3
<1> HIDE DEF s, t
<1>6. Values(t)[k + 1] = Values(s)[k] + (t[k + 1] % Base) * Pow2[Group * k]
  <2>1. Values(t)[Len(t)] = Values(s)[Len(s)] + (t[Len(t)] % Base) * Pow2[Group * Len(s)]
    BY <1>4, <1>5, ValuesStep
  <2> QED BY <1>4, <2>1
<1>7. acc = Values(s)[k]
  BY DEF Reading, s
<1>8. Number = Values(t)[k + 1]
  BY <1>1, <1>2, <1>4, <1>6, <1>7 DEF Number, Slice, Byte
<1>9. k + 1 <= cursor + 1
  BY <1>1
<1> QED BY <1>2, <1>8, <1>9 DEF Reading, t

LEMMA ResumeType == ASSUME NEW l PROVE Resume(l) \in Numbers \cup {"done"}
BY DEF Resume, Numbers

(* Before the first group of a number. *)
LEMMA NothingOfNumber ==
    ASSUME job \in Jobs, job' = job, cursor' \in Nat, acc' = 0, bit' = 0
    PROVE  Reading(0)'
<1>1. job'.data \in Seq(Nat)
  BY DataFacts
<1>2. /\ Values(SubSeq(job'.data, cursor' - 0 + 1, cursor'))[0] = 0
      /\ Group * 0 = 0 /\ 0 < Pow2[0] /\ 0 < Limit
  BY <1>1, NoGroups
<1> QED BY <1>2 DEF Reading

(* The number is complete. *)
LEMMA NextNumber ==
    ASSUME NumberInv, pc \in Numbers, HasByte, job' = job, acc' = 0, bit' = 0, cursor' = cursor + 1,
           pc' \in Numbers \cup {"done"}
    PROVE  NumberInv'
<1>1. job' \in Jobs /\ cursor' \in Nat /\ cursor' <= Len(job'.data)
  BY ByteFacts, DataFacts DEF NumberInv
<1>2. Reading(0)'
  BY <1>1, NothingOfNumber DEF NumberInv
<1>3. pc' \notin {"open", "version"}
  BY DEF Numbers
<1> QED BY <1>1, <1>2, <1>3 DEF NumberInv

LEMMA InitNumberInv == Init => NumberInv
BY DEF Init, NumberInv, Numbers

(* Every action that reads the last byte of a number. *)
ReadNumber == \/ ReadSections \/ ReadFromSection \/ ReadToSection \/ ReadToOffsets
              \/ ReadToDelta \/ ReadFromOffsets \/ ReadKind \/ ReadDeltas \/ ReadDelta
Refuse == NoCommand \/ CannotOpen \/ WrongVersion \/ EndOfFile \/ TooLong \/ UnknownKind

LEMMA ReadNumberFacts ==
    ASSUME ReadNumber
    PROVE  /\ pc \in Numbers /\ HasByte /\ Fits /\ ~More
           /\ job' = job /\ acc' = 0 /\ bit' = 0 /\ cursor' = cursor + 1
           /\ pc' \in Numbers \cup {"done"}
<1> USE ResumeType DEF Reads, AfterByte
<1>1. CASE ReadSections
  BY <1>1 DEF ReadSections, Count, Numbers
<1>2. CASE ReadFromSection
  BY <1>2 DEF ReadFromSection, Numbers
<1>3. CASE ReadToSection
  BY <1>3 DEF ReadToSection, Numbers
<1>4. CASE ReadToOffsets
  BY <1>4 DEF ReadToOffsets, Count, Numbers
<1>5. CASE ReadToDelta
  BY <1>5 DEF ReadToDelta, Numbers
<1>6. CASE ReadFromOffsets
  BY <1>6 DEF ReadFromOffsets, Count, Numbers
<1>7. CASE ReadKind
  BY <1>7 DEF ReadKind, Numbers
<1>8. CASE ReadDeltas
  BY <1>8 DEF ReadDeltas, Count, Numbers
<1>9. CASE ReadDelta
  BY <1>9 DEF ReadDelta, Numbers
<1> QED BY <1>1, <1>2, <1>3, <1>4, <1>5, <1>6, <1>7, <1>8, <1>9 DEF ReadNumber

LEMMA RefuseFacts ==
    ASSUME Refuse
    PROVE  pc' \in {"failed", "crashed"} /\ UNCHANGED <<job, cursor, bit, acc, left, entry, result>>
BY DEF Refuse, NoCommand, CannotOpen, WrongVersion, EndOfFile, TooLong, UnknownKind, Fail

LEMMA NextNumberInv == ASSUME NumberInv, [Next]_vars PROVE NumberInv'
<1>1. CASE Refuse
  BY <1>1, RefuseFacts DEF NumberInv, Numbers
<1>2. CASE ReadNumber
  BY <1>2, ReadNumberFacts, NextNumber
<1>3. CASE Open
  BY <1>3, DataFacts DEF Open, NumberInv, Numbers
<1>4. CASE ReadVersion
  <2>1. pc' = "sections" /\ pc' \in Numbers /\ UNCHANGED <<job, bit, acc>> /\ cursor' = cursor + 1
        /\ HasByte /\ bit = 0 /\ acc = 0 /\ job \in Jobs /\ cursor \in Nat
    BY <1>4 DEF ReadVersion, NumberInv, Numbers
  <2>2. cursor' \in Nat /\ cursor' <= Len(job'.data)
    BY <2>1, ByteFacts, DataFacts
  <2>3. Reading(0)'
    BY <2>1, <2>2, NothingOfNumber
  <2> QED BY <2>1, <2>2, <2>3 DEF NumberInv, Numbers
<1>5. CASE ReadMore
  <2>1. /\ pc \in Numbers /\ HasByte /\ Fits /\ UNCHANGED <<job, pc>>
        /\ acc' = Number /\ bit' = bit + Group /\ cursor' = cursor + 1
    BY <1>5 DEF ReadMore
  <2>2. PICK k \in Nat : Reading(k)
    BY <2>1 DEF NumberInv
  <2>3. Reading(k + 1)' /\ k + 1 \in Nat
    BY <2>1, <2>2, NextGroup
  <2>4. job' \in Jobs /\ cursor' \in Nat /\ cursor' <= Len(job'.data)
    BY <2>1, ByteFacts, DataFacts DEF NumberInv
  <2> QED BY <2>1, <2>3, <2>4 DEF NumberInv, Numbers
<1>6. CASE UNCHANGED vars
  BY <1>6 DEF vars, NumberInv, Reading
<1> QED BY <1>1, <1>2, <1>3, <1>4, <1>5, <1>6 DEF Next, Refuse, ReadNumber, Ended

(* read_uleb128 loses no bits of a number in any file, for groups and        *)
(* integers of any number of bits.                                           *)
THEOREM NumbersAreExact == Spec => []NumbersExact
<1>1. NumberInv => NumbersExact
  <2> SUFFICES ASSUME NumberInv, pc \in Numbers
               PROVE  acc = Values(BytesRead)[Len(BytesRead)] /\ acc < Limit
    BY DEF NumbersExact
  <2>1. PICK k \in Nat : Reading(k)
    BY DEF NumberInv
  <2>2. bit \div Group = k
    <3>1. Group \in Nat \ {0} /\ bit = Group * k
      BY <2>1, Constants DEF Reading
    <3>2. (Group * k + 0) \div Group = k
      BY <3>1, DivisionOf
    <3>3. PICK b \in Nat : b = Group * k
      BY <3>1
    <3> QED BY <3>1, <3>2, <3>3
  <2>3. job.data \in Seq(Nat) /\ cursor \in Nat /\ cursor <= Len(job.data) /\ k <= cursor
    BY <2>1, DataFacts DEF NumberInv, Reading
  <2>4. BytesRead = SubSeq(job.data, cursor - k + 1, cursor)
    BY <2>2 DEF BytesRead
  <2>5. Len(SubSeq(job.data, cursor - k + 1, cursor)) = k
    BY <2>3
  <2> QED BY <2>1, <2>4, <2>5 DEF Reading
<1>2. NumberInv /\ [Next]_vars => NumberInv'
  BY NextNumberInv
<1> QED BY <1>1, <1>2, InitNumberInv, PTL DEF Spec

-----------------------------------------------------------------------------
(* Lists are parsed.  The bytes of the numbers ns are ahead in the file, and *)
(* k groups of the first are in acc.                                         *)
Bytes(list, k, ns) ==
    /\ Begins(BytesOf(ns, job.pad), job.data, cursor - k)
    /\ cursor - k + Len(BytesOf(ns, job.pad)) = job.dataoff + Len(Encoding(list, job.pad))
    /\ ns # << >> => k < Size(Head(ns).n) + job.pad /\ acc = Head(ns).n % Pow2[Group * k]

LEMMA BeginsTail ==
    ASSUME NEW a \in Seq(Nat), NEW b \in Seq(Nat), NEW data \in Seq(Nat), NEW at \in Nat,
           Begins(a \o b, data, at)
    PROVE  Begins(b, data, at + Len(a))
<1>1. Len(a) \in Nat /\ DOMAIN b = 1 .. Len(b) /\ Len(b) \in Nat /\ DOMAIN (a \o b) = 1 .. Len(a) + Len(b)
  OBVIOUS
<1>2. ASSUME NEW i \in DOMAIN b PROVE Len(a) + i \in DOMAIN (a \o b) /\ (a \o b)[Len(a) + i] = b[i]
  BY <1>1
<1>3. ASSUME NEW i \in DOMAIN b PROVE at + (Len(a) + i) = (at + Len(a)) + i
  BY <1>1
<1> QED BY <1>2, <1>3 DEF Begins

LEMMA BeginsFirst ==
    ASSUME NEW a \in Seq(Nat), NEW b \in Seq(Nat), NEW data, NEW at,
           Begins(a \o b, data, at)
    PROVE  Begins(a, data, at)
<1>1. ASSUME NEW i \in DOMAIN a PROVE i \in DOMAIN (a \o b) /\ (a \o b)[i] = a[i]
  OBVIOUS
<1> QED BY <1>1 DEF Begins

LEMMA LengthOf ==
    ASSUME NEW E, NEW a \in Seq(E), NEW b \in Seq(E)
    PROVE  Len(a \o b) = Len(a) + Len(b) /\ Len(a) \in Nat /\ Len(b) \in Nat
OBVIOUS

LEMMA HeadOf ==
    ASSUME NEW E, NEW x \in E, NEW rest \in Seq(E)
    PROVE  <<x>> \o rest # << >> /\ Head(<<x>> \o rest) = x /\ <<x>> \o rest \in Seq(E)
OBVIOUS

(* What the byte at the cursor is, in a number that is being read. *)
LEMMA ByteAhead ==
    ASSUME NumberInv, NEW k \in Nat, Reading(k), NEW list, NEW number \in NumberRecords,
           NEW rest \in Seq(NumberRecords), Bytes(list, k, <<number>> \o rest)
    PROVE  /\ k + 1 \in 1 .. Size(number.n) + job.pad /\ Size(number.n) + job.pad \in Nat
           /\ acc = number.n % Pow2[Group * k]
           /\ HasByte => Byte = Uleb(number.n, job.pad)[k + 1]
           /\ Begins(BytesOf(rest, job.pad), job.data, cursor - k + (Size(number.n) + job.pad))
           /\ cursor - k + (Size(number.n) + job.pad) + Len(BytesOf(rest, job.pad))
                = job.dataoff + Len(Encoding(list, job.pad))
           /\ Len(BytesOf(rest, job.pad)) \in Nat
<1> DEFINE m == Size(number.n) + job.pad
           u == Uleb(number.n, job.pad)
           b == BytesOf(rest, job.pad)
<1>1. job \in Jobs /\ cursor \in Nat /\ job.pad \in Nat /\ job.data \in Seq(Nat) /\ number.n \in Nat
  BY DataFacts DEF NumberInv, NumberRecords
<1>2. /\ <<number>> \o rest # << >> /\ Head(<<number>> \o rest) = number
      /\ BytesOf(<<number>> \o rest, job.pad) = u \o b
  BY <1>1, HeadOf, BytesOfStep
<1>3. u \in Seq(Nat) /\ Len(u) = m /\ m \in Nat \ {0} /\ b \in Seq(Nat)
  BY <1>1, UlebFacts, BytesOfType
<1>4. k < m /\ acc = number.n % Pow2[Group * k]
  BY <1>2 DEF Bytes
<1>5. Begins(u \o b, job.data, cursor - k)
  BY <1>2 DEF Bytes
<1>6. cursor - k \in Nat /\ k <= cursor
  BY <1>1 DEF Reading
<1>7. Begins(u, job.data, cursor - k) /\ Begins(b, job.data, (cursor - k) + Len(u))
  BY <1>1, <1>3, <1>5, <1>6, BeginsTail, BeginsFirst
<1>8. ASSUME HasByte PROVE Byte = u[k + 1]
  <2>1. cursor + 1 <= Len(job.data) /\ (cursor - k) + (k + 1) = cursor + 1
    BY <1>1, <1>8 DEF HasByte
  <2>2. k + 1 \in DOMAIN u
    <3> HIDE DEF u, m
    <3> QED BY <1>3, <1>4
  <2>3. job.data[(cursor - k) + (k + 1)] = u[k + 1]
    BY <1>7, <2>1, <2>2 DEF Begins
  <2> QED BY <2>1, <2>3 DEF Byte
<1>9. Len(u \o b) = m + Len(b) /\ Len(b) \in Nat
  BY <1>3, LengthOf
<1>10. cursor - k + m + Len(b) = job.dataoff + Len(Encoding(list, job.pad))
  <2>1. cursor - k + (m + Len(b)) = job.dataoff + Len(Encoding(list, job.pad))
    BY <1>2, <1>9 DEF Bytes
  <2> HIDE DEF m, b
  <2> QED BY <1>1, <1>3, <1>9, <2>1
<1> HIDE DEF m, u, b
<1>11. k + 1 \in 1 .. m
  BY <1>3, <1>4
<1> QED BY <1>3, <1>4, <1>7, <1>8, <1>9, <1>10, <1>11 DEF m, u, b

(* The number the next byte makes. *)
LEMMA NumberAhead ==
    ASSUME NumberInv, NEW k \in Nat, Reading(k), NEW list, NEW number \in NumberRecords,
           NEW rest \in Seq(NumberRecords), Bytes(list, k, <<number>> \o rest), HasByte
    PROVE  /\ acc + Slice * Pow2[bit] = number.n % Pow2[Group * (k + 1)]
           /\ More <=> k + 1 < Size(number.n) + job.pad
           /\ k + 1 = Size(number.n) + job.pad => acc + Slice * Pow2[bit] = number.n
<1>1. /\ k + 1 \in 1 .. Size(number.n) + job.pad /\ acc = number.n % Pow2[Group * k]
      /\ Byte = Uleb(number.n, job.pad)[k + 1]
  BY ByteAhead
<1>2. number.n \in Nat /\ job.pad \in Nat
  BY DataFacts DEF NumberRecords, NumberInv
<1>3. /\ Uleb(number.n, job.pad)[k + 1] % Base = (number.n \div Pow2[Group * ((k + 1) - 1)]) % Base
      /\ Uleb(number.n, job.pad)[k + 1] >= Base <=> k + 1 < Size(number.n) + job.pad
  BY <1>1, <1>2, UlebFacts
<1>4. (k + 1) - 1 = k /\ bit = Group * k
  BY DEF Reading
<1>5. Slice = (number.n \div Pow2[Group * k]) % Base
  BY <1>1, <1>3, <1>4 DEF Slice
<1>6. number.n % Pow2[Group * (k + 1)]
        = (number.n % Pow2[Group * k]) + ((number.n \div Pow2[Group * k]) % Base) * Pow2[Group * k]
  BY <1>2, GroupsOf
<1>7. acc + Slice * Pow2[bit] = number.n % Pow2[Group * (k + 1)]
  BY <1>1, <1>4, <1>5, <1>6
<1>8. number.n % Pow2[Group * (Size(number.n) + job.pad)] = number.n
  BY <1>2, AllGroups
<1> QED BY <1>1, <1>3, <1>7, <1>8 DEF More

(* It has no more than Width bits exactly when it is read. *)
LEMMA GroupsAre ==
    ASSUME NEW k \in Nat
    PROVE  k + 1 <= Groups <=> Group * k < Width
<1>1. Group \in Nat \ {0} /\ Width \in Nat \ {0}
  BY Constants
<1>2. PICK q \in Nat, r \in 0 .. Group - 1 : Width + Group - 1 = Group * q + r /\ q = Groups
  <2>1. Width + Group - 1 \in Nat
    BY <1>1
  <2> QED BY <1>1, <2>1, Division DEF Groups
<1>3. CASE k + 1 <= q
  <2>1. (k + 1) * Group <= q * Group
    BY <1>1, <1>3, ProductMonotone
  <2>2. (k + 1) * Group = Group * k + Group /\ q * Group = Group * q
    BY <1>1
  <2>3. PICK x \in Nat, y \in Nat : x = Group * k /\ y = Group * q
    BY <1>1
  <2>4. x + Group <= y
    BY <2>1, <2>2, <2>3
  <2>5. x < Width
    BY <1>1, <1>2, <2>3, <2>4
  <2> QED BY <1>2, <1>3, <2>3, <2>5
<1>4. CASE q <= k
  <2>1. q * Group <= k * Group
    BY <1>1, <1>4, ProductMonotone
  <2>2. k * Group = Group * k /\ q * Group = Group * q
    BY <1>1
  <2>3. PICK x \in Nat, y \in Nat : x = Group * k /\ y = Group * q
    BY <1>1
  <2>4. y <= x
    BY <2>1, <2>2, <2>3
  <2>5. ~(x < Width)
    BY <1>1, <1>2, <2>3, <2>4
  <2> QED BY <1>2, <1>4, <2>3, <2>5
<1> QED BY <1>2, <1>3, <1>4

LEMMA NoWrap == ASSUME NEW x \in Nat, NEW p \in Nat \ {0} PROVE x % p <= x
<1>1. PICK q \in Nat, r \in 0 .. p - 1 : x = p * q + r /\ r = x % p
  BY Division
<1>2. p * q \in Nat
  OBVIOUS
<1>3. PICK y \in Nat : y = p * q
  BY <1>2
<1> QED BY <1>1, <1>3

(* A number that is not read, but refused, is not readable. *)
LEMMA RefusedNumber ==
    ASSUME NumberInv, NEW k \in Nat, Reading(k), NEW list, NEW number \in NumberRecords,
           NEW rest \in Seq(NumberRecords), Bytes(list, k, <<number>> \o rest), HasByte, ~Fits
    PROVE  ~Readable(number)
<1> SUFFICES ASSUME number.n < Limit, Size(number.n) + job.pad <= Groups
             PROVE  FALSE
  BY DEF Readable
<1>1. job \in Jobs /\ cursor \in Nat /\ number.n \in Nat
  BY DEF NumberInv, NumberRecords
<1>2. /\ Fits <=> bit < Width /\ Slice * Pow2[bit] < Limit
      /\ bit = Group * k
  BY <1>1, NumberFacts DEF Reading
<1>3. k + 1 \in 1 .. Size(number.n) + job.pad /\ Size(number.n) + job.pad \in Nat
  BY ByteAhead
<1>4. k + 1 <= Groups
  <2>1. Groups \in Nat
    <3>1. Width + Group - 1 \in Nat /\ Group \in Nat \ {0}
      BY Constants
    <3> QED BY <3>1, Division DEF Groups
  <2> QED BY <1>3, <2>1
<1>5. bit < Width
  BY <1>2, <1>4, GroupsAre
<1>6. Slice * Pow2[bit] < Limit
  <2>1. acc + Slice * Pow2[bit] = number.n % Pow2[Group * (k + 1)]
    BY NumberAhead
  <2>2. Pow2[Group * (k + 1)] \in Nat \ {0} /\ Pow2[bit] \in Nat
    <3>1. Group * (k + 1) \in Nat /\ bit \in Nat
      BY <1>2, Constants
    <3> QED BY <3>1, Pow2Add
  <2>3. number.n % Pow2[Group * (k + 1)] <= number.n
    BY <1>1, <2>2, NoWrap
  <2>4. PICK x \in Nat : x = Slice * Pow2[bit]
    <3>1. Slice \in Nat
      BY <1>1, ByteFacts, Constants
    <3> QED BY <2>2, <3>1
  <2>5. PICK y \in Int : y = number.n % Pow2[Group * (k + 1)]
    BY <1>1, <2>2
  <2>6. acc \in Nat /\ Limit \in Nat
    BY Constants DEF Reading
  <2> QED BY <1>1, <2>1, <2>3, <2>4, <2>5, <2>6
<1> QED BY <1>2, <1>5, <1>6

(* A number that ends behind the file. *)
LEMMA CutOff ==
    ASSUME NumberInv, pc \in Numbers, NEW k \in Nat, Reading(k), NEW list, NEW number \in NumberRecords,
           NEW rest \in Seq(NumberRecords), Bytes(list, k, <<number>> \o rest), ~HasByte
    PROVE  ~(job.dataoff + Len(Encoding(list, job.pad)) <= Len(job.data))
<1>1. /\ k + 1 \in 1 .. Size(number.n) + job.pad /\ Size(number.n) + job.pad \in Nat
      /\ cursor - k + (Size(number.n) + job.pad) + Len(BytesOf(rest, job.pad))
           = job.dataoff + Len(Encoding(list, job.pad))
      /\ Len(BytesOf(rest, job.pad)) \in Nat
  BY ByteAhead
<1>2. cursor \in Nat /\ Len(job.data) \in Nat /\ ~(cursor + 1 <= Len(job.data))
  BY DataFacts DEF NumberInv, HasByte
<1> QED BY <1>1, <1>2

(* A number that goes on. *)
LEMMA ContinuedNumber ==
    ASSUME NumberInv, pc \in Numbers, NEW k \in Nat, Reading(k), NEW list, NEW number \in NumberRecords,
           NEW rest \in Seq(NumberRecords), Bytes(list, k, <<number>> \o rest), ReadMore
    PROVE  Bytes(list, k + 1, <<number>> \o rest)'
<1>1. /\ HasByte /\ Fits /\ More /\ job' = job /\ acc' = Number /\ cursor' = cursor + 1
  BY DEF ReadMore
<1>2. cursor \in Nat /\ cursor' - (k + 1) = cursor - k
  BY <1>1 DEF NumberInv
<1>3. k + 1 < Size(number.n) + job.pad /\ Number = number.n % Pow2[Group * (k + 1)]
  BY <1>1, NumberAhead, NumberFacts DEF NumberInv, Number
<1>4. <<number>> \o rest # << >> /\ Head(<<number>> \o rest) = number
  BY HeadOf
<1> DEFINE ns == <<number>> \o rest
<1> HIDE DEF ns
<1>5. Bytes(list, k, ns)
  BY DEF ns
<1>6. Bytes(list, k + 1, ns)'
  BY <1>1, <1>2, <1>3, <1>4, <1>5 DEF Bytes, ns
<1> QED BY <1>6 DEF ns

(* The first number ahead is not begun. *)
LEMMA NotBegun ==
    ASSUME NEW ns \in Seq(NumberRecords), NEW pad \in Nat, ns # << >>
    PROVE  0 < Size(Head(ns).n) + pad /\ 0 = Head(ns).n % Pow2[Group * 0]
<1>1. PICK x \in Nat : x = Head(ns).n
  <2>1. Head(ns) \in NumberRecords
    OBVIOUS
  <2> QED BY <2>1 DEF NumberRecords
<1>2. Size(x) \in 1 .. x + 1
  BY SizeFacts
<1>3. Group * 0 = 0 /\ Pow2[0] = 1
  BY Constants, Pow2Facts
<1> QED BY <1>1, <1>2, <1>3

(* A number that is complete. *)
LEMMA CompleteNumber ==
    ASSUME NumberInv, pc \in Numbers, NEW k \in Nat, Reading(k), NEW list, NEW number \in NumberRecords,
           NEW rest \in Seq(NumberRecords), Bytes(list, k, <<number>> \o rest),
           HasByte, Fits, ~More, job' = job, acc' = 0, bit' = 0, cursor' = cursor + 1
    PROVE  /\ Number = number.n /\ number.n < Limit /\ Size(number.n) + job.pad <= Groups
           /\ Bytes(list, 0, rest)'
<1>1. job \in Jobs /\ cursor \in Nat /\ k <= cursor /\ bit = Group * k /\ number.n \in Nat /\ job.pad \in Nat
  BY DataFacts DEF NumberInv, Reading, NumberRecords
<1>2. /\ k + 1 \in 1 .. Size(number.n) + job.pad /\ Size(number.n) + job.pad \in Nat
      /\ Begins(BytesOf(rest, job.pad), job.data, cursor - k + (Size(number.n) + job.pad))
      /\ cursor - k + (Size(number.n) + job.pad) + Len(BytesOf(rest, job.pad))
           = job.dataoff + Len(Encoding(list, job.pad))
  BY ByteAhead
<1>3. k + 1 = Size(number.n) + job.pad
  BY <1>2, NumberAhead
<1>4. Number = number.n /\ Number < Limit /\ bit < Width
  BY <1>1, <1>3, NumberAhead, NumberFacts DEF Number
<1>5. Size(number.n) + job.pad <= Groups
  BY <1>1, <1>3, <1>4, GroupsAre
<1>6. cursor - k + (Size(number.n) + job.pad) = cursor' - 0
  BY <1>1, <1>2, <1>3
<1>7. ASSUME rest # << >> PROVE 0 < Size(Head(rest).n) + job.pad /\ 0 = Head(rest).n % Pow2[Group * 0]
  BY <1>1, <1>7, NotBegun
<1> QED BY <1>2, <1>4, <1>5, <1>6, <1>7 DEF Bytes

(* The numbers that are next when the number called name is, and the entries *)
(* they make.                                                                *)
Ahead(name, to, ds, ks, os, ss) ==
    CASE name = "sections" -> <<Num("sections", Len(ss))>> \o NumbersOf(ds, ks, os, ss)
      [] name = "to_section" ->
           <<Num("to_section", to), Num("to_offsets", Len(os))>> \o NumbersOf(ds, ks, os, ss)
      [] name = "to_offsets" -> <<Num("to_offsets", Len(os))>> \o NumbersOf(ds, ks, os, ss)
      [] name = "from_offsets" -> <<Num("from_offsets", Len(ks))>> \o NumbersOf(ds, ks, os, ss)
      [] name = "deltas" -> <<Num("deltas", Len(ds))>> \o NumbersOf(ds, ks, os, ss)
      [] OTHER -> NumbersOf(ds, ks, os, ss)
EntriesAhead(name, e, to, ds, ks, os, ss) ==
    EntriesOf(e.from_section,
              IF name = "to_section" THEN to ELSE e.to_section,
              IF name = "deltas" THEN 0 ELSE e.from_offset,
              IF name \in {"to_section", "to_offsets"} THEN 0 ELSE e.to_offset,
              e.kind, ds, ks, os, ss)

(* The loops have as many rounds left as there are members. *)
Counted(name, l, ds, ks, os, ss) ==
    /\ name # "deltas" => l.deltas = Len(ds)
    /\ name # "from_offsets" => l.from_offsets = Len(ks)
    /\ name \notin {"to_section", "to_offsets"} => l.to_offsets = Len(os)
    /\ name # "sections" => l.sections = Len(ss)
    /\ name \in {"from_offsets", "to_section", "to_offsets", "sections"} => ds = << >>
    /\ name \in {"to_section", "to_offsets", "sections"} => ks = << >>
    /\ name = "sections" => os = << >>
    /\ name \in {"delta", "kind", "to_delta", "from_section", "done"} => name = Resume(l)

AllReadable(ns) == \A i \in DOMAIN ns : Readable(ns[i])

Place(list, to, ds, ks, os, ss) ==
    /\ to \in Nat /\ ds \in Seq(Nat) /\ ks \in Seq(KindRecords)
    /\ os \in Seq(OffsetRecords) /\ ss \in Seq(SectionRecords)
    /\ Counted(pc, left, ds, ks, os, ss)
    /\ result \o EntriesAhead(pc, entry, to, ds, ks, os, ss) = Entries(list)
    /\ AllReadable(Ahead(pc, to, ds, ks, os, ss)) <=> AllReadable(ListNumbers(list))
At(list, k, to, ds, ks, os, ss) ==
    Place(list, to, ds, ks, os, ss) /\ Bytes(list, k, Ahead(pc, to, ds, ks, os, ss))

TypeInv ==
    /\ left \in [sections : Int, to_offsets : Int, from_offsets : Int, deltas : Int]
    /\ entry \in EntryRecords
    /\ result \in Seq(EntryRecords)

LEMMA ReadableStep ==
    ASSUME NEW number \in NumberRecords, NEW rest \in Seq(NumberRecords), Readable(number)
    PROVE  AllReadable(<<number>> \o rest) <=> AllReadable(rest)
<1> DEFINE ns == <<number>> \o rest
<1>1. PICK m \in Nat : m = Len(rest) /\ DOMAIN rest = 1 .. m
  OBVIOUS
<1>2. DOMAIN ns = 1 .. m + 1 /\ ns[1] = number /\ \A i \in 1 .. m : ns[i + 1] = rest[i]
  BY <1>1
<1> HIDE DEF ns
<1>3. ASSUME AllReadable(ns), NEW i \in 1 .. m PROVE Readable(rest[i])
  <2>1. i + 1 \in 1 .. m + 1
    OBVIOUS
  <2> QED BY <1>2, <1>3, <2>1 DEF AllReadable
<1>4. ASSUME AllReadable(rest), NEW i \in 1 .. m + 1 PROVE Readable(ns[i])
  <2>1. CASE i = 1
    BY <1>2, <2>1
  <2>2. CASE i # 1
    <3>1. i - 1 \in 1 .. m /\ (i - 1) + 1 = i
      BY <2>2
    <3>2. ns[i] = rest[i - 1]
      BY <1>2, <3>1
    <3> QED BY <1>1, <1>4, <3>1, <3>2 DEF AllReadable
  <2> QED BY <2>1, <2>2
<1>5. AllReadable(ns) <=> AllReadable(rest)
  BY <1>1, <1>2, <1>3, <1>4 DEF AllReadable
<1> QED BY <1>5 DEF ns

(* What every action that completes a number does. *)
LEMMA Arrived ==
    ASSUME NumberInv, ReadNumber, NEW k \in Nat, Reading(k), NEW list, NEW number \in NumberRecords,
           NEW rest \in Seq(NumberRecords), Bytes(list, k, <<number>> \o rest),
           number.is = "kind" => Number < Kinds
    PROVE  /\ Number = number.n
           /\ Bytes(list, 0, rest)'
           /\ AllReadable(<<number>> \o rest) <=> AllReadable(rest)'
<1>1. /\ pc \in Numbers /\ HasByte /\ Fits /\ ~More
      /\ job' = job /\ acc' = 0 /\ bit' = 0 /\ cursor' = cursor + 1
  BY ReadNumberFacts
<1>2. /\ Number = number.n /\ number.n < Limit /\ Size(number.n) + job.pad <= Groups
      /\ Bytes(list, 0, rest)'
  BY <1>1, CompleteNumber
<1>3. Readable(number)
  BY <1>2 DEF Readable
<1>4. AllReadable(rest)' <=> AllReadable(rest)
  BY <1>1 DEF AllReadable, Readable
<1> QED BY <1>2, <1>3, <1>4, ReadableStep

LEMMA Arrives ==
    ASSUME NumberInv, ReadNumber, NEW k \in Nat, Reading(k), NEW list,
           NEW to, NEW ds, NEW ks, NEW os, NEW ss, At(list, k, to, ds, ks, os, ss),
           NEW number \in NumberRecords, NEW rest \in Seq(NumberRecords),
           Ahead(pc, to, ds, ks, os, ss) = <<number>> \o rest,
           number.is = "kind" => Number < Kinds,
           NEW to2 \in Nat, NEW ds2 \in Seq(Nat), NEW ks2 \in Seq(KindRecords),
           NEW os2 \in Seq(OffsetRecords), NEW ss2 \in Seq(SectionRecords),
           Ahead(pc', to2, ds2, ks2, os2, ss2) = rest,
           Counted(pc', left', ds2, ks2, os2, ss2),
           result' \o EntriesAhead(pc', entry', to2, ds2, ks2, os2, ss2)
             = result \o EntriesAhead(pc, entry, to, ds, ks, os, ss)
    PROVE  At(list, 0, to2, ds2, ks2, os2, ss2)'
<1>1. Bytes(list, 0, rest)' /\ (AllReadable(<<number>> \o rest) <=> AllReadable(rest)')
  BY Arrived DEF At
<1>2. AllReadable(ListNumbers(list))' <=> AllReadable(ListNumbers(list))
  BY ReadNumberFacts DEF AllReadable, Readable
<1>3. Bytes(list, 0, Ahead(pc, to2, ds2, ks2, os2, ss2))'
  BY <1>1
<1>4. AllReadable(Ahead(pc, to2, ds2, ks2, os2, ss2))' <=> AllReadable(ListNumbers(list))'
  BY <1>1, <1>2 DEF At, Place
<1>5. (result \o EntriesAhead(pc, entry, to2, ds2, ks2, os2, ss2))' = Entries(list)
  BY DEF At, Place
<1> QED BY <1>3, <1>4, <1>5 DEF At, Place

LEMMA ToDeltaArrives ==
    ASSUME NumberInv, TypeInv, NEW k \in Nat, Reading(k), NEW list,
           NEW to, NEW ds, NEW ks, NEW os, NEW ss, At(list, k, to, ds, ks, os, ss), ReadToDelta
    PROVE  At(list, 0, to, << >>, Head(os).kinds, Tail(os), ss)'
<1> DEFINE o == Head(os)
<1>1. /\ pc = "to_delta" /\ pc' = "from_offsets" /\ UNCHANGED result
      /\ left' = [left EXCEPT !["to_offsets"] = @ - 1]
      /\ entry' = [entry EXCEPT !.to_offset = (@ + Number) % Limit]
  BY DEF ReadToDelta, Reads, Round
<1>2. /\ to \in Nat /\ ds \in Seq(Nat) /\ ks \in Seq(KindRecords)
      /\ os \in Seq(OffsetRecords) /\ ss \in Seq(SectionRecords)
  BY DEF At, Place
<1>3. /\ left.deltas = Len(ds) /\ left.from_offsets = Len(ks) /\ left.to_offsets = Len(os)
      /\ left.sections = Len(ss) /\ "to_delta" = Resume(left)
  BY <1>1 DEF At, Place, Counted
<1>4. ds = << >> /\ ks = << >> /\ os # << >>
  BY <1>2, <1>3 DEF Resume
<1>5. o.delta \in Nat /\ o.kinds \in Seq(KindRecords) /\ Tail(os) \in Seq(OffsetRecords)
      /\ Len(Tail(os)) = Len(os) - 1
  <2>1. o \in OffsetRecords /\ Tail(os) \in Seq(OffsetRecords) /\ Len(Tail(os)) = Len(os) - 1
    BY <1>2, <1>4, TailRests
  <2> QED BY <2>1 DEF OffsetRecords
<1>6. PICK number, rest :
          /\ number = Num("to_delta", o.delta)
          /\ rest = <<Num("from_offsets", Len(o.kinds))>> \o NumbersOf(<< >>, o.kinds, Tail(os), ss)
  OBVIOUS
<1>7. /\ Ahead(pc, to, ds, ks, os, ss) = <<number>> \o rest
      /\ Ahead(pc', to, << >>, o.kinds, Tail(os), ss) = rest
  BY <1>1, <1>2, <1>4, <1>6, OffsetMove DEF Ahead
<1>8. number \in NumberRecords /\ rest \in Seq(NumberRecords) /\ number.n = o.delta /\ number.is # "kind"
  <2>1. NumbersOf(<< >>, o.kinds, Tail(os), ss) \in Seq(NumberRecords)
    BY <1>2, <1>4, <1>5, NumbersOfType
  <2>2. Len(o.kinds) \in Nat /\ "from_offsets" \in Numbers /\ "to_delta" \in Numbers
    BY <1>5 DEF Numbers
  <2>3. number \in NumberRecords /\ <<Num("from_offsets", Len(o.kinds))>> \in Seq(NumberRecords)
    BY <1>5, <1>6, <2>2, NumType
  <2> QED BY <1>6, <2>1, <2>3, ConcatType DEF Num
<1>9. /\ Number = number.n /\ Bytes(list, 0, rest)'
      /\ AllReadable(<<number>> \o rest) <=> AllReadable(rest)'
  BY <1>7, <1>8, Arrived DEF At, ReadNumber
<1>10. EntriesAhead(pc', entry', to, << >>, o.kinds, Tail(os), ss) = EntriesAhead(pc, entry, to, ds, ks, os, ss)
  <2>1. PICK f \in Nat, t \in Nat, s \in Nat, x \in Nat, kind \in Nat :
           /\ f = entry.from_section /\ t = entry.to_section /\ s = entry.from_offset
           /\ x = entry.to_offset /\ kind = entry.kind
    BY DEF TypeInv, EntryRecords
  <2>2. OffsetMoves(f, t, s, x, kind, os, ss, (x + o.delta) % Limit)
    BY <1>2, <1>4, OffsetEntriesMove
  <2>3. /\ entry'.from_section = f /\ entry'.to_section = t /\ entry'.from_offset = s
        /\ entry'.to_offset = (x + o.delta) % Limit /\ entry'.kind = kind
    BY <1>1, <1>8, <1>9, <2>1 DEF TypeInv, EntryRecords
  <2> QED BY <1>1, <1>4, <2>1, <2>2, <2>3 DEF EntriesAhead, OffsetMoves
<1>11. Counted(pc', left', << >>, o.kinds, Tail(os), ss)
  BY <1>1, <1>3, <1>4, <1>5 DEF Counted, TypeInv
<1>12. result' \o EntriesAhead(pc', entry', to, << >>, o.kinds, Tail(os), ss)
         = result \o EntriesAhead(pc, entry, to, ds, ks, os, ss)
  BY <1>1, <1>10
<1>13. << >> \in Seq(Nat) /\ ReadNumber /\ (number.is = "kind" => Number < Kinds)
  BY <1>8 DEF ReadNumber
<1> HIDE DEF o
<1>14. At(list, 0, to, << >>, o.kinds, Tail(os), ss)'
  BY <1>2, <1>5, <1>7, <1>8, <1>11, <1>12, <1>13, Arrives
<1> QED BY <1>14 DEF o

(* Where the loops resume. *)
Resumed(l, e, to, ds, ks, os, ss) ==
    /\ Counted(Resume(l), l, ds, ks, os, ss)
    /\ Ahead(Resume(l), to, ds, ks, os, ss) = NumbersOf(ds, ks, os, ss)
    /\ EntriesAhead(Resume(l), e, to, ds, ks, os, ss) =
         EntriesOf(e.from_section, e.to_section, e.from_offset, e.to_offset, e.kind, ds, ks, os, ss)

LEMMA ResumeCounted ==
    ASSUME NEW l, NEW e, NEW to, NEW ds, NEW ks, NEW os, NEW ss, l.deltas = Len(ds),
           l.from_offsets = Len(ks), l.to_offsets = Len(os), l.sections = Len(ss)
    PROVE  Resumed(l, e, to, ds, ks, os, ss)
<1>1. Resume(l) \in {"delta", "kind", "to_delta", "from_section", "done"}
  BY DEF Resume
<1> QED BY <1>1 DEF Counted, Ahead, EntriesAhead, Resumed

LEMMA SectionsArrives ==
    ASSUME NumberInv, TypeInv, NEW k \in Nat, Reading(k), NEW list,
           NEW to, NEW ds, NEW ks, NEW os, NEW ss, At(list, k, to, ds, ks, os, ss), ReadSections
    PROVE  At(list, 0, to, ds, ks, os, ss)'
<1>1. /\ pc = "sections" /\ pc' = Resume(left') /\ UNCHANGED result
      /\ left' = [left EXCEPT !["sections"] = Number]
      /\ UNCHANGED entry
  BY DEF ReadSections, Reads, Count
<1>2. /\ to \in Nat /\ ds \in Seq(Nat) /\ ks \in Seq(KindRecords)
      /\ os \in Seq(OffsetRecords) /\ ss \in Seq(SectionRecords)
  BY DEF At, Place
<1>3. left.deltas = Len(ds) /\ left.from_offsets = Len(ks) /\ left.to_offsets = Len(os)
  BY <1>1 DEF At, Place, Counted
<1>4. PICK number, rest : number = Num("sections", Len(ss)) /\ rest = NumbersOf(ds, ks, os, ss)
  OBVIOUS
<1>5. Ahead(pc, to, ds, ks, os, ss) = <<number>> \o rest
  BY <1>1, <1>4 DEF Ahead
<1>6. number \in NumberRecords /\ rest \in Seq(NumberRecords) /\ number.n = Len(ss) /\ number.is # "kind"
  <2>1. Len(ss) \in Nat /\ "sections" \in Numbers
    BY <1>2 DEF Numbers
  <2> QED BY <1>2, <1>4, <2>1, NumType, NumbersOfType DEF Num
<1>7. ReadNumber /\ (number.is = "kind" => Number < Kinds)
  BY <1>6 DEF ReadNumber
<1>8. Number = Len(ss)
  BY <1>5, <1>6, <1>7, Arrived DEF At
<1>9. /\ left'.deltas = Len(ds) /\ left'.from_offsets = Len(ks)
      /\ left'.to_offsets = Len(os) /\ left'.sections = Len(ss)
  BY <1>1, <1>3, <1>8 DEF TypeInv
<1>10. /\ Counted(pc', left', ds, ks, os, ss) /\ Ahead(pc', to, ds, ks, os, ss) = rest
       /\ EntriesAhead(pc', entry', to, ds, ks, os, ss) =
            EntriesOf(entry'.from_section, entry'.to_section, entry'.from_offset, entry'.to_offset,
                      entry'.kind, ds, ks, os, ss)
  <2>1. Resumed(left', entry', to, ds, ks, os, ss)
    BY <1>9, ResumeCounted
  <2> QED BY <1>1, <1>4, <2>1 DEF Resumed
<1>11. EntriesAhead(pc', entry', to, ds, ks, os, ss) = EntriesAhead(pc, entry, to, ds, ks, os, ss)
  BY <1>1, <1>10 DEF EntriesAhead, TypeInv, EntryRecords
<1>12. result' \o EntriesAhead(pc', entry', to, ds, ks, os, ss)
         = result \o EntriesAhead(pc, entry, to, ds, ks, os, ss)
  BY <1>1, <1>11
<1> QED BY <1>2, <1>5, <1>6, <1>7, <1>10, <1>12, Arrives

LEMMA ToOffsetsArrives ==
    ASSUME NumberInv, TypeInv, NEW k \in Nat, Reading(k), NEW list,
           NEW to, NEW ds, NEW ks, NEW os, NEW ss, At(list, k, to, ds, ks, os, ss), ReadToOffsets
    PROVE  At(list, 0, to, ds, ks, os, ss)'
<1>1. /\ pc = "to_offsets" /\ pc' = Resume(left') /\ UNCHANGED result
      /\ left' = [left EXCEPT !["to_offsets"] = Number]
      /\ entry' = [entry EXCEPT !.to_offset = 0]
  BY DEF ReadToOffsets, Reads, Count, Restarts
<1>2. /\ to \in Nat /\ ds \in Seq(Nat) /\ ks \in Seq(KindRecords)
      /\ os \in Seq(OffsetRecords) /\ ss \in Seq(SectionRecords)
  BY DEF At, Place
<1>3. left.deltas = Len(ds) /\ left.from_offsets = Len(ks) /\ left.sections = Len(ss)
  BY <1>1 DEF At, Place, Counted
<1>4. PICK number, rest : number = Num("to_offsets", Len(os)) /\ rest = NumbersOf(ds, ks, os, ss)
  OBVIOUS
<1>5. Ahead(pc, to, ds, ks, os, ss) = <<number>> \o rest
  BY <1>1, <1>4 DEF Ahead
<1>6. number \in NumberRecords /\ rest \in Seq(NumberRecords) /\ number.n = Len(os) /\ number.is # "kind"
  <2>1. Len(os) \in Nat /\ "to_offsets" \in Numbers
    BY <1>2 DEF Numbers
  <2> QED BY <1>2, <1>4, <2>1, NumType, NumbersOfType DEF Num
<1>7. ReadNumber /\ (number.is = "kind" => Number < Kinds)
  BY <1>6 DEF ReadNumber
<1>8. Number = Len(os)
  BY <1>5, <1>6, <1>7, Arrived DEF At
<1>9. /\ left'.deltas = Len(ds) /\ left'.from_offsets = Len(ks)
      /\ left'.to_offsets = Len(os) /\ left'.sections = Len(ss)
  BY <1>1, <1>3, <1>8 DEF TypeInv
<1>10. /\ Counted(pc', left', ds, ks, os, ss) /\ Ahead(pc', to, ds, ks, os, ss) = rest
       /\ EntriesAhead(pc', entry', to, ds, ks, os, ss) =
            EntriesOf(entry'.from_section, entry'.to_section, entry'.from_offset, entry'.to_offset,
                      entry'.kind, ds, ks, os, ss)
  <2>1. Resumed(left', entry', to, ds, ks, os, ss)
    BY <1>9, ResumeCounted
  <2> QED BY <1>1, <1>4, <2>1 DEF Resumed
<1>11. EntriesAhead(pc', entry', to, ds, ks, os, ss) = EntriesAhead(pc, entry, to, ds, ks, os, ss)
  BY <1>1, <1>10 DEF EntriesAhead, TypeInv, EntryRecords
<1>12. result' \o EntriesAhead(pc', entry', to, ds, ks, os, ss)
         = result \o EntriesAhead(pc, entry, to, ds, ks, os, ss)
  BY <1>1, <1>11
<1> QED BY <1>2, <1>5, <1>6, <1>7, <1>10, <1>12, Arrives

LEMMA FromOffsetsArrives ==
    ASSUME NumberInv, TypeInv, NEW k \in Nat, Reading(k), NEW list,
           NEW to, NEW ds, NEW ks, NEW os, NEW ss, At(list, k, to, ds, ks, os, ss), ReadFromOffsets
    PROVE  At(list, 0, to, ds, ks, os, ss)'
<1>1. /\ pc = "from_offsets" /\ pc' = Resume(left') /\ UNCHANGED result
      /\ left' = [left EXCEPT !["from_offsets"] = Number]
      /\ UNCHANGED entry
  BY DEF ReadFromOffsets, Reads, Count
<1>2. /\ to \in Nat /\ ds \in Seq(Nat) /\ ks \in Seq(KindRecords)
      /\ os \in Seq(OffsetRecords) /\ ss \in Seq(SectionRecords)
  BY DEF At, Place
<1>3. left.deltas = Len(ds) /\ left.to_offsets = Len(os) /\ left.sections = Len(ss)
  BY <1>1 DEF At, Place, Counted
<1>4. PICK number, rest : number = Num("from_offsets", Len(ks)) /\ rest = NumbersOf(ds, ks, os, ss)
  OBVIOUS
<1>5. Ahead(pc, to, ds, ks, os, ss) = <<number>> \o rest
  BY <1>1, <1>4 DEF Ahead
<1>6. number \in NumberRecords /\ rest \in Seq(NumberRecords) /\ number.n = Len(ks) /\ number.is # "kind"
  <2>1. Len(ks) \in Nat /\ "from_offsets" \in Numbers
    BY <1>2 DEF Numbers
  <2> QED BY <1>2, <1>4, <2>1, NumType, NumbersOfType DEF Num
<1>7. ReadNumber /\ (number.is = "kind" => Number < Kinds)
  BY <1>6 DEF ReadNumber
<1>8. Number = Len(ks)
  BY <1>5, <1>6, <1>7, Arrived DEF At
<1>9. /\ left'.deltas = Len(ds) /\ left'.from_offsets = Len(ks)
      /\ left'.to_offsets = Len(os) /\ left'.sections = Len(ss)
  BY <1>1, <1>3, <1>8 DEF TypeInv
<1>10. /\ Counted(pc', left', ds, ks, os, ss) /\ Ahead(pc', to, ds, ks, os, ss) = rest
       /\ EntriesAhead(pc', entry', to, ds, ks, os, ss) =
            EntriesOf(entry'.from_section, entry'.to_section, entry'.from_offset, entry'.to_offset,
                      entry'.kind, ds, ks, os, ss)
  <2>1. Resumed(left', entry', to, ds, ks, os, ss)
    BY <1>9, ResumeCounted
  <2> QED BY <1>1, <1>4, <2>1 DEF Resumed
<1>11. EntriesAhead(pc', entry', to, ds, ks, os, ss) = EntriesAhead(pc, entry, to, ds, ks, os, ss)
  BY <1>1, <1>10 DEF EntriesAhead, TypeInv, EntryRecords
<1>12. result' \o EntriesAhead(pc', entry', to, ds, ks, os, ss)
         = result \o EntriesAhead(pc, entry, to, ds, ks, os, ss)
  BY <1>1, <1>11
<1> QED BY <1>2, <1>5, <1>6, <1>7, <1>10, <1>12, Arrives

LEMMA DeltasArrives ==
    ASSUME NumberInv, TypeInv, NEW k \in Nat, Reading(k), NEW list,
           NEW to, NEW ds, NEW ks, NEW os, NEW ss, At(list, k, to, ds, ks, os, ss), ReadDeltas
    PROVE  At(list, 0, to, ds, ks, os, ss)'
<1>1. /\ pc = "deltas" /\ pc' = Resume(left') /\ UNCHANGED result
      /\ left' = [left EXCEPT !["deltas"] = Number]
      /\ entry' = [entry EXCEPT !.from_offset = 0]
  BY DEF ReadDeltas, Reads, Count, Restarts
<1>2. /\ to \in Nat /\ ds \in Seq(Nat) /\ ks \in Seq(KindRecords)
      /\ os \in Seq(OffsetRecords) /\ ss \in Seq(SectionRecords)
  BY DEF At, Place
<1>3. left.from_offsets = Len(ks) /\ left.to_offsets = Len(os) /\ left.sections = Len(ss)
  BY <1>1 DEF At, Place, Counted
<1>4. PICK number, rest : number = Num("deltas", Len(ds)) /\ rest = NumbersOf(ds, ks, os, ss)
  OBVIOUS
<1>5. Ahead(pc, to, ds, ks, os, ss) = <<number>> \o rest
  BY <1>1, <1>4 DEF Ahead
<1>6. number \in NumberRecords /\ rest \in Seq(NumberRecords) /\ number.n = Len(ds) /\ number.is # "kind"
  <2>1. Len(ds) \in Nat /\ "deltas" \in Numbers
    BY <1>2 DEF Numbers
  <2> QED BY <1>2, <1>4, <2>1, NumType, NumbersOfType DEF Num
<1>7. ReadNumber /\ (number.is = "kind" => Number < Kinds)
  BY <1>6 DEF ReadNumber
<1>8. Number = Len(ds)
  BY <1>5, <1>6, <1>7, Arrived DEF At
<1>9. /\ left'.deltas = Len(ds) /\ left'.from_offsets = Len(ks)
      /\ left'.to_offsets = Len(os) /\ left'.sections = Len(ss)
  BY <1>1, <1>3, <1>8 DEF TypeInv
<1>10. /\ Counted(pc', left', ds, ks, os, ss) /\ Ahead(pc', to, ds, ks, os, ss) = rest
       /\ EntriesAhead(pc', entry', to, ds, ks, os, ss) =
            EntriesOf(entry'.from_section, entry'.to_section, entry'.from_offset, entry'.to_offset,
                      entry'.kind, ds, ks, os, ss)
  <2>1. Resumed(left', entry', to, ds, ks, os, ss)
    BY <1>9, ResumeCounted
  <2> QED BY <1>1, <1>4, <2>1 DEF Resumed
<1>11. EntriesAhead(pc', entry', to, ds, ks, os, ss) = EntriesAhead(pc, entry, to, ds, ks, os, ss)
  BY <1>1, <1>10 DEF EntriesAhead, TypeInv, EntryRecords
<1>12. result' \o EntriesAhead(pc', entry', to, ds, ks, os, ss)
         = result \o EntriesAhead(pc, entry, to, ds, ks, os, ss)
  BY <1>1, <1>11
<1> QED BY <1>2, <1>5, <1>6, <1>7, <1>10, <1>12, Arrives

LEMMA ToSectionArrives ==
    ASSUME NumberInv, TypeInv, NEW k \in Nat, Reading(k), NEW list,
           NEW to, NEW ds, NEW ks, NEW os, NEW ss, At(list, k, to, ds, ks, os, ss), ReadToSection
    PROVE  At(list, 0, to, ds, ks, os, ss)'
<1>1. /\ pc = "to_section" /\ pc' = "to_offsets" /\ UNCHANGED <<left, result>>
      /\ entry' = [entry EXCEPT !.to_section = Number]
  BY DEF ReadToSection, Reads
<1>2. /\ to \in Nat /\ ds \in Seq(Nat) /\ ks \in Seq(KindRecords)
      /\ os \in Seq(OffsetRecords) /\ ss \in Seq(SectionRecords)
  BY DEF At, Place
<1>3. Counted("to_section", left, ds, ks, os, ss)
  BY <1>1 DEF At, Place
<1>4. PICK number, next, all, rest :
         /\ number = Num("to_section", to) /\ next = Num("to_offsets", Len(os))
         /\ all = NumbersOf(ds, ks, os, ss) /\ rest = <<next>> \o all
  OBVIOUS
<1>5. /\ number \in NumberRecords /\ next \in NumberRecords /\ all \in Seq(NumberRecords)
      /\ number.n = to /\ number.is # "kind"
  <2>1. Len(os) \in Nat /\ "to_section" \in Numbers /\ "to_offsets" \in Numbers
    BY <1>2 DEF Numbers
  <2> QED BY <1>2, <1>4, <2>1, NumType, NumbersOfType DEF Num
<1>6. Ahead(pc, to, ds, ks, os, ss) = <<number>> \o rest /\ rest \in Seq(NumberRecords)
  <2>1. /\ <<number>> \in Seq(NumberRecords) /\ <<next>> \in Seq(NumberRecords)
        /\ <<number, next>> = <<number>> \o <<next>>
    BY <1>5, PairOf
  <2>2. Associate(<<number>>, <<next>>, all)
    BY <1>5, <2>1, Concat
  <2>3. Ahead(pc, to, ds, ks, os, ss) = <<number, next>> \o all
    BY <1>1, <1>4 DEF Ahead
  <2> QED BY <1>4, <1>5, <2>1, <2>2, <2>3, ConcatType DEF Associate
<1>7. ReadNumber /\ (number.is = "kind" => Number < Kinds)
  BY <1>5 DEF ReadNumber
<1>8. Number = to
  BY <1>6, <1>5, <1>7, Arrived DEF At
<1>9. Counted(pc', left', ds, ks, os, ss) /\ Ahead(pc', to, ds, ks, os, ss) = rest
  BY <1>1, <1>3, <1>4 DEF Counted, Ahead
<1>10. EntriesAhead(pc', entry', to, ds, ks, os, ss) = EntriesAhead(pc, entry, to, ds, ks, os, ss)
  BY <1>1, <1>8 DEF EntriesAhead, TypeInv, EntryRecords
<1>11. result' \o EntriesAhead(pc', entry', to, ds, ks, os, ss)
         = result \o EntriesAhead(pc, entry, to, ds, ks, os, ss)
  BY <1>1, <1>10
<1> QED BY <1>2, <1>6, <1>5, <1>7, <1>9, <1>11, Arrives

LEMMA FromSectionArrives ==
    ASSUME NumberInv, TypeInv, NEW k \in Nat, Reading(k), NEW list,
           NEW to, NEW ds, NEW ks, NEW os, NEW ss, At(list, k, to, ds, ks, os, ss), ReadFromSection
    PROVE  At(list, 0, Head(ss).to, << >>, << >>, Head(ss).offsets, Tail(ss))'
<1> DEFINE sec == Head(ss)
<1>1. /\ pc = "from_section" /\ pc' = "to_section" /\ UNCHANGED result
      /\ left' = [left EXCEPT !["sections"] = @ - 1]
      /\ entry' = [entry EXCEPT !.from_section = Number]
  BY DEF ReadFromSection, Reads, Round
<1>2. /\ to \in Nat /\ ds \in Seq(Nat) /\ ks \in Seq(KindRecords)
      /\ os \in Seq(OffsetRecords) /\ ss \in Seq(SectionRecords)
  BY DEF At, Place
<1>3. /\ left.deltas = Len(ds) /\ left.from_offsets = Len(ks) /\ left.to_offsets = Len(os)
      /\ left.sections = Len(ss) /\ "from_section" = Resume(left)
  BY <1>1 DEF At, Place, Counted
<1>4. ds = << >> /\ ks = << >> /\ os = << >> /\ ss # << >>
  BY <1>2, <1>3 DEF Resume
<1>5. /\ sec.from \in Nat /\ sec.to \in Nat /\ sec.offsets \in Seq(OffsetRecords)
      /\ Tail(ss) \in Seq(SectionRecords) /\ Len(Tail(ss)) = Len(ss) - 1
  <2>1. sec \in SectionRecords /\ Tail(ss) \in Seq(SectionRecords) /\ Len(Tail(ss)) = Len(ss) - 1
    BY <1>2, <1>4, TailRests
  <2> QED BY <2>1 DEF SectionRecords
<1>6. PICK number, rest :
          /\ number = Num("from_section", sec.from)
          /\ rest = <<Num("to_section", sec.to), Num("to_offsets", Len(sec.offsets))>>
                    \o NumbersOf(<< >>, << >>, sec.offsets, Tail(ss))
  OBVIOUS
<1>7. /\ Ahead(pc, to, ds, ks, os, ss) = <<number>> \o rest
      /\ Ahead(pc', sec.to, << >>, << >>, sec.offsets, Tail(ss)) = rest
  BY <1>1, <1>2, <1>4, <1>6, SectionMove DEF Ahead
<1>8. number \in NumberRecords /\ rest \in Seq(NumberRecords) /\ number.n = sec.from /\ number.is # "kind"
  <2>1. NumbersOf(<< >>, << >>, sec.offsets, Tail(ss)) \in Seq(NumberRecords)
    BY <1>2, <1>4, <1>5, NumbersOfType
  <2>2. /\ Len(sec.offsets) \in Nat /\ "from_section" \in Numbers
        /\ "to_section" \in Numbers /\ "to_offsets" \in Numbers
    BY <1>5 DEF Numbers
  <2>3. /\ number \in NumberRecords
        /\ <<Num("to_section", sec.to), Num("to_offsets", Len(sec.offsets))>> \in Seq(NumberRecords)
    BY <1>5, <1>6, <2>2, NumType
  <2> QED BY <1>6, <2>1, <2>3, ConcatType DEF Num
<1>9. ReadNumber /\ (number.is = "kind" => Number < Kinds)
  BY <1>8 DEF ReadNumber
<1>10. Number = number.n
  BY <1>7, <1>8, <1>9, Arrived DEF At
<1>11. EntriesAhead(pc', entry', sec.to, << >>, << >>, sec.offsets, Tail(ss))
         = EntriesAhead(pc, entry, to, ds, ks, os, ss)
  <2>1. PICK f \in Nat, t \in Nat, s \in Nat, x \in Nat, kind \in Nat :
           /\ f = entry.from_section /\ t = entry.to_section /\ s = entry.from_offset
           /\ x = entry.to_offset /\ kind = entry.kind
    BY DEF TypeInv, EntryRecords
  <2>2. SectionMoves(f, t, s, x, kind, ss)
    BY <1>2, <1>4, SectionEntriesMove
  <2>3. /\ entry'.from_section = sec.from /\ entry'.to_section = t /\ entry'.from_offset = s
        /\ entry'.to_offset = x /\ entry'.kind = kind
    BY <1>1, <1>8, <1>10, <2>1 DEF TypeInv, EntryRecords
  <2> QED BY <1>1, <1>4, <2>1, <2>2, <2>3 DEF EntriesAhead, SectionMoves
<1>12. Counted(pc', left', << >>, << >>, sec.offsets, Tail(ss))
  BY <1>1, <1>3, <1>4, <1>5 DEF Counted, TypeInv
<1>13. result' \o EntriesAhead(pc', entry', sec.to, << >>, << >>, sec.offsets, Tail(ss))
         = result \o EntriesAhead(pc, entry, to, ds, ks, os, ss)
  BY <1>1, <1>11
<1>14. << >> \in Seq(Nat) /\ << >> \in Seq(KindRecords)
  OBVIOUS
<1> HIDE DEF sec
<1>15. At(list, 0, sec.to, << >>, << >>, sec.offsets, Tail(ss))'
  BY <1>5, <1>7, <1>8, <1>9, <1>12, <1>13, <1>14, Arrives
<1> QED BY <1>15 DEF sec

LEMMA KindArrives ==
    ASSUME NumberInv, TypeInv, NEW k \in Nat, Reading(k), NEW list,
           NEW to, NEW ds, NEW ks, NEW os, NEW ss, At(list, k, to, ds, ks, os, ss), ReadKind
    PROVE  At(list, 0, to, Head(ks).deltas, Tail(ks), os, ss)'
<1> DEFINE kd == Head(ks)
<1>1. /\ pc = "kind" /\ pc' = "deltas" /\ UNCHANGED result /\ Number < Kinds
      /\ left' = [left EXCEPT !["from_offsets"] = @ - 1]
      /\ entry' = [entry EXCEPT !.kind = Number]
  BY DEF ReadKind, Reads, Round
<1>2. /\ to \in Nat /\ ds \in Seq(Nat) /\ ks \in Seq(KindRecords)
      /\ os \in Seq(OffsetRecords) /\ ss \in Seq(SectionRecords)
  BY DEF At, Place
<1>3. /\ left.deltas = Len(ds) /\ left.from_offsets = Len(ks) /\ left.to_offsets = Len(os)
      /\ left.sections = Len(ss) /\ "kind" = Resume(left)
  BY <1>1 DEF At, Place, Counted
<1>4. ds = << >> /\ ks # << >>
  BY <1>2, <1>3 DEF Resume
<1>5. kd.kind \in Nat /\ kd.deltas \in Seq(Nat) /\ Tail(ks) \in Seq(KindRecords) /\ Len(Tail(ks)) = Len(ks) - 1
  <2>1. kd \in KindRecords /\ Tail(ks) \in Seq(KindRecords) /\ Len(Tail(ks)) = Len(ks) - 1
    BY <1>2, <1>4, TailRests
  <2> QED BY <2>1 DEF KindRecords
<1>6. PICK number, rest :
          /\ number = Num("kind", kd.kind)
          /\ rest = <<Num("deltas", Len(kd.deltas))>> \o NumbersOf(kd.deltas, Tail(ks), os, ss)
  OBVIOUS
<1>7. /\ Ahead(pc, to, ds, ks, os, ss) = <<number>> \o rest
      /\ Ahead(pc', to, kd.deltas, Tail(ks), os, ss) = rest
  BY <1>1, <1>2, <1>4, <1>6, KindMove DEF Ahead
<1>8. number \in NumberRecords /\ rest \in Seq(NumberRecords) /\ number.n = kd.kind
  <2>1. NumbersOf(kd.deltas, Tail(ks), os, ss) \in Seq(NumberRecords)
    BY <1>2, <1>5, NumbersOfType
  <2>2. Len(kd.deltas) \in Nat /\ "kind" \in Numbers /\ "deltas" \in Numbers
    BY <1>5 DEF Numbers
  <2>3. number \in NumberRecords /\ <<Num("deltas", Len(kd.deltas))>> \in Seq(NumberRecords)
    BY <1>5, <1>6, <2>2, NumType
  <2> QED BY <1>6, <2>1, <2>3, ConcatType DEF Num
<1>9. ReadNumber /\ (number.is = "kind" => Number < Kinds)
  BY <1>1 DEF ReadNumber
<1>10. Number = number.n
  BY <1>7, <1>8, <1>9, Arrived DEF At
<1>11. EntriesAhead(pc', entry', to, kd.deltas, Tail(ks), os, ss) = EntriesAhead(pc, entry, to, ds, ks, os, ss)
  <2>1. PICK f \in Nat, t \in Nat, s \in Nat, x \in Nat, kind \in Nat :
           /\ f = entry.from_section /\ t = entry.to_section /\ s = entry.from_offset
           /\ x = entry.to_offset /\ kind = entry.kind
    BY DEF TypeInv, EntryRecords
  <2>2. KindMoves(f, t, s, x, kind, ks, os, ss)
    BY <1>2, <1>4, KindEntriesMove
  <2>3. /\ entry'.from_section = f /\ entry'.to_section = t /\ entry'.from_offset = s
        /\ entry'.to_offset = x /\ entry'.kind = kd.kind
    BY <1>1, <1>8, <1>10, <2>1 DEF TypeInv, EntryRecords
  <2> QED BY <1>1, <1>4, <2>1, <2>2, <2>3 DEF EntriesAhead, KindMoves
<1>12. Counted(pc', left', kd.deltas, Tail(ks), os, ss)
  BY <1>1, <1>3, <1>5 DEF Counted, TypeInv
<1>13. result' \o EntriesAhead(pc', entry', to, kd.deltas, Tail(ks), os, ss)
         = result \o EntriesAhead(pc, entry, to, ds, ks, os, ss)
  BY <1>1, <1>11
<1> HIDE DEF kd
<1>14. At(list, 0, to, kd.deltas, Tail(ks), os, ss)'
  BY <1>2, <1>5, <1>7, <1>8, <1>9, <1>12, <1>13, Arrives
<1> QED BY <1>14 DEF kd

LEMMA DeltaArrives ==
    ASSUME NumberInv, TypeInv, NEW k \in Nat, Reading(k), NEW list,
           NEW to, NEW ds, NEW ks, NEW os, NEW ss, At(list, k, to, ds, ks, os, ss), ReadDelta
    PROVE  At(list, 0, to, Tail(ds), ks, os, ss)'
<1>1. /\ pc = "delta" /\ pc' = Resume(left') /\ result' = Append(result, entry')
      /\ left' = [left EXCEPT !["deltas"] = @ - 1]
      /\ entry' = [entry EXCEPT !.from_offset = (@ + Number) % Limit]
  BY DEF ReadDelta, Reads, Round
<1>2. /\ to \in Nat /\ ds \in Seq(Nat) /\ ks \in Seq(KindRecords)
      /\ os \in Seq(OffsetRecords) /\ ss \in Seq(SectionRecords)
  BY DEF At, Place
<1>3. /\ left.deltas = Len(ds) /\ left.from_offsets = Len(ks) /\ left.to_offsets = Len(os)
      /\ left.sections = Len(ss) /\ "delta" = Resume(left)
  BY <1>1 DEF At, Place, Counted
<1>4. ds # << >>
  BY <1>2, <1>3 DEF Resume
<1>5. Head(ds) \in Nat /\ Tail(ds) \in Seq(Nat) /\ Len(Tail(ds)) = Len(ds) - 1
  BY <1>2, <1>4, TailRests
<1>6. PICK number, rest : number = Num("delta", Head(ds)) /\ rest = NumbersOf(Tail(ds), ks, os, ss)
  OBVIOUS
<1>7. Ahead(pc, to, ds, ks, os, ss) = <<number>> \o rest
  BY <1>1, <1>2, <1>4, <1>6, DeltaMove DEF Ahead
<1>8. number \in NumberRecords /\ rest \in Seq(NumberRecords) /\ number.n = Head(ds) /\ number.is # "kind"
  <2>1. "delta" \in Numbers
    BY DEF Numbers
  <2> QED BY <1>2, <1>5, <1>6, <2>1, NumType, NumbersOfType DEF Num
<1>9. ReadNumber /\ (number.is = "kind" => Number < Kinds)
  BY <1>8 DEF ReadNumber
<1>10. Number = Head(ds)
  BY <1>7, <1>8, <1>9, Arrived DEF At
<1>11. /\ left'.deltas = Len(Tail(ds)) /\ left'.from_offsets = Len(ks)
       /\ left'.to_offsets = Len(os) /\ left'.sections = Len(ss)
  BY <1>1, <1>3, <1>5 DEF TypeInv
<1>12. /\ Counted(pc', left', Tail(ds), ks, os, ss) /\ Ahead(pc', to, Tail(ds), ks, os, ss) = rest
       /\ EntriesAhead(pc', entry', to, Tail(ds), ks, os, ss) =
            EntriesOf(entry'.from_section, entry'.to_section, entry'.from_offset, entry'.to_offset,
                      entry'.kind, Tail(ds), ks, os, ss)
  <2>1. Resumed(left', entry', to, Tail(ds), ks, os, ss)
    BY <1>11, ResumeCounted
  <2> QED BY <1>1, <1>6, <2>1 DEF Resumed
<1>13. result' \o EntriesAhead(pc', entry', to, Tail(ds), ks, os, ss)
         = result \o EntriesAhead(pc, entry, to, ds, ks, os, ss)
  <2>1. PICK f \in Nat, t \in Nat, s \in Nat, x \in Nat, kind \in Nat :
           /\ f = entry.from_section /\ t = entry.to_section /\ s = entry.from_offset
           /\ x = entry.to_offset /\ kind = entry.kind
    BY DEF TypeInv, EntryRecords
  <2>2. DeltaMoves(f, t, s, x, kind, ds, ks, os, ss, (s + Head(ds)) % Limit)
    BY <1>2, <1>4, DeltaEntriesMove
  <2>3. PICK n \in Nat : n = (s + Head(ds)) % Limit
    BY <2>2 DEF DeltaMoves
  <2>4. /\ entry'.from_section = f /\ entry'.to_section = t /\ entry'.from_offset = n
        /\ entry'.to_offset = x /\ entry'.kind = kind
    BY <1>1, <1>10, <2>1, <2>3 DEF TypeInv, EntryRecords
  <2>5. entry' = Entry(f, t, n, x, kind)
    BY <1>1, <1>10, <2>1, <2>3 DEF TypeInv, EntryRecords, Entry
  <2>6. PICK later : later = EntriesOf(f, t, n, x, kind, Tail(ds), ks, os, ss)
    OBVIOUS
  <2>7. EntriesAhead(pc', entry', to, Tail(ds), ks, os, ss) = later
    BY <1>12, <2>4, <2>6
  <2>8. EntriesAhead(pc, entry, to, ds, ks, os, ss) = <<entry'>> \o later
    BY <1>1, <2>1, <2>2, <2>3, <2>5, <2>6 DEF EntriesAhead, DeltaMoves
  <2>9. later \in Seq(EntryRecords)
    BY <1>2, <1>5, <2>6, EntriesOfType
  <2>10. entry' \in EntryRecords
    BY <2>5, EntryType
  <2>11. <<entry'>> \in Seq(EntryRecords) /\ result \in Seq(EntryRecords)
         /\ result' = result \o <<entry'>>
    <3>1. PICK e \in EntryRecords : e = entry'
      BY <2>10
    <3>2. result \in Seq(EntryRecords)
      BY DEF TypeInv
    <3>3. <<e>> \in Seq(EntryRecords) /\ Append(result, e) = result \o <<e>>
      BY <3>2, AppendOf
    <3> QED BY <1>1, <3>1, <3>2, <3>3
  <2>12. Associate(result, <<entry'>>, later)
    BY <2>9, <2>11, Concat
  <2> QED BY <2>7, <2>8, <2>11, <2>12 DEF Associate
<1> QED BY <1>2, <1>5, <1>7, <1>8, <1>9, <1>12, <1>13, Arrives

-----------------------------------------------------------------------------
(* All steps together. *)
LEMMA InitTypeInv == Init => TypeInv
BY DEF Init, TypeInv, EntryRecords, Entry

LEMMA NextTypeInv == ASSUME NumberInv, TypeInv, [Next]_vars PROVE TypeInv'
<1>1. CASE Refuse
  BY <1>1, RefuseFacts DEF TypeInv
<1>2. CASE ReadNumber
  <2>1. Number \in Nat
    <3>1. PICK k \in Nat : Reading(k)
      BY <1>2, ReadNumberFacts DEF NumberInv
    <3> QED BY <1>2, <3>1, ReadNumberFacts, NumberFacts DEF NumberInv
  <2>2. \A x \in Nat : (x + Number) % Limit \in Nat
    BY <2>1, Constants
  <2>3. PICK n \in Nat : n = Number
    BY <2>1
  <2> USE DEF Reads, TypeInv
  <2>4. CASE ReadSections
    BY <2>3, <2>4 DEF ReadSections, Count
  <2>5. CASE ReadFromSection
    <3>1. left' \in [sections : Int, to_offsets : Int, from_offsets : Int, deltas : Int]
      BY <2>5 DEF ReadFromSection, Round
    <3>2. entry' \in EntryRecords /\ result' = result
      BY <2>3, <2>5 DEF ReadFromSection, EntryRecords
    <3> QED BY <3>1, <3>2
  <2>6. CASE ReadToSection
    BY <2>3, <2>6 DEF ReadToSection, EntryRecords
  <2>7. CASE ReadToOffsets
    BY <2>3, <2>7 DEF ReadToOffsets, Count, Restarts, EntryRecords
  <2>8. CASE ReadToDelta
    <3>1. PICK m \in Nat : m = (entry.to_offset + Number) % Limit
      BY <2>2 DEF EntryRecords
    <3>2. left' \in [sections : Int, to_offsets : Int, from_offsets : Int, deltas : Int]
      BY <2>8 DEF ReadToDelta, Round
    <3>3. entry' \in EntryRecords /\ result' = result
      BY <2>8, <3>1 DEF ReadToDelta, EntryRecords
    <3> QED BY <3>2, <3>3
  <2>9. CASE ReadFromOffsets
    BY <2>3, <2>9 DEF ReadFromOffsets, Count
  <2>10. CASE ReadKind
    <3>1. left' \in [sections : Int, to_offsets : Int, from_offsets : Int, deltas : Int]
      BY <2>10 DEF ReadKind, Round
    <3>2. entry' \in EntryRecords /\ result' = result
      BY <2>3, <2>10 DEF ReadKind, EntryRecords
    <3> QED BY <3>1, <3>2
  <2>11. CASE ReadDeltas
    BY <2>3, <2>11 DEF ReadDeltas, Count, Restarts, EntryRecords
  <2>12. CASE ReadDelta
    <3>1. PICK m \in Nat : m = (entry.from_offset + Number) % Limit
      BY <2>2 DEF EntryRecords
    <3>2. PICK x \in EntryRecords : x = entry'
      BY <2>12, <3>1 DEF ReadDelta, EntryRecords
    <3>3. result \in Seq(EntryRecords) /\ result' = Append(result, x)
      BY <2>12, <3>2 DEF ReadDelta
    <3>4. result' \in Seq(EntryRecords)
      BY <3>3
    <3> QED BY <2>12, <3>2, <3>4 DEF ReadDelta, Round
  <2> QED BY <1>2, <2>4, <2>5, <2>6, <2>7, <2>8, <2>9, <2>10, <2>11, <2>12 DEF ReadNumber
<1>3. CASE Open \/ ReadVersion \/ ReadMore \/ UNCHANGED vars
  BY <1>3 DEF Open, ReadVersion, ReadMore, vars, TypeInv
<1> QED BY <1>1, <1>2, <1>3 DEF Next, Refuse, ReadNumber, Ended

(* While a number is read, it is the first of those ahead. *)
Begun(ns) == \E number \in NumberRecords, rest \in Seq(NumberRecords) :
                 ns = <<number>> \o rest /\ number.is = pc

LEMMA BegunOf ==
    ASSUME pc \in Numbers, NEW n \in Nat, NEW rest \in Seq(NumberRecords)
    PROVE  Begun(<<Num(pc, n)>> \o rest)
<1>1. Num(pc, n) \in NumberRecords /\ Num(pc, n).is = pc
  BY NumType DEF Num
<1> QED BY <1>1 DEF Begun

LEMMA AheadFacts ==
    ASSUME pc \in Numbers, NEW list, NEW to, NEW ds, NEW ks, NEW os, NEW ss, Place(list, to, ds, ks, os, ss)
    PROVE  Begun(Ahead(pc, to, ds, ks, os, ss))
<1>1. /\ to \in Nat /\ ds \in Seq(Nat) /\ ks \in Seq(KindRecords)
      /\ os \in Seq(OffsetRecords) /\ ss \in Seq(SectionRecords) /\ Counted(pc, left, ds, ks, os, ss)
  BY DEF Place
<1>2. /\ Len(ds) \in Nat /\ Len(ks) \in Nat /\ Len(os) \in Nat /\ Len(ss) \in Nat
      /\ NumbersOf(ds, ks, os, ss) \in Seq(NumberRecords)
  BY <1>1, NumbersOfType
<1>3. CASE pc = "sections"
  BY <1>2, <1>3, BegunOf DEF Ahead
<1>4. CASE pc = "to_offsets"
  BY <1>2, <1>4, BegunOf DEF Ahead
<1>5. CASE pc = "from_offsets"
  BY <1>2, <1>5, BegunOf DEF Ahead
<1>6. CASE pc = "deltas"
  BY <1>2, <1>6, BegunOf DEF Ahead
<1>7. CASE pc = "to_section"
  <2>1. PICK a, b : a = Num("to_section", to) /\ b = Num("to_offsets", Len(os))
    OBVIOUS
  <2>2. a \in NumberRecords /\ b \in NumberRecords
    BY <1>1, <1>2, <2>1, NumType DEF Numbers
  <2>3. <<a>> \in Seq(NumberRecords) /\ <<b>> \in Seq(NumberRecords) /\ <<a, b>> = <<a>> \o <<b>>
    BY <2>2, PairOf
  <2>4. Associate(<<a>>, <<b>>, NumbersOf(ds, ks, os, ss))
    BY <1>2, <2>3, Concat
  <2>5. <<b>> \o NumbersOf(ds, ks, os, ss) \in Seq(NumberRecords)
    BY <1>2, <2>3, ConcatType
  <2>6. Ahead(pc, to, ds, ks, os, ss) = <<a, b>> \o NumbersOf(ds, ks, os, ss)
    BY <1>7, <2>1 DEF Ahead
  <2>7. Begun(<<a>> \o (<<b>> \o NumbersOf(ds, ks, os, ss)))
    BY <1>1, <1>7, <2>1, <2>5, BegunOf
  <2> QED BY <2>3, <2>4, <2>6, <2>7 DEF Associate
<1>8. CASE pc = "delta"
  <2>1. ds # << >>
    BY <1>1, <1>8 DEF Counted, Resume
  <2>2. Tail(ds) \in Seq(Nat) /\ Head(ds) \in Nat
    BY <1>1, <2>1, TailRests
  <2>3. NumbersOf(ds, ks, os, ss) = <<Num("delta", Head(ds))>> \o NumbersOf(Tail(ds), ks, os, ss)
    BY <1>1, <2>1, DeltaMove
  <2>4. NumbersOf(Tail(ds), ks, os, ss) \in Seq(NumberRecords)
    BY <1>1, <2>2, NumbersOfType
  <2> QED BY <1>8, <2>2, <2>3, <2>4, BegunOf DEF Ahead
<1>9. CASE pc = "kind"
  <2>1. ds = << >> /\ ks # << >>
    <3>1. /\ left.deltas = Len(ds) /\ left.from_offsets = Len(ks) /\ left.to_offsets = Len(os)
          /\ left.sections = Len(ss) /\ "kind" = Resume(left)
      BY <1>1, <1>9 DEF Counted
    <3> QED BY <1>1, <3>1 DEF Resume
  <2>2. PICK k \in KindRecords : k = Head(ks)
    BY <1>1, <2>1, TailRests
  <2>3. PICK rest : rest = <<Num("deltas", Len(k.deltas))>> \o NumbersOf(k.deltas, Tail(ks), os, ss)
    OBVIOUS
  <2>4. NumbersOf(ds, ks, os, ss) = <<Num("kind", k.kind)>> \o rest
    BY <1>1, <2>1, <2>2, <2>3, KindMove
  <2>5. k.kind \in Nat /\ k.deltas \in Seq(Nat) /\ Tail(ks) \in Seq(KindRecords)
    BY <1>1, <2>1, TailRests DEF KindRecords
  <2>6. rest \in Seq(NumberRecords)
    <3>1. NumbersOf(k.deltas, Tail(ks), os, ss) \in Seq(NumberRecords)
      BY <1>1, <2>5, NumbersOfType
    <3>2. Len(k.deltas) \in Nat /\ "deltas" \in Numbers
      BY <2>5 DEF Numbers
    <3>3. <<Num("deltas", Len(k.deltas))>> \in Seq(NumberRecords)
      BY <3>2, NumType
    <3> QED BY <2>3, <3>1, <3>3, ConcatType
  <2> QED BY <1>9, <2>4, <2>5, <2>6, BegunOf DEF Ahead
<1>10. CASE pc = "to_delta"
  <2>1. ds = << >> /\ ks = << >> /\ os # << >>
    <3>1. /\ left.deltas = Len(ds) /\ left.from_offsets = Len(ks) /\ left.to_offsets = Len(os)
          /\ left.sections = Len(ss) /\ "to_delta" = Resume(left)
      BY <1>1, <1>10 DEF Counted
    <3> QED BY <1>1, <3>1 DEF Resume
  <2>2. PICK o \in OffsetRecords : o = Head(os)
    BY <1>1, <2>1, TailRests
  <2>3. PICK rest : rest = <<Num("from_offsets", Len(o.kinds))>> \o NumbersOf(<< >>, o.kinds, Tail(os), ss)
    OBVIOUS
  <2>4. NumbersOf(ds, ks, os, ss) = <<Num("to_delta", o.delta)>> \o rest
    BY <1>1, <2>1, <2>2, <2>3, OffsetMove
  <2>5. o.delta \in Nat /\ o.kinds \in Seq(KindRecords) /\ Tail(os) \in Seq(OffsetRecords)
    BY <1>1, <2>1, TailRests DEF OffsetRecords
  <2>6. rest \in Seq(NumberRecords)
    <3>1. NumbersOf(<< >>, o.kinds, Tail(os), ss) \in Seq(NumberRecords)
      BY <1>1, <2>1, <2>5, NumbersOfType
    <3>2. Len(o.kinds) \in Nat /\ "from_offsets" \in Numbers
      BY <2>5 DEF Numbers
    <3>3. <<Num("from_offsets", Len(o.kinds))>> \in Seq(NumberRecords)
      BY <3>2, NumType
    <3> QED BY <2>3, <3>1, <3>3, ConcatType
  <2> QED BY <1>10, <2>4, <2>5, <2>6, BegunOf DEF Ahead
<1>11. CASE pc = "from_section"
  <2>1. ds = << >> /\ ks = << >> /\ os = << >> /\ ss # << >>
    <3>1. /\ left.deltas = Len(ds) /\ left.from_offsets = Len(ks) /\ left.to_offsets = Len(os)
          /\ left.sections = Len(ss) /\ "from_section" = Resume(left)
      BY <1>1, <1>11 DEF Counted
    <3> QED BY <1>1, <3>1 DEF Resume
  <2>2. PICK s \in SectionRecords : s = Head(ss)
    BY <1>1, <2>1, TailRests
  <2>3. PICK rest : rest = <<Num("to_section", s.to), Num("to_offsets", Len(s.offsets))>>
                           \o NumbersOf(<< >>, << >>, s.offsets, Tail(ss))
    OBVIOUS
  <2>4. NumbersOf(ds, ks, os, ss) = <<Num("from_section", s.from)>> \o rest
    BY <1>1, <2>1, <2>2, <2>3, SectionMove
  <2>5. s.from \in Nat /\ s.to \in Nat /\ s.offsets \in Seq(OffsetRecords) /\ Tail(ss) \in Seq(SectionRecords)
    BY <1>1, <2>1, TailRests DEF SectionRecords
  <2>6. rest \in Seq(NumberRecords)
    <3>1. NumbersOf(<< >>, << >>, s.offsets, Tail(ss)) \in Seq(NumberRecords)
      BY <1>1, <2>1, <2>5, NumbersOfType
    <3>2. Len(s.offsets) \in Nat /\ "to_section" \in Numbers /\ "to_offsets" \in Numbers
      BY <2>5 DEF Numbers
    <3>3. Num("to_section", s.to) \in NumberRecords /\ Num("to_offsets", Len(s.offsets)) \in NumberRecords
      BY <2>5, <3>2, NumType
    <3>4. <<Num("to_section", s.to), Num("to_offsets", Len(s.offsets))>> \in Seq(NumberRecords)
      BY <3>3
    <3> QED BY <2>3, <3>1, <3>4, ConcatType
  <2> QED BY <1>11, <2>4, <2>5, <2>6, BegunOf DEF Ahead
<1> QED BY <1>3, <1>4, <1>5, <1>6, <1>7, <1>8, <1>9, <1>10, <1>11 DEF Numbers

Tracked(list, k) == \E to, ds, ks, os, ss : At(list, k, to, ds, ks, os, ss)

ListInv ==
    /\ pc \in {"open", "version"} =>
         /\ left = [sections |-> 0, to_offsets |-> 0, from_offsets |-> 0, deltas |-> 0]
         /\ result = << >>
    /\ pc = "version" => cursor = job.dataoff
    /\ pc \in Numbers \cup {"version", "done"} => job.commands = 1
    /\ pc \in Numbers => \E k \in Nat : Reading(k) /\ \A list \in job.encodes : Tracked(list, k)
    /\ pc = "done" => \A list \in job.encodes : Tracked(list, 0)

LEMMA EncodingFacts ==
    ASSUME NEW list \in Seq(SectionRecords), NEW pad \in Nat
    PROVE  /\ ListNumbers(list) \in Seq(NumberRecords) /\ ListNumbers(list) # << >>
           /\ ListNumbers(list) = <<Num("sections", Len(list))>> \o NumbersOf(<< >>, << >>, << >>, list)
           /\ Encoding(list, pad) = <<Version>> \o BytesOf(ListNumbers(list), pad)
           /\ BytesOf(ListNumbers(list), pad) \in Seq(Nat) /\ Len(BytesOf(ListNumbers(list), pad)) \in Nat
           /\ <<Version>> \in Seq(Nat) /\ Len(<<Version>>) = 1
           /\ Len(Encoding(list, pad)) = 1 + Len(BytesOf(ListNumbers(list), pad))
           /\ 1 \in DOMAIN Encoding(list, pad) /\ Encoding(list, pad)[1] = Version
<1>1. SectionNumbers(list) \in Seq(NumberRecords) /\ Num("sections", Len(list)) \in NumberRecords
  <2>1. Len(list) \in Nat /\ "sections" \in Numbers
    BY DEF Numbers
  <2> QED BY <2>1, SectionNumbersType, NumType
<1>2. ListNumbers(list) \in Seq(NumberRecords) /\ ListNumbers(list) # << >>
  BY <1>1, HeadOf DEF ListNumbers
<1>3. NumbersOf(<< >>, << >>, << >>, list) = SectionNumbers(list)
  <2>1. << >> \o SectionNumbers(list) = SectionNumbers(list)
    BY <1>1, ConcatNone
  <2> QED BY <2>1, NoneOf DEF NumbersOf
<1>4. PICK b : b = BytesOf(ListNumbers(list), pad)
  OBVIOUS
<1>5. b \in Seq(Nat)
  BY <1>2, <1>4, BytesOfType
<1>6. PICK v \in Nat : v = Version
  BY Constants
<1>7. Encoding(list, pad) = <<v>> \o b
  BY <1>4, <1>6 DEF Encoding, BytesOf
<1>8. /\ <<v>> \in Seq(Nat) /\ Len(<<v>>) = 1 /\ Len(<<v>> \o b) = 1 + Len(b) /\ Len(b) \in Nat
      /\ 1 \in DOMAIN (<<v>> \o b) /\ (<<v>> \o b)[1] = v
  BY <1>5
<1> QED BY <1>2, <1>3, <1>4, <1>5, <1>6, <1>7, <1>8 DEF ListNumbers

LEMMA JobFacts ==
    ASSUME job \in Jobs, NEW list \in job.encodes
    PROVE  /\ list \in Seq(SectionRecords) /\ Begins(Encoding(list, job.pad), job.data, job.dataoff)
           /\ job.pad \in Nat /\ job.dataoff \in Nat /\ job.data \in Seq(Nat)
BY ParserAssumption, DataFacts

(* The whole list is ahead when its version is read. *)
LEMMA VersionArrives ==
    ASSUME NumberInv, TypeInv, ListInv, ReadVersion, NEW list \in job.encodes
    PROVE  At(list, 0, 0, << >>, << >>, << >>, list)'
<1>1. /\ pc = "version" /\ pc' = "sections" /\ HasByte /\ UNCHANGED <<job, bit, acc, left, entry, result>>
      /\ cursor' = cursor + 1 /\ cursor = job.dataoff /\ acc = 0 /\ result = << >> /\ job \in Jobs
      /\ left.deltas = 0 /\ left.from_offsets = 0 /\ left.to_offsets = 0
  BY DEF ReadVersion, ListInv, NumberInv
<1>2. /\ list \in Seq(SectionRecords) /\ Begins(Encoding(list, job.pad), job.data, job.dataoff)
      /\ job.pad \in Nat /\ job.dataoff \in Nat /\ job.data \in Seq(Nat)
  BY <1>1, JobFacts
<1>3. Ahead("sections", 0, << >>, << >>, << >>, list) = ListNumbers(list)
  BY <1>2, EncodingFacts DEF Ahead
<1>4. result' \o EntriesAhead("sections", entry', 0, << >>, << >>, << >>, list) = Entries(list)
  <2>1. Entries(list) \in Seq(EntryRecords)
    BY <1>2, EntriesType
  <2>2. << >> \o Entries(list) = Entries(list)
    BY <2>1, ConcatNone
  <2>3. EntriesAhead("sections", entry', 0, << >>, << >>, << >>, list) = Entries(list)
    BY <2>2, NoneOf DEF EntriesAhead, EntriesOf
  <2> QED BY <1>1, <2>2, <2>3
<1>5. Counted("sections", left', << >>, << >>, << >>, list)
  <2>1. Len(<< >>) = 0
    OBVIOUS
  <2> QED BY <1>1, <2>1 DEF Counted
<1>6. Bytes(list, 0, ListNumbers(list))'
  <2>1. PICK b : b = BytesOf(ListNumbers(list), job.pad)
    OBVIOUS
  <2>2. /\ Encoding(list, job.pad) = <<Version>> \o b /\ b \in Seq(Nat) /\ Len(b) \in Nat
        /\ <<Version>> \in Seq(Nat) /\ Len(<<Version>>) = 1
        /\ Len(Encoding(list, job.pad)) = 1 + Len(b)
        /\ ListNumbers(list) \in Seq(NumberRecords) /\ ListNumbers(list) # << >>
    BY <1>2, <2>1, EncodingFacts
  <2>3. Begins(b, job.data, job.dataoff + Len(<<Version>>))
    BY <1>2, <2>2, BeginsTail
  <2>4. /\ cursor' - 0 = job.dataoff + Len(<<Version>>)
        /\ cursor' - 0 + Len(b) = job.dataoff + Len(Encoding(list, job.pad))
    <3>1. PICK x \in Nat, y \in Nat : x = job.dataoff /\ y = Len(b)
      BY <1>2, <2>2
    <3>2. cursor' - 0 = x + 1 /\ (x + 1) + y = x + (1 + y)
      BY <1>1, <3>1
    <3> QED BY <2>2, <3>1, <3>2
  <2>5. 0 < Size(Head(ListNumbers(list)).n) + job.pad /\ 0 = Head(ListNumbers(list)).n % Pow2[Group * 0]
    BY <1>2, <2>2, NotBegun
  <2> QED BY <1>1, <2>1, <2>3, <2>4, <2>5 DEF Bytes
<1>7. << >> \in Seq(Nat) /\ << >> \in Seq(KindRecords) /\ << >> \in Seq(OffsetRecords) /\ 0 \in Nat
  OBVIOUS
<1>8. /\ AllReadable(ListNumbers(list))' <=> AllReadable(ListNumbers(list))'
      /\ (result \o EntriesAhead(pc, entry, 0, << >>, << >>, << >>, list))' = Entries(list)
      /\ Counted(pc, left, << >>, << >>, << >>, list)'
      /\ Ahead(pc, 0, << >>, << >>, << >>, list)' = ListNumbers(list)
  BY <1>1, <1>3, <1>4, <1>5
<1> QED BY <1>2, <1>6, <1>7, <1>8 DEF At, Place

(* The number read, and what follows. *)
LEMMA TrackedNumber ==
    ASSUME pc \in Numbers, NEW list, NEW k, Tracked(list, k)
    PROVE  \E number \in NumberRecords, rest \in Seq(NumberRecords) :
             /\ Bytes(list, k, <<number>> \o rest) /\ number.is = pc
             /\ AllReadable(<<number>> \o rest) <=> AllReadable(ListNumbers(list))
<1>1. PICK to, ds, ks, os, ss : At(list, k, to, ds, ks, os, ss)
  BY DEF Tracked
<1>2. PICK number \in NumberRecords, rest \in Seq(NumberRecords) :
         Ahead(pc, to, ds, ks, os, ss) = <<number>> \o rest /\ number.is = pc
  <2>1. Place(list, to, ds, ks, os, ss)
    BY <1>1 DEF At
  <2>2. Begun(Ahead(pc, to, ds, ks, os, ss))
    BY <2>1, AheadFacts
  <2> QED BY <2>2 DEF Begun
<1> QED BY <1>1, <1>2 DEF At, Place

LEMMA MoreTracked ==
    ASSUME NumberInv, TypeInv, NEW k \in Nat, Reading(k), NEW list, Tracked(list, k), ReadMore
    PROVE  Tracked(list, k + 1)'
<1>1. pc \in Numbers /\ pc' = pc /\ UNCHANGED <<job, left, entry, result>>
  BY DEF ReadMore
<1>2. PICK to, ds, ks, os, ss : At(list, k, to, ds, ks, os, ss)
  BY DEF Tracked
<1>3. PICK number \in NumberRecords, rest \in Seq(NumberRecords) :
         Ahead(pc, to, ds, ks, os, ss) = <<number>> \o rest
  <2>1. Place(list, to, ds, ks, os, ss)
    BY <1>2 DEF At
  <2>2. Begun(Ahead(pc, to, ds, ks, os, ss))
    BY <1>1, <2>1, AheadFacts
  <2> QED BY <2>2 DEF Begun
<1>4. Bytes(list, k + 1, <<number>> \o rest)'
  BY <1>1, <1>2, <1>3, ContinuedNumber DEF At
<1>5. Place(list, to, ds, ks, os, ss)'
  BY <1>1, <1>2 DEF At, Place, AllReadable, Readable
<1>6. Ahead(pc, to, ds, ks, os, ss)' = <<number>> \o rest
  BY <1>1, <1>3
<1>7. At(list, k + 1, to, ds, ks, os, ss)'
  BY <1>4, <1>5, <1>6 DEF At
<1> QED BY <1>7 DEF Tracked

LEMMA ReadTracked ==
    ASSUME NumberInv, TypeInv, NEW k \in Nat, Reading(k), NEW list, Tracked(list, k), ReadNumber
    PROVE  Tracked(list, 0)'
<1>1. PICK to, ds, ks, os, ss : At(list, k, to, ds, ks, os, ss)
  BY DEF Tracked
<1>2. CASE ReadSections
  <2>1. At(list, 0, to, ds, ks, os, ss)'
    BY <1>1, <1>2, SectionsArrives
  <2> QED BY <2>1 DEF Tracked
<1>3. CASE ReadFromSection
  <2>1. At(list, 0, Head(ss).to, << >>, << >>, Head(ss).offsets, Tail(ss))'
    BY <1>1, <1>3, FromSectionArrives
  <2> QED BY <2>1 DEF Tracked
<1>4. CASE ReadToSection
  <2>1. At(list, 0, to, ds, ks, os, ss)'
    BY <1>1, <1>4, ToSectionArrives
  <2> QED BY <2>1 DEF Tracked
<1>5. CASE ReadToOffsets
  <2>1. At(list, 0, to, ds, ks, os, ss)'
    BY <1>1, <1>5, ToOffsetsArrives
  <2> QED BY <2>1 DEF Tracked
<1>6. CASE ReadToDelta
  <2>1. At(list, 0, to, << >>, Head(os).kinds, Tail(os), ss)'
    BY <1>1, <1>6, ToDeltaArrives
  <2> QED BY <2>1 DEF Tracked
<1>7. CASE ReadFromOffsets
  <2>1. At(list, 0, to, ds, ks, os, ss)'
    BY <1>1, <1>7, FromOffsetsArrives
  <2> QED BY <2>1 DEF Tracked
<1>8. CASE ReadKind
  <2>1. At(list, 0, to, Head(ks).deltas, Tail(ks), os, ss)'
    BY <1>1, <1>8, KindArrives
  <2> QED BY <2>1 DEF Tracked
<1>9. CASE ReadDeltas
  <2>1. At(list, 0, to, ds, ks, os, ss)'
    BY <1>1, <1>9, DeltasArrives
  <2> QED BY <2>1 DEF Tracked
<1>10. CASE ReadDelta
  <2>1. At(list, 0, to, Tail(ds), ks, os, ss)'
    BY <1>1, <1>10, DeltaArrives
  <2> QED BY <2>1 DEF Tracked
<1> QED BY <1>2, <1>3, <1>4, <1>5, <1>6, <1>7, <1>8, <1>9, <1>10 DEF ReadNumber

LEMMA InitListInv == Init => ListInv
BY DEF Init, ListInv, Numbers

LEMMA NextListInv == ASSUME NumberInv, TypeInv, ListInv, [Next]_vars PROVE ListInv'
<1>1. CASE Refuse
  BY <1>1, RefuseFacts DEF ListInv, Numbers
<1>2. CASE ReadNumber
  <2>1. /\ pc \in Numbers /\ job' = job /\ acc' = 0 /\ bit' = 0 /\ cursor' = cursor + 1
        /\ pc' \in Numbers \cup {"done"} /\ job \in Jobs /\ cursor' \in Nat
    BY <1>2, ReadNumberFacts DEF NumberInv
  <2>2. PICK k \in Nat : Reading(k) /\ \A list \in job.encodes : Tracked(list, k)
    BY <2>1 DEF ListInv
  <2>3. ASSUME NEW list \in job.encodes PROVE Tracked(list, 0)'
    BY <1>2, <2>2, ReadTracked
  <2>4. Reading(0)'
    BY <2>1, NothingOfNumber
  <2>5. job'.commands = 1 /\ pc' \notin {"open", "version"}
    BY <2>1 DEF ListInv, Numbers
  <2> QED BY <2>1, <2>3, <2>4, <2>5 DEF ListInv
<1>3. CASE Open
  BY <1>3 DEF Open, ListInv, Numbers
<1>4. CASE ReadVersion
  <2>1. /\ pc = "version" /\ pc' = "sections" /\ job' = job /\ acc' = 0 /\ bit' = 0
        /\ cursor' \in Nat /\ job \in Jobs /\ job.commands = 1
    BY <1>4 DEF ReadVersion, NumberInv, ListInv
  <2>2. Reading(0)'
    BY <2>1, NothingOfNumber
  <2>3. ASSUME NEW list \in job.encodes PROVE Tracked(list, 0)'
    <3>1. At(list, 0, 0, << >>, << >>, << >>, list)'
      BY <1>4, VersionArrives
    <3> QED BY <3>1 DEF Tracked
  <2> QED BY <2>1, <2>2, <2>3 DEF ListInv, Numbers
<1>5. CASE ReadMore
  <2>1. /\ pc \in Numbers /\ HasByte /\ Fits /\ UNCHANGED <<job, pc>>
        /\ acc' = Number /\ bit' = bit + Group /\ cursor' = cursor + 1
    BY <1>5 DEF ReadMore
  <2>2. PICK k \in Nat : Reading(k) /\ \A list \in job.encodes : Tracked(list, k)
    BY <2>1 DEF ListInv
  <2>3. ASSUME NEW list \in job.encodes PROVE Tracked(list, k + 1)'
    BY <1>5, <2>2, MoreTracked
  <2>4. Reading(k + 1)' /\ k + 1 \in Nat
    BY <2>1, <2>2, NextGroup
  <2> QED BY <2>1, <2>3, <2>4 DEF ListInv, Numbers
<1>6. CASE UNCHANGED vars
  <2>1. UNCHANGED <<job, pc, cursor, bit, acc, left, entry, result>>
    BY <1>6 DEF vars
  <2>2. ASSUME NEW list, NEW k, Tracked(list, k) PROVE Tracked(list, k)'
    <3>1. PICK to, ds, ks, os, ss : At(list, k, to, ds, ks, os, ss)
      BY <2>2 DEF Tracked
    <3>2. At(list, k, to, ds, ks, os, ss)'
      BY <2>1, <3>1 DEF At, Place, Bytes, AllReadable, Readable
    <3> QED BY <3>2 DEF Tracked
  <2>3. ASSUME NEW k, Reading(k) PROVE Reading(k)'
    BY <2>1, <2>3 DEF Reading
  <2> QED BY <2>1, <2>2, <2>3 DEF ListInv
<1> QED BY <1>1, <1>2, <1>3, <1>4, <1>5, <1>6 DEF Next, Refuse, ReadNumber, Ended

(* A list that is refused is not well formed. *)
LEMMA NumberNotReadable ==
    ASSUME NEW list, NEW number \in NumberRecords, NEW rest \in Seq(NumberRecords),
           AllReadable(<<number>> \o rest) <=> AllReadable(ListNumbers(list)), ~Readable(number)
    PROVE  ~WellFormed(list)
<1>1. 1 \in DOMAIN (<<number>> \o rest) /\ (<<number>> \o rest)[1] = number
  OBVIOUS
<1>2. ~AllReadable(<<number>> \o rest)
  BY <1>1 DEF AllReadable
<1> QED BY <1>2 DEF AllReadable, WellFormed

LEMMA RefusedList ==
    ASSUME NumberInv, TypeInv, ListInv, Refuse, NEW list \in job.encodes
    PROVE  ~WellFormed(list)
<1>1. job \in Jobs /\ cursor \in Nat
  BY DEF NumberInv
<1>2. /\ list \in Seq(SectionRecords) /\ Begins(Encoding(list, job.pad), job.data, job.dataoff)
      /\ job.pad \in Nat /\ job.dataoff \in Nat /\ Len(job.data) \in Nat
  BY <1>1, JobFacts, DataFacts
<1>3. PICK b \in Nat : Len(Encoding(list, job.pad)) = 1 + b
  BY <1>2, EncodingFacts
<1>4. CASE NoCommand \/ CannotOpen
  <2>1. job.commands # 1 \/ job.dataoff > Len(job.data)
    BY <1>4 DEF NoCommand, CannotOpen
  <2>2. job.dataoff > Len(job.data) => ~(job.dataoff + Len(Encoding(list, job.pad)) <= Len(job.data))
    <3>1. PICK x \in Nat, y \in Nat : x = job.dataoff /\ y = Len(job.data)
      BY <1>2
    <3>2. x > y => ~(x + (1 + b) <= y)
      OBVIOUS
    <3> QED BY <1>3, <3>1, <3>2
  <2> QED BY <2>1, <2>2 DEF WellFormed
<1>5. CASE pc = "version"
  <2>1. cursor = job.dataoff
    BY <1>5 DEF ListInv
  <2>2. HasByte => Byte = Version
    <3>1. 1 \in DOMAIN Encoding(list, job.pad) /\ Encoding(list, job.pad)[1] = Version
      BY <1>2, EncodingFacts
    <3> QED BY <1>2, <2>1, <3>1 DEF Begins, HasByte, Byte
  <2>3. ~HasByte
    BY <1>5, <2>2 DEF Refuse, NoCommand, CannotOpen, WrongVersion, EndOfFile, TooLong, UnknownKind, Numbers
  <2>4. ~(job.dataoff + Len(Encoding(list, job.pad)) <= Len(job.data))
    <3>1. PICK x \in Nat, y \in Nat : x = job.dataoff /\ y = Len(job.data)
      BY <1>2
    <3>2. ~(x + 1 <= y)
      BY <2>1, <2>3, <3>1 DEF HasByte
    <3>3. ~(x + (1 + b) <= y)
      BY <3>2
    <3> QED BY <1>3, <3>1, <3>3
  <2> QED BY <2>4 DEF WellFormed
<1>6. CASE pc \in Numbers
  <2>1. PICK k \in Nat : Reading(k) /\ Tracked(list, k)
    BY <1>6 DEF ListInv
  <2>2. PICK number \in NumberRecords, rest \in Seq(NumberRecords) :
             /\ Bytes(list, k, <<number>> \o rest) /\ number.is = pc
             /\ AllReadable(<<number>> \o rest) <=> AllReadable(ListNumbers(list))
    BY <1>6, <2>1, TrackedNumber
  <2>3. CASE EndOfFile
    <3>1. ~HasByte
      BY <2>3 DEF EndOfFile
    <3>2. ~(job.dataoff + Len(Encoding(list, job.pad)) <= Len(job.data))
      BY <1>6, <2>1, <2>2, <3>1, CutOff
    <3> QED BY <3>2 DEF WellFormed
  <2>4. CASE TooLong
    <3>1. HasByte /\ ~Fits
      BY <2>4 DEF TooLong
    <3>2. ~Readable(number)
      BY <2>1, <2>2, <3>1, RefusedNumber
    <3> QED BY <2>2, <3>2, NumberNotReadable
  <2>5. CASE UnknownKind
    <3>1. HasByte /\ Fits /\ ~More /\ Number >= Kinds /\ pc = "kind"
      BY <2>5 DEF UnknownKind
    <3>2. k + 1 = Size(number.n) + job.pad
      <4>1. k + 1 \in 1 .. Size(number.n) + job.pad /\ Size(number.n) + job.pad \in Nat
        BY <2>1, <2>2, ByteAhead
      <4>2. ~(k + 1 < Size(number.n) + job.pad)
        BY <2>1, <2>2, <3>1, NumberAhead
      <4> QED BY <4>1, <4>2
    <3>3. acc + Slice * Pow2[bit] = number.n
      BY <2>1, <2>2, <3>1, <3>2, NumberAhead
    <3>4. Number = number.n
      BY <1>1, <2>1, <3>1, <3>3, NumberFacts DEF Number
    <3>5. Kinds \in Nat /\ number.n \in Nat
      BY ParserAssumption, Constants DEF NumberRecords
    <3>6. ~Readable(number)
      BY <2>2, <3>1, <3>4, <3>5 DEF Readable
    <3> QED BY <2>2, <3>6, NumberNotReadable
  <2> QED BY <1>6, <2>3, <2>4, <2>5 DEF Refuse, NoCommand, CannotOpen, WrongVersion, Numbers
<1> QED BY <1>4, <1>5, <1>6 DEF Refuse, WrongVersion, EndOfFile, TooLong, UnknownKind, Numbers

LEMMA NextRefusals ==
    ASSUME NumberInv, TypeInv, ListInv, RefusalsJustified, [Next]_vars
    PROVE  RefusalsJustified'
<1>1. CASE Refuse
  <2>1. job' = job
    BY <1>1, RefuseFacts
  <2>2. ASSUME NEW list \in job.encodes PROVE ~WellFormed(list)'
    <3>1. ~WellFormed(list)
      BY <1>1, RefusedList
    <3> QED BY <2>1, <3>1 DEF WellFormed, Readable
  <2> QED BY <2>1, <2>2 DEF RefusalsJustified
<1>2. CASE ReadNumber
  BY <1>2, ReadNumberFacts DEF RefusalsJustified, Numbers
<1>3. CASE Open \/ ReadVersion \/ ReadMore
  BY <1>3 DEF Open, ReadVersion, ReadMore, RefusalsJustified, Numbers
<1>4. CASE UNCHANGED vars
  BY <1>4 DEF vars, RefusalsJustified, WellFormed, Readable
<1> QED BY <1>1, <1>2, <1>3, <1>4 DEF Next, Refuse, ReadNumber, Ended

(* Nothing is left of a list when the last loop has ended. *)
LEMMA DoneParsed == ASSUME NumberInv, TypeInv, ListInv PROVE ListsParsed
<1> SUFFICES ASSUME pc = "done", NEW list \in job.encodes
             PROVE  /\ WellFormed(list) /\ result = Entries(list)
                    /\ cursor = job.dataoff + Len(Encoding(list, job.pad))
  BY DEF ListsParsed
<1>1. PICK to, ds, ks, os, ss : At(list, 0, to, ds, ks, os, ss)
  BY DEF ListInv, Tracked
<1>2. /\ ds \in Seq(Nat) /\ ks \in Seq(KindRecords) /\ os \in Seq(OffsetRecords) /\ ss \in Seq(SectionRecords)
      /\ Counted("done", left, ds, ks, os, ss)
  BY <1>1 DEF At, Place
<1>3. ds = << >> /\ ks = << >> /\ os = << >> /\ ss = << >>
  <2>1. /\ left.deltas = Len(ds) /\ left.from_offsets = Len(ks) /\ left.to_offsets = Len(os)
        /\ left.sections = Len(ss) /\ "done" = Resume(left)
    BY <1>2 DEF Counted
  <2> QED BY <1>2, <2>1 DEF Resume
<1>4. << >> \o << >> = << >> /\ DOMAIN << >> = {} /\ Len(<< >>) = 0
  OBVIOUS
<1>5. Ahead("done", to, << >>, << >>, << >>, << >>) = << >>
  BY <1>4, NoneOf DEF Ahead, NumbersOf
<1>6. EntriesAhead("done", entry, to, << >>, << >>, << >>, << >>) = << >>
  BY <1>4, NoneOf DEF EntriesAhead, EntriesOf
<1>7. result = Entries(list)
  <2>1. result \o << >> = result
    BY ConcatNone DEF TypeInv
  <2> QED BY <1>1, <1>3, <1>6, <2>1 DEF At, Place
<1>8. AllReadable(ListNumbers(list))
  BY <1>1, <1>3, <1>4, <1>5 DEF At, Place, AllReadable
<1>9. cursor = job.dataoff + Len(Encoding(list, job.pad)) /\ cursor <= Len(job.data)
  <2>1. BytesOf(<< >>, job.pad) = << >>
    BY BytesOfNone
  <2>2. cursor - 0 + 0 = job.dataoff + Len(Encoding(list, job.pad))
    BY <1>1, <1>3, <1>4, <1>5, <2>1 DEF At, Bytes
  <2>3. cursor \in Nat /\ cursor - 0 + 0 = cursor /\ cursor <= Len(job.data)
    BY DEF NumberInv
  <2> QED BY <2>2, <2>3
<1>10. job.commands = 1
  BY DEF ListInv
<1> QED BY <1>7, <1>8, <1>9, <1>10 DEF WellFormed, AllReadable

(* The result is what the nested lists in the file denote, and exactly their *)
(* bytes have been read: for lists of any lengths and depth, numbers of any  *)
(* size and padding, and every group and integer width.                      *)
THEOREM ListsAreParsed == Spec => []ListsParsed
<1> DEFINE IInv == NumberInv /\ TypeInv /\ ListInv
<1>1. Init => IInv
  BY InitNumberInv, InitTypeInv, InitListInv
<1>2. IInv /\ [Next]_vars => IInv'
  BY NextNumberInv, NextTypeInv, NextListInv
<1>3. IInv => ListsParsed
  BY DoneParsed
<1> QED BY <1>1, <1>2, <1>3, PTL DEF Spec

(* A refused file holds no well-formed list: cut off, another version, a     *)
(* number too long or a value that is no kind is what the parser stops at.   *)
THEOREM RefusalsAreJustified == Spec => []RefusalsJustified
<1> DEFINE IInv == NumberInv /\ TypeInv /\ ListInv /\ RefusalsJustified
<1>1. Init => IInv
  <2>1. Init => RefusalsJustified
    BY DEF Init, RefusalsJustified
  <2> QED BY <2>1, InitNumberInv, InitTypeInv, InitListInv
<1>2. IInv /\ [Next]_vars => IInv'
  BY NextNumberInv, NextTypeInv, NextListInv, NextRefusals
<1>3. IInv => RefusalsJustified
  OBVIOUS
<1> QED BY <1>1, <1>2, <1>3, PTL DEF Spec

-----------------------------------------------------------------------------
(* The result is no larger than what has been read of the file, whatever     *)
(* counts the file holds.  While numbers are read, each entry is paid for by *)
(* a byte behind the start of the list.                                      *)
Paid == Len(result) <= cursor - job.dataoff

ResultInv ==
    /\ pc = "open" => result = << >>
    /\ pc \in Numbers \cup {"version"} => Paid
    /\ ResultBounded

LEMMA InitResultInv == Init => ResultInv
BY DEF Init, ResultInv, ResultBounded, Numbers

(* A byte is read, and no entry or one is made. *)
LEMMA ByteRead ==
    ASSUME NumberInv, TypeInv, ResultInv, pc \in Numbers \cup {"version"}, job' = job,
           cursor' = cursor + 1, pc' # "open", Len(result') \in {Len(result), Len(result) + 1}
    PROVE  ResultInv'
<1>1. job.dataoff \in Nat /\ cursor \in Nat /\ Len(result) \in Nat
  BY DataFacts DEF NumberInv, TypeInv
<1>2. Paid
  BY DEF ResultInv
<1>3. Paid'
  BY <1>1, <1>2 DEF Paid
<1> QED BY <1>3 DEF ResultInv, Paid, ResultBounded

LEMMA NextResultInv == ASSUME NumberInv, TypeInv, ResultInv, [Next]_vars PROVE ResultInv'
<1>1. CASE Refuse
  BY <1>1, RefuseFacts DEF Refuse, NoCommand, CannotOpen, WrongVersion, EndOfFile, TooLong, UnknownKind,
     ResultInv, Paid, ResultBounded, Numbers
<1>2. CASE UNCHANGED vars
  BY <1>2 DEF vars, ResultInv, Paid, ResultBounded
<1>3. CASE Open
  <2>1. result' = << >> /\ job' = job /\ cursor' = job.dataoff /\ job.dataoff \in Nat /\ pc' = "version"
    BY <1>3, DataFacts DEF Open, ResultInv, NumberInv
  <2>2. Len(result') = 0
    BY <2>1
  <2>3. Paid'
    BY <2>1, <2>2 DEF Paid
  <2> QED BY <2>1, <2>3 DEF ResultInv, ResultBounded
<1>4. CASE ReadVersion \/ ReadMore
  BY <1>4, ByteRead DEF ReadVersion, ReadMore, Numbers
<1>5. CASE ReadNumber
  <2>1. pc \in Numbers /\ job' = job /\ cursor' = cursor + 1 /\ pc' # "open"
    BY <1>5, ReadNumberFacts DEF Numbers
  <2>2. CASE ReadDelta
    <3>1. result' = Append(result, entry') /\ result \in Seq(EntryRecords)
      BY <2>2 DEF ReadDelta, TypeInv
    <3>2. entry' \in EntryRecords
      BY <1>5, NextTypeInv DEF TypeInv
    <3>3. PICK e \in EntryRecords : e = entry'
      BY <3>2
    <3>4. Len(result') = Len(result) + 1
      BY <3>1, <3>3
    <3> QED BY <2>1, <3>4, ByteRead
  <2>3. CASE result' = result
    BY <2>1, <2>3, ByteRead
  <2> QED BY <1>5, <2>2, <2>3 DEF ReadNumber, ReadSections, ReadFromSection, ReadToSection, ReadToOffsets,
             ReadToDelta, ReadFromOffsets, ReadKind, ReadDeltas
<1> QED BY <1>1, <1>2, <1>3, <1>4, <1>5 DEF Next, Refuse, ReadNumber, Ended

(* Four nested counts of any size, and still no more entries than bytes:     *)
(* no file makes the parser's result larger than itself.                     *)
THEOREM ResultIsBounded == Spec => []ResultBounded
<1> DEFINE IInv == NumberInv /\ TypeInv /\ ResultInv
<1>1. Init => IInv
  BY InitNumberInv, InitTypeInv, InitResultInv
<1>2. IInv /\ [Next]_vars => IInv'
  BY NextNumberInv, NextTypeInv, NextResultInv
<1>3. IInv => ResultBounded
  BY DEF ResultInv
<1> QED BY <1>1, <1>2, <1>3, PTL DEF Spec
=============================================================================
