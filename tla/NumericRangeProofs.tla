------------------------- MODULE NumericRangeProofs -------------------------
(***************************************************************************)
(* numericRangeRegex of cellplacement_compiler.go, for every range: its    *)
(* alternatives match exactly the decimals inside the range.               *)
(*                                                                         *)
(* Numbers compare as their digits do, first digit first, when they have   *)
(* one length (LexicographicOrder), and by their lengths otherwise         *)
(* (LengthOrders).  Each case of sameLengthRangePatterns splits a range by *)
(* the first digit into ranges of shorter sequences; by induction over the *)
(* length the patterns match exactly the sequences in the range            *)
(* (SameLengthExact).  A range over several lengths is one range for each. *)
(***************************************************************************)
EXTENDS Placement, NaturalsRecursion, SequenceTheorems, FiniteSetTheorems

\* All digits but the last, and the last.
LEMMA FrontFacts ==
  ASSUME NEW s \in Seq(Digits), s # <<>>
  PROVE  /\ Len(s) \in Nat \ {0}
         /\ Front(s) \in Seq(Digits) /\ Len(Front(s)) = Len(s) - 1
         /\ \A i \in 1..Len(s) - 1 : Front(s)[i] = s[i]
         /\ Last(s) \in Digits
         /\ s[1] \in Digits
<1>1. Len(s) \in Nat \ {0}
  BY EmptySeq
<1>2. Front(s) = [i \in 1..Len(s) - 1 |-> s[i]]
  BY <1>1 DEF Front
<1>3. \A i \in 1..Len(s) : s[i] \in Digits
  OBVIOUS
<1> QED BY <1>1, <1>2, <1>3 DEF Last

\* The equation that defines NumberOf has a solution: recursion over the length.
LEMMA NumberExists ==
  \E f \in [Seq(Digits) -> Nat] :
    f = [s \in Seq(Digits) |-> IF s = <<>> THEN 0 ELSE 10 * f[Front(s)] + Last(s)]
<1> DEFINE R == [Seq(Digits) -> Nat]
           body(g) == [s \in Seq(Digits) |-> IF s = <<>> THEN 0 ELSE 10 * g[Front(s)] + Last(s)]
           r0 == [s \in Seq(Digits) |-> 0]
           step == [x \in Nat \X R |-> body(x[2])]
<1>1. r0 \in R
  OBVIOUS
<1>2. ASSUME NEW g \in R PROVE body(g) \in R
  <2>1. ASSUME NEW s \in Seq(Digits), s # <<>> PROVE 10 * g[Front(s)] + Last(s) \in Nat
    <3>1. Front(s) \in Seq(Digits) /\ Last(s) \in Digits
      BY <2>1, FrontFacts
    <3>2. g[Front(s)] \in Nat /\ Last(s) \in Nat
      BY <3>1 DEF Digits
    <3> HIDE DEF R
    <3> QED BY <3>2
  <2> QED BY <2>1
<1> HIDE DEF body, r0, R
<1>3. step \in [Nat \X R -> R]
  BY <1>2
<1>4. \A n \in Nat, g \in R : step[<<n, g>>] = body(g)
  OBVIOUS
<1> HIDE DEF step
<1>5. PICK f \in [Nat -> R] : Recursive(f, r0, step)
  BY <1>1, <1>3, Recursion
<1>6. \A n \in Nat : f[n + 1] = body(f[n])
  BY <1>4, <1>5 DEF Recursive
<1> DEFINE F == [s \in Seq(Digits) |-> f[Len(s)][s]]
<1>7. F \in [Seq(Digits) -> Nat]
  BY <1>5 DEF R
<1>8. ASSUME NEW s \in Seq(Digits) PROVE F[s] = IF s = <<>> THEN 0 ELSE 10 * F[Front(s)] + Last(s)
  <2>1. CASE s = <<>>
    <3>1. Len(s) = 0
      BY <2>1
    <3>2. F[s] = r0[s]
      BY <1>5, <3>1 DEF Recursive
    <3> QED BY <2>1, <3>2 DEF r0
  <2>2. CASE s # <<>>
    <3> DEFINE n == Len(s) - 1
    <3>1. n \in Nat /\ Len(s) = n + 1 /\ Front(s) \in Seq(Digits) /\ Len(Front(s)) = n
      BY <2>2, FrontFacts
    <3> HIDE DEF n
    <3>2. F[s] = body(f[n])[s] /\ F[Front(s)] = f[n][Front(s)]
      BY <1>6, <3>1
    <3>3. body(f[n])[s] = 10 * f[n][Front(s)] + Last(s)
      BY <2>2 DEF body
    <3> QED BY <2>2, <3>2, <3>3
  <2> QED BY <2>1, <2>2
<1> QED
  <2> HIDE DEF F
  <2>1. F = [s \in Seq(Digits) |-> IF s = <<>> THEN 0 ELSE 10 * F[Front(s)] + Last(s)]
    BY <1>7, <1>8
  <2> QED BY <1>7, <2>1

\* NumberOf is its recursive definition.
LEMMA NumberDef ==
  NumberOf = [s \in Seq(Digits) |-> IF s = <<>> THEN 0 ELSE 10 * NumberOf[Front(s)] + Last(s)]
<1> DEFINE P(f) == f = [s \in Seq(Digits) |-> IF s = <<>> THEN 0 ELSE 10 * f[Front(s)] + Last(s)]
<1>1. \E f : P(f)
  BY NumberExists
<1>2. NumberOf = CHOOSE f : P(f)
  BY DEF NumberOf
<1> HIDE DEF P
<1>3. P(NumberOf)
  BY <1>1, <1>2
<1> QED BY <1>3 DEF P

\* Induction over sequences of digits, by their length.
DigitSeqs(n) == {s \in Seq(Digits) : Len(s) = n}

\* There is one sequence of no digits.
LEMMA DigitSeqsEmpty == DigitSeqs(0) = {<<>>}
  BY EmptySeq DEF DigitSeqs

\* The parts of n + 1 digits.
LEMMA DigitSeqsParts ==
  ASSUME NEW n \in Nat, NEW s \in DigitSeqs(n + 1)
  PROVE  /\ s \in Seq(Digits) /\ s # <<>> /\ Len(s) = n + 1
         /\ Front(s) \in DigitSeqs(n) /\ Last(s) \in 0..9 /\ Last(s) = s[n + 1]
         /\ s[1] \in 0..9 /\ (n > 0 => Front(s)[1] = s[1])
         /\ \A i \in 1..n : Front(s)[i] = s[i]
<1>1. s \in Seq(Digits) /\ Len(s) = n + 1 /\ s # <<>>
  BY EmptySeq DEF DigitSeqs
<1>2. /\ Front(s) \in Seq(Digits) /\ Len(Front(s)) = n
      /\ \A i \in 1..n : Front(s)[i] = s[i]
      /\ Last(s) \in Digits /\ s[1] \in Digits
  <2>1. Len(s) - 1 = n
    BY <1>1
  <2> QED BY <1>1, <2>1, FrontFacts
<1>3. Last(s) = s[n + 1]
  BY <1>1 DEF Last
<1>4. n > 0 => 1 \in 1..n
  OBVIOUS
<1> QED BY <1>1, <1>2, <1>3, <1>4 DEF DigitSeqs, Digits

\* Sequences of n digits are equal digit by digit.
LEMMA DigitSeqsEqual ==
  ASSUME NEW n \in Nat, NEW s \in DigitSeqs(n), NEW t \in DigitSeqs(n),
         \A i \in 1..n : s[i] = t[i]
  PROVE  s = t
<1>1. s \in Seq(Digits) /\ t \in Seq(Digits) /\ Len(s) = n /\ Len(t) = n
  BY DEF DigitSeqs
<1> QED BY <1>1

\* One step of the definition of a number.
LEMMA NumberEquation ==
  ASSUME NEW s \in Seq(Digits)
  PROVE  Number(s) = IF s = <<>> THEN 0 ELSE 10 * Number(Front(s)) + Last(s)
<1> DEFINE body(t) == IF t = <<>> THEN 0 ELSE 10 * NumberOf[Front(t)] + Last(t)
<1>1. NumberOf = [t \in Seq(Digits) |-> body(t)]
  BY NumberDef
<1> HIDE DEF body
<1>2. NumberOf[s] = body(s)
  BY <1>1
<1> QED BY <1>2 DEF Number, body

\* No digits are zero.
LEMMA NumberEmpty == Number(<<>>) = 0
<1>1. <<>> \in Seq(Digits)
  OBVIOUS
<1> QED BY <1>1, NumberEquation

\* Digits stand for a natural number: induction over the length.
LEMMA NumberType == \A n \in Nat : \A s \in DigitSeqs(n) : Number(s) \in Nat
<1> DEFINE T == {n \in Nat : \A s \in DigitSeqs(n) : Number(s) \in Nat}
<1>1. 0 \in T
  BY DigitSeqsEmpty, NumberEmpty
<1>2. ASSUME NEW n \in Nat, n \in T PROVE n + 1 \in T
  <2>1. SUFFICES ASSUME NEW s \in DigitSeqs(n + 1) PROVE Number(s) \in Nat
    BY <1>2
  <2>2. s \in Seq(Digits) /\ s # <<>> /\ Front(s) \in DigitSeqs(n) /\ Last(s) \in 0..9
    BY DigitSeqsParts
  <2>3. Number(Front(s)) \in Nat
    BY <1>2, <2>2
  <2>4. Number(s) = 10 * Number(Front(s)) + Last(s)
    BY <2>2, NumberEquation
  <2> QED BY <2>2, <2>3, <2>4
<1> HIDE DEF T
<1>3. Nat \subseteq T
  BY <1>1, <1>2, SetInduction
<1> QED BY <1>3 DEF T

\* What a proof by induction uses of a number.
LEMMA NumberStep ==
  ASSUME NEW n \in Nat, NEW s \in DigitSeqs(n + 1)
  PROVE  /\ Front(s) \in DigitSeqs(n) /\ Last(s) \in 0..9
         /\ Number(s) \in Nat /\ Number(Front(s)) \in Nat
         /\ Number(s) = 10 * Number(Front(s)) + Last(s)
<1>1. s \in Seq(Digits) /\ s # <<>> /\ Front(s) \in DigitSeqs(n) /\ Last(s) \in 0..9
  BY DigitSeqsParts
<1>2. Number(s) \in Nat /\ Number(Front(s)) \in Nat
  BY <1>1, NumberType
<1> QED BY <1>1, <1>2, NumberEquation

\* Sequences of one length with one number are one sequence.
LEMMA NumberInjective ==
  \A n \in Nat : \A s, t \in DigitSeqs(n) : Number(s) = Number(t) => s = t
<1> DEFINE T == {n \in Nat : \A s, t \in DigitSeqs(n) : Number(s) = Number(t) => s = t}
<1>1. 0 \in T
  BY DigitSeqsEmpty
<1>2. ASSUME NEW n \in Nat, n \in T PROVE n + 1 \in T
  <2>1. SUFFICES ASSUME NEW s \in DigitSeqs(n + 1), NEW t \in DigitSeqs(n + 1), Number(s) = Number(t)
                 PROVE  s = t
    BY <1>2
  <2>2. Number(Front(s)) = Number(Front(t)) /\ Last(s) = Last(t)
    <3>1. /\ Number(Front(s)) \in Nat /\ Number(Front(t)) \in Nat /\ Last(s) \in 0..9 /\ Last(t) \in 0..9
          /\ 10 * Number(Front(s)) + Last(s) = 10 * Number(Front(t)) + Last(t)
      BY <2>1, NumberStep
    <3> QED BY <3>1
  <2>3. Front(s) = Front(t)
    BY <1>2, <2>2, NumberStep
  <2>4. s \in Seq(Digits) /\ t \in Seq(Digits) /\ Len(s) = n + 1 /\ Len(t) = n + 1
        /\ Last(s) = s[n + 1] /\ Last(t) = t[n + 1]
        /\ \A i \in 1..n : Front(s)[i] = s[i] /\ Front(t)[i] = t[i]
    BY DigitSeqsParts
  <2>5. \A i \in 1..n + 1 : s[i] = t[i]
    <3>1. \A i \in 1..n : s[i] = t[i]
      BY <2>3, <2>4
    <3>2. s[n + 1] = t[n + 1]
      BY <2>2, <2>4
    <3>3. \A i \in 1..n + 1 : i \in 1..n \/ i = n + 1
      OBVIOUS
    <3> QED BY <3>1, <3>2, <3>3
  <2> QED BY <2>4, <2>5
<1> HIDE DEF T
<1>3. Nat \subseteq T
  BY <1>1, <1>2, SetInduction
<1> QED BY <1>3 DEF T

\* Of two sequences of one length the one with the smaller first digit is smaller.
LEMMA FirstDigitOrders ==
  \A n \in Nat : \A s, t \in DigitSeqs(n + 1) : s[1] < t[1] => Number(s) < Number(t)
<1> DEFINE T == {n \in Nat : \A s, t \in DigitSeqs(n + 1) : s[1] < t[1] => Number(s) < Number(t)}
<1>1. 0 \in T
  <2>1. SUFFICES ASSUME NEW s \in DigitSeqs(0 + 1), NEW t \in DigitSeqs(0 + 1), s[1] < t[1]
                 PROVE  Number(s) < Number(t)
    OBVIOUS
  <2>2. 0 \in Nat /\ Front(s) = <<>> /\ Front(t) = <<>> /\ Last(s) = s[1] /\ Last(t) = t[1]
    <3>1. 0 \in Nat /\ 0 + 1 = 1
      OBVIOUS
    <3> QED BY <3>1, DigitSeqsParts, DigitSeqsEmpty
  <2>3. /\ Number(Front(s)) = Number(Front(t))
        /\ Last(s) \in 0..9 /\ Last(t) \in 0..9 /\ Number(Front(s)) \in Nat
        /\ Number(s) = 10 * Number(Front(s)) + Last(s) /\ Number(t) = 10 * Number(Front(t)) + Last(t)
    BY <2>2, NumberStep
  <2>4. Last(s) < Last(t)
    BY <2>1, <2>2
  <2> QED BY <2>3, <2>4
<1>2. ASSUME NEW n \in Nat, n \in T PROVE n + 1 \in T
  <2>1. SUFFICES ASSUME NEW s \in DigitSeqs((n + 1) + 1), NEW t \in DigitSeqs((n + 1) + 1), s[1] < t[1]
                 PROVE  Number(s) < Number(t)
    BY <1>2
  <2>2. n + 1 \in Nat /\ Front(s)[1] = s[1] /\ Front(t)[1] = t[1]
    <3>1. n + 1 \in Nat /\ n + 1 > 0
      OBVIOUS
    <3> QED BY <3>1, DigitSeqsParts
  <2>3. /\ Front(s) \in DigitSeqs(n + 1) /\ Front(t) \in DigitSeqs(n + 1)
        /\ Last(s) \in 0..9 /\ Last(t) \in 0..9
        /\ Number(s) \in Nat /\ Number(t) \in Nat
        /\ Number(Front(s)) \in Nat /\ Number(Front(t)) \in Nat
        /\ Number(s) = 10 * Number(Front(s)) + Last(s) /\ Number(t) = 10 * Number(Front(t)) + Last(t)
    BY <2>2, NumberStep
  <2>4. Number(Front(s)) < Number(Front(t))
    BY <1>2, <2>1, <2>2, <2>3
  <2> QED BY <2>3, <2>4
<1> HIDE DEF T
<1>3. Nat \subseteq T
  BY <1>1, <1>2, SetInduction
<1> QED BY <1>3 DEF T

\* A longer sequence without leading zero is larger.
LEMMA LengthOrders ==
  \A n \in Nat : \A m \in Nat : \A s \in DigitSeqs(n), t \in DigitSeqs(m + 1) :
    n <= m /\ t[1] # 0 => Number(s) < Number(t)
<1> DEFINE T == {m \in Nat : \A n \in Nat : \A s \in DigitSeqs(n), t \in DigitSeqs(m + 1) :
                   n <= m /\ t[1] # 0 => Number(s) < Number(t)}
<1>1. 0 \in T
  <2>1. SUFFICES ASSUME NEW n \in Nat, NEW s \in DigitSeqs(n), NEW t \in DigitSeqs(0 + 1), n <= 0, t[1] # 0
                 PROVE  Number(s) < Number(t)
    OBVIOUS
  <2>2. n = 0
    BY <2>1
  <2>3. s = <<>>
    BY <2>2, DigitSeqsEmpty
  <2>4. Number(s) = 0
    BY <2>3, NumberEmpty
  <2>5. 0 \in Nat /\ 0 + 1 = 1
    OBVIOUS
  <2>6. Last(t) = t[1] /\ t[1] \in 0..9 /\ Number(Front(t)) \in Nat /\ Number(t) = 10 * Number(Front(t)) + Last(t)
    BY <2>5, NumberStep, DigitSeqsParts
  <2>7. Last(t) \in 1..9
    BY <2>1, <2>6
  <2> QED BY <2>4, <2>6, <2>7
<1>2. ASSUME NEW m \in Nat, m \in T PROVE m + 1 \in T
  <2>1. SUFFICES ASSUME NEW n \in Nat, NEW s \in DigitSeqs(n), NEW t \in DigitSeqs((m + 1) + 1),
                        n <= m + 1, t[1] # 0
                 PROVE  Number(s) < Number(t)
    BY <1>2
  <2>2. m + 1 \in Nat /\ m + 1 > 0
    OBVIOUS
  <2>3. /\ Front(t) \in DigitSeqs(m + 1) /\ Front(t)[1] # 0
        /\ Last(t) \in 0..9 /\ Number(Front(t)) \in Nat /\ Number(t) = 10 * Number(Front(t)) + Last(t)
    BY <2>1, <2>2, NumberStep, DigitSeqsParts
  <2>4. CASE n = 0
    <3>1. s = <<>>
      BY <2>4, DigitSeqsEmpty
    <3>2. Number(s) = 0
      BY <3>1, NumberEmpty
    <3>3. Number(s) < Number(Front(t))
      BY <1>2, <2>3, <2>4
    <3> QED BY <2>3, <3>2, <3>3
  <2>5. CASE n # 0
    <3> DEFINE k == n - 1
    <3>1. k \in Nat /\ n = k + 1 /\ k <= m
      BY <2>1, <2>5
    <3> HIDE DEF k
    <3>2. /\ Front(s) \in DigitSeqs(k) /\ Last(s) \in 0..9 /\ Number(Front(s)) \in Nat
          /\ Number(s) = 10 * Number(Front(s)) + Last(s)
      BY <3>1, NumberStep
    <3>3. Number(Front(s)) < Number(Front(t))
      BY <1>2, <2>3, <3>1, <3>2
    <3> QED BY <2>3, <3>2, <3>3
  <2> QED BY <2>4, <2>5
<1> HIDE DEF T
<1>3. Nat \subseteq T
  BY <1>1, <1>2, SetInduction
<1> QED BY <1>3 DEF T

\* All digits but the first.
LEMMA TailParts ==
  ASSUME NEW n \in Nat, NEW s \in DigitSeqs(n + 1)
  PROVE  Tail(s) \in DigitSeqs(n) /\ \A i \in 1..n : Tail(s)[i] = s[i + 1]
<1>1. s \in Seq(Digits) /\ s # <<>> /\ Len(s) = n + 1
  BY DigitSeqsParts
<1>2. Tail(s) \in Seq(Digits) /\ Len(Tail(s)) = n /\ \A i \in 1..n : Tail(s)[i] = s[i + 1]
  BY <1>1
<1> QED BY <1>2 DEF DigitSeqs

\* Dropping the first and the last digit commute.
LEMMA FrontOfTail ==
  ASSUME NEW n \in Nat, NEW s \in DigitSeqs((n + 1) + 1)
  PROVE  Front(Tail(s)) = Tail(Front(s)) /\ Last(Tail(s)) = Last(s)
<1>0. n + 1 \in Nat
  OBVIOUS
<1>1. /\ Front(s) \in DigitSeqs(n + 1) /\ Tail(s) \in DigitSeqs(n + 1)
      /\ \A i \in 1..n + 1 : Tail(s)[i] = s[i + 1] /\ Front(s)[i] = s[i]
      /\ Last(s) = s[(n + 1) + 1]
  <2>1. Tail(s) \in DigitSeqs(n + 1) /\ \A i \in 1..n + 1 : Tail(s)[i] = s[i + 1]
    BY <1>0, TailParts
  <2>2. /\ Front(s) \in DigitSeqs(n + 1) /\ Last(s) = s[(n + 1) + 1]
        /\ \A i \in 1..n + 1 : Front(s)[i] = s[i]
    BY <1>0, DigitSeqsParts
  <2> QED BY <2>1, <2>2
<1>2. /\ Front(Tail(s)) \in DigitSeqs(n) /\ \A i \in 1..n : Front(Tail(s))[i] = Tail(s)[i]
      /\ Last(Tail(s)) = Tail(s)[n + 1]
  BY <1>1, DigitSeqsParts
<1>3. Tail(Front(s)) \in DigitSeqs(n) /\ \A i \in 1..n : Tail(Front(s))[i] = Front(s)[i + 1]
  BY <1>1, TailParts
<1>4. Last(Tail(s)) = Last(s)
  <2>1. n + 1 \in 1..n + 1
    OBVIOUS
  <2> QED BY <1>1, <1>2, <2>1
<1>5. \A i \in 1..n : Front(Tail(s))[i] = Tail(Front(s))[i]
  <2>1. \A i \in 1..n : i \in 1..n + 1 /\ i + 1 \in 1..n + 1
    OBVIOUS
  <2> QED BY <1>1, <1>2, <1>3, <2>1
<1>6. Front(Tail(s)) = Tail(Front(s))
  BY <1>2, <1>3, <1>5, DigitSeqsEqual
<1> QED BY <1>4, <1>6

\* Sequences with the same first digit are ordered by the rest.
LEMMA TailOrders ==
  \A n \in Nat : \A s, t \in DigitSeqs(n + 1) :
    s[1] = t[1] => (Number(s) <= Number(t) <=> Number(Tail(s)) <= Number(Tail(t)))
<1> DEFINE T == {n \in Nat : \A s, t \in DigitSeqs(n + 1) :
                   s[1] = t[1] => (Number(s) <= Number(t) <=> Number(Tail(s)) <= Number(Tail(t)))}
<1>1. 0 \in T
  <2>1. SUFFICES ASSUME NEW s \in DigitSeqs(0 + 1), NEW t \in DigitSeqs(0 + 1), s[1] = t[1]
                 PROVE  Number(s) <= Number(t) <=> Number(Tail(s)) <= Number(Tail(t))
    OBVIOUS
  <2>2. 0 \in Nat /\ 0 + 1 = 1
    OBVIOUS
  <2>3. Last(s) = s[1] /\ Last(t) = t[1] /\ Front(s) = <<>> /\ Front(t) = <<>>
        /\ Tail(s) = <<>> /\ Tail(t) = <<>>
    <3>1. ASSUME NEW u \in DigitSeqs(0 + 1) PROVE Last(u) = u[1] /\ Front(u) = <<>> /\ Tail(u) = <<>>
      <4>1. Tail(u) \in DigitSeqs(0)
        BY <2>2, TailParts
      <4>2. Front(u) \in DigitSeqs(0) /\ Last(u) = u[1]
        BY <2>2, DigitSeqsParts
      <4> QED BY <4>1, <4>2, DigitSeqsEmpty
    <3> QED BY <3>1
  <2>4. Number(s) = Number(t)
    BY <2>1, <2>2, <2>3, NumberStep
  <2>5. Number(s) \in Nat /\ Number(Tail(s)) \in Nat
    BY <2>2, NumberType, NumberStep, TailParts
  <2>6. Number(Tail(s)) = Number(Tail(t))
    BY <2>3
  <2>7. Number(s) <= Number(t) /\ Number(Tail(s)) <= Number(Tail(t))
    BY <2>4, <2>5, <2>6
  <2> QED BY <2>7
<1>2. ASSUME NEW n \in Nat, n \in T PROVE n + 1 \in T
  <2>1. SUFFICES ASSUME NEW s \in DigitSeqs((n + 1) + 1), NEW t \in DigitSeqs((n + 1) + 1), s[1] = t[1]
                 PROVE  Number(s) <= Number(t) <=> Number(Tail(s)) <= Number(Tail(t))
    BY <1>2
  <2>2. n + 1 \in Nat /\ n + 1 > 0
    OBVIOUS
  <2>3. /\ Front(s) \in DigitSeqs(n + 1) /\ Last(s) \in 0..9 /\ Number(Front(s)) \in Nat
        /\ Number(s) = 10 * Number(Front(s)) + Last(s) /\ Front(s)[1] = s[1]
    BY <2>2, NumberStep, DigitSeqsParts
  <2>4. /\ Front(t) \in DigitSeqs(n + 1) /\ Last(t) \in 0..9 /\ Number(Front(t)) \in Nat
        /\ Number(t) = 10 * Number(Front(t)) + Last(t) /\ Front(t)[1] = t[1]
    BY <2>2, NumberStep, DigitSeqsParts
  <2>5. /\ Number(Tail(Front(s))) \in Nat /\ Number(Tail(s)) = 10 * Number(Tail(Front(s))) + Last(s)
        /\ Number(Tail(Front(t))) \in Nat /\ Number(Tail(t)) = 10 * Number(Tail(Front(t))) + Last(t)
    <3>1. Tail(s) \in DigitSeqs(n + 1) /\ Tail(t) \in DigitSeqs(n + 1)
      BY <2>2, TailParts
    <3> QED BY <3>1, NumberStep, FrontOfTail
  <2>6. /\ Number(Front(s)) <= Number(Front(t)) <=> Number(Tail(Front(s))) <= Number(Tail(Front(t)))
        /\ Number(Front(t)) <= Number(Front(s)) <=> Number(Tail(Front(t))) <= Number(Tail(Front(s)))
    BY <1>2, <2>1, <2>3, <2>4
  <2> QED BY <2>3, <2>4, <2>5, <2>6
<1> HIDE DEF T
<1>3. Nat \subseteq T
  BY <1>1, <1>2, SetInduction
<1> QED BY <1>3 DEF T

\* The parts of a digit repeated n times.
LEMMA RepeatParts ==
  ASSUME NEW n \in Nat, NEW d \in Digits
  PROVE  /\ Repeat(d, n) \in DigitSeqs(n)
         /\ \A i \in 1..n : Repeat(d, n)[i] = d
         /\ Front(Repeat(d, n + 1)) = Repeat(d, n) /\ Last(Repeat(d, n + 1)) = d
<1>1. \A m \in Nat : Repeat(d, m) \in DigitSeqs(m) /\ \A i \in 1..m : Repeat(d, m)[i] = d
  BY DEF Repeat, DigitSeqs
<1>2. n + 1 \in Nat /\ n + 1 \in 1..n + 1 /\ \A i \in 1..n : i \in 1..n + 1
  OBVIOUS
<1>3. Repeat(d, n + 1) \in DigitSeqs(n + 1)
  BY <1>1, <1>2
<1>4. /\ Front(Repeat(d, n + 1)) \in DigitSeqs(n) /\ Last(Repeat(d, n + 1)) = d
      /\ \A i \in 1..n : Front(Repeat(d, n + 1))[i] = d
  <2> DEFINE r == Repeat(d, n + 1)
  <2>1. \A i \in 1..n + 1 : r[i] = d
    BY <1>1, <1>2
  <2> HIDE DEF r
  <2>2. Front(r) \in DigitSeqs(n) /\ Last(r) = r[n + 1] /\ \A i \in 1..n : Front(r)[i] = r[i]
    BY <1>3, DigitSeqsParts DEF r
  <2>3. Last(r) = d /\ \A i \in 1..n : Front(r)[i] = d
    BY <1>2, <2>1, <2>2
  <2> QED BY <2>2, <2>3 DEF r
<1>5. Front(Repeat(d, n + 1)) = Repeat(d, n)
  BY <1>1, <1>4, DigitSeqsEqual
<1> QED BY <1>1, <1>4, <1>5

\* All zeros is the least of its length, and all nines the largest.
LEMMA RepeatBounds ==
  \A n \in Nat : \A s \in DigitSeqs(n) :
    Number(Repeat(0, n)) <= Number(s) /\ Number(s) <= Number(Repeat(9, n))
<1> DEFINE T == {n \in Nat : \A s \in DigitSeqs(n) :
                   Number(Repeat(0, n)) <= Number(s) /\ Number(s) <= Number(Repeat(9, n))}
<1>0. 0 \in Digits /\ 9 \in Digits
  BY DEF Digits
<1>1. 0 \in T
  <2>1. SUFFICES ASSUME NEW s \in DigitSeqs(0)
                 PROVE  Number(Repeat(0, 0)) <= Number(s) /\ Number(s) <= Number(Repeat(9, 0))
    OBVIOUS
  <2>2. Repeat(0, 0) = s /\ Repeat(9, 0) = s
    BY <1>0, RepeatParts, DigitSeqsEmpty
  <2>3. Number(s) \in Nat
    BY NumberType
  <2> QED BY <2>2, <2>3
<1>2. ASSUME NEW n \in Nat, n \in T PROVE n + 1 \in T
  <2>1. SUFFICES ASSUME NEW s \in DigitSeqs(n + 1)
                 PROVE  Number(Repeat(0, n + 1)) <= Number(s) /\ Number(s) <= Number(Repeat(9, n + 1))
    BY <1>2
  <2>2. /\ Front(s) \in DigitSeqs(n) /\ Last(s) \in 0..9 /\ Number(Front(s)) \in Nat
        /\ Number(s) = 10 * Number(Front(s)) + Last(s)
    BY NumberStep
  <2>3. n + 1 \in Nat
    OBVIOUS
  <2>4. ASSUME NEW d \in Digits
        PROVE  Number(Repeat(d, n)) \in Nat /\ Number(Repeat(d, n + 1)) = 10 * Number(Repeat(d, n)) + d
    <3>1. Repeat(d, n + 1) \in DigitSeqs(n + 1)
      BY <2>3, RepeatParts
    <3>2. Front(Repeat(d, n + 1)) = Repeat(d, n) /\ Last(Repeat(d, n + 1)) = d
      BY RepeatParts
    <3> QED BY <3>1, <3>2, NumberStep
  <2>5. /\ Number(Repeat(0, n)) \in Nat /\ Number(Repeat(0, n + 1)) = 10 * Number(Repeat(0, n)) + 0
        /\ Number(Repeat(9, n)) \in Nat /\ Number(Repeat(9, n + 1)) = 10 * Number(Repeat(9, n)) + 9
    BY <1>0, <2>4
  <2>6. Number(Repeat(0, n)) <= Number(Front(s)) /\ Number(Front(s)) <= Number(Repeat(9, n))
    BY <1>2, <2>2
  <2> QED BY <2>2, <2>5, <2>6
<1> HIDE DEF T
<1>3. Nat \subseteq T
  BY <1>1, <1>2, SetInduction
<1> QED BY <1>3 DEF T

\* The first digit decides, and the rest if it is the same.
LEMMA LexicographicOrder ==
  ASSUME NEW n \in Nat, NEW s \in DigitSeqs(n + 1), NEW t \in DigitSeqs(n + 1)
  PROVE  Number(s) <= Number(t)
           <=> s[1] < t[1] \/ (s[1] = t[1] /\ Number(Tail(s)) <= Number(Tail(t)))
<1>1. s[1] \in 0..9 /\ t[1] \in 0..9
  BY DigitSeqsParts
<1>2. Number(s) \in Nat /\ Number(t) \in Nat
  BY NumberStep
<1>3. s[1] < t[1] => Number(s) < Number(t)
  BY FirstDigitOrders
<1>4. t[1] < s[1] => Number(t) < Number(s)
  BY FirstDigitOrders
<1>5. s[1] = t[1] => (Number(s) <= Number(t) <=> Number(Tail(s)) <= Number(Tail(t)))
  BY TailOrders
<1> QED BY <1>1, <1>2, <1>3, <1>4, <1>5

-----------------------------------------------------------------------------
(* The patterns of a range.                                                *)

\* Patterns of digits.
Patterns == Seq(SUBSET Digits)

\* The body of sameLengthRangePatterns, given the results of its recursive calls.
Split(start, end, same, lower, upper) ==
  LET n == Len(start)
  IN  CASE n = 0 -> {<<>>}
        [] n > 0 /\ start = end -> {Literal(start)}
        [] n = 1 /\ start # end -> {DigitRangePattern(start[1], end[1])}
        [] n > 1 /\ start # end /\ start[1] = end[1] -> PrependPattern(<<{start[1]}>>, same)
        [] n > 1 /\ start[1] # end[1] ->
             PrependPattern(<<{start[1]}>>, lower)
             \cup (IF start[1] + 1 <= end[1] - 1
                   THEN {DigitRangePattern(start[1] + 1, end[1] - 1) \o DigitWildcard(n - 1)}
                   ELSE {})
             \cup PrependPattern(<<{end[1]}>>, upper)

\* The pattern of the first digits strictly between two others, if there are any.
Between(d, e, n) ==
  IF d + 1 <= e - 1 THEN {DigitRangePattern(d + 1, e - 1) \o DigitWildcard(n - 1)} ELSE {}

\* The three groups of patterns when the first digits differ.
Three(a, b, n, lower, upper) ==
  PrependPattern(<<{a[1]}>>, lower) \cup Between(a[1], b[1], n) \cup PrependPattern(<<{b[1]}>>, upper)

\* Its five cases.
LEMMA SplitCases ==
  ASSUME NEW n \in Nat, NEW a \in DigitSeqs(n), NEW b, NEW same, NEW lower, NEW upper,
         NEW split, split = Split(a, b, same, lower, upper)
  PROVE  /\ n = 0 => split = {<<>>}
         /\ n > 0 /\ a = b => split = {Literal(a)}
         /\ n = 1 /\ a # b => split = {DigitRangePattern(a[1], b[1])}
         /\ n > 1 /\ a # b /\ a[1] = b[1] => split = PrependPattern(<<{a[1]}>>, same)
         /\ n > 1 /\ a[1] # b[1] => split = Three(a, b, n, lower, upper)
<1>1. Len(a) = n
  BY DEF DigitSeqs
<1>2. a[1] # b[1] => a # b
  OBVIOUS
<1> DEFINE literal == {Literal(a)}
           digits == {DigitRangePattern(a[1], b[1])}
           tails == PrependPattern(<<{a[1]}>>, same)
           three == Three(a, b, n, lower, upper)
<1>3. split =
        CASE n = 0 -> {<<>>}
          [] n > 0 /\ a = b -> literal
          [] n = 1 /\ a # b -> digits
          [] n > 1 /\ a # b /\ a[1] = b[1] -> tails
          [] n > 1 /\ a[1] # b[1] -> three
  BY <1>1 DEF Split, Three, Between
<1> HIDE DEF literal, digits, tails, three
<1>4. /\ n = 0 => split = {<<>>}
      /\ n > 0 /\ a = b => split = literal
      /\ n = 1 /\ a # b => split = digits
      /\ n > 1 /\ a # b /\ a[1] = b[1] => split = tails
      /\ n > 1 /\ a[1] # b[1] => split = three
  BY <1>2, <1>3
<1> QED BY <1>4 DEF literal, digits, tails, three

\* The case of no digits left.
LEMMA SplitEmpty ==
  ASSUME NEW a \in DigitSeqs(0), NEW b, NEW same, NEW lower, NEW upper
  PROVE  Split(a, b, same, lower, upper) = {<<>>}
<1> DEFINE literal == {Literal(a)}
           digits == {DigitRangePattern(a[1], b[1])}
           tails == PrependPattern(<<{a[1]}>>, same)
           three == Three(a, b, 0, lower, upper)
<1>1. Len(a) = 0
  BY DEF DigitSeqs
<1>2. Split(a, b, same, lower, upper) =
        CASE 0 = 0 -> {<<>>}
          [] 0 > 0 /\ a = b -> literal
          [] 0 = 1 /\ a # b -> digits
          [] 0 > 1 /\ a # b /\ a[1] = b[1] -> tails
          [] 0 > 1 /\ a[1] # b[1] -> three
  BY <1>1 DEF Split, Three, Between
<1> HIDE DEF literal, digits, tails, three
<1> QED BY <1>2

\* A digit put before patterns gives patterns.
LEMMA PrependType ==
  ASSUME NEW d \in Digits, NEW P \in SUBSET Patterns
  PROVE  PrependPattern(<<{d}>>, P) \in SUBSET Patterns
<1>1. <<{d}>> \in Patterns
  BY DEF Patterns
<1>2. \A p \in P : <<{d}>> \o p \in Patterns
  BY <1>1 DEF Patterns
<1> QED BY <1>2 DEF PrependPattern

\* Literals, digit ranges and wildcards are patterns.
LEMMA PieceTypes ==
  ASSUME NEW n \in Nat
  PROVE  /\ \A s \in DigitSeqs(n) : Literal(s) \in Patterns
         /\ \A d, e \in Digits : DigitRangePattern(d, e) \in Patterns
         /\ \A d, e \in Digits : DigitRangePattern(d + 1, e - 1) \in Patterns
         /\ DigitWildcard(n) \in Patterns /\ Len(DigitWildcard(n)) = n
         /\ \A i \in 1..n : DigitWildcard(n)[i] = Digits
<1>1. ASSUME NEW s \in DigitSeqs(n) PROVE Literal(s) \in Patterns
  <2>1. s \in Seq(Digits) /\ DOMAIN s = 1..Len(s) /\ Len(s) \in Nat
    BY DEF DigitSeqs
  <2>2. \A i \in 1..Len(s) : {s[i]} \in SUBSET Digits
    BY <2>1
  <2> QED BY <2>1, <2>2 DEF Literal, Patterns
<1>2. ASSUME NEW d \in Digits, NEW e \in Digits PROVE DigitRangePattern(d, e) \in Patterns
  <2>1. d .. e \in SUBSET Digits
    BY DEF Digits
  <2> QED BY <2>1 DEF DigitRangePattern, Patterns
<1>3. ASSUME NEW d \in Digits, NEW e \in Digits PROVE DigitRangePattern(d + 1, e - 1) \in Patterns
  <2>1. (d + 1) .. (e - 1) \in SUBSET Digits
    BY DEF Digits
  <2> QED BY <2>1 DEF DigitRangePattern, Patterns
<1>4. /\ DigitWildcard(n) \in Patterns /\ Len(DigitWildcard(n)) = n
      /\ \A i \in 1..n : DigitWildcard(n)[i] = Digits
  BY DEF DigitWildcard, Repeat, Patterns
<1> QED BY <1>1, <1>2, <1>3, <1>4

\* The body returns patterns when its recursive calls do.
LEMMA SplitType ==
  ASSUME NEW n \in Nat, NEW a \in DigitSeqs(n), NEW b \in DigitSeqs(n), NEW same, NEW lower, NEW upper,
         n > 1 => same \in SUBSET Patterns /\ lower \in SUBSET Patterns /\ upper \in SUBSET Patterns
  PROVE  Split(a, b, same, lower, upper) \in SUBSET Patterns
<1> DEFINE split == Split(a, b, same, lower, upper)
<1>0. n > 0 => a[1] \in Digits /\ b[1] \in Digits
  BY DEF DigitSeqs
<1> HIDE DEF split
<1>1. /\ n = 0 => split = {<<>>}
      /\ n > 0 /\ a = b => split = {Literal(a)}
      /\ n = 1 /\ a # b => split = {DigitRangePattern(a[1], b[1])}
      /\ n > 1 /\ a # b /\ a[1] = b[1] => split = PrependPattern(<<{a[1]}>>, same)
      /\ n > 1 /\ a[1] # b[1] => split = Three(a, b, n, lower, upper)
  BY SplitCases DEF split
<1>2. {<<>>} \in SUBSET Patterns
  BY DEF Patterns
<1>3. {Literal(a)} \in SUBSET Patterns
  BY PieceTypes
<1>4. n > 0 => {DigitRangePattern(a[1], b[1])} \in SUBSET Patterns
  BY <1>0, PieceTypes
<1>5. n > 1 => PrependPattern(<<{a[1]}>>, same) \in SUBSET Patterns
  BY <1>0, PrependType
<1>6. ASSUME n > 1 PROVE Three(a, b, n, lower, upper) \in SUBSET Patterns
  <2> DEFINE body == DigitRangePattern(a[1] + 1, b[1] - 1) \o DigitWildcard(n - 1)
  <2>1. PrependPattern(<<{a[1]}>>, lower) \in SUBSET Patterns /\ PrependPattern(<<{b[1]}>>, upper) \in SUBSET Patterns
    BY <1>0, <1>6, PrependType
  <2>2. body \in Patterns
    <3>1. n - 1 \in Nat
      BY <1>6
    <3>2. DigitRangePattern(a[1] + 1, b[1] - 1) \in Patterns /\ DigitWildcard(n - 1) \in Patterns
      BY <1>0, <1>6, <3>1, PieceTypes
    <3> QED BY <3>2 DEF Patterns
  <2> HIDE DEF body
  <2>3. Between(a[1], b[1], n) \in SUBSET Patterns
    BY <2>2 DEF Between, body
  <2> QED BY <2>1, <2>3 DEF Three
<1>7. split \in SUBSET Patterns
  <2>1. CASE n = 0
    BY <1>1, <1>2, <2>1
  <2>2. CASE n > 0 /\ a = b
    BY <1>1, <1>3, <2>2
  <2>3. CASE n = 1 /\ a # b
    <3>1. n > 0
      BY <2>3
    <3> QED BY <1>1, <1>4, <2>3, <3>1
  <2>4. CASE n > 1 /\ a # b /\ a[1] = b[1]
    BY <1>1, <1>5, <2>4
  <2>5. CASE n > 1 /\ a[1] # b[1]
    BY <1>1, <1>6, <2>5
  <2>6. n = 0 \/ n = 1 \/ n > 1
    OBVIOUS
  <2> QED BY <2>1, <2>2, <2>3, <2>4, <2>5, <2>6
<1> QED BY <1>7 DEF split

\* The arguments of the recursive calls.
Tails(pair) == <<Tail(pair[1]), Tail(pair[2])>>
ToNines(pair) == <<Tail(pair[1]), Repeat(9, Len(pair[1]) - 1)>>
FromZeros(pair) == <<Repeat(0, Len(pair[1]) - 1), Tail(pair[2])>>

\* The two sequences of a pair.
LEMMA PairParts ==
  ASSUME NEW pair \in SameLengthPairs
  PROVE  /\ Len(pair[1]) \in Nat
         /\ pair[1] \in DigitSeqs(Len(pair[1])) /\ pair[2] \in DigitSeqs(Len(pair[1]))
         /\ pair = <<pair[1], pair[2]>>
  BY DEF SameLengthPairs, DigitSeqs

\* Two sequences of one length are a pair.
LEMMA PairMade ==
  ASSUME NEW n \in Nat, NEW a \in DigitSeqs(n), NEW b \in DigitSeqs(n)
  PROVE  <<a, b>> \in SameLengthPairs /\ Len(a) = n /\ Len(<<a, b>>[1]) = n
  BY DEF SameLengthPairs, DigitSeqs

\* They are shorter by one.
LEMMA ShorterPairs ==
  ASSUME NEW n \in Nat, NEW pair \in SameLengthPairs, Len(pair[1]) = n + 1
  PROVE  /\ Tails(pair) \in SameLengthPairs /\ Len(Tails(pair)[1]) = n
         /\ ToNines(pair) \in SameLengthPairs /\ Len(ToNines(pair)[1]) = n
         /\ FromZeros(pair) \in SameLengthPairs /\ Len(FromZeros(pair)[1]) = n
<1>1. pair[1] \in DigitSeqs(n + 1) /\ pair[2] \in DigitSeqs(n + 1)
  BY PairParts
<1>2. Tail(pair[1]) \in DigitSeqs(n) /\ Tail(pair[2]) \in DigitSeqs(n)
  BY <1>1, TailParts
<1>3. Len(pair[1]) - 1 = n /\ 0 \in Digits /\ 9 \in Digits
  BY DEF Digits
<1>4. Repeat(9, Len(pair[1]) - 1) \in DigitSeqs(n) /\ Repeat(0, Len(pair[1]) - 1) \in DigitSeqs(n)
  BY <1>3, RepeatParts
<1> QED BY <1>2, <1>4, PairMade DEF Tails, ToNines, FromZeros

\* One step of sameLengthRangePatterns, its recursive calls answered by g.
RangeBody(g, pair) == Split(pair[1], pair[2], g[Tails(pair)], g[ToNines(pair)], g[FromZeros(pair)])

\* The equation that defines RangePatterns has a solution: recursion over the length.
LEMMA RangePatternsExist ==
  \E f \in [SameLengthPairs -> SUBSET Patterns] : f = [pair \in SameLengthPairs |-> RangeBody(f, pair)]
<1> DEFINE R == [SameLengthPairs -> SUBSET Patterns]
           body(g) == [pair \in SameLengthPairs |-> RangeBody(g, pair)]
           r0 == [pair \in SameLengthPairs |-> {<<>>}]
           step == [x \in Nat \X R |-> body(x[2])]
<1>1. r0 \in R
  BY DEF Patterns
<1>2. ASSUME NEW g \in R PROVE body(g) \in R
  <2>1. ASSUME NEW pair \in SameLengthPairs PROVE RangeBody(g, pair) \in SUBSET Patterns
    <3> DEFINE m == Len(pair[1])
    <3>1. m \in Nat /\ pair[1] \in DigitSeqs(m) /\ pair[2] \in DigitSeqs(m)
      BY PairParts
    <3>2. ASSUME m > 1
          PROVE  /\ g[Tails(pair)] \in SUBSET Patterns /\ g[ToNines(pair)] \in SUBSET Patterns
                 /\ g[FromZeros(pair)] \in SUBSET Patterns
      <4> DEFINE k == m - 1
      <4>1. k \in Nat /\ Len(pair[1]) = k + 1
        BY <3>1, <3>2
      <4> HIDE DEF k
      <4>2. Tails(pair) \in SameLengthPairs /\ ToNines(pair) \in SameLengthPairs /\ FromZeros(pair) \in SameLengthPairs
        BY <4>1, ShorterPairs
      <4> QED BY <1>2, <4>2
    <3> HIDE DEF m
    <3> QED BY <3>1, <3>2, SplitType DEF RangeBody
  <2> QED BY <2>1
<1> HIDE DEF body, R
<1>3. step \in [Nat \X R -> R]
  BY <1>2
<1>4. \A n \in Nat, g \in R : step[<<n, g>>] = body(g)
  OBVIOUS
<1> HIDE DEF step, r0
<1>5. PICK f \in [Nat -> R] : Recursive(f, r0, step)
  BY <1>1, <1>3, Recursion
<1>6. \A n \in Nat : f[n + 1] = body(f[n])
  BY <1>4, <1>5 DEF Recursive
<1> DEFINE F == [pair \in SameLengthPairs |-> f[Len(pair[1])][pair]]
<1>7. F \in [SameLengthPairs -> SUBSET Patterns]
  <2>1. \A pair \in SameLengthPairs : f[Len(pair[1])] \in R
    BY PairParts
  <2> QED BY <2>1 DEF R
<1>8. ASSUME NEW pair \in SameLengthPairs PROVE F[pair] = RangeBody(F, pair)
  <2>0. F[pair] = f[Len(pair[1])][pair]
    OBVIOUS
  <2>1. CASE Len(pair[1]) = 0
    <3>1. F[pair] = {<<>>}
      BY <1>5, <2>0, <2>1 DEF Recursive, r0
    <3>2. 0 \in Nat /\ pair[1] \in DigitSeqs(0)
      BY <2>1, PairParts
    <3> HIDE DEF F
    <3> DEFINE split == RangeBody(F, pair)
    <3>3. split = {<<>>}
      <4> DEFINE same == F[Tails(pair)]
                 lower == F[ToNines(pair)]
                 upper == F[FromZeros(pair)]
                 start == pair[1]
                 end == pair[2]
      <4>1. split = Split(start, end, same, lower, upper) /\ start \in DigitSeqs(0)
        BY <3>2 DEF RangeBody
      <4> HIDE DEF split, same, lower, upper, start, end
      <4> QED BY <4>1, SplitEmpty
    <3> QED BY <3>1, <3>3
  <2>2. CASE Len(pair[1]) # 0
    <3> DEFINE n == Len(pair[1]) - 1
    <3>1. n \in Nat /\ Len(pair[1]) = n + 1
      BY <2>2, PairParts
    <3> HIDE DEF n
    <3>2. F[pair] = RangeBody(f[n], pair)
      BY <1>6, <2>0, <3>1, ZenonT(60) DEF body
    <3>3. /\ F[Tails(pair)] = f[n][Tails(pair)] /\ F[ToNines(pair)] = f[n][ToNines(pair)]
          /\ F[FromZeros(pair)] = f[n][FromZeros(pair)]
      BY <3>1, ShorterPairs
    <3> HIDE DEF F
    <3> QED BY <3>2, <3>3 DEF RangeBody
  <2> QED BY <2>1, <2>2
<1> HIDE DEF F
<1>9. F = [pair \in SameLengthPairs |-> RangeBody(F, pair)]
  BY <1>7, <1>8
<1> QED BY <1>7, <1>9

\* RangePatterns is its recursive definition.
LEMMA RangePatternsDef ==
  /\ RangePatterns = [pair \in SameLengthPairs |-> RangeBody(RangePatterns, pair)]
<1> DEFINE P(f) == f = [pair \in SameLengthPairs |-> RangeBody(f, pair)]
<1>1. \E f : P(f)
  BY RangePatternsExist
<1>2. RangePatterns = CHOOSE f : P(f)
  BY DEF RangePatterns, RangeBody, Split, Tails, ToNines, FromZeros
<1> HIDE DEF P
<1>3. P(RangePatterns)
  BY <1>1, <1>2
<1> QED BY <1>3 DEF P

\* One step of sameLengthRangePatterns.
LEMMA PatternsEquation ==
  ASSUME NEW n \in Nat, NEW a \in DigitSeqs(n), NEW b \in DigitSeqs(n)
  PROVE  SameLengthRangePatterns(a, b) =
           Split(a, b, SameLengthRangePatterns(Tail(a), Tail(b)),
                       SameLengthRangePatterns(Tail(a), Repeat(9, n - 1)),
                       SameLengthRangePatterns(Repeat(0, n - 1), Tail(b)))
<1> DEFINE pair == <<a, b>>
<1>1. pair \in SameLengthPairs /\ pair[1] = a /\ pair[2] = b /\ Len(a) = n
  BY PairMade
<1>2. Tails(pair) = <<Tail(a), Tail(b)>> /\ ToNines(pair) = <<Tail(a), Repeat(9, n - 1)>>
      /\ FromZeros(pair) = <<Repeat(0, n - 1), Tail(b)>>
  BY <1>1 DEF Tails, ToNines, FromZeros
<1>3. RangePatterns[pair] = RangeBody(RangePatterns, pair)
  <2> HIDE DEF pair
  <2>1. \A p \in SameLengthPairs : [q \in SameLengthPairs |-> RangeBody(RangePatterns, q)][p] = RangeBody(RangePatterns, p)
    OBVIOUS
  <2> QED BY <1>1, <2>1, RangePatternsDef
<1>4. RangeBody(RangePatterns, pair) =
        Split(a, b, RangePatterns[<<Tail(a), Tail(b)>>], RangePatterns[<<Tail(a), Repeat(9, n - 1)>>],
              RangePatterns[<<Repeat(0, n - 1), Tail(b)>>])
  <2> HIDE DEF pair
  <2> QED BY <1>1, <1>2 DEF RangeBody
<1> QED BY <1>3, <1>4 DEF SameLengthRangePatterns

\* sameLengthRangePatterns returns patterns: induction over the length.
LEMMA PatternsType ==
  \A n \in Nat : \A a, b \in DigitSeqs(n) : SameLengthRangePatterns(a, b) \in SUBSET Patterns
<1> DEFINE T == {n \in Nat : \A a, b \in DigitSeqs(n) : SameLengthRangePatterns(a, b) \in SUBSET Patterns}
<1>1. 0 \in T
  <2>1. SUFFICES ASSUME NEW a \in DigitSeqs(0), NEW b \in DigitSeqs(0)
                 PROVE  SameLengthRangePatterns(a, b) \in SUBSET Patterns
    OBVIOUS
  <2>2. 0 \in Nat /\ ~(0 > 1)
    OBVIOUS
  <2> QED BY <2>2, PatternsEquation, SplitType
<1>2. ASSUME NEW n \in Nat, n \in T PROVE n + 1 \in T
  <2>1. SUFFICES ASSUME NEW a \in DigitSeqs(n + 1), NEW b \in DigitSeqs(n + 1)
                 PROVE  SameLengthRangePatterns(a, b) \in SUBSET Patterns
    BY <1>2
  <2>2. n + 1 \in Nat /\ (n + 1) - 1 = n /\ 0 \in Digits /\ 9 \in Digits
    BY DEF Digits
  <2>3. /\ Tail(a) \in DigitSeqs(n) /\ Tail(b) \in DigitSeqs(n)
        /\ Repeat(0, n) \in DigitSeqs(n) /\ Repeat(9, n) \in DigitSeqs(n)
    BY <2>2, TailParts, RepeatParts
  <2>4. /\ SameLengthRangePatterns(Tail(a), Tail(b)) \in SUBSET Patterns
        /\ SameLengthRangePatterns(Tail(a), Repeat(9, n)) \in SUBSET Patterns
        /\ SameLengthRangePatterns(Repeat(0, n), Tail(b)) \in SUBSET Patterns
    BY <1>2, <2>3
  <2>5. SameLengthRangePatterns(a, b) =
          Split(a, b, SameLengthRangePatterns(Tail(a), Tail(b)),
                      SameLengthRangePatterns(Tail(a), Repeat(9, n)),
                      SameLengthRangePatterns(Repeat(0, n), Tail(b)))
    BY <2>2, PatternsEquation
  <2> QED BY <2>2, <2>4, <2>5, SplitType
<1> HIDE DEF T
<1>3. Nat \subseteq T
  BY <1>1, <1>2, SetInduction
<1> QED BY <1>3 DEF T

-----------------------------------------------------------------------------
(* What patterns match.                                                    *)

\* Some alternative matches.
AnyFits(v, patterns) == \E p \in patterns : FitsPattern(v, p)

\* Literal digits match themselves only.
LEMMA FitsLiteral ==
  ASSUME NEW n \in Nat, NEW s \in DigitSeqs(n), NEW v \in Seq(Nat)
  PROVE  FitsPattern(v, Literal(s)) <=> v = s
<1>1. s \in Seq(Digits) /\ Len(s) = n /\ DOMAIN s = 1..n
  BY DEF DigitSeqs
<1>2. Literal(s) = [i \in 1..n |-> {s[i]}]
  BY <1>1 DEF Literal
<1>3. Len(Literal(s)) = n /\ DOMAIN Literal(s) = 1..n /\ \A i \in 1..n : Literal(s)[i] = {s[i]}
  BY <1>2
<1>4. FitsPattern(v, Literal(s)) <=> Len(v) = n /\ \A i \in 1..n : v[i] = s[i]
  BY <1>3 DEF FitsPattern
<1>5. Len(v) = n /\ (\A i \in 1..n : v[i] = s[i]) => v = s
  BY <1>1
<1> QED BY <1>1, <1>4, <1>5

\* A pattern with a digit set in front matches the first digit and the rest.
LEMMA FitsPrepended ==
  ASSUME NEW X, NEW p \in Patterns, NEW v \in Seq(Nat)
  PROVE  FitsPattern(v, <<X>> \o p) <=> v # <<>> /\ v[1] \in X /\ FitsPattern(Tail(v), p)
<1> DEFINE q == <<X>> \o p
<1>1. p \in Seq(SUBSET Digits) /\ Len(p) \in Nat /\ DOMAIN p = 1..Len(p)
  BY DEF Patterns
<1>2. Len(q) = Len(p) + 1 /\ DOMAIN q = 1..Len(p) + 1 /\ q[1] = X /\ \A i \in 1..Len(p) : q[i + 1] = p[i]
  BY <1>1
<1> HIDE DEF q
<1>3. CASE v = <<>>
  <2>1. Len(v) = 0
    BY <1>3
  <2> QED BY <1>1, <1>2, <1>3, <2>1 DEF FitsPattern, q
<1>4. CASE v # <<>>
  <2>1. Len(v) \in Nat \ {0} /\ Len(Tail(v)) = Len(v) - 1 /\ \A i \in 1..Len(v) - 1 : Tail(v)[i] = v[i + 1]
    BY <1>4, EmptySeq
  <2>2. Len(v) = Len(q) <=> Len(Tail(v)) = Len(p)
    <3>1. Len(v) \in Nat /\ Len(Tail(v)) = Len(v) - 1 /\ Len(p) \in Nat /\ Len(q) = Len(p) + 1
      BY <1>1, <1>2, <2>1
    <3>2. \A k, l \in Nat : k = l + 1 <=> k - 1 = l
      OBVIOUS
    <3> QED BY <3>1, <3>2
  <2>3. ASSUME Len(v) = Len(q)
        PROVE  (\A i \in 1..Len(p) + 1 : v[i] \in q[i])
                 <=> v[1] \in X /\ \A i \in 1..Len(p) : Tail(v)[i] \in p[i]
    <3>1. \A i \in 1..Len(p) : Tail(v)[i] = v[i + 1]
      BY <1>1, <1>2, <2>1, <2>3
    <3>2. /\ 1 \in 1..Len(p) + 1 /\ \A i \in 1..Len(p) : i + 1 \in 1..Len(p) + 1
          /\ \A i \in 1..Len(p) + 1 : i = 1 \/ (i - 1 \in 1..Len(p) /\ (i - 1) + 1 = i)
      BY <1>1
    <3>3. ASSUME \A i \in 1..Len(p) + 1 : v[i] \in q[i]
          PROVE  v[1] \in X /\ \A i \in 1..Len(p) : Tail(v)[i] \in p[i]
      BY <1>2, <3>1, <3>2, <3>3
    <3>4. ASSUME v[1] \in X, \A i \in 1..Len(p) : Tail(v)[i] \in p[i], NEW i \in 1..Len(p) + 1
          PROVE  v[i] \in q[i]
      <4>1. CASE i = 1
        BY <1>2, <3>4, <4>1
      <4>2. CASE i # 1
        <5> DEFINE j == i - 1
        <5>1. j \in 1..Len(p) /\ i = j + 1
          BY <3>2, <4>2
        <5> HIDE DEF j
        <5> QED BY <1>2, <3>1, <3>4, <5>1
      <4> QED BY <4>1, <4>2
    <3> QED BY <3>3, <3>4
  <2> QED BY <1>1, <1>2, <1>4, <2>2, <2>3 DEF FitsPattern, q
<1> QED BY <1>3, <1>4

\* Patterns with a digit in front match that digit and the rest.
LEMMA FitsDigitFirst ==
  ASSUME NEW d, NEW P \in SUBSET Patterns, NEW v \in Seq(Nat)
  PROVE  AnyFits(v, PrependPattern(<<{d}>>, P)) <=> v # <<>> /\ v[1] = d /\ AnyFits(Tail(v), P)
<1>1. AnyFits(v, PrependPattern(<<{d}>>, P)) <=> \E p \in P : FitsPattern(v, <<{d}>> \o p)
  BY DEF AnyFits, PrependPattern
<1>2. \A p \in P : FitsPattern(v, <<{d}>> \o p) <=> v # <<>> /\ v[1] \in {d} /\ FitsPattern(Tail(v), p)
  BY FitsPrepended
<1> QED BY <1>1, <1>2 DEF AnyFits

\* The wildcard matches all sequences of its length.
LEMMA FitsWildcard ==
  ASSUME NEW n \in Nat, NEW v \in Seq(Nat)
  PROVE  FitsPattern(v, DigitWildcard(n)) <=> v \in DigitSeqs(n)
<1>1. /\ DigitWildcard(n) \in Patterns /\ Len(DigitWildcard(n)) = n
      /\ \A i \in 1..n : DigitWildcard(n)[i] = Digits
  BY PieceTypes
<1>2. DOMAIN DigitWildcard(n) = 1..n
  BY <1>1 DEF Patterns
<1>3. FitsPattern(v, DigitWildcard(n)) <=> Len(v) = n /\ \A i \in 1..n : v[i] \in Digits
  BY <1>1, <1>2 DEF FitsPattern
<1>4. Len(v) = n /\ (\A i \in 1..n : v[i] \in Digits) => v \in Seq(Digits)
  OBVIOUS
<1>5. v \in Seq(Digits) /\ Len(v) = n => \A i \in 1..n : v[i] \in Digits
  OBVIOUS
<1> QED BY <1>3, <1>4, <1>5 DEF DigitSeqs

\* A pattern of one digit set.
LEMMA FitsDigits ==
  ASSUME NEW X, NEW v \in Seq(Nat)
  PROVE  FitsPattern(v, <<X>>) <=> Len(v) = 1 /\ v[1] \in X
<1>1. Len(<<X>>) = 1 /\ DOMAIN <<X>> = {1} /\ <<X>>[1] = X
  OBVIOUS
<1> QED BY <1>1 DEF FitsPattern

\* A sequence of digits is a digit and a sequence of digits.
LEMMA DigitsSplit ==
  ASSUME NEW n \in Nat, NEW v \in Seq(Nat)
  PROVE  v \in DigitSeqs(n + 1) <=> v # <<>> /\ v[1] \in Digits /\ Tail(v) \in DigitSeqs(n)
<1>1. ASSUME v \in DigitSeqs(n + 1) PROVE v # <<>> /\ v[1] \in Digits /\ Tail(v) \in DigitSeqs(n)
  BY <1>1, DigitSeqsParts, TailParts DEF Digits
<1>2. ASSUME v # <<>>, v[1] \in Digits, Tail(v) \in DigitSeqs(n) PROVE v \in DigitSeqs(n + 1)
  <2>1. Len(v) \in Nat /\ Len(Tail(v)) = Len(v) - 1 /\ \A i \in 1..Len(v) - 1 : Tail(v)[i] = v[i + 1]
    BY <1>2, EmptySeq
  <2>2. Tail(v) \in Seq(Digits) /\ Len(Tail(v)) = n
    BY <1>2 DEF DigitSeqs
  <2>3. Len(v) = n + 1 /\ Len(v) - 1 = n
    BY <2>1, <2>2
  <2>4. ASSUME NEW i \in 1..n + 1 PROVE v[i] \in Digits
    <3>1. CASE i = 1
      BY <1>2, <3>1
    <3>2. CASE i # 1
      <4> DEFINE j == i - 1
      <4>1. j \in 1..n /\ i = j + 1
        BY <3>2
      <4> HIDE DEF j
      <4>2. v[i] = Tail(v)[j]
        BY <2>1, <2>3, <4>1
      <4>3. Tail(v)[j] \in Digits
        BY <2>2, <4>1
      <4> QED BY <4>2, <4>3
    <3> QED BY <3>1, <3>2
  <2>5. v \in Seq(Digits)
    BY <2>3, <2>4
  <2> QED BY <2>3, <2>5 DEF DigitSeqs
<1> QED BY <1>1, <1>2

\* The sequences of n digits from a to b.
InRange(v, a, b, n) == v \in DigitSeqs(n) /\ Number(a) <= Number(v) /\ Number(v) <= Number(b)

\* What is in a range by the first digit and the rest.
LEMMA InRangeSplit ==
  ASSUME NEW n \in Nat, NEW a \in DigitSeqs(n + 1), NEW b \in DigitSeqs(n + 1), NEW v \in Seq(Nat)
  PROVE  InRange(v, a, b, n + 1) <=>
           /\ v # <<>> /\ v[1] \in Digits /\ Tail(v) \in DigitSeqs(n)
           /\ a[1] < v[1] \/ (a[1] = v[1] /\ Number(Tail(a)) <= Number(Tail(v)))
           /\ v[1] < b[1] \/ (v[1] = b[1] /\ Number(Tail(v)) <= Number(Tail(b)))
<1>1. v \in DigitSeqs(n + 1) <=> v # <<>> /\ v[1] \in Digits /\ Tail(v) \in DigitSeqs(n)
  BY DigitsSplit
<1>2. ASSUME v \in DigitSeqs(n + 1)
      PROVE  Number(a) <= Number(v) <=> a[1] < v[1] \/ (a[1] = v[1] /\ Number(Tail(a)) <= Number(Tail(v)))
  BY <1>2, LexicographicOrder
<1>3. ASSUME v \in DigitSeqs(n + 1)
      PROVE  Number(v) <= Number(b) <=> v[1] < b[1] \/ (v[1] = b[1] /\ Number(Tail(v)) <= Number(Tail(b)))
  BY <1>3, LexicographicOrder
<1> QED BY <1>1, <1>2, <1>3 DEF InRange

\* Digits between digits.
LEMMA DigitIntervals ==
  ASSUME NEW x \in 0..9, NEW y \in 0..9
  PROVE  /\ x \in Digits /\ y \in Digits
         /\ \A d : d \in x..y => d \in Digits
         /\ \A d : d \in (x + 1)..(y - 1) => d \in Digits
         /\ \A d \in Digits : d \in x..y <=> (x < d \/ x = d) /\ (d < y \/ d = y)
         /\ \A d \in Digits : d \in (x + 1)..(y - 1) <=> x < d /\ d < y
         /\ x = y => \A d \in Digits : ~(x < d /\ d < y) /\ ~(x < d /\ d = y) /\ ~(x = d /\ d < y)
         /\ x < y => \A d \in Digits : ~(x = d /\ d = y) /\ (d = x => d < y) /\ (d = y => x < d)
         /\ ~(x + 1 <= y - 1) => (x + 1)..(y - 1) = {}
  BY DEF Digits

\* The patterns of ranges of n digits match exactly the numbers in the range.
ExactFor(n) ==
  \A a, b \in DigitSeqs(n) : Number(a) <= Number(b) =>
    \A v \in Seq(Nat) : AnyFits(v, SameLengthRangePatterns(a, b)) <=> InRange(v, a, b, n)

\* One step of the recursion: if the patterns of shorter ranges are exact, so are these.
LEMMA ExactStep ==
  ASSUME NEW n \in Nat, ExactFor(n),
         NEW a \in DigitSeqs(n + 1), NEW b \in DigitSeqs(n + 1), Number(a) <= Number(b),
         NEW v \in Seq(Nat)
  PROVE  AnyFits(v, SameLengthRangePatterns(a, b)) <=> InRange(v, a, b, n + 1)
<1> DEFINE P == SameLengthRangePatterns(a, b)
           same == SameLengthRangePatterns(Tail(a), Tail(b))
           lower == SameLengthRangePatterns(Tail(a), Repeat(9, n))
           upper == SameLengthRangePatterns(Repeat(0, n), Tail(b))
<1>1. n + 1 \in Nat /\ n + 1 > 0 /\ (n + 1) - 1 = n /\ 0 \in Digits /\ 9 \in Digits
  BY DEF Digits
<1>2. /\ Tail(a) \in DigitSeqs(n) /\ Tail(b) \in DigitSeqs(n)
      /\ Repeat(0, n) \in DigitSeqs(n) /\ Repeat(9, n) \in DigitSeqs(n)
      /\ a[1] \in 0..9 /\ b[1] \in 0..9
  BY <1>1, TailParts, RepeatParts, DigitSeqsParts
<1>3. same \in SUBSET Patterns /\ lower \in SUBSET Patterns /\ upper \in SUBSET Patterns
  BY <1>2, PatternsType
<1>4. P = Split(a, b, same, lower, upper)
  BY <1>1, PatternsEquation
<1> HIDE DEF P
<1>5. /\ a = b => P = {Literal(a)}
      /\ n + 1 = 1 /\ a # b => P = {DigitRangePattern(a[1], b[1])}
      /\ n + 1 > 1 /\ a # b /\ a[1] = b[1] => P = PrependPattern(<<{a[1]}>>, same)
      /\ n + 1 > 1 /\ a[1] # b[1] => P = Three(a, b, n + 1, lower, upper)
  <2> HIDE DEF same, lower, upper
  <2> QED BY <1>1, <1>4, SplitCases
<1>6. /\ v # <<>> => Tail(v) \in Seq(Nat)
      /\ InRange(v, a, b, n + 1) <=>
           /\ v # <<>> /\ v[1] \in Digits /\ Tail(v) \in DigitSeqs(n)
           /\ a[1] < v[1] \/ (a[1] = v[1] /\ Number(Tail(a)) <= Number(Tail(v)))
           /\ v[1] < b[1] \/ (v[1] = b[1] /\ Number(Tail(v)) <= Number(Tail(b)))
  <2>1. v # <<>> => Tail(v) \in Seq(Nat)
    OBVIOUS
  <2> QED BY <2>1, InRangeSplit
<1>7. a[1] < b[1] \/ (a[1] = b[1] /\ Number(Tail(a)) <= Number(Tail(b)))
  BY LexicographicOrder
<1>8. CASE a = b
  <2>1. AnyFits(v, P) <=> v = a
    BY <1>1, <1>5, <1>8, FitsLiteral DEF AnyFits
  <2>2. InRange(v, a, b, n + 1) <=> v = a
    <3>1. Number(a) \in Nat /\ (v \in DigitSeqs(n + 1) => Number(v) \in Nat)
      BY <1>1, NumberType
    <3>2. InRange(v, a, b, n + 1) => v \in DigitSeqs(n + 1) /\ Number(v) = Number(a)
      BY <1>8, <3>1 DEF InRange
    <3>3. InRange(a, a, b, n + 1)
      BY <1>8, <3>1 DEF InRange
    <3> QED BY <1>1, <3>2, <3>3, NumberInjective
  <2> QED BY <2>1, <2>2 DEF P
<1>9. CASE n = 0 /\ a # b
  <2>1. P = {<<a[1] .. b[1]>>}
    BY <1>5, <1>9 DEF DigitRangePattern
  <2>2. AnyFits(v, P) <=> Len(v) = 1 /\ v[1] \in a[1] .. b[1]
    BY <2>1, FitsDigits DEF AnyFits
  <2>3. v # <<>> /\ Tail(v) \in DigitSeqs(0) <=> Len(v) = 1
    <3>1. v # <<>> => Len(v) \in Nat /\ Len(v) # 0 /\ Len(Tail(v)) = Len(v) - 1
      BY EmptySeq
    <3>2. v # <<>> => (Tail(v) \in DigitSeqs(0) <=> Tail(v) = <<>>)
      BY DigitSeqsEmpty
    <3>3. v # <<>> => (Tail(v) = <<>> <=> Len(Tail(v)) = 0)
      BY <1>6, EmptySeq
    <3>4. Len(v) = 1 => v # <<>>
      BY EmptySeq
    <3> QED BY <3>1, <3>2, <3>3, <3>4
  <2>4. ASSUME v # <<>>, Tail(v) \in DigitSeqs(0)
        PROVE  Number(Tail(a)) <= Number(Tail(v)) /\ Number(Tail(v)) <= Number(Tail(b))
    <3>1. Tail(a) = <<>> /\ Tail(b) = <<>> /\ Tail(v) = <<>>
      BY <1>2, <1>9, <2>4, DigitSeqsEmpty
    <3>2. 0 <= 0
      OBVIOUS
    <3> QED BY <3>1, <3>2, NumberEmpty
  <2>5. \A d \in Digits : d \in a[1] .. b[1] <=> (a[1] < d \/ a[1] = d) /\ (d < b[1] \/ d = b[1])
    <3> DEFINE x == a[1]
               y == b[1]
    <3>1. x \in 0..9 /\ y \in 0..9
      BY <1>2
    <3> HIDE DEF x, y
    <3>2. \A d \in Digits : d \in x..y <=> (x < d \/ x = d) /\ (d < y \/ d = y)
      BY <3>1, DigitIntervals
    <3> QED BY <3>2 DEF x, y
  <2>6. v[1] \in a[1] .. b[1] => v[1] \in Digits
    BY <1>2, DigitIntervals
  <2> QED BY <1>6, <1>9, <2>2, <2>3, <2>4, <2>5, <2>6 DEF P
<1>10. CASE n > 0 /\ a # b /\ a[1] = b[1]
  <2>1. n + 1 > 1 /\ P = PrependPattern(<<{a[1]}>>, same)
    BY <1>5, <1>10
  <2>2. AnyFits(v, P) <=> v # <<>> /\ v[1] = a[1] /\ AnyFits(Tail(v), same)
    BY <1>3, <2>1, FitsDigitFirst
  <2>3. Number(Tail(a)) <= Number(Tail(b))
    BY <1>2, <1>7, <1>10
  <2>4. v # <<>> => (AnyFits(Tail(v), same) <=> InRange(Tail(v), Tail(a), Tail(b), n))
    BY <1>2, <1>6, <2>3 DEF ExactFor
  <2>5. \A d \in Digits : (~(a[1] < d /\ d < b[1])) /\ ~(a[1] < d /\ d = b[1]) /\ ~(a[1] = d /\ d < b[1])
    BY <1>2, <1>10, DigitIntervals
  <2>6. a[1] \in Digits
    BY <1>2, DigitIntervals
  <2> QED BY <1>6, <1>10, <2>2, <2>4, <2>5, <2>6 DEF P, InRange
<1>11. CASE n > 0 /\ a[1] # b[1]
  <2>1. n + 1 > 1 /\ P = Three(a, b, n + 1, lower, upper)
    BY <1>5, <1>11
  <2>2. a[1] < b[1]
    BY <1>7, <1>11
  <2>3. AnyFits(v, P) <=> \/ AnyFits(v, PrependPattern(<<{a[1]}>>, lower))
                          \/ AnyFits(v, Between(a[1], b[1], n + 1))
                          \/ AnyFits(v, PrependPattern(<<{b[1]}>>, upper))
    BY <2>1 DEF Three, AnyFits
  <2>4. AnyFits(v, PrependPattern(<<{a[1]}>>, lower))
          <=> v # <<>> /\ v[1] = a[1] /\ Tail(v) \in DigitSeqs(n) /\ Number(Tail(a)) <= Number(Tail(v))
    <3>1. Number(Tail(a)) <= Number(Repeat(9, n)) /\ (Tail(v) \in DigitSeqs(n) => Number(Tail(v)) <= Number(Repeat(9, n)))
      BY <1>2, RepeatBounds
    <3>2. v # <<>> => (AnyFits(Tail(v), lower) <=> InRange(Tail(v), Tail(a), Repeat(9, n), n))
      BY <1>2, <1>6, <3>1 DEF ExactFor
    <3> QED BY <1>3, <3>1, <3>2, FitsDigitFirst, ZenonT(60) DEF InRange
  <2>5. AnyFits(v, PrependPattern(<<{b[1]}>>, upper))
          <=> v # <<>> /\ v[1] = b[1] /\ Tail(v) \in DigitSeqs(n) /\ Number(Tail(v)) <= Number(Tail(b))
    <3>1. Number(Repeat(0, n)) <= Number(Tail(b)) /\ (Tail(v) \in DigitSeqs(n) => Number(Repeat(0, n)) <= Number(Tail(v)))
      BY <1>2, RepeatBounds
    <3>2. v # <<>> => (AnyFits(Tail(v), upper) <=> InRange(Tail(v), Repeat(0, n), Tail(b), n))
      BY <1>2, <1>6, <3>1 DEF ExactFor
    <3> QED BY <1>3, <3>1, <3>2, FitsDigitFirst DEF InRange
  <2>6. AnyFits(v, Between(a[1], b[1], n + 1))
          <=> v # <<>> /\ v[1] \in (a[1] + 1) .. (b[1] - 1) /\ Tail(v) \in DigitSeqs(n)
    <3> DEFINE X == (a[1] + 1) .. (b[1] - 1)
    <3>1. FitsPattern(v, <<X>> \o DigitWildcard(n)) <=> v # <<>> /\ v[1] \in X /\ Tail(v) \in DigitSeqs(n)
      BY <1>6, FitsPrepended, FitsWildcard, PieceTypes
    <3>2. CASE a[1] + 1 <= b[1] - 1
      <4>1. Between(a[1], b[1], n + 1) = {<<X>> \o DigitWildcard(n)}
        BY <1>1, <3>2 DEF Between, DigitRangePattern
      <4> HIDE DEF X
      <4>2. AnyFits(v, Between(a[1], b[1], n + 1)) <=> FitsPattern(v, <<X>> \o DigitWildcard(n))
        BY <4>1 DEF AnyFits
      <4> QED BY <3>1, <4>2 DEF X
    <3>3. CASE ~(a[1] + 1 <= b[1] - 1)
      <4>1. Between(a[1], b[1], n + 1) = {}
        BY <3>3 DEF Between
      <4>2. X = {}
        BY <1>2, <3>3, DigitIntervals, SMTT(30)
      <4> HIDE DEF X
      <4>3. ~AnyFits(v, Between(a[1], b[1], n + 1))
        BY <4>1 DEF AnyFits
      <4> QED BY <4>2, <4>3 DEF X
    <3> QED BY <3>2, <3>3
  <2>7. \A d \in Digits : /\ d \in (a[1] + 1) .. (b[1] - 1) <=> a[1] < d /\ d < b[1]
                          /\ ~(a[1] = d /\ d = b[1])
                          /\ d = a[1] => d < b[1]
                          /\ d = b[1] => a[1] < d
    BY <1>2, <2>2, DigitIntervals
  <2>8. a[1] \in Digits /\ b[1] \in Digits /\ (v[1] \in (a[1] + 1) .. (b[1] - 1) => v[1] \in Digits)
    BY <1>2, DigitIntervals, SMTT(30)
  <2> QED BY <1>6, <2>3, <2>4, <2>5, <2>6, <2>7, <2>8 DEF P
<1> QED
  <2>1. n = 0 \/ n > 0
    OBVIOUS
  <2> QED BY <1>8, <1>9, <1>10, <1>11, <2>1

\* sameLengthRangePatterns matches exactly the numbers of its length in the range.
LEMMA SameLengthExact == \A n \in Nat : ExactFor(n)
<1> DEFINE T == {n \in Nat : ExactFor(n)}
<1>1. 0 \in T
  <2>1. SUFFICES ASSUME NEW a \in DigitSeqs(0), NEW b \in DigitSeqs(0), NEW v \in Seq(Nat)
                 PROVE  AnyFits(v, SameLengthRangePatterns(a, b)) <=> InRange(v, a, b, 0)
    BY DEF ExactFor
  <2> DEFINE P == SameLengthRangePatterns(a, b)
             same == SameLengthRangePatterns(Tail(a), Tail(b))
             lower == SameLengthRangePatterns(Tail(a), Repeat(9, 0 - 1))
             upper == SameLengthRangePatterns(Repeat(0, 0 - 1), Tail(b))
  <2>2. 0 \in Nat /\ P = Split(a, b, same, lower, upper)
    BY PatternsEquation
  <2> HIDE DEF same, lower, upper, P
  <2>3. P = {<<>>}
    BY <2>2, SplitEmpty
  <2>4. AnyFits(v, P) <=> v = <<>>
    <3>1. FitsPattern(v, <<>>) <=> Len(v) = 0
      BY DEF FitsPattern
    <3> QED BY <2>3, <3>1, EmptySeq DEF AnyFits
  <2>5. InRange(v, a, b, 0) <=> v = <<>>
    BY DigitSeqsEmpty, NumberEmpty DEF InRange
  <2> QED BY <2>4, <2>5 DEF P
<1>2. ASSUME NEW n \in Nat, n \in T PROVE n + 1 \in T
  <2>1. ExactFor(n + 1)
    BY <1>2, ExactStep DEF ExactFor
  <2> QED BY <2>1
<1> HIDE DEF T
<1>3. Nat \subseteq T
  BY <1>1, <1>2, SetInduction
<1> QED BY <1>3 DEF T

\* What a decimal is, by its length.
LEMMA DecimalParts ==
  ASSUME NEW s, IsDecimal(s)
  PROVE  \E n \in Nat : s \in DigitSeqs(n + 1) /\ (n > 0 => s[1] # 0)
<1>1. s \in Seq(Digits) /\ s # <<>>
  BY DEF IsDecimal
<1> DEFINE n == Len(s) - 1
<1>2. n \in Nat /\ Len(s) = n + 1
  BY <1>1, EmptySeq
<1> HIDE DEF n
<1>3. s \in DigitSeqs(n + 1)
  BY <1>1, <1>2 DEF DigitSeqs
<1>4. n > 0 => s[1] # 0
  <2>1. s = <<0>> => Len(s) = 1
    OBVIOUS
  <2> QED BY <1>2, <2>1 DEF IsDecimal
<1> QED BY <1>2, <1>3, <1>4

\* Digits without a leading zero are a decimal.
LEMMA DecimalMade ==
  ASSUME NEW n \in Nat, NEW s \in DigitSeqs(n + 1), n > 0 => s[1] # 0
  PROVE  IsDecimal(s)
<1>1. s \in Seq(Digits) /\ s # <<>> /\ Len(s) = n + 1 /\ s[1] \in 0..9
  BY DigitSeqsParts
<1>2. CASE n > 0 \/ s[1] # 0
  BY <1>1, <1>2 DEF IsDecimal
<1>3. CASE n = 0 /\ s[1] = 0
  <2>1. Len(s) = 1
    BY <1>1, <1>3
  <2>2. s = <<0>>
    BY <1>1, <1>3, <2>1
  <2> QED BY <1>1, <2>2 DEF IsDecimal
<1> QED BY <1>2, <1>3

\* Sequences of another length have no sequence in common.
LEMMA DigitSeqsDisjoint ==
  ASSUME NEW n \in Nat, NEW m \in Nat, NEW s \in DigitSeqs(n), s \in DigitSeqs(m)
  PROVE  n = m
  BY DEF DigitSeqs

\* A decimal that is not smaller is not shorter.
LEMMA DecimalOrder ==
  ASSUME NEW n \in Nat, NEW s \in DigitSeqs(n + 1), n > 0 => s[1] # 0,
         NEW m \in Nat, NEW t \in DigitSeqs(m + 1), Number(s) <= Number(t)
  PROVE  n <= m
<1>1. SUFFICES ASSUME m < n PROVE FALSE
  OBVIOUS
<1>2. m + 1 \in Nat /\ m + 1 <= n /\ s[1] # 0
  BY <1>1
<1>3. Number(t) < Number(s)
  BY <1>2, LengthOrders
<1>4. Number(s) \in Nat /\ Number(t) \in Nat
  BY NumberStep
<1> QED BY <1>3, <1>4

\* What is not smaller than a decimal of its length is a decimal.
LEMMA DecimalAbove ==
  ASSUME NEW n \in Nat, NEW s \in DigitSeqs(n + 1), n > 0 => s[1] # 0,
         NEW t \in DigitSeqs(n + 1), Number(s) <= Number(t)
  PROVE  n > 0 => t[1] # 0
<1>1. s[1] \in 0..9 /\ t[1] \in 0..9
  BY DigitSeqsParts
<1>2. s[1] < t[1] \/ s[1] = t[1]
  BY LexicographicOrder
<1> QED BY <1>1, <1>2

\* minValueForLength is the least number of its length without a leading zero.
LEMMA MinValueParts ==
  ASSUME NEW n \in Nat, n > 0
  PROVE  /\ MinValueForLength(n + 1) \in DigitSeqs(n + 1)
         /\ \A v \in DigitSeqs(n + 1) : Number(MinValueForLength(n + 1)) <= Number(v) <=> v[1] # 0
<1> DEFINE s == <<1>> \o Repeat(0, n)
<1>1. MinValueForLength(n + 1) = s
  BY DEF MinValueForLength
<1>2. Repeat(0, n) \in DigitSeqs(n)
  BY RepeatParts DEF Digits
<1>3. s # <<>> /\ s[1] = 1 /\ Tail(s) = Repeat(0, n) /\ s \in Seq(Nat)
  <2>1. Repeat(0, n) \in Seq(Nat)
    BY DEF Repeat
  <2> QED BY <2>1
<1>4. s \in DigitSeqs(n + 1)
  <2>1. s[1] \in Digits
    BY <1>3 DEF Digits
  <2> HIDE DEF s
  <2> QED BY <1>2, <1>3, <2>1, DigitsSplit
<1>5. ASSUME NEW v \in DigitSeqs(n + 1) PROVE Number(s) <= Number(v) <=> v[1] # 0
  <2>1. v[1] \in 0..9 /\ Tail(v) \in DigitSeqs(n)
    BY DigitSeqsParts, TailParts
  <2>2. Number(Tail(s)) <= Number(Tail(v))
    BY <1>3, <2>1, RepeatBounds
  <2>3. Number(s) <= Number(v) <=> s[1] < v[1] \/ (s[1] = v[1] /\ Number(Tail(s)) <= Number(Tail(v)))
    BY <1>4, LexicographicOrder
  <2> HIDE DEF s
  <2> QED BY <1>3, <2>1, <2>2, <2>3
<1> HIDE DEF s
<1> QED BY <1>1, <1>4, <1>5

\* anyNumberPattern matches all numbers of its length without leading zeros.
LEMMA AnyNumberFits ==
  ASSUME NEW n \in Nat, n > 0, NEW v \in Seq(Nat)
  PROVE  FitsPattern(v, AnyNumberPattern(n + 1)) <=> v \in DigitSeqs(n + 1) /\ v[1] # 0
<1>1. AnyNumberPattern(n + 1) = <<1..9>> \o DigitWildcard(n)
  BY DEF AnyNumberPattern
<1>2. DigitWildcard(n) \in Patterns
  BY PieceTypes
<1>3. FitsPattern(v, AnyNumberPattern(n + 1)) <=> v # <<>> /\ v[1] \in 1..9 /\ FitsPattern(Tail(v), DigitWildcard(n))
  <2> DEFINE X == 1..9
             p == DigitWildcard(n)
  <2>1. AnyNumberPattern(n + 1) = <<X>> \o p /\ p \in Patterns
    BY <1>1, <1>2
  <2> HIDE DEF X, p
  <2>2. FitsPattern(v, <<X>> \o p) <=> v # <<>> /\ v[1] \in X /\ FitsPattern(Tail(v), p)
    BY <2>1, FitsPrepended
  <2> QED BY <2>1, <2>2 DEF X, p
<1>4. v # <<>> => Tail(v) \in Seq(Nat)
  OBVIOUS
<1>5. v # <<>> => (FitsPattern(Tail(v), DigitWildcard(n)) <=> Tail(v) \in DigitSeqs(n))
  BY <1>4, FitsWildcard
<1>6. v \in DigitSeqs(n + 1) <=> v # <<>> /\ v[1] \in Digits /\ Tail(v) \in DigitSeqs(n)
  BY DigitsSplit
<1>7. v[1] \in 1..9 <=> v[1] \in Digits /\ v[1] # 0
  BY DEF Digits
<1> QED BY <1>3, <1>5, <1>6, <1>7

\* The three parts of a range whose bounds differ in length.
LEMMA LongerRange ==
  ASSUME NEW n \in Nat, NEW a \in DigitSeqs(n + 1), n > 0 => a[1] # 0,
         NEW m \in Nat, NEW b \in DigitSeqs(m + 1), b[1] # 0, n < m,
         NEW v \in Seq(Nat)
  PROVE  AnyFits(v, NumericRangeRegex(a, b)) <=>
           \/ v \in DigitSeqs(n + 1) /\ Number(a) <= Number(v)
           \/ \E k \in Nat : n < k /\ k < m /\ v \in DigitSeqs(k + 1) /\ v[1] # 0
           \/ v \in DigitSeqs(m + 1) /\ v[1] # 0 /\ Number(v) <= Number(b)
<1> DEFINE lower == SameLengthRangePatterns(a, Repeat(9, n + 1))
           middle == {AnyNumberPattern(length) : length \in (n + 1) + 1 .. (m + 1) - 1}
           upper == SameLengthRangePatterns(MinValueForLength(m + 1), b)
<1>1. n + 1 \in Nat /\ m + 1 \in Nat /\ m > 0 /\ n + 1 # m + 1 /\ 9 \in Digits
  BY DEF Digits
<1>2. Len(a) = n + 1 /\ Len(b) = m + 1
  BY DEF DigitSeqs
<1>3. NumericRangeRegex(a, b) = lower \cup middle \cup upper
  BY <1>1, <1>2 DEF NumericRangeRegex
<1> HIDE DEF lower, middle, upper
<1>4. AnyFits(v, NumericRangeRegex(a, b)) <=> AnyFits(v, lower) \/ AnyFits(v, middle) \/ AnyFits(v, upper)
  BY <1>3 DEF AnyFits
<1>5. AnyFits(v, lower) <=> v \in DigitSeqs(n + 1) /\ Number(a) <= Number(v)
  <2>1. /\ Repeat(9, n + 1) \in DigitSeqs(n + 1)
        /\ \A s \in DigitSeqs(n + 1) : Number(s) <= Number(Repeat(9, n + 1))
    BY <1>1, RepeatParts, RepeatBounds
  <2>2. AnyFits(v, lower) <=> InRange(v, a, Repeat(9, n + 1), n + 1)
    BY <1>1, <2>1, SameLengthExact DEF ExactFor, lower
  <2> QED BY <2>1, <2>2 DEF InRange
<1>6. AnyFits(v, upper) <=> v \in DigitSeqs(m + 1) /\ v[1] # 0 /\ Number(v) <= Number(b)
  <2> DEFINE least == MinValueForLength(m + 1)
  <2>1. /\ least \in DigitSeqs(m + 1)
        /\ \A s \in DigitSeqs(m + 1) : Number(least) <= Number(s) <=> s[1] # 0
    BY <1>1, MinValueParts
  <2>2. upper = SameLengthRangePatterns(least, b)
    BY DEF upper
  <2> HIDE DEF least
  <2>3. AnyFits(v, upper) <=> InRange(v, least, b, m + 1)
    BY <1>1, <2>1, <2>2, SameLengthExact DEF ExactFor
  <2> QED BY <2>1, <2>3 DEF InRange
<1>7. AnyFits(v, middle) <=> \E k \in Nat : n < k /\ k < m /\ v \in DigitSeqs(k + 1) /\ v[1] # 0
  <2>1. AnyFits(v, middle) <=> \E length \in (n + 1) + 1 .. (m + 1) - 1 : FitsPattern(v, AnyNumberPattern(length))
    BY DEF AnyFits, middle
  <2>2. ASSUME NEW k \in Nat, n < k
        PROVE  FitsPattern(v, AnyNumberPattern(k + 1)) <=> v \in DigitSeqs(k + 1) /\ v[1] # 0
    <3>1. k > 0
      BY <2>2
    <3> QED BY <3>1, AnyNumberFits
  <2>3. ASSUME NEW length \in (n + 1) + 1 .. (m + 1) - 1, FitsPattern(v, AnyNumberPattern(length))
        PROVE  \E k \in Nat : n < k /\ k < m /\ v \in DigitSeqs(k + 1) /\ v[1] # 0
    <3> DEFINE k == length - 1
    <3>1. k \in Nat /\ n < k /\ k < m /\ length = k + 1
      OBVIOUS
    <3> HIDE DEF k
    <3>2. v \in DigitSeqs(k + 1) /\ v[1] # 0
      BY <2>2, <2>3, <3>1
    <3> QED BY <3>1, <3>2
  <2>4. ASSUME NEW k \in Nat, n < k, k < m, v \in DigitSeqs(k + 1), v[1] # 0
        PROVE  \E length \in (n + 1) + 1 .. (m + 1) - 1 : FitsPattern(v, AnyNumberPattern(length))
    <3>1. k + 1 \in (n + 1) + 1 .. (m + 1) - 1
      BY <2>4
    <3> QED BY <2>2, <2>4, <3>1
  <2> QED BY <2>1, <2>3, <2>4
<1> QED BY <1>4, <1>5, <1>6, <1>7

\* numericRangeRegex matches the decimals of the range and nothing else, whatever
\* the lengths and digits of its bounds.
THEOREM RangeExact ==
  ASSUME NEW a, IsDecimal(a), NEW b, IsDecimal(b), Number(a) <= Number(b), NEW v \in Seq(Nat)
  PROVE  AnyFits(v, NumericRangeRegex(a, b)) <=>
           IsDecimal(v) /\ Number(a) <= Number(v) /\ Number(v) <= Number(b)
<1>1. PICK n \in Nat : a \in DigitSeqs(n + 1) /\ (n > 0 => a[1] # 0)
  BY DecimalParts
<1>2. PICK m \in Nat : b \in DigitSeqs(m + 1) /\ (m > 0 => b[1] # 0)
  BY DecimalParts
<1>3. n <= m
  BY <1>1, <1>2, DecimalOrder
<1>4. /\ n + 1 \in Nat /\ Number(a) \in Nat /\ Len(a) = n + 1
      /\ m + 1 \in Nat /\ Number(b) \in Nat /\ Len(b) = m + 1
  <2>1. n + 1 \in Nat /\ m + 1 \in Nat
    OBVIOUS
  <2>2. Number(a) \in Nat /\ Len(a) = n + 1
    BY <1>1, NumberStep, DigitSeqsParts
  <2>3. Number(b) \in Nat /\ Len(b) = m + 1
    BY <1>2, NumberStep, DigitSeqsParts
  <2> QED BY <2>1, <2>2, <2>3
<1>5. ASSUME IsDecimal(v), Number(a) <= Number(v), Number(v) <= Number(b)
      PROVE  \E k \in Nat : v \in DigitSeqs(k + 1) /\ (k > 0 => v[1] # 0) /\ n <= k /\ k <= m
  <2>1. PICK k \in Nat : v \in DigitSeqs(k + 1) /\ (k > 0 => v[1] # 0)
    BY <1>5, DecimalParts
  <2>2. n <= k
    BY <1>1, <1>5, <2>1, DecimalOrder
  <2>3. k <= m
    BY <1>2, <1>5, <2>1, DecimalOrder
  <2> QED BY <2>1, <2>2, <2>3
<1>6. CASE n = m
  <2>1. a \in DigitSeqs(n + 1) /\ b \in DigitSeqs(n + 1)
    BY <1>1, <1>2, <1>6
  <2>2. AnyFits(v, NumericRangeRegex(a, b)) <=> InRange(v, a, b, n + 1)
    <3>1. AnyFits(v, SameLengthRangePatterns(a, b)) <=> InRange(v, a, b, n + 1)
      BY <1>4, <2>1, SameLengthExact DEF ExactFor
    <3>2. CASE a = b
      <4>1. NumericRangeRegex(a, b) = {Literal(a)}
        BY <3>2 DEF NumericRangeRegex
      <4>2. AnyFits(v, NumericRangeRegex(a, b)) <=> v = a
        BY <1>4, <2>1, <4>1, FitsLiteral DEF AnyFits
      <4>3. v = a => InRange(v, a, b, n + 1)
        BY <1>4, <2>1, <3>2 DEF InRange
      <4>4. InRange(v, a, b, n + 1) => v = a
        <5>1. ASSUME InRange(v, a, b, n + 1) PROVE v \in DigitSeqs(n + 1) /\ Number(v) = Number(a)
          <6>1. v \in DigitSeqs(n + 1) /\ Number(a) <= Number(v) /\ Number(v) <= Number(a)
            BY <3>2, <5>1 DEF InRange
          <6>2. Number(v) \in Nat
            BY <6>1, NumberStep
          <6> QED BY <1>4, <6>1, <6>2
        <5> QED BY <1>4, <2>1, <5>1, NumberInjective
      <4> QED BY <4>2, <4>3, <4>4
    <3>3. CASE a # b
      <4>1. Len(a) = Len(b)
        BY <1>4, <1>6
      <4>2. NumericRangeRegex(a, b) = SameLengthRangePatterns(a, b)
        BY <3>3, <4>1 DEF NumericRangeRegex
      <4> QED BY <3>1, <4>2
    <3> QED BY <3>2, <3>3
  <2>3. InRange(v, a, b, n + 1) => IsDecimal(v)
    BY <1>1, <2>1, DecimalAbove, DecimalMade DEF InRange
  <2>4. ASSUME IsDecimal(v), Number(a) <= Number(v), Number(v) <= Number(b) PROVE InRange(v, a, b, n + 1)
    <3>1. PICK k \in Nat : v \in DigitSeqs(k + 1) /\ n <= k /\ k <= m
      BY <1>5, <2>4
    <3>2. k = n
      BY <1>6, <3>1
    <3> QED BY <2>4, <3>1, <3>2 DEF InRange
  <2> QED BY <2>2, <2>3, <2>4 DEF InRange
<1>7. CASE n < m
  <2>1. m > 0 /\ b[1] # 0
    BY <1>2, <1>7
  <2>2. AnyFits(v, NumericRangeRegex(a, b)) <=>
          \/ v \in DigitSeqs(n + 1) /\ Number(a) <= Number(v)
          \/ \E k \in Nat : n < k /\ k < m /\ v \in DigitSeqs(k + 1) /\ v[1] # 0
          \/ v \in DigitSeqs(m + 1) /\ v[1] # 0 /\ Number(v) <= Number(b)
    BY <1>1, <1>2, <1>7, <2>1, LongerRange
  <2>3. ASSUME v \in DigitSeqs(n + 1), Number(a) <= Number(v)
        PROVE  IsDecimal(v) /\ Number(v) <= Number(b)
    <3>1. IsDecimal(v)
      BY <1>1, <2>3, DecimalAbove, DecimalMade
    <3>2. n + 1 <= m
      BY <1>7
    <3>3. Number(v) < Number(b)
      BY <1>2, <1>4, <2>1, <2>3, <3>2, LengthOrders
    <3>4. Number(v) \in Nat
      BY <2>3, NumberStep
    <3> QED BY <1>4, <3>1, <3>3, <3>4
  <2>4. ASSUME NEW k \in Nat, n < k, k < m, v \in DigitSeqs(k + 1), v[1] # 0
        PROVE  IsDecimal(v) /\ Number(a) <= Number(v) /\ Number(v) <= Number(b)
    <3>1. IsDecimal(v) /\ Number(v) \in Nat
      BY <2>4, DecimalMade, NumberStep
    <3>2. n + 1 <= k /\ k + 1 <= m /\ k + 1 \in Nat
      BY <2>4
    <3>3. Number(a) < Number(v)
      BY <1>1, <1>4, <2>4, <3>2, LengthOrders
    <3>4. Number(v) < Number(b)
      BY <1>2, <2>1, <2>4, <3>2, LengthOrders
    <3> QED BY <1>4, <3>1, <3>3, <3>4
  <2>5. ASSUME v \in DigitSeqs(m + 1), v[1] # 0
        PROVE  IsDecimal(v) /\ Number(a) <= Number(v)
    <3>1. IsDecimal(v) /\ Number(v) \in Nat
      BY <2>5, DecimalMade, NumberStep
    <3>2. n + 1 <= m
      BY <1>7
    <3>3. Number(a) < Number(v)
      BY <1>1, <1>4, <2>5, <3>2, LengthOrders
    <3> QED BY <1>4, <3>1, <3>3
  <2>6. ASSUME IsDecimal(v), Number(a) <= Number(v), Number(v) <= Number(b)
        PROVE  \/ v \in DigitSeqs(n + 1) /\ Number(a) <= Number(v)
               \/ \E k \in Nat : n < k /\ k < m /\ v \in DigitSeqs(k + 1) /\ v[1] # 0
               \/ v \in DigitSeqs(m + 1) /\ v[1] # 0 /\ Number(v) <= Number(b)
    <3>1. PICK k \in Nat : v \in DigitSeqs(k + 1) /\ (k > 0 => v[1] # 0) /\ n <= k /\ k <= m
      BY <1>5, <2>6
    <3>2. CASE k = n
      BY <2>6, <3>1, <3>2
    <3>3. CASE k = m
      BY <2>1, <2>6, <3>1, <3>3
    <3>4. CASE n < k /\ k < m
      <4>1. k > 0
        BY <3>4
      <4> QED BY <3>1, <3>4, <4>1
    <3> QED BY <3>1, <3>2, <3>3, <3>4
  <2> QED BY <2>2, <2>3, <2>4, <2>5, <2>6
<1> QED BY <1>3, <1>6, <1>7
=============================================================================
