------------------------- MODULE Connection_proofs -------------------------
(***************************************************************************)
(* Client and server stay in step on their connection: if a recv returns   *)
(* all that was sent, each message is understood as it was meant,          *)
(* whichever process goes away and when.                                   *)
(*                                                                         *)
(* The first half is about Frames alone: what is taken apart is what was   *)
(* put together, for numbers of any length and answers of any number of    *)
(* buckets.  Numerals and the sequences that atoi and FlattenSeq build up  *)
(* are described by what they satisfy; that there is such a thing, and one *)
(* only, is shown by a least number for which it fails.  Natural numbers   *)
(* have least elements, and quotients, by lemmas of PathTree_proofs.       *)
(***************************************************************************)
EXTENDS Connection, PathTree_proofs

(* Reading digits from the left: what the number is after i of them.       *)
Reads(f, s) ==
  /\ f \in [0 .. Len(s) -> Nat]
  /\ f[0] = 0
  /\ \A i \in 1 .. Len(s) : f[i] = 10 * f[i - 1] + s[i]

(* Digits that are read as n, without zeros in front.                      *)
Numeral(n, s) ==
  /\ s \in Seq(0 .. 9)
  /\ s # <<>>
  /\ \E f : /\ Reads(f, s)
            /\ f[Len(s)] = n
            /\ \A i \in 1 .. Len(s) - 1 : f[i] # 0

(* A numeral of one digit is that digit; of more, it is the numeral of the *)
(* tenth part with one digit more.                                         *)
LEMMA NumeralIs ==
  ASSUME NEW n, NEW s, Numeral(n, s)
  PROVE  /\ n \in Nat
         /\ n < 10 => s = <<n>>
         /\ n >= 10 => \E t : Numeral(n \div 10, t) /\ s = Append(t, n % 10)
<1>1. s \in Seq(0 .. 9) /\ Len(s) \in Nat \ {0}
  BY DEF Numeral
<1>2. PICK f : /\ Reads(f, s)
               /\ f[Len(s)] = n
               /\ \A i \in 1 .. Len(s) - 1 : f[i] # 0
  BY DEF Numeral
<1>3. PICK k : k = Len(s)
  OBVIOUS
<1>4. k \in Nat \ {0} /\ k \in 1 .. k /\ k - 1 \in 0 .. k
  BY <1>1, <1>3
<1>5. /\ f \in [0 .. k -> Nat] /\ f[0] = 0 /\ f[k] = n
      /\ \A i \in 1 .. k : f[i] = 10 * f[i - 1] + s[i]
      /\ \A i \in 1 .. k - 1 : f[i] # 0
  BY <1>2, <1>3 DEF Reads
<1>6. /\ f[k - 1] \in Nat /\ s[k] \in 0 .. 9
      /\ n = 10 * f[k - 1] + s[k]
  BY <1>1, <1>3, <1>4, <1>5, SMTT(30)
<1>7. PICK m, d : m = f[k - 1] /\ d = s[k]
  OBVIOUS
<1>8. m \in Nat /\ d \in 0 .. 9 /\ n = 10 * m + d
  BY <1>6, <1>7
<1>9. n \in Nat /\ n \div 10 = m /\ n % 10 = d
  BY <1>8
<1>10. CASE k = 1
  <2>1. m = 0
    BY <1>5, <1>7, <1>10
  <2>2. n = d /\ n < 10
    BY <1>8, <2>1
  <2>3. s = <<d>>
    <3>1. s \in Seq(0 .. 9) /\ Len(s) = 1 /\ s[1] = d
      BY <1>1, <1>3, <1>7, <1>10
    <3>2. s = [i \in 1 .. 1 |-> s[i]]
      BY <3>1
    <3> QED BY <3>1, <3>2
  <2> QED BY <1>9, <2>2, <2>3
<1>11. CASE k # 1
  <2>1. k - 1 \in 1 .. k - 1 /\ k - 1 \in Nat \ {0}
    BY <1>4, <1>11
  <2>2. m # 0
    BY <1>5, <1>7, <2>1
  <2>3. n >= 10
    BY <1>8, <2>2
  <2> DEFINE t == SubSeq(s, 1, k - 1)
             g == [i \in 0 .. k - 1 |-> f[i]]
  <2>4. t \in Seq(0 .. 9) /\ Len(t) = k - 1 /\ \A i \in 1 .. k - 1 : t[i] = s[i]
    BY <1>1, <1>3, <1>4, <2>1
  <2>5. s = Append(t, d)
    <3>1. Append(t, d) \in Seq(0 .. 9) /\ Len(Append(t, d)) = k
      BY <1>4, <1>8, <2>4
    <3>2. \A i \in 1 .. k : Append(t, d)[i] = s[i]
      BY <1>4, <1>7, <2>4
    <3> HIDE DEF t
    <3> QED BY <1>1, <1>3, <3>1, <3>2
  <2>6. Numeral(m, t)
    <3>1. g \in [0 .. k - 1 -> Nat] /\ g[0] = 0 /\ g[k - 1] = m
      BY <1>4, <1>5, <1>7
    <3>2. \A i \in 1 .. k - 1 : g[i] = 10 * g[i - 1] + t[i]
      <4> SUFFICES ASSUME NEW i \in 1 .. k - 1 PROVE g[i] = 10 * g[i - 1] + t[i]
        OBVIOUS
      <4>1. i \in 1 .. k /\ i \in 0 .. k - 1 /\ i - 1 \in 0 .. k - 1
        BY <1>4
      <4>2. g[i] = f[i] /\ g[i - 1] = f[i - 1] /\ t[i] = s[i]
        BY <2>4, <4>1
      <4> HIDE DEF g, t
      <4> QED BY <1>5, <4>1, <4>2
    <3>3. \A i \in 1 .. (k - 1) - 1 : g[i] # 0
      <4> SUFFICES ASSUME NEW i \in 1 .. (k - 1) - 1 PROVE g[i] # 0
        OBVIOUS
      <4>1. i \in 1 .. k - 1 /\ i \in 0 .. k - 1
        BY <1>4
      <4> QED BY <1>5, <4>1
    <3>4. t # <<>>
      BY <2>1, <2>4
    <3> HIDE DEF g, t
    <3> QED BY <2>4, <3>1, <3>2, <3>3, <3>4 DEF Numeral, Reads
  <2>7. n \in Nat /\ ~(n < 10)
    BY <1>9, <2>3
  <2>8. Numeral(n \div 10, t) /\ s = Append(t, n % 10)
    BY <1>9, <2>5, <2>6
  <2> HIDE DEF t, g
  <2> QED BY <2>7, <2>8
<1> QED BY <1>10, <1>11

(* A number has one numeral.                                               *)
LEMMA OneNumeral ==
  ASSUME NEW n \in Nat, NEW s, Numeral(n, s), NEW t, Numeral(n, t) PROVE s = t
<1> DEFINE S == {m \in Nat : \E a, b : Numeral(m, a) /\ Numeral(m, b) /\ a # b}
<1>1. S = {}
  <2> SUFFICES ASSUME S # {} PROVE FALSE
    OBVIOUS
  <2>1. PICK m \in S : \A y \in S : m <= y
    <3>1. S \in SUBSET Nat
      OBVIOUS
    <3> HIDE DEF S
    <3> QED BY <3>1, LeastOf
  <2>2. PICK a, b : Numeral(m, a) /\ Numeral(m, b) /\ a # b
    BY <2>1
  <2>3. m \in Nat
    BY <2>1
  <2>4. CASE m < 10
    <3>1. a = <<m>> /\ b = <<m>>
      BY <2>2, <2>4, NumeralIs
    <3> QED BY <2>2, <3>1
  <2>5. CASE ~(m < 10)
    <3>1. m >= 10
      BY <2>3, <2>5
    <3>2. PICK c : Numeral(m \div 10, c) /\ a = Append(c, m % 10)
      BY <2>2, <3>1, NumeralIs
    <3>3. PICK d : Numeral(m \div 10, d) /\ b = Append(d, m % 10)
      BY <2>2, <3>1, NumeralIs
    <3>4. m \div 10 \in Nat /\ ~(m <= m \div 10)
      BY <2>3, <3>1
    <3>5. c = d
      BY <2>1, <3>2, <3>3, <3>4
    <3> QED BY <2>2, <3>2, <3>3, <3>5
  <2> QED BY <2>4, <2>5
<1> QED BY <1>1

(* A digit more. *)
LEMMA OneDigitMore ==
  ASSUME NEW m \in Nat \ {0}, NEW t, Numeral(m, t), NEW d \in 0 .. 9
  PROVE  Numeral(10 * m + d, Append(t, d))
<1>1. t \in Seq(0 .. 9)
  BY DEF Numeral
<1>2. PICK k : k = Len(t)
  OBVIOUS
<1>3. k \in Nat
  BY <1>1, <1>2
<1>4. PICK f : /\ f \in [0 .. k -> Nat] /\ f[0] = 0 /\ f[k] = m
               /\ \A i \in 1 .. k : f[i] = 10 * f[i - 1] + t[i]
               /\ \A i \in 1 .. k - 1 : f[i] # 0
  BY <1>2 DEF Numeral, Reads
<1> DEFINE s == Append(t, d)
           n == 10 * m + d
           g == [i \in 0 .. k + 1 |-> IF i = k + 1 THEN n ELSE f[i]]
<1>5. s \in Seq(0 .. 9) /\ Len(s) = k + 1 /\ s # <<>>
  BY <1>1, <1>2
<1>6. s[k + 1] = d /\ \A i \in 1 .. k : s[i] = t[i]
  BY <1>1, <1>2, <1>3
<1>7. n \in Nat
  OBVIOUS
<1>8. \A i \in 0 .. k : g[i] = f[i] /\ f[i] \in Nat
  BY <1>3, <1>4
<1>9. g[k + 1] = n
  BY <1>3
<1>10. g \in [0 .. k + 1 -> Nat]
  <2> HIDE DEF n
  <2>1. \A i \in 0 .. k + 1 : (IF i = k + 1 THEN n ELSE f[i]) \in Nat
    BY <1>3, <1>4, <1>7
  <2> QED BY <2>1
<1> HIDE DEF g, s, n
<1>11. g[0] = 0 /\ g[k] = m
  BY <1>3, <1>4, <1>8
<1>12. \A i \in 1 .. k + 1 : g[i] = 10 * g[i - 1] + s[i]
  <2> SUFFICES ASSUME NEW i \in 1 .. k + 1 PROVE g[i] = 10 * g[i - 1] + s[i]
    OBVIOUS
  <2>1. CASE i = k + 1
    <3>1. i - 1 = k
      BY <1>3, <2>1
    <3> QED BY <1>6, <1>9, <1>11, <2>1, <3>1 DEF n
  <2>2. CASE i # k + 1
    <3>1. i \in 1 .. k /\ i \in 0 .. k /\ i - 1 \in 0 .. k
      BY <1>3, <2>2
    <3> QED BY <1>4, <1>6, <1>8, <3>1
  <2> QED BY <2>1, <2>2
<1>13. \A i \in 1 .. (k + 1) - 1 : g[i] # 0
  <2> SUFFICES ASSUME NEW i \in 1 .. (k + 1) - 1 PROVE g[i] # 0
    OBVIOUS
  <2>1. CASE i = k
    BY <1>11, <2>1
  <2>2. CASE i # k
    <3>1. i \in 1 .. k - 1 /\ i \in 0 .. k
      BY <1>3, <2>2
    <3> QED BY <1>4, <1>8, <3>1
  <2> QED BY <2>1, <2>2
<1>14. Numeral(n, s)
  BY <1>5, <1>9, <1>10, <1>11, <1>12, <1>13 DEF Numeral, Reads
<1> QED BY <1>14 DEF n, s

(* Every number has one.                                                   *)
LEMMA SomeNumeral ==
  ASSUME NEW n \in Nat PROVE \E s : Numeral(n, s)
<1> DEFINE S == {m \in Nat : ~ \E s : Numeral(m, s)}
<1>1. S = {}
  <2> SUFFICES ASSUME S # {} PROVE FALSE
    OBVIOUS
  <2>1. PICK m \in S : \A y \in S : m <= y
    <3>1. S \in SUBSET Nat
      OBVIOUS
    <3> HIDE DEF S
    <3> QED BY <3>1, LeastOf
  <2>2. m \in Nat /\ ~ \E s : Numeral(m, s)
    BY <2>1
  <2>3. CASE m < 10
    <3> DEFINE f == [i \in 0 .. 1 |-> IF i = 0 THEN 0 ELSE m]
               s == <<m>>
    <3>1. s \in Seq(0 .. 9) /\ s # <<>> /\ Len(s) = 1 /\ s[1] = m
      BY <2>2, <2>3
    <3>2. f \in [0 .. 1 -> Nat] /\ f[0] = 0 /\ f[1] = m
      BY <2>2
    <3> HIDE DEF f, s
    <3>3. \A i \in 1 .. 1 : f[i] = 10 * f[i - 1] + s[i]
      <4>1. \A i \in 1 .. 1 : i = 1 /\ i - 1 = 0
        OBVIOUS
      <4>2. m = 10 * 0 + m
        BY <2>2
      <4> QED BY <3>1, <3>2, <4>1, <4>2
    <3>4. \A i \in 1 .. 1 - 1 : f[i] # 0
      OBVIOUS
    <3>5. Numeral(m, s)
      BY <3>1, <3>2, <3>3, <3>4 DEF Numeral, Reads
    <3> QED BY <2>2, <3>5
  <2>4. CASE ~(m < 10)
    <3>1. PICK q, d : q = m \div 10 /\ d = m % 10
      OBVIOUS
    <3>2. q \in Nat \ {0} /\ d \in 0 .. 9 /\ m = 10 * q + d /\ ~(m <= q)
      BY <2>2, <2>4, <3>1
    <3>3. PICK t : Numeral(q, t)
      BY <2>1, <3>2
    <3>4. Numeral(10 * q + d, Append(t, d))
      BY <3>2, <3>3, OneDigitMore
    <3> QED BY <2>2, <3>2, <3>4
  <2> QED BY <2>3, <2>4
<1> QED BY <1>1

(* the numeral of each number *)
NumeralOf == [n \in Nat |-> CHOOSE s : Numeral(n, s)]

(* What to_string and sprintf make of a number is its numeral.             *)
LEMMA DecimalIs == \A n \in Nat : Numeral(n, Decimal[n])
<1> DEFINE Up(f) == [n \in Nat |-> IF n < 10 THEN <<n>> ELSE Append(f[n \div 10], n % 10)]
<1>1. \A n \in Nat : Numeral(n, NumeralOf[n])
  BY SomeNumeral DEF NumeralOf
<1>2. ASSUME NEW n \in Nat
      PROVE  NumeralOf[n] = IF n < 10 THEN <<n>> ELSE Append(NumeralOf[n \div 10], n % 10)
  <2>1. CASE n < 10
    BY <1>1, <2>1, NumeralIs
  <2>2. CASE ~(n < 10)
    <3>1. n >= 10 /\ n \div 10 \in Nat
      BY <2>2
    <3>2. PICK t : Numeral(n \div 10, t) /\ NumeralOf[n] = Append(t, n % 10)
      BY <1>1, <3>1, NumeralIs
    <3>3. t = NumeralOf[n \div 10]
      BY <1>1, <3>1, <3>2, OneNumeral
    <3> QED BY <2>2, <3>2, <3>3
  <2> QED BY <2>1, <2>2
<1>3. NumeralOf = [n \in Nat |-> NumeralOf[n]]
  BY DEF NumeralOf
<1>4. NumeralOf = Up(NumeralOf)
  <2> HIDE DEF NumeralOf
  <2> QED BY <1>2, <1>3
<1>5. Decimal = CHOOSE f : f = Up(f)
  BY DEF Decimal
<1>6. PICK f : f = Decimal
  OBVIOUS
<1>7. f = Up(f)
  BY <1>4, <1>5, <1>6
<1>8. \A n \in Nat : f[n] = IF n < 10 THEN <<n>> ELSE Append(f[n \div 10], n % 10)
  BY <1>7
<1> DEFINE S == {n \in Nat : f[n] # NumeralOf[n]}
<1>9. S = {}
  <2> SUFFICES ASSUME S # {} PROVE FALSE
    OBVIOUS
  <2>1. PICK m \in S : \A y \in S : m <= y
    <3>1. S \in SUBSET Nat
      OBVIOUS
    <3> HIDE DEF S
    <3> QED BY <3>1, LeastOf
  <2>2. m \in Nat /\ f[m] # NumeralOf[m]
    BY <2>1
  <2>3. /\ f[m] = IF m < 10 THEN <<m>> ELSE Append(f[m \div 10], m % 10)
        /\ NumeralOf[m] = IF m < 10 THEN <<m>> ELSE Append(NumeralOf[m \div 10], m % 10)
    BY <1>2, <1>8, <2>2
  <2>4. ~(m < 10)
    BY <2>2, <2>3
  <2>5. m \div 10 \in Nat /\ ~(m <= m \div 10)
    BY <2>2, <2>4
  <2>6. f[m \div 10] = NumeralOf[m \div 10]
    BY <2>1, <2>5
  <2> QED BY <2>2, <2>3, <2>6
<1> QED BY <1>1, <1>6, <1>9

Units == [is : {"digit", "count", "letter", "cipher", "iv", "exit", "ack", "zero"},
          n : Int, of : Int]

(* Digits on the connection. *)
AllDigits(s) == s \in Seq(Units) /\ \A i \in 1 .. Len(s) : s[i].is = "digit"

LEMMA LeadingIs ==
  ASSUME NEW s, AllDigits(s) PROVE Leading(s) = s
<1>1. {i \in 1 .. Len(s) : s[i].is # "digit"} = {}
  BY DEF AllDigits
<1>2. SelectInSeq(s, LAMBDA u : u.is # "digit") = 0
  BY <1>1 DEF SelectInSeq
<1> QED BY <1>2 DEF Leading

(* atoi adds up digits from the left. *)
LEMMA AtoiIs ==
  ASSUME NEW s, AllDigits(s), NEW f \in [0 .. Len(s) -> Nat], f[0] = 0,
         \A i \in 1 .. Len(s) : f[i] = 10 * f[i - 1] + s[i].n
  PROVE  Atoi(s) = f[Len(s)]
<1> DEFINE Up(g) == [i \in 0 .. Len(s) |-> IF i = 0 THEN 0 ELSE 10 * g[i - 1] + s[i].n]
<1>1. Len(s) \in Nat
  BY DEF AllDigits
<1>2. \A i \in 0 .. Len(s) : f[i] = IF i = 0 THEN 0 ELSE 10 * f[i - 1] + s[i].n
  <2> SUFFICES ASSUME NEW i \in 0 .. Len(s), i # 0 PROVE f[i] = 10 * f[i - 1] + s[i].n
    OBVIOUS
  <2>1. i \in 1 .. Len(s)
    BY <1>1
  <2> QED BY <2>1
<1>3. f = Up(f)
  <2>1. f = [i \in 0 .. Len(s) |-> f[i]]
    OBVIOUS
  <2> QED BY <1>2, <2>1
<1>4. PICK g : g = CHOOSE h : h = Up(h)
  OBVIOUS
<1>5. g = Up(g)
  BY <1>3, <1>4
<1>6. Atoi(s) = g[Len(s)]
  BY <1>4, LeadingIs DEF Atoi
<1>7. \A i \in 0 .. Len(s) : g[i] = IF i = 0 THEN 0 ELSE 10 * g[i - 1] + s[i].n
  BY <1>5
<1> DEFINE S == {i \in 0 .. Len(s) : g[i] # f[i]}
<1>8. S = {}
  <2> SUFFICES ASSUME S # {} PROVE FALSE
    OBVIOUS
  <2>1. PICK m \in S : \A y \in S : m <= y
    <3>1. S \in SUBSET Nat
      BY <1>1
    <3> HIDE DEF S
    <3> QED BY <3>1, LeastOf
  <2>2. m \in 0 .. Len(s) /\ g[m] # f[m]
    BY <2>1
  <2>3. /\ g[m] = IF m = 0 THEN 0 ELSE 10 * g[m - 1] + s[m].n
        /\ f[m] = IF m = 0 THEN 0 ELSE 10 * f[m - 1] + s[m].n
    BY <1>2, <1>7, <2>2
  <2>4. m # 0
    BY <2>2, <2>3
  <2>5. m - 1 \in 0 .. Len(s) /\ ~(m <= m - 1)
    BY <1>1, <2>2, <2>4
  <2>6. g[m - 1] = f[m - 1]
    BY <2>1, <2>5
  <2> QED BY <2>2, <2>3, <2>6
<1>9. Len(s) \in 0 .. Len(s)
  BY <1>1
<1> QED BY <1>6, <1>8, <1>9

(* A number put into digits, and a digit behind it: what atoi makes of it, *)
(* with the digit and without.                                             *)
LEMMA DigitsRead ==
  ASSUME NEW n \in Nat, NEW d \in 0 .. 9
  PROVE  /\ AllDigits(Digits(n)) /\ Digits(n) # <<>>
         /\ Atoi(Digits(n)) = n
         /\ AllDigits(Append(Digits(n), Unit("digit", d, 0)))
         /\ Atoi(Append(Digits(n), Unit("digit", d, 0))) = 10 * n + d
<1>1. PICK t : t = Decimal[n]
  OBVIOUS
<1>2. Numeral(n, t)
  BY <1>1, DecimalIs
<1>3. PICK k : k = Len(t)
  OBVIOUS
<1>4. t \in Seq(0 .. 9) /\ t # <<>> /\ k \in Nat \ {0}
  BY <1>2, <1>3 DEF Numeral
<1>5. PICK f : /\ f \in [0 .. k -> Nat] /\ f[0] = 0 /\ f[k] = n
               /\ \A i \in 1 .. k : f[i] = 10 * f[i - 1] + t[i]
  BY <1>2, <1>3 DEF Numeral, Reads
<1>6. PICK s : s = Digits(n)
  OBVIOUS
<1>7. s = [i \in 1 .. k |-> Unit("digit", t[i], 0)]
  BY <1>1, <1>3, <1>4, <1>6 DEF Digits
<1>8. \A i \in 1 .. k : t[i] \in Int
  BY <1>3, <1>4
<1>9. \A e \in Int : Unit("digit", e, 0) \in Units /\ Unit("digit", e, 0).is = "digit" /\ Unit("digit", e, 0).n = e
  BY DEF Unit, Units
<1>10. s \in Seq(Units) /\ Len(s) = k /\ s # <<>>
  <2>1. \A i \in 1 .. k : Unit("digit", t[i], 0) \in Units
    BY <1>8, <1>9
  <2>2. s \in Seq(Units)
    BY <1>4, <1>7, <2>1
  <2>3. Len(s) = k
    BY <1>4, <1>7
  <2> QED BY <1>4, <2>2, <2>3
<1>11. \A i \in 1 .. k : s[i].is = "digit" /\ s[i].n = t[i]
  <2>1. \A i \in 1 .. k : s[i] = Unit("digit", t[i], 0)
    BY <1>7
  <2> QED BY <1>8, <1>9, <2>1
<1>12. AllDigits(s)
  BY <1>10, <1>11 DEF AllDigits
<1>13. Atoi(s) = n
  <2>1. f \in [0 .. Len(s) -> Nat] /\ f[0] = 0
    BY <1>5, <1>10
  <2>2. \A i \in 1 .. Len(s) : f[i] = 10 * f[i - 1] + s[i].n
    BY <1>5, <1>10, <1>11
  <2> QED BY <1>5, <1>10, <1>12, <2>1, <2>2, AtoiIs
<1>14. PICK u : u = Unit("digit", d, 0)
  OBVIOUS
<1>15. u \in Units /\ u.is = "digit" /\ u.n = d
  <2>1. d \in Int
    OBVIOUS
  <2> QED BY <1>9, <1>14, <2>1
<1>16. PICK v : v = Append(s, u)
  OBVIOUS
<1>17. /\ v \in Seq(Units) /\ Len(v) = k + 1 /\ v[k + 1] = u
       /\ \A i \in 1 .. k : v[i] = s[i]
  BY <1>4, <1>10, <1>15, <1>16
<1>18. AllDigits(v)
  <2> SUFFICES ASSUME NEW i \in 1 .. k + 1 PROVE v[i].is = "digit"
    BY <1>17 DEF AllDigits
  <2>1. i = k + 1 \/ i \in 1 .. k
    BY <1>4
  <2> QED BY <1>11, <1>15, <1>17, <2>1
<1>19. Atoi(v) = 10 * n + d
  <2>1. PICK e : e = 10 * n + d
    OBVIOUS
  <2>2. e \in Nat
    BY <2>1
  <2> DEFINE g == [i \in 0 .. k + 1 |-> IF i = k + 1 THEN e ELSE f[i]]
  <2>3. g \in [0 .. k + 1 -> Nat]
    <3>1. \A i \in 0 .. k + 1 : (IF i = k + 1 THEN e ELSE f[i]) \in Nat
      BY <1>4, <1>5, <2>2
    <3> QED BY <3>1
  <2>4. g[0] = 0 /\ g[k] = n /\ g[k + 1] = e /\ \A i \in 0 .. k : g[i] = f[i]
    BY <1>4, <1>5
  <2> HIDE DEF g
  <2>5. \A i \in 1 .. k + 1 : g[i] = 10 * g[i - 1] + v[i].n
    <3> SUFFICES ASSUME NEW i \in 1 .. k + 1 PROVE g[i] = 10 * g[i - 1] + v[i].n
      OBVIOUS
    <3>1. CASE i = k + 1
      <4>1. i - 1 = k
        BY <1>4, <3>1
      <4> QED BY <1>15, <1>17, <2>1, <2>4, <3>1, <4>1
    <3>2. CASE i # k + 1
      <4>1. i \in 1 .. k /\ i \in 0 .. k /\ i - 1 \in 0 .. k
        BY <1>4, <3>2
      <4> QED BY <1>5, <1>11, <1>17, <2>4, <4>1
    <3> QED BY <3>1, <3>2
  <2>6. g \in [0 .. Len(v) -> Nat] /\ \A i \in 1 .. Len(v) : g[i] = 10 * g[i - 1] + v[i].n
    BY <1>17, <2>3, <2>5
  <2>7. Atoi(v) = g[Len(v)]
    BY <1>18, <2>4, <2>6, AtoiIs
  <2> QED BY <1>17, <2>1, <2>4, <2>7
<1> QED BY <1>6, <1>10, <1>12, <1>13, <1>14, <1>16, <1>18, <1>19

(* A ciphertext has its blocks and its vector, and decrypts to its bucket. *)
LEMMA EncryptedIs ==
  ASSUME NEW b \in Nat
  PROVE  /\ Encrypted(b) \in Seq(Units)
         /\ Len(Encrypted(b)) = Slice
         /\ Slice \in Nat /\ Slice >= 2
         /\ Decrypted(Encrypted(b)) = b
<1>1. PICK k : k = CipherBlocks
  OBVIOUS
<1>2. k \in Nat \ {0} /\ Slice = k + 1
  BY <1>1, ConnectionAssumption DEF CipherBlocks, Slice
<1>3. PICK t, v : t = [i \in 1 .. k |-> Unit("cipher", i, b)] /\ v = Unit("iv", 0, b)
  OBVIOUS
<1>4. \A i \in Nat : Unit("cipher", i, b) \in Units
  BY DEF Unit, Units
<1>5. v \in Units
  BY <1>3 DEF Unit, Units
<1>6. t \in Seq(Units) /\ Len(t) = k /\ t[1] = Unit("cipher", 1, b)
  BY <1>2, <1>3, <1>4
<1>7. PICK s : s = Encrypted(b)
  OBVIOUS
<1>8. s = Append(t, v)
  BY <1>1, <1>3, <1>7 DEF Encrypted
<1>9. s \in Seq(Units) /\ Len(s) = k + 1 /\ s[k + 1] = v /\ s[1] = t[1]
  BY <1>2, <1>5, <1>6, <1>8
<1>10. s[1].of = b
  BY <1>6, <1>9 DEF Unit
<1>11. VectorOf(s) = v
  BY <1>9 DEF VectorOf, Last
<1>12. Decrypted(s) = b
  <2>1. Len(s) = CipherBlocks + 1
    BY <1>1, <1>9
  <2>2. TextOf(s) = TextOf(Encrypted(s[1].of)) /\ VectorOf(s) = Unit("iv", 0, s[1].of)
    BY <1>3, <1>7, <1>10, <1>11
  <2> QED BY <1>10, <2>1, <2>2 DEF Decrypted
<1> QED BY <1>2, <1>7, <1>9, <1>12

(* One sequence after the other. *)
LEMMA AfterOther ==
  ASSUME NEW a \in Seq(Units), NEW b \in Seq(Units)
  PROVE  \E c : /\ c = a \o b
                /\ c \in Seq(Units) /\ Len(c) = Len(a) + Len(b)
                /\ \A i \in 1 .. Len(a) : c[i] = a[i]
                /\ \A i \in 1 .. Len(b) : c[Len(a) + i] = b[i]
<1>1. PICK c : c = a \o b
  OBVIOUS
<1>2. c \in Seq(Units) /\ Len(c) = Len(a) + Len(b)
  BY <1>1
<1>3. \A i \in 1 .. Len(a) : c[i] = a[i]
  BY <1>1
<1>4. \A i \in 1 .. Len(b) : c[Len(a) + i] = b[i]
  BY <1>1
<1> QED BY <1>1, <1>2, <1>3, <1>4

(* What is no "exit" is not taken for it. *)
LEMMA NoExit ==
  ASSUME NEW s, Last(s).is # "exit" PROVE ~IsExit(s)
<1> SUFFICES ASSUME IsExit(s) PROVE FALSE
  OBVIOUS
<1>1. s = <<Exit>>
  BY DEF IsExit
<1>2. Last(s) = Exit
  BY <1>1 DEF Last
<1> QED BY <1>2 DEF Exit, Unit

(* The tag of a layer is a digit, and tells it.                            *)
LEMMA TagTwice ==
  ASSUME NEW l \in Layers PROVE Tag(l) \in 0 .. 9 /\ Tag(Tag(l)) = l
BY ConnectionAssumption DEF Tag

(* The server makes of a fetch what the client put into it. *)
LEMMA FetchInverts ==
  ASSUME NEW l \in Layers, NEW n \in Nat
  PROVE  /\ Frame(Fetch(l, n)) \in Seq(Units) /\ Frame(Fetch(l, n)) # <<>>
         /\ Parsed(Frame(Fetch(l, n))) = Fetch(l, n)
<1>1. PICK d : d = Tag(l)
  OBVIOUS
<1>2. d \in 0 .. 9 /\ Tag(d) = l
  BY <1>1, TagTwice
<1>3. PICK s, u : s = Digits(n) /\ u = Unit("digit", d, 0)
  OBVIOUS
<1>4. PICK v : v = Append(s, u)
  OBVIOUS
<1>5. AllDigits(s) /\ s # <<>> /\ AllDigits(v) /\ Atoi(v) = 10 * n + d
  BY <1>2, <1>3, <1>4, DigitsRead
<1>6. Frame(Fetch(l, n)) = v
  BY <1>1, <1>3, <1>4 DEF Frame, Fetch
<1>7. u \in Units /\ u.is = "digit" /\ u.n = d
  BY <1>2, <1>3 DEF Unit, Units
<1>8. v \in Seq(Units) /\ v # <<>> /\ Last(v) = u
  BY <1>4, <1>5, <1>7 DEF AllDigits, Last
<1>9. FetchedLeaf(v) = n
  BY <1>2, <1>5 DEF FetchedLeaf
<1>10. Parsed(v) = Fetch(Tag(d), n)
  <2>1. Last(v).is = "digit" /\ Last(v).n = d
    BY <1>7, <1>8
  <2>2. ~IsExit(v)
    BY <2>1, NoExit
  <2> QED BY <1>8, <1>9, <2>1, <2>2 DEF Parsed
<1> QED BY <1>2, <1>6, <1>8, <1>10

(* what stands in the middle of a frame *)
LEMMA InTheMiddle ==
  ASSUME NEW a \in Seq(Units), NEW b \in Seq(Units), NEW c \in Seq(Units)
  PROVE  SubSeq(a \o b \o c, Len(a) + 1, Len(a) + Len(b)) = b
<1>1. PICK s : s = a \o b \o c
  OBVIOUS
<1>2. PICK m, n : m = Len(a) /\ n = Len(b)
  OBVIOUS
<1>3. m \in Nat /\ n \in Nat /\ s \in Seq(Units) /\ Len(s) = m + n + Len(c) /\ Len(c) \in Nat
  BY <1>1, <1>2
<1>4. \A i \in 1 .. n : s[m + i] = b[i]
  BY <1>1, <1>2
<1>5. PICK t : t = SubSeq(s, m + 1, m + n)
  OBVIOUS
<1>6. t \in Seq(Units) /\ Len(t) = n
  BY <1>3, <1>5
<1>7. \A i \in 1 .. n : t[i] = s[m + i]
  BY <1>3, <1>5
<1>8. \A i \in 1 .. n : t[i] = b[i]
  BY <1>4, <1>7
<1>9. t = b
  BY <1>2, <1>6, <1>8
<1> QED BY <1>1, <1>2, <1>5, <1>9

(* And of a written bucket. *)
LEMMA WriteInverts ==
  ASSUME NEW l \in Layers, NEW n \in Nat
  PROVE  /\ Frame(Write(l, n)) \in Seq(Units) /\ Frame(Write(l, n)) # <<>>
         /\ Parsed(Frame(Write(l, n))) = Write(l, n)
<1>1. PICK d : d = Tag(l)
  OBVIOUS
<1>2. d \in 0 .. 9 /\ Tag(d) = l
  BY <1>1, TagTwice
<1>3. PICK a, b : a = Encrypted(n) /\ b = Digits(n)
  OBVIOUS
<1>4. AllDigits(b) /\ Atoi(b) = n /\ a \in Seq(Units) /\ b \in Seq(Units)
  <2>1. 0 \in 0 .. 9
    OBVIOUS
  <2> QED BY <1>3, <2>1, DigitsRead, EncryptedIs DEF AllDigits
<1>5. PICK p, q : p = Unit("count", Len(b), 0) /\ q = Unit("letter", d, 0)
  OBVIOUS
<1>6. Len(b) \in Nat /\ Len(a) \in Nat
  BY <1>4
<1>7. /\ p \in Units /\ p.n = Len(b)
      /\ q \in Units /\ q.is = "letter" /\ q.n = d
  BY <1>2, <1>5, <1>6 DEF Unit, Units
<1>8. PICK c : c = <<p, q>>
  OBVIOUS
<1>9. c \in Seq(Units) /\ Len(c) = 2 /\ c[1] = p /\ c[2] = q
  BY <1>7, <1>8
<1>10. PICK s : s = a \o b \o c
  OBVIOUS
<1>11. Frame(Write(l, n)) = s
  BY <1>1, <1>3, <1>5, <1>8, <1>10 DEF Frame, Write
<1>12. /\ s \in Seq(Units) /\ Len(s) = Len(a) + Len(b) + 2
       /\ s[Len(s)] = q /\ s[Len(s) - 1] = p
  <2>1. PICK e : /\ e = a \o b
                 /\ e \in Seq(Units) /\ Len(e) = Len(a) + Len(b)
    BY <1>4, AfterOther
  <2>2. PICK t : /\ t = e \o c
                 /\ t \in Seq(Units) /\ Len(t) = Len(e) + Len(c)
                 /\ \A i \in 1 .. Len(e) : t[i] = e[i]
                 /\ \A i \in 1 .. Len(c) : t[Len(e) + i] = c[i]
    BY <1>9, <2>1, AfterOther
  <2>3. s = t
    BY <1>10, <2>1, <2>2
  <2>4. t[Len(e) + 1] = c[1] /\ t[Len(e) + 2] = c[2]
    BY <1>9, <2>2
  <2>5. Len(t) = Len(e) + 2 /\ Len(t) - 1 = Len(e) + 1
    BY <1>6, <1>9, <2>1, <2>2
  <2> QED BY <1>6, <1>9, <2>1, <2>2, <2>3, <2>4, <2>5
<1>14. SubSeq(s, Len(a) + 1, Len(a) + Len(b)) = b
  BY <1>4, <1>9, <1>10, InTheMiddle
<1>15. WrittenIndex(s) = n
  <2>1. Len(s) - 1 - Len(b) = Len(a) + 1 /\ Len(s) - 2 = Len(a) + Len(b)
    BY <1>6, <1>12
  <2>2. WrittenIndex(s) = Atoi(SubSeq(s, Len(s) - 1 - Len(b), Len(s) - 2))
    BY <1>7, <1>12 DEF WrittenIndex
  <2> QED BY <1>4, <1>14, <2>1, <2>2
<1>16. s # <<>> /\ Last(s) = q
  BY <1>6, <1>12 DEF Last
<1>17. Parsed(s) = Write(Tag(d), n)
  <2>1. Last(s).is = "letter" /\ Last(s).n = d
    BY <1>7, <1>16
  <2>2. ~IsExit(s)
    BY <2>1, NoExit
  <2> QED BY <1>15, <1>16, <2>1, <2>2 DEF Parsed
<1> QED BY <1>2, <1>11, <1>12, <1>16, <1>17

(* And of the end.                                                         *)
LEMMA ExitInverts ==
  Frame(Ended) \in Seq(Units) /\ Frame(Ended) # <<>> /\ Parsed(Frame(Ended)) = Ended
<1>1. PICK u : u = Exit
  OBVIOUS
<1>2. u \in Units /\ u.is = "exit"
  BY <1>1 DEF Exit, Unit, Units
<1>3. Frame(Ended) = <<u>>
  BY <1>1 DEF Frame, Ended
<1>4. <<u>> \in Seq(Units) /\ <<u>> # <<>> /\ Last(<<u>>) = u
  BY <1>2 DEF Last
<1>5. IsExit(<<u>>)
  BY <1>1 DEF IsExit
<1>6. Parsed(<<u>>) = Ended
  BY <1>2, <1>4, <1>5 DEF Parsed
<1> QED BY <1>3, <1>4, <1>6

(* Putting sequences one after the other, step by step. *)
Steps(g, k, seqs) ==
  /\ g \in [1 .. k -> Seq(Units)]
  /\ \A i \in 1 .. k : g[i] = IF i = 1 THEN seqs[i] ELSE g[i - 1] \o seqs[i]

(* It can be done.                                                         *)
LEMMA SomeSteps ==
  ASSUME NEW seqs \in Seq(Seq(Units)), NEW k \in 1 .. Len(seqs)
  PROVE  \E g : Steps(g, k, seqs)
<1> DEFINE S == {m \in 1 .. Len(seqs) : ~ \E g : Steps(g, m, seqs)}
<1>0. Len(seqs) \in Nat /\ \A i \in 1 .. Len(seqs) : seqs[i] \in Seq(Units)
  OBVIOUS
<1>1. S = {}
  <2> SUFFICES ASSUME S # {} PROVE FALSE
    OBVIOUS
  <2>1. PICK m \in S : \A y \in S : m <= y
    <3>1. S \in SUBSET Nat
      BY <1>0
    <3> HIDE DEF S
    <3> QED BY <3>1, LeastOf
  <2>2. m \in 1 .. Len(seqs) /\ ~ \E g : Steps(g, m, seqs)
    BY <2>1
  <2>3. CASE m = 1
    <3> DEFINE g == [i \in 1 .. 1 |-> seqs[1]]
    <3>1. seqs[1] \in Seq(Units)
      BY <1>0, <2>2, <2>3
    <3>2. g \in [1 .. 1 -> Seq(Units)] /\ \A i \in 1 .. 1 : i = 1 /\ g[i] = seqs[i]
      BY <3>1
    <3> HIDE DEF g
    <3>3. Steps(g, m, seqs)
      BY <2>3, <3>2 DEF Steps
    <3> QED BY <2>2, <3>3
  <2>4. CASE m # 1
    <3>1. PICK n : n = m - 1
      OBVIOUS
    <3>2. n \in 1 .. Len(seqs) /\ m = n + 1 /\ ~(m <= n) /\ n \in 1 .. n
      BY <1>0, <2>2, <2>4, <3>1
    <3>3. PICK f : Steps(f, n, seqs)
      BY <2>1, <3>2
    <3>4. PICK t : t = f[n] \o seqs[m]
      OBVIOUS
    <3>5. t \in Seq(Units)
      BY <1>0, <2>2, <3>2, <3>3, <3>4 DEF Steps
    <3> DEFINE g == [i \in 1 .. m |-> IF i = m THEN t ELSE f[i]]
    <3>6. \A i \in 1 .. m : i = m \/ i \in 1 .. n
      BY <1>0, <3>2
    <3>7. g \in [1 .. m -> Seq(Units)]
      <4>1. \A i \in 1 .. m : (IF i = m THEN t ELSE f[i]) \in Seq(Units)
        BY <3>3, <3>5, <3>6 DEF Steps
      <4> QED BY <4>1
    <3>8. g[m] = t /\ \A i \in 1 .. n : g[i] = f[i]
      <4>1. m \in 1 .. m /\ \A i \in 1 .. n : i \in 1 .. m /\ i # m
        BY <1>0, <3>2
      <4> QED BY <4>1
    <3> HIDE DEF g
    <3>9. ASSUME NEW i \in 1 .. m
          PROVE  g[i] = IF i = 1 THEN seqs[i] ELSE g[i - 1] \o seqs[i]
      <4>1. CASE i = m
        <5>1. i # 1 /\ i - 1 = n
          BY <2>4, <3>1, <4>1
        <5> QED BY <3>2, <3>4, <3>8, <4>1, <5>1
      <4>2. CASE i # m
        <5>1. i \in 1 .. n /\ (i # 1 => i - 1 \in 1 .. n)
          BY <1>0, <3>2, <3>6, <4>2
        <5>2. f[i] = IF i = 1 THEN seqs[i] ELSE f[i - 1] \o seqs[i]
          BY <3>3, <5>1 DEF Steps
        <5> QED BY <3>8, <5>1, <5>2
      <4> QED BY <4>1, <4>2
    <3>10. Steps(g, m, seqs)
      BY <3>7, <3>9 DEF Steps
    <3> QED BY <2>2, <3>10
  <2> QED BY <2>3, <2>4
<1> QED BY <1>1

(* It is what ORAM::FetchPath does with the buckets of an answer.          *)
LEMMA FlattenIs ==
  ASSUME NEW seqs \in Seq(Seq(Units)), seqs # <<>>
  PROVE  \E g : Steps(g, Len(seqs), seqs) /\ FlattenSeq(seqs) = g[Len(seqs)]
<1>1. PICK n : n = Len(seqs)
  OBVIOUS
<1>2. n \in Nat \ {0} /\ n \in 1 .. n
  BY <1>1
<1> DEFINE Up(h) == [i \in 1 .. n |-> IF i = 1 THEN seqs[i] ELSE h[i - 1] \o seqs[i]]
<1>3. PICK g : Steps(g, n, seqs)
  BY <1>1, <1>2, SomeSteps
<1>4. g = Up(g)
  BY <1>3 DEF Steps
<1>5. PICK f : f = CHOOSE h : h = Up(h)
  OBVIOUS
<1>6. f = Up(f)
  BY <1>4, <1>5
<1>7. FlattenSeq(seqs) = f[n]
  BY <1>1, <1>2, <1>5 DEF FlattenSeq
<1>8. \A i \in 1 .. n : f[i] = IF i = 1 THEN seqs[i] ELSE f[i - 1] \o seqs[i]
  BY <1>6
<1> DEFINE S == {i \in 1 .. n : f[i] # g[i]}
<1>9. S = {}
  <2> SUFFICES ASSUME S # {} PROVE FALSE
    OBVIOUS
  <2>1. PICK m \in S : \A y \in S : m <= y
    <3>1. S \in SUBSET Nat
      BY <1>2
    <3> HIDE DEF S
    <3> QED BY <3>1, LeastOf
  <2>2. m \in 1 .. n /\ f[m] # g[m]
    BY <2>1
  <2>3. /\ f[m] = IF m = 1 THEN seqs[m] ELSE f[m - 1] \o seqs[m]
        /\ g[m] = IF m = 1 THEN seqs[m] ELSE g[m - 1] \o seqs[m]
    BY <1>3, <1>8, <2>2 DEF Steps
  <2>4. m # 1
    BY <2>2, <2>3
  <2>5. m - 1 \in 1 .. n /\ ~(m <= m - 1)
    BY <1>2, <2>2, <2>4
  <2>6. f[m - 1] = g[m - 1]
    BY <2>1, <2>5
  <2> QED BY <2>2, <2>3, <2>4, <2>6
<1>10. f[n] = g[n]
  BY <1>2, <1>9
<1> QED BY <1>1, <1>3, <1>7, <1>10

(* where the part p of a sequence of parts of equal length begins and ends *)
PartOf(s, p) == SubSeq(s, (p - 1) * Slice + 1, p * Slice)

(* A part before where they differ. *)
LEMMA SamePart ==
  ASSUME NEW a \in Seq(Units), NEW c \in Seq(Units), NEW w \in Nat, NEW z \in Nat,
         Len(a) = w, Len(c) = w + z, \A j \in 1 .. w : c[j] = a[j],
         NEW u \in Nat, NEW v \in Nat, v <= w
  PROVE  SubSeq(c, u + 1, v) = SubSeq(a, u + 1, v)
<1>1. PICK n : n = IF u + 1 <= v THEN v - u ELSE 0
  OBVIOUS
<1>2. n \in Nat /\ (n # 0 => u + n = v)
  BY <1>1
<1>3. PICK s, t : s = SubSeq(c, u + 1, v) /\ t = SubSeq(a, u + 1, v)
  OBVIOUS
<1>4. s = [j \in 1 .. n |-> c[j + u]] /\ t = [j \in 1 .. n |-> a[j + u]]
  BY <1>1, <1>3
<1>5. \A j \in 1 .. n : j + u \in 1 .. w
  BY <1>2
<1>6. s = t
  BY <1>4, <1>5
<1> QED BY <1>3, <1>6

(* Parts of equal length are found again where they were put. *)
LEMMA PartsFound ==
  ASSUME NEW seqs \in Seq(Seq(Units)), NEW n, n = Len(seqs), Slice \in Nat,
         \A p \in 1 .. n : Len(seqs[p]) = Slice,
         NEW g, Steps(g, n, seqs), NEW k \in 1 .. n
  PROVE  /\ Len(g[k]) = k * Slice
         /\ \A p \in 1 .. k : PartOf(g[k], p) = seqs[p]
<1>1. PICK z : z = Slice
  OBVIOUS
<1>2. n \in Nat /\ z \in Nat /\ \A p \in 1 .. n : seqs[p] \in Seq(Units) /\ Len(seqs[p]) = z
  BY <1>1
<1>3. /\ \A i \in 1 .. n : g[i] \in Seq(Units)
      /\ \A i \in 1 .. n : g[i] = IF i = 1 THEN seqs[i] ELSE g[i - 1] \o seqs[i]
  BY DEF Steps
<1> DEFINE Right(i) == /\ Len(g[i]) = i * z
                       /\ \A p \in 1 .. i : SubSeq(g[i], (p - 1) * z + 1, p * z) = seqs[p]
           S == {m \in 1 .. n : ~Right(m)}
<1>4. S = {}
  <2> SUFFICES ASSUME S # {} PROVE FALSE
    OBVIOUS
  <2>1. PICK m \in S : \A y \in S : m <= y
    <3>1. S \in SUBSET Nat
      BY <1>2
    <3> HIDE DEF S
    <3> QED BY <3>1, LeastOf
  <2>2. m \in 1 .. n /\ ~Right(m)
    BY <2>1
  <2>3. CASE m = 1
    <3>1. g[1] = seqs[1] /\ seqs[1] \in Seq(Units) /\ Len(seqs[1]) = z
      BY <1>2, <1>3, <2>2, <2>3
    <3>2. (1 - 1) * z + 1 = 1 /\ 1 * z = z
      BY <1>2
    <3>3. SubSeq(seqs[1], 1, z) = seqs[1]
      BY <1>2, <3>1
    <3>4. \A p \in 1 .. 1 : p = 1
      OBVIOUS
    <3>5. Right(1)
      BY <3>1, <3>2, <3>3, <3>4
    <3> QED BY <2>2, <2>3, <3>5
  <2>4. CASE m # 1
    <3>1. PICK i : i = m - 1
      OBVIOUS
    <3>2. i \in 1 .. n /\ m = i + 1 /\ ~(m <= i)
      BY <1>2, <2>2, <2>4, <3>1
    <3>3. Right(i)
      BY <2>1, <3>2
    <3>4. PICK a, b : a = g[i] /\ b = seqs[m]
      OBVIOUS
    <3>5. /\ a \in Seq(Units) /\ b \in Seq(Units) /\ Len(b) = z /\ Len(a) = i * z
          /\ g[m] = a \o b /\ i * z \in Nat /\ m * z = i * z + z
      <4>1. a \in Seq(Units) /\ b \in Seq(Units) /\ Len(b) = z
        BY <1>2, <1>3, <2>2, <3>2, <3>4
      <4>2. Len(a) = i * z
        BY <3>3, <3>4
      <4>3. g[m] = a \o b
        BY <1>3, <2>2, <2>4, <3>1, <3>4
      <4>4. i \in Nat /\ i * z \in Nat /\ m * z = i * z + z
        <5>1. \A x, y \in Nat : x * y \in Nat /\ (x + 1) * y = x * y + y
          OBVIOUS
        <5>2. i \in Nat
          BY <1>2, <3>2
        <5> QED BY <1>2, <3>2, <5>1, <5>2
      <4> QED BY <4>1, <4>2, <4>3, <4>4
    <3>6. PICK c : /\ c = a \o b
                   /\ c \in Seq(Units) /\ Len(c) = Len(a) + Len(b)
                   /\ \A j \in 1 .. Len(a) : c[j] = a[j]
                   /\ \A j \in 1 .. Len(b) : c[Len(a) + j] = b[j]
      BY <3>5, AfterOther
    <3>7. SubSeq(a \o b, (m - 1) * z + 1, m * z) = b
      <4>1. SubSeq(a \o b \o <<>>, Len(a) + 1, Len(a) + Len(b)) = b
        <5>1. <<>> \in Seq(Units)
          OBVIOUS
        <5> QED BY <3>5, <5>1, InTheMiddle
      <4>2. a \o b \o <<>> = a \o b
        BY <3>5
      <4>3. (m - 1) * z + 1 = Len(a) + 1 /\ m * z = Len(a) + Len(b)
        BY <3>1, <3>5
      <4> QED BY <4>1, <4>2, <4>3
    <3>8. ASSUME NEW p \in 1 .. i PROVE SubSeq(a \o b, (p - 1) * z + 1, p * z) = seqs[p]
      <4>1. PICK u, v : u = (p - 1) * z /\ v = p * z
        OBVIOUS
      <4>2. u \in Nat /\ v \in Nat /\ v <= i * z
        <5>1. \A x, y \in Nat : x * y \in Nat
          OBVIOUS
        <5>2. p - 1 \in Nat /\ p \in Nat /\ i \in Nat /\ p <= i
          BY <3>2
        <5>3. p * z <= i * z
          BY <1>2, <5>2
        <5> QED BY <1>2, <4>1, <5>1, <5>2, <5>3
      <4>3. SubSeq(a \o b, u + 1, v) = SubSeq(a, u + 1, v)
        <5>1. PICK w : w = i * z
          OBVIOUS
        <5>2. w \in Nat /\ Len(a) = w /\ v <= w
          BY <3>5, <4>2, <5>1
        <5>3. c \in Seq(Units) /\ Len(c) = w + z /\ \A j \in 1 .. w : c[j] = a[j]
          BY <3>5, <3>6, <5>1, <5>2
        <5>4. SubSeq(c, u + 1, v) = SubSeq(a, u + 1, v)
          BY <1>2, <3>5, <4>2, <5>2, <5>3, SamePart, SMTT(30)
        <5> QED BY <3>6, <5>4
      <4>4. SubSeq(a, u + 1, v) = seqs[p]
        BY <3>3, <3>4, <4>1
      <4> QED BY <4>1, <4>3, <4>4
    <3>9. Right(m)
      <4>1. \A p \in 1 .. m : p = m \/ p \in 1 .. i
        BY <1>2, <3>2
      <4>2. Len(g[m]) = m * z
        BY <3>5, <3>6
      <4>3. \A p \in 1 .. m : SubSeq(g[m], (p - 1) * z + 1, p * z) = seqs[p]
        BY <3>4, <3>5, <3>7, <3>8, <4>1
      <4> QED BY <4>2, <4>3
    <3> QED BY <2>2, <3>9
  <2> QED BY <2>3, <2>4
<1>5. Right(k)
  BY <1>4
<1> QED BY <1>1, <1>5 DEF PartOf

(* The client makes of an answer the buckets the server put into it. *)
LEMMA AnswerInverts ==
  ASSUME NEW a \in Answers
  PROVE  /\ PathFrame(a) \in Seq(Units) /\ PathFrame(a) # <<>>
         /\ Sliced(PathFrame(a)) = a
<1>1. PICK n \in 0 .. MaxPath : a \in [1 .. n -> Indices]
  BY DEF Answers
<1>2. n \in Nat /\ a \in Seq(Indices) /\ Len(a) = n /\ a = [i \in 1 .. n |-> a[i]]
  BY <1>1, ConnectionAssumption
<1>3. CASE n = 0
  <2>1. a = <<>>
    BY <1>2, <1>3
  <2>2. PathFrame(a) = <<Zero>>
    BY <2>1 DEF PathFrame
  <2>3. Zero \in Units
    BY DEF Zero, Unit, Units
  <2>4. <<Zero>> \in Seq(Units) /\ <<Zero>> # <<>>
    BY <2>3
  <2> QED BY <2>1, <2>2, <2>4 DEF Sliced
<1>4. CASE n # 0
  <2>1. a # <<>> /\ n \in 1 .. n
    BY <1>2, <1>4
  <2>2. PICK seqs : seqs = [i \in 1 .. n |-> Encrypted(a[i])]
    OBVIOUS
  <2>3. \A i \in 1 .. n : a[i] \in Nat
    BY <1>1, ConnectionAssumption
  <2>4. \A i \in 1 .. n : /\ seqs[i] \in Seq(Units) /\ Len(seqs[i]) = Slice
                          /\ Decrypted(seqs[i]) = a[i]
    BY <2>2, <2>3, EncryptedIs
  <2>5. seqs \in Seq(Seq(Units)) /\ Len(seqs) = n /\ seqs # <<>>
    <3>1. seqs \in [1 .. n -> Seq(Units)]
      BY <2>2, <2>4
    <3>2. \A S : \A f \in [1 .. n -> S] : f \in Seq(S) /\ Len(f) = n
      BY <1>2
    <3>3. seqs \in Seq(Seq(Units)) /\ Len(seqs) = n
      BY <3>1, <3>2
    <3>4. Len(<<>>) = 0
      OBVIOUS
    <3> QED BY <1>4, <3>3, <3>4
  <2>6. PICK z : z = Slice
    OBVIOUS
  <2>7. z \in Nat /\ z >= 2
    BY <2>6, ConnectionAssumption DEF Slice, CipherBlocks
  <2>8. PICK g : Steps(g, n, seqs) /\ FlattenSeq(seqs) = g[n]
    BY <2>5, FlattenIs
  <2>9. PICK s : s = g[n]
    OBVIOUS
  <2>10. s \in Seq(Units) /\ Len(s) = n * z /\ \A p \in 1 .. n : PartOf(s, p) = seqs[p]
    <3>1. Slice \in Nat /\ \A p \in 1 .. n : Len(seqs[p]) = Slice
      BY <2>4, <2>6, <2>7
    <3>2. Len(g[n]) = n * Slice /\ \A p \in 1 .. n : PartOf(g[n], p) = seqs[p]
      BY <2>1, <2>5, <2>8, <3>1, PartsFound
    <3> QED BY <2>1, <2>6, <2>8, <2>9, <3>2 DEF Steps
  <2>11. PathFrame(a) = s
    <3>1. DOMAIN a = 1 .. n
      BY <1>2
    <3> QED BY <2>1, <2>2, <2>8, <2>9, <3>1 DEF PathFrame
  <2>12. n * z \in Nat /\ n * z >= 2 /\ (n * z + z - 1) \div z = n
    <3>1. n * z \in Nat /\ n * z >= z
      <4>1. \A x \in Nat \ {0}, y \in Nat : x * y \in Nat /\ x * y >= y
        OBVIOUS
      <4> QED BY <1>2, <1>4, <2>7, <4>1
    <3>2. PICK w : w = z - 1
      OBVIOUS
    <3>3. w \in Nat /\ w < z /\ z \in Nat \ {0} /\ n * z + z - 1 = w + n * z
      BY <2>7, <3>1, <3>2
    <3>4. (w + n * z) \div z = (w \div z) + n
      BY <1>2, <3>3, QuotientOfSum
    <3>5. w \div z = 0
      BY <3>3
    <3> QED BY <1>2, <2>7, <3>1, <3>3, <3>4, <3>5
  <2>13. s # <<Zero>> /\ s # <<>>
    BY <2>10, <2>12
  <2>14. Sliced(s) = [i \in 1 .. n |-> Decrypted(SubSeq(s, (i - 1) * z + 1, i * z))]
    <3>1. Sliced(s) = [i \in 1 .. n |-> Decrypted(SubSeq(s, (i - 1) * z + 1,
                         IF i * z <= Len(s) THEN i * z ELSE Len(s)))]
      BY <2>6, <2>10, <2>12, <2>13 DEF Sliced
    <3>2. \A i \in 1 .. n : i * z <= Len(s)
      <4>1. \A i \in 1 .. n : i * z <= n * z
        BY <1>2, <2>7
      <4> QED BY <2>10, <4>1
    <3> QED BY <3>1, <3>2
  <2>15. \A i \in 1 .. n : Decrypted(SubSeq(s, (i - 1) * z + 1, i * z)) = a[i]
    BY <2>4, <2>6, <2>10 DEF PartOf
  <2>16. Sliced(s) = a
    BY <1>2, <2>14, <2>15
  <2> QED BY <2>10, <2>11, <2>13, <2>16
<1> QED BY <1>3, <1>4

(* The code that takes a frame apart (server::init, Fetch...Path) undoes   *)
(* the code that builds it (Write...Path, ORAM::FetchPath): the index of a *)
(* bucket is found behind a ciphertext, a leaf before the digit that is    *)
(* its tag, and an answer falls into as many buckets as were sent.         *)
IsFrame(s) == s \in Seq(Units) /\ s # <<>>
LEMMA FramesInvert ==
  /\ \A r \in Requests \union {Ended} : IsFrame(Frame(r)) /\ Parsed(Frame(r)) = r
  /\ \A a \in Answers : IsFrame(PathFrame(a)) /\ Sliced(PathFrame(a)) = a
<1>1. ASSUME NEW r \in Requests \union {Ended}
      PROVE  IsFrame(Frame(r)) /\ Parsed(Frame(r)) = r
  <2>1. CASE r = Ended
    BY <2>1, ExitInverts DEF IsFrame
  <2>2. CASE \E l \in Layers, n \in Leaves : r = Fetch(l, n)
    <3>1. PICK l \in Layers, n \in Leaves : r = Fetch(l, n)
      BY <2>2
    <3>2. n \in Nat
      BY ConnectionAssumption
    <3> QED BY <3>1, <3>2, FetchInverts DEF IsFrame
  <2>3. CASE \E l \in Layers, n \in Indices : r = Write(l, n)
    <3>1. PICK l \in Layers, n \in Indices : r = Write(l, n)
      BY <2>3
    <3>2. n \in Nat
      BY ConnectionAssumption
    <3> QED BY <3>1, <3>2, WriteInverts DEF IsFrame
  <2> QED BY <2>1, <2>2, <2>3 DEF Requests
<1>2. ASSUME NEW a \in Answers
      PROVE  IsFrame(PathFrame(a)) /\ Sliced(PathFrame(a)) = a
  BY AnswerInverts DEF IsFrame
<1> QED BY <1>1, <1>2

-----------------------------------------------------------------------------
(* A recv returns what was sent, which the code takes for granted and TCP  *)
(* does not promise (run answer_in_parts).                                 *)
WholeRecvs == InParts = {}

Gone(process) == ~Alive(process)
Quiet == toServer = <<>> /\ toClient = <<>>

(* what a client that waits waits for *)
AskedFor ==
  \/ toServer = Frame(request) /\ toClient = <<>>
  \/ /\ toServer = <<>>
     /\ heard = request
     /\ \/ request.op = "fetch" /\ answer \in Answers /\ toClient = PathFrame(answer)
        \/ request.op = "write" /\ toClient = <<Ack>>
  \/ Gone(server) /\ Quiet

InStep ==
  /\ client \in {"start", "ready", "waits", "ended", "dead"}
  /\ server \in {"start", "listens", "serves", "stopped", "dead"}
  /\ toServer = <<>> \/ (request \in Requests \union {Ended} /\ toServer = Frame(request))
  /\ toClient \in Seq(Units)
  /\ client \in {"start", "ready"} => Quiet
  /\ client = "waits" => request \in Requests /\ AskedFor
  /\ server \in {"start", "listens"} => client \in {"start", "dead"}
  /\ server # "serves" => toServer = <<>>

-----------------------------------------------------------------------------
LEMMA AllOfIt ==
  ASSUME WholeRecvs, NEW s \in Seq(Units), NEW process, NEW n \in Received(s, process)
  PROVE  /\ s # <<>>
         /\ SubSeq(s, 1, n) = s
         /\ SubSeq(s, n + 1, Len(s)) = <<>>
<1>1. n = Len(s) /\ n # 0
  BY DEF Received, WholeRecvs
<1>2. s # <<>>
  BY <1>1
<1>3. SubSeq(s, 1, Len(s)) = s
  OBVIOUS
<1>4. SubSeq(s, Len(s) + 1, Len(s)) = <<>>
  OBVIOUS
<1> QED BY <1>1, <1>2, <1>3, <1>4

LEMMA ServerStream ==
  ASSUME InStep PROVE toServer \in Seq(Units)
<1>1. CASE toServer = <<>>
  BY <1>1
<1>2. CASE request \in Requests \union {Ended} /\ toServer = Frame(request)
  BY <1>2, FramesInvert DEF IsFrame
<1> QED BY <1>1, <1>2 DEF InStep

LEMMA InitInStep == Init => InStep
BY DEF Init, InStep, Quiet

LEMMA RequestKinds ==
  /\ \A r \in Requests : r.op \in {"fetch", "write"}
  /\ Ended.op = "exit"
BY DEF Requests, Fetch, Write, Ended

LEMMA ServeInStep ==
  ASSUME WholeRecvs, InStep, Serve
  PROVE  /\ InStep'
         /\ toServer # <<>>
         /\ heard' = request
<1>1. toServer \in Seq(Units)
  BY ServerStream
<1>2. PICK n \in Received(toServer, "server") :
        LET r == Parsed(SubSeq(toServer, 1, n)) IN
        /\ toServer' = SubSeq(toServer, n + 1, Len(toServer))
        /\ heard' = r
        /\ CASE r.op = "fetch" ->
                  \E buckets \in Answers :
                    /\ answer' = buckets
                    /\ toClient' = toClient \o PathFrame(buckets)
                    /\ UNCHANGED server
             [] r.op = "write" ->
                  /\ toClient' = Append(toClient, Ack)
                  /\ UNCHANGED <<answer, server>>
             [] r.op = "exit" ->
                  /\ server' = "stopped"
                  /\ UNCHANGED <<answer, toClient>>
             [] OTHER -> UNCHANGED <<answer, toClient, server>>
  BY DEF Serve
<1>3. toServer # <<>> /\ SubSeq(toServer, 1, n) = toServer /\ toServer' = <<>>
  BY <1>1, <1>2, AllOfIt
<1>4. request \in Requests \union {Ended} /\ toServer = Frame(request)
  BY <1>3 DEF InStep
<1>5. Parsed(SubSeq(toServer, 1, n)) = request
  BY <1>3, <1>4, FramesInvert
<1>6. heard' = request /\ request' = request /\ client' = client /\ server = "serves"
  BY <1>2, <1>5 DEF Serve
<1>7. CASE request.op = "fetch"
  <2>1. PICK buckets \in Answers :
          /\ answer' = buckets
          /\ toClient' = toClient \o PathFrame(buckets)
          /\ UNCHANGED server
    BY <1>2, <1>5, <1>7
  <2>2. PathFrame(buckets) \in Seq(Units)
    BY FramesInvert DEF IsFrame
  <2>3. toClient' \in Seq(Units)
    BY <2>1, <2>2 DEF InStep
  <2>4. client = "waits" => toClient' = PathFrame(answer') /\ answer' \in Answers
    <3>1. client = "waits" => toClient = <<>>
      BY <1>3, <1>6 DEF InStep, AskedFor, Gone, Alive, Quiet
    <3> QED BY <2>1, <2>2, <3>1
  <2> QED BY <1>3, <1>4, <1>6, <1>7, <2>1, <2>3, <2>4 DEF InStep, AskedFor, Quiet
<1>8. CASE request.op = "write"
  <2>1. toClient' = Append(toClient, Ack) /\ UNCHANGED <<answer, server>>
    BY <1>2, <1>5, <1>8
  <2>2. Ack \in Units
    BY DEF Ack, Unit, Units
  <2>3. toClient' \in Seq(Units)
    BY <2>1, <2>2 DEF InStep
  <2>4. client = "waits" => toClient' = <<Ack>>
    <3>1. client = "waits" => toClient = <<>>
      BY <1>3, <1>6 DEF InStep, AskedFor, Gone, Alive, Quiet
    <3> QED BY <2>1, <3>1
  <2> QED BY <1>3, <1>4, <1>6, <1>8, <2>1, <2>3, <2>4 DEF InStep, AskedFor, Quiet
<1>9. CASE request.op = "exit"
  <2>1. server' = "stopped" /\ UNCHANGED <<answer, toClient>>
    BY <1>2, <1>5, <1>9
  <2>2. request \notin Requests
    BY <1>9, RequestKinds
  <2> QED BY <1>3, <1>6, <2>1, <2>2 DEF InStep, Quiet
<1> QED BY <1>3, <1>4, <1>6, <1>7, <1>8, <1>9, RequestKinds

LEMMA SendInStep ==
  ASSUME InStep, NEW r \in Requests \union {Ended}, Send(r)
  PROVE  InStep' /\ ~(Len(toServer') < Len(toServer))
<1>1. Quiet /\ client = "ready" /\ server \notin {"start", "listens"}
  BY DEF Send, InStep
<1>2. IsFrame(Frame(r))
  BY FramesInvert
<1>3. request' = r /\ toClient' = <<>> /\ server' = server
  BY <1>1 DEF Send, Quiet
<1>4. ASSUME Alive(server)
      PROVE  /\ toServer' = Frame(r) /\ server = "serves"
             /\ client' = IF r.op = "exit" THEN "ended" ELSE "waits"
  BY <1>1, <1>2, <1>4 DEF Send, Alive, Awaits, InStep, Quiet, IsFrame
<1>5. ASSUME ~Alive(server)
      PROVE  /\ toServer' = <<>>
             /\ client' \in {IF r.op = "exit" THEN "ended" ELSE "waits", "dead"}
  BY <1>1, <1>5 DEF Send, Awaits, Quiet
<1>6. r.op # "exit" => r \in Requests
  BY RequestKinds
<1>7. InStep'
  <2>1. CASE Alive(server)
    BY <1>1, <1>3, <1>4, <1>6, <2>1 DEF InStep, AskedFor, Quiet
  <2>2. CASE ~Alive(server)
    BY <1>1, <1>3, <1>5, <1>6, <2>2 DEF InStep, AskedFor, Quiet, Gone, Alive
  <2> QED BY <2>1, <2>2
<1>8. ~(Len(toServer') < Len(toServer))
  <2>1. Len(toServer) = 0
    BY <1>1 DEF Quiet
  <2>2. Len(toServer') \in Nat
    BY <1>2, <1>4, <1>5 DEF IsFrame
  <2> QED BY <2>1, <2>2
<1> QED BY <1>7, <1>8

LEMMA ReceivePathInStep ==
  ASSUME WholeRecvs, InStep, ReceivePath
  PROVE  InStep' /\ heard = request /\ got' = answer
<1>1. PICK n \in Received(toClient, "client") :
        /\ got' = Sliced(SubSeq(toClient, 1, n))
        /\ toClient' = SubSeq(toClient, n + 1, Len(toClient))
  BY DEF ReceivePath
<1>2. toClient # <<>> /\ SubSeq(toClient, 1, n) = toClient /\ toClient' = <<>>
  BY <1>1, AllOfIt DEF InStep
<1>3. AskedFor /\ request.op = "fetch" /\ UNCHANGED <<server, toServer, request>>
  BY DEF InStep, ReceivePath
<1>4. toServer = <<>> /\ heard = request /\ answer \in Answers /\ toClient = PathFrame(answer)
  BY <1>2, <1>3 DEF AskedFor, Quiet
<1>5. got' = answer
  BY <1>1, <1>2, <1>4, FramesInvert
<1>6. client' = "ready" /\ server \notin {"start", "listens"}
  BY DEF ReceivePath, InStep
<1> QED BY <1>2, <1>3, <1>4, <1>5, <1>6 DEF InStep, Quiet

LEMMA ReceiveAckInStep ==
  ASSUME WholeRecvs, InStep, ReceiveAck
  PROVE  InStep'
<1>1. PICK n \in Received(toClient, "client") :
        toClient' = SubSeq(toClient, n + 1, Len(toClient))
  BY DEF ReceiveAck
<1>2. toClient # <<>> /\ toClient' = <<>>
  BY <1>1, AllOfIt DEF InStep
<1>3. AskedFor /\ UNCHANGED <<server, toServer, request>>
  BY DEF InStep, ReceiveAck
<1>4. toServer = <<>>
  BY <1>2, <1>3 DEF AskedFor, Quiet
<1>5. client' = "ready" /\ server \notin {"start", "listens"}
  BY DEF ReceiveAck, InStep
<1> QED BY <1>2, <1>3, <1>4, <1>5 DEF InStep, Quiet

LEMMA OtherStepsInStep ==
  ASSUME InStep, Listen \/ Connect \/ Refused \/ ReceiveNothing \/ ServeNobody
                   \/ ClientDies \/ ServerDies
  PROVE  InStep'
<1>1. CASE Listen
  BY <1>1 DEF Listen, InStep, Quiet
<1>2. CASE Connect
  BY <1>2 DEF Connect, InStep, Quiet
<1>3. CASE Refused
  BY <1>3 DEF Refused, InStep, Quiet
<1>4. CASE ReceiveNothing
  BY <1>4 DEF ReceiveNothing, GivesUp, Alive, InStep, Quiet
<1>5. CASE ServeNobody
  BY <1>5 DEF ServeNobody, InStep, Quiet
<1>6. CASE ClientDies
  BY <1>6 DEF ClientDies, InStep, Quiet
<1>7. CASE ServerDies
  <2>1. server' = "dead" /\ toServer' = <<>> /\ toClient' \in {toClient, <<>>}
        /\ UNCHANGED <<client, request, heard, answer>>
    BY <1>7 DEF ServerDies
  <2>2. AskedFor => AskedFor'
    <3>0. Gone(server)'
      BY <2>1 DEF Gone, Alive
    <3> QED BY <2>1, <3>0 DEF AskedFor, Quiet
  <2>3. toClient' \in Seq(Units)
    <3>1. toClient \in Seq(Units)
      BY DEF InStep
    <3>2. <<>> \in Seq(Units)
      OBVIOUS
    <3> QED BY <2>1, <3>1, <3>2
  <2>4. Quiet => Quiet'
    BY <2>1 DEF Quiet
  <2> QED BY <2>1, <2>2, <2>3, <2>4 DEF InStep
<1> QED BY <1>1, <1>2, <1>3, <1>4, <1>5, <1>6, <1>7

LEMMA StepInStep ==
  ASSUME WholeRecvs PROVE InStep /\ [Next]_vars => InStep'
<1> SUFFICES ASSUME InStep, [Next]_vars PROVE InStep'
  OBVIOUS
<1>1. CASE UNCHANGED vars
  BY <1>1 DEF vars, InStep, AskedFor, Quiet, Gone, Alive
<1>2. CASE Serve
  BY <1>2, ServeInStep
<1>3. CASE ReceivePath
  BY <1>3, ReceivePathInStep
<1>4. CASE ReceiveAck
  BY <1>4, ReceiveAckInStep
<1>5. CASE \E r \in Requests \union {Ended} : Send(r)
  BY <1>5, SendInStep
<1>6. CASE Listen \/ Connect \/ Refused \/ ReceiveNothing \/ ServeNobody
             \/ ClientDies \/ ServerDies
  BY <1>6, OtherStepsInStep
<1> QED BY <1>1, <1>2, <1>3, <1>4, <1>5, <1>6 DEF Next, Client, Server, User, Fault

LEMMA AlwaysInStep ==
  ASSUME WholeRecvs PROVE Spec => []InStep
<1>1. InStep /\ [Next]_vars => InStep'
  BY StepInStep
<1> QED BY <1>1, InitInStep, PTL DEF Spec

(* What a process takes off the connection is what the other put there, so  *)
(* that types are kept only together with InStep.                          *)
LEMMA StepTyped ==
  ASSUME WholeRecvs, InStep, TypeOK, [Next]_vars PROVE TypeOK'
<1>1. CASE UNCHANGED vars
  BY <1>1 DEF vars, TypeOK
<1>2. CASE Serve
  <2>1. heard' = request
    BY <1>2, ServeInStep
  <2>2. server' \in {"start", "listens", "serves", "stopped", "dead"}
    BY <1>2, ServeInStep DEF InStep
  <2>3. UNCHANGED <<client, request, got>>
    BY <1>2 DEF Serve
  <2>4. answer' \in Answers \union {NoAnswer}
    <3>1. PICK r :
            CASE r.op = "fetch" -> \E buckets \in Answers : answer' = buckets
              [] r.op = "write" -> answer' = answer
              [] r.op = "exit"  -> answer' = answer
              [] OTHER -> answer' = answer
      BY <1>2 DEF Serve
    <3>2. (\E buckets \in Answers : answer' = buckets) \/ answer' = answer
      BY <3>1
    <3> QED BY <3>2 DEF TypeOK
  <2> QED BY <2>1, <2>2, <2>3, <2>4 DEF TypeOK
<1>3. CASE ReceivePath
  <2>1. got' = answer /\ UNCHANGED <<server, request, heard, answer>> /\ client' = "ready"
    BY <1>3, ReceivePathInStep DEF ReceivePath
  <2> QED BY <2>1 DEF TypeOK
<1>4. CASE ReceiveAck
  BY <1>4 DEF ReceiveAck, TypeOK
<1>5. CASE ReceiveNothing
  <2>1. 0 \in 0 .. MaxPath /\ <<>> \in [1 .. 0 -> Indices]
    BY ConnectionAssumption
  <2>2. <<>> \in Answers
    BY <2>1 DEF Answers
  <2> QED BY <1>5, <2>2 DEF ReceiveNothing, TypeOK
<1>6. CASE \E r \in Requests \union {Ended} : Send(r)
  <2>1. PICK r \in Requests \union {Ended} : Send(r)
    BY <1>6
  <2>2. request' = r /\ UNCHANGED <<server, heard, answer, got>>
    BY <2>1 DEF Send
  <2>3. client' \in {"start", "ready", "waits", "ended", "dead"}
    BY <2>1, SendInStep DEF InStep
  <2> QED BY <2>2, <2>3 DEF TypeOK
<1>7. CASE Listen \/ Connect \/ Refused \/ ServeNobody \/ ClientDies \/ ServerDies
  BY <1>7 DEF Listen, Connect, Refused, ServeNobody, ClientDies, ServerDies, TypeOK
<1> QED BY <1>1, <1>2, <1>3, <1>4, <1>5, <1>6, <1>7 DEF Next, Client, Server, User, Fault

-----------------------------------------------------------------------------
(* What server::init takes for a request is one that may be made, and what *)
(* Fetch...Path takes for buckets are buckets the server may have sent.    *)
THEOREM ConnectionTyped ==
  ASSUME WholeRecvs PROVE Spec => []TypeOK
<1>1. Init => TypeOK
  BY DEF Init, TypeOK
<1>2. InStep /\ TypeOK /\ [Next]_vars => TypeOK'
  BY StepTyped
<1> QED BY <1>1, <1>2, AlwaysInStep, PTL DEF Spec

(* While the client computes nothing is on the connection, so that the     *)
(* recv after its next send (client.cpp, Fetch...Path, Write...Path) cannot *)
(* return what belongs to an earlier one.                                  *)
THEOREM NothingLeftOver ==
  ASSUME WholeRecvs PROVE Spec => []StreamsDrained
<1>1. InStep => StreamsDrained
  BY DEF InStep, StreamsDrained, Quiet
<1> QED BY <1>1, AlwaysInStep, PTL

(* The loop of server::init takes each request for the one that was made,  *)
(* also when the client has died after sending it.                         *)
THEOREM ServerUnderstands ==
  ASSUME WholeRecvs PROVE Spec => RequestsUnderstood
<1>1. InStep /\ [Next]_vars =>
        [Len(toServer') < Len(toServer) /\ server' # "dead" => heard' = request]_vars
  <2> SUFFICES ASSUME InStep, Next, Len(toServer') < Len(toServer), server' # "dead"
               PROVE  heard' = request
    OBVIOUS
  <2>1. CASE Serve
    BY <2>1, ServeInStep
  <2>2. CASE \E r \in Requests \union {Ended} : Send(r)
    BY <2>2, SendInStep
  <2>3. CASE ServerDies
    BY <2>3 DEF ServerDies
  <2>4. CASE UNCHANGED toServer
    <3>1. toServer \in Seq(Units)
      BY ServerStream
    <3>2. Len(toServer) \in Nat /\ toServer' = toServer
      BY <2>4, <3>1
    <3> QED BY <3>2
  <2> QED BY <2>1, <2>2, <2>3, <2>4 DEF Next, Client, Server, User, Fault, ReceivePath,
             ReceiveAck, ReceiveNothing, Refused, Listen, ServeNobody, Connect, ClientDies
<1> QED BY <1>1, AlwaysInStep, PTL DEF Spec, RequestsUnderstood

(* Fetch...Path takes for its answer all the buckets the server sent for   *)
(* this request and no others, or, if the server is gone, none.            *)
THEOREM ClientUnderstands ==
  ASSUME WholeRecvs PROVE Spec => AnswersUnderstood
<1> DEFINE Understood ==
      client = "waits" /\ client' = "ready" /\ request.op = "fetch" =>
        \/ heard = request /\ got' = answer
        \/ ~Alive(server) /\ got' = <<>>
<1>1. InStep /\ [Next]_vars => [Understood]_vars
  <2> SUFFICES ASSUME InStep, Next, client = "waits", client' = "ready", request.op = "fetch"
               PROVE  \/ heard = request /\ got' = answer
                      \/ ~Alive(server) /\ got' = <<>>
    OBVIOUS
  <2>1. CASE ReceivePath
    BY <2>1, ReceivePathInStep
  <2>2. CASE ReceiveNothing
    BY <2>2 DEF ReceiveNothing, GivesUp
  <2>3. ~Connect /\ ~ReceiveAck /\ ~Refused /\ ~ClientDies
    BY DEF Connect, ReceiveAck, Refused, ClientDies
  <2>4. \A r : ~Send(r)
    BY DEF Send
  <2>5. CASE Listen \/ Serve \/ ServeNobody \/ ServerDies
    BY <2>5 DEF Listen, Serve, ServeNobody, ServerDies
  <2> QED BY <2>1, <2>2, <2>3, <2>4, <2>5 DEF Next, Client, Server, User, Fault
<1> QED BY <1>1, AlwaysInStep, PTL DEF Spec, AnswersUnderstood
=============================================================================
