---------------------------- MODULE RecordProofs ----------------------------
(***************************************************************************)
(* A record is read back as it was written: what get_value_by_redis        *)
(* (data_use.c) takes out of a value is what write_redis (usefull.c) put   *)
(* in, for texts of every length and over every alphabet.                  *)
(***************************************************************************)
EXTENDS RedisRecord, SequenceTheorems, TLAPS

\* Where each field begins in the value, counted from 0 as Begin does.
Start(f) ==
    LET Past(n) == Len(f[n]) + 2
        one   == 1 + Past(1)
        two   == one + Past(2)
        three == two + Past(3)
        four  == three + Past(4)
        five  == four + Past(5)
    IN  [n \in 0 .. 5 |-> IF n = 0 THEN 1 ELSE IF n = 1 THEN one ELSE IF n = 2 THEN two
                          ELSE IF n = 3 THEN three ELSE IF n = 4 THEN four ELSE five]

\* The text s holds the fields f one after another, with bars between them.
Lies(s, f) ==
    /\ Len(s) = Start(f)[5] + Len(f[6]) - 1
    /\ \A n \in Words, i \in Nat :
          i \in 1 .. Len(f[n]) => s[Start(f)[n - 1] + i - 1] = f[n][i]
    /\ \A n \in 1 .. 5 : s[Start(f)[n] - 2] = Bar /\ s[Start(f)[n] - 1] = Bar

TwoBars(s, i) == s[i] = Bar /\ s[i + 1] = Bar

\* The characters of t stand in s from place k on.
Holds(s, k, t) == \A i \in Nat : i \in 1 .. Len(t) => s[k + i - 1] = t[i]

\* Field n of f stands in s from place k on, and its delimiter at place e.
FieldAt(s, f, n, k, e) ==
    /\ k = Start(f)[n - 1] /\ k >= 1 /\ e = k + Len(f[n])
    /\ Start(f)[n] = e + 2 /\ e + 1 <= Len(s)
    /\ Holds(s, k, f[n]) /\ TwoBars(s, e)

-----------------------------------------------------------------------------
(* The smallest element of a set is the one that is below the others.      *)
LEMMA MinIsLeast ==
    ASSUME NEW S \in SUBSET Int, NEW m \in S, \A x \in S : m <= x
    PROVE  Min(S) = m
<1>1. Min(S) \in S /\ \A x \in S : Min(S) <= x
  <2>1. \E y \in S : \A x \in S : y <= x
    OBVIOUS
  <2> QED BY <2>1 DEF Min
<1>2. Min(S) <= m /\ m <= Min(S)
  BY <1>1
<1>3. Min(S) \in Int /\ m \in Int
  BY <1>1
<1> QED BY <1>2, <1>3

(* A field begins where the one before ends, and its delimiter.            *)
LEMMA StartSteps ==
    ASSUME NEW S, NEW f \in [Words -> Seq(S)]
    PROVE  /\ \A n \in Words : Len(f[n]) \in Nat
           /\ Start(f) \in [0 .. 5 -> Nat]
           /\ \A n \in 0 .. 5 : Start(f)[n] >= 1
           /\ Start(f)[0] = 1
           /\ \A n \in 1 .. 5 : Start(f)[n] = Start(f)[n - 1] + Len(f[n]) + 2
<1>1. \A n \in Words : Len(f[n]) \in Nat
  OBVIOUS
<1>2. /\ Len(f[1]) \in Nat /\ Len(f[2]) \in Nat /\ Len(f[3]) \in Nat
      /\ Len(f[4]) \in Nat /\ Len(f[5]) \in Nat
  BY <1>1 DEF Words
<1>3. /\ Start(f)[0] = 1
      /\ Start(f)[1] = Start(f)[0] + Len(f[1]) + 2
      /\ Start(f)[2] = Start(f)[1] + Len(f[2]) + 2
      /\ Start(f)[3] = Start(f)[2] + Len(f[3]) + 2
      /\ Start(f)[4] = Start(f)[3] + Len(f[4]) + 2
      /\ Start(f)[5] = Start(f)[4] + Len(f[5]) + 2
  BY <1>2 DEF Start, Words
<1> DEFINE g == Start(f)
           l == [n \in Words |-> Len(f[n])]
<1>4. /\ l[1] = Len(f[1]) /\ l[2] = Len(f[2]) /\ l[3] = Len(f[3])
      /\ l[4] = Len(f[4]) /\ l[5] = Len(f[5])
  BY DEF Words
<1>5. \A n \in 1 .. 5 : l[n] = Len(f[n])
  BY DEF Words
<1> HIDE DEF g, l
<1>6. /\ g[0] = 1 /\ g[1] = g[0] + l[1] + 2 /\ g[2] = g[1] + l[2] + 2
      /\ g[3] = g[2] + l[3] + 2 /\ g[4] = g[3] + l[4] + 2 /\ g[5] = g[4] + l[5] + 2
  BY <1>3, <1>4 DEF g
<1>7. \A n \in 1 .. 5 : g[n] = g[n - 1] + l[n] + 2
  <2> TAKE n \in 1 .. 5
  <2>1. n = 1 \/ n = 2 \/ n = 3 \/ n = 4 \/ n = 5
    OBVIOUS
  <2> QED BY <1>6, <2>1
<1>8. \A n \in 0 .. 5 : g[n] \in Nat \ {0}
  <2>0. /\ l[1] \in Nat /\ l[2] \in Nat /\ l[3] \in Nat /\ l[4] \in Nat /\ l[5] \in Nat
    BY <1>2, <1>4
  <2>1. g[0] \in Nat \ {0}
    BY <1>6
  <2>a. ASSUME NEW a \in Nat \ {0}, NEW b \in Nat PROVE a + b + 2 \in Nat \ {0}
    OBVIOUS
  <2>2. g[1] \in Nat \ {0}
    BY ONLY <1>6, <2>0, <2>1, <2>a
  <2>3. g[2] \in Nat \ {0}
    BY ONLY <1>6, <2>0, <2>2, <2>a
  <2>4. g[3] \in Nat \ {0}
    BY ONLY <1>6, <2>0, <2>3, <2>a
  <2>5. g[4] \in Nat \ {0}
    BY ONLY <1>6, <2>0, <2>4, <2>a
  <2>6. g[5] \in Nat \ {0}
    BY ONLY <1>6, <2>0, <2>5, <2>a
  <2> TAKE n \in 0 .. 5
  <2>7. n = 0 \/ n = 1 \/ n = 2 \/ n = 3 \/ n = 4 \/ n = 5
    OBVIOUS
  <2> QED BY <2>1, <2>2, <2>3, <2>4, <2>5, <2>6, <2>7
<1>9. Start(f) = [n \in 0 .. 5 |-> Start(f)[n]]
  BY DEF Start
<1>10. \A n \in 0 .. 5 : g[n] \in Nat /\ g[n] >= 1
  BY <1>8
<1> QED BY <1>1, <1>3, <1>5, <1>7, <1>9, <1>10 DEF g

(* The elements of two texts put together.                                 *)
LEMMA Joined ==
    ASSUME NEW S, NEW u \in Seq(S), NEW d \in Seq(S)
    PROVE  /\ u \o d \in Seq(S) /\ Len(u \o d) = Len(u) + Len(d)
           /\ \A i \in 1 .. Len(u) : (u \o d)[i] = u[i]
           /\ \A i \in 1 .. Len(d) : (u \o d)[Len(u) + i] = d[i]
<1>1. u \o d \in Seq(S) /\ Len(u \o d) = Len(u) + Len(d)
  OBVIOUS
<1>2. \A i \in 1 .. Len(u) + Len(d) : (u \o d)[i] = IF i <= Len(u) THEN u[i] ELSE d[i - Len(u)]
  OBVIOUS
<1>3. ASSUME NEW i \in 1 .. Len(d) PROVE (u \o d)[Len(u) + i] = d[i]
  <2>1. Len(u) + i \in 1 .. Len(u) + Len(d) /\ ~ (Len(u) + i <= Len(u)) /\ (Len(u) + i) - Len(u) = i
    OBVIOUS
  <2> QED BY <1>2, <2>1
<1> QED BY <1>1, <1>2, <1>3

(* A delimiter at the end of a text.                                       *)
LEMMA BarsAppended ==
    ASSUME NEW S, Bar \in S, NEW u \in Seq(S)
    PROVE  /\ u \o Delim \in Seq(S) /\ Len(u \o Delim) = Len(u) + 2
           /\ \A i \in 1 .. Len(u) : (u \o Delim)[i] = u[i]
           /\ (u \o Delim)[Len(u) + 1] = Bar /\ (u \o Delim)[Len(u) + 2] = Bar
<1>1. PICK d : d = Delim
  OBVIOUS
<1>2. d \in Seq(S) /\ Len(d) = 2 /\ d[1] = Bar /\ d[2] = Bar
  BY <1>1 DEF Delim
<1>3. 1 \in 1 .. Len(d) /\ 2 \in 1 .. Len(d)
  BY <1>2
<1>4. u \o d \in Seq(S) /\ Len(u \o d) = Len(u) + Len(d)
  BY <1>2, Joined
<1>5. \A i \in 1 .. Len(u) : (u \o d)[i] = u[i]
  BY <1>2, Joined
<1>6. (u \o d)[Len(u) + 1] = d[1] /\ (u \o d)[Len(u) + 2] = d[2]
  <2>1. \A i \in 1 .. Len(d) : (u \o d)[Len(u) + i] = d[i]
    BY <1>2, Joined
  <2> QED BY <1>3, <2>1
<1> QED BY <1>1, <1>2, <1>4, <1>5, <1>6

(* What write_redis appends for one field: the text, then the delimiter.   *)
LEMMA FieldAppended ==
    ASSUME NEW S, Bar \in S, NEW v \in Seq(S), NEW t \in Seq(S)
    PROVE  LET w == v \o t \o Delim
           IN  /\ w \in Seq(S)
               /\ Len(w) = Len(v) + Len(t) + 2
               /\ \A i \in 1 .. Len(v) : w[i] = v[i]
               /\ \A i \in 1 .. Len(t) : w[Len(v) + i] = t[i]
               /\ w[Len(v) + Len(t) + 1] = Bar
               /\ w[Len(v) + Len(t) + 2] = Bar
<1>1. PICK u : u = v \o t
  OBVIOUS
<1>2. /\ u \in Seq(S) /\ Len(u) = Len(v) + Len(t)
      /\ \A i \in 1 .. Len(v) : u[i] = v[i]
      /\ \A i \in 1 .. Len(t) : u[Len(v) + i] = t[i]
  BY <1>1, Joined
<1>3. PICK w : w = u \o Delim
  OBVIOUS
<1>4. /\ w \in Seq(S) /\ Len(w) = Len(u) + 2
      /\ \A i \in 1 .. Len(u) : w[i] = u[i]
      /\ w[Len(u) + 1] = Bar /\ w[Len(u) + 2] = Bar
  BY <1>2, <1>3, BarsAppended
<1>5. \A i \in 1 .. Len(v) : w[i] = v[i]
  BY <1>2, <1>4
<1>6. \A i \in 1 .. Len(t) : w[Len(v) + i] = t[i]
  <2> TAKE i \in 1 .. Len(t)
  <2>1. Len(v) + i \in 1 .. Len(u)
    BY <1>2
  <2> QED BY <1>2, <1>4, <2>1
<1> QED BY <1>1, <1>2, <1>3, <1>4, <1>5, <1>6

\* The text w holds the first n fields of f, each with its delimiter.
LiesUpTo(w, f, n) ==
    /\ Len(w) = Start(f)[n] - 1
    /\ \A m \in 1 .. n, i \in Nat :
          i \in 1 .. Len(f[m]) => w[Start(f)[m - 1] + i - 1] = f[m][i]
    /\ \A m \in 1 .. n : w[Start(f)[m] - 2] = Bar /\ w[Start(f)[m] - 1] = Bar

(* The fields lie before the place where the next one begins.              *)
LEMMA StartGrows ==
    ASSUME NEW S, NEW f, f \in [Words -> Seq(S)], NEW m \in 1 .. 5, NEW n \in m .. 5
    PROVE  Start(f)[m] <= Start(f)[n]
<1> DEFINE g == Start(f)
<1> HIDE DEF g
<1>1. g \in [0 .. 5 -> Nat]
  BY StartSteps DEF g
<1>2. \A k \in 1 .. 5 : g[k - 1] <= g[k]
  <2>1. \A k \in 1 .. 5 : g[k] = g[k - 1] + Len(f[k]) + 2
    BY StartSteps DEF g
  <2> TAKE k \in 1 .. 5
  <2>2. Len(f[k]) \in Nat
    <3>1. k \in Words
      BY DEF Words
    <3> QED BY <3>1, StartSteps
  <2>3. g[k - 1] \in Nat
    BY <1>1
  <2>4. PICK a, b : a \in Nat /\ b \in Nat /\ g[k - 1] = a /\ g[k] = a + b + 2
    BY <2>1, <2>2, <2>3
  <2> QED BY ONLY <2>4
<1>3. g[1] <= g[2] /\ g[2] <= g[3] /\ g[3] <= g[4] /\ g[4] <= g[5]
  BY <1>2
<1>4. g[1] \in Nat /\ g[2] \in Nat /\ g[3] \in Nat /\ g[4] \in Nat /\ g[5] \in Nat
  BY <1>1
<1>5. m = 1 \/ m = 2 \/ m = 3 \/ m = 4 \/ m = 5
  OBVIOUS
<1>6. n = 1 \/ n = 2 \/ n = 3 \/ n = 4 \/ n = 5
  OBVIOUS
<1>7. g[m] <= g[n]
  BY <1>3, <1>4, <1>5, <1>6
<1> QED BY <1>7 DEF g

(* One more field and its delimiter.                                       *)
LEMMA LiesMore ==
    ASSUME NEW S, Bar \in S, NEW f, f \in [Words -> Seq(S)], NEW v, v \in Seq(S),
           NEW n \in 1 .. 5, LiesUpTo(v, f, n - 1)
    PROVE  /\ v \o f[n] \o Delim \in Seq(S)
           /\ LiesUpTo(v \o f[n] \o Delim, f, n)
<1>1. PICK t : t = f[n]
  OBVIOUS
<1>2. t \in Seq(S)
  BY <1>1 DEF Words
<1>3. PICK w : w = v \o t \o Delim
  OBVIOUS
<1>4. /\ w \in Seq(S)
      /\ Len(w) = Len(v) + Len(t) + 2
      /\ \A i \in 1 .. Len(v) : w[i] = v[i]
      /\ \A i \in 1 .. Len(t) : w[Len(v) + i] = t[i]
      /\ w[Len(v) + Len(t) + 1] = Bar
      /\ w[Len(v) + Len(t) + 2] = Bar
  <2>1. w \in Seq(S) /\ Len(w) = Len(v) + Len(t) + 2
    BY <1>2, <1>3, FieldAppended
  <2>2. \A i \in 1 .. Len(v) : w[i] = v[i]
    BY <1>2, <1>3, FieldAppended
  <2>3. \A i \in 1 .. Len(t) : w[Len(v) + i] = t[i]
    BY <1>2, <1>3, FieldAppended
  <2>4. w[Len(v) + Len(t) + 1] = Bar /\ w[Len(v) + Len(t) + 2] = Bar
    BY <1>2, <1>3, FieldAppended
  <2> QED BY <2>1, <2>2, <2>3, <2>4
<1>5. PICK g : g = Start(f)
  OBVIOUS
<1>6. /\ g \in [0 .. 5 -> Nat]
      /\ \A k \in 0 .. 5 : g[k] >= 1
      /\ g[n] = g[n - 1] + Len(t) + 2
      /\ Len(v) = g[n - 1] - 1
  <2>1. g \in [0 .. 5 -> Nat] /\ \A k \in 0 .. 5 : g[k] >= 1
    BY <1>5, StartSteps
  <2>2. g[n] = g[n - 1] + Len(t) + 2
    BY <1>1, <1>5, StartSteps
  <2>3. Len(v) = g[n - 1] - 1
    BY <1>5 DEF LiesUpTo
  <2> QED BY <2>1, <2>2, <2>3
<1>7. n \in Int /\ 1 <= n /\ n <= 5 /\ n - 1 \in 0 .. 5 /\ n \in 0 .. 5
  OBVIOUS
<1>8. PICK a, p, c :
         /\ a \in Nat /\ p \in Nat /\ c \in Nat
         /\ a = g[n - 1] /\ p = Len(v) /\ c = Len(t)
         /\ g[n] = p + c + 3 /\ a = p + 1
  <2>1. PICK a \in Nat, p \in Nat, c \in Nat : a = g[n - 1] /\ p = Len(v) /\ c = Len(t)
    <3>1. Len(v) \in Nat /\ Len(t) \in Nat
      BY <1>2
    <3>2. g[n - 1] \in Nat
      BY <1>6, <1>7
    <3> QED BY <3>1, <3>2
  <2>2. a \in Nat /\ p \in Nat /\ c \in Nat /\ g[n] = a + c + 2 /\ p = a - 1
    BY <1>6, <2>1
  <2>3. g[n] = p + c + 3 /\ a = p + 1
    BY ONLY <2>2
  <2> QED BY <2>1, <2>3
<1>9. Len(w) = g[n] - 1
  <2>1. Len(w) = p + c + 2
    BY <1>4, <1>8
  <2>2. g[n] - 1 = p + c + 2
    BY ONLY <1>8
  <2> QED BY <2>1, <2>2
<1>10. ASSUME NEW m \in 1 .. n, m # n
       PROVE  \E b, l :
                 /\ b \in Nat /\ l \in Nat
                 /\ b = g[m - 1] /\ b >= 1 /\ l = Len(f[m]) /\ g[m] = b + l + 2
                 /\ b + l + 1 <= p /\ m \in 1 .. n - 1
  <2>1. m \in 1 .. n - 1 /\ m \in 1 .. 5 /\ m - 1 \in 0 .. 5 /\ m \in Words
    BY <1>7, <1>10 DEF Words
  <2>2. g[m] <= g[n - 1]
    <3>1. n - 1 \in m .. 5
      BY <1>7, <2>1
    <3> QED BY <1>5, <2>1, <3>1, StartGrows
  <2>3. g[m] = g[m - 1] + Len(f[m]) + 2 /\ Len(f[m]) \in Nat
    BY <1>5, <2>1, StartSteps
  <2>4. g[m - 1] \in Nat /\ g[m - 1] >= 1
    BY <1>6, <2>1
  <2>5. PICK b, l : b \in Nat /\ l \in Nat /\ b = g[m - 1] /\ b >= 1 /\ l = Len(f[m]) /\ g[m] = b + l + 2
    BY <2>3, <2>4
  <2>6. b + l + 1 <= p
    <3>1. b + l + 2 <= p + 1
      BY <1>8, <2>2, <2>5
    <3> QED BY ONLY <1>8, <2>5, <3>1
  <2> QED BY <2>1, <2>5, <2>6
<1>11. ASSUME NEW m \in 1 .. n, NEW i \in Nat, i \in 1 .. Len(f[m])
      PROVE  w[g[m - 1] + i - 1] = f[m][i]
  <2>1. CASE m = n
    <3>1. g[m - 1] + i - 1 = p + i
      <4>1. i \in Nat /\ g[m - 1] = p + 1
        BY <1>8, <2>1
      <4> QED BY ONLY <1>8, <4>1
    <3>2. w[p + i] = t[i]
      BY <1>1, <1>4, <1>8, <1>11, <2>1
    <3> QED BY <1>1, <2>1, <3>1, <3>2
  <2>2. CASE m # n
    <3>1. PICK b, l :
             /\ b \in Nat /\ l \in Nat
             /\ b = g[m - 1] /\ b >= 1 /\ l = Len(f[m])
             /\ b + l + 1 <= p /\ m \in 1 .. n - 1
      BY <1>10, <2>2
    <3>2. b + i - 1 \in 1 .. p
      <4>1. i \in Nat /\ 1 <= i /\ i <= l
        BY <1>11, <3>1
      <4>2. b \in Nat /\ l \in Nat /\ p \in Nat /\ b >= 1 /\ b + l + 1 <= p
        BY <1>8, <3>1
      <4> QED BY ONLY <4>1, <4>2
    <3>3. v[b + i - 1] = f[m][i]
      BY <1>5, <1>11, <3>1 DEF LiesUpTo
    <3> QED BY <1>4, <1>8, <3>1, <3>2, <3>3
  <2> QED BY <2>1, <2>2
<1>12. ASSUME NEW m \in 1 .. n
      PROVE  w[g[m] - 2] = Bar /\ w[g[m] - 1] = Bar
  <2>1. CASE m = n
    <3>1. g[m] - 2 = p + c + 1 /\ g[m] - 1 = p + c + 2
      BY ONLY <1>8, <2>1
    <3> QED BY <1>4, <1>8, <3>1
  <2>2. CASE m # n
    <3>1. PICK b, l :
             /\ b \in Nat /\ l \in Nat
             /\ b = g[m - 1] /\ b >= 1 /\ l = Len(f[m]) /\ g[m] = b + l + 2
             /\ b + l + 1 <= p /\ m \in 1 .. n - 1
      BY <1>10, <2>2
    <3>2. b + l \in 1 .. p /\ b + l + 1 \in 1 .. p
      <4>1. b \in Nat /\ l \in Nat /\ p \in Nat /\ b >= 1 /\ b + l + 1 <= p
        BY <1>8, <3>1
      <4> QED BY ONLY <4>1
    <3>3. v[g[m] - 2] = Bar /\ v[g[m] - 1] = Bar
      BY <1>5, <3>1 DEF LiesUpTo
    <3>4. g[m] - 2 = b + l /\ g[m] - 1 = b + l + 1
      BY ONLY <3>1
    <3> QED BY <1>4, <1>8, <3>2, <3>3, <3>4
  <2> QED BY <2>1, <2>2
<1>13. LiesUpTo(w, f, n)
  BY <1>5, <1>9, <1>12, <1>11 DEF LiesUpTo
<1> QED BY <1>1, <1>3, <1>4, <1>13

(* write_redis puts the fields where Start says.                           *)
LEMMA ValueLies ==
    ASSUME NEW S, Bar \in S, NEW f, f \in [Words -> Seq(S)]
    PROVE  Value(f) \in Seq(S) /\ Lies(Value(f), f)
<1>1. /\ f[1] \in Seq(S) /\ f[2] \in Seq(S) /\ f[3] \in Seq(S)
      /\ f[4] \in Seq(S) /\ f[5] \in Seq(S) /\ f[6] \in Seq(S)
  BY DEF Words
<1>2. LiesUpTo(<< >>, f, 0)
  BY StartSteps DEF LiesUpTo
<1>3. PICK v1 : v1 = << >> \o f[1] \o Delim /\ v1 \in Seq(S) /\ LiesUpTo(v1, f, 1)
  <2>1. << >> \in Seq(S) /\ 1 - 1 = 0 /\ 1 \in 1 .. 5
    OBVIOUS
  <2> QED BY <1>2, <2>1, LiesMore
<1>4. PICK v2 : v2 = v1 \o f[2] \o Delim /\ v2 \in Seq(S) /\ LiesUpTo(v2, f, 2)
  <2>1. 2 - 1 = 1 /\ 2 \in 1 .. 5
    OBVIOUS
  <2> QED BY <1>3, <2>1, LiesMore
<1>5. PICK v3 : v3 = v2 \o f[3] \o Delim /\ v3 \in Seq(S) /\ LiesUpTo(v3, f, 3)
  <2>1. 3 - 1 = 2 /\ 3 \in 1 .. 5
    OBVIOUS
  <2> QED BY <1>4, <2>1, LiesMore
<1>6. PICK v4 : v4 = v3 \o f[4] \o Delim /\ v4 \in Seq(S) /\ LiesUpTo(v4, f, 4)
  <2>1. 4 - 1 = 3 /\ 4 \in 1 .. 5
    OBVIOUS
  <2> QED BY <1>5, <2>1, LiesMore
<1>7. PICK v5 : v5 = v4 \o f[5] \o Delim /\ v5 \in Seq(S) /\ LiesUpTo(v5, f, 5)
  <2>1. 5 - 1 = 4 /\ 5 \in 1 .. 5
    OBVIOUS
  <2> QED BY <1>6, <2>1, LiesMore
<1>8. Value(f) = v5 \o f[6]
  <2>1. << >> \o f[1] = f[1]
    BY <1>1, ConcatEmptySeq
  <2> QED BY <1>3, <1>4, <1>5, <1>6, <1>7, <2>1 DEF Value
<1>9. PICK t, s : t = f[6] /\ t \in Seq(S) /\ s = v5 \o t
  BY <1>1
<1>10. /\ s \in Seq(S) /\ Len(s) = Len(v5) + Len(t)
       /\ \A i \in 1 .. Len(v5) : s[i] = v5[i]
       /\ \A i \in 1 .. Len(t) : s[Len(v5) + i] = t[i]
  <2>1. v5 \in Seq(S) /\ t \in Seq(S)
    BY <1>7, <1>9
  <2>2. v5 \o t \in Seq(S) /\ Len(v5 \o t) = Len(v5) + Len(t)
    BY ONLY <2>1, Joined
  <2>3. \A i \in 1 .. Len(v5) : (v5 \o t)[i] = v5[i]
    BY ONLY <2>1, Joined
  <2>4. \A i \in 1 .. Len(t) : (v5 \o t)[Len(v5) + i] = t[i]
    BY ONLY <2>1, Joined
  <2> QED BY <1>9, <2>2, <2>3, <2>4
<1>11. PICK g : g = Start(f)
  OBVIOUS
<1>12. PICK p, c : p \in Nat /\ c \in Nat /\ p = Len(v5) /\ c = Len(t) /\ g[5] = p + 1
  <2>1. Len(v5) \in Nat /\ Len(t) \in Nat
    BY <1>7, <1>9
  <2>2. Len(v5) = g[5] - 1
    BY <1>7, <1>11 DEF LiesUpTo
  <2>3. g \in [0 .. 5 -> Nat]
    BY <1>11, StartSteps
  <2>4. PICK e : e = g[5] /\ e \in Nat
    BY <2>3
  <2>5. PICK p, c : p \in Nat /\ c \in Nat /\ p = Len(v5) /\ c = Len(t) /\ p = e - 1
    BY <2>1, <2>2, <2>4
  <2>6. e = p + 1
    BY ONLY <2>4, <2>5
  <2> QED BY <2>4, <2>5, <2>6
<1>13. Len(s) = g[5] + Len(f[6]) - 1
  <2>1. Len(s) = p + c
    BY <1>10, <1>12
  <2>2. (p + 1) + c - 1 = p + c
    BY ONLY <1>12
  <2> QED BY <1>9, <1>12, <2>1, <2>2
<1>14. ASSUME NEW n \in 1 .. 5
       PROVE  \E b, l :
                 /\ b \in Nat /\ l \in Nat
                 /\ b = g[n - 1] /\ b >= 1 /\ l = Len(f[n]) /\ g[n] = b + l + 2
                 /\ b + l + 1 <= p
  <2>1. n \in Words /\ n - 1 \in 0 .. 5 /\ 5 \in n .. 5
    BY DEF Words
  <2>2. g[n] = g[n - 1] + Len(f[n]) + 2 /\ Len(f[n]) \in Nat
    BY <1>11, <2>1, StartSteps
  <2>3. g[n - 1] \in Nat /\ g[n - 1] >= 1
    BY <1>11, <2>1, StartSteps
  <2>4. PICK b, l : b \in Nat /\ l \in Nat /\ b = g[n - 1] /\ b >= 1 /\ l = Len(f[n]) /\ g[n] = b + l + 2
    BY <2>2, <2>3
  <2>5. b + l + 2 <= p + 1
    <3>1. g[n] <= g[5]
      BY <1>11, <2>1, StartGrows
    <3> QED BY <1>12, <2>4, <3>1
  <2>6. b + l + 1 <= p
    <3>1. b \in Nat /\ l \in Nat /\ p \in Nat
      BY <1>12, <2>4
    <3> QED BY ONLY <2>5, <3>1
  <2> QED BY <2>4, <2>6
<1>15. ASSUME NEW n \in Words, NEW i \in Nat, i \in 1 .. Len(f[n])
       PROVE  s[g[n - 1] + i - 1] = f[n][i]
  <2>1. CASE n = 6
    <3>1. g[n - 1] + i - 1 = p + i
      <4>1. i \in Nat /\ g[n - 1] = p + 1 /\ p \in Nat
        BY <1>12, <2>1
      <4> QED BY ONLY <4>1
    <3>2. s[p + i] = t[i]
      BY <1>9, <1>10, <1>12, <1>15, <2>1
    <3> QED BY <1>9, <2>1, <3>1, <3>2
  <2>2. CASE n # 6
    <3>1. PICK b, l :
             /\ b \in Nat /\ l \in Nat
             /\ b = g[n - 1] /\ b >= 1 /\ l = Len(f[n]) /\ b + l + 1 <= p /\ n \in 1 .. 5
      <4>1. n \in 1 .. 5
        BY <2>2 DEF Words
      <4> QED BY <1>14, <4>1
    <3>2. b + i - 1 \in 1 .. p
      <4>1. i \in Nat /\ 1 <= i /\ i <= l
        BY <1>15, <3>1
      <4>2. b \in Nat /\ l \in Nat /\ p \in Nat /\ b >= 1 /\ b + l + 1 <= p
        BY <1>12, <3>1
      <4> QED BY ONLY <4>1, <4>2
    <3>3. v5[b + i - 1] = f[n][i]
      BY <1>7, <1>11, <1>15, <3>1 DEF LiesUpTo
    <3> QED BY <1>10, <1>12, <3>1, <3>2, <3>3
  <2> QED BY <2>1, <2>2
<1>16. ASSUME NEW n \in 1 .. 5
       PROVE  s[g[n] - 2] = Bar /\ s[g[n] - 1] = Bar
  <2>1. PICK b, l :
           /\ b \in Nat /\ l \in Nat
           /\ b = g[n - 1] /\ b >= 1 /\ l = Len(f[n]) /\ g[n] = b + l + 2 /\ b + l + 1 <= p
    BY <1>14
  <2>2. b + l \in 1 .. p /\ b + l + 1 \in 1 .. p
    <3>1. b \in Nat /\ l \in Nat /\ p \in Nat /\ b >= 1 /\ b + l + 1 <= p
      BY <1>12, <2>1
    <3> QED BY ONLY <3>1
  <2>3. v5[g[n] - 2] = Bar /\ v5[g[n] - 1] = Bar
    BY <1>7, <1>11 DEF LiesUpTo
  <2>4. g[n] - 2 = b + l /\ g[n] - 1 = b + l + 1
    BY ONLY <2>1
  <2> QED BY <1>10, <1>12, <2>2, <2>3, <2>4
<1>17. Lies(s, f)
  BY <1>11, <1>13, <1>15, <1>16 DEF Lies
<1> QED BY <1>8, <1>9, <1>10, <1>17

-----------------------------------------------------------------------------
(* A part of s that holds the text t is t.                                 *)
LEMMA Cut ==
    ASSUME NEW S, NEW s, s \in Seq(S), NEW t, t \in Seq(S), NEW a, NEW b,
           a \in Nat /\ b \in Nat, 1 <= a, b = a + Len(t) - 1, b <= Len(s),
           Holds(s, a, t)
    PROVE  SubSeq(s, a, b) = t
<1>1. PICK c, l : c \in Nat /\ l \in Nat /\ c = Len(t) /\ l = Len(s)
  <2>1. Len(t) \in Nat /\ Len(s) \in Nat
    OBVIOUS
  <2> QED BY <2>1
<1>2. a \in Nat /\ b \in Nat /\ c \in Nat /\ l \in Nat /\ 1 <= a /\ b = a + c - 1 /\ b <= l
  BY <1>1
<1>3. a \in Int /\ b \in Int
  BY <1>2
<1>4. \A i \in a .. b : s[i] \in S
  <2> TAKE i \in a .. b
  <2>1. i \in 1 .. l
    BY ONLY <1>2
  <2> QED BY <1>1, <2>1
<1>5. /\ SubSeq(s, a, b) \in Seq(S)
      /\ Len(SubSeq(s, a, b)) = IF a <= b THEN b - a + 1 ELSE 0
      /\ \A i \in 1 .. b - a + 1 : SubSeq(s, a, b)[i] = s[a + i - 1]
  BY ONLY <1>3, <1>4, SubSeqProperties
<1>6. b - a + 1 = c /\ (IF a <= b THEN b - a + 1 ELSE 0) = c
  BY ONLY <1>2
<1>7. \A i \in 1 .. c : SubSeq(s, a, b)[i] = t[i]
  <2> TAKE i \in 1 .. c
  <2>1. SubSeq(s, a, b)[i] = s[a + i - 1]
    BY <1>5, <1>6
  <2>2. s[a + i - 1] = t[i]
    BY <1>1 DEF Holds
  <2> QED BY <2>1, <2>2
<1> QED BY <1>1, <1>5, <1>6, <1>7, SeqEqual

(* strstr finds a key where its characters stand one after another.        *)
LEMMA KeyPlaces ==
    ASSUME NEW S, NEW s, s \in Seq(S), NEW d, d \in Seq(S), NEW k, k \in Nat, k >= 1
    PROVE  /\ Places(s, d, k) \subseteq Int
           /\ \A x \in Int : x \in Places(s, d, k) <=>
                 /\ k <= x /\ x + Len(d) - 1 <= Len(s)
                 /\ Holds(s, x, d)
<1>1. PICK l, c : l \in Nat /\ c \in Nat /\ l = Len(s) /\ c = Len(d)
  <2>1. Len(d) \in Nat /\ Len(s) \in Nat
    OBVIOUS
  <2> QED BY <2>1
<1>2. Places(s, d, k) = {x \in k .. l - c + 1 : SubSeq(s, x, x + c - 1) = d}
  BY <1>1 DEF Places
<1>3. ASSUME NEW x, x \in Int, k <= x, x + c - 1 <= l
      PROVE  SubSeq(s, x, x + c - 1) = d <=>
                Holds(s, x, d)
  <2>1. PICK b : /\ b \in Nat /\ b = x + c - 1 /\ x \in Nat /\ x >= 1 /\ b <= l
                 /\ x \in Int /\ b \in Int
    BY ONLY <1>1, <1>3, k \in Nat, k >= 1
  <2>2. ASSUME Holds(s, x, d)
        PROVE  SubSeq(s, x, b) = d
    BY <1>1, <2>1, <2>2, Cut
  <2>3. ASSUME SubSeq(s, x, b) = d
        PROVE  Holds(s, x, d)
    <3> SUFFICES ASSUME NEW i, i \in Nat, i \in 1 .. Len(d)
                 PROVE  s[x + i - 1] = d[i]
      BY DEF Holds
    <3>1. \A j \in x .. b : s[j] \in S
      <4> TAKE j \in x .. b
      <4>0. j \in Int /\ x <= j /\ j <= b
        BY <2>1
      <4>1. j \in 1 .. l
        BY ONLY <2>1, <4>0, <1>1
      <4> QED BY <1>1, <4>1
    <3>2. x \in Int /\ b \in Int
      BY <2>1
    <3>3. \A j \in 1 .. b - x + 1 : SubSeq(s, x, b)[j] = s[x + j - 1]
      BY ONLY <3>1, <3>2, SubSeqProperties
    <3>4. b - x + 1 = c
      BY ONLY <1>1, <2>1
    <3> QED BY <1>1, <2>3, <3>3, <3>4
  <2> QED BY <2>1, <2>2, <2>3
<1>4. ASSUME NEW x, x \in Int
      PROVE  x \in Places(s, d, k) <=>
                /\ k <= x /\ x + Len(d) - 1 <= Len(s)
                /\ Holds(s, x, d)
  <2>1. x \in k .. l - c + 1 <=> k <= x /\ x + c - 1 <= l
    BY ONLY <1>1, <1>4, k \in Nat
  <2> QED BY <1>1, <1>2, <1>3, <1>4, <2>1
<1>5. Places(s, d, k) \subseteq Int
  BY <1>1, <1>2
<1> QED BY <1>4, <1>5

(* The places of the delimiter, and those of the mark.                     *)
LEMMA DelimPlaces ==
    ASSUME NEW S, Bar \in S, NEW s, s \in Seq(S), NEW k, k \in Nat, k >= 1
    PROVE  /\ Places(s, Delim, k) \subseteq Int
           /\ \A x \in Int : x \in Places(s, Delim, k) <=>
                 k <= x /\ x + 1 <= Len(s) /\ TwoBars(s, x)
<1>1. PICK d : d = Delim
  OBVIOUS
<1>2. d \in Seq(S) /\ Len(d) = 2 /\ d[1] = Bar /\ d[2] = Bar
  BY <1>1 DEF Delim
<1>3. /\ Places(s, d, k) \subseteq Int
      /\ \A x \in Int : x \in Places(s, d, k) <=>
            /\ k <= x /\ x + Len(d) - 1 <= Len(s)
            /\ Holds(s, x, d)
  BY <1>2, KeyPlaces
<1>4. ASSUME NEW x, x \in Int
      PROVE  Holds(s, x, d) <=> TwoBars(s, x)
  <2>1. x + 1 - 1 = x /\ x + 2 - 1 = x + 1
    BY ONLY <1>4
  <2>2. 1 \in Nat /\ 2 \in Nat /\ 1 \in 1 .. Len(d) /\ 2 \in 1 .. Len(d)
    BY <1>2
  <2>3. \A i \in Nat : i \in 1 .. Len(d) => i = 1 \/ i = 2
    BY <1>2
  <2> QED BY <1>2, <2>1, <2>2, <2>3 DEF TwoBars, Holds
<1>5. \A x \in Int : x + Len(d) - 1 = x + 1
  BY <1>2
<1> QED BY <1>1, <1>3, <1>4, <1>5

LEMMA NoUserPlaces ==
    ASSUME NEW S, Bar \in S, NEW s, s \in Seq(S)
    PROVE  /\ Places(s, NoUser, 1) \subseteq Int
           /\ \A x \in Int : x \in Places(s, NoUser, 1) <=>
                 /\ 1 <= x /\ x + 3 <= Len(s)
                 /\ TwoBars(s, x) /\ TwoBars(s, x + 1) /\ TwoBars(s, x + 2)
<1>1. PICK d : d = NoUser
  OBVIOUS
<1>2. d \in Seq(S) /\ Len(d) = 4 /\ d[1] = Bar /\ d[2] = Bar /\ d[3] = Bar /\ d[4] = Bar
  <2>1. PICK u : u = Delim
    OBVIOUS
  <2>2. u \in Seq(S) /\ Len(u) = 2 /\ u[1] = Bar /\ u[2] = Bar
    BY <2>1 DEF Delim
  <2>3. d = u \o Delim
    BY <1>1, <2>1 DEF NoUser
  <2>4. 1 \in 1 .. Len(u) /\ 2 \in 1 .. Len(u) /\ Len(u) + 1 = 3 /\ Len(u) + 2 = 4
    BY <2>2
  <2>5. u \in Seq(S)
    BY <2>2
  <2>6. /\ u \o Delim \in Seq(S) /\ Len(u \o Delim) = Len(u) + 2
        /\ (u \o Delim)[Len(u) + 1] = Bar /\ (u \o Delim)[Len(u) + 2] = Bar
    BY <2>5, BarsAppended
  <2>7. \A i \in 1 .. Len(u) : (u \o Delim)[i] = u[i]
    BY <2>5, BarsAppended
  <2> QED BY <2>2, <2>3, <2>4, <2>6, <2>7
<1>3. /\ Places(s, d, 1) \subseteq Int
      /\ \A x \in Int : x \in Places(s, d, 1) <=>
            /\ 1 <= x /\ x + Len(d) - 1 <= Len(s)
            /\ Holds(s, x, d)
  <2>1. 1 \in Nat /\ 1 >= 1
    OBVIOUS
  <2> QED BY <1>2, <2>1, KeyPlaces
<1>4. ASSUME NEW x, x \in Int
      PROVE  Holds(s, x, d) <=>
                TwoBars(s, x) /\ TwoBars(s, x + 1) /\ TwoBars(s, x + 2)
  <2>1. /\ x + 1 - 1 = x /\ x + 2 - 1 = x + 1 /\ x + 3 - 1 = x + 2 /\ x + 4 - 1 = x + 3
        /\ x + 1 + 1 = x + 2 /\ x + 2 + 1 = x + 3
    BY ONLY <1>4
  <2>2. /\ 1 \in Nat /\ 2 \in Nat /\ 1 \in 1 .. Len(d) /\ 2 \in 1 .. Len(d)
        /\ 3 \in Nat /\ 4 \in Nat /\ 3 \in 1 .. Len(d) /\ 4 \in 1 .. Len(d)
    BY <1>2
  <2>3. \A i \in Nat : i \in 1 .. Len(d) => i = 1 \/ i = 2 \/ i = 3 \/ i = 4
    BY <1>2
  <2>4. ASSUME Holds(s, x, d)
        PROVE  s[x] = Bar /\ s[x + 1] = Bar /\ s[x + 2] = Bar /\ s[x + 3] = Bar
    BY <1>2, <2>1, <2>2, <2>4 DEF Holds
  <2>5. ASSUME s[x] = Bar /\ s[x + 1] = Bar /\ s[x + 2] = Bar /\ s[x + 3] = Bar
        PROVE  Holds(s, x, d)
    BY <1>2, <2>1, <2>3, <2>5 DEF Holds
  <2> QED BY <2>1, <2>4, <2>5 DEF TwoBars
<1>5. \A x \in Int : x + Len(d) - 1 = x + 3
  BY <1>2
<1> QED BY <1>1, <1>3, <1>4, <1>5

(* A text without a delimiter, as the reader meets it.                     *)
LEMMA PlainHasNoBars ==
    ASSUME NEW S, Bar \in S, NEW t, t \in Seq(S), Plain(t)
    PROVE  /\ \A i \in Nat : i >= 1 /\ i + 1 <= Len(t) => ~ TwoBars(t, i)
           /\ t # << >> => t[Len(t)] # Bar
<1>1. 1 \in Nat /\ 1 >= 1
  OBVIOUS
<1>2. ASSUME NEW i, i \in Nat, i >= 1, i + 1 <= Len(t), TwoBars(t, i) PROVE FALSE
  <2>1. i \in Int /\ 1 <= i
    BY <1>2
  <2>2. i \in Places(t, Delim, 1)
    BY <1>1, <1>2, <2>1, DelimPlaces
  <2> QED BY <2>2 DEF Plain
<1> QED BY <1>2 DEF Plain

(* Where s holds a plain text from k on, with something after it, no       *)
(* delimiter begins inside.                                                *)
LEMMA NoneInside ==
    ASSUME NEW S, Bar \in S, NEW s, NEW t, t \in Seq(S), Plain(t), NEW k, k \in Nat,
           Holds(s, k, t),
           NEW x, x \in Int, k <= x, x <= k + Len(t) - 1
    PROVE  ~ TwoBars(s, x)
<1>1. PICK c : c \in Nat /\ c = Len(t)
  <2>1. Len(t) \in Nat
    OBVIOUS
  <2> QED BY <2>1
<1>2. PICK i : i \in Nat /\ i >= 1 /\ i <= c /\ x = k + i - 1 /\ x + 1 = k + (i + 1) - 1 /\ i + 1 \in Nat
  <2>1. k \in Nat /\ x \in Int /\ k <= x /\ x <= k + c - 1
    BY <1>1
  <2>2. x - k + 1 \in Nat /\ x - k + 1 >= 1 /\ x - k + 1 <= c /\ x = k + (x - k + 1) - 1
    BY ONLY <1>1, <2>1
  <2>3. x + 1 = k + ((x - k + 1) + 1) - 1 /\ (x - k + 1) + 1 \in Nat
    BY ONLY <1>1, <2>1
  <2> QED BY <2>2, <2>3
<1>3. s[x] = t[i]
  <2>1. i \in 1 .. c
    BY ONLY <1>1, <1>2
  <2> QED BY <1>1, <1>2, <2>1 DEF Holds
<1>4. CASE i = c
  <2>1. t # << >>
    BY <1>1, <1>2
  <2>2. t[i] # Bar
    BY <1>1, <1>4, <2>1, PlainHasNoBars
  <2> QED BY <1>3, <2>2 DEF TwoBars
<1>5. CASE i # c
  <2>1. i + 1 \in 1 .. c /\ i + 1 <= c
    BY ONLY <1>1, <1>2, <1>5
  <2>2. s[x + 1] = t[i + 1]
    BY <1>1, <1>2, <2>1 DEF Holds
  <2>3. ~ TwoBars(t, i)
    BY <1>1, <1>2, <2>1, PlainHasNoBars
  <2> QED BY <1>3, <2>2, <2>3 DEF TwoBars
<1> QED BY <1>4, <1>5

(* From the beginning of a plain field, strstr finds the delimiter that    *)
(* ends it.                                                                *)
LEMMA FirstDelim ==
    ASSUME NEW S, Bar \in S, NEW s, s \in Seq(S), NEW t, t \in Seq(S), Plain(t),
           NEW k, k \in Nat, k >= 1, NEW e, e \in Nat, e = k + Len(t), e + 1 <= Len(s),
           Holds(s, k, t),
           TwoBars(s, e)
    PROVE  StrStr(s, Delim, k) = e
<1>1. PICK c : c \in Nat /\ c = Len(t)
  <2>1. Len(t) \in Nat
    OBVIOUS
  <2> QED BY <2>1
<1>2. e \in Int /\ k <= e /\ e = k + c
  BY <1>1
<1>3. e \in Places(s, Delim, k) /\ Places(s, Delim, k) \in SUBSET Int
  BY <1>2, DelimPlaces
<1>4. ASSUME NEW x, x \in Places(s, Delim, k) PROVE e <= x
  <2>1. x \in Int /\ k <= x /\ TwoBars(s, x)
    BY <1>4, DelimPlaces
  <2>2. ~ (x <= k + Len(t) - 1)
    BY <2>1, NoneInside
  <2>3. ~ (x <= k + c - 1)
    BY <1>1, <2>2
  <2>4. k \in Nat
    OBVIOUS
  <2> QED BY ONLY <1>1, <1>2, <2>1, <2>3, <2>4
<1>5. Min(Places(s, Delim, k)) = e
  BY ONLY <1>3, <1>4, MinIsLeast
<1> QED BY <1>5 DEF StrStr

(* The layout of a value, one field at a time.                             *)
LEMMA FieldLies ==
    ASSUME NEW S, NEW f, f \in [Words -> Seq(S)], NEW s, s \in Seq(S), Lies(s, f),
           NEW n, n \in 1 .. 5
    PROVE  \E k, e \in Nat : FieldAt(s, f, n, k, e)
<1>1. PICK g : g = Start(f)
  OBVIOUS
<1>2. n \in Words /\ n - 1 \in 0 .. 5 /\ n \in 0 .. 5 /\ 5 \in n .. 5 /\ 5 \in 0 .. 5 /\ 6 \in Words
  BY DEF Words
<1>3. PICK k, c : /\ k \in Nat /\ c \in Nat /\ k = g[n - 1] /\ c = Len(f[n]) /\ k >= 1
                  /\ g[n] = k + c + 2
  <2>1. g[n - 1] \in Nat /\ g[n - 1] >= 1
    BY <1>1, <1>2, StartSteps
  <2>2. Len(f[n]) \in Nat /\ g[n] = g[n - 1] + Len(f[n]) + 2
    BY <1>1, <1>2, StartSteps
  <2> QED BY <2>1, <2>2
<1>4. PICK e : e \in Nat /\ e = k + c /\ g[n] = e + 2 /\ e = g[n] - 2 /\ e + 1 = g[n] - 1
  <2>1. k + c + 2 = (k + c) + 2 /\ k + c = (k + c + 2) - 2 /\ (k + c) + 1 = (k + c + 2) - 1 /\ k + c \in Nat
    BY ONLY <1>3
  <2> QED BY <1>3, <2>1
<1>5. e + 1 <= Len(s)
  <2>1. g[n] <= g[5]
    BY <1>1, <1>2, StartGrows
  <2>2. PICK v, l : v \in Nat /\ l \in Nat /\ v = g[5] /\ l = Len(f[6])
    <3>1. g[5] \in Nat
      BY <1>1, <1>2, StartSteps
    <3>2. Len(f[6]) \in Nat
      BY <1>2, StartSteps
    <3> QED BY <3>1, <3>2
  <2>3. Len(s) = v + l - 1
    BY <1>1, <2>2 DEF Lies
  <2>4. e + 2 <= v
    BY <1>4, <2>1, <2>2
  <2>5. e + 1 <= v + l - 1
    <3>1. e \in Nat
      BY <1>4
    <3> QED BY ONLY <2>2, <2>4, <3>1
  <2> QED BY <2>3, <2>5
<1>7. Holds(s, k, f[n])
  BY <1>1, <1>2, <1>3 DEF Lies, Holds
<1>8. TwoBars(s, e)
  <2>1. s[g[n] - 2] = Bar /\ s[g[n] - 1] = Bar
    BY <1>1 DEF Lies
  <2> QED BY <1>4, <2>1 DEF TwoBars
<1>9. FieldAt(s, f, n, k, e)
  BY <1>1, <1>3, <1>4, <1>5, <1>7, <1>8 DEF FieldAt
<1> QED BY <1>3, <1>4, <1>9

(* The loops of the reader stop where the fields begin.                    *)
LEMMA BeginIsStart ==
    ASSUME NEW S, Bar \in S, NEW f, f \in [Words -> Seq(S)], Readable(f),
           NEW s, s \in Seq(S), Lies(s, f)
    PROVE  \A n \in 0 .. 5 : Begin(s)[n] = Start(f)[n]
<1>1. PICK g : g = Start(f)
  OBVIOUS
<1>2. Len(Delim) = 2
  BY DEF Delim
<1>3. ASSUME NEW n, n \in 1 .. 5
      PROVE  g[n] = StrStr(s, Delim, g[n - 1]) + Len(Delim)
  <2>1. PICK k, e \in Nat : FieldAt(s, f, n, k, e)
    BY <1>3, FieldLies
  <2>2. Plain(f[n]) /\ f[n] \in Seq(S)
    BY <1>3 DEF Readable, Words
  <2>3. StrStr(s, Delim, k) = e
    BY <2>1, <2>2, FirstDelim DEF FieldAt
  <2> QED BY <1>1, <1>2, <2>1, <2>3 DEF FieldAt
<1>4. g = [n \in 0 .. 5 |-> IF n = 0 THEN 1 ELSE StrStr(s, Delim, g[n - 1]) + Len(Delim)]
  <2>1. g \in [0 .. 5 -> Nat] /\ g[0] = 1
    BY <1>1, StartSteps
  <2>2. \A n \in 0 .. 5 : n # 0 => n \in 1 .. 5
    OBVIOUS
  <2>3. \A n \in 0 .. 5 : g[n] = IF n = 0 THEN 1 ELSE StrStr(s, Delim, g[n - 1]) + Len(Delim)
    BY <1>3, <2>1, <2>2
  <2> QED BY <2>1, <2>3
<1>5. \E b : b = [n \in 0 .. 5 |-> IF n = 0 THEN 1 ELSE StrStr(s, Delim, b[n - 1]) + Len(Delim)]
  BY <1>4
<1>6. PICK b : /\ b = Begin(s)
               /\ b = [n \in 0 .. 5 |-> IF n = 0 THEN 1 ELSE StrStr(s, Delim, b[n - 1]) + Len(Delim)]
  BY <1>5 DEF Begin
<1>7. /\ b[0] = 1
      /\ \A n \in 1 .. 5 : b[n] = StrStr(s, Delim, b[n - 1]) + Len(Delim)
  BY <1>6
<1>8. g[0] = 1
  BY <1>1, StartSteps
<1>9. /\ b[1] = StrStr(s, Delim, b[0]) + Len(Delim) /\ g[1] = StrStr(s, Delim, g[0]) + Len(Delim)
      /\ b[2] = StrStr(s, Delim, b[1]) + Len(Delim) /\ g[2] = StrStr(s, Delim, g[1]) + Len(Delim)
      /\ b[3] = StrStr(s, Delim, b[2]) + Len(Delim) /\ g[3] = StrStr(s, Delim, g[2]) + Len(Delim)
      /\ b[4] = StrStr(s, Delim, b[3]) + Len(Delim) /\ g[4] = StrStr(s, Delim, g[3]) + Len(Delim)
      /\ b[5] = StrStr(s, Delim, b[4]) + Len(Delim) /\ g[5] = StrStr(s, Delim, g[4]) + Len(Delim)
  <2>1. /\ 1 \in 1 .. 5 /\ 2 \in 1 .. 5 /\ 3 \in 1 .. 5 /\ 4 \in 1 .. 5 /\ 5 \in 1 .. 5
        /\ 1 - 1 = 0 /\ 2 - 1 = 1 /\ 3 - 1 = 2 /\ 4 - 1 = 3 /\ 5 - 1 = 4
    OBVIOUS
  <2>2. /\ b[1] = StrStr(s, Delim, b[1 - 1]) + Len(Delim) /\ g[1] = StrStr(s, Delim, g[1 - 1]) + Len(Delim)
        /\ b[2] = StrStr(s, Delim, b[2 - 1]) + Len(Delim) /\ g[2] = StrStr(s, Delim, g[2 - 1]) + Len(Delim)
        /\ b[3] = StrStr(s, Delim, b[3 - 1]) + Len(Delim) /\ g[3] = StrStr(s, Delim, g[3 - 1]) + Len(Delim)
        /\ b[4] = StrStr(s, Delim, b[4 - 1]) + Len(Delim) /\ g[4] = StrStr(s, Delim, g[4 - 1]) + Len(Delim)
        /\ b[5] = StrStr(s, Delim, b[5 - 1]) + Len(Delim) /\ g[5] = StrStr(s, Delim, g[5 - 1]) + Len(Delim)
    BY <1>3, <1>7, <2>1, Zenon
  <2> QED BY <2>1, <2>2, Zenon
<1>10. b[0] = g[0] /\ b[1] = g[1] /\ b[2] = g[2] /\ b[3] = g[3] /\ b[4] = g[4] /\ b[5] = g[5]
  <2>1. b[0] = g[0]
    BY <1>7, <1>8, Zenon
  <2>2. b[1] = g[1]
    BY ONLY <1>9, <2>1
  <2>3. b[2] = g[2]
    BY ONLY <1>9, <2>2
  <2>4. b[3] = g[3]
    BY ONLY <1>9, <2>3
  <2>5. b[4] = g[4]
    BY ONLY <1>9, <2>4
  <2>6. b[5] = g[5]
    BY ONLY <1>9, <2>5
  <2> QED BY <2>1, <2>2, <2>3, <2>4, <2>5, <2>6
<1>11. \A n \in 0 .. 5 : n = 0 \/ n = 1 \/ n = 2 \/ n = 3 \/ n = 4 \/ n = 5
  OBVIOUS
<1> QED BY <1>1, <1>6, <1>10, <1>11, Zenon

(* Every place of a value is in a field or in a delimiter.                 *)
LEMMA FieldOrDelim ==
    ASSUME NEW S, NEW f, f \in [Words -> Seq(S)],
           NEW x, x \in Nat, x >= 1, x <= Start(f)[5] + Len(f[6]) - 1
    PROVE  \/ \E n \in Words : /\ Start(f)[n - 1] <= x
                              /\ x <= Start(f)[n - 1] + Len(f[n]) - 1
           \/ \E n \in 1 .. 5 : x = Start(f)[n] - 2 \/ x = Start(f)[n] - 1
<1>1. PICK g : g = Start(f)
  OBVIOUS
<1>2. g[0] = 1
  BY <1>1, StartSteps
<1>3. ASSUME NEW n, n \in 1 .. 5, x >= g[n - 1], x <= g[n] - 1
      PROVE  \/ x <= g[n - 1] + Len(f[n]) - 1
             \/ x = g[n] - 2 \/ x = g[n] - 1
  <2>1. n \in Words /\ n - 1 \in 0 .. 5
    BY <1>3 DEF Words
  <2>2. PICK k, c : k \in Nat /\ c \in Nat /\ k = g[n - 1] /\ c = Len(f[n]) /\ g[n] = k + c + 2
    <3>1. g[n - 1] \in Nat
      BY <1>1, <2>1, StartSteps
    <3>2. Len(f[n]) \in Nat /\ g[n] = g[n - 1] + Len(f[n]) + 2
      BY <1>1, <1>3, <2>1, StartSteps
    <3> QED BY <3>1, <3>2
  <2>3. x <= k + c + 2 - 1
    BY <1>3, <2>2
  <2>4. x <= k + c - 1 \/ x = k + c + 2 - 2 \/ x = k + c + 2 - 1
    <3>1. k \in Nat /\ c \in Nat
      BY <2>2
    <3> QED BY ONLY <2>3, <3>1, x \in Nat
  <2> QED BY <2>2, <2>4
<1>4. /\ g[0] \in Nat /\ g[1] \in Nat /\ g[2] \in Nat
      /\ g[3] \in Nat /\ g[4] \in Nat /\ g[5] \in Nat
  BY <1>1, StartSteps
<1>5. \/ x >= g[0] /\ x <= g[1] - 1
      \/ x >= g[1] /\ x <= g[2] - 1
      \/ x >= g[2] /\ x <= g[3] - 1
      \/ x >= g[3] /\ x <= g[4] - 1
      \/ x >= g[4] /\ x <= g[5] - 1
      \/ x >= g[5]
  <2>1. x >= g[0]
    BY <1>2
  <2> QED BY ONLY <1>4, <2>1, x \in Nat
<1>6. ASSUME NEW n, n \in 1 .. 5, x >= g[n - 1], x <= g[n] - 1
      PROVE  \/ \E m \in Words : g[m - 1] <= x /\ x <= g[m - 1] + Len(f[m]) - 1
             \/ \E m \in 1 .. 5 : x = g[m] - 2 \/ x = g[m] - 1
  <2>1. n \in Words
    BY <1>6 DEF Words
  <2>2. g[n - 1] <= x
    <3>1. n - 1 \in 0 .. 5
      BY <1>6
    <3>2. g[n - 1] \in Nat
      BY <1>1, <3>1, StartSteps
    <3> QED BY <1>6, <3>2
  <2> QED BY <1>3, <1>6, <2>1, <2>2
<1>7. CASE x >= g[5]
  <2>1. 6 \in Words /\ 6 - 1 = 5
    BY DEF Words
  <2>2. g[6 - 1] <= x /\ x <= g[6 - 1] + Len(f[6]) - 1
    BY <1>1, <1>4, <1>7, <2>1
  <2> QED BY <1>1, <2>1, <2>2
<1>8. CASE ~ (x >= g[5])
  <2>1. \E n \in 1 .. 5 : x >= g[n - 1] /\ x <= g[n] - 1
    <3>1. /\ 1 \in 1 .. 5 /\ 2 \in 1 .. 5 /\ 3 \in 1 .. 5 /\ 4 \in 1 .. 5 /\ 5 \in 1 .. 5
          /\ 1 - 1 = 0 /\ 2 - 1 = 1 /\ 3 - 1 = 2 /\ 4 - 1 = 3 /\ 5 - 1 = 4
      OBVIOUS
    <3> QED BY <1>5, <1>8, <3>1
  <2> QED BY <1>1, <1>6, <2>1
<1> QED BY <1>7, <1>8

(* Two bars stand only where a field has ended.                            *)
LEMMA BarsEndField ==
    ASSUME NEW S, Bar \in S, NEW f, f \in [Words -> Seq(S)], Readable(f),
           NEW s, s \in Seq(S), Lies(s, f),
           NEW x, x \in Nat, x >= 1, x <= Len(s), TwoBars(s, x)
    PROVE  /\ \A n \in Words : Start(f)[n - 1] <= x => ~ (x <= Start(f)[n - 1] + Len(f[n]) - 1)
           /\ \E n \in 1 .. 5 : x = Start(f)[n] - 2 \/ x = Start(f)[n] - 1
<1>1. x <= Start(f)[5] + Len(f[6]) - 1
  BY DEF Lies
<1>2. ASSUME NEW n, n \in Words, Start(f)[n - 1] <= x, x <= Start(f)[n - 1] + Len(f[n]) - 1
      PROVE  FALSE
  <2>1. f[n] \in Seq(S) /\ Plain(f[n])
    BY <1>2 DEF Readable
  <2>2. Holds(s, Start(f)[n - 1], f[n])
    BY <1>2 DEF Lies, Holds
  <2>3. Start(f)[n - 1] \in Nat /\ x \in Int
    <3>1. n - 1 \in 0 .. 5
      BY <1>2 DEF Words
    <3> QED BY <3>1, StartSteps
  <2> QED BY <1>2, <2>1, <2>2, <2>3, NoneInside
<1> QED BY <1>1, <1>2, FieldOrDelim

(* A mark stands where a user name is missing, and not before the place    *)
(* where it should be.                                                     *)
LEMMA MarkIsEmptyUser ==
    ASSUME NEW S, Bar \in S, NEW f, f \in [Words -> Seq(S)], Readable(f), Complete(f),
           NEW s, s \in Seq(S), Lies(s, f),
           NEW x, x \in Places(s, NoUser, 1)
    PROVE  f[5] = << >> /\ Start(f)[4] - 2 <= x
<1>1. /\ x \in Nat /\ 1 <= x /\ x + 3 <= Len(s)
      /\ TwoBars(s, x) /\ TwoBars(s, x + 1) /\ TwoBars(s, x + 2)
  <2>1. x \in Int
    BY NoUserPlaces
  <2>2. /\ 1 <= x /\ x + 3 <= Len(s)
        /\ TwoBars(s, x) /\ TwoBars(s, x + 1) /\ TwoBars(s, x + 2)
    BY <2>1, NoUserPlaces
  <2> QED BY <2>1, <2>2
<1>2. PICK g, l : g = Start(f) /\ l = Len(s) /\ l \in Nat
  <2>1. Len(s) \in Nat
    OBVIOUS
  <2> QED BY <2>1
<1>3. PICK n \in 1 .. 5 : x = g[n] - 2 \/ x = g[n] - 1
  <2>1. x >= 1 /\ x <= Len(s)
    <3>1. x + 3 <= l /\ x \in Nat /\ 1 <= x
      BY <1>1, <1>2
    <3>2. x <= l /\ x >= 1
      BY ONLY <1>2, <3>1
    <3> QED BY <1>2, <3>2
  <2>2. x \in Nat /\ TwoBars(s, x)
    BY <1>1
  <2>3. \E n \in 1 .. 5 : x = Start(f)[n] - 2 \/ x = Start(f)[n] - 1
    BY <2>1, <2>2, BarsEndField
  <2> QED BY <1>2, <2>3
<1>4. n + 1 \in Words /\ (n + 1) - 1 = n /\ n \in 0 .. 5 /\ 5 \in n .. 5 /\ n \in 1 .. 5
  BY DEF Words
<1>5. PICK a, c : /\ a \in Nat /\ c \in Nat /\ a = g[n] /\ c = Len(f[n + 1])
                  /\ f[n + 1] \in Seq(S)
  <2>1. g[n] \in Nat
    BY <1>2, <1>4, StartSteps
  <2>2. f[n + 1] \in Seq(S)
    BY <1>4
  <2>3. Len(f[n + 1]) \in Nat
    BY <2>2
  <2> QED BY <2>1, <2>2, <2>3
<1>6. TwoBars(s, a) /\ a >= 1 /\ a <= x + 2 /\ a - 2 <= x
  <2>1. x = a - 2 \/ x = a - 1
    BY <1>3, <1>5
  <2>2. (x + 2 = a \/ x + 1 = a) /\ a >= 1 /\ a <= x + 2 /\ a - 2 <= x
    <3>1. a \in Nat /\ x \in Nat /\ 1 <= x
      BY <1>1, <1>5
    <3> QED BY ONLY <2>1, <3>1
  <2> QED BY <1>1, <2>2
<1>7. a + 1 <= l /\ a <= l
  <2>1. x + 3 <= l /\ a <= x + 2 /\ a \in Nat /\ x \in Nat /\ l \in Nat
    BY <1>1, <1>2, <1>5, <1>6
  <2> QED BY ONLY <2>1
<1>8. c = 0
  <2>1. ~ (a <= a + c - 1)
    <3>1. a <= Len(s)
      BY <1>2, <1>7
    <3>2. Start(f)[(n + 1) - 1] <= a => ~ (a <= Start(f)[(n + 1) - 1] + Len(f[n + 1]) - 1)
      BY <1>4, <1>5, <1>6, <3>1, BarsEndField
    <3>3. Start(f)[(n + 1) - 1] = a
      BY <1>2, <1>4, <1>5
    <3>4. a <= a
      BY <1>5
    <3> QED BY <1>5, <3>2, <3>3, <3>4
  <2>2. a \in Nat /\ c \in Nat
    BY <1>5
  <2> QED BY ONLY <2>1, <2>2
<1>9. f[n + 1] = << >>
  BY <1>5, <1>8, EmptySeq
<1>10. n # 5
  <2>1. SUFFICES ASSUME n = 5 PROVE FALSE
    OBVIOUS
  <2>2. Len(s) = g[5] + Len(f[6]) - 1
    BY <1>2 DEF Lies
  <2>3. Len(f[6]) = c /\ g[5] = a
    BY <1>5, <2>1
  <2>4. l = a + 0 - 1
    BY <1>2, <1>8, <2>2, <2>3
  <2>5. a \in Nat /\ a + 1 <= l
    BY <1>5, <1>7
  <2> QED BY ONLY <2>4, <2>5
<1>11. n \notin 1 .. 3
  <2>1. n \in 1 .. 3 => n + 1 \in 2 .. 4
    OBVIOUS
  <2> QED BY <1>9, <2>1 DEF Complete
<1>12. n = 4
  BY <1>10, <1>11
<1> QED BY <1>2, <1>5, <1>6, <1>9, <1>12

(* A missing user name leaves a mark.                                      *)
LEMMA EmptyUserIsMark ==
    ASSUME NEW S, Bar \in S, NEW f, f \in [Words -> Seq(S)],
           NEW s, s \in Seq(S), Lies(s, f), f[5] = << >>
    PROVE  Start(f)[4] - 2 \in Places(s, NoUser, 1)
<1>1. PICK m, n : m = 4 /\ n = 5 /\ m \in 1 .. 5 /\ n \in 1 .. 5 /\ n - 1 = m
  OBVIOUS
<1>2. PICK k, e \in Nat : FieldAt(s, f, m, k, e)
  BY <1>1, FieldLies
<1>3. PICK k2, e2 \in Nat : FieldAt(s, f, n, k2, e2)
  BY <1>1, FieldLies
<1>4. /\ e >= 1 /\ TwoBars(s, e) /\ Start(f)[4] = e + 2
      /\ e2 = e + 2 /\ TwoBars(s, e2) /\ e2 + 1 <= Len(s)
  <2>1. k2 = e + 2 /\ Len(f[n]) = 0 /\ e2 = k2 + Len(f[n])
    BY <1>1, <1>2, <1>3 DEF FieldAt
  <2>2. e2 = e + 2
    BY <2>1
  <2>3. e >= 1
    <3>1. PICK c : c \in Nat /\ e = k + c /\ k \in Nat /\ k >= 1
      <4>1. m \in Words
        BY <1>1 DEF Words
      <4>2. Len(f[m]) \in Nat
        BY <4>1, StartSteps
      <4> QED BY <1>2, <4>2 DEF FieldAt
    <3> QED BY ONLY <3>1
  <2> QED BY <1>1, <1>2, <1>3, <2>2, <2>3 DEF FieldAt
<1>5. e \in Nat /\ e >= 1 /\ e2 = e + 2
  BY <1>4
<1>6. PICK l : l \in Nat /\ l = Len(s) /\ e2 + 1 <= l
  <2>1. Len(s) \in Nat
    OBVIOUS
  <2> QED BY <1>4, <2>1
<1>7. e + 3 <= l /\ e \in Int /\ 1 <= e
  BY ONLY <1>5, <1>6
<1>8. TwoBars(s, e + 1)
  <2>1. (e + 1) + 1 = e + 2
    BY ONLY <1>5
  <2> QED BY <1>4, <2>1 DEF TwoBars
<1>9. e \in Places(s, NoUser, 1)
  BY <1>4, <1>6, <1>7, <1>8, NoUserPlaces
<1>10. Start(f)[4] - 2 = e
  BY <1>4
<1> QED BY <1>9, <1>10

(* The reader looks for a mark and finds it where the fifth field is empty.*)
LEMMA MarkFound ==
    ASSUME NEW S, Bar \in S, NEW f, f \in [Words -> Seq(S)], Readable(f), Complete(f),
           NEW s, s \in Seq(S), Lies(s, f)
    PROVE  /\ HasMark(s) <=> f[5] = << >>
           /\ HasMark(s) => Mark(s) = Start(f)[4] - 2
<1>1. HasMark(s) => f[5] = << >>
  BY MarkIsEmptyUser DEF HasMark
<1>2. f[5] = << >> => HasMark(s)
  BY EmptyUserIsMark DEF HasMark
<1>3. ASSUME HasMark(s) PROVE Mark(s) = Start(f)[4] - 2
  <2>1. Start(f)[4] - 2 \in Places(s, NoUser, 1)
    BY <1>1, <1>3, EmptyUserIsMark
  <2>2. \A x \in Places(s, NoUser, 1) : Start(f)[4] - 2 <= x
    BY MarkIsEmptyUser
  <2>3. Places(s, NoUser, 1) \in SUBSET Int
    BY NoUserPlaces
  <2>4. Min(Places(s, NoUser, 1)) = Start(f)[4] - 2
    BY ONLY <2>1, <2>2, <2>3, MinIsLeast
  <2> QED BY <2>4 DEF Mark, StrStr
<1> QED BY <1>1, <1>2, <1>3

(* What strncpy takes between two places of the reader is the field.       *)
LEMMA FieldRead ==
    ASSUME NEW S, NEW f, f \in [Words -> Seq(S)],
           NEW s, s \in Seq(S), Lies(s, f), NEW n, n \in 1 .. 5
    PROVE  SubSeq(s, Start(f)[n - 1], Start(f)[n] - 2 - 1) = f[n]
<1>1. PICK k, e \in Nat : FieldAt(s, f, n, k, e)
  BY FieldLies
<1>2. PICK t : t = f[n] /\ t \in Seq(S)
  BY DEF Words
<1>3. PICK c, l : c \in Nat /\ l \in Nat /\ c = Len(t) /\ l = Len(s) /\ e = k + c /\ e + 1 <= l /\ k >= 1
                  /\ k \in Nat /\ e \in Nat
  <2>1. Len(t) \in Nat /\ Len(s) \in Nat
    BY <1>2
  <2> QED BY <1>1, <1>2, <2>1 DEF FieldAt
<1>4. PICK b : b \in Nat /\ b = k + c - 1 /\ b <= l /\ e + 2 - 2 - 1 = b
  BY ONLY <1>3
<1>5. SubSeq(s, k, b) = t
  <2>1. Holds(s, k, t)
    BY <1>1, <1>2 DEF FieldAt
  <2>2. k \in Nat /\ b \in Nat /\ 1 <= k /\ b = k + Len(t) - 1 /\ b <= Len(s)
    BY <1>3, <1>4
  <2> QED BY <1>2, <2>1, <2>2, Cut
<1>6. Start(f)[n - 1] = k /\ Start(f)[n] - 2 - 1 = b
  BY <1>1, <1>4 DEF FieldAt
<1> QED BY <1>2, <1>5, <1>6

LEMMA LastRead ==
    ASSUME NEW S, NEW f, f \in [Words -> Seq(S)], NEW s, s \in Seq(S), Lies(s, f)
    PROVE  SubSeq(s, Start(f)[5], Len(s)) = f[6]
<1>1. PICK t, n : t = f[6] /\ t \in Seq(S) /\ n = 6 /\ n \in Words /\ n - 1 = 5
  BY DEF Words
<1>2. Holds(s, Start(f)[5], t)
  BY <1>1 DEF Lies, Holds
<1>3. PICK k, c, l : k \in Nat /\ c \in Nat /\ l \in Nat /\ k = Start(f)[5] /\ c = Len(t) /\ l = Len(s) /\ 1 <= k
  <2>1. Len(t) \in Nat /\ Len(s) \in Nat
    BY <1>1
  <2>2. Start(f)[5] \in Nat /\ Start(f)[5] >= 1
    BY StartSteps
  <2> QED BY <2>1, <2>2
<1>4. l = k + c - 1
  <2>1. Len(s) = Start(f)[5] + Len(f[6]) - 1
    BY DEF Lies
  <2> QED BY <1>1, <1>3, <2>1
<1>5. l <= l
  BY <1>3
<1>6. SubSeq(s, k, l) = t
  <2>1. Holds(s, k, t) /\ t \in Seq(S)
    BY <1>1, <1>2, <1>3
  <2>2. k \in Nat /\ l \in Nat /\ 1 <= k /\ l = k + Len(t) - 1 /\ l <= Len(s)
    BY <1>3, <1>4, <1>5
  <2> QED BY <2>1, <2>2, Cut
<1> QED BY <1>1, <1>3, <1>6

-----------------------------------------------------------------------------
(* What get_value_by_redis takes out of a record is what write_redis put   *)
(* in, field by field, and it survives the reading: for every text of      *)
(* every alphabet, when no field has a delimiter inside or ends in half of *)
(* one, and the second, third and fourth are not empty (data_use.c 64-124, *)
(* usefull.c 300-322).                                                     *)
THEOREM RoundTrip ==
    ASSUME NEW S, Bar \in S, NEW f, f \in [Words -> Seq(S)], Readable(f), Complete(f),
           NEW n, n \in Words
    PROVE  Get(Value(f), n) = f[n]
<1>1. PICK s : s = Value(f)
  OBVIOUS
<1>2. s \in Seq(S) /\ Lies(s, f)
  BY <1>1, ValueLies
<1>3. PICK g : g = Start(f) /\ \A m \in 0 .. 5 : Begin(s)[m] = g[m]
  BY <1>2, BeginIsStart
<1>4. /\ \A m \in 1 .. 5 : SubSeq(s, g[m - 1], g[m] - 2 - 1) = f[m]
      /\ SubSeq(s, g[5], Len(s)) = f[6]
  <2>1. ASSUME NEW m, m \in 1 .. 5 PROVE SubSeq(s, g[m - 1], g[m] - 2 - 1) = f[m]
    BY <1>2, <1>3, <2>1, FieldRead
  <2>2. SubSeq(s, g[5], Len(s)) = f[6]
    BY <1>2, <1>3, LastRead
  <2> QED BY <2>1, <2>2
<1>5. /\ HasMark(s) <=> f[5] = << >>
      /\ HasMark(s) => Mark(s) = g[4] - 2
  BY <1>2, <1>3, MarkFound
<1>6. Len(Delim) = 2 /\ Len(NoUser) = 4
  BY DEF Delim, NoUser
<1>7. CASE n \in 1 .. 3
  <2>1. n # 4 /\ n # 5 /\ n # 6 /\ n \in 1 .. 5 /\ n - 1 \in 0 .. 5 /\ n \in 0 .. 5
    BY <1>7
  <2>2. Get(s, n) = SubSeq(s, Begin(s)[n - 1], Begin(s)[n] - Len(Delim) - 1)
    BY <1>7, <2>1, Zenon DEF Get
  <2>3. Get(s, n) = SubSeq(s, g[n - 1], g[n] - 2 - 1)
    BY <1>3, <1>6, <2>1, <2>2
  <2> QED BY <1>1, <1>4, <2>1, <2>3
<1>8. CASE n = 4
  <2>1. n \notin 1 .. 3 /\ n # 5 /\ n # 6 /\ 3 \in 0 .. 5 /\ 4 \in 0 .. 5
    BY <1>8
  <2>2. Get(s, n) = IF HasMark(s) THEN SubSeq(s, Begin(s)[3], Mark(s) - 1)
                    ELSE SubSeq(s, Begin(s)[3], Begin(s)[4] - Len(Delim) - 1)
    BY <1>8, <2>1, Zenon DEF Get
  <2>3. Get(s, n) = SubSeq(s, g[3], g[4] - 2 - 1)
    BY <1>3, <1>5, <1>6, <2>1, <2>2
  <2>4. SubSeq(s, g[3], g[4] - 2 - 1) = f[4]
    <3>1. 4 \in 1 .. 5 /\ 4 - 1 = 3
      OBVIOUS
    <3> QED BY <1>4, <3>1
  <2> QED BY <1>1, <1>8, <2>3, <2>4
<1>9. CASE n = 5
  <2>1. n \notin 1 .. 3 /\ n # 4 /\ n # 6 /\ 4 \in 0 .. 5 /\ 5 \in 0 .. 5
    BY <1>9
  <2>2. Get(s, n) = IF HasMark(s) THEN << >>
                    ELSE SubSeq(s, Begin(s)[4], Begin(s)[5] - Len(Delim) - 1)
    BY <1>9, <2>1, Zenon DEF Get
  <2>3. Get(s, n) = IF HasMark(s) THEN << >> ELSE SubSeq(s, g[4], g[5] - 2 - 1)
    BY <1>3, <1>6, <2>1, <2>2
  <2>4. SubSeq(s, g[4], g[5] - 2 - 1) = f[5]
    <3>1. 5 \in 1 .. 5 /\ 5 - 1 = 4
      OBVIOUS
    <3> QED BY <1>4, <3>1
  <2> QED BY <1>1, <1>5, <1>9, <2>3, <2>4
<1>10. CASE n = 6
  <2>1. n \notin 1 .. 3 /\ n # 4 /\ n # 5 /\ 5 \in 0 .. 5
    BY <1>10
  <2>2. Get(s, n) = IF HasMark(s) THEN SubSeq(s, Mark(s) + Len(NoUser), Len(s))
                    ELSE SubSeq(s, Begin(s)[5], Len(s))
    BY <1>10, <2>1, Zenon DEF Get
  <2>3. Get(s, n) = IF HasMark(s) THEN SubSeq(s, g[4] - 2 + 4, Len(s))
                    ELSE SubSeq(s, g[5], Len(s))
    BY <1>3, <1>5, <1>6, <2>1, <2>2
  <2>4. HasMark(s) => g[4] - 2 + 4 = g[5]
    <3>1. 5 \in 1 .. 5 /\ 5 - 1 = 4 /\ 4 \in 0 .. 5
      OBVIOUS
    <3>2. g[5] = g[4] + Len(f[5]) + 2 /\ g[4] \in Nat
      BY <1>3, <3>1, StartSteps
    <3>3. ASSUME f[5] = << >> PROVE g[4] - 2 + 4 = g[5]
      <4>1. g[5] = g[4] + 0 + 2
        BY <3>2, <3>3
      <4> QED BY <3>2, <4>1
    <3> QED BY <1>5, <3>3
  <2> QED BY <1>1, <1>4, <1>10, <2>3, <2>4
<1>11. n \in 1 .. 3 \/ n = 4 \/ n = 5 \/ n = 6
  BY DEF Words
<1> QED BY <1>7, <1>8, <1>9, <1>10, <1>11

(* The reader survives every such record: a mark never stands before the   *)
(* place where the fourth field begins (data_use.c 76-88).                 *)
THEOREM ReaderSurvives ==
    ASSUME NEW S, Bar \in S, NEW f, f \in [Words -> Seq(S)], Readable(f), Complete(f)
    PROVE  ~ Crashes(Value(f))
<1>1. PICK s : s = Value(f)
  OBVIOUS
<1>2. s \in Seq(S) /\ Lies(s, f)
  BY <1>1, ValueLies
<1>3. PICK g : g = Start(f) /\ \A m \in 0 .. 5 : Begin(s)[m] = g[m]
  BY <1>2, BeginIsStart
<1>4. HasMark(s) => Mark(s) = g[4] - 2
  BY <1>2, <1>3, MarkFound
<1>5. ~ (g[4] - 2 < g[3])
  <2>1. 4 \in 1 .. 5 /\ 4 - 1 = 3 /\ 4 \in Words /\ 3 \in 0 .. 5
    BY DEF Words
  <2>2. g[4] = g[3] + Len(f[4]) + 2 /\ Len(f[4]) \in Nat /\ g[3] \in Nat
    BY <1>3, <2>1, StartSteps
  <2>3. PICK a, c : a \in Nat /\ c \in Nat /\ g[3] = a /\ g[4] = a + c + 2
    BY <2>2
  <2> QED BY ONLY <2>3
<1>6. ~ Crashes(s)
  <2>1. 3 \in 0 .. 5
    OBVIOUS
  <2> QED BY <1>3, <1>4, <1>5, <2>1 DEF Crashes
<1> QED BY <1>1, <1>6
==============================================================================
