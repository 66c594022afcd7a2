--------------------------- MODULE FileTextsProofs ---------------------------
(***************************************************************************)
(* What FileTexts says of the texts of one file, for every file, every     *)
(* place an upload breaks off at and every answer of the FastDFS tools:    *)
(* what is stored, what a worker ends over, what a row and its picture     *)
(* show.  The lemmas follow the texts in the order the code makes them:    *)
(* the form, its headers, the file in it, the name, the address, the url,  *)
(* the record, and the query of a click.                                   *)
(***************************************************************************)
EXTENDS FileTexts, RecordProofs, FiniteSetTheorems, WellFoundedInduction

\* Whatever a text of this model is made of.
Letters == STRING \cup {Bar, Dashes, NameKey, "b", "CR", "LF", "quote", "type", "/",
                        "http://", "time", "user", "null", "group", Source, ".", "line", "SP"}

\* Every token of a text that the model spells out is among them.
LEMMA Spelled ==
    /\ STRING \subseteq Letters
    /\ Bar \in Letters /\ Dashes \in Letters /\ NameKey \in Letters /\ "b" \in Letters
    /\ "CR" \in Letters /\ "LF" \in Letters /\ "quote" \in Letters /\ "type" \in Letters
    /\ "/" \in Letters /\ "http://" \in Letters /\ "time" \in Letters /\ "user" \in Letters
    /\ "null" \in Letters /\ "group" \in Letters /\ Source \in Letters /\ "." \in Letters
    /\ "line" \in Letters /\ "SP" \in Letters
BY DEF Letters

\* A text over some tokens is one over more of them.
LEMMA Wider ==
    ASSUME NEW S, NEW T, S \subseteq T, NEW s, s \in Seq(S)
    PROVE  s \in Seq(T)
OBVIOUS

(* A set of numbers that is not empty has a smallest element, and Min is   *)
(* that element: the place strstr returns exists.                          *)
LEMMA LeastOf ==
    ASSUME NEW P, P \subseteq Nat, P # {}
    PROVE  Min(P) \in P /\ \A x \in P : Min(P) <= x
<1>1. \E x \in P : \A y \in P : ~ (<<y, x>> \in OpToRel(<, Nat))
  BY NatLessThanWellFounded, WFMin
<1>2. \E x \in P : \A y \in P : x <= y
  <2>1. PICK x \in P : \A y \in P : ~ (<<y, x>> \in {r \in Nat \X Nat : r[1] < r[2]})
    BY <1>1 DEF OpToRel
  <2>2. ASSUME NEW y \in P PROVE x <= y
    <3>1. x \in Nat /\ y \in Nat /\ ~ (y < x)
      BY <2>1
    <3> QED BY ONLY <3>1
  <2> QED BY <2>2
<1> QED BY <1>2 DEF Min

\* Joined, with a name for what two texts make.
LEMMA Appended ==
    ASSUME NEW S, NEW u, u \in Seq(S), NEW d, d \in Seq(S), NEW v, v = u \o d
    PROVE  /\ v \in Seq(S) /\ Len(v) = Len(u) + Len(d)
           /\ \A i \in 1 .. Len(u) : v[i] = u[i]
           /\ \A i \in 1 .. Len(d) : v[Len(u) + i] = d[i]
BY Joined

\* s is the form of a file with the name x, n tokens long, and the bytes y, b
\* tokens long: which token stands at which place.
FormAt(s, x, y, n, b) ==
    /\ n \in Nat /\ n = Len(x) /\ b \in Nat /\ b = Len(y)
    /\ s \in Seq(Letters) /\ Len(s) = n + b + 20
    /\ s[1] = Dashes /\ s[2] = "b" /\ s[3] = "CR" /\ s[4] = "LF"
    /\ s[5] = NameKey /\ s[6] = "quote"
    /\ \A i \in 1 .. n : s[6 + i] = x[i]
    /\ s[n + 7] = "quote" /\ s[n + 8] = "CR" /\ s[n + 9] = "LF" /\ s[n + 10] = "type"
    /\ s[n + 11] = "CR" /\ s[n + 12] = "LF" /\ s[n + 13] = "CR" /\ s[n + 14] = "LF"
    /\ \A i \in 1 .. b : s[n + 14 + i] = y[i]
    /\ s[n + 14 + (b + 1)] = "CR" /\ s[n + 14 + (b + 2)] = "LF"
    /\ s[n + 14 + (b + 3)] = Dashes /\ s[n + 14 + (b + 4)] = "b"
    /\ s[n + 14 + (b + 5)] = "CR" /\ s[n + 14 + (b + 6)] = "LF"

(* The form browsers send a file in has every part at its place, whatever  *)
(* the name and the bytes are.                                             *)
LEMMA FormLies ==
    ASSUME NEW g, Possible(g)
    PROVE  FormAt(Form(g), g.name, g.bytes, Len(g.name), Len(g.bytes))
<1>1. PICK name_, bytes_ : name_ = g.name /\ bytes_ = g.bytes
  OBVIOUS
<1>2. name_ \in Seq(Letters) /\ bytes_ \in Seq(Letters)
  BY <1>1, Wider, Spelled DEF Possible
<1>3. PICK h, m, e : /\ h = <<Dashes, "b", "CR", "LF", NameKey, "quote">>
                     /\ m = <<"quote", "CR", "LF", "type", "CR", "LF", "CR", "LF">>
                     /\ e = <<"CR", "LF", Dashes, "b", "CR", "LF">>
  OBVIOUS
<1>4. /\ h \in Seq(Letters) /\ Len(h) = 6
      /\ h[1] = Dashes /\ h[2] = "b" /\ h[3] = "CR" /\ h[4] = "LF" /\ h[5] = NameKey
      /\ h[6] = "quote"
  BY <1>3, Spelled
<1>5. /\ m \in Seq(Letters) /\ Len(m) = 8
      /\ m[1] = "quote" /\ m[2] = "CR" /\ m[3] = "LF" /\ m[4] = "type" /\ m[5] = "CR"
      /\ m[6] = "LF" /\ m[7] = "CR" /\ m[8] = "LF"
  BY <1>3, Spelled
<1>6. /\ e \in Seq(Letters) /\ Len(e) = 6
      /\ e[1] = "CR" /\ e[2] = "LF" /\ e[3] = Dashes /\ e[4] = "b" /\ e[5] = "CR"
      /\ e[6] = "LF"
  BY <1>3, Spelled
<1>7. PICK n, b : n = Len(name_) /\ b = Len(bytes_) /\ n \in Nat /\ b \in Nat
  <2>1. Len(name_) \in Nat /\ Len(bytes_) \in Nat
    BY <1>2
  <2> QED BY <2>1
<1>8. PICK u : u = h \o name_
  OBVIOUS
<1>9. PICK v : v = u \o m
  OBVIOUS
<1>10. PICK w : w = v \o bytes_
  OBVIOUS
<1>11. PICK s : s = w \o e
  OBVIOUS
<1>12. u \in Seq(Letters) /\ Len(u) = 6 + n /\ (\A i \in 1 .. 6 : u[i] = h[i])
       /\ \A i \in 1 .. n : u[6 + i] = name_[i]
  <2>1. h \in Seq(Letters) /\ Len(h) = 6 /\ name_ \in Seq(Letters) /\ n = Len(name_)
    BY <1>2, <1>4, <1>7
  <2>2. /\ u \in Seq(Letters) /\ Len(u) = Len(h) + Len(name_)
        /\ \A i \in 1 .. Len(h) : u[i] = h[i]
        /\ \A i \in 1 .. Len(name_) : u[Len(h) + i] = name_[i]
    <3>1. h \in Seq(Letters) /\ name_ \in Seq(Letters)
      BY <2>1
    <3> QED BY ONLY <1>8, <3>1, Appended
  <2> QED BY ONLY <2>1, <2>2
<1>13. v \in Seq(Letters) /\ Len(v) = n + 14 /\ (\A i \in 1 .. n + 6 : v[i] = u[i])
       /\ \A i \in 1 .. 8 : v[n + 6 + i] = m[i]
  <2>1. v \in Seq(Letters) /\ Len(v) = Len(u) + 8 /\ (\A i \in 1 .. Len(u) : v[i] = u[i])
        /\ \A i \in 1 .. 8 : v[Len(u) + i] = m[i]
    <3>0. Len(m) = 8
      BY <1>5
    <3>1. m \in Seq(Letters) /\ u \in Seq(Letters)
      BY <1>5, <1>12
    <3>2. /\ v \in Seq(Letters) /\ Len(v) = Len(u) + Len(m)
          /\ \A i \in 1 .. Len(u) : v[i] = u[i]
          /\ \A i \in 1 .. Len(m) : v[Len(u) + i] = m[i]
      BY ONLY <1>9, <3>1, Appended
    <3> QED BY ONLY <3>0, <3>2
  <2>2. Len(u) = n + 6 /\ (n + 6) + 8 = n + 14
    BY <1>7, <1>12
  <2> QED BY <2>1, <2>2
<1>14. w \in Seq(Letters) /\ Len(w) = n + 14 + b /\ (\A i \in 1 .. n + 14 : w[i] = v[i])
       /\ \A i \in 1 .. b : w[n + 14 + i] = bytes_[i]
  <2>1. w \in Seq(Letters) /\ Len(w) = Len(v) + Len(bytes_)
        /\ (\A i \in 1 .. Len(v) : w[i] = v[i])
        /\ \A i \in 1 .. Len(bytes_) : w[Len(v) + i] = bytes_[i]
    <3>1. bytes_ \in Seq(Letters) /\ v \in Seq(Letters)
      BY <1>2, <1>13
    <3> QED BY ONLY <1>10, <3>1, Appended
  <2> QED BY <1>7, <1>13, <2>1
<1>15. s \in Seq(Letters) /\ Len(s) = n + 14 + b + 6 /\ (\A i \in 1 .. n + 14 + b : s[i] = w[i])
       /\ \A i \in 1 .. 6 : s[n + 14 + b + i] = e[i]
  <2>1. s \in Seq(Letters) /\ Len(s) = Len(w) + 6
        /\ (\A i \in 1 .. Len(w) : s[i] = w[i])
        /\ \A i \in 1 .. 6 : s[Len(w) + i] = e[i]
    <3>0. Len(e) = 6
      BY <1>6
    <3>1. e \in Seq(Letters) /\ w \in Seq(Letters)
      BY <1>6, <1>14
    <3>2. /\ s \in Seq(Letters) /\ Len(s) = Len(w) + Len(e)
          /\ \A i \in 1 .. Len(w) : s[i] = w[i]
          /\ \A i \in 1 .. Len(e) : s[Len(w) + i] = e[i]
      BY ONLY <1>11, <3>1, Appended
    <3> QED BY ONLY <3>0, <3>2
  <2> QED BY <1>7, <1>14, <2>1
<1>16. \A i \in 1 .. n + 6 : s[i] = u[i]
  <2> TAKE i \in 1 .. n + 6
  <2>1. i \in 1 .. n + 14 /\ i \in 1 .. n + 14 + b
    BY ONLY <1>7, i \in 1 .. n + 6
  <2> QED BY <1>13, <1>14, <1>15, <2>1
<1>17. \A i \in 1 .. 8 : s[n + 6 + i] = m[i]
  <2> TAKE i \in 1 .. 8
  <2>1. n + 6 + i \in 1 .. n + 14 /\ n + 6 + i \in 1 .. n + 14 + b
    BY ONLY <1>7, i \in 1 .. 8
  <2> QED BY <1>13, <1>14, <1>15, <2>1
<1>18. \A i \in 1 .. b : s[n + 14 + i] = bytes_[i]
  <2> TAKE i \in 1 .. b
  <2>1. n + 14 + i \in 1 .. n + 14 + b
    BY ONLY <1>7, i \in 1 .. b
  <2> QED BY <1>14, <1>15, <2>1
<1>19. \A i \in 1 .. n : s[6 + i] = name_[i]
  <2> TAKE i \in 1 .. n
  <2>1. 6 + i \in 1 .. n + 6
    BY ONLY <1>7, i \in 1 .. n
  <2> QED BY <1>12, <1>16, <2>1
<1>20. /\ s[1] = Dashes /\ s[2] = "b" /\ s[3] = "CR" /\ s[4] = "LF"
       /\ s[5] = NameKey /\ s[6] = "quote"
  <2>1. \A i \in 1 .. 6 : i \in 1 .. n + 6
    BY ONLY <1>7
  <2>2. \A i \in 1 .. 6 : s[i] = h[i]
    BY <1>12, <1>16, <2>1
  <2> QED BY <1>4, <2>2
<1>21. /\ s[n + 7] = "quote" /\ s[n + 8] = "CR" /\ s[n + 9] = "LF" /\ s[n + 10] = "type"
       /\ s[n + 11] = "CR" /\ s[n + 12] = "LF" /\ s[n + 13] = "CR" /\ s[n + 14] = "LF"
  <2>1. /\ n + 6 + 1 = n + 7 /\ n + 6 + 2 = n + 8 /\ n + 6 + 3 = n + 9 /\ n + 6 + 4 = n + 10
        /\ n + 6 + 5 = n + 11 /\ n + 6 + 6 = n + 12 /\ n + 6 + 7 = n + 13 /\ n + 6 + 8 = n + 14
    BY ONLY <1>7
  <2>2. /\ s[n + 6 + 1] = "quote" /\ s[n + 6 + 2] = "CR" /\ s[n + 6 + 3] = "LF"
        /\ s[n + 6 + 4] = "type" /\ s[n + 6 + 5] = "CR" /\ s[n + 6 + 6] = "LF"
        /\ s[n + 6 + 7] = "CR" /\ s[n + 6 + 8] = "LF"
    BY <1>5, <1>17
  <2> QED BY <2>1, <2>2
<1>22. /\ s[n + 14 + (b + 1)] = "CR" /\ s[n + 14 + (b + 2)] = "LF"
       /\ s[n + 14 + (b + 3)] = Dashes /\ s[n + 14 + (b + 4)] = "b"
       /\ s[n + 14 + (b + 5)] = "CR" /\ s[n + 14 + (b + 6)] = "LF"
  <2>1. /\ n + 14 + b + 1 = n + 14 + (b + 1) /\ n + 14 + b + 2 = n + 14 + (b + 2)
        /\ n + 14 + b + 3 = n + 14 + (b + 3) /\ n + 14 + b + 4 = n + 14 + (b + 4)
        /\ n + 14 + b + 5 = n + 14 + (b + 5) /\ n + 14 + b + 6 = n + 14 + (b + 6)
    BY ONLY <1>7
  <2>2. /\ s[n + 14 + b + 1] = "CR" /\ s[n + 14 + b + 2] = "LF" /\ s[n + 14 + b + 3] = Dashes
        /\ s[n + 14 + b + 4] = "b" /\ s[n + 14 + b + 5] = "CR" /\ s[n + 14 + b + 6] = "LF"
    BY <1>6, <1>15
  <2> QED BY <2>1, <2>2
<1>23. n + 14 + b + 6 = n + b + 20
  BY ONLY <1>7
<1>24. s = Form(g)
  BY <1>1, <1>3, <1>8, <1>9, <1>10, <1>11 DEF Form
<1>25. FormAt(s, name_, bytes_, n, b)
  <2>1. s \in Seq(Letters) /\ Len(s) = n + b + 20
    BY <1>15, <1>23
  <2> QED BY ONLY <1>7, <1>18, <1>19, <1>20, <1>21, <1>22, <2>1, Zenon DEF FormAt
<1> QED BY <1>1, <1>7, <1>24, <1>25

\* strstr returns a place that is before every other (StrStr).
LEMMA FirstAt ==
    ASSUME NEW S, NEW s, s \in Seq(S), NEW d, d \in Seq(S), NEW k, k \in Nat, k >= 1,
           NEW p, p \in Places(s, d, k), \A x \in Places(s, d, k) : p <= x
    PROVE  StrStr(s, d, k) = p
<1>1. Places(s, d, k) \in SUBSET Int
  BY KeyPlaces
<1> QED BY <1>1, MinIsLeast DEF StrStr

\* Where strstr stops at a key of two tokens, at an end of line, and at a key of
\* one token.
LEMMA PairPlaces ==
    ASSUME NEW t, t \in Seq(Letters), NEW one, one \in Letters, NEW two, two \in Letters,
           NEW k, k \in Nat, k >= 1
    PROVE  /\ Places(t, <<one, two>>, k) \subseteq Int
           /\ \A x \in Int : x \in Places(t, <<one, two>>, k) <=>
                 k <= x /\ x + 1 <= Len(t) /\ t[x] = one /\ t[x + 1] = two
<1>1. PICK d : d = <<one, two>>
  OBVIOUS
<1>2. d \in Seq(Letters) /\ Len(d) = 2 /\ d[1] = one /\ d[2] = two
  BY <1>1
<1>3. /\ Places(t, d, k) \subseteq Int
      /\ \A x \in Int : x \in Places(t, d, k) <=>
            /\ k <= x /\ x + Len(d) - 1 <= Len(t)
            /\ Holds(t, x, d)
  BY <1>2, KeyPlaces
<1>4. ASSUME NEW x, x \in Int
      PROVE  Holds(t, x, d) <=> t[x] = one /\ t[x + 1] = two
  <2>1. x + 1 - 1 = x /\ x + 2 - 1 = x + 1
    BY ONLY <1>4
  <2>2. 1 \in Nat /\ 2 \in Nat /\ 1 \in 1 .. Len(d) /\ 2 \in 1 .. Len(d)
    BY <1>2
  <2>3. \A i \in Nat : i \in 1 .. Len(d) => i = 1 \/ i = 2
    BY <1>2
  <2> QED BY <1>2, <2>1, <2>2, <2>3 DEF Holds
<1>5. \A x \in Int : x + Len(d) - 1 = x + 1
  BY <1>2
<1> QED BY <1>1, <1>3, <1>4, <1>5

\* So for the end of a line.
LEMMA EolPlaces ==
    ASSUME NEW t, t \in Seq(Letters), NEW k, k \in Nat, k >= 1
    PROVE  /\ Places(t, CRLF, k) \subseteq Int
           /\ \A x \in Int : x \in Places(t, CRLF, k) <=>
                 k <= x /\ x + 1 <= Len(t) /\ t[x] = "CR" /\ t[x + 1] = "LF"
<1>1. "CR" \in Letters /\ "LF" \in Letters
  BY Spelled
<1> QED BY <1>1, PairPlaces DEF CRLF

\* The same for a key of one token.
LEMMA TokenPlaces ==
    ASSUME NEW S, NEW t, t \in Seq(S), NEW key, key \in S, NEW k, k \in Nat, k >= 1
    PROVE  /\ Places(t, <<key>>, k) \subseteq Int
           /\ \A x \in Int : x \in Places(t, <<key>>, k) <=>
                 k <= x /\ x <= Len(t) /\ t[x] = key
<1>1. PICK d : d = <<key>>
  OBVIOUS
<1>2. d \in Seq(S) /\ Len(d) = 1 /\ d[1] = key
  BY <1>1
<1>3. /\ Places(t, d, k) \subseteq Int
      /\ \A x \in Int : x \in Places(t, d, k) <=>
            /\ k <= x /\ x + Len(d) - 1 <= Len(t)
            /\ Holds(t, x, d)
  BY <1>2, KeyPlaces
<1>4. ASSUME NEW x, x \in Int
      PROVE  Holds(t, x, d) <=> t[x] = key
  <2>1. x + 1 - 1 = x
    BY ONLY <1>4
  <2>2. 1 \in Nat /\ 1 \in 1 .. Len(d)
    BY <1>2
  <2>3. \A i \in Nat : i \in 1 .. Len(d) => i = 1
    BY <1>2
  <2> QED BY <1>2, <2>1, <2>2, <2>3 DEF Holds
<1>5. \A x \in Int : x + Len(d) - 1 = x
  BY <1>2
<1> QED BY <1>1, <1>3, <1>4, <1>5

(* Up to the file a form ends a line at four places and no other: a name   *)
(* has no end of line.                                                     *)
LEMMA LineEnds ==
    ASSUME NEW s, NEW x, NEW y, NEW n, NEW b, FormAt(s, x, y, n, b),
           \A i \in 1 .. n : x[i] # "CR",
           NEW p, p \in Int, 1 <= p, p <= n + 14, s[p] = "CR"
    PROVE  p \in {3, n + 8, n + 11, n + 13}
<1>0. n \in Nat
  BY DEF FormAt
<1>1. CASE p <= 6
  <2>1. p = 1 \/ p = 2 \/ p = 3 \/ p = 4 \/ p = 5 \/ p = 6
    BY ONLY <1>1, p \in Int, 1 <= p
  <2>2. s[1] # "CR" /\ s[2] # "CR" /\ s[4] # "CR" /\ s[5] # "CR" /\ s[6] # "CR"
    BY DEF FormAt, Dashes, NameKey
  <2> QED BY <2>1, <2>2
<1>2. CASE p >= 7 /\ p <= n + 6
  <2>1. PICK i : i = p - 6 /\ i \in 1 .. n /\ p = 6 + i
    BY ONLY <1>0, <1>2, p \in Int
  <2>2. s[6 + i] = x[i]
    BY <2>1 DEF FormAt
  <2> QED BY <2>1, <2>2
<1>3. CASE p >= n + 7
  <2>1. \/ p = n + 7 \/ p = n + 8 \/ p = n + 9 \/ p = n + 10 \/ p = n + 11 \/ p = n + 12
        \/ p = n + 13 \/ p = n + 14
    BY ONLY <1>0, <1>3, p \in Int, p <= n + 14
  <2>2. /\ s[n + 7] # "CR" /\ s[n + 9] # "CR" /\ s[n + 10] # "CR" /\ s[n + 12] # "CR"
        /\ s[n + 14] # "CR"
    BY DEF FormAt
  <2> QED BY <2>1, <2>2
<1>4. p <= 6 \/ (p >= 7 /\ p <= n + 6) \/ p >= n + 7
  BY ONLY <1>0, p \in Int
<1> QED BY <1>1, <1>2, <1>3, <1>4

\* t is the first c tokens of s.
Part(t, s, c) ==
    /\ t \in Seq(Letters) /\ c \in Nat /\ Len(t) = c /\ c <= Len(s)
    /\ \A i \in 1 .. c : t[i] = s[i]

\* SubSeq cuts off such a part.
LEMMA PartIs ==
    ASSUME NEW s, s \in Seq(Letters), NEW c, c \in Nat, c <= Len(s)
    PROVE  Part(SubSeq(s, 1, c), s, c)
<1>1. PICK l : l = Len(s) /\ l \in Nat
  BY Len(s) \in Nat
<1>2. \A i \in 1 .. c : s[i] \in Letters
  <2>1. \A i \in 1 .. c : i \in 1 .. l
    BY ONLY <1>1, c \in Nat, c <= Len(s)
  <2> QED BY <1>1, <2>1
<1>3. /\ SubSeq(s, 1, c) \in Seq(Letters)
      /\ Len(SubSeq(s, 1, c)) = IF 1 <= c THEN c - 1 + 1 ELSE 0
      /\ \A i \in 1 .. c - 1 + 1 : SubSeq(s, 1, c)[i] = s[1 + i - 1]
  <2>1. 1 \in Int /\ c \in Int
    OBVIOUS
  <2> QED BY ONLY <1>2, <2>1, SubSeqProperties
<1>4. (IF 1 <= c THEN c - 1 + 1 ELSE 0) = c /\ c - 1 + 1 = c /\ \A i \in Int : 1 + i - 1 = i
  BY ONLY c \in Nat
<1> QED BY <1>3, <1>4 DEF Part

\* The four ends of line before the file, and no other.
LEMMA EolsOf ==
    ASSUME NEW s, NEW x, NEW y, NEW n, NEW b, FormAt(s, x, y, n, b),
           \A i \in 1 .. n : x[i] # "CR", NEW t, NEW c, Part(t, s, c),
           NEW k, k \in Nat, k >= 1, NEW p, p \in Int
    PROVE  /\ p \in Places(t, CRLF, k) /\ p <= n + 13 => p \in {3, n + 8, n + 11, n + 13}
           /\ p \in {3, n + 8, n + 11, n + 13} /\ k <= p /\ p + 1 <= c =>
                 p \in Places(t, CRLF, k)
<1>0. n \in Nat /\ t \in Seq(Letters) /\ c \in Nat /\ Len(t) = c /\ \A i \in 1 .. c : t[i] = s[i]
  BY DEF FormAt, Part
<1>1. p \in Places(t, CRLF, k) <=> k <= p /\ p + 1 <= c /\ t[p] = "CR" /\ t[p + 1] = "LF"
  BY <1>0, EolPlaces
<1>2. ASSUME k <= p, p + 1 <= c PROVE t[p] = s[p] /\ t[p + 1] = s[p + 1]
  <2>1. p \in 1 .. c /\ p + 1 \in 1 .. c
    <3>1. c \in Nat
      BY <1>0
    <3> QED BY ONLY <1>2, <3>1, p \in Int, k \in Nat, k >= 1
  <2> QED BY <1>0, <2>1
<1>3. ASSUME p \in Places(t, CRLF, k), p <= n + 13
      PROVE  p \in {3, n + 8, n + 11, n + 13}
  <2>1. k <= p /\ p + 1 <= c /\ s[p] = "CR"
    BY <1>1, <1>2, <1>3
  <2>2. 1 <= p /\ p <= n + 14
    <3>1. n \in Nat /\ k <= p
      BY <1>0, <2>1
    <3> QED BY ONLY <3>1, <1>3, p \in Int, k \in Nat, k >= 1
  <2> QED BY <2>1, <2>2, LineEnds
<1>4. ASSUME p \in {3, n + 8, n + 11, n + 13}, k <= p, p + 1 <= c
      PROVE  p \in Places(t, CRLF, k)
  <2>1. /\ 3 + 1 = 4 /\ (n + 8) + 1 = n + 9 /\ (n + 11) + 1 = n + 12 /\ (n + 13) + 1 = n + 14
    BY ONLY <1>0
  <2>2. /\ s[3] = "CR" /\ s[4] = "LF" /\ s[n + 8] = "CR" /\ s[n + 9] = "LF"
        /\ s[n + 11] = "CR" /\ s[n + 12] = "LF" /\ s[n + 13] = "CR" /\ s[n + 14] = "LF"
    BY DEF FormAt
  <2>3. s[p] = "CR" /\ s[p + 1] = "LF"
    BY <1>4, <2>1, <2>2
  <2> QED BY <1>1, <1>2, <1>4, <2>3
<1> QED BY <1>3, <1>4

\* Four calls of strstr, one behind the other (the loop of upload_file).
LEMMA NthOfFour ==
    ASSUME NEW s, NEW key, NEW p1, NEW p2, NEW p3, NEW p4,
           StrStr(s, key, 1) = p1, StrStr(s, key, p1 + 1) = p2,
           StrStr(s, key, p2 + 1) = p3, StrStr(s, key, p3 + 1) = p4
    PROVE  Nth(s, key, 4) = p4
<1>1. PICK g : g = [i \in 1 .. 4 |-> IF i = 1 THEN p1 ELSE IF i = 2 THEN p2
                                     ELSE IF i = 3 THEN p3 ELSE p4]
  OBVIOUS
<1>2. g[1] = p1 /\ g[2] = p2 /\ g[3] = p3 /\ g[4] = p4
  BY <1>1
<1>3. \A i \in 1 .. 4 : i = 1 \/ i = 2 \/ i = 3 \/ i = 4
  OBVIOUS
<1>4. 2 - 1 = 1 /\ 3 - 1 = 2 /\ 4 - 1 = 3
  OBVIOUS
<1>5. \A i \in 1 .. 4 : g[i] = StrStr(s, key, IF i = 1 THEN 1 ELSE g[i - 1] + 1)
  BY <1>2, <1>3, <1>4
<1>6. g = [i \in 1 .. 4 |-> StrStr(s, key, IF i = 1 THEN 1 ELSE g[i - 1] + 1)]
  BY <1>1, <1>5
<1>7. PICK h : /\ h = [i \in 1 .. 4 |-> StrStr(s, key, IF i = 1 THEN 1 ELSE h[i - 1] + 1)]
               /\ Nth(s, key, 4) = h[4]
  BY <1>6 DEF Nth
<1>8. \A i \in 1 .. 4 : h[i] = StrStr(s, key, IF i = 1 THEN 1 ELSE h[i - 1] + 1)
  BY <1>7
<1>9. 1 \in 1 .. 4 /\ 2 \in 1 .. 4 /\ 3 \in 1 .. 4 /\ 4 \in 1 .. 4
  OBVIOUS
<1>10. h[1] = p1
  BY <1>8, <1>9
<1>11. h[2] = p2
  BY <1>4, <1>8, <1>9, <1>10
<1>12. h[3] = p3
  BY <1>4, <1>8, <1>9, <1>11
<1>13. h[4] = p4
  BY <1>4, <1>8, <1>9, <1>12
<1> QED BY <1>7, <1>13

\* Two calls of strstr, one behind the other.
LEMMA NthOfTwo ==
    ASSUME NEW s, NEW key, NEW p1, NEW p2,
           StrStr(s, key, 1) = p1, StrStr(s, key, p1 + 1) = p2
    PROVE  Nth(s, key, 2) = p2
<1>1. PICK g : g = [i \in 1 .. 2 |-> IF i = 1 THEN p1 ELSE p2]
  OBVIOUS
<1>2. g[1] = p1 /\ g[2] = p2
  BY <1>1
<1>3. \A i \in 1 .. 2 : i = 1 \/ i = 2
  OBVIOUS
<1>4. 2 - 1 = 1
  OBVIOUS
<1>5. \A i \in 1 .. 2 : g[i] = StrStr(s, key, IF i = 1 THEN 1 ELSE g[i - 1] + 1)
  BY <1>2, <1>3, <1>4
<1>6. g = [i \in 1 .. 2 |-> StrStr(s, key, IF i = 1 THEN 1 ELSE g[i - 1] + 1)]
  BY <1>1, <1>5
<1>7. PICK h : /\ h = [i \in 1 .. 2 |-> StrStr(s, key, IF i = 1 THEN 1 ELSE h[i - 1] + 1)]
               /\ Nth(s, key, 2) = h[2]
  BY <1>6 DEF Nth
<1>8. \A i \in 1 .. 2 : h[i] = StrStr(s, key, IF i = 1 THEN 1 ELSE h[i - 1] + 1)
  BY <1>7
<1>9. 1 \in 1 .. 2 /\ 2 \in 1 .. 2
  OBVIOUS
<1>10. h[1] = p1
  BY <1>8, <1>9
<1>11. h[2] = p2
  BY <1>4, <1>8, <1>9, <1>10
<1> QED BY <1>7, <1>11

\* strstr finds the next end of line of the form, when it has come.
LEMMA NextEol ==
    ASSUME NEW s, NEW x, NEW y, NEW n, NEW b, FormAt(s, x, y, n, b),
           \A i \in 1 .. n : x[i] # "CR", NEW t, NEW c, Part(t, s, c),
           NEW k, k \in Nat, k >= 1, NEW p, p \in {3, n + 8, n + 11, n + 13}, k <= p,
           p + 1 <= c, \A q \in {3, n + 8, n + 11, n + 13} : k <= q => p <= q
    PROVE  StrStr(t, CRLF, k) = p
<1>0. n \in Nat /\ t \in Seq(Letters) /\ c \in Nat /\ Len(t) = c
  BY DEF FormAt, Part
<1>1. p \in Int /\ p <= n + 13
  <2>1. n \in Nat
    BY <1>0
  <2> QED BY ONLY <2>1, p \in {3, n + 8, n + 11, n + 13}
<1>2. p \in Places(t, CRLF, k)
  BY <1>1, EolsOf
<1>3. ASSUME NEW q \in Places(t, CRLF, k) PROVE p <= q
  <2>1. q \in Int /\ k <= q
    BY <1>0, EolPlaces
  <2>2. CASE q <= n + 13
    <3>1. q \in {3, n + 8, n + 11, n + 13}
      BY <2>1, <2>2, EolsOf
    <3> QED BY <2>1, <3>1
  <2>3. CASE ~ (q <= n + 13)
    <3>1. n \in Nat
      BY <1>0
    <3> QED BY ONLY <1>1, <2>1, <2>3, <3>1
  <2> QED BY <2>2, <2>3
<1>4. CRLF \in Seq(Letters)
  BY Spelled DEF CRLF
<1> QED BY <1>0, <1>1, <1>2, <1>3, <1>4, FirstAt

(* The name of the file is on the second line, when that has come.         *)
LEMMA TwoLines ==
    ASSUME NEW s, NEW x, NEW y, NEW n, NEW b, FormAt(s, x, y, n, b),
           \A i \in 1 .. n : x[i] # "CR", NEW t, NEW c, Part(t, s, c), c >= n + 12
    PROVE  /\ StrStr(t, CRLF, 1) = 3 /\ StrStr(t, CRLF, 3 + 1) = n + 8
           /\ Nth(t, CRLF, 2) = n + 8
<1>0. n \in Nat /\ c \in Nat
  BY DEF FormAt, Part
<1>1. StrStr(t, CRLF, 1) = 3
  <2>1. /\ \A q \in {3, n + 8, n + 11, n + 13} : 3 <= q
        /\ 3 + 1 <= c /\ 1 <= 3
    BY ONLY <1>0, c >= n + 12
  <2> QED BY <2>1, NextEol
<1>2. StrStr(t, CRLF, 3 + 1) = n + 8
  <2>1. /\ \A q \in {3, n + 8, n + 11, n + 13} : 4 <= q => n + 8 <= q
        /\ 4 <= n + 8 /\ 3 + 1 = 4 /\ (n + 8) + 1 <= c /\ 4 \in Nat /\ 4 >= 1
    BY ONLY <1>0, c >= n + 12
  <2> QED BY <2>1, NextEol
<1> QED BY <1>1, <1>2, NthOfTwo

(* A body that comes as far as the file has its headers, and the fourth    *)
(* end of line is that of the form (upload_file, usefull.c 90-117).        *)
LEMMA FourLines ==
    ASSUME NEW s, NEW x, NEW y, NEW n, NEW b, FormAt(s, x, y, n, b),
           \A i \in 1 .. n : x[i] # "CR", NEW t, NEW c, Part(t, s, c), c >= n + 14
    PROVE  HasHeaders(t) /\ Nth(t, CRLF, 4) = n + 13
<1>0. /\ n \in Nat /\ t \in Seq(Letters) /\ c \in Nat /\ Len(t) = c /\ 5 <= c /\ s[5] = NameKey
      /\ \A i \in 1 .. c : t[i] = s[i]
  <2>1. /\ n \in Nat /\ t \in Seq(Letters) /\ c \in Nat /\ Len(t) = c /\ s[5] = NameKey
        /\ \A i \in 1 .. c : t[i] = s[i]
    BY DEF FormAt, Part
  <2>2. n \in Nat /\ c \in Nat
    BY <2>1
  <2>3. 5 <= c
    BY ONLY <2>2, c >= n + 14
  <2> QED BY <2>1, <2>3
<1>2. StrStr(t, CRLF, 1) = 3 /\ StrStr(t, CRLF, 3 + 1) = n + 8
  <2>1. c >= n + 12
    <3>1. n \in Nat /\ c \in Nat
      BY <1>0
    <3> QED BY ONLY <3>1, c >= n + 14
  <2> QED BY <2>1, TwoLines
<1>4. StrStr(t, CRLF, (n + 8) + 1) = n + 11
  <2>0. n \in Nat /\ c \in Nat
    BY <1>0
  <2>1. /\ \A q \in {3, n + 8, n + 11, n + 13} : n + 9 <= q => n + 11 <= q
        /\ n + 9 <= n + 11 /\ (n + 8) + 1 = n + 9 /\ n + 9 \in Nat /\ n + 9 >= 1
        /\ (n + 11) + 1 <= c
    BY ONLY <2>0, c >= n + 14
  <2> QED BY <2>1, NextEol
<1>5. StrStr(t, CRLF, (n + 11) + 1) = n + 13
  <2>0. n \in Nat /\ c \in Nat
    BY <1>0
  <2>1. /\ \A q \in {3, n + 8, n + 11, n + 13} : n + 12 <= q => n + 13 <= q
        /\ n + 12 <= n + 13 /\ (n + 11) + 1 = n + 12 /\ n + 12 \in Nat /\ n + 12 >= 1
        /\ (n + 13) + 1 <= c
    BY ONLY <2>0, c >= n + 14
  <2> QED BY <2>1, NextEol
<1>6. Nth(t, CRLF, 4) = n + 13
  BY <1>2, <1>4, <1>5, NthOfFour
<1>7. Has(t, <<NameKey>>)
  <2>1. t[5] = NameKey
    BY <1>0
  <2>2. NameKey \in Letters
    BY Spelled
  <2>3. 5 \in Places(t, <<NameKey>>, 1)
    BY <1>0, <2>1, <2>2, TokenPlaces
  <2> QED BY <2>3 DEF Has
<1>8. Cardinality(Places(t, CRLF, 1)) >= 4
  <2>1. {3, n + 8, n + 11, n + 13} \subseteq Places(t, CRLF, 1)
    <3>1. ASSUME NEW p \in {3, n + 8, n + 11, n + 13} PROVE p \in Places(t, CRLF, 1)
      <4>1. p \in Int /\ 1 <= p /\ p + 1 <= c
        BY ONLY <1>0, <3>1, c >= n + 14
      <4> QED BY <3>1, <4>1, EolsOf
    <3> QED BY <3>1
  <2>2. IsFiniteSet(Places(t, CRLF, 1))
    <3>1. Places(t, CRLF, 1) \subseteq 1 .. c
      <4>1. ASSUME NEW p \in Places(t, CRLF, 1) PROVE p \in 1 .. c
        <5>1. p \in Int /\ 1 <= p /\ p + 1 <= c
          BY <1>0, EolPlaces
        <5> QED BY ONLY <1>0, <5>1
      <4> QED BY <4>1
    <3>2. IsFiniteSet(1 .. c)
      BY <1>0, FS_Interval
    <3> QED BY <3>1, <3>2, FS_Subset
  <2>3. Cardinality({3, n + 8, n + 11, n + 13}) = 4
    <3>1. n \in Nat
      BY <1>0
    <3>2. IsFiniteSet({3}) /\ Cardinality({3}) = 1
      BY FS_Singleton
    <3>3. IsFiniteSet({3} \cup {n + 8}) /\ Cardinality({3} \cup {n + 8}) = 2
      BY <3>1, <3>2, FS_AddElement
    <3>4. {3} \cup {n + 8} = {3, n + 8}
      OBVIOUS
    <3>5. IsFiniteSet({3, n + 8} \cup {n + 11}) /\ Cardinality({3, n + 8} \cup {n + 11}) = 3
      BY <3>1, <3>3, <3>4, FS_AddElement
    <3>6. {3, n + 8} \cup {n + 11} = {3, n + 8, n + 11}
      OBVIOUS
    <3>7. Cardinality({3, n + 8, n + 11} \cup {n + 13}) = 4
      BY <3>1, <3>5, <3>6, FS_AddElement
    <3>8. {3, n + 8, n + 11} \cup {n + 13} = {3, n + 8, n + 11, n + 13}
      OBVIOUS
    <3> QED BY <3>7, <3>8
  <2>4. Cardinality(Places(t, CRLF, 1)) \in Nat
    BY <2>2, FS_CardinalityType
  <2>5. Cardinality({3, n + 8, n + 11, n + 13}) <= Cardinality(Places(t, CRLF, 1))
    BY <2>1, <2>2, FS_Subset
  <2> QED BY <2>3, <2>4, <2>5
<1> QED BY <1>6, <1>7, <1>8 DEF HasHeaders, Ends

\* A body that breaks off before the file has not got its headers.
LEMMA FewerLines ==
    ASSUME NEW s, NEW x, NEW y, NEW n, NEW b, FormAt(s, x, y, n, b),
           \A i \in 1 .. n : x[i] # "CR", NEW t, NEW c, Part(t, s, c), c < n + 14
    PROVE  ~ HasHeaders(t)
<1>0. n \in Nat /\ c \in Nat /\ t \in Seq(Letters) /\ Len(t) = c
  BY DEF FormAt, Part
<1>1. Places(t, CRLF, 1) \subseteq {3, n + 8, n + 11}
  <2>1. ASSUME NEW p \in Places(t, CRLF, 1) PROVE p \in {3, n + 8, n + 11}
    <3>1. p \in Int /\ 1 <= p /\ p + 1 <= c
      BY <1>0, EolPlaces
    <3>2. p <= n + 13 /\ p # n + 13
      <4>1. n \in Nat /\ c \in Nat
        BY <1>0
      <4> QED BY ONLY <3>1, <4>1, c < n + 14
    <3>3. p \in {3, n + 8, n + 11, n + 13}
      BY <3>1, <3>2, EolsOf
    <3> QED BY <3>2, <3>3
  <2> QED BY <2>1
<1>2. IsFiniteSet({3, n + 8, n + 11}) /\ Cardinality({3, n + 8, n + 11}) <= 3
  <2>2. IsFiniteSet({3}) /\ Cardinality({3}) = 1
    BY FS_Singleton
  <2>3. IsFiniteSet({3} \cup {n + 8}) /\ Cardinality({3} \cup {n + 8}) \in 1 .. 2
    BY <2>2, FS_AddElement
  <2>4. {3} \cup {n + 8} = {3, n + 8}
    OBVIOUS
  <2>5. IsFiniteSet({3, n + 8} \cup {n + 11}) /\ Cardinality({3, n + 8} \cup {n + 11}) \in 1 .. 3
    BY <2>3, <2>4, FS_AddElement
  <2>6. {3, n + 8} \cup {n + 11} = {3, n + 8, n + 11}
    OBVIOUS
  <2> QED BY <2>5, <2>6
<1>3. IsFiniteSet(Places(t, CRLF, 1)) /\ Cardinality(Places(t, CRLF, 1)) <= Cardinality({3, n + 8, n + 11})
  BY <1>1, <1>2, FS_Subset
<1>4. Cardinality(Places(t, CRLF, 1)) \in Nat /\ Cardinality({3, n + 8, n + 11}) \in Nat
  BY <1>2, <1>3, FS_CardinalityType
<1>5. ~ (Cardinality(Places(t, CRLF, 1)) >= 4)
  BY <1>2, <1>3, <1>4
<1> QED BY <1>5 DEF HasHeaders, Ends

\* One that breaks off before its third end of line has not got its name.
LEMMA NoName ==
    ASSUME NEW s, NEW x, NEW y, NEW n, NEW b, FormAt(s, x, y, n, b),
           \A i \in 1 .. n : x[i] # "CR", NEW t, NEW c, Part(t, s, c), c < n + 12
    PROVE  ~ HasName(t)
<1>0. n \in Nat /\ c \in Nat /\ t \in Seq(Letters) /\ Len(t) = c
  BY DEF FormAt, Part
<1>1. Places(t, CRLF, 1) \subseteq {3, n + 8}
  <2>1. ASSUME NEW p \in Places(t, CRLF, 1) PROVE p \in {3, n + 8}
    <3>1. p \in Int /\ 1 <= p /\ p + 1 <= c
      BY <1>0, EolPlaces
    <3>2. p <= n + 13 /\ p # n + 13 /\ p # n + 11
      <4>1. n \in Nat /\ c \in Nat
        BY <1>0
      <4> QED BY ONLY <3>1, <4>1, c < n + 12
    <3>3. p \in {3, n + 8, n + 11, n + 13}
      BY <3>1, <3>2, EolsOf
    <3> QED BY <3>2, <3>3
  <2> QED BY <2>1
<1>2. IsFiniteSet({3, n + 8}) /\ Cardinality({3, n + 8}) <= 2
  <2>2. IsFiniteSet({3}) /\ Cardinality({3}) = 1
    BY FS_Singleton
  <2>3. IsFiniteSet({3} \cup {n + 8}) /\ Cardinality({3} \cup {n + 8}) \in 1 .. 2
    BY <2>2, FS_AddElement
  <2>4. {3} \cup {n + 8} = {3, n + 8}
    OBVIOUS
  <2> QED BY <2>3, <2>4
<1>3. IsFiniteSet(Places(t, CRLF, 1)) /\ Cardinality(Places(t, CRLF, 1)) <= Cardinality({3, n + 8})
  BY <1>1, <1>2, FS_Subset
<1>4. Cardinality(Places(t, CRLF, 1)) \in Nat /\ Cardinality({3, n + 8}) \in Nat
  BY <1>2, <1>3, FS_CardinalityType
<1>5. ~ (Cardinality(Places(t, CRLF, 1)) >= 3)
  BY <1>2, <1>3, <1>4
<1> QED BY <1>5 DEF HasName, Ends

\* What follows the fourth end of line.
RestAt(r, s, n, l) ==
    /\ r \in Seq(Letters) /\ l \in Nat /\ Len(r) = l /\ n + 14 + l <= Len(s)
    /\ \A i \in 1 .. l : r[i] = s[n + 14 + i]

\* What upload_file takes for the file, up to the end of the body (Rest).
LEMMA RestIs ==
    ASSUME NEW s, NEW x, NEW y, NEW n, NEW b, FormAt(s, x, y, n, b),
           \A i \in 1 .. n : x[i] # "CR", NEW t, NEW c, Part(t, s, c), c >= n + 14
    PROVE  RestAt(Rest(t), s, n, c - (n + 14))
<1>0. /\ n \in Nat /\ t \in Seq(Letters) /\ c \in Nat /\ Len(t) = c /\ c <= Len(s)
      /\ \A i \in 1 .. c : t[i] = s[i]
  BY DEF FormAt, Part
<1>1. PICK a : a = n + 15 /\ Rest(t) = SubSeq(t, a, c)
  <2>1. Nth(t, CRLF, 4) = n + 13
    BY FourLines
  <2>2. (n + 13) + 2 = n + 15
    BY ONLY <1>0
  <2> QED BY <1>0, <2>1, <2>2 DEF Rest
<1>2. a \in Int /\ c \in Int /\ a \in Nat /\ a >= 1
  BY ONLY <1>0, <1>1
<1>3. \A i \in a .. c : t[i] \in Letters
  <2>1. \A i \in a .. c : i \in 1 .. c
    BY ONLY <1>2
  <2> QED BY <1>0, <2>1
<1>4. /\ SubSeq(t, a, c) \in Seq(Letters)
      /\ Len(SubSeq(t, a, c)) = IF a <= c THEN c - a + 1 ELSE 0
      /\ \A i \in 1 .. c - a + 1 : SubSeq(t, a, c)[i] = t[a + i - 1]
  BY ONLY <1>2, <1>3, SubSeqProperties
<1>5. PICK l : l = c - (n + 14)
  OBVIOUS
<1>6. /\ (IF a <= c THEN c - a + 1 ELSE 0) = l /\ c - a + 1 = l /\ l \in Nat
      /\ n + 14 + l = c /\ \A i \in Int : a + i - 1 = n + 14 + i
      /\ \A i \in 1 .. l : n + 14 + i \in 1 .. c
  <2>1. n \in Nat /\ c \in Nat
    BY <1>0
  <2> QED BY ONLY <1>1, <1>5, <2>1, c >= n + 14
<1>7. \A i \in 1 .. l : SubSeq(t, a, c)[i] = s[n + 14 + i]
  <2> TAKE i \in 1 .. l
  <2>1. SubSeq(t, a, c)[i] = t[n + 14 + i]
    BY <1>4, <1>6
  <2> QED BY <1>0, <1>6, <2>1
<1> QED BY <1>0, <1>1, <1>4, <1>5, <1>6, <1>7 DEF RestAt

\* The dashes in it are those of the file, and those of the boundary.
LEMMA DashesOf ==
    ASSUME NEW s, NEW x, NEW y, NEW n, NEW b, FormAt(s, x, y, n, b),
           NEW r, NEW l, RestAt(r, s, n, l), NEW p, p \in Int, 1 <= p, p <= l
    PROVE  /\ p <= b => r[p] = y[p]
           /\ p > b => (r[p] = Dashes <=> p = b + 3)
<1>0. n \in Nat /\ b \in Nat /\ l \in Nat /\ Len(s) = n + b + 20 /\ n + 14 + l <= Len(s)
  BY DEF FormAt, RestAt
<1>1. r[p] = s[n + 14 + p]
  <2>1. p \in 1 .. l
    BY <1>0
  <2> QED BY <2>1 DEF RestAt
<1>2. ASSUME p <= b PROVE r[p] = y[p]
  <2>1. p \in 1 .. b
    BY <1>0, <1>2
  <2> QED BY <1>1, <2>1 DEF FormAt
<1>3. ASSUME p > b PROVE r[p] = Dashes <=> p = b + 3
  <2>1. p <= b + 6
    <3>1. n + 14 + l <= n + b + 20
      BY <1>0
    <3> QED BY ONLY <1>0, <3>1, p \in Int, p <= l
  <2>2. p = b + 1 \/ p = b + 2 \/ p = b + 3 \/ p = b + 4 \/ p = b + 5 \/ p = b + 6
    BY ONLY <1>0, <1>3, <2>1, p \in Int
  <2>3. b + 1 # b + 3 /\ b + 2 # b + 3 /\ b + 4 # b + 3 /\ b + 5 # b + 3 /\ b + 6 # b + 3
    BY ONLY <1>0
  <2>4. /\ s[n + 14 + (b + 1)] # Dashes /\ s[n + 14 + (b + 2)] # Dashes
        /\ s[n + 14 + (b + 3)] = Dashes /\ s[n + 14 + (b + 4)] # Dashes
        /\ s[n + 14 + (b + 5)] # Dashes /\ s[n + 14 + (b + 6)] # Dashes
    BY DEF FormAt, Dashes
  <2> QED BY <1>1, <2>2, <2>3, <2>4
<1> QED BY <1>2, <1>3

(* Where memstr finds a key of one token: at the first place that has it,  *)
(* and nowhere when no place has.                                          *)
LEMMA FirstToken ==
    ASSUME NEW r, r \in Seq(Letters), NEW key, key \in Letters
    PROVE  IF Has(r, <<key>>)
           THEN \E d : /\ d = StrStr(r, <<key>>, 1) /\ MemStr(r, <<key>>) = d
                       /\ d \in Nat /\ 1 <= d /\ d <= Len(r) /\ r[d] = key
                       /\ \A q \in Int : 1 <= q /\ q <= Len(r) /\ r[q] = key => d <= q
           ELSE /\ MemStr(r, <<key>>) = 0
                /\ \A q \in Int : 1 <= q /\ q <= Len(r) => r[q] # key
<1>1. PICK P : P = Places(r, <<key>>, 1)
  OBVIOUS
<1>2. P \subseteq Int /\ \A q \in Int : q \in P <=> 1 <= q /\ q <= Len(r) /\ r[q] = key
  BY <1>1, TokenPlaces
<1>3. ASSUME P # {}
      PROVE  \E d : /\ d = StrStr(r, <<key>>, 1) /\ MemStr(r, <<key>>) = d
                    /\ d \in Nat /\ 1 <= d /\ d <= Len(r) /\ r[d] = key
                    /\ \A q \in Int : 1 <= q /\ q <= Len(r) /\ r[q] = key => d <= q
  <2>1. P \subseteq Nat
    <3>1. ASSUME NEW q \in P PROVE q \in Nat
      <4>1. q \in Int /\ 1 <= q
        BY <1>2
      <4> QED BY ONLY <4>1
    <3> QED BY <3>1
  <2>2. Min(P) \in P /\ \A q \in P : Min(P) <= q
    BY <1>3, <2>1, LeastOf
  <2>3. PICK d : d = Min(P)
    OBVIOUS
  <2>4. d = StrStr(r, <<key>>, 1) /\ MemStr(r, <<key>>) = d
    BY <1>1, <1>3, <2>3 DEF StrStr, MemStr, Has
  <2>5. d \in Nat /\ 1 <= d /\ d <= Len(r) /\ r[d] = key
    BY <1>2, <2>1, <2>2, <2>3
  <2> QED BY <1>2, <2>2, <2>3, <2>4, <2>5
<1> QED BY <1>1, <1>2, <1>3 DEF MemStr, Has

\* The dashes that upload_file looks for end the file.
LEMMA Boundary ==
    ASSUME NEW r, r \in Seq(Letters)
    PROVE  IF Has(r, <<Dashes>>)
           THEN \E d : /\ d = StrStr(r, <<Dashes>>, 1) /\ MemStr(r, <<Dashes>>) = d
                       /\ d \in Nat /\ 1 <= d /\ d <= Len(r) /\ r[d] = Dashes
                       /\ \A q \in Int : 1 <= q /\ q <= Len(r) /\ r[q] = Dashes => d <= q
           ELSE /\ MemStr(r, <<Dashes>>) = 0
                /\ \A q \in Int : 1 <= q /\ q <= Len(r) => r[q] # Dashes
<1>1. Dashes \in Letters
  BY Spelled
<1> QED BY <1>1, FirstToken

\* Two texts that begin alike give the same when they are cut there.
LEMMA SameStart ==
    ASSUME NEW r, r \in Seq(Letters), NEW y, y \in Seq(Letters), NEW m, m \in Nat,
           m <= Len(r), m <= Len(y), \A i \in 1 .. m : r[i] = y[i]
    PROVE  SubSeq(r, 1, m) = SubSeq(y, 1, m)
<1>1. PICK u : u = SubSeq(y, 1, m)
  OBVIOUS
<1>2. u \in Seq(Letters) /\ Len(u) = m /\ \A i \in 1 .. m : u[i] = y[i]
  BY <1>1, PartIs DEF Part
<1>3. Holds(r, 1, u)
  <2>1. ASSUME NEW i \in Nat, i \in 1 .. m PROVE r[1 + i - 1] = u[i]
    <3>1. 1 + i - 1 = i
      BY ONLY <2>1
    <3> QED BY <1>2, <2>1, <3>1
  <2> QED BY <1>2, <2>1 DEF Holds
<1>4. m = 1 + Len(u) - 1
  <2>1. m = 1 + m - 1
    BY ONLY m \in Nat
  <2> QED BY <1>2, <2>1
<1>5. 1 \in Nat /\ 1 <= 1
  OBVIOUS
<1>6. SubSeq(r, 1, m) = u
  BY <1>2, <1>3, <1>4, <1>5, Cut
<1> QED BY <1>1, <1>6

\* Of a length below one nothing is left.
LEMMA NothingOf ==
    ASSUME NEW r, r \in Seq(Letters), NEW m, m \in Int, m < 1
    PROVE  SubSeq(r, 1, m) = << >>
<1>1. m - 1 + 1 = m /\ 1 .. m = {} /\ 1 \in Int
  BY ONLY m \in Int, m < 1
<1>2. \A i \in 1 .. m : r[i] \in Letters
  BY <1>1
<1>3. SubSeq(r, 1, m) \in Seq(Letters) /\ Len(SubSeq(r, 1, m)) = 0
  <2>1. Len(SubSeq(r, 1, m)) = IF 1 <= m THEN m - 1 + 1 ELSE 0
    BY ONLY <1>1, <1>2, m \in Int, SubSeqProperties
  <2>2. SubSeq(r, 1, m) \in Seq(Letters)
    BY ONLY <1>1, <1>2, m \in Int, SubSeqProperties
  <2>3. (IF 1 <= m THEN m - 1 + 1 ELSE 0) = 0
    BY ONLY m \in Int, m < 1
  <2> QED BY <2>1, <2>2, <2>3
<1> QED BY <1>3, EmptySeq

\* f is y, or y up to two bytes before its first dashes.
WholeOrCut(f, y) ==
    \/ f = y
    \/ Has(y, <<Dashes>>) /\ f = SubSeq(y, 1, StrStr(y, <<Dashes>>, 1) - 3)

(* What upload_file makes of a body it finds the dashes in is the file, or *)
(* what stands two bytes before the first dashes of the file's own.        *)
LEMMA Stored ==
    ASSUME NEW s, NEW x, NEW y, NEW n, NEW b, FormAt(s, x, y, n, b), y \in Seq(Letters),
           \A i \in 1 .. n : x[i] # "CR", NEW t, NEW c, Part(t, s, c), HasHeaders(t),
           Has(Rest(t), <<Dashes>>), NEW f, f = SubSeq(Rest(t), 1, FileLength(t))
    PROVE  WholeOrCut(f, y)
<1>0. n \in Nat /\ b \in Nat /\ b = Len(y) /\ c \in Nat
  BY DEF FormAt, Part
<1>1. c >= n + 14
  <2>1. c < n + 14 => ~ HasHeaders(t)
    BY FewerLines
  <2> QED BY <1>0, <2>1
<1>2. PICK r, l : r = Rest(t) /\ RestAt(r, s, n, l)
  BY <1>1, RestIs
<1>3. r \in Seq(Letters) /\ l \in Nat /\ Len(r) = l
  BY <1>2 DEF RestAt
<1>4. FileLength(t) = MemStr(r, <<Dashes>>) - 1 - 2
  <2>1. Len(CRLF) = 2
    BY DEF CRLF
  <2> QED BY <1>2, <2>1 DEF FileLength
<1>6. PICK d : /\ MemStr(r, <<Dashes>>) = d /\ d \in Nat /\ 1 <= d /\ d <= l /\ r[d] = Dashes
               /\ \A q \in Int : 1 <= q /\ q <= l /\ r[q] = Dashes => d <= q
  BY <1>2, <1>3, Boundary
<1>7. PICK m : m = d - 3 /\ m \in Int /\ f = SubSeq(r, 1, m)
  <2>1. d - 1 - 2 = d - 3 /\ d - 3 \in Int
    BY ONLY <1>6
  <2> QED BY <1>2, <1>4, <1>6, <2>1
<1>8. CASE d <= b
  <2>1. \A q \in Int : 1 <= q /\ q <= d => r[q] = y[q]
    <3>1. ASSUME NEW q \in Int, 1 <= q, q <= d PROVE r[q] = y[q]
      <4>1. q <= l /\ q <= b
        BY ONLY <1>0, <1>3, <1>6, <1>8, <3>1
      <4> QED BY <1>2, <3>1, <4>1, DashesOf
    <3> QED BY <3>1
  <2>2. y[d] = Dashes /\ d \in Int
    BY <1>6, <2>1
  <2>3. d \in Places(y, <<Dashes>>, 1) /\ \A q \in Places(y, <<Dashes>>, 1) : d <= q
    <3>1. Dashes \in Letters
      BY Spelled
    <3>2. /\ Places(y, <<Dashes>>, 1) \subseteq Int
          /\ \A q \in Int : q \in Places(y, <<Dashes>>, 1) <=>
                1 <= q /\ q <= Len(y) /\ y[q] = Dashes
      BY <3>1, TokenPlaces
    <3>3. d \in Places(y, <<Dashes>>, 1)
      BY <1>0, <1>6, <1>8, <2>2, <3>2
    <3>4. ASSUME NEW q \in Places(y, <<Dashes>>, 1), ~ (d <= q) PROVE FALSE
      <4>1. q \in Int /\ 1 <= q /\ y[q] = Dashes
        BY <3>2
      <4>2. q <= d /\ q <= l
        BY ONLY <1>3, <1>6, <3>4, <4>1
      <4>3. r[q] = Dashes
        BY <2>1, <4>1, <4>2
      <4> QED BY <1>6, <3>4, <4>1, <4>2, <4>3
    <3> QED BY <3>3, <3>4
  <2>4. StrStr(y, <<Dashes>>, 1) = d
    <3>1. PICK P : P = Places(y, <<Dashes>>, 1)
      OBVIOUS
    <3>2. P \subseteq Int /\ d \in P /\ \A q \in P : d <= q
      <4>1. Dashes \in Letters
        BY Spelled
      <4> QED BY <2>3, <3>1, <4>1, TokenPlaces
    <3>3. Min(P) = d
      BY ONLY <3>2, MinIsLeast
    <3> QED BY <3>1, <3>3 DEF StrStr
  <2>5. SubSeq(r, 1, m) = SubSeq(y, 1, m)
    <3>1. m <= l /\ m <= b /\ \A i \in 1 .. m : i \in Int /\ 1 <= i /\ i <= d
      BY ONLY <1>0, <1>3, <1>6, <1>7, <1>8
    <3>2. \A i \in 1 .. m : r[i] = y[i]
      BY <2>1, <3>1
    <3>3. CASE m \in Nat
      BY <1>0, <1>3, <3>1, <3>2, <3>3, SameStart
    <3>4. CASE m < 1
      BY <1>3, <1>7, <3>4, NothingOf
    <3>5. m \in Nat \/ m < 1
      BY ONLY <1>7
    <3> QED BY <3>3, <3>4, <3>5
  <2> QED BY <1>7, <2>3, <2>4, <2>5 DEF WholeOrCut, Has
<1>9. CASE ~ (d <= b)
  <2>1. d = b + 3
    <3>1. d > b /\ d \in Int
      BY ONLY <1>0, <1>6, <1>9
    <3> QED BY <1>2, <1>6, <3>1, DashesOf
  <2>2. m = b
    BY ONLY <1>0, <1>6, <1>7, <2>1
  <2>3. SubSeq(r, 1, b) = SubSeq(y, 1, b)
    <3>1. b <= l /\ \A i \in 1 .. b : i \in Int /\ 1 <= i /\ i <= l /\ i <= b
      BY ONLY <1>0, <1>3, <1>6, <1>9
    <3>2. \A i \in 1 .. b : r[i] = y[i]
      BY <1>2, <3>1, DashesOf
    <3>3. b <= b
      BY ONLY <1>0
    <3> QED BY <1>0, <1>3, <3>1, <3>2, <3>3, SameStart
  <2>4. SubSeq(y, 1, b) = y
    <3>1. Holds(y, 1, y)
      <4>1. \A i \in Nat : 1 + i - 1 = i
        OBVIOUS
      <4> QED BY <4>1 DEF Holds
    <3>2. 1 \in Nat /\ 1 <= 1 /\ b = 1 + b - 1 /\ b <= b
      BY ONLY <1>0
    <3> QED BY <1>0, <3>1, <3>2, Cut
  <2> QED BY <1>7, <2>2, <2>3, <2>4 DEF WholeOrCut
<1> QED BY <1>8, <1>9

(* In a body that comes as far as the boundary it finds the dashes.        *)
LEMMA BoundaryFound ==
    ASSUME NEW s, NEW x, NEW y, NEW n, NEW b, FormAt(s, x, y, n, b),
           \A i \in 1 .. n : x[i] # "CR", NEW t, NEW c, Part(t, s, c), c >= n + b + 17
    PROVE  Has(Rest(t), <<Dashes>>)
<1>0. n \in Nat /\ b \in Nat /\ c \in Nat
  BY DEF FormAt, Part
<1>1. c >= n + 14 /\ c - (n + 14) >= b + 3
  BY ONLY <1>0, c >= n + b + 17
<1>2. PICK r, l : r = Rest(t) /\ RestAt(r, s, n, l) /\ l = c - (n + 14)
  BY <1>1, RestIs
<1>3. r \in Seq(Letters) /\ l \in Nat /\ Len(r) = l /\ l >= b + 3
  BY <1>1, <1>2 DEF RestAt
<1>5. r[b + 3] = Dashes /\ b + 3 \in Int /\ 1 <= b + 3 /\ b + 3 <= l
  <2>1. b + 3 \in Int /\ 1 <= b + 3 /\ b + 3 <= l /\ b + 3 > b
    BY ONLY <1>0, <1>3
  <2> QED BY <1>2, <2>1, DashesOf
<1>6. ASSUME ~ Has(r, <<Dashes>>) PROVE FALSE
  <2>1. \A q \in Int : 1 <= q /\ q <= Len(r) => r[q] # Dashes
    BY <1>3, <1>6, Boundary
  <2> QED BY <1>3, <1>5, <2>1
<1> QED BY <1>2, <1>6

\* f says nothing else than y of the first k tokens.
Agrees(f, y, k) == \A i \in DOMAIN f \cap DOMAIN y : i <= k => f[i] = y[i]

(* What fwrite finds in memory behind a body that broke off is first of    *)
(* all what came.                                                          *)
LEMMA Padded ==
    ASSUME NEW s, NEW x, NEW y, NEW n, NEW b, FormAt(s, x, y, n, b), y \in Seq(Letters),
           \A i \in 1 .. n : x[i] # "CR", NEW t, NEW c, Part(t, s, c), HasHeaders(t),
           NEW memory, memory \in Seq(Letters), NEW f, f \in Prefixes(Rest(t) \o memory)
    PROVE  Agrees(f, y, c - (n + 14))
<1>0. n \in Nat /\ b \in Nat /\ b = Len(y) /\ c \in Nat
  BY DEF FormAt, Part
<1>1. c >= n + 14
  <2>1. c < n + 14 => ~ HasHeaders(t)
    BY FewerLines
  <2> QED BY <1>0, <2>1
<1>2. PICK r, l : r = Rest(t) /\ RestAt(r, s, n, l) /\ l = c - (n + 14)
  BY <1>1, RestIs
<1>3. r \in Seq(Letters) /\ l \in Nat /\ Len(r) = l
  BY <1>2 DEF RestAt
<1>4. PICK v : v = r \o memory
  OBVIOUS
<1>5. v \in Seq(Letters) /\ Len(v) \in Nat /\ \A i \in 1 .. l : v[i] = r[i]
  <2>1. r \in Seq(Letters) /\ memory \in Seq(Letters)
    BY <1>3
  <2>2. v \in Seq(Letters) /\ \A i \in 1 .. Len(r) : v[i] = r[i]
    BY ONLY <1>4, <2>1, Appended
  <2> QED BY <1>3, <2>2
<1>6. PICK k : k \in 0 .. Len(v) /\ f = SubSeq(v, 1, k)
  BY <1>2, <1>4 DEF Prefixes
<1>7. /\ k \in Nat /\ k <= Len(v)
  BY ONLY <1>5, <1>6
<1>8. f \in Seq(Letters) /\ Len(f) = k /\ \A i \in 1 .. k : f[i] = v[i]
  BY <1>5, <1>6, <1>7, PartIs DEF Part
<1>9. ASSUME NEW i \in DOMAIN f \cap DOMAIN y, i <= l PROVE f[i] = y[i]
  <2>1. DOMAIN f = 1 .. k /\ DOMAIN y = 1 .. b
    BY <1>0, <1>8
  <2>2. i \in 1 .. k /\ i \in 1 .. b
    BY <2>1
  <2>3. i \in Int /\ 1 <= i /\ i <= b /\ i \in 1 .. l
    BY ONLY <1>0, <1>3, <1>7, <1>9, <2>2
  <2>4. r[i] = y[i]
    BY <1>2, <1>9, <2>3, DashesOf
  <2> QED BY <1>5, <1>8, <2>2, <2>3, <2>4
<1> QED BY <1>2, <1>9 DEF Agrees

\* Max is the largest element of a finite set of numbers.
LEMMA GreatestOf ==
    ASSUME NEW l, l \in Nat, NEW P, P \subseteq 1 .. l, P # {}
    PROVE  Max(P) \in P /\ \A x \in P : Max(P) >= x
<1>1. PICK Q : Q = {q \in 1 .. l : l + 1 - q \in P}
  OBVIOUS
<1>2. \A x \in P : l + 1 - x \in Q
  <2> TAKE x \in P
  <2>1. x \in 1 .. l
    OBVIOUS
  <2>2. l + 1 - x \in 1 .. l /\ l + 1 - (l + 1 - x) = x
    BY ONLY <2>1, l \in Nat
  <2> QED BY <1>1, <2>2
<1>3. Q \subseteq Nat /\ Q # {}
  <2>1. \A q \in 1 .. l : q \in Nat
    BY ONLY l \in Nat
  <2>2. PICK x : x \in P
    OBVIOUS
  <2>3. l + 1 - x \in Q
    BY <1>2, <2>2
  <2> QED BY <1>1, <2>1, <2>3
<1>4. PICK m : m \in Q /\ \A q \in Q : m <= q
  BY <1>3, LeastOf
<1>5. PICK x : x = l + 1 - m /\ x \in P /\ m \in 1 .. l
  BY <1>1, <1>4
<1>6. ASSUME NEW y \in P PROVE x >= y
  <2>1. m <= l + 1 - y /\ y \in 1 .. l
    BY <1>2, <1>4
  <2> QED BY ONLY <1>5, <2>1, l \in Nat
<1> QED BY <1>5, <1>6 DEF Max

\* Every token of t is one of s.
Among(t, s) == \A i \in 1 .. Len(t) : \E j \in 1 .. Len(s) : t[i] = s[j]

\* trim_space takes a part of its text, from the first character on when that
\* is no white space.
LEMMA Trimmed ==
    ASSUME NEW s, s \in Seq(Letters), NEW t, t = TrimSpace(s)
    PROVE  /\ t \in Seq(Letters)
           /\ Among(t, s)
           /\ s # << >> /\ s[1] \notin {"SP", "CR", "LF"} => Len(t) >= 1 /\ t[1] = s[1]
<1>0. PICK l : l = Len(s) /\ l \in Nat /\ DOMAIN s = 1 .. l
  <2>1. Len(s) \in Nat /\ DOMAIN s = 1 .. Len(s)
    OBVIOUS
  <2> QED BY <2>1
<1>1. PICK ink : ink = {i \in DOMAIN s : s[i] \notin {"SP", "CR", "LF"}}
  OBVIOUS
<1>2. t = IF ink = {} THEN << >> ELSE SubSeq(s, Min(ink), Max(ink))
  BY <1>1 DEF TrimSpace
<1>3. ASSUME s # << >>, s[1] \notin {"SP", "CR", "LF"} PROVE 1 \in ink
  <2>1. l # 0
    BY <1>0, <1>3, EmptySeq
  <2>2. 1 \in 1 .. l
    BY ONLY <1>0, <2>1
  <2> QED BY <1>0, <1>1, <1>3, <2>2
<1>4. CASE ink = {}
  <2>1. t = << >> /\ Len(t) = 0 /\ t \in Seq(Letters)
    BY <1>2, <1>4
  <2>2. \A i \in 1 .. 0 : FALSE
    OBVIOUS
  <2>3. \A i \in 1 .. Len(t) : FALSE
    BY <2>1, <2>2
  <2>4. ~ (s # << >> /\ s[1] \notin {"SP", "CR", "LF"})
    BY <1>3, <1>4
  <2> QED BY <2>1, <2>3, <2>4 DEF Among
<1>5. CASE ink # {}
  <2>1. ink \subseteq 1 .. l /\ ink \subseteq Nat
    <3>1. ink \subseteq 1 .. l
      BY <1>0, <1>1
    <3>2. \A q \in 1 .. l : q \in Nat
      BY ONLY <1>0
    <3> QED BY <3>1, <3>2
  <2>2. PICK a, e : /\ a = Min(ink) /\ e = Max(ink) /\ a \in ink /\ e \in ink
                    /\ (\A x \in ink : a <= x) /\ \A x \in ink : e >= x
    BY <1>0, <1>5, <2>1, LeastOf, GreatestOf
  <2>3. a \in 1 .. l /\ e \in 1 .. l /\ a <= e
    BY <2>1, <2>2
  <2>4. \A i \in a .. e : i \in 1 .. l
    BY ONLY <1>0, <2>3
  <2>5. \A i \in a .. e : s[i] \in Letters
    BY <1>0, <2>4
  <2>6. a \in Int /\ e \in Int
    BY ONLY <1>0, <2>3
  <2>7. /\ SubSeq(s, a, e) \in Seq(Letters)
        /\ Len(SubSeq(s, a, e)) = IF a <= e THEN e - a + 1 ELSE 0
        /\ \A i \in 1 .. e - a + 1 : SubSeq(s, a, e)[i] = s[a + i - 1]
    BY ONLY <2>5, <2>6, SubSeqProperties
  <2>8. t = SubSeq(s, a, e) /\ Len(t) = e - a + 1 /\ e - a + 1 >= 1
    <3>1. e - a + 1 >= 1
      BY ONLY <2>3
    <3> QED BY <1>2, <1>5, <2>2, <2>3, <2>7, <3>1
  <2>9. \A i \in 1 .. Len(t) : \E j \in 1 .. Len(s) : t[i] = s[j]
    <3> TAKE i \in 1 .. Len(t)
    <3>1. i \in 1 .. e - a + 1 /\ a + i - 1 \in 1 .. l
      <4>1. i \in 1 .. e - a + 1
        BY <2>8
      <4> QED BY ONLY <1>0, <2>3, <4>1
    <3> QED BY <1>0, <2>7, <2>8, <3>1
  <2>10. ASSUME s # << >>, s[1] \notin {"SP", "CR", "LF"} PROVE t[1] = s[1]
    <3>1. a = 1
      <4>1. a <= 1 /\ a \in 1 .. l
        BY <1>3, <2>2, <2>3, <2>10
      <4> QED BY ONLY <4>1
    <3>2. 1 \in 1 .. e - a + 1 /\ a + 1 - 1 = 1
      BY ONLY <2>6, <2>8, <3>1
    <3> QED BY <2>7, <2>8, <3>2
  <2> QED BY <2>7, <2>8, <2>9, <2>10 DEF Among
<1> QED BY <1>4, <1>5


\* SubSeq takes a text out of a text, token by token.
LEMMA Piece ==
    ASSUME NEW s, s \in Seq(Letters), NEW a, a \in Nat, a >= 1, NEW e, e \in Int, e <= Len(s),
           NEW t, t = SubSeq(s, a, e)
    PROVE  /\ t \in Seq(Letters)
           /\ Among(t, s)
<1>0. PICK l : l = Len(s) /\ l \in Nat
  <2>1. Len(s) \in Nat
    OBVIOUS
  <2> QED BY <2>1
<1>1. \A i \in a .. e : i \in 1 .. l
  <2>1. e <= l
    BY <1>0
  <2> QED BY ONLY <1>0, <2>1, a \in Nat, a >= 1, e \in Int
<1>2. \A i \in a .. e : s[i] \in Letters
  BY <1>0, <1>1
<1>3. a \in Int /\ e \in Int
  OBVIOUS
<1>4. /\ SubSeq(s, a, e) \in Seq(Letters)
      /\ Len(SubSeq(s, a, e)) = IF a <= e THEN e - a + 1 ELSE 0
      /\ \A i \in 1 .. e - a + 1 : SubSeq(s, a, e)[i] = s[a + i - 1]
  BY ONLY <1>2, <1>3, SubSeqProperties
<1>5. \A i \in 1 .. Len(t) : i \in 1 .. e - a + 1 /\ a + i - 1 \in 1 .. l
  <2>1. Len(t) = IF a <= e THEN e - a + 1 ELSE 0
    BY <1>4
  <2>2. ASSUME NEW i \in 1 .. Len(t) PROVE i \in 1 .. e - a + 1 /\ a + i - 1 \in a .. e
    <3>1. PICK k : k = Len(t) /\ k = (IF a <= e THEN e - a + 1 ELSE 0) /\ i \in 1 .. k
      BY <2>1
    <3> QED BY ONLY <1>3, <3>1
  <2> QED BY <1>1, <2>2
<1>6. \A i \in 1 .. Len(t) : \E j \in 1 .. Len(s) : t[i] = s[j]
  <2> TAKE i \in 1 .. Len(t)
  <2>1. t[i] = s[a + i - 1]
    BY <1>4, <1>5
  <2> QED BY <1>0, <1>5, <2>1
<1> QED BY <1>4, <1>6 DEF Among

\* The name upload_file finds is the one of the form (FileName).
LEMMA NameFound ==
    ASSUME NEW s, NEW x, NEW y, NEW n, NEW b, FormAt(s, x, y, n, b), x \in Seq(Letters),
           \A i \in 1 .. n : x[i] # "CR", NEW t, NEW c, Part(t, s, c), c >= n + 12
    PROVE  FileName(t) = x
<1>0. /\ n \in Nat /\ n = Len(x) /\ t \in Seq(Letters) /\ c \in Nat /\ Len(t) = c
      /\ \A i \in 1 .. c : t[i] = s[i]
  BY DEF FormAt, Part
<1>1. StrStr(t, <<NameKey>>, 1) = 5
  <2>1. NameKey \in Letters
    BY Spelled
  <2>2. /\ Places(t, <<NameKey>>, 1) \subseteq Int
        /\ \A q \in Int : q \in Places(t, <<NameKey>>, 1) <=>
              1 <= q /\ q <= c /\ t[q] = NameKey
    <3>1. 1 \in Nat /\ 1 >= 1
      OBVIOUS
    <3>2. t \in Seq(Letters) /\ Len(t) = c
      BY <1>0
    <3>3. /\ Places(t, <<NameKey>>, 1) \subseteq Int
          /\ \A q \in Int : q \in Places(t, <<NameKey>>, 1) <=>
                1 <= q /\ q <= Len(t) /\ t[q] = NameKey
      BY ONLY <2>1, <3>1, <3>2, TokenPlaces
    <3> QED BY <3>2, <3>3
  <2>3. /\ 1 \in 1 .. c /\ 2 \in 1 .. c /\ 3 \in 1 .. c /\ 4 \in 1 .. c /\ 5 \in 1 .. c
    BY ONLY <1>0, c >= n + 12
  <2>4. /\ t[1] # NameKey /\ t[2] # NameKey /\ t[3] # NameKey /\ t[4] # NameKey
        /\ t[5] = NameKey
    <3>1. /\ s[1] # NameKey /\ s[2] # NameKey /\ s[3] # NameKey /\ s[4] # NameKey
          /\ s[5] = NameKey
      BY DEF FormAt, NameKey, Dashes
    <3> QED BY <1>0, <2>3, <3>1
  <2>5. 5 \in Places(t, <<NameKey>>, 1)
    <3>1. 5 <= c
      BY <2>3
    <3> QED BY <2>2, <2>4, <3>1
  <2>6. ASSUME NEW q \in Places(t, <<NameKey>>, 1) PROVE 5 <= q
    <3>1. q \in Int /\ 1 <= q /\ t[q] = NameKey
      BY <2>2
    <3>2. q # 1 /\ q # 2 /\ q # 3 /\ q # 4
      BY <2>4, <3>1
    <3> QED BY ONLY <3>1, <3>2
  <2>7. PICK P : P = Places(t, <<NameKey>>, 1)
    OBVIOUS
  <2>8. Min(P) = 5
    <3>1. P \subseteq Int /\ 5 \in P /\ \A q \in P : 5 <= q
      BY <2>2, <2>5, <2>6, <2>7
    <3> QED BY ONLY <3>1, MinIsLeast
  <2> QED BY <2>7, <2>8 DEF StrStr
<1>2. Nth(t, CRLF, 2) = n + 8
  BY TwoLines
<1>3. PICK a, e : /\ a = 7 /\ e = n + 6 /\ FileName(t) = SubSeq(t, a, e)
                  /\ a \in Nat /\ e \in Nat /\ 1 <= a /\ e = a + n - 1 /\ e <= c
  <2>1. 5 + 2 = 7 /\ (n + 8) - 2 = n + 6 /\ 7 \in Nat /\ n + 6 \in Nat /\ n + 6 = 7 + n - 1
        /\ 1 <= 7 /\ n + 6 <= c
    BY ONLY <1>0, c >= n + 12
  <2>2. FileName(t) = SubSeq(t, 7, n + 6)
    BY <1>1, <1>2, <2>1 DEF FileName
  <2> QED BY <2>1, <2>2
<1>4. Holds(t, a, x)
  <2>1. ASSUME NEW i \in Nat, i \in 1 .. n PROVE t[a + i - 1] = x[i]
    <3>1. a + i - 1 = 6 + i /\ 6 + i \in 1 .. c
      BY ONLY <1>0, <1>3, <2>1, c >= n + 12
    <3>2. s[6 + i] = x[i]
      BY <2>1 DEF FormAt
    <3> QED BY <1>0, <3>1, <3>2
  <2> QED BY <1>0, <2>1 DEF Holds
<1>5. e = a + Len(x) - 1 /\ e <= Len(t)
  BY <1>0, <1>3
<1> QED BY <1>0, <1>3, <1>4, <1>5, Cut

\* w is what the second tool prints of a server r, k tokens long.
ReportAt(w, r, k) ==
    /\ w \in Seq(Letters) /\ r \in Seq(Letters)
    /\ k \in Nat /\ k = Len(r) /\ k >= 1 /\ Len(w) = k + 7
    /\ w[1] = "line" /\ w[2] = "LF" /\ w[3] = Source /\ w[4] = "SP"
    /\ \A i \in 1 .. k : w[4 + i] = r[i]
    /\ w[k + 5] = "LF"
    /\ \A i \in 1 .. k : r[i] \notin {"SP", "CR", "LF", "/"}

\* Every server is named in such a report.
LEMMA ReportLies ==
    ASSUME NEW g, Possible(g), g.server # << >>
    PROVE  ReportAt(Info(g), g.server, Len(g.server))
<1>1. PICK r, h, e, u, w : /\ r = g.server
                           /\ h = <<"line", "LF", Source, "SP">> /\ e = <<"LF", "line", "LF">>
                           /\ u = h \o r /\ w = u \o e
  OBVIOUS
<1>2. r \in Seq(STRING) /\ r # << >>
  BY <1>1 DEF Possible
<1>3. r \in Seq(Letters)
  <2>1. STRING \subseteq Letters
    BY Spelled
  <2> QED BY <1>2, <2>1, Wider
<1>4. PICK k : k = Len(r) /\ k \in Nat /\ k >= 1 /\ DOMAIN r = 1 .. k
  <2>1. Len(r) \in Nat /\ DOMAIN r = 1 .. Len(r) /\ Len(r) # 0
    BY <1>2, <1>3, EmptySeq
  <2> QED BY <2>1
<1>5. /\ h \in Seq(Letters) /\ Len(h) = 4
      /\ h[1] = "line" /\ h[2] = "LF" /\ h[3] = Source /\ h[4] = "SP"
  BY <1>1, Spelled
<1>6. e \in Seq(Letters) /\ Len(e) = 3 /\ e[1] = "LF"
  BY <1>1, Spelled
<1>7. u \in Seq(Letters) /\ Len(u) = 4 + k /\ (\A i \in 1 .. 4 : u[i] = h[i])
      /\ \A i \in 1 .. k : u[4 + i] = r[i]
  <2>1. u = h \o r /\ h \in Seq(Letters)
    BY <1>1, <1>5
  <2>2. /\ u \in Seq(Letters) /\ Len(u) = Len(h) + Len(r)
        /\ \A i \in 1 .. Len(h) : u[i] = h[i]
        /\ \A i \in 1 .. Len(r) : u[Len(h) + i] = r[i]
    BY ONLY <1>3, <2>1, Appended
  <2> QED BY <1>4, <1>5, <2>2
<1>8. w \in Seq(Letters) /\ Len(w) = k + 7 /\ (\A i \in 1 .. k + 4 : w[i] = u[i])
      /\ w[k + 5] = "LF"
  <2>1. w = u \o e /\ u \in Seq(Letters) /\ e \in Seq(Letters)
    BY <1>1, <1>6, <1>7
  <2>2. /\ w \in Seq(Letters) /\ Len(w) = Len(u) + Len(e)
        /\ \A i \in 1 .. Len(u) : w[i] = u[i]
        /\ \A i \in 1 .. Len(e) : w[Len(u) + i] = e[i]
    BY ONLY <2>1, Appended
  <2>3. 1 \in 1 .. 3 /\ 4 + k = k + 4 /\ (4 + k) + 3 = k + 7 /\ (4 + k) + 1 = k + 5
    BY ONLY <1>4
  <2> QED BY <1>6, <1>7, <2>2, <2>3
<1>9. w[1] = "line" /\ w[2] = "LF" /\ w[3] = Source /\ w[4] = "SP"
  <2>1. 1 \in 1 .. 4 /\ 2 \in 1 .. 4 /\ 3 \in 1 .. 4 /\ 4 \in 1 .. 4
    OBVIOUS
  <2>2. \A i \in 1 .. 4 : i \in 1 .. k + 4
    BY ONLY <1>4
  <2> QED BY <1>5, <1>7, <1>8, <2>1, <2>2
<1>10. \A i \in 1 .. k : w[4 + i] = r[i]
  <2>1. \A i \in 1 .. k : 4 + i \in 1 .. k + 4
    BY ONLY <1>4
  <2> QED BY <1>7, <1>8, <2>1
<1>11. \A i \in 1 .. k : r[i] \notin {"SP", "CR", "LF", "/"}
  BY <1>1, <1>4 DEF Possible
<1>12. w = Info(g)
  BY <1>1 DEF Info
<1>13. ReportAt(w, r, k)
  BY <1>3, <1>4, <1>8, <1>9, <1>10, <1>11 DEF ReportAt
<1> QED BY <1>1, <1>4, <1>12, <1>13

(* get_url takes the server out of the report, without the space before    *)
(* and the end of line behind it (usefull.c 533-544).                      *)
LEMMA Addressed ==
    ASSUME NEW w, NEW r, NEW k, ReportAt(w, r, k)
    PROVE  HasAddress(w) /\ Address(w) = r
<1>0. w \in Seq(Letters) /\ r \in Seq(Letters) /\ k \in Nat /\ k >= 1 /\ Len(w) = k + 7
      /\ Len(r) = k
  BY DEF ReportAt
<1>1. Source \in Letters /\ "LF" \in Letters /\ 1 \in Nat /\ 1 >= 1 /\ 3 \in Nat /\ 3 >= 1
      /\ 4 \in Nat /\ 4 >= 1
  BY Spelled
<1>2. PICK P : P = Places(w, <<Source>>, 1)
  OBVIOUS
<1>3. P \subseteq Int /\ \A x \in Int : x \in P <=> 1 <= x /\ x <= k + 7 /\ w[x] = Source
  <2>1. P \subseteq Int /\ \A x \in Int : x \in P <=> 1 <= x /\ x <= Len(w) /\ w[x] = Source
    BY <1>0, <1>1, <1>2, TokenPlaces
  <2> QED BY <1>0, <2>1
<1>4. 3 \in P /\ \A x \in P : 3 <= x
  <2>1. w[1] # Source /\ w[2] # Source /\ w[3] = Source
    BY DEF ReportAt, Source
  <2>2. 3 \in Int /\ 1 <= 3 /\ 3 <= k + 7
    BY ONLY <1>0
  <2>3. ASSUME NEW x \in P PROVE 3 <= x
    <3>1. x \in Int /\ 1 <= x /\ x # 1 /\ x # 2
      BY <1>3, <2>1
    <3> QED BY ONLY <3>1
  <2> QED BY <1>3, <2>1, <2>2, <2>3
<1>5. Has(w, <<Source>>) /\ StrStr(w, <<Source>>, 1) = 3
  <2>1. Min(P) = 3
    BY ONLY <1>3, <1>4, MinIsLeast
  <2> QED BY <1>2, <1>4, <2>1 DEF Has, StrStr
<1>6. PICK Q : Q = Places(w, <<"LF">>, 4)
  OBVIOUS
<1>7. Q \subseteq Int /\ \A x \in Int : x \in Q <=> 4 <= x /\ x <= k + 7 /\ w[x] = "LF"
  <2>1. Q \subseteq Int /\ \A x \in Int : x \in Q <=> 4 <= x /\ x <= Len(w) /\ w[x] = "LF"
    BY <1>0, <1>1, <1>6, TokenPlaces
  <2> QED BY <1>0, <2>1
<1>8. k + 5 \in Q /\ \A x \in Q : k + 5 <= x
  <2>1. k + 5 \in Int /\ 4 <= k + 5 /\ k + 5 <= k + 7
    BY ONLY <1>0
  <2>2. w[k + 5] = "LF"
    BY DEF ReportAt
  <2>3. ASSUME NEW x \in Q, ~ (k + 5 <= x) PROVE FALSE
    <3>1. x \in Int /\ 4 <= x /\ w[x] = "LF"
      BY <1>7
    <3>2. x = 4 \/ \E i \in 1 .. k : x = 4 + i
      <4>1. x = 4 \/ (x - 4 \in 1 .. k /\ x = 4 + (x - 4))
        BY ONLY <1>0, <2>3, <3>1
      <4> QED BY <4>1
    <3>3. w[4] # "LF" /\ \A i \in 1 .. k : w[4 + i] # "LF"
      BY DEF ReportAt
    <3> QED BY <3>1, <3>2, <3>3
  <2> QED BY <1>7, <2>1, <2>2, <2>3
<1>9. StrStr(w, <<"LF">>, 4) = k + 5
  <2>1. Min(Q) = k + 5
    BY ONLY <1>7, <1>8, MinIsLeast
  <2> QED BY <1>6, <2>1 DEF StrStr
<1>10. HasAddress(w)
  <2>1. k + 5 \in Places(w, <<"LF">>, 3)
    <3>1. k + 5 \in Int /\ 3 <= k + 5 /\ k + 5 <= k + 7
      BY ONLY <1>0
    <3>2. w[k + 5] = "LF" /\ k + 5 <= Len(w)
      BY <1>0, <3>1 DEF ReportAt
    <3> QED BY <1>0, <1>1, <3>1, <3>2, TokenPlaces
  <2> QED BY <1>5, <2>1 DEF HasAddress
<1>11. PICK u, e : e = k + 4 /\ u = SubSeq(w, 4, e) /\ Address(w) = TrimSpace(u)
  <2>1. 3 + 1 = 4 /\ (k + 5) - 1 = k + 4
    BY ONLY <1>0
  <2> QED BY <1>5, <1>9, <2>1 DEF Address
<1>12. /\ u \in Seq(Letters) /\ Len(u) = k + 1 /\ u[1] = "SP"
       /\ \A i \in 1 .. k : u[1 + i] = r[i]
  <2>1. \A i \in 4 .. e : w[i] \in Letters
    <3>1. \A i \in 4 .. e : i \in 1 .. k + 7
      BY ONLY <1>0, <1>11
    <3> QED BY <1>0, <3>1
  <2>2. 4 \in Int /\ e \in Int
    BY ONLY <1>0, <1>11
  <2>3. /\ SubSeq(w, 4, e) \in Seq(Letters)
        /\ Len(SubSeq(w, 4, e)) = IF 4 <= e THEN e - 4 + 1 ELSE 0
        /\ \A i \in 1 .. e - 4 + 1 : SubSeq(w, 4, e)[i] = w[4 + i - 1]
    BY ONLY <2>1, <2>2, SubSeqProperties
  <2>4. /\ (IF 4 <= e THEN e - 4 + 1 ELSE 0) = k + 1 /\ 1 \in 1 .. e - 4 + 1
        /\ 4 + 1 - 1 = 4
        /\ \A i \in 1 .. k : 1 + i \in 1 .. e - 4 + 1 /\ 4 + (1 + i) - 1 = 4 + i
    BY ONLY <1>0, <1>11
  <2>5. w[4] = "SP" /\ \A i \in 1 .. k : w[4 + i] = r[i]
    BY DEF ReportAt
  <2> QED BY <1>11, <2>3, <2>4, <2>5
<1>13. PICK ink : ink = {i \in DOMAIN u : u[i] \notin {"SP", "CR", "LF"}}
  OBVIOUS
<1>14. \A i \in Int : i \in ink <=> 2 <= i /\ i <= k + 1
  <2>1. DOMAIN u = 1 .. k + 1
    BY <1>12
  <2>2. ASSUME NEW i \in Int, i \in ink PROVE 2 <= i /\ i <= k + 1
    <3>1. i \in 1 .. k + 1 /\ i # 1
      BY <1>12, <1>13, <2>1, <2>2
    <3> QED BY ONLY <1>0, <3>1
  <2>3. ASSUME NEW i \in Int, 2 <= i, i <= k + 1 PROVE i \in ink
    <3>1. i \in 1 .. k + 1 /\ i - 1 \in 1 .. k /\ i = 1 + (i - 1)
      BY ONLY <1>0, <2>3
    <3>2. u[i] = r[i - 1]
      BY <1>12, <3>1
    <3>3. r[i - 1] \notin {"SP", "CR", "LF"}
      BY <3>1 DEF ReportAt
    <3> QED BY <1>13, <2>1, <3>1, <3>2, <3>3
  <2> QED BY <2>2, <2>3
<1>15. ink \subseteq 1 .. k + 1 /\ ink \subseteq Nat /\ 2 \in ink /\ k + 1 \in ink
  <2>1. DOMAIN u = 1 .. k + 1
    BY <1>12
  <2>2. ink \subseteq 1 .. k + 1
    BY <1>13, <2>1
  <2>3. \A i \in 1 .. k + 1 : i \in Nat
    BY ONLY <1>0
  <2>4. 2 \in Int /\ 2 <= 2 /\ 2 <= k + 1 /\ k + 1 \in Int /\ 2 <= k + 1 /\ k + 1 <= k + 1
    BY ONLY <1>0
  <2> QED BY <1>14, <2>2, <2>3, <2>4
<1>16. Min(ink) = 2 /\ Max(ink) = k + 1
  <2>1. PICK a, b : a = Min(ink) /\ b = Max(ink)
    OBVIOUS
  <2>2. a \in ink /\ a <= 2
    BY <1>15, <2>1, LeastOf
  <2>3. k + 1 \in Nat
    BY ONLY <1>0
  <2>4. b \in ink /\ b >= k + 1
    BY <1>15, <2>1, <2>3, GreatestOf
  <2>5. a \in Int /\ b \in Int
    BY <1>15, <2>2, <2>4
  <2>6. 2 <= a /\ b <= k + 1
    BY <1>14, <2>2, <2>4, <2>5
  <2>7. a = 2 /\ b = k + 1
    BY ONLY <1>0, <2>2, <2>4, <2>5, <2>6
  <2> QED BY <2>1, <2>7
<1>17. PICK f : f = k + 1 /\ TrimSpace(u) = SubSeq(u, 2, f) /\ f \in Nat /\ f = 2 + k - 1
  <2>1. k + 1 \in Nat /\ k + 1 = 2 + k - 1
    BY ONLY <1>0
  <2>2. TrimSpace(u) = SubSeq(u, 2, k + 1)
    BY <1>13, <1>15, <1>16 DEF TrimSpace
  <2> QED BY <2>1, <2>2
<1>18. Holds(u, 2, r)
  <2>1. ASSUME NEW i \in Nat, i \in 1 .. k PROVE u[2 + i - 1] = r[i]
    <3>1. 2 + i - 1 = 1 + i
      BY ONLY <2>1
    <3> QED BY <1>12, <2>1, <3>1
  <2> QED BY <1>0, <2>1 DEF Holds
<1>19. SubSeq(u, 2, f) = r
  <2>1. 2 \in Nat /\ 1 <= 2 /\ f \in Nat /\ f = 2 + Len(r) - 1 /\ f <= Len(u)
    <3>1. k + 1 <= k + 1
      BY ONLY <1>0
    <3> QED BY <1>0, <1>12, <1>17, <3>1
  <2>2. u \in Seq(Letters) /\ r \in Seq(Letters)
    BY <1>0, <1>12
  <2> QED BY ONLY <1>18, <2>1, <2>2, Cut
<1> QED BY <1>10, <1>11, <1>17, <1>19

\* The type of a file is a text (GetFileSuffix).
LEMMA SuffixIsText ==
    ASSUME NEW x, x \in Seq(Letters)
    PROVE  GetFileSuffix(x) \in Seq(Letters)
<1>0. PICK l : l = Len(x) /\ l \in Nat
  <2>1. Len(x) \in Nat
    OBVIOUS
  <2> QED BY <2>1
<1>1. Null \in Seq(Letters)
  BY Spelled DEF Null
<1>2. PICK d : d = MemStr(x, <<".">>)
  OBVIOUS
<1>3. d \in Nat
  <2>1. "." \in Letters
    BY Spelled
  <2>2. CASE Has(x, <<".">>)
    BY <1>2, <2>1, <2>2, FirstToken
  <2>3. CASE ~ Has(x, <<".">>)
    BY <1>2, <2>3 DEF MemStr
  <2> QED BY <2>2, <2>3
<1>4. SubSeq(x, d + 1, l) \in Seq(Letters)
  <2>1. d + 1 \in Nat /\ d + 1 >= 1 /\ l \in Int /\ l <= l
    BY ONLY <1>0, <1>3
  <2>2. l <= Len(x)
    BY <1>0, <2>1
  <2> QED BY <2>1, <2>2, Piece
<1> QED BY <1>0, <1>1, <1>2, <1>4 DEF GetFileSuffix

(* get_ip_url takes the server out of the url that get_url made: the first *)
(* slash before a group is the one behind the address, which has none.     *)
LEMMA ServerFound ==
    ASSUME NEW ip, ip \in Seq(Letters), \A j \in 1 .. Len(ip) : ip[j] # "/",
           NEW d, d \in Seq(Letters), Len(d) >= 1, d[1] = "group",
           NEW w, w = UrlOf(ip, d)
    PROVE  GetIpUrl(w) = <<"http://">> \o ip
<1>1. PICK h, o, u, v : h = <<"http://">> /\ o = <<"/">> /\ u = h \o ip /\ v = u \o o
  OBVIOUS
<1>2. w = v \o d
  BY <1>1 DEF UrlOf
<1>3. h \in Seq(Letters) /\ Len(h) = 1 /\ h[1] = "http://"
  BY <1>1, Spelled
<1>4. o \in Seq(Letters) /\ Len(o) = 1 /\ o[1] = "/"
  BY <1>1, Spelled
<1>5. PICK k, m : k = Len(ip) /\ m = Len(d) /\ k \in Nat /\ m \in Nat /\ m >= 1
  <2>1. Len(ip) \in Nat /\ Len(d) \in Nat
    OBVIOUS
  <2> QED BY <2>1
<1>6. u \in Seq(Letters) /\ Len(u) = 1 + k /\ u[1] = "http://"
      /\ \A j \in 1 .. k : u[1 + j] = ip[j]
  <2>1. u = h \o ip /\ h \in Seq(Letters)
    BY <1>1, <1>3
  <2>2. /\ u \in Seq(Letters) /\ Len(u) = Len(h) + Len(ip)
        /\ \A j \in 1 .. Len(h) : u[j] = h[j]
        /\ \A j \in 1 .. Len(ip) : u[Len(h) + j] = ip[j]
    BY ONLY <2>1, ip \in Seq(Letters), Appended
  <2>3. 1 \in 1 .. 1
    OBVIOUS
  <2> QED BY <1>3, <1>5, <2>2, <2>3
<1>7. v \in Seq(Letters) /\ Len(v) = k + 2 /\ (\A j \in 1 .. k + 1 : v[j] = u[j])
      /\ v[k + 2] = "/"
  <2>1. v = u \o o /\ u \in Seq(Letters) /\ o \in Seq(Letters)
    BY <1>1, <1>4, <1>6
  <2>2. /\ v \in Seq(Letters) /\ Len(v) = Len(u) + Len(o)
        /\ \A j \in 1 .. Len(u) : v[j] = u[j]
        /\ \A j \in 1 .. Len(o) : v[Len(u) + j] = o[j]
    BY ONLY <2>1, Appended
  <2>3. 1 \in 1 .. 1 /\ 1 + k = k + 1 /\ (1 + k) + 1 = k + 2
    BY ONLY <1>5
  <2> QED BY <1>4, <1>6, <2>2, <2>3
<1>8. w \in Seq(Letters) /\ Len(w) = k + 2 + m /\ (\A j \in 1 .. k + 2 : w[j] = v[j])
      /\ w[k + 3] = "group"
  <2>1. v \in Seq(Letters)
    BY <1>7
  <2>2. /\ w \in Seq(Letters) /\ Len(w) = Len(v) + Len(d)
        /\ \A j \in 1 .. Len(v) : w[j] = v[j]
        /\ \A j \in 1 .. Len(d) : w[Len(v) + j] = d[j]
    BY ONLY <1>2, <2>1, d \in Seq(Letters), Appended
  <2>3. 1 \in 1 .. m /\ k + 2 + 1 = k + 3
    BY ONLY <1>5
  <2> QED BY <1>5, <1>7, <2>2, <2>3
<1>9. \A j \in 1 .. k + 1 : w[j] = u[j] /\ w[j] # "/"
  <2> TAKE j \in 1 .. k + 1
  <2>1. j \in 1 .. k + 2
    BY ONLY <1>5, j \in 1 .. k + 1
  <2>2. w[j] = u[j]
    BY <1>7, <1>8, <2>1
  <2>3. CASE j = 1
    BY <1>6, <2>2, <2>3
  <2>4. CASE j # 1
    <3>1. PICK i \in 1 .. k : j = 1 + i
      <4>1. j - 1 \in 1 .. k /\ j = 1 + (j - 1)
        BY ONLY <1>5, <2>4, j \in 1 .. k + 1
      <4> QED BY <4>1
    <3> QED BY <1>5, <1>6, <2>2, <3>1
  <2> QED BY <2>2, <2>3, <2>4
<1>10. w[k + 2] = "/"
  <2>1. k + 2 \in 1 .. k + 2
    BY ONLY <1>5
  <2> QED BY <1>7, <1>8, <2>1
<1>11. PICK P : P = Places(w, <<"/", "group">>, 1)
  OBVIOUS
<1>12. P \subseteq Int /\ \A x \in Int : x \in P <=>
          1 <= x /\ x + 1 <= k + 2 + m /\ w[x] = "/" /\ w[x + 1] = "group"
  <2>1. "/" \in Letters /\ "group" \in Letters
    BY Spelled
  <2>2. 1 \in Nat /\ 1 >= 1
    OBVIOUS
  <2>3. w \in Seq(Letters)
    BY <1>8
  <2>4. P \subseteq Int /\ \A x \in Int : x \in P <=>
            1 <= x /\ x + 1 <= Len(w) /\ w[x] = "/" /\ w[x + 1] = "group"
    BY ONLY <1>11, <2>1, <2>2, <2>3, PairPlaces
  <2> QED BY <1>8, <2>4
<1>13. k + 2 \in P
  <2>1. k + 2 \in Int /\ 1 <= k + 2 /\ k + 2 + 1 <= k + 2 + m /\ k + 2 + 1 = k + 3
    BY ONLY <1>5
  <2> QED BY <1>8, <1>10, <1>12, <2>1
<1>14. \A x \in P : k + 2 <= x
  <2> TAKE x \in P
  <2>1. x \in Int /\ 1 <= x /\ w[x] = "/"
    BY <1>12
  <2>2. ASSUME ~ (k + 2 <= x) PROVE FALSE
    <3>1. x \in 1 .. k + 1
      BY ONLY <1>5, <2>1, <2>2
    <3> QED BY <1>9, <2>1, <3>1
  <2> QED BY <2>2
<1>15. StrStr(w, <<"/", "group">>, 1) = k + 2 /\ Has(w, <<"/", "group">>)
  <2>1. Min(P) = k + 2
    BY ONLY <1>12, <1>13, <1>14, MinIsLeast
  <2> QED BY <1>11, <1>13, <2>1 DEF StrStr, Has
<1>16. PICK e : e = k + 1 /\ e \in Nat /\ (k + 2) - 1 = e /\ e = 1 + e - 1 /\ e <= k + 2 + m
  <2>1. k + 1 \in Nat /\ (k + 2) - 1 = k + 1 /\ k + 1 = 1 + (k + 1) - 1 /\ k + 1 <= k + 2 + m
    BY ONLY <1>5
  <2> QED BY <2>1
<1>17. SubSeq(w, 1, e) = u
  <2>1. Holds(w, 1, u)
    <3>1. ASSUME NEW i \in Nat, i \in 1 .. k + 1 PROVE w[1 + i - 1] = u[i]
      <4>1. 1 + i - 1 = i
        BY ONLY <3>1
      <4> QED BY <1>9, <3>1, <4>1
    <3>2. Len(u) = k + 1
      <4>1. 1 + k = k + 1
        BY ONLY <1>5
      <4> QED BY <1>6, <4>1
    <3> QED BY <3>1, <3>2 DEF Holds
  <2>2. 1 \in Nat /\ 1 <= 1
    OBVIOUS
  <2>3. Len(u) = e
    <3>1. 1 + k = e
      BY ONLY <1>5, <1>16
    <3> QED BY <1>6, <3>1
  <2>4. e = 1 + Len(u) - 1 /\ e <= Len(w) /\ e \in Nat
    BY <1>8, <1>16, <2>3
  <2>5. w \in Seq(Letters) /\ u \in Seq(Letters)
    BY <1>6, <1>8
  <2> QED BY ONLY <2>1, <2>2, <2>4, <2>5, Cut
<1> QED BY <1>1, <1>15, <1>16, <1>17 DEF GetIpUrl

\* The url get_url makes is a text (UrlOf).
LEMMA UrlIsText ==
    ASSUME NEW ip, ip \in Seq(Letters), NEW d, d \in Seq(Letters)
    PROVE  UrlOf(ip, d) \in Seq(Letters)
<1>1. PICK h, o, u, v : h = <<"http://">> /\ o = <<"/">> /\ u = h \o ip /\ v = u \o o
  OBVIOUS
<1>2. h \in Seq(Letters) /\ o \in Seq(Letters)
  BY <1>1, Spelled
<1>3. u \in Seq(Letters)
  BY <1>1, <1>2, Appended
<1>4. v \in Seq(Letters)
  BY <1>1, <1>2, <1>3, Appended
<1>5. v \o d \in Seq(Letters)
  BY <1>4
<1> QED BY <1>1, <1>5 DEF UrlOf
-----------------------------------------------------------------------------
(* The inductive invariant: every text is still what it was made of.       *)

\* The names and ids of the file, as far as they have been made.
Named ==
    /\ given \in Given
    /\ name \in {<< >>, given.name}
    /\ id \in {<< >>, TrimSpace(given.printed)}
    /\ url # << >> =>
          /\ HasAddress(Info(given))
          /\ id = TrimSpace(given.printed)
          /\ url = UrlOf(Address(Info(given)), id)

\* What is not made yet is empty.
Unmade ==
    /\ pc \in {"upload", "no_file", "fdfs"} => id = << >> /\ url = << >>
    /\ pc = "url" => id = TrimSpace(given.printed) /\ url = << >>
    /\ pc \in {"upload", "no_file", "end", "fdfs", "url", "listed"} =>
          row = << >> /\ picture = << >>

\* The file and the row are made of the body and of the element.
Made ==
    /\ pc \notin {"upload", "no_file", "end"} => file \in Written(Body)
    /\ row # << >> => row = [n \in Columns |-> Get(Element, n)]
    /\ picture # << >> =>
          /\ row = [n \in Columns |-> Get(Element, n)]
          /\ picture = <<GetIpUrl(row[2]), GetFileSuffix(row[3])>>

\* A worker that crashed had what it crashes over.
Crashed ==
    /\ pc = "no_file" => ~ HasHeaders(Body)
    /\ pc = "no_url" => ~ HasAddress(Info(given))
    /\ pc = "no_row" => Crashes(Element)

IInv == Named /\ Unmade /\ Made /\ Crashed
-----------------------------------------------------------------------------
\* What the client and the tools give are texts over Letters.
LEMMA GivenTexts ==
    ASSUME NEW g, Possible(g)
    PROVE  /\ g.name \in Seq(Letters) /\ g.bytes \in Seq(Letters)
           /\ g.printed \in Seq(Letters) /\ g.server \in Seq(Letters)
           /\ \A i \in 1 .. Len(g.name) : g.name[i] # "CR"
<1>1. /\ g.name \in Seq(STRING) /\ g.bytes \in Seq(STRING)
      /\ g.printed \in Seq(STRING) /\ g.server \in Seq(STRING)
  BY DEF Possible
<1>2. STRING \subseteq Letters
  BY Spelled
<1>3. /\ g.name \in Seq(Letters) /\ g.bytes \in Seq(Letters)
      /\ g.printed \in Seq(Letters) /\ g.server \in Seq(Letters)
  BY <1>1, <1>2, Wider
<1>4. \A i \in 1 .. Len(g.name) : g.name[i] # "CR"
  <2>1. DOMAIN g.name = 1 .. Len(g.name)
    BY <1>1
  <2> QED BY <2>1 DEF Possible
<1> QED BY <1>3, <1>4

\* What arrives is the first c tokens of the form.
LEMMA BodyOf ==
    ASSUME NEW g, Possible(g),
           NEW t, t = SubSeq(Form(g), 1, Min({g.cut, Len(Form(g))}))
    PROVE  \E c : Part(t, Form(g), c) /\ (c = g.cut \/ c = Len(Form(g)))
<1>1. PICK s, l, k : s = Form(g) /\ l = Len(s) /\ k = g.cut
  OBVIOUS
<1>2. s \in Seq(Letters) /\ l \in Nat /\ k \in Nat
  <2>1. s \in Seq(Letters)
    BY <1>1, FormLies DEF FormAt
  <2>2. Len(s) \in Nat
    BY <2>1
  <2> QED BY <1>1, <2>1, <2>2 DEF Possible
<1>3. PICK c : c = Min({k, l}) /\ c \in Nat /\ c <= l /\ (c = k \/ c = l)
  <2>1. {k, l} \subseteq Nat /\ {k, l} # {}
    BY <1>2
  <2>2. Min({k, l}) \in {k, l} /\ \A x \in {k, l} : Min({k, l}) <= x
    BY <2>1, LeastOf
  <2> QED BY <1>2, <2>2
<1>4. c <= Len(s)
  BY <1>1, <1>3
<1>5. t = SubSeq(s, 1, c)
  BY <1>1, <1>3
<1>6. Part(t, s, c)
  BY <1>2, <1>3, <1>4, <1>5, PartIs
<1> QED BY <1>1, <1>3, <1>6

\* A body that has its name has the name of the client's file.
LEMMA NameKept ==
    ASSUME NEW g, Possible(g),
           NEW t, t = SubSeq(Form(g), 1, Min({g.cut, Len(Form(g))})), HasName(t)
    PROVE  FileName(t) = g.name
<1>1. PICK s, x, y, n, b : /\ s = Form(g) /\ x = g.name /\ y = g.bytes
                           /\ n = Len(x) /\ b = Len(y)
  OBVIOUS
<1>2. FormAt(s, x, y, n, b)
  BY <1>1, FormLies
<1>3. x \in Seq(Letters) /\ \A i \in 1 .. n : x[i] # "CR"
  BY <1>1, GivenTexts
<1>4. PICK c : Part(t, s, c)
  BY <1>1, BodyOf
<1>5. c >= n + 12
  <2>1. c < n + 12 => ~ HasName(t)
    BY <1>2, <1>3, <1>4, NoName
  <2>2. c \in Nat /\ n \in Nat
    BY <1>2, <1>4 DEF FormAt, Part
  <2> QED BY <2>1, <2>2
<1>6. FileName(t) = x
  BY <1>2, <1>3, <1>4, <1>5, NameFound
<1> QED BY <1>1, <1>6

\* Where a server is named get_url finds it, and elsewhere it finds no address.
LEMMA ServerNamed ==
    ASSUME NEW g, Possible(g)
    PROVE  /\ HasAddress(Info(g)) <=> g.server # << >>
           /\ HasAddress(Info(g)) => Address(Info(g)) = g.server
<1>1. ASSUME g.server = << >> PROVE ~ HasAddress(Info(g))
  <2>1. PICK w, P : w = Info(g) /\ P = Places(w, <<Source>>, 1)
    OBVIOUS
  <2>2. w \in Seq(Letters) /\ Len(w) = 0
    <3>1. w = << >>
      BY <1>1, <2>1 DEF Info
    <3> QED BY <3>1
  <2>3. Source \in Letters /\ 1 \in Nat /\ 1 >= 1
    BY Spelled
  <2>4. P \subseteq Int /\ \A x \in Int : x \in P <=> 1 <= x /\ x <= Len(w) /\ w[x] = Source
    <3>1. w \in Seq(Letters)
      BY <2>2
    <3>2. P = Places(w, <<Source>>, 1)
      BY <2>1
    <3> QED BY ONLY <2>3, <3>1, <3>2, TokenPlaces
  <2>5. ASSUME NEW x \in P PROVE FALSE
    <3>1. x \in Int /\ 1 <= x /\ x <= 0
      BY <2>2, <2>4
    <3> QED BY ONLY <3>1
  <2>6. P = {}
    BY <2>5
  <2> QED BY <2>1, <2>6 DEF HasAddress, Has
<1>2. ASSUME g.server # << >> PROVE HasAddress(Info(g)) /\ Address(Info(g)) = g.server
  BY <1>2, ReportLies, Addressed
<1> QED BY <1>1, <1>2

(* Every action keeps the inductive invariant, whatever the file is.       *)
LEMMA Kept == IInv /\ [Next]_vars => IInv'
<1> SUFFICES ASSUME IInv, [Next]_vars PROVE IInv'
  OBVIOUS
<1>0. Named /\ Unmade /\ Made /\ Crashed
  BY DEF IInv
<1>1. ASSUME UploadFile PROVE IInv'
  <2>1. /\ pc = "upload" /\ HasName(Body) /\ name' = FileName(Body)
        /\ \/ name' = << >> /\ pc' = "end" /\ file' = file
           \/ name' # << >> /\ pc' = "fdfs" /\ file' \in Written(Body)
        /\ given' = given /\ id' = id /\ url' = url /\ row' = row /\ picture' = picture
    BY <1>1 DEF UploadFile, remote, shown
  <2>2. name' = given.name
    <3>1. PICK g, t : g = given /\ t = Body
      OBVIOUS
    <3>2. Possible(g)
      BY <1>0, <3>1, GivenAssumption DEF Named
    <3>3. t = SubSeq(Form(g), 1, Min({g.cut, Len(Form(g))})) /\ HasName(t)
      BY <2>1, <3>1 DEF Body
    <3>4. FileName(t) = g.name
      BY <3>2, <3>3, NameKept
    <3> QED BY <2>1, <3>1, <3>4
  <2>3. id = << >> /\ url = << >> /\ row = << >> /\ picture = << >>
    BY <1>0, <2>1 DEF Unmade
  <2>4. Body' = Body
    BY <2>1 DEF Body
  <2>5. Named'
    BY <1>0, <2>1, <2>2, <2>3 DEF Named
  <2>6. Unmade'
    BY <2>1, <2>3 DEF Unmade
  <2>7. Made'
    BY <2>1, <2>3, <2>4 DEF Made
  <2>8. Crashed'
    BY <2>1 DEF Crashed
  <2> QED BY <2>5, <2>6, <2>7, <2>8 DEF IInv
<1>2. ASSUME UploadFileCrashes PROVE IInv'
  <2>1. /\ pc = "upload" /\ ~ HasHeaders(Body) /\ pc' = "no_file"
        /\ given' = given /\ name' = name /\ id' = id /\ url' = url /\ row' = row
        /\ picture' = picture
    BY <1>2 DEF UploadFileCrashes, upload, remote, shown
  <2>2. id = << >> /\ url = << >> /\ row = << >> /\ picture = << >>
    BY <1>0, <2>1 DEF Unmade
  <2>3. Body' = Body
    BY <2>1 DEF Body
  <2>4. Named'
    BY <1>0, <2>1 DEF Named
  <2>5. Unmade' /\ Made' /\ Crashed'
    BY <2>1, <2>2, <2>3 DEF Unmade, Made, Crashed
  <2> QED BY <2>4, <2>5 DEF IInv
<1>3. ASSUME FdfsClient PROVE IInv'
  <2>1. /\ pc = "fdfs" /\ id' = TrimSpace(given.printed) /\ pc' = "url"
        /\ given' = given /\ name' = name /\ file' = file /\ url' = url /\ row' = row
        /\ picture' = picture
    BY <1>3 DEF FdfsClient, upload, shown
  <2>2. url = << >> /\ row = << >> /\ picture = << >>
    BY <1>0, <2>1 DEF Unmade
  <2>3. Body' = Body /\ file \in Written(Body)
    BY <1>0, <2>1 DEF Body, Made
  <2>4. Named'
    BY <1>0, <2>1, <2>2 DEF Named
  <2>5. Unmade' /\ Made' /\ Crashed'
    BY <2>1, <2>2, <2>3 DEF Unmade, Made, Crashed
  <2> QED BY <2>4, <2>5 DEF IInv
<1>4. ASSUME GetUrl PROVE IInv'
  <2>1. /\ pc = "url" /\ pc' = "listed"
        /\ \/ url' = url
           \/ HasAddress(Info(given)) /\ url' = UrlOf(Address(Info(given)), id)
        /\ given' = given /\ name' = name /\ file' = file /\ id' = id /\ row' = row
        /\ picture' = picture
    BY <1>4 DEF GetUrl, upload, shown
  <2>2. /\ id = TrimSpace(given.printed) /\ url = << >> /\ row = << >> /\ picture = << >>
    BY <1>0, <2>1 DEF Unmade
  <2>3. Body' = Body /\ file \in Written(Body)
    BY <1>0, <2>1 DEF Body, Made
  <2>4. Named'
    BY <1>0, <2>1, <2>2 DEF Named
  <2>5. Unmade' /\ Made' /\ Crashed'
    BY <2>1, <2>2, <2>3 DEF Unmade, Made, Crashed
  <2> QED BY <2>4, <2>5 DEF IInv
<1>5. ASSUME GetUrlCrashes PROVE IInv'
  <2>1. /\ pc = "url" /\ pc' = "no_url" /\ ~ HasAddress(Info(given))
        /\ given' = given /\ name' = name /\ file' = file /\ id' = id /\ url' = url
        /\ row' = row /\ picture' = picture
    BY <1>5 DEF GetUrlCrashes, upload, remote, shown
  <2>2. row = << >> /\ picture = << >>
    BY <1>0, <2>1 DEF Unmade
  <2>3. Body' = Body /\ file \in Written(Body)
    BY <1>0, <2>1 DEF Body, Made
  <2>4. Named'
    BY <1>0, <2>1 DEF Named
  <2>5. Unmade' /\ Made' /\ Crashed'
    BY <2>1, <2>2, <2>3 DEF Unmade, Made, Crashed
  <2> QED BY <2>4, <2>5 DEF IInv
<1>6. ASSUME ReadRow PROVE IInv'
  <2>1. /\ pc = "listed" /\ pc' = "shown"
        /\ row' = [n \in Columns |-> Get(Element, n)]
        /\ picture' = <<GetIpUrl(row'[2]), GetFileSuffix(row'[3])>>
        /\ given' = given /\ name' = name /\ file' = file /\ id' = id /\ url' = url
    BY <1>6 DEF ReadRow, upload, remote
  <2>2. Element' = Element
    BY <2>1 DEF Element, Record
  <2>3. Body' = Body /\ file \in Written(Body)
    BY <1>0, <2>1 DEF Body, Made
  <2>4. Named'
    BY <1>0, <2>1 DEF Named
  <2>5. Unmade' /\ Crashed'
    BY <2>1 DEF Unmade, Crashed
  <2>6. Made'
    BY <2>1, <2>2, <2>3 DEF Made
  <2> QED BY <2>4, <2>5, <2>6 DEF IInv
<1>7. ASSUME ReadRowCrashes PROVE IInv'
  <2>1. /\ pc = "listed" /\ pc' = "no_row" /\ Crashes(Element)
        /\ given' = given /\ name' = name /\ file' = file /\ id' = id /\ url' = url
        /\ row' = row /\ picture' = picture
    BY <1>7 DEF ReadRowCrashes, Survives, upload, remote, shown
  <2>2. row = << >> /\ picture = << >>
    BY <1>0, <2>1 DEF Unmade
  <2>3. Body' = Body /\ file \in Written(Body)
    BY <1>0, <2>1 DEF Body, Made
  <2>4. Element' = Element
    BY <2>1 DEF Element, Record
  <2>5. Named'
    BY <1>0, <2>1 DEF Named
  <2>6. Unmade' /\ Made' /\ Crashed'
    BY <2>1, <2>2, <2>3, <2>4 DEF Unmade, Made, Crashed
  <2> QED BY <2>5, <2>6 DEF IInv
<1>8. ASSUME \/ pc = "shown" /\ pc' = "clicked"
             \/ pc = "clicked" /\ pc' \in {"counted", "ignored"},
             UNCHANGED <<given, name, file, id, url, row, picture>>
      PROVE  IInv'
  <2>1. Body' = Body /\ Element' = Element
    BY <1>8 DEF Body, Element, Record
  <2>2. Named'
    BY <1>0, <1>8 DEF Named
  <2>3. Unmade' /\ Crashed'
    BY <1>8 DEF Unmade, Crashed
  <2>4. Made'
    BY <1>0, <1>8, <2>1 DEF Made
  <2> QED BY <2>2, <2>3, <2>4 DEF IInv
<1>9. ASSUME Click PROVE IInv'
  BY <1>8, <1>9 DEF Click, upload, remote, shown
<1>10. ASSUME Increase PROVE IInv'
  BY <1>8, <1>10 DEF Increase, upload, remote, shown
<1>11. ASSUME UNCHANGED vars PROVE IInv'
  <2>1. UNCHANGED <<given, pc, name, file, id, url, row, picture>>
    BY <1>11 DEF vars, upload, remote, shown
  <2>2. Body' = Body /\ Element' = Element
    BY <2>1 DEF Body, Element, Record
  <2> QED BY <1>0, <2>1, <2>2 DEF IInv, Named, Unmade, Made, Crashed
<1> QED BY <1>1, <1>2, <1>3, <1>4, <1>5, <1>6, <1>7, <1>9, <1>10, <1>11 DEF Next

(* It holds in every state.                                                *)
LEMMA Always == Spec => []IInv
<1>1. Init => IInv
  BY DEF Init, IInv, Named, Unmade, Made, Crashed
<1>2. IInv /\ [Next]_vars => IInv'
  BY Kept
<1> QED BY <1>1, <1>2, PTL DEF Spec
-----------------------------------------------------------------------------
(* What is stored is the client's file, whole or as far as two bytes       *)
(* before its first nine dashes; where the upload broke off before its     *)
(* boundary it may be short or go on with what stood in memory, but has    *)
(* nothing wrong in what came: for every form, every place it breaks off   *)
(* at and whatever is in memory (upload_file, usefull.c 85-149).           *)
THEOREM StoredAsSent == Spec => []StoredIsSent
<1>1. ASSUME IInv, pc \notin {"upload", "no_file", "end"}, ~ WholeOrCut(file, given.bytes)
      PROVE  /\ given.cut < BoundaryAt(given)
             /\ \A i \in DOMAIN file \cap DOMAIN given.bytes :
                   FileBegins(given) + i <= given.cut => file[i] = given.bytes[i]
  <2>1. PICK g, t, f, k : g = given /\ t = Body /\ f = file /\ k = given.cut
    OBVIOUS
  <2>2. /\ Possible(g) /\ f \in Written(t)
        /\ t = SubSeq(Form(g), 1, Min({g.cut, Len(Form(g))}))
    BY <1>1, <2>1, GivenAssumption DEF IInv, Named, Made, Body
  <2>3. PICK s, x, y, n, b : /\ s = Form(g) /\ x = g.name /\ y = g.bytes
                             /\ n = Len(x) /\ b = Len(y)
    OBVIOUS
  <2>4. FormAt(s, x, y, n, b)
    BY <2>2, <2>3, FormLies
  <2>5. y \in Seq(Letters) /\ \A i \in 1 .. n : x[i] # "CR"
    BY <2>2, <2>3, GivenTexts
  <2>6. PICK c : Part(t, s, c) /\ (c = k \/ c = Len(s))
    BY <2>1, <2>2, <2>3, BodyOf
  <2>7. n \in Nat /\ b \in Nat /\ c \in Nat /\ Len(s) = n + b + 20
    BY <2>4, <2>6 DEF FormAt, Part
  <2>8. ~ WholeOrCut(f, y)
    BY <1>1, <2>1, <2>3
  <2>9. ~ HasHeaders(t) \/ ~ Has(Rest(t), <<Dashes>>)
    <3>1. ASSUME HasHeaders(t), Has(Rest(t), <<Dashes>>) PROVE FALSE
      <4>1. f = SubSeq(Rest(t), 1, FileLength(t))
        BY <2>2, <3>1 DEF Written
      <4>2. WholeOrCut(f, y)
        BY ONLY <2>4, <2>5, <2>6, <3>1, <4>1, Stored
      <4> QED BY <2>8, <4>2
    <3> QED BY <3>1
  <2>10. ~ (c >= n + b + 17)
    <3>1. ASSUME c >= n + b + 17 PROVE FALSE
      <4>1. c >= n + 14
        BY ONLY <2>7, <3>1
      <4>2. HasHeaders(t)
        BY ONLY <2>4, <2>5, <2>6, <4>1, FourLines
      <4>3. Has(Rest(t), <<Dashes>>)
        BY ONLY <2>4, <2>5, <2>6, <3>1, BoundaryFound
      <4> QED BY <2>9, <4>2, <4>3
    <3> QED BY <3>1
  <2>11. c = k /\ k \in Nat /\ k < n + b + 17
    <3>1. c # n + b + 20
      BY ONLY <2>7, <2>10
    <3>2. c = k
      BY <2>6, <2>7, <3>1
    <3> QED BY ONLY <2>7, <2>10, <3>2
  <2>12. Agrees(f, y, k - (n + 14))
    <3>1. CASE ~ HasHeaders(t)
      <4>1. f = << >>
        BY <2>2, <3>1 DEF Written
      <4>2. DOMAIN f = {}
        BY <4>1
      <4> QED BY <4>2 DEF Agrees
    <3>2. CASE HasHeaders(t)
      <4>1. PICK memory \in Junk : f \in Prefixes(Rest(t) \o memory)
        BY <2>2, <2>9, <3>2 DEF Written
      <4>2. memory \in Seq(Letters)
        BY JunkAssumption, Spelled, Wider
      <4>3. Agrees(f, y, c - (n + 14))
        BY ONLY <2>4, <2>5, <2>6, <3>2, <4>1, <4>2, Padded
      <4> QED BY <2>11, <4>3
    <3> QED BY <3>1, <3>2
  <2>13. FileBegins(given) = 6 + n + 8 /\ BoundaryAt(given) = n + b + 20 - 3
    BY <2>1, <2>3, <2>7 DEF FileBegins, BoundaryAt
  <2>14. k < n + b + 20 - 3
    BY ONLY <2>7, <2>11
  <2>15. ASSUME NEW i \in DOMAIN f \cap DOMAIN y, 6 + n + 8 + i <= k PROVE f[i] = y[i]
    <3>1. i \in 1 .. b
      BY <2>3, <2>5
    <3>2. i <= k - (n + 14)
      BY ONLY <2>7, <2>11, <2>15, <3>1
    <3> QED BY <2>12, <3>2 DEF Agrees
  <2> QED BY <2>1, <2>3, <2>13, <2>14, <2>15
<1>2. IInv => StoredIsSent
  BY <1>1 DEF StoredIsSent, WholeOrCut
<1> QED BY <1>2, Always, PTL

\* Six elements of a set are a function into it.
LEMMA SixFields ==
    ASSUME NEW T, NEW a \in T, NEW b \in T, NEW c \in T, NEW d \in T, NEW e \in T, NEW f \in T
    PROVE  <<a, b, c, d, e, f>> \in [1 .. 6 -> T]
<1>1. PICK r : r = <<a, b, c, d, e, f>>
  OBVIOUS
<1>2. \A n \in 1 .. 6 : n = 1 \/ n = 2 \/ n = 3 \/ n = 4 \/ n = 5 \/ n = 6
  OBVIOUS
<1>3. /\ r[1] = a /\ r[2] = b /\ r[3] = c /\ r[4] = d /\ r[5] = e /\ r[6] = f
      /\ r = [n \in 1 .. 6 |-> r[n]]
  BY <1>1
<1>4. \A n \in 1 .. 6 : r[n] \in T
  BY <1>2, <1>3
<1> QED BY <1>1, <1>3, <1>4

\* The fields of a record are texts.
LEMMA RecordIsText ==
    ASSUME IInv
    PROVE  Record \in [Words -> Seq(Letters)] /\ Bar \in Letters
<1>1. PICK g, i, u, x, z : /\ g = given /\ i = id /\ u = url /\ x = name
                           /\ z = GetFileSuffix(name)
  OBVIOUS
<1>2. /\ Possible(g) /\ x \in {<< >>, g.name} /\ i \in {<< >>, TrimSpace(g.printed)}
      /\ u # << >> => HasAddress(Info(g)) /\ u = UrlOf(Address(Info(g)), i)
  BY <1>1, GivenAssumption DEF IInv, Named
<1>3. x \in Seq(Letters) /\ i \in Seq(Letters)
  <2>1. PICK r, w : r = g.printed /\ w = TrimSpace(r)
    OBVIOUS
  <2>2. r \in Seq(Letters) /\ g.name \in Seq(Letters)
    BY <1>2, <2>1, GivenTexts
  <2>3. w \in Seq(Letters)
    BY <2>1, <2>2, Trimmed
  <2>4. << >> \in Seq(Letters)
    OBVIOUS
  <2> QED BY <1>2, <2>1, <2>2, <2>3, <2>4
<1>4. u \in Seq(Letters)
  <2>1. CASE u = << >>
    BY <2>1
  <2>2. CASE u # << >>
    <3>1. PICK a : a = Address(Info(g)) /\ a = g.server
      BY <1>2, <2>2, ServerNamed
    <3>5. a \in Seq(Letters)
      BY <1>2, <3>1, GivenTexts
    <3>6. UrlOf(a, i) \in Seq(Letters)
      BY <1>3, <3>5, UrlIsText
    <3> QED BY <1>2, <2>2, <3>1, <3>6
  <2> QED BY <2>1, <2>2
<1>5. z \in Seq(Letters)
  BY <1>1, <1>3, SuffixIsText
<1>6. <<"time">> \in Seq(Letters) /\ <<"user">> \in Seq(Letters)
  BY Spelled
<1>7. Record = <<i, u, x, <<"time">>, <<"user">>, z>>
  BY <1>1 DEF Record
<1>8. <<i, u, x, <<"time">>, <<"user">>, z>> \in [1 .. 6 -> Seq(Letters)]
  BY <1>3, <1>4, <1>5, <1>6, SixFields
<1>9. Bar \in Letters
  BY Spelled
<1> QED BY <1>7, <1>8, <1>9 DEF Words

(* A worker ends over a text only for one of the known reasons, for every  *)
(* form, break, answer of the tools and name: a body that ends before the  *)
(* bytes of the file begin, an answer without an address, a record that is *)
(* not readable or not complete (usefull.c 90-134, 535-537; data_use.c     *)
(* 76-88).                                                                 *)
THEOREM CrashIsCaused == Spec => []CrashHasCause
<1>1. ASSUME IInv, pc = "no_file" PROVE given.cut < FileBegins(given)
  <2>1. PICK g, t : g = given /\ t = Body
    OBVIOUS
  <2>2. /\ Possible(g) /\ ~ HasHeaders(t)
        /\ t = SubSeq(Form(g), 1, Min({g.cut, Len(Form(g))}))
    BY <1>1, <2>1, GivenAssumption DEF IInv, Named, Crashed, Body
  <2>3. PICK s, x, y, n, b, k : /\ s = Form(g) /\ x = g.name /\ y = g.bytes
                                /\ n = Len(x) /\ b = Len(y) /\ k = g.cut
    OBVIOUS
  <2>4. FormAt(s, x, y, n, b)
    BY <2>2, <2>3, FormLies
  <2>5. \A i \in 1 .. n : x[i] # "CR"
    BY <2>2, <2>3, GivenTexts
  <2>6. PICK c : Part(t, s, c) /\ (c = k \/ c = Len(s))
    BY <2>2, <2>3, BodyOf
  <2>7. n \in Nat /\ b \in Nat /\ c \in Nat /\ Len(s) = n + b + 20
    BY <2>4, <2>6 DEF FormAt, Part
  <2>8. ~ (c >= n + 14)
    BY <2>2, <2>4, <2>5, <2>6, FourLines
  <2>9. c = k
    <3>1. c # n + b + 20
      BY ONLY <2>7, <2>8
    <3> QED BY <2>6, <2>7, <3>1
  <2>10. k < 6 + n + 8
    BY ONLY <2>7, <2>8, <2>9
  <2> QED BY <2>1, <2>3, <2>10 DEF FileBegins
<1>2. ASSUME IInv, pc = "no_url" PROVE given.server = << >>
  BY <1>2, GivenAssumption, ServerNamed DEF IInv, Named, Crashed
<1>3. ASSUME IInv, pc = "no_row" PROVE ~ (Readable(Record) /\ Complete(Record))
  <2>1. Crashes(Value(Record))
    BY <1>3 DEF IInv, Crashed, Element
  <2>2. PICK r : r = Record
    OBVIOUS
  <2>3. r \in [Words -> Seq(Letters)] /\ Bar \in Letters
    BY <1>3, <2>2, RecordIsText
  <2>4. ASSUME Readable(r), Complete(r) PROVE ~ Crashes(Value(r))
    BY <2>3, <2>4, ReaderSurvives
  <2> QED BY <2>1, <2>2, <2>4
<1>4. IInv => CrashHasCause
  BY <1>1, <1>2, <1>3 DEF CrashHasCause
<1> QED BY <1>4, Always, PTL

(* A row has the fields write_redis was given, whatever they are made of,  *)
(* when the record is readable and complete (get_value_by_redis,           *)
(* data_use.c 11-157).                                                     *)
THEOREM RowIsRecord == Spec => []ReadBack
<1>1. ASSUME IInv, row # << >>, Readable(Record), Complete(Record), NEW n \in Columns
      PROVE  row[n] = Record[n]
  <2>1. PICK r : r = Record
    OBVIOUS
  <2>2. r \in [Words -> Seq(Letters)] /\ Bar \in Letters
    BY <1>1, <2>1, RecordIsText
  <2>3. n \in Words /\ Readable(r) /\ Complete(r)
    BY <1>1, <2>1 DEF Columns
  <2>4. Get(Value(r), n) = r[n]
    BY ONLY <2>2, <2>3, RoundTrip
  <2>5. row[n] = Get(Value(r), n)
    BY <1>1, <2>1 DEF IInv, Made, Element
  <2> QED BY <2>1, <2>4, <2>5
<1>2. IInv => ReadBack
  BY <1>1 DEF ReadBack
<1> QED BY <1>2, Always, PTL

(* The picture of such a row is the one of the recorded type, on the       *)
(* server the storage tool named (data_use.c 246-257, usefull.c 318-322    *)
(* and 539-548).                                                           *)
THEOREM PictureIsOfRow == Spec => []PictureMatches
<1>1. ASSUME IInv, picture # << >>, Readable(Record), Complete(Record)
      PROVE  picture = <<<<"http://">> \o given.server, Record[6]>>
  <2>1. PICK r : r = Record
    OBVIOUS
  <2>2. r \in [Words -> Seq(Letters)] /\ Bar \in Letters
    BY <1>1, <2>1, RecordIsText
  <2>3. 2 \in Words /\ 3 \in Words /\ 2 \in Columns /\ 3 \in Columns
    BY DEF Words, Columns
  <2>4. Readable(r) /\ Complete(r)
    BY <1>1, <2>1
  <2>5. Get(Value(r), 2) = r[2] /\ Get(Value(r), 3) = r[3]
    BY ONLY <2>2, <2>3, <2>4, RoundTrip
  <2>6. row[2] = Get(Value(r), 2) /\ row[3] = Get(Value(r), 3)
    BY <1>1, <2>1, <2>3 DEF IInv, Made, Element
  <2>7. r[2] = url /\ r[3] = name /\ r[6] = GetFileSuffix(name)
    BY <2>1 DEF Record
  <2>8. picture = <<GetIpUrl(url), GetFileSuffix(name)>>
    BY <1>1, <2>5, <2>6, <2>7 DEF IInv, Made
  <2>9. url # << >>
    <3>1. r[2] # << >>
      BY <2>4 DEF Complete
    <3> QED BY <2>7, <3>1
  <2>10. PICK g, i, u : g = given /\ i = id /\ u = url
    OBVIOUS
  <2>11. /\ Possible(g) /\ HasAddress(Info(g)) /\ i = TrimSpace(g.printed)
         /\ u = UrlOf(Address(Info(g)), i)
    BY <1>1, <2>9, <2>10, GivenAssumption DEF IInv, Named
  <2>12. PICK p, a : p = g.printed /\ a = g.server
    OBVIOUS
  <2>13. p \in Seq(Letters) /\ a \in Seq(Letters)
    BY <2>11, <2>12, GivenTexts
  <2>14. p # << >> /\ p[1] = "group"
    BY <2>11, <2>12, ServerNamed DEF Possible
  <2>15. \A k \in 1 .. Len(a) : a[k] # "/"
    <3>1. DOMAIN a = 1 .. Len(a)
      BY <2>13
    <3> QED BY <2>11, <2>12, <3>1 DEF Possible
  <2>16. i \in Seq(Letters) /\ Len(i) >= 1 /\ i[1] = "group"
    <3>1. i = TrimSpace(p) /\ p[1] \notin {"SP", "CR", "LF"}
      BY <2>11, <2>12, <2>14
    <3> QED BY <2>13, <2>14, <3>1, Trimmed
  <2>17. u = UrlOf(a, i)
    BY <2>11, <2>12, ServerNamed
  <2>18. GetIpUrl(u) = <<"http://">> \o a
    BY ONLY <2>13, <2>15, <2>16, <2>17, ServerFound
  <2> QED BY <2>1, <2>7, <2>8, <2>10, <2>12, <2>18
<1>2. IInv => PictureMatches
  BY <1>1 DEF PictureMatches
<1> QED BY <1>2, Always, PTL
-----------------------------------------------------------------------------
(* Texts put together piece by piece: the escaped id of a click, and what  *)
(* str_replace makes of it again.                                          *)

(* Induction up to N, over the set of numbers that are known to do.        *)
LEMMA Climb ==
    ASSUME NEW N, N \in Nat, NEW P, 0 \in P,
           \A n \in Nat : n \in P /\ n < N => n + 1 \in P
    PROVE  \A n \in 0 .. N : n \in P
<1>1. PICK Q : Q = {n \in 0 .. N : n \notin P}
  OBVIOUS
<1>2. ASSUME Q # {} PROVE FALSE
  <2>1. Q \subseteq Nat
    BY <1>1
  <2>2. PICK m : m \in Q /\ \A x \in Q : m <= x
    BY <1>2, <2>1, LeastOf
  <2>3. m \in 0 .. N /\ m \notin P /\ m # 0
    BY <1>1, <2>2
  <2>4. PICK k : k = m - 1 /\ k \in 0 .. N /\ k \in Nat /\ k < N /\ k + 1 = m /\ ~ (m <= k)
    BY ONLY <2>3, N \in Nat
  <2>5. k \in P
    BY <1>1, <2>2, <2>4
  <2> QED BY <2>3, <2>4, <2>5
<1> QED BY <1>1, <1>2

\* f joins the first m parts of q, one after another.
Joins(f, q, m) == f = [i \in 1 .. m |-> IF i = 1 THEN q[i] ELSE f[i - 1] \o q[i]]

\* A text joined so far goes on with the next part.
LEMMA JoinsMore ==
    ASSUME NEW q, NEW m, m \in Nat, NEW f, Joins(f, q, m)
    PROVE  \E g : Joins(g, q, m + 1)
<1>1. PICK g : g = [i \in 1 .. m + 1 |-> IF i <= m THEN f[i]
                                         ELSE IF i = 1 THEN q[i] ELSE f[i - 1] \o q[i]]
  OBVIOUS
<1>2. \A i \in 1 .. m : g[i] = f[i]
  <2>1. \A i \in 1 .. m : i \in 1 .. m + 1 /\ i <= m
    BY ONLY m \in Nat
  <2> QED BY <1>1, <2>1
<1>3. ASSUME NEW i \in 1 .. m + 1
      PROVE  g[i] = IF i = 1 THEN q[i] ELSE g[i - 1] \o q[i]
  <2>1. i \in 1 .. m \/ (i = m + 1 /\ ~ (i <= m))
    BY ONLY m \in Nat, <1>3
  <2>2. i # 1 => i - 1 \in 1 .. m
    BY ONLY m \in Nat, <1>3
  <2>3. CASE i \in 1 .. m
    <3>1. f[i] = IF i = 1 THEN q[i] ELSE f[i - 1] \o q[i]
      BY <2>3 DEF Joins
    <3>2. i # 1 => g[i - 1] = f[i - 1]
      BY <1>2, <2>2
    <3> QED BY <1>2, <2>3, <3>1, <3>2
  <2>4. CASE i = m + 1 /\ ~ (i <= m)
    <3>1. g[i] = IF i = 1 THEN q[i] ELSE f[i - 1] \o q[i]
      BY <1>1, <1>3, <2>4
    <3>2. i # 1 => g[i - 1] = f[i - 1]
      BY <1>2, <2>2
    <3> QED BY <3>1, <3>2
  <2> QED BY <2>1, <2>3, <2>4
<1>4. g = [i \in 1 .. m + 1 |-> g[i]]
  BY <1>1
<1>5. g = [i \in 1 .. m + 1 |-> IF i = 1 THEN q[i] ELSE g[i - 1] \o q[i]]
  BY <1>3, <1>4
<1> QED BY <1>5 DEF Joins

\* There is such a join for every number of parts.
LEMMA JoinsExist ==
    ASSUME NEW q, NEW n, n \in Nat
    PROVE  \E f : Joins(f, q, n)
<1>1. PICK P : P = {m \in Nat : \E f : Joins(f, q, m)}
  OBVIOUS
<1>2. 0 \in P
  <2>1. PICK f : f = [i \in 1 .. 0 |-> q[i]]
    OBVIOUS
  <2>2. \A i \in 1 .. 0 : FALSE
    OBVIOUS
  <2>3. f = [i \in 1 .. 0 |-> IF i = 1 THEN q[i] ELSE f[i - 1] \o q[i]]
    BY <2>1, <2>2
  <2> QED BY <1>1, <2>3 DEF Joins
<1>3. \A m \in Nat : m \in P /\ m < n => m + 1 \in P
  BY <1>1, JoinsMore
<1>4. \A m \in 0 .. n : m \in P
  BY <1>2, <1>3, Climb
<1>5. n \in 0 .. n
  OBVIOUS
<1> QED BY <1>1, <1>4, <1>5

\* h[i] is what the first i of the n parts make.
Parts(A, h, q, n) ==
    /\ h \in [0 .. n -> Seq(A)]
    /\ h[0] = << >>
    /\ \A i \in 1 .. n : h[i] = h[i - 1] \o q[i]
    /\ FlattenSeq(q) = h[n]

\* What FlattenSeq joins.
LEMMA Flattened ==
    ASSUME NEW A, NEW q, q \in Seq(Seq(A)), NEW n, n = Len(q)
    PROVE  \E h : Parts(A, h, q, n)
<1>0. n \in Nat /\ \A i \in 1 .. n : q[i] \in Seq(A)
  OBVIOUS
<1>1. PICK f : Joins(f, q, n) /\ (n # 0 => FlattenSeq(q) = f[n])
  <2>1. \E f : Joins(f, q, n)
    BY <1>0, JoinsExist
  <2>2. \E f : f = [i \in 1 .. n |-> IF i = 1 THEN q[i] ELSE f[i - 1] \o q[i]]
    BY <2>1 DEF Joins
  <2> QED BY <2>2 DEF FlattenSeq, Joins
<1>2. PICK h : h = [i \in 0 .. n |-> IF i = 0 THEN << >> ELSE f[i]]
  OBVIOUS
<1>3. h[0] = << >> /\ \A i \in 1 .. n : h[i] = f[i]
  <2>1. 0 \in 0 .. n /\ \A i \in 1 .. n : i \in 0 .. n /\ i # 0
    BY ONLY <1>0
  <2> QED BY <1>2, <2>1
<1>4. \A i \in 1 .. n : f[i] = IF i = 1 THEN q[i] ELSE f[i - 1] \o q[i]
  BY <1>1 DEF Joins
<1>5. \A i \in 1 .. n : h[i] = h[i - 1] \o q[i]
  <2> TAKE i \in 1 .. n
  <2>1. CASE i = 1
    <3>1. h[i] = q[i] /\ i - 1 = 0
      BY <1>3, <1>4, <2>1
    <3>2. << >> \o q[i] = q[i]
      BY <1>0
    <3> QED BY <1>3, <3>1, <3>2
  <2>2. CASE i # 1
    <3>1. i - 1 \in 1 .. n
      BY ONLY <1>0, <2>2, i \in 1 .. n
    <3> QED BY <1>3, <1>4, <2>2, <3>1
  <2> QED BY <2>1, <2>2
<1>6. \A i \in 0 .. n : h[i] \in Seq(A)
  <2>1. PICK P : P = {i \in 0 .. n : h[i] \in Seq(A)}
    OBVIOUS
  <2>2. 0 \in P
    <3>1. 0 \in 0 .. n
      BY ONLY <1>0
    <3>2. h[0] \in Seq(A)
      BY <1>3
    <3> QED BY <2>1, <3>1, <3>2
  <2>3. ASSUME NEW i \in Nat, i \in P, i < n PROVE i + 1 \in P
    <3>1. i + 1 \in 1 .. n /\ i + 1 \in 0 .. n /\ (i + 1) - 1 = i
      BY ONLY <1>0, <2>3
    <3>2. h[i + 1] = h[i] \o q[i + 1]
      BY <1>5, <3>1
    <3>3. h[i] \in Seq(A) /\ q[i + 1] \in Seq(A)
      BY <1>0, <2>1, <2>3, <3>1
    <3>4. h[i] \o q[i + 1] \in Seq(A)
      BY ONLY <3>3
    <3> QED BY <2>1, <3>1, <3>2, <3>4
  <2>4. \A i \in 0 .. n : i \in P
    BY <1>0, <2>2, <2>3, Climb
  <2> QED BY <2>1, <2>4
<1>7. h \in [0 .. n -> Seq(A)]
  BY <1>2, <1>6
<1>8. FlattenSeq(q) = h[n]
  <2>1. CASE n = 0
    <3>1. Len(q) = 0 /\ q = << >>
      BY <2>1, EmptySeq
    <3>2. FlattenSeq(q) = q
      BY <3>1 DEF FlattenSeq
    <3> QED BY <1>3, <2>1, <3>1, <3>2
  <2>2. CASE n # 0
    <3>1. n \in 1 .. n
      BY ONLY <1>0, <2>2
    <3> QED BY <1>1, <1>3, <2>2, <3>1
  <2> QED BY <2>1, <2>2
<1> QED BY <1>3, <1>5, <1>7, <1>8 DEF Parts

\* Character i of s in its escaped form e, where the ones before it end at g[i - 1].
Block(e, s, g, i) ==
    \/ /\ s[i] = "/" /\ g[i] = g[i - 1] + 3
       /\ e[g[i - 1] + 1] = "%" /\ e[g[i - 1] + 2] = "2" /\ e[g[i - 1] + 3] = "F"
    \/ s[i] # "/" /\ g[i] = g[i - 1] + 1 /\ e[g[i - 1] + 1] = s[i]

\* e is the escaped form of s, and g says where each character ends in it.
EscapedAt(A, e, s, n, g) ==
    /\ n \in Nat /\ n = Len(s) /\ s \in Seq(A) /\ e \in Seq(A)
    /\ g \in [0 .. n -> Nat] /\ g[0] = 0 /\ Len(e) = g[n]
    /\ \A i \in 1 .. n : Block(e, s, g, i)

\* A text of one character, and the escaped slash.
LEMMA FewTokens ==
    ASSUME NEW A, {"%", "2", "F", "/"} \subseteq A, NEW a, a \in A
    PROVE  /\ <<"%", "2", "F">> \in Seq(A) /\ <<a>> \in Seq(A) /\ <<"/">> \in Seq(A)
           /\ Len(<<"%", "2", "F">>) = 3 /\ Len(<<a>>) = 1
OBVIOUS

\* What stands in a text stays there when more is put behind it.
LEMMA BlockStays ==
    ASSUME NEW A, NEW u, u \in Seq(A), NEW d, d \in Seq(A), NEW v, v = u \o d,
           NEW s, NEW g, NEW i, Block(u, s, g, i), g[i - 1] \in Nat, g[i] <= Len(u)
    PROVE  Block(v, s, g, i)
<1>1. PICK b, c, l : b = g[i - 1] /\ c = g[i] /\ l = Len(u) /\ b \in Nat /\ c <= l /\ l \in Nat
  <2>1. Len(u) \in Nat
    OBVIOUS
  <2> QED BY <2>1
<1>2. \A x \in 1 .. l : v[x] = u[x]
  BY <1>1, Appended
<1>3. ASSUME c = b + 3 PROVE b + 1 \in 1 .. l /\ b + 2 \in 1 .. l /\ b + 3 \in 1 .. l
  BY ONLY <1>1, <1>3
<1>4. ASSUME c = b + 1 PROVE b + 1 \in 1 .. l
  BY ONLY <1>1, <1>4
<1>5. \/ /\ s[i] = "/" /\ c = b + 3
         /\ u[b + 1] = "%" /\ u[b + 2] = "2" /\ u[b + 3] = "F"
      \/ s[i] # "/" /\ c = b + 1 /\ u[b + 1] = s[i]
  BY <1>1 DEF Block
<1>6. \/ /\ s[i] = "/" /\ c = b + 3
         /\ v[b + 1] = "%" /\ v[b + 2] = "2" /\ v[b + 3] = "F"
      \/ s[i] # "/" /\ c = b + 1 /\ v[b + 1] = s[i]
  BY <1>2, <1>3, <1>4, <1>5
<1> QED BY <1>1, <1>6 DEF Block

\* The character that is put behind a text makes its block.
LEMMA BlockAdded ==
    ASSUME NEW A, {"%", "2", "F", "/"} \subseteq A, NEW u, u \in Seq(A),
           NEW s, NEW g, NEW i, s[i] \in A,
           NEW d, d = IF s[i] = "/" THEN <<"%", "2", "F">> ELSE <<s[i]>>,
           NEW v, v = u \o d, g[i - 1] = Len(u), g[i] = Len(v)
    PROVE  Block(v, s, g, i)
<1>1. PICK l : l = Len(u) /\ l \in Nat
  <2>1. Len(u) \in Nat
    OBVIOUS
  <2> QED BY <2>1
<1>2. d \in Seq(A)
  BY FewTokens
<1>3. Len(v) = l + Len(d) /\ \A x \in 1 .. Len(d) : v[l + x] = d[x]
  BY <1>1, <1>2, Appended
<1>4. CASE s[i] = "/"
  <2>1. Len(d) = 3 /\ d[1] = "%" /\ d[2] = "2" /\ d[3] = "F"
    BY <1>4
  <2>2. 1 \in 1 .. 3 /\ 2 \in 1 .. 3 /\ 3 \in 1 .. 3
    OBVIOUS
  <2> QED BY <1>1, <1>3, <1>4, <2>1, <2>2 DEF Block
<1>5. CASE s[i] # "/"
  <2>1. Len(d) = 1 /\ d[1] = s[i]
    BY <1>5
  <2>2. 1 \in 1 .. 1
    OBVIOUS
  <2> QED BY <1>1, <1>3, <1>5, <2>1, <2>2 DEF Block
<1> QED BY <1>4, <1>5

(* The escaped form of an id is its characters one after another, each     *)
(* slash as three tokens.                                                  *)
LEMMA EscapedLies ==
    ASSUME NEW A, {"%", "2", "F", "/"} \subseteq A, NEW s, s \in Seq(A)
    PROVE  \E g : EscapedAt(A, Escaped(s), s, Len(s), g)
<1>1. PICK n : n = Len(s) /\ n \in Nat /\ DOMAIN s = 1 .. n
  <2>1. Len(s) \in Nat /\ DOMAIN s = 1 .. Len(s)
    OBVIOUS
  <2> QED BY <2>1
<1>2. PICK q : q = [i \in 1 .. n |-> IF s[i] = "/" THEN <<"%", "2", "F">> ELSE <<s[i]>>]
  OBVIOUS
<1>3. \A i \in 1 .. n : /\ s[i] \in A /\ q[i] \in Seq(A)
                        /\ q[i] = IF s[i] = "/" THEN <<"%", "2", "F">> ELSE <<s[i]>>
  <2> TAKE i \in 1 .. n
  <2>1. s[i] \in A
    BY <1>1
  <2>2. q[i] = IF s[i] = "/" THEN <<"%", "2", "F">> ELSE <<s[i]>>
    BY <1>2
  <2> QED BY <2>1, <2>2, FewTokens
<1>4. q \in Seq(Seq(A)) /\ Len(q) = n
  <2>1. q \in [1 .. n -> Seq(A)]
    BY <1>2, <1>3
  <2> QED BY <1>1, <2>1
<1>5. PICK h : Parts(A, h, q, n)
  <2>1. PICK h : Parts(A, h, q, Len(q))
    BY ONLY <1>4, Flattened
  <2> QED BY <1>4, <2>1
<1>6. PICK e : e = h[n] /\ e = Escaped(s)
  BY <1>1, <1>2, <1>5 DEF Escaped, Parts
<1>7. PICK g : g = [i \in 0 .. n |-> Len(h[i])]
  OBVIOUS
<1>8. /\ g \in [0 .. n -> Nat] /\ g[0] = 0
      /\ \A i \in 0 .. n : g[i] = Len(h[i]) /\ h[i] \in Seq(A) /\ g[i] \in Nat
  <2>1. 0 \in 0 .. n
    BY ONLY <1>1
  <2>2. \A i \in 0 .. n : h[i] \in Seq(A) /\ Len(h[i]) \in Nat
    BY <1>5 DEF Parts
  <2>3. Len(h[0]) = 0
    BY <1>5, EmptySeq DEF Parts
  <2> QED BY <1>7, <2>1, <2>2, <2>3
<1>9. PICK P : P = {j \in 0 .. n : \A i \in 1 .. j : g[i] <= g[j] /\ Block(h[j], s, g, i)}
  OBVIOUS
<1>10. 0 \in P
  <2>1. 0 \in 0 .. n /\ \A i \in 1 .. 0 : FALSE
    BY ONLY <1>1
  <2> QED BY <1>9, <2>1
<1>11. ASSUME NEW j \in Nat, j \in P, j < n PROVE j + 1 \in P
  <2>1. PICK k : k = j + 1 /\ k \in 1 .. n /\ k \in 0 .. n /\ k - 1 = j /\ j \in 0 .. n
    BY ONLY <1>1, <1>11
  <2>2. PICK u, d, v : u = h[j] /\ d = q[k] /\ v = h[k] /\ v = u \o d
    BY <1>5, <2>1 DEF Parts
  <2>3. u \in Seq(A) /\ d \in Seq(A) /\ v \in Seq(A) /\ g[j] = Len(u) /\ g[k] = Len(v)
    BY <1>3, <1>8, <2>1, <2>2
  <2>4. g[j] \in Nat /\ g[k] \in Nat /\ g[j] <= g[k]
    <3>1. Len(v) = Len(u) + Len(d) /\ Len(d) \in Nat /\ Len(u) \in Nat
      BY <2>2, <2>3
    <3>2. PICK x, y, z : x = Len(u) /\ y = Len(d) /\ z = Len(v) /\ x \in Nat /\ y \in Nat /\ z = x + y
      BY <3>1
    <3>3. z \in Nat /\ x <= z
      BY ONLY <3>2
    <3> QED BY <2>3, <3>2, <3>3
  <2>5. ASSUME NEW i \in 1 .. k PROVE g[i] <= g[k] /\ Block(v, s, g, i)
    <3>1. CASE i = k
      <4>1. d = IF s[k] = "/" THEN <<"%", "2", "F">> ELSE <<s[k]>>
        BY <1>3, <2>1, <2>2
      <4>2. s[k] \in A /\ g[k - 1] = Len(u) /\ g[k] = Len(v)
        BY <1>3, <2>1, <2>3
      <4>3. Block(v, s, g, k)
        BY <2>2, <2>3, <4>1, <4>2, BlockAdded
      <4> QED BY <2>4, <3>1, <4>3
    <3>2. CASE i # k
      <4>1. i \in 1 .. j /\ i - 1 \in 0 .. n /\ i \in 0 .. n
        BY ONLY <1>1, <2>1, <2>5, <3>2, j \in Nat
      <4>2. g[i] <= g[j] /\ Block(u, s, g, i) /\ g[i - 1] \in Nat /\ g[i] \in Nat
        BY <1>8, <1>9, <1>11, <2>2, <4>1
      <4>3. Block(v, s, g, i)
        <5>1. g[i] <= Len(u)
          BY <2>3, <4>2
        <5> QED BY <2>2, <2>3, <4>2, <5>1, BlockStays
      <4>4. PICK a, b, c : a = g[i] /\ b = g[j] /\ c = g[k] /\ a \in Nat /\ b \in Nat /\ c \in Nat
                           /\ a <= b /\ b <= c
        BY <2>4, <4>2
      <4>5. a <= c
        BY ONLY <4>4
      <4> QED BY <4>3, <4>4, <4>5
    <3> QED BY <3>1, <3>2
  <2> QED BY <1>9, <2>1, <2>2, <2>5
<1>12. n \in P
  <2>1. \A j \in 0 .. n : j \in P
    BY <1>1, <1>10, <1>11, Climb
  <2>2. n \in 0 .. n
    BY ONLY <1>1
  <2> QED BY <2>1, <2>2
<1>13. e \in Seq(A) /\ Len(e) = g[n] /\ \A i \in 1 .. n : Block(e, s, g, i)
  <2>1. n \in 0 .. n
    BY ONLY <1>1
  <2> QED BY <1>6, <1>8, <1>9, <1>12, <2>1
<1>14. EscapedAt(A, e, s, n, g)
  BY <1>1, <1>8, <1>13 DEF EscapedAt
<1> QED BY <1>1, <1>6, <1>14

\* The blocks stand one after another, and each has at least one token.
LEMMA BlocksInOrder ==
    ASSUME NEW A, NEW e, NEW s, NEW n, NEW g, EscapedAt(A, e, s, n, g),
           NEW j, j \in 0 .. n, NEW i, i \in 0 .. j
    PROVE  g[i] + (j - i) <= g[j]
<1>1. n \in Nat /\ \A k \in 0 .. n : g[k] \in Nat
  BY DEF EscapedAt
<1>2. i \in Nat /\ j \in Nat /\ i <= j /\ j <= n
  BY ONLY <1>1, j \in 0 .. n, i \in 0 .. j
<1>3. PICK P : P = {k \in Nat : i + k <= n => g[i] + k <= g[i + k]}
  OBVIOUS
<1>4. 0 \in P
  <2>1. i + 0 = i /\ i \in 0 .. n
    BY ONLY <1>1, <1>2
  <2>2. PICK a : a = g[i] /\ a \in Nat
    BY <1>1, <2>1
  <2>3. a + 0 <= a /\ 0 \in Nat
    BY ONLY <2>2
  <2> QED BY <1>3, <2>1, <2>2, <2>3
<1>5. ASSUME NEW k \in Nat, k \in P, k < n PROVE k + 1 \in P
  <2>1. ASSUME i + (k + 1) <= n PROVE g[i] + (k + 1) <= g[i + (k + 1)]
    <3>1. PICK x, y : /\ x = i + k /\ y = i + (k + 1) /\ y - 1 = x /\ x <= n
                      /\ y \in 1 .. n /\ x \in 0 .. n /\ y \in 0 .. n /\ i \in 0 .. n
      <4>1. i + (k + 1) - 1 = i + k /\ i + k <= n /\ i + (k + 1) \in 1 .. n
            /\ i + k \in 0 .. n /\ i + (k + 1) \in 0 .. n /\ i \in 0 .. n
        BY ONLY <1>1, <1>2, <2>1, k \in Nat
      <4> QED BY <4>1
    <3>2. Block(e, s, g, y)
      BY <3>1 DEF EscapedAt
    <3>3. PICK a, b, c : /\ a = g[i] /\ b = g[x] /\ c = g[y] /\ a \in Nat /\ b \in Nat
                         /\ c \in Nat /\ a + k <= b /\ (c = b + 3 \/ c = b + 1)
      BY <1>1, <1>3, <1>5, <3>1, <3>2 DEF Block
    <3>4. a + (k + 1) <= c
      BY ONLY <3>3, k \in Nat
    <3> QED BY <3>1, <3>3, <3>4
  <2>2. k + 1 \in Nat
    OBVIOUS
  <2> QED BY <1>3, <2>1, <2>2
<1>6. PICK k : k = j - i /\ k \in 0 .. n /\ i + k = j
  BY ONLY <1>1, <1>2
<1>7. \A x \in 0 .. n : x \in P
  BY <1>1, <1>4, <1>5, Climb
<1> QED BY <1>2, <1>3, <1>6, <1>7

\* Place x of an escaped text e belongs to character i.
TokenOf(e, s, g, i, x) ==
    \/ s[i] # "/" /\ x = g[i - 1] + 1 /\ e[x] = s[i]
    \/ /\ s[i] = "/"
       /\ \/ x = g[i - 1] + 1 /\ e[x] = "%"
          \/ x = g[i - 1] + 2 /\ e[x] = "2"
          \/ x = g[i - 1] + 3 /\ e[x] = "F"

\* Every token of an escaped text comes from a character.
LEMMA EscapedToken ==
    ASSUME NEW A, NEW e, NEW s, NEW n, NEW g, EscapedAt(A, e, s, n, g),
           NEW x, x \in 1 .. Len(e)
    PROVE  \E i \in 1 .. n : TokenOf(e, s, g, i, x)
<1>1. n \in Nat /\ (\A k \in 0 .. n : g[k] \in Nat) /\ g[0] = 0 /\ x \in 1 .. g[n]
  BY DEF EscapedAt
<1>2. PICK I : I = {k \in 0 .. n : x <= g[k]}
  OBVIOUS
<1>3. I \subseteq Nat /\ n \in I
  <2>1. n \in 0 .. n /\ \A k \in 0 .. n : k \in Nat
    BY ONLY <1>1
  <2>2. PICK a : a = g[n] /\ a \in Nat /\ x \in 1 .. a
    BY <1>1, <2>1
  <2>3. x <= a
    BY ONLY <2>2
  <2> QED BY <1>2, <2>1, <2>2, <2>3
<1>4. PICK i : i \in I /\ \A k \in I : i <= k
  BY <1>3, LeastOf
<1>5. i # 0
  <2>1. ~ (x <= 0)
    <3>1. PICK a : a = g[n] /\ x \in 1 .. a
      BY <1>1
    <3> QED BY ONLY <3>1
  <2> QED BY <1>1, <1>2, <1>4, <2>1
<1>6. PICK j : j = i - 1 /\ j \in 0 .. n /\ i \in 1 .. n /\ i \in 0 .. n /\ ~ (i <= j)
  <2>1. i \in 0 .. n
    BY <1>2, <1>4
  <2>2. i - 1 \in 0 .. n /\ i \in 1 .. n /\ ~ (i <= i - 1)
    BY ONLY <1>1, <1>5, <2>1
  <2> QED BY <2>1, <2>2
<1>7. ~ (x <= g[j]) /\ x <= g[i]
  BY <1>2, <1>4, <1>6
<1>8. Block(e, s, g, i)
  BY <1>6 DEF EscapedAt
<1>9. PICK b, c : b = g[i - 1] /\ c = g[i] /\ b \in Nat /\ c \in Nat /\ ~ (x <= b) /\ x <= c
  BY <1>1, <1>6, <1>7
<1>10. PICK a : a = g[n] /\ x \in 1 .. a
  BY <1>1
<1>11. c = b + 3 => x = b + 1 \/ x = b + 2 \/ x = b + 3
  BY ONLY <1>9, <1>10
<1>12. c = b + 1 => x = b + 1
  BY ONLY <1>9, <1>10
<1>13. TokenOf(e, s, g, i, x)
  BY <1>8, <1>9, <1>11, <1>12 DEF Block, TokenOf
<1> QED BY <1>6, <1>13

\* No place belongs to two characters.
LEMMA OneBlock ==
    ASSUME NEW A, NEW e, NEW s, NEW n, NEW g, EscapedAt(A, e, s, n, g),
           NEW i, i \in 1 .. n, NEW k, k \in 1 .. n,
           NEW x, g[i - 1] + 1 <= x, x <= g[i], g[k - 1] + 1 <= x, x <= g[k], x \in Int
    PROVE  i = k
<1>1. n \in Nat /\ \A m \in 0 .. n : g[m] \in Nat
  BY DEF EscapedAt
<1>2. ASSUME NEW a \in 1 .. n, NEW b \in 1 .. n, a < b, x <= g[a], g[b - 1] + 1 <= x
      PROVE  FALSE
  <2>1. b - 1 \in 0 .. n /\ a \in 0 .. b - 1 /\ a \in 0 .. n
    BY ONLY <1>1, <1>2
  <2>2. g[a] + ((b - 1) - a) <= g[b - 1]
    BY <2>1, BlocksInOrder
  <2>3. PICK u, v : /\ u = g[a] /\ v = g[b - 1] /\ u \in Nat /\ v \in Nat
                    /\ u + ((b - 1) - a) <= v /\ x <= u /\ v + 1 <= x
    BY <1>1, <1>2, <2>1, <2>2
  <2>4. a \in Nat /\ b \in Nat
    BY ONLY <1>1, <1>2
  <2> QED BY ONLY <1>2, <2>3, <2>4, x \in Int
<1>3. i < k \/ k < i \/ i = k
  BY ONLY <1>1, i \in 1 .. n, k \in 1 .. n
<1> QED BY <1>2, <1>3

Slash == <<"%", "2", "F">>

\* The escaped slashes of a text without a percent sign are where its slashes are.
LEMMA SlashPlaces ==
    ASSUME NEW A, {"%", "2", "F", "/"} \subseteq A,
           NEW e, NEW s, NEW n, NEW g, EscapedAt(A, e, s, n, g),
           \A i \in 1 .. n : s[i] # "%"
    PROVE  /\ Places(e, Slash, 1) \subseteq Int
           /\ \A x \in Int : x \in Places(e, Slash, 1) <=>
                 \E i \in 1 .. n : s[i] = "/" /\ x = g[i - 1] + 1
<1>1. PICK d : d = Slash
  OBVIOUS
<1>2. d \in Seq(A) /\ Len(d) = 3 /\ d[1] = "%" /\ d[2] = "2" /\ d[3] = "F"
  BY <1>1 DEF Slash
<1>3. e \in Seq(A) /\ 1 \in Nat /\ 1 >= 1 /\ n \in Nat /\ (\A k \in 0 .. n : g[k] \in Nat)
      /\ Len(e) = g[n]
  BY DEF EscapedAt
<1>4. /\ Places(e, d, 1) \subseteq Int
      /\ \A x \in Int : x \in Places(e, d, 1) <=>
            1 <= x /\ x + Len(d) - 1 <= Len(e) /\ Holds(e, x, d)
  BY ONLY <1>2, <1>3, KeyPlaces
<1>5. ASSUME NEW x \in Int, x \in Places(e, d, 1)
      PROVE  \E i \in 1 .. n : s[i] = "/" /\ x = g[i - 1] + 1
  <2>1. 1 <= x /\ x + 3 - 1 <= Len(e) /\ Holds(e, x, d)
    BY <1>2, <1>4, <1>5
  <2>2. x + 1 - 1 = x /\ 1 \in 1 .. 3 /\ 1 \in Nat
    BY ONLY x \in Int
  <2>3. e[x] = "%"
    BY <1>2, <2>1, <2>2 DEF Holds
  <2>4. x \in 1 .. Len(e)
    <3>1. PICK l : l = Len(e) /\ l \in Nat /\ x + 3 - 1 <= l
      <4>1. n \in 0 .. n
        BY ONLY <1>3
      <4> QED BY <1>3, <2>1, <4>1
    <3>2. x \in 1 .. l
      BY ONLY <2>1, <3>1, x \in Int
    <3> QED BY <3>1, <3>2
  <2>5. PICK i \in 1 .. n : TokenOf(e, s, g, i, x)
    BY <2>4, EscapedToken
  <2>6. s[i] # "%"
    OBVIOUS
  <2>7. s[i] = "/" /\ x = g[i - 1] + 1
    BY <2>3, <2>5, <2>6 DEF TokenOf
  <2> QED BY <2>7
<1>6. ASSUME NEW x \in Int, NEW i \in 1 .. n, s[i] = "/", x = g[i - 1] + 1
      PROVE  x \in Places(e, d, 1)
  <2>1. Block(e, s, g, i) /\ i - 1 \in 0 .. n /\ i \in 0 .. n /\ n \in 0 .. n /\ i \in 0 .. n
    <3>1. i - 1 \in 0 .. n /\ i \in 0 .. n /\ n \in 0 .. n
      BY ONLY <1>3, i \in 1 .. n
    <3> QED BY <3>1 DEF EscapedAt
  <2>2. PICK b, c, l : /\ b = g[i - 1] /\ c = g[i] /\ l = g[n] /\ b \in Nat /\ c \in Nat
                       /\ l \in Nat /\ c = b + 3 /\ x = b + 1
                       /\ e[b + 1] = "%" /\ e[b + 2] = "2" /\ e[b + 3] = "F"
    BY <1>3, <1>6, <2>1 DEF Block
  <2>3. c <= l
    <3>1. c + (n - i) <= l
      BY <2>1, <2>2, BlocksInOrder
    <3>2. n - i >= 0 /\ n - i \in Int
      BY ONLY <1>3, i \in 1 .. n
    <3> QED BY ONLY <2>2, <3>1, <3>2
  <2>4. 1 <= x /\ x + 3 - 1 <= l
    BY ONLY <2>2, <2>3
  <2>5. Holds(e, x, d)
    <3>1. x + 1 - 1 = b + 1 /\ x + 2 - 1 = b + 2 /\ x + 3 - 1 = b + 3
      BY ONLY <2>2
    <3>2. \A p \in 1 .. 3 : p = 1 \/ p = 2 \/ p = 3
      OBVIOUS
    <3>3. ASSUME NEW p \in 1 .. 3 PROVE e[x + p - 1] = d[p]
      <4>1. CASE p = 1
        BY <1>2, <2>2, <3>1, <4>1
      <4>2. CASE p = 2
        BY <1>2, <2>2, <3>1, <4>2
      <4>3. CASE p = 3
        BY <1>2, <2>2, <3>1, <4>3
      <4> QED BY <3>2, <4>1, <4>2, <4>3
    <3> QED BY <1>2, <3>3 DEF Holds
  <2> QED BY <1>2, <1>3, <1>4, <2>2, <2>4, <2>5
<1> QED BY <1>1, <1>4, <1>5, <1>6

\* What str_replace keeps of place x of e when F are the places of the key and
\* its memory was clean.
KeptAt(e, F, x) ==
    IF x \in F THEN <<"/">>
    ELSE IF \A k \in F : x \notin k .. k + Len(Slash) - 1 THEN <<e[x]>> ELSE << >>

\* Of each character one token is kept, and it is that character.
LEMMA OneKept ==
    ASSUME NEW A, {"%", "2", "F", "/"} \subseteq A,
           NEW e, NEW s, NEW n, NEW g, EscapedAt(A, e, s, n, g),
           \A i \in 1 .. n : s[i] # "%",
           NEW F, F = Places(e, Slash, 1),
           NEW i, i \in 1 .. n
    PROVE  /\ KeptAt(e, F, g[i - 1] + 1) = <<s[i]>>
           /\ s[i] = "/" => /\ KeptAt(e, F, g[i - 1] + 2) = << >>
                            /\ KeptAt(e, F, g[i - 1] + 3) = << >>
<1>1. /\ F \subseteq Int
      /\ \A x \in Int : x \in F <=> \E k \in 1 .. n : s[k] = "/" /\ x = g[k - 1] + 1
  BY SlashPlaces
<1>2. n \in Nat /\ (\A k \in 0 .. n : g[k] \in Nat) /\ \A k \in 1 .. n : Block(e, s, g, k)
  BY DEF EscapedAt
<1>3. \A k \in 1 .. n : k - 1 \in 0 .. n /\ k \in 0 .. n
  BY ONLY <1>2
<1>4. Len(Slash) = 3
  BY DEF Slash
<1>5. PICK b : b = g[i - 1] /\ b \in Nat
  BY <1>2, <1>3
\* Within this block no other escaped slash begins or stands.
<1>6. ASSUME NEW k \in 1 .. n, s[k] = "/", NEW x \in Int, b + 1 <= x, x <= g[i],
             x \in g[k - 1] + 1 .. g[k - 1] + 1 + 3 - 1
      PROVE  k = i
  <2>1. PICK c, d : c = g[k - 1] /\ d = g[k] /\ c \in Nat /\ d \in Nat /\ d = c + 3
    BY <1>2, <1>3, <1>6 DEF Block
  <2>2. x \in c + 1 .. c + 1 + 3 - 1
    BY <1>6, <2>1
  <2>3. c + 1 <= x /\ x <= d
    BY ONLY <2>1, <2>2, x \in Int
  <2>4. g[k - 1] + 1 <= x /\ x <= g[k] /\ g[i - 1] + 1 <= x /\ x <= g[i]
    BY <1>5, <1>6, <2>1, <2>3
  <2> QED BY <2>4, OneBlock
<1>7. CASE s[i] = "/"
  <2>1. PICK c : c = g[i] /\ c = b + 3
    BY <1>2, <1>5, <1>7 DEF Block
  <2>2. b + 1 \in F
    <3>1. b + 1 \in Int
      BY ONLY <1>5
    <3> QED BY <1>1, <1>5, <1>7, <3>1
  <2>3. ASSUME NEW y \in {b + 2, b + 3} PROVE KeptAt(e, F, y) = << >>
    <3>1. /\ y \in Int /\ b + 1 <= y /\ y <= b + 3 /\ y # b + 1
          /\ y \in b + 1 .. b + 1 + 3 - 1
      BY ONLY <1>5, <2>3
    <3>2. ASSUME y \in F PROVE FALSE
      <4>1. PICK k \in 1 .. n : s[k] = "/" /\ y = g[k - 1] + 1
        BY <1>1, <3>1, <3>2
      <4>2. PICK d : d = g[k - 1] /\ d \in Nat /\ y = d + 1
        BY <1>2, <1>3, <4>1
      <4>3. y \in d + 1 .. d + 1 + 3 - 1
        BY ONLY <4>2
      <4>4. k = i
        BY <1>6, <2>1, <3>1, <4>1, <4>2, <4>3
      <4> QED BY <1>5, <3>1, <4>1, <4>4
    <3>3. ~ \A k \in F : y \notin k .. k + Len(Slash) - 1
      BY <1>4, <2>2, <3>1
    <3> QED BY <3>2, <3>3 DEF KeptAt
  <2>4. KeptAt(e, F, b + 1) = <<s[i]>>
    BY <1>7, <2>2 DEF KeptAt
  <2> QED BY <1>5, <2>3, <2>4
<1>8. CASE s[i] # "/"
  <2>1. PICK x : x = b + 1 /\ x = g[i] /\ e[x] = s[i]
    BY <1>2, <1>5, <1>8 DEF Block
  <2>2. x \in Int /\ b + 1 <= x /\ x <= x
    BY ONLY <1>5, <2>1
  <2>3. ASSUME NEW y \in F, x \in y .. y + Len(Slash) - 1 PROVE FALSE
    <3>1. PICK k \in 1 .. n : s[k] = "/" /\ y = g[k - 1] + 1
      BY <1>1, <2>3
    <3>2. x \in g[k - 1] + 1 .. g[k - 1] + 1 + 3 - 1
      BY <1>4, <2>3, <3>1
    <3>3. k = i
      BY <1>6, <2>1, <2>2, <3>1, <3>2
    <3> QED BY <1>8, <3>1, <3>3
  <2>4. x \notin F
    <3>1. x \in x .. x + 3 - 1
      BY ONLY <2>2
    <3> QED BY <1>4, <2>3, <3>1
  <2>5. KeptAt(e, F, x) = <<e[x]>>
    BY <2>3, <2>4 DEF KeptAt
  <2> QED BY <1>5, <1>8, <2>1, <2>5
<1> QED BY <1>7, <1>8

\* One more character of a text.
LEMMA OneMore ==
    ASSUME NEW A, NEW s, s \in Seq(A), NEW i, i \in Nat, i + 1 <= Len(s)
    PROVE  SubSeq(s, 1, i) \o <<s[i + 1]>> = SubSeq(s, 1, i + 1)
<1>1. PICK l, k : l = Len(s) /\ l \in Nat /\ k = i + 1
  <2>1. Len(s) \in Nat
    OBVIOUS
  <2> QED BY <2>1
<1>2. \A j \in 1 .. i : s[j] \in A
  <2>1. \A j \in 1 .. i : j \in 1 .. l
    BY ONLY <1>1, i \in Nat, i + 1 <= Len(s)
  <2> QED BY <1>1, <2>1
<1>3. PICK u : /\ u = SubSeq(s, 1, i) /\ u \in Seq(A) /\ Len(u) = i
               /\ \A j \in 1 .. i : u[j] = s[j]
  <2>1. /\ SubSeq(s, 1, i) \in Seq(A)
        /\ Len(SubSeq(s, 1, i)) = IF 1 <= i THEN i - 1 + 1 ELSE 0
        /\ \A j \in 1 .. i - 1 + 1 : SubSeq(s, 1, i)[j] = s[1 + j - 1]
    BY ONLY <1>2, i \in Nat, SubSeqProperties
  <2>2. /\ (IF 1 <= i THEN i - 1 + 1 ELSE 0) = i /\ i - 1 + 1 = i
        /\ \A j \in 1 .. i : 1 + j - 1 = j
    BY ONLY i \in Nat
  <2> QED BY <2>1, <2>2
<1>4. PICK d : d = <<s[k]>> /\ d \in Seq(A) /\ Len(d) = 1 /\ d[1] = s[k]
  <2>1. k \in 1 .. l
    BY ONLY <1>1, i \in Nat, i + 1 <= Len(s)
  <2>2. PICK c : c = s[k] /\ c \in A
    BY <1>1, <2>1
  <2>3. <<c>> \in Seq(A) /\ Len(<<c>>) = 1 /\ <<c>>[1] = c
    BY <2>2
  <2> QED BY <2>2, <2>3
<1>5. PICK t : t = u \o d
  OBVIOUS
<1>6. /\ t \in Seq(A) /\ Len(t) = i + 1 /\ t[i + 1] = s[k]
      /\ \A j \in 1 .. i : t[j] = u[j]
  <2>1. /\ t \in Seq(A) /\ Len(t) = Len(u) + Len(d)
        /\ \A j \in 1 .. Len(u) : t[j] = u[j]
        /\ \A j \in 1 .. Len(d) : t[Len(u) + j] = d[j]
    BY ONLY <1>3, <1>4, <1>5, Appended
  <2>2. 1 \in 1 .. 1
    OBVIOUS
  <2> QED BY <1>3, <1>4, <2>1, <2>2
<1>7. Holds(s, 1, t)
  <2>1. ASSUME NEW j \in Nat, j \in 1 .. i + 1 PROVE s[1 + j - 1] = t[j]
    <3>1. 1 + j - 1 = j /\ (j \in 1 .. i \/ j = k)
      BY ONLY <1>1, <2>1, i \in Nat
    <3> QED BY <1>1, <1>3, <1>6, <3>1
  <2> QED BY <1>6, <2>1 DEF Holds
<1>8. SubSeq(s, 1, k) = t
  <2>1. 1 \in Nat /\ k \in Nat /\ 1 <= 1 /\ k = 1 + (i + 1) - 1
    BY ONLY <1>1, i \in Nat
  <2>2. k = 1 + Len(t) - 1 /\ k <= Len(s)
    BY <1>1, <1>6, <2>1
  <2> QED BY ONLY <1>6, <1>7, <2>1, <2>2, s \in Seq(A), Cut
<1> QED BY <1>1, <1>3, <1>4, <1>5, <1>8

(* str_replace with clean memory makes the id of its escaped form, when no *)
(* character of the id is itself a percent sign.                           *)
LEMMA Rebuilt ==
    ASSUME NEW A, {"%", "2", "F", "/"} \subseteq A,
           NEW e, NEW s, NEW n, NEW g, EscapedAt(A, e, s, n, g),
           \A i \in 1 .. n : s[i] # "%"
    PROVE  StrReplace(e, Slash, <<"/">>, << >>) = s
<1>1. PICK F : F = Places(e, Slash, 1)
  OBVIOUS
<1>2. PICK f : f = IF F = {} THEN 1 ELSE Min(F)
  OBVIOUS
<1>3. PICK r : r = [x \in DOMAIN e |->
                      (IF x = f THEN << >> ELSE << >>)
                         \o (IF x \in F THEN <<"/">>
                             ELSE IF \A k \in F : x \notin k .. k + Len(Slash) - 1
                             THEN <<e[x]>> ELSE << >>)]
  OBVIOUS
<1>4. PICK w : /\ w = FlattenSeq(r)
               /\ StrReplace(e, Slash, <<"/">>, << >>) = SubSeq(w, 1, Min({Len(w), Len(e)}))
  BY <1>1, <1>2, <1>3 DEF StrReplace
<1>5. PICK m : /\ m = Len(e) /\ m \in Nat /\ DOMAIN e = 1 .. m /\ n \in Nat /\ n = Len(s)
               /\ s \in Seq(A) /\ e \in Seq(A) /\ g[0] = 0 /\ m = g[n]
               /\ (\A k \in 0 .. n : g[k] \in Nat) /\ \A k \in 1 .. n : Block(e, s, g, k)
  <2>1. e \in Seq(A)
    BY DEF EscapedAt
  <2>2. Len(e) \in Nat /\ DOMAIN e = 1 .. Len(e)
    BY <2>1
  <2> QED BY <2>2 DEF EscapedAt
<1>n. n \in Nat /\ m \in Nat
  BY <1>5
<1>6. \A x \in 1 .. m : r[x] = KeptAt(e, F, x) /\ r[x] \in Seq(A)
  <2> TAKE x \in 1 .. m
  <2>1. KeptAt(e, F, x) \in Seq(A)
    <3>1. e[x] \in A
      BY <1>5
    <3>2. <<e[x]>> \in Seq(A) /\ <<"/">> \in Seq(A) /\ << >> \in Seq(A)
      BY <3>1, FewTokens
    <3> QED BY <3>2 DEF KeptAt
  <2>2. r[x] = << >> \o KeptAt(e, F, x)
    BY <1>3, <1>5 DEF KeptAt
  <2>3. << >> \o KeptAt(e, F, x) = KeptAt(e, F, x)
    BY ONLY <2>1
  <2> QED BY <2>1, <2>2, <2>3
<1>7. r \in Seq(Seq(A)) /\ Len(r) = m
  <2>1. r \in [1 .. m -> Seq(A)]
    BY <1>3, <1>5, <1>6
  <2> QED BY <1>5, <2>1
<1>8. PICK h : Parts(A, h, r, m)
  <2>1. PICK h : Parts(A, h, r, Len(r))
    BY ONLY <1>7, Flattened
  <2> QED BY <1>7, <2>1
<1>q. \A x, y : x \in 1 .. m /\ x - 1 = y => h[x] = h[y] \o r[x]
  BY <1>8 DEF Parts
<1>9. PICK P : P = {i \in 0 .. n : h[g[i]] = SubSeq(s, 1, i)}
  OBVIOUS
<1>10. 0 \in P
  <2>1. 0 \in 0 .. n
    BY ONLY <1>n
  <2>2. SubSeq(s, 1, 0) = << >>
    BY <1>5
  <2> QED BY <1>5, <1>8, <1>9, <2>1, <2>2 DEF Parts
<1>11. ASSUME NEW i \in Nat, i \in P, i < n PROVE i + 1 \in P
  <2>1. PICK k : k = i + 1 /\ k \in 1 .. n /\ k \in 0 .. n /\ k - 1 = i /\ i \in 0 .. n
                 /\ n \in 0 .. n
    BY ONLY <1>n, i \in Nat, i < n
  <2>2. PICK b, c : b = g[i] /\ c = g[k] /\ b \in Nat /\ c \in Nat /\ c <= m /\ b + 1 <= c
    <3>1. Block(e, s, g, k)
      BY <1>5, <2>1
    <3>2. g[i] \in Nat /\ g[k] \in Nat /\ g[k] + (n - k) <= g[n]
      BY <1>5, <2>1, BlocksInOrder
    <3>3. PICK b, c : b = g[i] /\ c = g[k] /\ b \in Nat /\ c \in Nat /\ c + (n - k) <= m
                      /\ (c = b + 3 \/ c = b + 1)
      BY <1>5, <2>1, <3>1, <3>2 DEF Block
    <3>4. c <= m /\ b + 1 <= c
      BY ONLY <1>n, <2>1, <3>3
    <3> QED BY <3>3, <3>4
  <2>3. /\ r[b + 1] = <<s[k]>>
        /\ s[k] = "/" => c = b + 3 /\ r[b + 2] = << >> /\ r[b + 3] = << >>
        /\ s[k] # "/" => c = b + 1
    <3>1. /\ KeptAt(e, F, b + 1) = <<s[k]>>
          /\ s[k] = "/" => /\ KeptAt(e, F, b + 2) = << >>
                           /\ KeptAt(e, F, b + 3) = << >>
      BY <1>1, <2>1, <2>2, OneKept
    <3>2. /\ b + 1 \in 1 .. m
          /\ c = b + 3 => b + 2 \in 1 .. m /\ b + 3 \in 1 .. m
      BY ONLY <1>n, <2>2
    <3>3. /\ s[k] = "/" => c = b + 3
          /\ s[k] # "/" => c = b + 1
      BY <1>5, <2>1, <2>2 DEF Block
    <3> QED BY <1>6, <3>1, <3>2, <3>3
  <2>4. h[b + 1] = SubSeq(s, 1, k)
    <3>1. b + 1 \in 1 .. m /\ b + 1 - 1 = b
      BY ONLY <1>n, <2>2
    <3>2. h[b + 1] = h[b] \o r[b + 1]
      <4>1. PICK x : x = b + 1 /\ x \in 1 .. m /\ x - 1 = b
        BY ONLY <1>n, <2>2
      <4>2. h[x] = h[b] \o r[x]
        BY ONLY <1>q, <4>1, Zenon
      <4> QED BY <4>1, <4>2, Zenon
    <3>3. SubSeq(s, 1, i) \o <<s[k]>> = SubSeq(s, 1, k)
      <4>1. i + 1 <= Len(s)
        <5>1. i + 1 <= n
          BY ONLY <1>n, <2>1
        <5> QED BY <1>5, <5>1
      <4> QED BY <1>5, <2>1, <4>1, OneMore
    <3>4. h[b] = SubSeq(s, 1, i)
      BY <1>9, <1>11, <2>2
    <3> QED BY <2>3, <3>2, <3>3, <3>4
  <2>5. h[c] = SubSeq(s, 1, k)
    <3>1. CASE s[k] # "/"
      BY <2>3, <2>4, <3>1
    <3>2. CASE s[k] = "/"
      <4>1. c = b + 3 /\ r[b + 2] = << >> /\ r[b + 3] = << >>
        BY <2>3, <3>2
      <4>2. /\ b + 2 \in 1 .. m /\ b + 2 - 1 = b + 1 /\ b + 3 \in 1 .. m /\ b + 3 - 1 = b + 2
            /\ b + 1 \in 0 .. m
        BY ONLY <1>n, <2>2, <4>1
      <4>3. h[b + 2] = h[b + 1] \o << >> /\ h[b + 3] = h[b + 2] \o << >>
        <5>1. PICK x, y, z : /\ x = b + 1 /\ y = b + 2 /\ z = b + 3 /\ y \in 1 .. m /\ z \in 1 .. m
                             /\ y - 1 = x /\ z - 1 = y
          <6>1. c = b + 3
            BY <4>1
          <6> QED BY ONLY <1>n, <2>2, <6>1
        <5>2. h[y] = h[x] \o r[y] /\ h[z] = h[y] \o r[z]
          BY ONLY <1>q, <5>1, Zenon
        <5> QED BY <4>1, <5>1, <5>2, Zenon
      <4>4. PICK u : u = h[b + 1] /\ u \in Seq(A)
        BY <1>8, <4>2 DEF Parts
      <4>5. u \o << >> = u
        BY <4>4
      <4> QED BY <2>4, <4>1, <4>3, <4>4, <4>5
    <3> QED BY <3>1, <3>2
  <2> QED BY <1>9, <2>1, <2>2, <2>5
<1>12. w = s
  <2>1. \A i \in 0 .. n : i \in P
    BY <1>5, <1>10, <1>11, Climb
  <2>2. n \in 0 .. n
    BY ONLY <1>n
  <2>3. h[m] = SubSeq(s, 1, n)
    BY <1>5, <1>9, <2>1, <2>2
  <2>4. SubSeq(s, 1, n) = s
    BY <1>5
  <2> QED BY <1>4, <1>8, <2>3, <2>4 DEF Parts
<1>13. n <= m
  <2>1. 0 \in 0 .. n /\ n \in 0 .. n
    BY ONLY <1>n
  <2>2. g[0] + (n - 0) <= g[n]
    BY <2>1, BlocksInOrder
  <2>3. 0 + (n - 0) <= m
    BY <1>5, <2>2
  <2> QED BY ONLY <1>n, <2>3
<1>14. Min({Len(w), Len(e)}) = n
  <2>1. {n, m} \in SUBSET Int /\ n \in {n, m} /\ \A x \in {n, m} : n <= x
    BY ONLY <1>n, <1>13
  <2>2. Min({n, m}) = n
    BY ONLY <2>1, MinIsLeast
  <2> QED BY <1>5, <1>12, <2>2
<1> QED
  <2>1. SubSeq(s, 1, n) = s
    BY <1>5
  <2> QED BY <1>4, <1>12, <1>14, <2>1

-----------------------------------------------------------------------------
(* The query of a click, and what get_query_string takes out of it.        *)

\* Whatever a query is made of.
Tokens == Letters \cup {"%", "2", "F", "=", "&", "#", "cmd", "fileId", "increase"}

\* Every token a query is spelled with is among them.
LEMMA TokensSpelled ==
    /\ Letters \subseteq Tokens /\ {"%", "2", "F", "/"} \subseteq Tokens
    /\ "=" \in Tokens /\ "&" \in Tokens /\ "cmd" \in Tokens /\ "fileId" \in Tokens
    /\ "increase" \in Tokens
<1>1. "/" \in Letters
  BY Spelled
<1> QED BY <1>1 DEF Tokens

\* The first key of y is at k, and its value ends before c.
ValueAt(y, key, k, c) ==
    /\ k \in Nat /\ k >= 1 /\ c \in Nat /\ k + 2 <= c /\ c <= Len(y) + 1
    /\ y[k] = key /\ \A i \in 1 .. k - 1 : y[i] # key
    /\ c <= Len(y) => y[c] \in {"#", "&"}
    /\ \A i \in k + 2 .. c - 1 : y[i] \notin {"#", "&"}

\* get_query_string takes that value (usefull.c 434-475).
LEMMA ValueFound ==
    ASSUME NEW y, y \in Seq(Tokens), NEW key, key \in Tokens, NEW k, NEW c,
           ValueAt(y, key, k, c)
    PROVE  GetQueryString(y, key) = SubSeq(y, k + 2, c - 1)
<1>1. PICK l : l = Len(y) /\ l \in Nat
  <2>1. Len(y) \in Nat
    OBVIOUS
  <2> QED BY <2>1
<1>2. k \in Nat /\ k >= 1 /\ c \in Nat /\ k + 2 <= c /\ c <= l + 1
  BY <1>1 DEF ValueAt
<1>3. PICK P : P = Places(y, <<key>>, 1)
  OBVIOUS
<1>4. P \subseteq Int /\ \A x \in Int : x \in P <=> 1 <= x /\ x <= l /\ y[x] = key
  <2>1. 1 \in Nat /\ 1 >= 1
    OBVIOUS
  <2>2. P \subseteq Int /\ \A x \in Int : x \in P <=> 1 <= x /\ x <= Len(y) /\ y[x] = key
    BY ONLY <1>3, <2>1, y \in Seq(Tokens), key \in Tokens, TokenPlaces
  <2> QED BY <1>1, <2>2
<1>5. k \in P /\ \A x \in P : k <= x
  <2>1. k \in Int /\ 1 <= k /\ k <= l
    BY ONLY <1>1, <1>2
  <2>2. y[k] = key /\ \A i \in 1 .. k - 1 : y[i] # key
    BY DEF ValueAt
  <2>3. ASSUME NEW x \in P, ~ (k <= x) PROVE FALSE
    <3>1. x \in Int /\ 1 <= x /\ y[x] = key
      BY <1>4
    <3>2. x \in 1 .. k - 1
      BY ONLY <2>1, <2>3, <3>1
    <3> QED BY <2>2, <3>1, <3>2
  <2> QED BY <1>4, <2>1, <2>2, <2>3
<1>6. Has(y, <<key>>) /\ MemStr(y, <<key>>) = k
  <2>1. Min(P) = k
    BY ONLY <1>4, <1>5, MinIsLeast
  <2> QED BY <1>3, <1>5, <2>1 DEF Has, MemStr, StrStr
<1>7. PICK v, E : v = k + 2 /\ E = {i \in v .. l : y[i] \in {"#", "&"}} \cup {l + 1}
  OBVIOUS
<1>8. Min(E) = c
  <2>1. l + 1 \in Int /\ \A i \in v .. l : i \in Int
    BY ONLY <1>1
  <2>2. E \in SUBSET Int
    BY <1>7, <2>1
  <2>3. c \in E
    <3>1. c = l + 1 \/ (c \in v .. l /\ c <= l)
      BY ONLY <1>1, <1>2, <1>7
    <3>2. c <= l => y[c] \in {"#", "&"}
      BY <1>1 DEF ValueAt
    <3> QED BY <1>7, <3>1, <3>2
  <2>4. ASSUME NEW x \in E, ~ (c <= x) PROVE FALSE
    <3>1. x = l + 1 \/ (x \in v .. l /\ y[x] \in {"#", "&"})
      BY <1>7
    <3>2. x # l + 1
      BY ONLY <1>1, <1>2, <2>4
    <3>3. x \in v .. l
      BY <3>1, <3>2
    <3>4. x \in k + 2 .. c - 1
      BY ONLY <1>1, <1>2, <1>7, <2>4, <3>3
    <3>5. y[x] \notin {"#", "&"}
      BY <3>4 DEF ValueAt
    <3> QED BY <3>1, <3>2, <3>5
  <2> QED BY ONLY <2>2, <2>3, <2>4, MinIsLeast
<1>9. ~ (v > l + 1)
  BY ONLY <1>1, <1>2, <1>7
<1> QED BY <1>1, <1>6, <1>7, <1>8, <1>9 DEF GetQueryString

\* A query with the command before the file, and one with the file before it.
CmdFirst(y, e, l) ==
    /\ y \in Seq(Tokens) /\ e \in Seq(Tokens) /\ l \in Nat /\ l = Len(e) /\ Len(y) = l + 6
    /\ y[1] = "cmd" /\ y[2] = "=" /\ y[3] = "increase" /\ y[4] = "&"
    /\ y[5] = "fileId" /\ y[6] = "="
    /\ \A i \in 1 .. l : y[6 + i] = e[i]

FileFirst(y, e, l) ==
    /\ y \in Seq(Tokens) /\ e \in Seq(Tokens) /\ l \in Nat /\ l = Len(e) /\ Len(y) = l + 6
    /\ y[1] = "fileId" /\ y[2] = "="
    /\ \A i \in 1 .. l : y[2 + i] = e[i]
    /\ y[l + 3] = "&" /\ y[l + 4] = "cmd" /\ y[l + 5] = "=" /\ y[l + 6] = "increase"

\* The short texts a query is put together from.
LEMMA ShortTexts ==
    /\ <<"cmd", "=", "increase">> \in Seq(Tokens) /\ Len(<<"cmd", "=", "increase">>) = 3
    /\ <<"fileId", "=">> \in Seq(Tokens) /\ Len(<<"fileId", "=">>) = 2
    /\ <<"&">> \in Seq(Tokens) /\ Len(<<"&">>) = 1
    /\ <<"increase">> \in Seq(Tokens) /\ Len(<<"increase">>) = 1
BY TokensSpelled

\* The query with the command first has its tokens at these places.
LEMMA CmdFirstLies ==
    ASSUME NEW e, e \in Seq(Tokens),
           NEW y, y = CmdPart \o <<"&">> \o (<<"fileId", "=">> \o e)
    PROVE  CmdFirst(y, e, Len(e))
<1>1. PICK p, a, f, u, v, l : /\ p = <<"cmd", "=", "increase">> /\ a = <<"&">>
                              /\ f = <<"fileId", "=">> /\ u = p \o a /\ v = f \o e
                              /\ l = Len(e)
  OBVIOUS
<1>2. y = u \o v
  BY <1>1 DEF CmdPart
<1>3. l \in Nat
  <2>1. Len(e) \in Nat
    OBVIOUS
  <2> QED BY <1>1, <2>1
<1>4. /\ p \in Seq(Tokens) /\ a \in Seq(Tokens) /\ f \in Seq(Tokens)
      /\ Len(p) = 3 /\ Len(a) = 1 /\ Len(f) = 2
  BY <1>1, ShortTexts
<1>5. /\ p[1] = "cmd" /\ p[2] = "=" /\ p[3] = "increase" /\ a[1] = "&"
      /\ f[1] = "fileId" /\ f[2] = "="
  BY <1>1
<1>6. /\ u \in Seq(Tokens) /\ Len(u) = 4
      /\ u[1] = "cmd" /\ u[2] = "=" /\ u[3] = "increase" /\ u[4] = "&"
  <2>0. p \in Seq(Tokens) /\ a \in Seq(Tokens)
    BY <1>4
  <2>1. u = p \o a
    BY <1>1
  <2>2. /\ u \in Seq(Tokens) /\ Len(u) = Len(p) + Len(a)
        /\ \A i \in 1 .. Len(p) : u[i] = p[i]
        /\ \A i \in 1 .. Len(a) : u[Len(p) + i] = a[i]
    BY ONLY <2>0, <2>1, Appended
  <2>3. 1 \in 1 .. 3 /\ 2 \in 1 .. 3 /\ 3 \in 1 .. 3 /\ 1 \in 1 .. 1 /\ 3 + 1 = 4
    OBVIOUS
  <2> QED BY <1>4, <1>5, <2>2, <2>3
<1>7. /\ v \in Seq(Tokens) /\ Len(v) = 2 + l /\ v[1] = "fileId" /\ v[2] = "="
      /\ \A i \in 1 .. l : v[2 + i] = e[i]
  <2>0. f \in Seq(Tokens) /\ e \in Seq(Tokens)
    BY <1>4
  <2>1. v = f \o e
    BY <1>1
  <2>2. /\ v \in Seq(Tokens) /\ Len(v) = Len(f) + Len(e)
        /\ \A i \in 1 .. Len(f) : v[i] = f[i]
        /\ \A i \in 1 .. Len(e) : v[Len(f) + i] = e[i]
    BY ONLY <2>0, <2>1, Appended
  <2>3. 1 \in 1 .. 2 /\ 2 \in 1 .. 2
    OBVIOUS
  <2> QED BY <1>1, <1>4, <1>5, <2>2, <2>3
<1>8. /\ y \in Seq(Tokens) /\ Len(y) = 4 + (2 + l)
      /\ (\A i \in 1 .. 4 : y[i] = u[i]) /\ \A i \in 1 .. 2 + l : y[4 + i] = v[i]
  <2>0. u \in Seq(Tokens) /\ v \in Seq(Tokens)
    BY <1>6, <1>7
  <2>1. /\ y \in Seq(Tokens) /\ Len(y) = Len(u) + Len(v)
        /\ \A i \in 1 .. Len(u) : y[i] = u[i]
        /\ \A i \in 1 .. Len(v) : y[Len(u) + i] = v[i]
    BY ONLY <1>2, <2>0, Appended
  <2> QED BY <1>6, <1>7, <2>1
<1>9. /\ 1 \in 1 .. 4 /\ 2 \in 1 .. 4 /\ 3 \in 1 .. 4 /\ 4 \in 1 .. 4
      /\ 1 \in 1 .. 2 + l /\ 2 \in 1 .. 2 + l /\ 4 + 1 = 5 /\ 4 + 2 = 6
      /\ 4 + (2 + l) = l + 6
      /\ \A i \in 1 .. l : 2 + i \in 1 .. 2 + l /\ 4 + (2 + i) = 6 + i
  BY ONLY <1>3
<1>10. /\ y[1] = "cmd" /\ y[2] = "=" /\ y[3] = "increase" /\ y[4] = "&"
       /\ y[5] = "fileId" /\ y[6] = "="
  BY <1>6, <1>7, <1>8, <1>9
<1>11. \A i \in 1 .. l : y[6 + i] = e[i]
  BY <1>7, <1>8, <1>9
<1> QED BY <1>1, <1>3, <1>8, <1>9, <1>10, <1>11 DEF CmdFirst

\* The query with the file first has them at those places.
LEMMA FileFirstLies ==
    ASSUME NEW e, e \in Seq(Tokens),
           NEW y, y = (<<"fileId", "=">> \o e) \o <<"&">> \o CmdPart
    PROVE  FileFirst(y, e, Len(e))
<1>1. PICK p, a, f, u, v, l : /\ p = <<"cmd", "=", "increase">> /\ a = <<"&">>
                              /\ f = <<"fileId", "=">> /\ v = f \o e /\ u = v \o a
                              /\ l = Len(e)
  OBVIOUS
<1>2. y = u \o p
  BY <1>1 DEF CmdPart
<1>3. l \in Nat
  <2>1. Len(e) \in Nat
    OBVIOUS
  <2> QED BY <1>1, <2>1
<1>4. /\ p \in Seq(Tokens) /\ a \in Seq(Tokens) /\ f \in Seq(Tokens)
      /\ Len(p) = 3 /\ Len(a) = 1 /\ Len(f) = 2
  BY <1>1, ShortTexts
<1>5. /\ p[1] = "cmd" /\ p[2] = "=" /\ p[3] = "increase" /\ a[1] = "&"
      /\ f[1] = "fileId" /\ f[2] = "="
  BY <1>1
<1>6. /\ v \in Seq(Tokens) /\ Len(v) = 2 + l /\ v[1] = "fileId" /\ v[2] = "="
      /\ \A i \in 1 .. l : v[2 + i] = e[i]
  <2>0. f \in Seq(Tokens) /\ e \in Seq(Tokens)
    BY <1>4
  <2>1. v = f \o e
    BY <1>1
  <2>2. /\ v \in Seq(Tokens) /\ Len(v) = Len(f) + Len(e)
        /\ \A i \in 1 .. Len(f) : v[i] = f[i]
        /\ \A i \in 1 .. Len(e) : v[Len(f) + i] = e[i]
    BY ONLY <2>0, <2>1, Appended
  <2>3. 1 \in 1 .. 2 /\ 2 \in 1 .. 2
    OBVIOUS
  <2> QED BY <1>1, <1>4, <1>5, <2>2, <2>3
<1>7. /\ u \in Seq(Tokens) /\ Len(u) = (2 + l) + 1 /\ u[(2 + l) + 1] = "&"
      /\ \A i \in 1 .. 2 + l : u[i] = v[i]
  <2>0. v \in Seq(Tokens) /\ a \in Seq(Tokens)
    BY <1>4, <1>6
  <2>1. u = v \o a
    BY <1>1
  <2>2. /\ u \in Seq(Tokens) /\ Len(u) = Len(v) + Len(a)
        /\ \A i \in 1 .. Len(v) : u[i] = v[i]
        /\ \A i \in 1 .. Len(a) : u[Len(v) + i] = a[i]
    BY ONLY <2>0, <2>1, Appended
  <2>3. 1 \in 1 .. 1
    OBVIOUS
  <2> QED BY <1>4, <1>5, <1>6, <2>2, <2>3
<1>8. PICK b : b = l + 3 /\ b \in Nat /\ (2 + l) + 1 = b
  BY ONLY <1>3
<1>9. /\ y \in Seq(Tokens) /\ Len(y) = b + 3
      /\ (\A i \in 1 .. b : y[i] = u[i]) /\ \A i \in 1 .. 3 : y[b + i] = p[i]
  <2>0. u \in Seq(Tokens) /\ p \in Seq(Tokens)
    BY <1>4, <1>7
  <2>1. /\ y \in Seq(Tokens) /\ Len(y) = Len(u) + Len(p)
        /\ \A i \in 1 .. Len(u) : y[i] = u[i]
        /\ \A i \in 1 .. Len(p) : y[Len(u) + i] = p[i]
    BY ONLY <1>2, <2>0, Appended
  <2> QED BY <1>4, <1>7, <1>8, <2>1
<1>10. /\ 1 \in 1 .. 3 /\ 2 \in 1 .. 3 /\ 3 \in 1 .. 3
       /\ 1 \in 1 .. b /\ 2 \in 1 .. b /\ b \in 1 .. b
       /\ 1 \in 1 .. 2 + l /\ 2 \in 1 .. 2 + l
       /\ b + 3 = l + 6 /\ b + 2 = l + 5 /\ b + 1 = l + 4
       /\ \A i \in 1 .. l : 2 + i \in 1 .. 2 + l /\ 2 + i \in 1 .. b
  BY ONLY <1>3, <1>8
<1>11. y[1] = "fileId" /\ y[2] = "=" /\ y[b] = "&"
  BY <1>6, <1>7, <1>8, <1>9, <1>10
<1>12. y[b + 1] = "cmd" /\ y[b + 2] = "=" /\ y[b + 3] = "increase"
  BY <1>5, <1>9, <1>10
<1>13. \A i \in 1 .. l : y[2 + i] = e[i]
  BY <1>6, <1>7, <1>9, <1>10
<1> QED BY <1>1, <1>3, <1>8, <1>9, <1>10, <1>11, <1>12, <1>13 DEF FileFirst

\* Either parameter is found in such a query.
LEMMA CmdFirstRead ==
    ASSUME NEW y, NEW e, NEW l, CmdFirst(y, e, l), \A i \in 1 .. l : e[i] \notin {"#", "&"}
    PROVE  /\ GetQueryString(y, "cmd") = <<"increase">>
           /\ GetQueryString(y, "fileId") = e
<1>1. y \in Seq(Tokens) /\ e \in Seq(Tokens) /\ l \in Nat /\ l = Len(e) /\ Len(y) = l + 6
  BY DEF CmdFirst
<1>n. l \in Nat
  BY <1>1
<1>2. /\ y[1] = "cmd" /\ y[2] = "=" /\ y[3] = "increase" /\ y[4] = "&"
      /\ y[5] = "fileId" /\ y[6] = "=" /\ \A i \in 1 .. l : y[6 + i] = e[i]
  BY DEF CmdFirst
<1>3. "cmd" \in Tokens /\ "fileId" \in Tokens
  BY TokensSpelled
<1>4. GetQueryString(y, "cmd") = SubSeq(y, 3, 3)
  <2>1. ValueAt(y, "cmd", 1, 4)
    <3>1. /\ 1 \in Nat /\ 1 >= 1 /\ 4 \in Nat /\ 1 + 2 <= 4 /\ 4 <= l + 6 + 1
          /\ (\A i \in 1 .. 1 - 1 : FALSE) /\ \A i \in 1 + 2 .. 4 - 1 : i = 3
      BY ONLY <1>n
    <3> QED BY <1>1, <1>2, <3>1 DEF ValueAt
  <2>2. 1 + 2 = 3 /\ 4 - 1 = 3
    OBVIOUS
  <2> QED BY <1>1, <1>3, <2>1, <2>2, ValueFound
<1>5. SubSeq(y, 3, 3) = <<"increase">>
  <2>1. PICK t : t = <<"increase">> /\ t \in Seq(Tokens) /\ Len(t) = 1 /\ t[1] = "increase"
    <3>1. PICK t : t = <<"increase">>
      OBVIOUS
    <3>2. t \in Seq(Tokens) /\ Len(t) = 1
      BY <3>1, ShortTexts
    <3>3. t[1] = "increase"
      BY <3>1
    <3> QED BY <3>1, <3>2, <3>3
  <2>2. Holds(y, 3, t)
    <3>1. \A i \in 1 .. 1 : i = 1
      OBVIOUS
    <3>2. 3 + 1 - 1 = 3
      OBVIOUS
    <3> QED BY <1>2, <2>1, <3>1, <3>2 DEF Holds
  <2>3. 3 \in Nat /\ 3 \in Nat /\ 1 <= 3 /\ 3 = 3 + 1 - 1 /\ 3 <= l + 6
    BY ONLY <1>n
  <2>4. SubSeq(y, 3, 3) = t
    BY <1>1, <2>1, <2>2, <2>3, Cut
  <2> QED BY <2>1, <2>4
<1>6. PICK c : c = l + 7 /\ c \in Nat /\ 5 + 2 <= c /\ c <= l + 6 + 1 /\ ~ (c <= l + 6)
               /\ c - 1 = 7 + l - 1 /\ c - 1 \in Nat /\ c - 1 <= l + 6
  BY ONLY <1>n
<1>7. GetQueryString(y, "fileId") = SubSeq(y, 7, c - 1)
  <2>1. \A i \in 1 .. 5 - 1 : y[i] # "fileId"
    <3>1. \A i \in 1 .. 5 - 1 : i = 1 \/ i = 2 \/ i = 3 \/ i = 4
      OBVIOUS
    <3> QED BY <1>2, <3>1
  <2>2. \A i \in 5 + 2 .. c - 1 : y[i] \notin {"#", "&"}
    <3> TAKE i \in 5 + 2 .. c - 1
    <3>1. PICK j : j \in 1 .. l /\ i = 6 + j
      <4>1. i - 6 \in 1 .. l /\ i = 6 + (i - 6)
        BY ONLY <1>n, <1>6, i \in 5 + 2 .. c - 1
      <4> QED BY <4>1
    <3> QED BY <1>2, <3>1
  <2>3. ValueAt(y, "fileId", 5, c)
    <3>1. 5 \in Nat /\ 5 >= 1
      OBVIOUS
    <3> QED BY <1>1, <1>2, <1>6, <2>1, <2>2, <3>1 DEF ValueAt
  <2>4. 5 + 2 = 7
    OBVIOUS
  <2> QED BY <1>1, <1>3, <2>3, <2>4, ValueFound
<1>8. SubSeq(y, 7, c - 1) = e
  <2>1. Holds(y, 7, e)
    <3>1. ASSUME NEW i \in Nat, i \in 1 .. l PROVE y[7 + i - 1] = e[i]
      <4>1. 7 + i - 1 = 6 + i
        BY ONLY <3>1
      <4> QED BY <1>2, <3>1, <4>1
    <3> QED BY <1>1, <3>1 DEF Holds
  <2>2. 7 \in Nat /\ 1 <= 7
    OBVIOUS
  <2>3. PICK d : d = c - 1 /\ d \in Nat /\ d = 7 + Len(e) - 1 /\ d <= Len(y)
    BY <1>1, <1>6
  <2>4. SubSeq(y, 7, d) = e
    BY <1>1, <2>1, <2>2, <2>3, Cut
  <2> QED BY <2>3, <2>4
<1> QED BY <1>4, <1>5, <1>7, <1>8

\* The same with the file first: the command is read, unless the id has its letters.
LEMMA FileFirstRead ==
    ASSUME NEW y, NEW e, NEW l, FileFirst(y, e, l), \A i \in 1 .. l : e[i] \notin {"#", "&"}
    PROVE  /\ GetQueryString(y, "fileId") = e
           /\ (\A i \in 1 .. l : e[i] # "cmd") => GetQueryString(y, "cmd") = <<"increase">>
<1>1. y \in Seq(Tokens) /\ e \in Seq(Tokens) /\ l \in Nat /\ l = Len(e) /\ Len(y) = l + 6
  BY DEF FileFirst
<1>n. l \in Nat
  BY <1>1
<1>2. /\ y[1] = "fileId" /\ y[2] = "=" /\ (\A i \in 1 .. l : y[2 + i] = e[i])
      /\ y[l + 3] = "&" /\ y[l + 4] = "cmd" /\ y[l + 5] = "=" /\ y[l + 6] = "increase"
  BY DEF FileFirst
<1>3. "cmd" \in Tokens /\ "fileId" \in Tokens
  BY TokensSpelled
<1>4. PICK c : c = l + 3 /\ c \in Nat /\ 1 + 2 <= c /\ c <= l + 6 + 1
               /\ c - 1 = 3 + l - 1 /\ c - 1 \in Nat /\ c - 1 <= l + 6
  BY ONLY <1>n
<1>5. GetQueryString(y, "fileId") = SubSeq(y, 3, c - 1)
  <2>1. \A i \in 1 .. 1 - 1 : FALSE
    OBVIOUS
  <2>2. \A i \in 1 + 2 .. c - 1 : y[i] \notin {"#", "&"}
    <3> TAKE i \in 1 + 2 .. c - 1
    <3>1. PICK j : j \in 1 .. l /\ i = 2 + j
      <4>1. i - 2 \in 1 .. l /\ i = 2 + (i - 2)
        BY ONLY <1>n, <1>4, i \in 1 + 2 .. c - 1
      <4> QED BY <4>1
    <3> QED BY <1>2, <3>1
  <2>3. ValueAt(y, "fileId", 1, c)
    <3>1. 1 \in Nat /\ 1 >= 1
      OBVIOUS
    <3> QED BY <1>1, <1>2, <1>4, <2>1, <2>2, <3>1 DEF ValueAt
  <2>4. 1 + 2 = 3
    OBVIOUS
  <2> QED BY <1>1, <1>3, <2>3, <2>4, ValueFound
<1>6. SubSeq(y, 3, c - 1) = e
  <2>1. Holds(y, 3, e)
    <3>1. ASSUME NEW i \in Nat, i \in 1 .. l PROVE y[3 + i - 1] = e[i]
      <4>1. 3 + i - 1 = 2 + i
        BY ONLY <3>1
      <4> QED BY <1>2, <3>1, <4>1
    <3> QED BY <1>1, <3>1 DEF Holds
  <2>2. 3 \in Nat /\ 1 <= 3
    OBVIOUS
  <2>3. PICK d : d = c - 1 /\ d \in Nat /\ d = 3 + Len(e) - 1 /\ d <= Len(y)
    BY <1>1, <1>4
  <2>4. SubSeq(y, 3, d) = e
    BY <1>1, <2>1, <2>2, <2>3, Cut
  <2> QED BY <2>3, <2>4
<1>7. ASSUME \A i \in 1 .. l : e[i] # "cmd" PROVE GetQueryString(y, "cmd") = <<"increase">>
  <2>1. PICK k, b : /\ k = l + 4 /\ b = l + 7 /\ k \in Nat /\ b \in Nat /\ k >= 1 /\ k + 2 <= b
                    /\ b <= l + 6 + 1 /\ ~ (b <= l + 6)
                    /\ k + 2 = l + 6 /\ b - 1 = l + 6
                    /\ \A i \in l + 6 .. b - 1 : i = l + 6
    BY ONLY <1>n
  <2>2. \A i \in 1 .. k - 1 : y[i] # "cmd"
    <3> TAKE i \in 1 .. k - 1
    <3>1. i = 1 \/ i = 2 \/ i = l + 3 \/ (i - 2 \in 1 .. l /\ i = 2 + (i - 2))
      <4>1. k = l + 4
        BY <2>1
      <4> QED BY ONLY <1>n, <4>1, i \in 1 .. k - 1
    <3>2. i - 2 \in 1 .. l /\ i = 2 + (i - 2) => y[i] = e[i - 2] /\ e[i - 2] # "cmd"
      BY <1>2, <1>7
    <3> QED BY <1>2, <3>1, <3>2
  <2>3. \A i \in k + 2 .. b - 1 : y[i] \notin {"#", "&"}
    BY <1>2, <2>1
  <2>4. y[k] = "cmd"
    BY <1>2, <2>1
  <2>5. ValueAt(y, "cmd", k, b)
    BY <1>1, <2>1, <2>2, <2>3, <2>4 DEF ValueAt
  <2>6. GetQueryString(y, "cmd") = SubSeq(y, k + 2, b - 1)
    BY <1>1, <1>3, <2>5, ValueFound
  <2>7. PICK t : t = <<"increase">> /\ t \in Seq(Tokens) /\ Len(t) = 1 /\ t[1] = "increase"
    <3>1. PICK t : t = <<"increase">>
      OBVIOUS
    <3>2. t \in Seq(Tokens) /\ Len(t) = 1
      BY <3>1, ShortTexts
    <3>3. t[1] = "increase"
      BY <3>1
    <3> QED BY <3>1, <3>2, <3>3
  <2>8. PICK a : a = l + 6 /\ a \in Nat /\ 1 <= a /\ a = a + 1 - 1
    BY ONLY <1>n
  <2>9. Holds(y, a, t)
    <3>1. \A i \in 1 .. 1 : i = 1
      OBVIOUS
    <3>2. a + 1 - 1 = a
      BY ONLY <2>8
    <3> QED BY <1>2, <2>7, <2>8, <3>1, <3>2 DEF Holds
  <2>10. SubSeq(y, a, a) = t
    <3>1. a = a + Len(t) - 1 /\ a <= Len(y)
      <4>1. a <= l + 6
        BY ONLY <2>8, <1>n
      <4> QED BY <1>1, <2>7, <2>8, <4>1
    <3>2. y \in Seq(Tokens) /\ t \in Seq(Tokens)
      BY <1>1, <2>7
    <3>3. a \in Nat /\ 1 <= a
      BY <2>8
    <3> QED BY ONLY <2>9, <3>1, <3>2, <3>3, Cut
  <2> QED BY <2>1, <2>6, <2>7, <2>8, <2>10
<1> QED BY <1>5, <1>6, <1>7

\* What the escaped form of an id s is made of, and what becomes of it.
LEMMA EscapedIs ==
    ASSUME NEW s, s \in Seq(Tokens), \A i \in 1 .. Len(s) : s[i] \notin {"%", "#", "&"},
           NEW e, e = Escaped(s)
    PROVE  /\ e \in Seq(Tokens)
           /\ \A x \in 1 .. Len(e) : e[x] \notin {"#", "&"}
           /\ (\A i \in 1 .. Len(s) : s[i] # "cmd") => \A x \in 1 .. Len(e) : e[x] # "cmd"
           /\ StrReplace(e, Slash, <<"/">>, << >>) = s
<1>1. PICK n : n = Len(s)
  OBVIOUS
<1>2. PICK g : EscapedAt(Tokens, e, s, n, g)
  BY <1>1, TokensSpelled, EscapedLies
<1>3. \A i \in 1 .. n : s[i] \notin {"%", "#", "&"}
  BY <1>1
<1>4. ASSUME NEW x \in 1 .. Len(e)
      PROVE  e[x] \notin {"#", "&"} /\ (e[x] = "cmd" => \E i \in 1 .. n : s[i] = "cmd")
  <2>1. PICK i \in 1 .. n : TokenOf(e, s, g, i, x)
    BY <1>2, EscapedToken
  <2>2. e[x] = s[i] \/ e[x] \in {"%", "2", "F"}
    BY <2>1 DEF TokenOf
  <2> QED BY <1>3, <2>2
<1>5. StrReplace(e, Slash, <<"/">>, << >>) = s
  <2>1. \A i \in 1 .. n : s[i] # "%"
    BY <1>3
  <2> QED BY <1>2, <2>1, TokensSpelled, Rebuilt
<1>6. e \in Seq(Tokens)
  BY <1>2 DEF EscapedAt
<1> QED BY <1>1, <1>4, <1>5, <1>6

\* The token that strstr looks for is in the text.
LEMMA TokenThere ==
    ASSUME NEW s, s \in Seq(Tokens), NEW key, key \in Tokens, NEW i, i \in 1 .. Len(s),
           s[i] = key
    PROVE  Has(s, <<key>>)
<1>1. PICK l : l = Len(s) /\ l \in Nat
  <2>1. Len(s) \in Nat
    OBVIOUS
  <2> QED BY <2>1
<1>2. i \in 1 .. l
  BY <1>1
<1>3. i \in Int /\ 1 <= i /\ i <= l /\ 1 \in Nat /\ 1 >= 1
  BY ONLY <1>1, <1>2
<1>4. i <= Len(s)
  BY <1>1, <1>3
<1>5. i \in Places(s, <<key>>, 1)
  BY <1>3, <1>4, TokenPlaces
<1> QED BY <1>5 DEF Has

(* A click on a row names the row's file, in whatever order the client     *)
(* puts the parameters, and is only ignored when the id has the letters of *)
(* the command in it and comes first.                                      *)
LEMMA ClickRead ==
    ASSUME NEW s, s \in Seq(Tokens), \A i \in 1 .. Len(s) : s[i] \notin {"%", "#", "&"},
           NEW f, f = <<"fileId", "=">> \o Escaped(s),
           NEW y, y \in {CmdPart \o <<"&">> \o f, f \o <<"&">> \o CmdPart}
    PROVE  /\ StrReplace(GetQueryString(y, "fileId"), Slash, <<"/">>, << >>) = s
           /\ GetQueryString(y, "cmd") # <<"increase">> =>
                 Has(s, <<"cmd">>) /\ y[1] = "fileId"
<1>1. PICK e, l : e = Escaped(s) /\ l = Len(e)
  OBVIOUS
<1>2. /\ e \in Seq(Tokens) /\ (\A x \in 1 .. l : e[x] \notin {"#", "&"})
      /\ (\A i \in 1 .. Len(s) : s[i] # "cmd") => \A x \in 1 .. l : e[x] # "cmd"
      /\ StrReplace(e, Slash, <<"/">>, << >>) = s
  BY <1>1, EscapedIs
<1>3. CASE y = CmdPart \o <<"&">> \o f
  <2>1. CmdFirst(y, e, l)
    BY <1>1, <1>2, <1>3, CmdFirstLies
  <2>2. GetQueryString(y, "cmd") = <<"increase">> /\ GetQueryString(y, "fileId") = e
    BY <1>2, <2>1, CmdFirstRead
  <2> QED BY <1>2, <2>2
<1>4. CASE y = f \o <<"&">> \o CmdPart
  <2>1. FileFirst(y, e, l)
    BY <1>1, <1>2, <1>4, FileFirstLies
  <2>2. /\ GetQueryString(y, "fileId") = e
        /\ (\A x \in 1 .. l : e[x] # "cmd") => GetQueryString(y, "cmd") = <<"increase">>
    BY <1>2, <2>1, FileFirstRead
  <2>3. y[1] = "fileId"
    BY <2>1 DEF FileFirst
  <2>4. ASSUME GetQueryString(y, "cmd") # <<"increase">> PROVE Has(s, <<"cmd">>)
    <3>1. PICK i \in 1 .. Len(s) : s[i] = "cmd"
      BY <1>2, <2>2, <2>4
    <3>2. "cmd" \in Tokens
      BY TokensSpelled
    <3> QED BY <3>1, <3>2, TokenThere
  <2> QED BY <1>2, <2>2, <2>3, <2>4
<1> QED BY <1>3, <1>4

\* Where get_value_by_redis finds the end of the first field.
LEMMA FirstBegins ==
    ASSUME NEW s
    PROVE  Begin(s)[0] = 1 /\ Begin(s)[1] = StrStr(s, Delim, 1) + Len(Delim)
<1>1. PICK a, b, c, d, e : /\ a = StrStr(s, Delim, 1) + Len(Delim)
                           /\ b = StrStr(s, Delim, a) + Len(Delim)
                           /\ c = StrStr(s, Delim, b) + Len(Delim)
                           /\ d = StrStr(s, Delim, c) + Len(Delim)
                           /\ e = StrStr(s, Delim, d) + Len(Delim)
  OBVIOUS
<1>2. PICK g : g = [n \in 0 .. 5 |-> IF n = 0 THEN 1 ELSE IF n = 1 THEN a ELSE
                       IF n = 2 THEN b ELSE IF n = 3 THEN c ELSE IF n = 4 THEN d ELSE e]
  OBVIOUS
<1>3. g[0] = 1 /\ g[1] = a /\ g[2] = b /\ g[3] = c /\ g[4] = d /\ g[5] = e
  BY <1>2
<1>4. ASSUME NEW n \in 0 .. 5
      PROVE  g[n] = IF n = 0 THEN 1 ELSE StrStr(s, Delim, g[n - 1]) + Len(Delim)
  <2>1. n = 0 \/ n = 1 \/ n = 2 \/ n = 3 \/ n = 4 \/ n = 5
    OBVIOUS
  <2>2. 1 - 1 = 0 /\ 2 - 1 = 1 /\ 3 - 1 = 2 /\ 4 - 1 = 3 /\ 5 - 1 = 4
    OBVIOUS
  <2>3. /\ n = 1 => n # 0 /\ g[n] = StrStr(s, Delim, g[n - 1]) + Len(Delim)
        /\ n = 2 => n # 0 /\ g[n] = StrStr(s, Delim, g[n - 1]) + Len(Delim)
        /\ n = 3 => n # 0 /\ g[n] = StrStr(s, Delim, g[n - 1]) + Len(Delim)
        /\ n = 4 => n # 0 /\ g[n] = StrStr(s, Delim, g[n - 1]) + Len(Delim)
        /\ n = 5 => n # 0 /\ g[n] = StrStr(s, Delim, g[n - 1]) + Len(Delim)
    BY <1>1, <1>3, <2>2
  <2> QED BY <1>3, <2>1, <2>3
<1>5. g = [n \in 0 .. 5 |-> IF n = 0 THEN 1 ELSE StrStr(s, Delim, g[n - 1]) + Len(Delim)]
  <2>1. g = [n \in 0 .. 5 |-> g[n]]
    BY <1>2
  <2> QED BY <1>4, <2>1
<1>6. \E b_ : b_ = [n \in 0 .. 5 |-> IF n = 0 THEN 1 ELSE StrStr(s, Delim, b_[n - 1]) + Len(Delim)]
  BY <1>5
<1>7. PICK f : /\ f = Begin(s)
               /\ f = [n \in 0 .. 5 |->
                         IF n = 0 THEN 1 ELSE StrStr(s, Delim, f[n - 1]) + Len(Delim)]
  BY <1>6 DEF Begin
<1>8. f[0] = 1 /\ f[1] = StrStr(s, Delim, f[1 - 1]) + Len(Delim)
  <2>1. 0 \in 0 .. 5 /\ 1 \in 0 .. 5 /\ 1 # 0
    OBVIOUS
  <2> QED BY <1>7, <2>1, Zenon
<1>9. 1 - 1 = 0
  OBVIOUS
<1> QED BY <1>7, <1>8, <1>9, Zenon

\* The first fields are read up to the delimiter behind them.
LEMMA EarlyField ==
    ASSUME NEW s, NEW n, n \in 1 .. 3
    PROVE  Get(s, n) = SubSeq(s, Begin(s)[n - 1], Begin(s)[n] - Len(Delim) - 1)
<1>1. n # 4 /\ n # 5 /\ n # 6
  OBVIOUS
<1> QED BY <1>1, Zenon DEF Get

\* The first field a row shows is at most the one of the record: whatever the
\* fields are, a delimiter follows it.
LEMMA FirstField ==
    ASSUME NEW f, f \in [Words -> Seq(Letters)], NEW s, s = Value(f), NEW t, t = Get(s, 1)
    PROVE  t \in Seq(Letters) /\ Among(t, f[1])
<1>1. Bar \in Letters
  BY Spelled
<1>2. s \in Seq(Letters) /\ Lies(s, f)
  BY <1>1, ValueLies
<1>3. PICK k, e : k \in Nat /\ e \in Nat /\ FieldAt(s, f, 1, k, e)
  <2>1. 1 \in 1 .. 5
    OBVIOUS
  <2> QED BY <1>2, <2>1, FieldLies
<1>4. PICK u, c, l : /\ u = f[1] /\ u \in Seq(Letters) /\ c = Len(u) /\ c \in Nat
                     /\ l = Len(s) /\ l \in Nat
  <2>1. f[1] \in Seq(Letters)
    BY DEF Words
  <2>2. Len(f[1]) \in Nat /\ Len(s) \in Nat
    BY <1>2, <2>1
  <2> QED BY <2>1, <2>2
<1>n. c \in Nat /\ l \in Nat
  BY <1>4
<1>5. k = 1 /\ e = k + c /\ e + 1 <= l /\ Holds(s, k, u) /\ TwoBars(s, e)
  <2>1. Start(f)[0] = 1
    BY StartSteps
  <2>2. 1 - 1 = 0
    OBVIOUS
  <2> QED BY <1>3, <1>4, <2>1, <2>2 DEF FieldAt
<1>6. PICK P : P = Places(s, Delim, 1)
  OBVIOUS
<1>7. P \subseteq Int /\ \A x \in Int : x \in P <=> 1 <= x /\ x + 1 <= l /\ TwoBars(s, x)
  <2>1. 1 \in Nat /\ 1 >= 1
    OBVIOUS
  <2> QED BY <1>1, <1>2, <1>4, <1>6, <2>1, DelimPlaces
<1>8. P \subseteq Nat /\ e \in P
  <2>1. e \in Int /\ 1 <= e
    BY ONLY <1>4, <1>5, e \in Nat
  <2>2. ASSUME NEW x \in P PROVE x \in Nat
    <3>1. x \in Int /\ 1 <= x
      BY <1>7
    <3> QED BY ONLY <3>1
  <2> QED BY <1>5, <1>7, <2>1, <2>2
<1>9. PICK m : m = StrStr(s, Delim, 1) /\ m \in P /\ m <= e
  <2>1. Min(P) \in P /\ \A x \in P : Min(P) <= x
    BY <1>8, LeastOf
  <2> QED BY <1>6, <1>8, <2>1 DEF StrStr
<1>10. PICK b : b = m - 1 /\ b \in Nat /\ b <= c /\ b <= l /\ m + 2 - 2 - 1 = b /\ b \in Int
  <2>1. m \in Int /\ 1 <= m
    BY <1>7, <1>9
  <2>2. k = 1 /\ e = k + c /\ e + 1 <= l
    BY <1>5
  <2>3. c \in Nat /\ l \in Nat
    BY <1>4
  <2> QED BY ONLY <1>9, <2>1, <2>2, <2>3
<1>11. t = SubSeq(s, 1, b)
  <2>1. Len(Delim) = 2
    BY DEF Delim
  <2>2. Begin(s)[0] = 1 /\ Begin(s)[1] = m + 2
    BY <1>9, <2>1, FirstBegins
  <2>3. PICK n : n = 1 /\ n \in 1 .. 3 /\ n - 1 = 0
    OBVIOUS
  <2>4. Get(s, n) = SubSeq(s, Begin(s)[n - 1], Begin(s)[n] - Len(Delim) - 1)
    BY <2>3, EarlyField
  <2>5. Get(s, 1) = SubSeq(s, Begin(s)[0], Begin(s)[1] - Len(Delim) - 1)
    BY <2>3, <2>4, Zenon
  <2>6. PICK x, y, z : /\ x = Begin(s)[1] /\ y = Len(Delim) /\ x = m + 2 /\ y = 2
                       /\ z = x - y - 1 /\ Get(s, 1) = SubSeq(s, 1, z)
    <3>1. PICK x, y, z : x = Begin(s)[1] /\ y = Len(Delim) /\ z = x - y - 1
      OBVIOUS
    <3>2. Get(s, 1) = SubSeq(s, 1, z)
      BY <2>2, <2>5, <3>1, Zenon
    <3> QED BY <2>1, <2>2, <3>1, <3>2
  <2>7. z = b
    <3>1. x = m + 2 /\ y = 2 /\ z = x - y - 1
      BY <2>6
    <3>2. m \in Int
      BY <1>7, <1>9
    <3> QED BY ONLY <1>10, <3>1, <3>2
  <2> QED BY <2>6, <2>7, Zenon
<1>12. t \in Seq(Letters) /\ Len(t) = b /\ \A i \in 1 .. b : t[i] = s[i]
  <2>1. \A i \in 1 .. b : s[i] \in Letters
    <3>1. \A i \in 1 .. b : i \in 1 .. l
      BY ONLY <1>n, <1>10
    <3> QED BY <1>2, <1>4, <3>1
  <2>2. 1 \in Int /\ b \in Int
    BY <1>10
  <2>3. /\ SubSeq(s, 1, b) \in Seq(Letters)
        /\ Len(SubSeq(s, 1, b)) = IF 1 <= b THEN b - 1 + 1 ELSE 0
        /\ \A i \in 1 .. b - 1 + 1 : SubSeq(s, 1, b)[i] = s[1 + i - 1]
    BY ONLY <2>1, <2>2, SubSeqProperties
  <2>4. /\ (IF 1 <= b THEN b - 1 + 1 ELSE 0) = b /\ b - 1 + 1 = b
        /\ \A i \in 1 .. b : 1 + i - 1 = i
    BY ONLY <1>10
  <2> QED BY <1>11, <2>3, <2>4
<1>13. \A i \in 1 .. b : s[i] = u[i] /\ i \in 1 .. c
  <2> TAKE i \in 1 .. b
  <2>1. i \in Nat /\ i \in 1 .. c /\ 1 + i - 1 = i
    BY ONLY <1>n, <1>10, i \in 1 .. b
  <2> QED BY <1>4, <1>5, <2>1 DEF Holds
<1>14. Among(t, u)
  BY <1>4, <1>12, <1>13 DEF Among
<1> QED BY <1>4, <1>12, <1>14

-----------------------------------------------------------------------------
(* A click.                                                                *)

\* No id has a character that a query gives a meaning of its own.
PlainIds == \A g \in Given : \A i \in 1 .. Len(g.printed) : g.printed[i] \notin {"%", "#", "&"}

\* What a click and data_cgi make of the row.
Asked ==
    /\ pc \in {"shown", "clicked", "counted", "ignored"} =>
          row = [n \in Columns |-> Get(Element, n)]
    /\ pc \in {"clicked", "counted", "ignored"} => query \in Queries
    /\ pc \in {"counted", "ignored"} => cmd = GetQueryString(query, "cmd")
    /\ pc = "counted" => member = StrReplace(GetQueryString(query, "fileId"), Slash, <<"/">>, junk)
    /\ pc = "ignored" => cmd # <<"increase">>

\* Every action keeps that.
LEMMA AskedKept == Asked /\ [Next]_vars => Asked'
<1> SUFFICES ASSUME Asked, [Next]_vars PROVE Asked'
  OBVIOUS
<1>1. ASSUME \/ UploadFile \/ UploadFileCrashes \/ FdfsClient \/ GetUrl \/ GetUrlCrashes
             \/ ReadRowCrashes
      PROVE  Asked'
  <2>1. pc' \in {"end", "fdfs", "no_file", "url", "listed", "no_url", "no_row"}
    BY <1>1 DEF UploadFile, UploadFileCrashes, FdfsClient, GetUrl, GetUrlCrashes, ReadRowCrashes
  <2> QED BY <2>1 DEF Asked
<1>2. ASSUME ReadRow PROVE Asked'
  <2>1. /\ pc' = "shown" /\ row' = [n \in Columns |-> Get(Element, n)]
        /\ name' = name /\ id' = id /\ url' = url
    BY <1>2 DEF ReadRow, upload, remote
  <2>2. Element' = Element
    BY <2>1 DEF Element, Record
  <2> QED BY <2>1, <2>2 DEF Asked
<1>3. ASSUME Click PROVE Asked'
  <2>1. /\ pc = "shown" /\ pc' = "clicked" /\ query' \in Queries /\ row' = row
        /\ name' = name /\ id' = id /\ url' = url
    BY <1>3 DEF Click, upload, remote, shown
  <2>2. Element' = Element /\ Queries' = Queries
    BY <2>1 DEF Element, Record, Queries, FilePart, CmdPart
  <2> QED BY <2>1, <2>2 DEF Asked
<1>4. ASSUME Increase PROVE Asked'
  <2>1. /\ pc = "clicked" /\ query' = query /\ row' = row
        /\ name' = name /\ id' = id /\ url' = url
        /\ cmd' = GetQueryString(query, "cmd")
        /\ \/ /\ pc' = "counted"
              /\ member' = StrReplace(GetQueryString(query, "fileId"), Slash, <<"/">>, junk')
           \/ pc' = "ignored" /\ cmd' # <<"increase">>
    BY <1>4 DEF Increase, upload, remote, shown, Slash
  <2>2. Element' = Element /\ Queries' = Queries
    BY <2>1 DEF Element, Record, Queries, FilePart, CmdPart
  <2> QED BY <2>1, <2>2 DEF Asked
<1>5. ASSUME UNCHANGED vars PROVE Asked'
  <2>1. UNCHANGED <<pc, name, id, url, row, query, junk, cmd, member>>
    BY <1>5 DEF vars, upload, remote, shown, click
  <2>2. Element' = Element /\ Queries' = Queries
    BY <2>1 DEF Element, Record, Queries, FilePart, CmdPart
  <2> QED BY <2>1, <2>2 DEF Asked
<1> QED BY <1>1, <1>2, <1>3, <1>4, <1>5 DEF Next

\* The id a row shows has only characters the tool printed.
LEMMA RowIsPlain ==
    ASSUME IInv, PlainIds, NEW s, s = Get(Element, 1)
    PROVE  s \in Seq(Tokens) /\ \A i \in 1 .. Len(s) : s[i] \notin {"%", "#", "&"}
<1>1. PICK r : r = Record /\ r \in [Words -> Seq(Letters)] /\ r[1] = id
  <2>1. Record[1] = id
    BY DEF Record
  <2> QED BY <2>1, RecordIsText
<1>2. PICK t : t = Get(Value(r), 1) /\ t = s /\ t \in Seq(Letters) /\ Among(t, r[1])
  <2>1. s = Get(Value(r), 1)
    BY <1>1 DEF Element
  <2> QED BY <1>1, <2>1, FirstField
<1>3. PICK g, p, w : /\ g = given /\ p = g.printed /\ w = TrimSpace(p) /\ Possible(g)
                     /\ id \in {<< >>, w} /\ p \in Seq(Letters)
                     /\ \A i \in 1 .. Len(p) : p[i] \notin {"%", "#", "&"}
  <2>1. PICK g, p, w : g = given /\ p = g.printed /\ w = TrimSpace(p)
    OBVIOUS
  <2>2. Possible(g) /\ id \in {<< >>, w} /\ \A i \in 1 .. Len(p) : p[i] \notin {"%", "#", "&"}
    BY <2>1, GivenAssumption DEF IInv, Named, PlainIds
  <2>3. p \in Seq(Letters)
    BY <2>1, <2>2, GivenTexts
  <2> QED BY <2>1, <2>2, <2>3
<1>4. Among(w, p)
  BY <1>3, Trimmed
<1>5. \A i \in 1 .. Len(id) : id[i] \notin {"%", "#", "&"}
  <2>1. CASE id = << >>
    <3>1. Len(id) = 0
      BY <2>1
    <3> QED BY <3>1
  <2>2. CASE id = w
    BY <1>3, <1>4, <2>2 DEF Among
  <2> QED BY <1>3, <2>1, <2>2
<1>6. \A i \in 1 .. Len(t) : t[i] \notin {"%", "#", "&"}
  BY <1>1, <1>2, <1>5 DEF Among
<1>7. t \in Seq(Tokens)
  BY <1>2, TokensSpelled, Wider
<1> QED BY <1>2, <1>6, <1>7

(* A click counts for the file of its row, however the client orders the   *)
(* parameters, unless the memory of str_replace was not clean; it is       *)
(* ignored only for an id with the letters of the command, put first.      *)
(* This needs an id without the characters a query is taken apart at       *)
(* (usefull.c 434-475, data_use.c 343-406).                                *)
THEOREM ClickIsOfRow ==
    ASSUME PlainIds
    PROVE  Spec => []ClickNamesRow
<1>1. Init => Asked
  BY DEF Init, Asked
<1>2. ASSUME IInv, Asked PROVE ClickNamesRow
  <2>1. PICK s : s = Get(Element, 1)
    OBVIOUS
  <2>2. s \in Seq(Tokens) /\ \A i \in 1 .. Len(s) : s[i] \notin {"%", "#", "&"}
    BY <1>2, <2>1, RowIsPlain
  <2>3. ASSUME pc \in {"counted", "ignored"}
        PROVE  /\ row[1] = s
               /\ StrReplace(GetQueryString(query, "fileId"), Slash, <<"/">>, << >>) = s
               /\ GetQueryString(query, "cmd") # <<"increase">> =>
                     Has(s, <<"cmd">>) /\ query[1] = "fileId"
    <3>1. row = [n \in Columns |-> Get(Element, n)] /\ query \in Queries
      BY <1>2, <2>3 DEF Asked
    <3>2. 1 \in Columns
      BY DEF Columns, Words
    <3>3. row[1] = s
      BY <2>1, <3>1, <3>2
    <3>4. PICK f, y : /\ f = <<"fileId", "=">> \o Escaped(s) /\ y = query
                      /\ y \in {CmdPart \o <<"&">> \o f, f \o <<"&">> \o CmdPart}
      BY <3>1, <3>3 DEF Queries, FilePart
    <3>5. /\ StrReplace(GetQueryString(y, "fileId"), Slash, <<"/">>, << >>) = s
          /\ GetQueryString(y, "cmd") # <<"increase">> =>
                Has(s, <<"cmd">>) /\ y[1] = "fileId"
      BY ONLY <2>2, <3>4, ClickRead
    <3> QED BY <3>3, <3>4, <3>5
  <2>4. ASSUME pc = "counted", junk = << >> PROVE member = row[1]
    BY <1>2, <2>3, <2>4 DEF Asked
  <2>5. ASSUME pc = "ignored" PROVE Has(row[1], <<"cmd">>) /\ query[1] = "fileId"
    BY <1>2, <2>3, <2>5 DEF Asked
  <2> QED BY <2>4, <2>5 DEF ClickNamesRow
<1> QED BY <1>1, <1>2, Always, AskedKept, PTL DEF Spec
=============================================================================
