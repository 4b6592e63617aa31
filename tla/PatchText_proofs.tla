--------------------------- MODULE PatchText_proofs ---------------------------
(***************************************************************************)
(* For files and patches of any length: putting the hunks on the lines one *)
(* after another gives what the diff means, and hunks made from the file   *)
(* are put on it unless the parser takes a line of them for something else.*)
(***************************************************************************)
EXTENDS PatchText, Integers, SequenceTheorems, WellFoundedInduction, TLAPS

(* A set with 0 and with the successors of its numbers has all of them: the*)
(* least number outside would have a predecessor in it.                    *)
LEMMA UpTo ==
  ASSUME NEW l \in Nat, NEW Good \in SUBSET (0..l), 0 \in Good,
         \A n \in 1..l : n - 1 \in Good => n \in Good
  PROVE  Good = 0..l
<1> DEFINE Less == {ss \in Nat \X Nat : ss[1] < ss[2]}
           Bad == (0..l) \ Good
<1>1. IsWellFoundedOn(Less, Nat)
  BY NatLessThanWellFounded DEF OpToRel
<1>2. Bad \subseteq Nat
  OBVIOUS
<1>3. ASSUME Bad # {} PROVE FALSE
  <2> HIDE DEF Bad, Less
  <2>1. PICK x \in Bad : \A y \in Bad : ~ (<<y, x>> \in Less)
    BY <1>1, <1>2, <1>3, WFMin
  <2>2. x - 1 \in Bad => ~ (<<x - 1, x>> \in Less)
    BY <2>1
  <2>3. x \in 1..l /\ x - 1 \in 0..l
    BY <2>1 DEF Bad
  <2>4. <<x - 1, x>> \in Less
    BY <2>3 DEF Less
  <2> QED BY <2>1, <2>2, <2>3, <2>4 DEF Bad
<1> QED BY <1>3

-----------------------------------------------------------------------------
(* The parser                                                              *)

(* What a line may read.                                                   *)
Line == Nat \cup UNION {{b[i].text : i \in DOMAIN b} : b \in Bodies}
Hunks == UNION {Hunk(b) : b \in Bodies}

LEMMA BodyType ==
  ASSUME NEW b \in Bodies
  PROVE  Len(b) \in Nat /\ \A i \in 1..Len(b) : b[i].text \in Line
<1>1. b \in Seq({b[i] : i \in DOMAIN b})
  BY BodyAssumption
<1>2. Len(b) \in Nat /\ DOMAIN b = 1..Len(b)
  BY <1>1, LenProperties
<1> QED BY <1>2 DEF Line

Collects(f, body, marks, l) ==
    f = [n \in 0..l |->
            IF n = 0 THEN <<>>
            ELSE IF body[n].mark \in marks THEN Append(f[n - 1], body[n].text)
            ELSE f[n - 1]]

LEMMA CollectsAt ==
  ASSUME NEW f, NEW body, NEW marks, NEW l \in Nat, Collects(f, body, marks, l)
  PROVE  /\ f[0] = <<>>
         /\ \A n \in 1..l :
               f[n] = IF body[n].mark \in marks THEN Append(f[n - 1], body[n].text)
                      ELSE f[n - 1]
<1> DEFINE e(n) == IF n = 0 THEN <<>>
                   ELSE IF body[n].mark \in marks THEN Append(f[n - 1], body[n].text)
                   ELSE f[n - 1]
<1>1. f = [n \in 0..l |-> e(n)]
  BY DEF Collects
<1> HIDE DEF e
<1>2. \A n \in 0..l : f[n] = e(n)
  BY <1>1
<1>3. f[0] = e(0) /\ \A n \in 1..l : n # 0 /\ f[n] = e(n)
  BY <1>2
<1> QED BY <1>3 DEF e

LEMMA TextsType ==
  ASSUME NEW b \in Bodies, NEW marks
  PROVE  Texts(b, marks) \in Seq(Line)
<1> DEFINE f == CHOOSE f : Collects(f, b, marks, Len(b))
<1>1. Len(b) \in Nat /\ \A i \in 1..Len(b) : b[i].text \in Line
  BY BodyType
<1>2. \E g : Collects(g, b, marks, Len(b))
  <2> DEFINE Good == {n \in 0..Len(b) : \E g : Collects(g, b, marks, n)}
  <2>1. 0 \in Good
    <3>1. Collects([k \in 0..0 |-> <<>>], b, marks, 0)
      BY DEF Collects
    <3> QED BY <1>1, <3>1
  <2>2. ASSUME NEW n \in 1..Len(b), n - 1 \in Good PROVE n \in Good
    <3>1. PICK g : Collects(g, b, marks, n - 1)
      BY <2>2
    <3> DEFINE last == IF b[n].mark \in marks THEN Append(g[n - 1], b[n].text) ELSE g[n - 1]
               h == [k \in 0..n |-> IF k = n THEN last ELSE g[k]]
    <3>2. ASSUME NEW k \in 0..n
          PROVE  h[k] = IF k = 0 THEN <<>>
                        ELSE IF b[k].mark \in marks THEN Append(h[k - 1], b[k].text)
                        ELSE h[k - 1]
      <4>1. CASE k = n
        <5>1. n # 0 /\ n - 1 # n /\ n - 1 \in 0..n /\ h[n - 1] = g[n - 1] /\ h[n] = last
          BY <1>1
        <5> QED BY <4>1, <5>1
      <4>2. CASE k # n
        <5>1. n - 1 \in Nat /\ k \in 0..(n - 1) /\ h[k] = g[k]
          BY <1>1, <4>2
        <5>2. k # 0 => k \in 1..(n - 1) /\ h[k - 1] = g[k - 1]
          BY <1>1, <5>1
        <5> HIDE DEF h
        <5> QED BY <3>1, <5>1, <5>2, CollectsAt
      <4> QED BY <4>1, <4>2
    <3>3. Collects(h, b, marks, n)
      BY <3>2 DEF Collects
    <3> QED BY <3>3
  <2> HIDE DEF Good
  <2>3. Good = 0..Len(b)
    <3>1. Good \in SUBSET (0..Len(b))
      BY DEF Good
    <3> QED BY <1>1, <2>1, <2>2, <3>1, UpTo
  <2>4. Len(b) \in Good
    BY <1>1, <2>3
  <2> QED BY <2>4 DEF Good
<1>3. Collects(f, b, marks, Len(b))
  BY <1>2
<1>4. Texts(b, marks) = f[Len(b)]
  BY DEF Texts, Collects
<1> HIDE DEF f
<1> DEFINE Good == {n \in 0..Len(b) : f[n] \in Seq(Line)}
<1>5. 0 \in Good
  <2>1. f[0] = <<>> /\ 0 \in 0..Len(b)
    BY <1>1, <1>3, CollectsAt
  <2> QED BY <2>1, EmptySeq
<1>6. ASSUME NEW n \in 1..Len(b), n - 1 \in Good PROVE n \in Good
  <2>1. f[n] = IF b[n].mark \in marks THEN Append(f[n - 1], b[n].text) ELSE f[n - 1]
    BY <1>1, <1>3, CollectsAt
  <2>2. f[n - 1] \in Seq(Line) /\ b[n].text \in Line
    BY <1>1, <1>6
  <2>3. Append(f[n - 1], b[n].text) \in Seq(Line)
    BY <2>2, AppendProperties
  <2>4. f[n] \in Seq(Line)
    BY <2>1, <2>2, <2>3
  <2> QED BY <1>1, <2>4
<1>7. Good = 0..Len(b)
  <2>1. Good \in SUBSET (0..Len(b))
    OBVIOUS
  <2> HIDE DEF Good
  <2> QED BY <1>1, <1>5, <1>6, <2>1, UpTo
<1> QED BY <1>1, <1>4, <1>7

LEMMA HunkType ==
  ASSUME NEW h \in Hunks
  PROVE  /\ h.start \in Nat /\ h.oldEnds \in BOOLEAN /\ h.newEnds \in BOOLEAN
         /\ Old(h) \in Seq(Line) /\ New(h) \in Seq(Line) /\ OldCount(h) \in Nat
<1>1. PICK b \in Bodies : h \in Hunk(b)
  BY DEF Hunks
<1>2. h.start \in Nat /\ h.body = b /\ h.oldEnds \in BOOLEAN /\ h.newEnds \in BOOLEAN
  BY <1>1, BoundAssumption DEF Hunk
<1>3. \A marks : Texts(h.body, marks) \in Seq(Line)
  BY <1>2, TextsType
<1>4. Old(h) \in Seq(Line) /\ New(h) \in Seq(Line)
  BY <1>3, Zenon DEF Old, New
<1> QED BY <1>2, <1>4, LenProperties DEF OldCount

-----------------------------------------------------------------------------
(* The lines a hunk leaves alone                                           *)

LEMMA DropConcat ==
  ASSUME NEW S, NEW a \in Seq(S), NEW c \in Seq(S), NEW n \in Nat, n <= Len(a)
  PROVE  SubSeq(a \o c, n + 1, Len(a \o c)) = SubSeq(a, n + 1, Len(a)) \o c
<1> DEFINE x == SubSeq(a \o c, n + 1, Len(a \o c))
           y == SubSeq(a, n + 1, Len(a))
           w == y \o c
<1>1. /\ a \o c \in Seq(S) /\ Len(a \o c) = Len(a) + Len(c) /\ Len(a) \in Nat /\ Len(c) \in Nat
      /\ \A i \in 1..(Len(a) + Len(c)) : (a \o c)[i] = IF i <= Len(a) THEN a[i] ELSE c[i - Len(a)]
  BY ConcatProperties
<1>2. /\ x \in Seq(S) /\ Len(x) = Len(a) + Len(c) - n
      /\ \A i \in 1..(Len(a) + Len(c) - n) : x[i] = (a \o c)[n + i]
  <2> HIDE <1>1
  <2>1. a \o c \in Seq(S) /\ Len(a \o c) = Len(a) + Len(c) /\ Len(a) \in Nat /\ Len(c) \in Nat
    BY <1>1
  <2> QED BY <2>1
<1>3. /\ y \in Seq(S) /\ Len(y) = Len(a) - n
      /\ \A i \in 1..(Len(a) - n) : y[i] = a[n + i]
  OBVIOUS
<1> HIDE DEF y
<1>4. /\ w \in Seq(S) /\ Len(w) = Len(y) + Len(c)
      /\ \A i \in 1..(Len(y) + Len(c)) : w[i] = IF i <= Len(y) THEN y[i] ELSE c[i - Len(y)]
  BY <1>3, ConcatProperties
<1> HIDE DEF x, w
<1>5. ASSUME NEW i \in 1..Len(x) PROVE x[i] = w[i]
  <2>1. x[i] = IF n + i <= Len(a) THEN a[n + i] ELSE c[(n + i) - Len(a)]
    BY <1>1, <1>2
  <2>2. w[i] = IF i <= Len(a) - n THEN a[n + i] ELSE c[i - (Len(a) - n)]
    BY <1>1, <1>2, <1>3, <1>4
  <2>3. (n + i) - Len(a) = i - (Len(a) - n) /\ (n + i <= Len(a) <=> i <= Len(a) - n)
    BY <1>1
  <2> QED BY <2>1, <2>2, <2>3
<1>6. x \in Seq(S) /\ w \in Seq(S) /\ Len(x) = Len(w)
  BY <1>1, <1>2, <1>3, <1>4
<1>7. x = w
  BY <1>5, <1>6, SeqEqual
<1> QED BY <1>7 DEF x, w, y

Associates(a, b, c) == a \o (b \o c) = (a \o b) \o c
Regroups(a, b, c, d) == a \o ((b \o c) \o d) = ((a \o b) \o c) \o d

LEMMA Associated ==
  ASSUME NEW S, NEW a \in Seq(S), NEW b \in Seq(S), NEW c \in Seq(S)
  PROVE  Associates(a, b, c)
BY DEF Associates

LEMMA Regrouped ==
  ASSUME NEW S, NEW a \in Seq(S), NEW b \in Seq(S), NEW c \in Seq(S), NEW d \in Seq(S)
  PROVE  Regroups(a, b, c, d)
<1> DEFINE e == b \o c
<1>1. e \in Seq(S)
  BY ConcatProperties
<1> HIDE DEF e
<1>2. Associates(a, e, d) /\ Associates(a, b, c)
  BY <1>1, Associated
<1> QED BY <1>2 DEF Associates, Regroups, e

(* The first lines of a sequence, and what is left of them.                *)
LEMMA HeadIs ==
  ASSUME NEW S, NEW s \in Seq(S), NEW b \in Nat, b <= Len(s)
  PROVE  /\ SubSeq(s, 1, b) \in Seq(S) /\ Len(SubSeq(s, 1, b)) = b
         /\ \A i \in 1..b : SubSeq(s, 1, b)[i] = s[i]
OBVIOUS

LEMMA SameHead ==
  ASSUME NEW S, NEW s \in Seq(S), NEW t \in Seq(S), NEW b \in Nat,
         b <= Len(s), b <= Len(t), \A i \in 1..b : s[i] = t[i]
  PROVE  SubSeq(s, 1, b) = SubSeq(t, 1, b)
<1> DEFINE p == SubSeq(s, 1, b)
           q == SubSeq(t, 1, b)
<1>1. p \in Seq(S) /\ Len(p) = b /\ \A i \in 1..b : p[i] = s[i]
  BY HeadIs
<1>2. q \in Seq(S) /\ Len(q) = b /\ \A i \in 1..b : q[i] = t[i]
  BY HeadIs
<1> HIDE DEF p, q
<1>3. p = q
  BY <1>1, <1>2, SeqEqual
<1> QED BY <1>3 DEF p, q

LEMMA DropHead ==
  ASSUME NEW S, NEW t \in Seq(S), NEW u \in Nat, NEW b \in Nat, u <= b, b <= Len(t)
  PROVE  SubSeq(SubSeq(t, 1, b), u + 1, b) = SubSeq(t, u + 1, b)
<1> DEFINE p == SubSeq(t, 1, b)
           x == SubSeq(p, u + 1, b)
           y == SubSeq(t, u + 1, b)
<1>1. p \in Seq(S) /\ Len(p) = b /\ \A i \in 1..b : p[i] = t[i]
  BY HeadIs
<1>2. y \in Seq(S) /\ Len(y) = b - u /\ \A i \in 1..(b - u) : y[i] = t[u + i]
  OBVIOUS
<1> HIDE DEF p, y
<1>3. x \in Seq(S) /\ Len(x) = b - u /\ \A i \in 1..(b - u) : x[i] = p[u + i]
  BY <1>1
<1> HIDE DEF x
<1>4. ASSUME NEW i \in 1..Len(x) PROVE x[i] = y[i]
  <2>1. i \in 1..(b - u) /\ u + i \in 1..b
    BY <1>3
  <2> QED BY <1>1, <1>2, <1>3, <2>1
<1>5. x = y
  BY <1>2, <1>3, <1>4, SeqEqual
<1> QED BY <1>5 DEF x, y, p

(* The first b lines of s, and others.                                     *)
Spliced(s, b, m, q) == (SubSeq(s, 1, b) \o m) \o q

(* r starts like t, and what follows line u of it is u to b of t, m and q. *)
Continues(r, t, u, b, m, q) ==
    /\ Len(r) >= b /\ \A i \in 1..b : r[i] = t[i]
    /\ SubSeq(r, u + 1, Len(r)) = (SubSeq(t, u + 1, b) \o m) \o q

LEMMA SpliceIs ==
  ASSUME NEW S, NEW s \in Seq(S), NEW t \in Seq(S), NEW m \in Seq(S), NEW q \in Seq(S),
         NEW u \in Nat, NEW b \in Nat, u <= b, b <= Len(s), b <= Len(t),
         \A i \in 1..b : s[i] = t[i]
  PROVE  Spliced(s, b, m, q) \in Seq(S) /\ Continues(Spliced(s, b, m, q), t, u, b, m, q)
<1> DEFINE p == SubSeq(t, 1, b)
           r == (p \o m) \o q
<1>1. SubSeq(s, 1, b) = p
  BY SameHead
<1>2. /\ p \in Seq(S) /\ Len(p) = b /\ (\A i \in 1..b : p[i] = t[i])
      /\ SubSeq(p, u + 1, Len(p)) = SubSeq(t, u + 1, b)
  BY HeadIs, DropHead
<1> HIDE DEF p
<1>3. /\ p \o m \in Seq(S) /\ Len(p \o m) = b + Len(m) /\ Len(m) \in Nat /\ Len(q) \in Nat
      /\ \A i \in 1..b : (p \o m)[i] = p[i]
  <2>1. ASSUME NEW i \in 1..b PROVE (p \o m)[i] = p[i]
    <3>1. i <= Len(p) /\ i \in 1..(Len(p) + Len(m))
      BY <1>2
    <3> QED BY <1>2, <3>1, ConcatProperties
  <2>2. p \o m \in Seq(S) /\ Len(p \o m) = Len(p) + Len(m)
    BY <1>2, ConcatProperties
  <2> QED BY <1>2, <2>1, <2>2
<1>4. /\ r \in Seq(S) /\ Len(r) = b + Len(m) + Len(q)
      /\ \A i \in 1..b : r[i] = p[i]
  <2>1. ASSUME NEW i \in 1..b PROVE r[i] = (p \o m)[i]
    <3>1. i <= Len(p \o m) /\ i \in 1..(Len(p \o m) + Len(q))
      BY <1>3
    <3> QED BY <1>3, <3>1, ConcatProperties
  <2>2. r \in Seq(S) /\ Len(r) = Len(p \o m) + Len(q)
    BY <1>3, ConcatProperties
  <2> QED BY <1>3, <2>1, <2>2
<1>5. SubSeq(r, u + 1, Len(r)) = SubSeq(p \o m, u + 1, Len(p \o m)) \o q
  <2>1. u <= Len(p \o m)
    BY <1>3
  <2> QED BY <1>3, <2>1, DropConcat
<1>6. SubSeq(p \o m, u + 1, Len(p \o m)) = SubSeq(p, u + 1, Len(p)) \o m
  <2>1. u <= Len(p)
    BY <1>2
  <2> QED BY <1>2, <2>1, DropConcat
<1>7. SubSeq(r, u + 1, Len(r)) = (SubSeq(t, u + 1, b) \o m) \o q
  BY <1>2, <1>5, <1>6, Zenon
<1>8. Len(r) >= b /\ \A i \in 1..b : r[i] = t[i]
  BY <1>2, <1>3, <1>4
<1> HIDE DEF r
<1>9. Spliced(s, b, m, q) = r
  BY <1>1 DEF r, Spliced
<1>10. Continues(r, t, u, b, m, q)
  BY <1>7, <1>8 DEF Continues
<1> QED BY <1>4, <1>9, <1>10

-----------------------------------------------------------------------------
(* The hunks on the file                                                   *)

(* What is true of file and hunks whenever the code looks at them.         *)
Shaped ==
    /\ operation \in {"modify", "create"}
    /\ target.lines \in Seq(Nat) /\ target.ends \in BOOLEAN /\ target.breaks \in Breaks
    /\ operation = "create" => target.lines = <<>>
    /\ hunks \in Seq(Hunks)

(* The first line after hunk i, as the code counts them.                   *)
Upto(i) == IF i = 0 THEN 0 ELSE Start(hunks[i]) + OldCount(hunks[i])

(* The code put hunk i on the file.                                        *)
Put(i) ==
    LET h == hunks[i] IN
    /\ Start(h) >= Upto(i - 1) /\ Upto(i) <= Len(target.lines)
    /\ operation = "create" => h.start = 0
    /\ ~h.oldEnds => TouchesEnd(h) /\ ~target.ends
    /\ ~h.newEnds => TouchesEnd(h)

AllPut == HasContext /\ ~Overlapping /\ \A i \in 1..Len(hunks) : Put(i)

LEMMA HunkOf ==
  ASSUME Shaped, NEW i \in 1..Len(hunks)
  PROVE  /\ hunks[i] \in Hunks /\ OldCount(hunks[i]) \in Nat /\ Start(hunks[i]) \in Nat
         /\ hunks[i].start \in Nat /\ Upto(i) \in Nat
<1>1. hunks[i] \in Hunks
  BY DEF Shaped
<1>2. OldCount(hunks[i]) \in Nat /\ hunks[i].start \in Nat
  BY <1>1, HunkType
<1>3. Start(hunks[i]) \in Nat
  BY <1>2 DEF Start
<1> QED BY <1>1, <1>2, <1>3 DEF Upto

(* With context, code and diff agree on where a hunk goes.                 *)
LEMMA StartIsBefore ==
  ASSUME Shaped, HasContext, NEW i \in 1..Len(hunks),
         operation = "create" => hunks[i].start = 0
  PROVE  Start(hunks[i]) = Before(hunks[i])
<1>1. OldCount(hunks[i]) > 0 \/ hunks[i].start = 0
  BY DEF HasContext, Shaped
<1>2. OldCount(hunks[i]) \in Nat
  BY HunkOf
<1> QED BY <1>1, <1>2 DEF Start, Before

Backwards(put) ==
    put = [n \in 0..Len(hunks) |->
             IF n = 0 THEN target.lines
             ELSE Replaced(put[n - 1], hunks[Len(hunks) + 1 - n])]

(* The file with only the last n hunks on it.                              *)
LastOn == CHOOSE put : Backwards(put)

(* The line up to which that is the file itself.                           *)
Kept(n) == IF n = 0 THEN Len(target.lines) ELSE Start(hunks[Len(hunks) + 1 - n])

LEMMA TailIs ==
  ASSUME Shaped
  PROVE  /\ ReferenceLines = LastOn[Len(hunks)]
         /\ LastOn[0] = target.lines
         /\ \A n \in 1..Len(hunks) :
               LastOn[n] = Replaced(LastOn[n - 1], hunks[Len(hunks) + 1 - n])
<1> DEFINE l == Len(hunks)
           Recurs(put, m) ==
              put = [n \in 0..m |-> IF n = 0 THEN target.lines
                                    ELSE Replaced(put[n - 1], hunks[l + 1 - n])]
           At(put, m) == put[0] = target.lines
                         /\ \A n \in 1..m : put[n] = Replaced(put[n - 1], hunks[l + 1 - n])
<1>0. l \in Nat
  BY DEF Shaped
<1>1. ASSUME NEW put, NEW m \in Nat, Recurs(put, m) PROVE At(put, m)
  <2> DEFINE e(n) == IF n = 0 THEN target.lines ELSE Replaced(put[n - 1], hunks[l + 1 - n])
  <2>1. put = [n \in 0..m |-> e(n)]
    BY <1>1
  <2> HIDE DEF e
  <2>2. put[0] = e(0) /\ \A n \in 1..m : n # 0 /\ put[n] = e(n)
    BY <2>1
  <2> QED BY <2>2 DEF e
<1> DEFINE Good == {m \in 0..l : \E put : Recurs(put, m)}
<1>2. 0 \in Good
  <2>1. Recurs([n \in 0..0 |-> target.lines], 0)
    OBVIOUS
  <2> HIDE DEF Recurs
  <2> QED BY <1>0, <2>1
<1>3. ASSUME NEW m \in 1..l, m - 1 \in Good PROVE m \in Good
  <2>1. PICK g : Recurs(g, m - 1)
    BY <1>3
  <2>2. At(g, m - 1)
    BY <1>1, <2>1
  <2> DEFINE h == [k \in 0..m |-> IF k = m THEN Replaced(g[m - 1], hunks[l + 1 - m]) ELSE g[k]]
  <2>3. ASSUME NEW k \in 0..m
        PROVE  h[k] = IF k = 0 THEN target.lines
                      ELSE Replaced(h[k - 1], hunks[l + 1 - k])
    <3>1. CASE k = m
      <4>1. m # 0 /\ m - 1 # m /\ m - 1 \in 0..m
        OBVIOUS
      <4> QED BY <3>1, <4>1
    <3>2. CASE k # m
      <4>1. m - 1 \in Nat /\ k \in 0..(m - 1) /\ h[k] = g[k]
        BY <3>2
      <4>2. k # 0 => k \in 1..(m - 1) /\ h[k - 1] = g[k - 1]
        BY <4>1
      <4> HIDE DEF h
      <4> QED BY <2>2, <4>1, <4>2
    <3> QED BY <3>1, <3>2
  <2>4. Recurs(h, m)
    BY <2>3
  <2> HIDE DEF Recurs
  <2> QED BY <2>4
<1> HIDE DEF Good
<1>4. Good = 0..l
  <2>1. Good \in SUBSET (0..l)
    BY DEF Good
  <2> HIDE DEF l
  <2> QED BY <1>0, <1>2, <1>3, <2>1, UpTo
<1>5. \E put : Recurs(put, l)
  BY <1>0, <1>4 DEF Good
<1>6. Recurs(LastOn, l)
  BY <1>5 DEF LastOn, Backwards
<1>7. At(LastOn, l)
  BY <1>0, <1>1, <1>6
<1>8. ReferenceLines = LastOn[l]
  BY DEF ReferenceLines, LastOn, Backwards
<1> QED BY <1>7, <1>8

(* The lines the last n hunks, and the file, make of what follows the hunk *)
(* before them.                                                            *)
Rest(n) == LET u == Upto(Len(hunks) - n) IN SubSeq(LastOn[n], u + 1, Len(LastOn[n]))

TailKeeps(n) ==
    /\ LastOn[n] \in Seq(Line) /\ Kept(n) \in Nat
    /\ Kept(n) <= Len(LastOn[n]) /\ Kept(n) <= Len(target.lines)
    /\ \A i \in 1..Kept(n) : LastOn[n][i] = target.lines[i]

(* One hunk more leaves the lines before it alone, and what follows the    *)
(* hunk before it are the file's lines between the two, its own new lines  *)
(* and what followed it.                                                   *)
LEMMA OneMore ==
  ASSUME Shaped, AllPut, NEW n \in 1..Len(hunks), TailKeeps(n - 1)
  PROVE  LET k == Len(hunks) + 1 - n IN
         /\ TailKeeps(n)
         /\ Rest(n) = (SubSeq(target.lines, Upto(k - 1) + 1, Start(hunks[k]))
                         \o New(hunks[k])) \o Rest(n - 1)
<1> DEFINE k == Len(hunks) + 1 - n
           h == hunks[k]
           s == LastOn[n - 1]
           t == target.lines
           b == Start(h)
           u == Upto(k - 1)
           q == SubSeq(s, Upto(k) + 1, Len(s))
<1>0. Len(hunks) \in Nat
  BY DEF Shaped
<1>1. /\ k \in 1..Len(hunks) /\ k - 1 = Len(hunks) - n /\ k = Len(hunks) - (n - 1)
      /\ k - 1 \in 0..Len(hunks)
  BY <1>0
<1> HIDE DEF k
<1>2. b \in Nat /\ OldCount(h) \in Nat /\ Upto(k) \in Nat /\ Upto(k) = b + OldCount(h)
  BY <1>1, HunkOf DEF Upto
<1>3. u \in Nat
  <2>1. CASE k = 1
    BY <2>1 DEF Upto
  <2>2. CASE k # 1
    <3>1. k - 1 \in 1..Len(hunks)
      BY <1>1, <2>2
    <3> QED BY <3>1, HunkOf
  <2> QED BY <2>1, <2>2
<1>4. Put(k) /\ h = hunks[k]
  BY <1>1 DEF AllPut
<1>5. u <= b /\ Upto(k) <= Len(t) /\ Before(h) = b
  <2>1. Before(h) = b
    BY <1>1, <1>4, StartIsBefore DEF Put, AllPut
  <2> QED BY <1>2, <1>3, <1>4, <2>1 DEF Put
<1>6. Upto(k) <= Kept(n - 1)
  <2>1. CASE n = 1
    BY <1>5, <2>1 DEF Kept
  <2>2. CASE n # 1
    <3>1. Kept(n - 1) = Start(hunks[Len(hunks) + 1 - (n - 1)]) /\ n - 1 # 0
      BY <2>2 DEF Kept
    <3>2. k + 1 \in 1..Len(hunks) /\ k + 1 = Len(hunks) + 1 - (n - 1) /\ (k + 1) - 1 = k
      BY <1>0, <1>1, <2>2
    <3>3. Put(k + 1)
      BY <3>2 DEF AllPut
    <3>4. Start(hunks[k + 1]) >= Upto((k + 1) - 1)
      BY <3>3 DEF Put
    <3>5. Start(hunks[k + 1]) \in Nat
      BY <3>2, HunkOf
    <3> QED BY <1>2, <3>1, <3>2, <3>4, <3>5
  <2> QED BY <2>1, <2>2
<1>7. /\ s \in Seq(Line) /\ Upto(k) <= Len(s) /\ Len(s) \in Nat /\ Len(t) \in Nat
      /\ b <= Len(s) /\ b <= Len(t) /\ \A i \in 1..b : s[i] = t[i]
  <2>1. Len(s) \in Nat /\ Len(t) \in Nat
    BY DEF TailKeeps, Shaped
  <2> QED BY <1>2, <1>5, <1>6, <2>1 DEF TailKeeps
<1>8. t \in Seq(Line) /\ New(h) \in Seq(Line)
  <2>1. New(h) \in Seq(Line)
    BY <1>1, HunkOf, HunkType
  <2>2. Nat \subseteq Line
    BY DEF Line
  <2> QED BY <2>1, <2>2, SeqMonotonic DEF Shaped
<1>9. q \in Seq(Line)
  BY <1>2, <1>7
<1>10. LastOn[n] = (SubSeq(s, 1, b) \o New(h)) \o q
  <2>1. LastOn[n] = Replaced(s, h)
    BY TailIs DEF k
  <2> QED BY <1>2, <1>5, <2>1 DEF Replaced
<1>11. Kept(n) = b /\ Rest(n) = SubSeq(LastOn[n], u + 1, Len(LastOn[n])) /\ Rest(n - 1) = q
  <2>1. Kept(n) = b
    BY DEF Kept, k
  <2>2. Rest(n) = SubSeq(LastOn[n], u + 1, Len(LastOn[n]))
    BY <1>1 DEF Rest
  <2>3. Rest(n - 1) = q
    BY <1>1 DEF Rest
  <2> QED BY <2>1, <2>2, <2>3
<1> DEFINE m == New(h)
           r == Spliced(s, b, m, q)
<1> HIDE DEF h, s, t, b, u, q, m, r
<1>12. /\ r \in Seq(Line) /\ Len(r) >= b
       /\ \A i \in 1..b : r[i] = t[i]
       /\ SubSeq(r, u + 1, Len(r)) = (SubSeq(t, u + 1, b) \o m) \o q
  <2>1. m \in Seq(Line)
    BY <1>8 DEF m
  <2>2. Spliced(s, b, m, q) \in Seq(Line) /\ Continues(Spliced(s, b, m, q), t, u, b, m, q)
    BY <1>2, <1>3, <1>5, <1>7, <1>8, <1>9, <2>1, SpliceIs
  <2> QED BY <1>2, <1>3, <1>5, <1>7, <1>8, <1>9, <2>1, <2>2 DEF r, Continues
<1>13. TailKeeps(n)
  <2>1. LastOn[n] = r /\ Kept(n) = b
    BY <1>10, <1>11 DEF r, m, Spliced
  <2> QED BY <1>2, <1>7, <1>12, <2>1 DEF TailKeeps, t
<1>14. Rest(n) = (SubSeq(t, u + 1, b) \o m) \o Rest(n - 1)
  BY <1>10, <1>11, <1>12 DEF r, m, Spliced
<1> QED BY <1>13, <1>14 DEF k, h, t, b, u, m

LEMMA AllKept ==
  ASSUME Shaped, AllPut
  PROVE  /\ \A n \in 0..Len(hunks) : TailKeeps(n)
         /\ Rest(0) = SubSeq(target.lines, Upto(Len(hunks)) + 1, Len(target.lines))
         /\ Rest(Len(hunks)) = ReferenceLines /\ ReferenceLines \in Seq(Line)
<1> DEFINE Good == {n \in 0..Len(hunks) : TailKeeps(n)}
<1>0. Len(hunks) \in Nat /\ Len(target.lines) \in Nat
  BY DEF Shaped
<1>1. 0 \in Good
  <2>1. LastOn[0] = target.lines
    BY TailIs
  <2>2. target.lines \in Seq(Line)
    <3>1. Nat \subseteq Line
      BY DEF Line
    <3> QED BY <3>1, SeqMonotonic DEF Shaped
  <2>3. Kept(0) = Len(target.lines)
    BY DEF Kept
  <2>4. TailKeeps(0)
    BY <1>0, <2>1, <2>2, <2>3 DEF TailKeeps
  <2> QED BY <1>0, <2>4
<1>2. ASSUME NEW n \in 1..Len(hunks), n - 1 \in Good PROVE n \in Good
  <2>1. TailKeeps(n - 1)
    BY <1>2
  <2>2. TailKeeps(n)
    BY <2>1, OneMore
  <2> QED BY <1>0, <2>2
<1>3. Good = 0..Len(hunks)
  <2>1. Good \in SUBSET (0..Len(hunks))
    OBVIOUS
  <2> HIDE DEF Good
  <2> QED BY <1>0, <1>1, <1>2, <2>1, UpTo
<1>4. \A n \in 0..Len(hunks) : TailKeeps(n)
  BY <1>3
<1>5. Rest(0) = SubSeq(target.lines, Upto(Len(hunks)) + 1, Len(target.lines))
  <2>1. Len(hunks) - 0 = Len(hunks)
    BY <1>0
  <2> QED BY <2>1, TailIs DEF Rest
<1>6. LastOn[Len(hunks)] \in Seq(Line) /\ ReferenceLines = LastOn[Len(hunks)]
  BY <1>0, <1>4, TailIs DEF TailKeeps
<1>7. Rest(Len(hunks)) = ReferenceLines
  <2>1. Upto(Len(hunks) - Len(hunks)) = 0
    BY <1>0 DEF Upto
  <2>2. Rest(Len(hunks)) = SubSeq(LastOn[Len(hunks)], 1, Len(LastOn[Len(hunks)]))
    BY <2>1 DEF Rest
  <2> QED BY <1>6, <2>2, SubSeqFull
<1> QED BY <1>4, <1>5, <1>6, <1>7

(* Only the last hunk reaches the end of the file, so only it can say how  *)
(* the file ends.                                                          *)
LEMMA OnlyLastEnds ==
  ASSUME Shaped, AllPut, NEW i \in 1..Len(hunks), i # Len(hunks)
  PROVE  hunks[i].oldEnds /\ hunks[i].newEnds
<1> DEFINE g == hunks[i]
           h == hunks[i + 1]
<1>0. Len(hunks) \in Nat /\ i + 1 \in 1..Len(hunks) /\ i + 1 \in 2..Len(hunks) /\ (i + 1) - 1 = i
  BY DEF Shaped
<1>1. /\ Start(g) \in Nat /\ OldCount(g) \in Nat /\ g.start \in Nat /\ g \in Hunks
      /\ Start(h) \in Nat /\ OldCount(h) \in Nat /\ h.start \in Nat
      /\ Len(target.lines) \in Nat
  <2>1. Start(g) \in Nat /\ OldCount(g) \in Nat /\ g.start \in Nat /\ g \in Hunks
    BY HunkOf
  <2>2. Start(h) \in Nat /\ OldCount(h) \in Nat /\ h.start \in Nat
    BY <1>0, HunkOf
  <2> QED BY <2>1, <2>2 DEF Shaped
<1>2. g.oldEnds \in BOOLEAN /\ g.newEnds \in BOOLEAN
  BY <1>1, HunkType
<1>3. Put(i) /\ Put(i + 1)
  BY <1>0 DEF AllPut
<1>4. ~OverlapsPrevious(g, h)
  <2>1. ~OverlapsPrevious(hunks[(i + 1) - 1], hunks[i + 1])
    BY <1>0 DEF AllPut, Overlapping
  <2> QED BY <1>0, <2>1
<1>5. h.start > 0
  BY <1>1, <1>4 DEF OverlapsPrevious
<1>6. OldCount(h) > 0
  <2>1. i + 1 \in DOMAIN hunks
    BY <1>0 DEF Shaped
  <2> QED BY <1>1, <1>5, <2>1 DEF AllPut, HasContext
<1>7. Start(g) + OldCount(g) <= Start(h) /\ Start(h) + OldCount(h) <= Len(target.lines)
  <2>1. Upto(i) = Start(g) + OldCount(g) /\ Upto(i + 1) = Start(h) + OldCount(h)
    BY <1>0 DEF Upto
  <2> QED BY <1>0, <1>1, <1>3, <2>1 DEF Put
<1>8. ~TouchesEnd(g)
  BY <1>1, <1>6, <1>7 DEF TouchesEnd
<1> QED BY <1>2, <1>3, <1>8 DEF Put

(* What _apply_hunks does not refuse is on the file.                       *)
LEMMA PutHere ==
  ASSUME Shaped, NEW i \in 1..Len(hunks), cursor = Upto(i - 1), cursor \in Nat,
         ApplyFailure(hunks[i]) = "none"
  PROVE  Put(i)
<1> DEFINE h == hunks[i]
<1>1. Start(h) \in Nat /\ OldCount(h) \in Nat /\ Len(target.lines) \in Nat
  BY HunkOf DEF Shaped
<1>2. /\ ~(Start(h) < cursor) /\ ~(Start(h) > Len(target.lines))
      /\ operation = "create" => h.start = 0
      /\ Slice(target.lines, Start(h), Start(h) + OldCount(h)) = Old(h)
      /\ ~h.oldEnds => TouchesEnd(h) /\ ~target.ends
      /\ ~h.newEnds => TouchesEnd(h)
  BY DEF ApplyFailure
<1>3. Start(h) + OldCount(h) <= Len(target.lines)
  <2>1. ASSUME Start(h) + OldCount(h) > Len(target.lines) PROVE FALSE
    <3>1. Slice(target.lines, Start(h), Start(h) + OldCount(h))
            = SubSeq(target.lines, Start(h) + 1, Len(target.lines))
      BY <2>1 DEF Slice
    <3>2. Len(SubSeq(target.lines, Start(h) + 1, Len(target.lines)))
            = Len(target.lines) - Start(h)
      BY <1>1, <1>2 DEF Shaped
    <3>3. OldCount(h) = Len(target.lines) - Start(h)
      BY <1>2, <3>1, <3>2 DEF OldCount
    <3> QED BY <1>1, <2>1, <3>3
  <2> QED BY <1>1, <2>1
<1>4. Upto(i) = Start(h) + OldCount(h)
  BY DEF Upto
<1>5. Start(h) >= Upto(i - 1)
  BY <1>1, <1>2
<1> HIDE DEF h
<1>6. h = hunks[i]
  BY DEF h
<1> QED BY <1>2, <1>3, <1>4, <1>5, <1>6 DEF Put

(* Neither parser nor applier refuses what was made from the file.         *)
LEMMA FittingOrdered == ASSUME Shaped, Fits, HasContext PROVE ~Overlapping
<1> SUFFICES ASSUME NEW i \in 2..Len(hunks), OverlapsPrevious(hunks[i - 1], hunks[i])
             PROVE  FALSE
  BY DEF Overlapping
<1> DEFINE g == hunks[i - 1]
           h == hunks[i]
<1>0. Len(hunks) \in Nat /\ i \in 1..Len(hunks) /\ i - 1 \in 1..Len(hunks)
      /\ DOMAIN hunks = 1..Len(hunks)
  BY DEF Shaped
<1>1. /\ OldCount(g) \in Nat /\ g.start \in Nat
      /\ OldCount(h) \in Nat /\ h.start \in Nat
  BY <1>0, HunkOf
<1>2. /\ g.start < h.start /\ Before(g) + OldCount(g) <= Before(h)
      /\ g.start > 0 \/ OldCount(g) = 0
  BY <1>0 DEF Fits, HasContext
<1>3. OldCount(h) > 0 /\ (OldCount(g) > 0 \/ g.start = 0)
  <2>1. (OldCount(h) > 0 \/ h.start = 0) /\ (OldCount(g) > 0 \/ g.start = 0)
    BY <1>0 DEF HasContext
  <2> QED BY <1>1, <1>2, <2>1
<1>4. h.start < g.start + OldCount(g)
  BY <1>1, <1>2 DEF OverlapsPrevious
<1>5. Before(h) = h.start - 1
  BY <1>1, <1>2, <1>3 DEF Before
<1>6. CASE g.start = 0
  <2>1. OldCount(g) = 0
    BY <1>2, <1>6
  <2> QED BY <1>1, <1>4, <1>6, <2>1
<1>7. CASE g.start # 0
  <2>1. Before(g) = g.start - 1
    BY <1>1, <1>3, <1>7 DEF Before
  <2> QED BY <1>1, <1>2, <1>4, <1>5, <2>1
<1> QED BY <1>6, <1>7

LEMMA FittingPut ==
  ASSUME Shaped, Fits, HasContext, NEW i \in 1..Len(hunks), cursor = Upto(i - 1)
  PROVE  ApplyFailure(hunks[i]) = "none"
<1> DEFINE h == hunks[i]
<1>0. Len(hunks) \in Nat /\ DOMAIN hunks = 1..Len(hunks) /\ Len(target.lines) \in Nat
  BY DEF Shaped
<1>1. ASSUME NEW k \in 1..Len(hunks)
      PROVE  /\ operation = "create" => hunks[k].start = 0 /\ OldCount(hunks[k]) = 0
             /\ Start(hunks[k]) = Before(hunks[k])
             /\ Before(hunks[k]) \in Nat /\ OldCount(hunks[k]) \in Nat
  <2>1. /\ Before(hunks[k]) + OldCount(hunks[k]) <= Len(target.lines)
        /\ OldCount(hunks[k]) > 0 \/ hunks[k].start = 0
        /\ OldCount(hunks[k]) \in Nat /\ hunks[k].start \in Nat
    BY <1>0, HunkOf DEF Fits, HasContext
  <2>2. Before(hunks[k]) \in Nat
    BY <2>1 DEF Before
  <2>3. operation = "create" => hunks[k].start = 0 /\ OldCount(hunks[k]) = 0
    <3>1. operation = "create" => Len(target.lines) = 0
      BY DEF Shaped
    <3> QED BY <2>1, <2>2, <3>1
  <2>4. Start(hunks[k]) = Before(hunks[k])
    BY <2>3, StartIsBefore
  <2> QED BY <2>1, <2>2, <2>3, <2>4
<1>2. /\ Before(h) + OldCount(h) <= Len(target.lines)
      /\ Slice(target.lines, Before(h), Before(h) + OldCount(h)) = Old(h)
      /\ h.oldEnds = (target.ends \/ ~AtEnd(h))
      /\ h.newEnds \/ AtEnd(h)
  BY <1>0 DEF Fits
<1>3. Start(h) >= cursor /\ Start(h) <= Len(target.lines)
  <2>1. CASE i = 1
    BY <1>0, <1>1, <1>2, <2>1 DEF Upto
  <2>2. CASE i # 1
    <3>1. i \in 2..Len(hunks) /\ i - 1 \in 1..Len(hunks) /\ i - 1 # 0
      BY <1>0, <2>2
    <3>2. Before(hunks[i - 1]) + OldCount(hunks[i - 1]) <= Before(hunks[i])
      BY <3>1 DEF Fits
    <3>3. cursor = Before(hunks[i - 1]) + OldCount(hunks[i - 1])
      BY <1>1, <3>1 DEF Upto
    <3> QED BY <1>0, <1>1, <1>2, <3>1, <3>2, <3>3
  <2> QED BY <2>1, <2>2
<1>4. AtEnd(h) = TouchesEnd(h) /\ Start(h) = Before(h)
      /\ (operation = "create" => h.start = 0 /\ OldCount(h) = 0)
  BY <1>1 DEF AtEnd, TouchesEnd
<1>5. cursor \in Nat /\ Start(h) \in Nat /\ target.ends \in BOOLEAN
  <2>1. Start(h) \in Nat
    BY <1>1, <1>4
  <2>2. cursor \in Nat
    <3>1. CASE i = 1
      BY <3>1 DEF Upto
    <3>2. CASE i # 1
      <4>1. i - 1 \in 1..Len(hunks)
        BY <1>0, <3>2
      <4> QED BY <4>1, HunkOf
    <3> QED BY <3>1, <3>2
  <2> QED BY <2>1, <2>2 DEF Shaped
<1>6. ~(Start(h) < cursor) /\ ~(Start(h) > Len(target.lines))
  BY <1>0, <1>3, <1>5
<1> HIDE DEF h
<1>7. ApplyFailure(h) = "none"
  BY <1>2, <1>4, <1>5, <1>6 DEF ApplyFailure
<1> QED BY <1>7 DEF h

-----------------------------------------------------------------------------
(* The loop                                                                *)

(* Whether the file ends with a newline after the last hunk.               *)
EndsAtLast ==
    IF ~LastHunk.newEnds THEN FALSE
    ELSE IF ~LastHunk.oldEnds THEN TRUE ELSE target.ends

Applying ==
    /\ hunks # <<>> /\ ~Overlapping /\ target.breaks # "mixed"
    /\ at \in 1..(Len(hunks) + 1) /\ cursor = Upto(at - 1) /\ cursor \in Nat
    /\ output \in Seq(Line)
    /\ \A i \in 1..(at - 1) : Put(i)
    /\ AllPut =>
          /\ output \o Rest(Len(hunks) + 1 - at) = ReferenceLines
          /\ ends = IF at <= Len(hunks) THEN target.ends ELSE EndsAtLast

PatchInv ==
    /\ Shaped
    /\ pc \in {"parse", "prepare", "apply", "done"}
    /\ pc # "done" => outcome = "none"
    /\ pc \in {"parse", "prepare"} =>
          at = 1 /\ output = <<>> /\ cursor = 0 /\ ends = target.ends
    /\ pc = "prepare" => hunks # <<>> /\ ~Overlapping
    /\ pc = "apply" => Applying
    /\ FittingIsApplied /\ AppliedIsReference

(* All of this is about file and hunks, and the same as long as they are.  *)
LEMMA SameFile ==
  ASSUME UNCHANGED <<operation, target, hunks>>
  PROVE  /\ Shaped' = Shaped /\ Overlapping' = Overlapping /\ HasContext' = HasContext
         /\ Fits' = Fits /\ ReferenceLines' = ReferenceLines /\ EndsAtLast' = EndsAtLast
         /\ \A i : Upto(i)' = Upto(i) /\ Put(i)' = Put(i) /\ Rest(i)' = Rest(i)
         /\ AllPut' = AllPut
<1>1. Shaped' = Shaped
  BY DEF Shaped
<1>2. Overlapping' = Overlapping
  BY DEF Overlapping
<1>3. HasContext' = HasContext
  BY DEF HasContext
<1>4. Fits' = Fits
  BY DEF Fits, AtEnd
<1>5. ReferenceLines' = ReferenceLines
  BY DEF ReferenceLines
<1>6. EndsAtLast' = EndsAtLast
  BY DEF EndsAtLast, LastHunk
<1>7. ASSUME NEW i PROVE Upto(i)' = Upto(i) /\ Put(i)' = Put(i) /\ Rest(i)' = Rest(i)
  <2>1. Upto(i)' = Upto(i)
    BY DEF Upto, Start
  <2>2. Put(i)' = Put(i)
    BY DEF Put, Upto, Start, TouchesEnd
  <2>3. Rest(i)' = Rest(i)
    BY DEF Rest, LastOn, Backwards, Upto, Start
  <2> QED BY <2>1, <2>2, <2>3
<1>8. AllPut' = AllPut
  BY DEF AllPut, HasContext, Overlapping, Put, Upto, Start, TouchesEnd
<1> QED BY <1>1, <1>2, <1>3, <1>4, <1>5, <1>6, <1>7, <1>8

LEMMA PatchInvInit == Init => PatchInv
<1> SUFFICES ASSUME Init PROVE PatchInv
  OBVIOUS
<1>1. Shaped
  <2>1. PICK n \in 0..MaxLines, e \in BOOLEAN, b \in Breaks :
           target = [lines |-> [i \in 1..n |-> i], ends |-> e, breaks |-> b]
    BY DEF Init, Targets
  <2>2. [i \in 1..n |-> i] \in Seq(Nat)
    BY BoundAssumption
  <2>3. hunks = <<>> /\ <<>> \in Seq(Hunks)
    BY EmptySeq DEF Init
  <2>4. target.lines \in Seq(Nat) /\ target.ends \in BOOLEAN /\ target.breaks \in Breaks
    BY <2>1, <2>2
  <2> QED BY <2>3, <2>4 DEF Shaped, Init
<1> QED BY <1>1 DEF PatchInv, Init, FittingIsApplied, AppliedIsReference

LEMMA ParseStep == ASSUME PatchInv, ParseHunk \/ MeetOther \/ EndParse \/ Prepare PROVE PatchInv'
<1>1. CASE ParseHunk
  <2>0. PICK b \in Bodies : \E h \in Hunk(b) :
           /\ hunks' = Append(hunks, h)
           /\ \/ Misread(h) = {} /\ UNCHANGED <<pc, outcome, locals>>
              \/ \E kind \in Misread(h) : Refuse(kind)
    BY <1>1 DEF ParseHunk
  <2>1. PICK h \in Hunk(b) :
           /\ hunks' = Append(hunks, h)
           /\ \/ Misread(h) = {} /\ UNCHANGED <<pc, outcome, locals>>
              \/ \E kind \in Misread(h) : Refuse(kind)
    BY <2>0
  <2>2. pc = "parse" /\ UNCHANGED <<operation, target, locals>>
    BY <1>1, <2>1 DEF ParseHunk, Refuse
  <2>3. hunks \in Seq(Hunks) /\ h \in Hunks
    BY DEF PatchInv, Shaped, Hunks
  <2>4. /\ hunks' \in Seq(Hunks) /\ Len(hunks') \in DOMAIN hunks'
        /\ hunks'[Len(hunks')] = h
    BY <2>1, <2>3
  <2>5. Shaped'
    BY <2>2, <2>4 DEF PatchInv, Shaped
  <2>6. CASE UNCHANGED <<pc, outcome>>
    <3>1. pc' = "parse" /\ outcome' = "none"
      BY <2>2, <2>6 DEF PatchInv
    <3> QED BY <2>2, <2>5, <3>1 DEF PatchInv, FittingIsApplied, AppliedIsReference, locals
  <2>7. CASE pc' = "done" /\ outcome' \in Misread(h)
    <3>1. FittingIsApplied'
      BY <2>4, <2>7 DEF FittingIsApplied, Misread, Has
    <3>2. outcome' # "applied"
      BY <2>7 DEF Misread, MalformedText
    <3> QED BY <2>2, <2>5, <2>7, <3>1, <3>2 DEF PatchInv, AppliedIsReference, locals
  <2> QED BY <2>1, <2>6, <2>7 DEF Refuse
<1>4. CASE MeetOther
  <2>1. /\ pc = "parse" /\ UNCHANGED <<operation, target, hunks, locals>>
        /\ pc' = "done" /\ outcome' # "applied" /\ tail' # "none"
    BY <1>4 DEF MeetOther, Refuse, MalformedText
  <2>2. Shaped'
    BY <2>1, SameFile DEF PatchInv
  <2> QED BY <2>1, <2>2 DEF PatchInv, FittingIsApplied, AppliedIsReference, locals
<1>2. CASE EndParse
  <2>1. /\ pc = "parse" /\ UNCHANGED <<operation, target, hunks, locals>>
        /\ \/ hunks = <<>> /\ pc' = "done" /\ outcome' = "hunk_invalid"
           \/ Overlapping /\ pc' = "done" /\ outcome' = "hunk_overlap"
           \/ hunks # <<>> /\ ~Overlapping /\ pc' = "prepare" /\ outcome' = outcome
    BY <1>2 DEF EndParse, Refuse
  <2>2. Shaped' /\ Overlapping' = Overlapping /\ Fits' = Fits /\ HasContext' = HasContext
    BY <2>1, SameFile DEF PatchInv
  <2>3. FittingIsApplied'
    BY <2>1, <2>2, FittingOrdered DEF FittingIsApplied, PatchInv
  <2>4. AppliedIsReference'
    BY <2>1 DEF AppliedIsReference, PatchInv
  <2> QED BY <2>1, <2>2, <2>3, <2>4 DEF PatchInv, locals
<1>3. CASE Prepare
  <2>1. /\ pc = "prepare" /\ UNCHANGED <<operation, target, hunks, locals>>
        /\ \/ target.breaks = "mixed" /\ pc' = "done" /\ outcome' = "hunk_context_mismatch"
           \/ target.breaks # "mixed" /\ pc' = "apply" /\ outcome' = outcome
    BY <1>3 DEF Prepare, Refuse
  <2>2. Shaped'
    BY <2>1 DEF PatchInv, Shaped
  <2>3. FittingIsApplied' /\ AppliedIsReference'
    BY <2>1 DEF FittingIsApplied, AppliedIsReference, PatchInv
  <2>4. ASSUME target.breaks # "mixed" PROVE Applying
    <3>1. /\ at = 1 /\ output = <<>> /\ cursor = 0 /\ ends = target.ends
          /\ hunks # <<>> /\ ~Overlapping /\ Len(hunks) \in Nat /\ Shaped
      BY <2>1 DEF PatchInv, Shaped
    <3>2. at \in 1..(Len(hunks) + 1) /\ at <= Len(hunks) /\ Len(hunks) + 1 - at = Len(hunks)
      BY <3>1, EmptySeq DEF Shaped
    <3>3. AllPut => output \o Rest(Len(hunks) + 1 - at) = ReferenceLines
      <4>1. SUFFICES ASSUME AllPut PROVE <<>> \o Rest(Len(hunks)) = ReferenceLines
        BY <3>1, <3>2
      <4>2. Rest(Len(hunks)) = ReferenceLines /\ ReferenceLines \in Seq(Line)
        BY <3>1, <4>1, AllKept
      <4> QED BY <4>2, ConcatEmptySeq
    <3>4. cursor = Upto(at - 1)
      BY <3>1 DEF Upto
    <3>5. 1..(at - 1) = {} /\ output \in Seq(Line)
      BY <3>1, EmptySeq
    <3> QED BY <2>4, <3>1, <3>2, <3>3, <3>4, <3>5 DEF Applying
  <2>5. pc' = "apply" => Applying'
    BY <2>1, <2>4, SameFile DEF locals, Applying
  <2> QED BY <2>1, <2>2, <2>3, <2>5 DEF PatchInv, locals
<1> QED BY <1>1, <1>2, <1>3, <1>4

LEMMA ApplyStep == ASSUME PatchInv, ApplyHunk PROVE PatchInv'
<1> DEFINE h == hunks[at]
           t == target.lines
<1>1. /\ pc = "apply" /\ at <= Len(hunks) /\ UNCHANGED <<operation, target, hunks>>
      /\ \/ /\ ApplyFailure(h) # "none" /\ pc' = "done" /\ outcome' = ApplyFailure(h)
         \/ /\ ApplyFailure(h) = "none"
            /\ output' = output \o Slice(t, cursor, Start(h)) \o New(h)
            /\ cursor' = Start(h) + OldCount(h)
            /\ ends' = EndsAfter(h) /\ at' = at + 1
            /\ UNCHANGED <<pc, outcome, result>>
  BY DEF ApplyHunk, Refuse
<1>2. Shaped /\ Applying /\ outcome = "none" /\ Len(hunks) \in Nat /\ at \in 1..Len(hunks)
      /\ Len(t) \in Nat
  <2>1. Shaped /\ Applying /\ outcome = "none"
    BY <1>1 DEF PatchInv
  <2>2. Len(hunks) \in Nat /\ Len(t) \in Nat
    BY <2>1 DEF Shaped
  <2> QED BY <1>1, <2>1, <2>2 DEF Applying
<1> HIDE DEF h, t
<1>3. h = hunks[at] /\ t = target.lines
  BY DEF h, t
<1>4. Shaped'
  BY <1>1, <1>2, SameFile
<1>5. CASE /\ ApplyFailure(h) # "none" /\ pc' = "done" /\ outcome' = ApplyFailure(h)
  <2>1. ~(Fits /\ HasContext)
    BY <1>2, <1>3, <1>5, FittingPut DEF Applying
  <2>2. FittingIsApplied'
    BY <1>1, <2>1, SameFile DEF FittingIsApplied
  <2>3. ApplyFailure(h) # "applied"
    BY DEF ApplyFailure
  <2>4. AppliedIsReference'
    BY <1>5, <2>3 DEF AppliedIsReference
  <2> QED BY <1>4, <1>5, <2>2, <2>4 DEF PatchInv
<1>6. CASE /\ ApplyFailure(h) = "none"
           /\ output' = output \o Slice(t, cursor, Start(h)) \o New(h)
           /\ cursor' = Start(h) + OldCount(h)
           /\ ends' = EndsAfter(h) /\ at' = at + 1
           /\ UNCHANGED <<pc, outcome, result>>
  <2>1. /\ h \in Hunks /\ OldCount(h) \in Nat /\ Start(h) \in Nat /\ Upto(at) \in Nat
        /\ Upto(at) = Start(h) + OldCount(h)
    BY <1>2, <1>3, HunkOf DEF Upto
  <2>2. Put(at)
    BY <1>2, <1>3, <1>6, PutHere DEF Applying
  <2>3. Start(h) >= Upto(at - 1) /\ Start(h) <= Len(t) /\ Upto(at - 1) = cursor /\ cursor \in Nat
    BY <1>2, <1>3, <2>1, <2>2 DEF Put, Applying
  <2> DEFINE a == SubSeq(t, cursor + 1, Start(h))
             new == New(h)
  <2>4. Slice(t, cursor, Start(h)) = a
    <3>1. ~ (Start(h) > Len(t))
      BY <1>2, <2>1, <2>3
    <3> QED BY <3>1, Zenon DEF Slice
  <2>5. a \in Seq(Line) /\ new \in Seq(Line) /\ output \in Seq(Line)
    <3>1. a \in Seq(Nat)
      <4>1. t \in Seq(Nat)
        BY <1>2, <1>3 DEF Shaped
      <4> DEFINE b == Start(h)
      <4>2. cursor \in Nat /\ b \in Nat /\ b <= Len(t)
        BY <2>1, <2>3
      <4> HIDE DEF b
      <4>3. SubSeq(t, cursor + 1, b) \in Seq(Nat)
        BY <4>1, <4>2
      <4> QED BY <4>3 DEF b
    <3>2. Nat \subseteq Line
      BY DEF Line
    <3>3. new \in Seq(Line)
      BY <2>1, HunkType
    <3> QED BY <1>2, <3>1, <3>2, <3>3, SeqMonotonic DEF Applying
  <2>6. output' = (output \o a) \o new
    BY <1>6, <2>4
  <2> HIDE DEF new, a
  <2>7. output' \in Seq(Line)
    BY <2>5, <2>6, ConcatProperties
  <2>8. ASSUME AllPut
        PROVE  output' \o Rest(Len(hunks) + 1 - (at + 1)) = ReferenceLines
    <3> DEFINE n == Len(hunks) + 1 - at
               rest == Rest(n - 1)
    <3>1. n \in 1..Len(hunks) /\ Len(hunks) + 1 - n = at /\ n - 1 = Len(hunks) + 1 - (at + 1)
          /\ n - 1 \in 0..Len(hunks)
      BY <1>2
    <3>2. output \o Rest(n) = ReferenceLines
      BY <1>2, <2>8 DEF Applying
    <3> HIDE DEF n
    <3>3. TailKeeps(n - 1)
      BY <1>2, <2>8, <3>1, AllKept
    <3>4. Rest(n) = (a \o new) \o rest
      BY <1>2, <1>3, <2>3, <2>8, <3>1, <3>3, OneMore DEF a, new
    <3>5. rest \in Seq(Line)
      <4>1. LastOn[n - 1] \in Seq(Line)
        BY <3>3 DEF TailKeeps
      <4>2. n - 1 # Len(hunks) => Len(hunks) - (n - 1) \in 1..Len(hunks)
        BY <1>2, <3>1
      <4>3. Upto(Len(hunks) - (n - 1)) \in Nat
        <5>1. CASE n - 1 = Len(hunks)
          BY <1>2, <5>1 DEF Upto
        <5>2. CASE n - 1 # Len(hunks)
          BY <1>2, <4>2, <5>2, HunkOf
        <5> QED BY <5>1, <5>2
      <4> DEFINE u == Upto(Len(hunks) - (n - 1))
                 w == LastOn[n - 1]
      <4>4. rest = SubSeq(w, u + 1, Len(w))
        BY DEF Rest
      <4> HIDE DEF u, w, rest
      <4>5. w \in Seq(Line) /\ u \in Nat
        BY <4>1, <4>3 DEF u, w
      <4> QED BY <4>4, <4>5
    <3> HIDE DEF rest
    <3>6. output \o ((a \o new) \o rest) = ((output \o a) \o new) \o rest
      <4>1. Regroups(output, a, new, rest)
        BY <2>5, <3>5, Regrouped
      <4> QED BY <4>1 DEF Regroups
    <3> QED BY <2>6, <3>1, <3>2, <3>4, <3>6 DEF rest
  <2>9. ASSUME AllPut
        PROVE  ends' = IF at + 1 <= Len(hunks) THEN target.ends ELSE EndsAtLast
    <3>1. ends = target.ends
      BY <1>2, <2>9 DEF Applying
    <3>2. CASE at = Len(hunks)
      <4>1. LastHunk = h
        BY <1>3, <3>2 DEF LastHunk
      <4>2. ends' = EndsAtLast
        BY <1>6, <3>1, <4>1, Zenon DEF EndsAtLast, EndsAfter
      <4>3. ~(at + 1 <= Len(hunks))
        BY <1>2, <3>2
      <4> QED BY <4>2, <4>3, Zenon
    <3>3. CASE at # Len(hunks)
      <4>1. h.oldEnds /\ h.newEnds
        BY <1>2, <1>3, <2>9, <3>3, OnlyLastEnds
      <4> QED BY <1>2, <1>6, <3>1, <3>3, <4>1 DEF EndsAfter
    <3> QED BY <3>2, <3>3
  <2>10. /\ at' \in 1..(Len(hunks) + 1) /\ at' - 1 = at /\ cursor' = Upto(at) /\ cursor' \in Nat
         /\ \A i \in 1..at : Put(i)
    <3>1. \A i \in 1..at : i \in 1..(at - 1) \/ i = at
      BY <1>2
    <3>2. at' \in 1..(Len(hunks) + 1) /\ at' - 1 = at
      BY <1>2, <1>6
    <3>3. cursor' = Upto(at) /\ cursor' \in Nat
      BY <1>6, <2>1
    <3>4. \A i \in 1..at : Put(i)
      BY <1>2, <2>2, <3>1 DEF Applying
    <3> QED BY <3>2, <3>3, <3>4
  <2>11. Applying'
    <3>1. /\ Overlapping' = Overlapping /\ AllPut' = AllPut
          /\ ReferenceLines' = ReferenceLines /\ EndsAtLast' = EndsAtLast
      BY <1>1, SameFile
    <3>2. cursor' = (Upto(at - 1))'
      <4>1. Upto(at) = IF at' - 1 = 0 THEN 0
                       ELSE Start(hunks[at' - 1]) + OldCount(hunks[at' - 1])
        BY <2>10 DEF Upto
      <4> QED BY <1>1, <2>10, <4>1 DEF Upto, Start
    <3>3. ASSUME NEW i \in 1..at PROVE Put(i)'
      <4>1. Put(i)
        BY <2>10
      <4> QED BY <1>1, <4>1 DEF Put, Upto, Start, TouchesEnd
    <3>4. (Rest(Len(hunks) + 1 - at))' = Rest(Len(hunks) + 1 - (at + 1))
      BY <1>1, <1>6 DEF Rest, LastOn, Backwards, Upto, Start
    <3>5. AllPut => output' \o (Rest(Len(hunks) + 1 - at))' = ReferenceLines'
      BY <2>8, <3>1, <3>4
    <3>6. AllPut => ends' = IF at' <= Len(hunks') THEN target'.ends ELSE EndsAtLast'
      BY <1>1, <1>6, <2>9, <3>1
    <3>7. /\ hunks' # <<>> /\ ~Overlapping' /\ target'.breaks # "mixed"
          /\ at' \in 1..(Len(hunks') + 1)
      BY <1>1, <1>2, <2>10, <3>1 DEF Applying
    <3>8. \A i \in 1..(at' - 1) : Put(i)'
      BY <2>10, <3>3
    <3> QED BY <2>7, <2>10, <3>1, <3>2, <3>5, <3>6, <3>7, <3>8 DEF Applying
  <2>12. FittingIsApplied' /\ AppliedIsReference'
    BY <1>1, <1>2, <1>6 DEF FittingIsApplied, AppliedIsReference
  <2> QED BY <1>1, <1>2, <1>4, <1>6, <2>11, <2>12 DEF PatchInv
<1> QED BY <1>1, <1>5, <1>6

LEMMA FinishStep == ASSUME PatchInv, Finish PROVE PatchInv'
<1> DEFINE rest == SubSeq(target.lines, cursor + 1, Len(target.lines))
<1>1. /\ pc = "apply" /\ at > Len(hunks) /\ UNCHANGED <<operation, target, hunks>>
      /\ result' = Written(output \o Slice(target.lines, cursor, Len(target.lines)))
      /\ outcome' = "applied" /\ pc' = "done"
  BY DEF Finish
<1>2. Shaped /\ Applying /\ Len(hunks) \in Nat /\ Len(target.lines) \in Nat
  BY <1>1 DEF PatchInv, Shaped
<1>3. at = Len(hunks) + 1 /\ at - 1 = Len(hunks) /\ Len(hunks) + 1 - at = 0
  BY <1>1, <1>2 DEF Applying
<1>4. Slice(target.lines, cursor, Len(target.lines)) = rest
  BY <1>2 DEF Slice
<1>5. Shaped' /\ FittingIsApplied'
  BY <1>1, <1>2, SameFile DEF FittingIsApplied
<1>6. ASSUME HasContext, target.breaks # "odd"
      PROVE  Written(output \o rest) = Reference
  <2>1. AllPut
    BY <1>2, <1>3, <1>6 DEF Applying, AllPut
  <2>2. output \o rest = ReferenceLines
    <3>1. Rest(0) = rest
      BY <1>2, <1>3, <2>1, AllKept DEF Applying
    <3> QED BY <1>2, <1>3, <2>1, <3>1 DEF Applying
  <2>3. Len(hunks) \in 1..Len(hunks) /\ LastHunk = hunks[Len(hunks)]
    <3>1. Len(hunks) # 0
      BY <1>2, EmptySeq DEF Applying, Shaped
    <3> QED BY <1>2, <3>1 DEF LastHunk
  <2>4. /\ LastHunk.oldEnds \in BOOLEAN /\ LastHunk.newEnds \in BOOLEAN
        /\ target.ends \in BOOLEAN
    BY <1>2, <2>3, HunkOf, HunkType DEF Shaped
  <2>5. Put(Len(hunks))
    BY <2>1, <2>3 DEF AllPut
  <2>6. AtEnd(LastHunk) = TouchesEnd(LastHunk)
    BY <1>2, <1>6, <2>3, <2>5, StartIsBefore DEF Put, AtEnd, TouchesEnd
  <2>7. ends = EndsAtLast
    BY <1>2, <1>3, <2>1 DEF Applying
  <2>8. ends = IF AtEnd(LastHunk) /\ LastHunk.oldEnds = target.ends THEN LastHunk.newEnds
               ELSE target.ends /\ LastHunk.newEnds
    BY <2>3, <2>4, <2>5, <2>6, <2>7 DEF EndsAtLast, Put
  <2>9. (IF target.breaks = "crlf" THEN "crlf" ELSE "lf") = target.breaks
    BY <1>2, <1>6 DEF Applying, Shaped, Breaks
  <2> HIDE DEF rest
  <2> QED BY <2>2, <2>8, <2>9 DEF Written, Reference
<1>7. AppliedIsReference'
  <2>1. Reference' = Reference
    BY <1>1, SameFile DEF Reference, AtEnd, LastHunk
  <2>2. HasContext' = HasContext
    BY <1>1, SameFile
  <2> QED BY <1>1, <1>4, <1>6, <2>1, <2>2 DEF AppliedIsReference
<1> QED BY <1>1, <1>5, <1>7 DEF PatchInv

LEMMA PatchInvStep == PatchInv /\ [Next]_vars => PatchInv'
<1> SUFFICES ASSUME PatchInv, [Next]_vars PROVE PatchInv'
  OBVIOUS
<1>1. ASSUME UNCHANGED vars PROVE PatchInv'
  <2>1. UNCHANGED <<operation, target, hunks, tail, pc, outcome, at, output, cursor, ends, result>>
    BY <1>1 DEF vars, locals
  <2>2. Reference' = Reference
    BY <2>1, SameFile DEF Reference, AtEnd, LastHunk
  <2>3. Shaped' = Shaped /\ Overlapping' = Overlapping /\ HasContext' = HasContext /\ Fits' = Fits
    BY <2>1, SameFile
  <2>4. Applying' = Applying
    BY <2>1 DEF Applying, AllPut, Overlapping, HasContext, Upto, Put, Rest, ReferenceLines,
       Start, TouchesEnd, LastOn, Backwards, EndsAtLast, LastHunk
  <2>5. FittingIsApplied' = FittingIsApplied /\ AppliedIsReference' = AppliedIsReference
    BY <2>1, <2>2, <2>3 DEF FittingIsApplied, AppliedIsReference
  <2> QED BY <2>1, <2>3, <2>4, <2>5 DEF PatchInv
<1> QED BY <1>1, ParseStep, ApplyStep, FinishStep DEF Next

(* For a file of any length and any number of hunks that have at least one *)
(* old line each: what is applied, hunk by hunk, is what the unified diff  *)
(* means, to the last newline (SafePatchApplier._apply_hunks).             *)
THEOREM AppliedAlwaysReference == Spec => []AppliedIsReference
<1>1. PatchInv => AppliedIsReference
  BY DEF PatchInv
<1> QED BY PatchInvInit, PatchInvStep, <1>1, PTL DEF Spec

(* And hunks that were made from the file are put on it, unless the file   *)
(* mixes its line endings or the parser takes a hunk line for the header of *)
(* another file or for several lines (_parse_hunks, _apply_hunks).          *)
THEOREM FittingAlwaysApplied == Spec => []FittingIsApplied
<1>1. PatchInv => FittingIsApplied
  BY DEF PatchInv
<1> QED BY PatchInvInit, PatchInvStep, <1>1, PTL DEF Spec
=============================================================================
