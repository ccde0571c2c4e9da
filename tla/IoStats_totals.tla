--------------------------- MODULE IoStats_totals ---------------------------
(***************************************************************************)
(* What trace-replay reports, for every number of threads, queue depth,     *)
(* trace and interleaving: each byte is told in one interval, the share     *)
(* that is left only falls, and the totals are those of the trace and       *)
(* make sense.                                                              *)
(***************************************************************************)
EXTENDS IoStats_proofs

-----------------------------------------------------------------------------
(* Sums                                                                    *)

\* The sums of the first summands, as SumOf builds them.
Upto(f) ==
    CHOOSE up : up = [n \in 0 .. Len(f) |->
                        IF n = 0 THEN 0 ELSE up[n - 1] + f[n]]

LEMMA SameLength ==
    ASSUME NEW n \in Nat, NEW V, NEW f \in [1 .. n -> V]
    PROVE  f \in Seq(V) /\ Len(f) = n
    OBVIOUS

\* The sums are numbers, each the one before and one more summand.
LEMMA UptoDef ==
    ASSUME NEW n \in Nat, NEW f \in [1 .. n -> Int]
    PROVE  /\ Len(f) = n
           /\ Upto(f) \in [0 .. n -> Int] /\ Upto(f)[0] = 0
           /\ \A i \in 1 .. n : Upto(f)[i] = Upto(f)[i - 1] + f[i]
    <1>1. Len(f) = n
      BY SameLength
    <1>. DEFINE g == [p \in (1 .. n) \X Int |-> p[2] + f[p[1]]]
    <1>2. g \in [(1 .. n) \X Int -> Int]
      OBVIOUS
    <1>3. \A i \in 1 .. n, x \in Int : g[<<i, x>>] = x + f[i]
      OBVIOUS
    <1>. HIDE DEF g
    <1>4. PICK up : Follows(up, n, Int, 0, g)
      <2>1. Steps(n, Int, 0, g)
        BY <1>2 DEF Steps
      <2>. QED BY <2>1, Recursion
    <1>5. up = [i \in 0 .. Len(f) |-> IF i = 0 THEN 0 ELSE up[i - 1] + f[i]]
      <2>1. \A i \in 0 .. n : up[i] = IF i = 0 THEN 0 ELSE up[i - 1] + f[i]
        <3>1. /\ up \in [0 .. n -> Int] /\ up[0] = 0
              /\ \A i \in 1 .. n : up[i] = g[<<i, up[i - 1]>>]
          BY <1>4 DEF Follows
        <3>2. \A i \in 1 .. n : up[i - 1] \in Int
          BY <3>1
        <3>3. ASSUME NEW i \in 1 .. n PROVE up[i] = up[i - 1] + f[i]
          <4>1. up[i - 1] \in Int /\ up[i] = g[<<i, up[i - 1]>>]
            BY <3>1, <3>2
          <4>. QED BY <1>3, <4>1
        <3>. QED BY <3>1, <3>3
      <2>. QED BY <1>1, <1>4, <2>1 DEF Follows
    <1>6. Upto(f) = [i \in 0 .. Len(f) |->
                      IF i = 0 THEN 0 ELSE Upto(f)[i - 1] + f[i]]
      BY <1>5 DEF Upto
    <1>. HIDE DEF Upto
    <1>7. /\ Upto(f)[0] = 0
          /\ \A i \in 1 .. n : Upto(f)[i] = Upto(f)[i - 1] + f[i]
          /\ DOMAIN Upto(f) = 0 .. n
      BY <1>1, <1>6
    <1>. DEFINE S == {k \in Nat : k <= n => Upto(f)[k] \in Int}
    <1>8. 0 \in S
      BY <1>7
    <1>9. \A k \in S \cap Nat : k + 1 \in S
      BY <1>7
    <1>10. \A k \in 0 .. n : Upto(f)[k] \in Int
      <2>1. Nat \subseteq S
        <3>. HIDE DEF S
        <3>. QED BY <1>8, <1>9, Induction
      <2>. QED BY <2>1
    <1>. QED BY <1>1, <1>6, <1>7, <1>10

LEMMA SumIsUpto ==
    ASSUME NEW n \in Nat, NEW f \in [1 .. n -> Int]
    PROVE  SumOf(f) = Upto(f)[n] /\ SumOf(f) \in Int
    <1>1. SumOf(f) = Upto(f)[Len(f)]
      BY DEF SumOf, Upto
    <1>2. Len(f) = n /\ Upto(f) \in [0 .. n -> Int]
      BY UptoDef
    <1>. QED BY <1>1, <1>2

\* One summand is changed: the sums that have it change as much.
LEMMA UptoPoint ==
    ASSUME NEW n \in Nat, NEW f \in [1 .. n -> Int],
           NEW g \in [1 .. n -> Int], NEW w \in 1 .. n,
           \A k \in 1 .. n : k # w => g[k] = f[k]
    PROVE  \A m \in 0 .. n :
              Upto(g)[m] = Upto(f)[m] + IF m >= w THEN g[w] - f[w] ELSE 0
    <1>. DEFINE F == Upto(f)
                H == Upto(g)
                P(m) == H[m] = F[m] + IF m >= w THEN g[w] - f[w] ELSE 0
                S == {m \in Nat : m <= n => P(m)}
    <1>1. /\ F \in [0 .. n -> Int] /\ F[0] = 0
          /\ \A i \in 1 .. n : F[i] = F[i - 1] + f[i]
      BY UptoDef
    <1>2. /\ H \in [0 .. n -> Int] /\ H[0] = 0
          /\ \A i \in 1 .. n : H[i] = H[i - 1] + g[i]
      BY UptoDef
    <1>. HIDE DEF F, H
    <1>3. 0 \in S
      BY <1>1, <1>2
    <1>4. ASSUME NEW k \in S \cap Nat PROVE k + 1 \in S
      <2>. SUFFICES ASSUME k + 1 <= n PROVE P(k + 1)
        OBVIOUS
      <2>1. k + 1 \in 1 .. n /\ k \in 0 .. n /\ (k + 1) - 1 = k /\ P(k)
        BY <1>4
      <2>2. /\ F[k + 1] = F[k] + f[k + 1] /\ H[k + 1] = H[k] + g[k + 1]
            /\ F[k] \in Int /\ H[k] \in Int
            /\ f[k + 1] \in Int /\ g[k + 1] \in Int
            /\ f[w] \in Int /\ g[w] \in Int
        BY <1>1, <1>2, <2>1
      <2>3. CASE k + 1 = w
        <3>1. ~(k >= w)
          BY <2>3
        <3>2. H[k] = F[k]
          BY <2>1, <2>2, <3>1
        <3>3. F[w] = F[k] + f[w] /\ H[w] = F[k] + g[w]
          <4>. DEFINE j == k + 1
          <4>1. F[j] = F[k] + f[j] /\ H[j] = F[k] + g[j] /\ j = w
            BY <2>2, <2>3, <3>2
          <4>. HIDE DEF j
          <4>. QED BY <4>1
        <3>4. H[w] = F[w] + (g[w] - f[w])
          BY <2>2, <3>3
        <3>5. P(w)
          BY <3>4
        <3>. QED BY <2>3, <3>5
      <2>4. CASE k + 1 # w
        <3>1. g[k + 1] = f[k + 1]
          BY <2>1, <2>4
        <3>. QED BY <2>1, <2>2, <2>4, <3>1
      <2>. QED BY <2>3, <2>4
    <1>5. Nat \subseteq S
      <2>. HIDE DEF S
      <2>. QED BY <1>3, <1>4, Induction
    <1>. QED BY <1>5 DEF F, H

\* Smaller summands, smaller sums.
LEMMA UptoMono ==
    ASSUME NEW n \in Nat, NEW f \in [1 .. n -> Int],
           NEW g \in [1 .. n -> Int], \A k \in 1 .. n : f[k] <= g[k]
    PROVE  \A m \in 0 .. n : Upto(f)[m] <= Upto(g)[m]
    <1>. DEFINE F == Upto(f)
                H == Upto(g)
                S == {m \in Nat : m <= n => F[m] <= H[m]}
    <1>1. /\ F \in [0 .. n -> Int] /\ F[0] = 0
          /\ \A i \in 1 .. n : F[i] = F[i - 1] + f[i]
      BY UptoDef
    <1>2. /\ H \in [0 .. n -> Int] /\ H[0] = 0
          /\ \A i \in 1 .. n : H[i] = H[i - 1] + g[i]
      BY UptoDef
    <1>. HIDE DEF F, H
    <1>3. 0 \in S
      BY <1>1, <1>2
    <1>4. ASSUME NEW k \in S \cap Nat PROVE k + 1 \in S
      <2>. SUFFICES ASSUME k + 1 <= n PROVE F[k + 1] <= H[k + 1]
        OBVIOUS
      <2>1. /\ k + 1 \in 1 .. n /\ k \in 0 .. n /\ (k + 1) - 1 = k
            /\ F[k] <= H[k]
        BY <1>4
      <2>2. /\ F[k + 1] = F[k] + f[k + 1] /\ H[k + 1] = H[k] + g[k + 1]
            /\ F[k] \in Int /\ H[k] \in Int
            /\ f[k + 1] \in Int /\ g[k + 1] \in Int
            /\ f[k + 1] <= g[k + 1]
        BY <1>1, <1>2, <2>1
      <2>. QED BY <2>1, <2>2
    <1>5. Nat \subseteq S
      <2>. HIDE DEF S
      <2>. QED BY <1>3, <1>4, Induction
    <1>. QED BY <1>5 DEF F, H

\* The sum of equal summands is a product.
LEMMA UptoConst ==
    ASSUME NEW n \in Nat, NEW f \in [1 .. n -> Int], NEW c \in Int,
           \A k \in 1 .. n : f[k] = c
    PROVE  \A m \in 0 .. n : Upto(f)[m] = m * c
    <1>. DEFINE F == Upto(f)
                S == {m \in Nat : m <= n => F[m] = m * c}
    <1>1. /\ F \in [0 .. n -> Int] /\ F[0] = 0
          /\ \A i \in 1 .. n : F[i] = F[i - 1] + f[i]
      BY UptoDef
    <1>. HIDE DEF F
    <1>2. 0 \in S
      BY <1>1
    <1>3. ASSUME NEW k \in S \cap Nat PROVE k + 1 \in S
      <2>. SUFFICES ASSUME k + 1 <= n PROVE F[k + 1] = (k + 1) * c
        OBVIOUS
      <2>1. /\ k + 1 \in 1 .. n /\ (k + 1) - 1 = k /\ F[k] = k * c
        BY <1>3
      <2>2. F[k + 1] = k * c + c
        BY <1>1, <2>1
      <2>. QED BY <2>2
    <1>4. Nat \subseteq S
      <2>. HIDE DEF S
      <2>. QED BY <1>2, <1>3, Induction
    <1>. QED BY <1>4 DEF F

-----------------------------------------------------------------------------
(* Statistics                                                              *)

\* Traffic consists of reads and writes.
Traffic == {t \in [all : Nat, rd : Nat, wr : Nat] : t.rd + t.wr = t.all}

Spread(s, a, b) == a * a * s.sqr - 2 * a * b * s.sum + b * b * s.count

\* The latencies lie between the extremes, and the sum of the squares
\* (a * latency - b)^2, which is quadratic in sqr, sum and count, is not
\* negative. Both are kept when statistics are added up.
Agrees(s) ==
    /\ s.min * s.count <= s.sum /\ s.sum <= s.max * s.count
    /\ \A a, b \in Int : Spread(s, a, b) >= 0

StatRec == [sum : Int, sqr : Int, min : Int, max : Int, count : Nat,
            total : Traffic, cur : Traffic, exec : Int]

Stat == {s \in StatRec : Agrees(s)}

JobRec == [page : Int, bytes : Nat, rw : BOOLEAN, start : Int, nr : Nat]

LEMMA StatFields ==
    ASSUME NEW s \in Stat
    PROVE  /\ s.sum \in Int /\ s.sqr \in Int /\ s.min \in Int /\ s.max \in Int
           /\ s.count \in Nat /\ s.exec \in Int
           /\ s.total \in Traffic /\ s.cur \in Traffic
           /\ s.total.all \in Nat /\ s.cur.all \in Nat
    BY DEF Stat, StatRec, Traffic

LEMMA Squares == ASSUME NEW x \in Int PROVE x * x >= 0
    <1>1. CASE x >= 0
      BY <1>1
    <1>2. CASE x < 0
      <2>1. (-x) * (-x) >= 0 /\ x * x = (-x) * (-x)
        BY <1>2
      <2>. QED BY <2>1
    <1>. QED BY <1>1, <1>2

LEMMA Scaled ==
    ASSUME NEW x \in Int, NEW y \in Int, NEW c \in Nat, x <= y
    PROVE  x * c <= y * c
    <1>1. (y - x) * c >= 0
      <2>1. y - x \in Nat
        OBVIOUS
      <2>. QED BY <2>1
    <1>2. (y - x) * c = y * c - x * c /\ y * c \in Int /\ x * c \in Int
      OBVIOUS
    <1>. QED BY <1>1, <1>2

LEMMA NoStatIsStat == NoStat \in Stat
    <1>1. NoTraffic \in Traffic
      BY DEF NoTraffic, Traffic
    <1>2. NoStat \in StatRec
      BY <1>1 DEF NoStat, StatRec
    <1>3. /\ NoStat.sum = 0 /\ NoStat.sqr = 0 /\ NoStat.count = 0
          /\ NoStat.min = 0 /\ NoStat.max = 0
      BY DEF NoStat
    <1>4. \A a, b \in Int : Spread(NoStat, a, b) = 0
      <2>1. \A a, b \in Int : a * a * 0 - 2 * a * b * 0 + b * b * 0 = 0
        OBVIOUS
      <2>. QED BY <1>3, <2>1 DEF Spread
    <1>5. Agrees(NoStat)
      BY <1>3, <1>4 DEF Agrees
    <1>. QED BY <1>2, <1>5 DEF Stat

LEMMA AddTrafficType ==
    ASSUME NEW t \in Traffic, NEW j \in JobRec
    PROVE  /\ AddTraffic(t, j) \in Traffic
           /\ AddTraffic(t, j).all = t.all + j.bytes
    <1>1. /\ t.all \in Nat /\ t.rd \in Nat /\ t.wr \in Nat
          /\ t.rd + t.wr = t.all /\ j.bytes \in Nat
      BY DEF Traffic, JobRec
    <1>2. CASE j.rw
      <2>1. AddTraffic(t, j)
            = [all |-> t.all + j.bytes, rd |-> t.rd + j.bytes, wr |-> t.wr]
        BY <1>2 DEF AddTraffic
      <2>. QED BY <1>1, <2>1 DEF Traffic
    <1>3. CASE ~j.rw
      <2>1. AddTraffic(t, j)
            = [all |-> t.all + j.bytes, rd |-> t.rd, wr |-> t.wr + j.bytes]
        BY <1>3 DEF AddTraffic
      <2>. QED BY <1>1, <2>1 DEF Traffic
    <1>. QED BY <1>2, <1>3

LEMMA SumTrafficType ==
    ASSUME NEW s \in Traffic, NEW t \in Traffic
    PROVE  SumTraffic(s, t) \in Traffic /\ SumTraffic(s, t).all = s.all + t.all
    <1>1. /\ t.all \in Nat /\ t.rd \in Nat /\ t.wr \in Nat
          /\ t.rd + t.wr = t.all
          /\ s.all \in Nat /\ s.rd \in Nat /\ s.wr \in Nat
          /\ s.rd + s.wr = s.all
      BY DEF Traffic
    <1>. QED BY <1>1 DEF SumTraffic, Traffic

\* What update_iostat makes of the statistics of a thread.
LEMMA UpdateType ==
    ASSUME NEW s \in Stat, NEW j \in JobRec, clock \in Int
    PROVE  LET u == UpdateIostat(s, j) IN
           /\ u \in Stat
           /\ u.total.all = s.total.all + j.bytes
           /\ u.cur.all = s.cur.all + j.bytes
           /\ u.exec = s.exec
    <1>. DEFINE u == UpdateIostat(s, j)
                l == clock - j.start
    <1>1. l \in Int
      BY DEF JobRec
    <1>2. /\ s.sum \in Int /\ s.sqr \in Int /\ s.min \in Int /\ s.max \in Int
          /\ s.count \in Nat /\ s.exec \in Int
          /\ s.total \in Traffic /\ s.cur \in Traffic
      BY StatFields
    <1>3. /\ u.sum = s.sum + l /\ u.sqr = s.sqr + l * l
          /\ u.count = s.count + 1 /\ u.exec = s.exec
          /\ u.min = IF s.count = 0 \/ l < s.min THEN l ELSE s.min
          /\ u.max = IF s.count = 0 \/ l > s.max THEN l ELSE s.max
          /\ u.total = AddTraffic(s.total, j) /\ u.cur = AddTraffic(s.cur, j)
      BY DEF UpdateIostat
    <1>4. u \in StatRec
      <2>1. l * l \in Int
        BY <1>1
      <2>2. /\ AddTraffic(s.total, j) \in Traffic
            /\ AddTraffic(s.cur, j) \in Traffic
        BY <1>2, AddTrafficType
      <2>3. /\ u.sum \in Int /\ u.sqr \in Int /\ u.min \in Int /\ u.max \in Int
            /\ u.count \in Nat /\ u.exec \in Int
            /\ u.total \in Traffic /\ u.cur \in Traffic
        <3>. HIDE DEF u, l
        <3>. QED BY <1>1, <1>2, <1>3, <2>1, <2>2
      <2>4. u = [sum |-> u.sum, sqr |-> u.sqr, min |-> u.min, max |-> u.max,
                 count |-> u.count, total |-> u.total, cur |-> u.cur,
                 exec |-> u.exec]
        BY DEF UpdateIostat
      <2>. HIDE DEF u
      <2>. QED BY <2>3, <2>4 DEF StatRec
    <1>. HIDE DEF u, l
    <1>5. Agrees(s)
      BY DEF Stat
    <1>6. u.min * u.count <= u.sum /\ u.sum <= u.max * u.count
      <2>1. CASE s.count = 0
        BY <1>1, <1>2, <1>3, <1>5, <2>1 DEF Agrees
      <2>2. CASE s.count # 0
        <3>1. /\ u.min \in Int /\ u.max \in Int
              /\ u.min <= s.min /\ u.min <= l /\ s.max <= u.max /\ l <= u.max
          BY <1>1, <1>2, <1>3, <2>2
        <3>2. u.min * s.count <= s.min * s.count
          BY <1>2, <3>1, Scaled
        <3>3. s.max * s.count <= u.max * s.count
          BY <1>2, <3>1, Scaled
        <3>4. /\ u.min * (s.count + 1) = u.min * s.count + u.min
              /\ u.max * (s.count + 1) = u.max * s.count + u.max
          BY <1>2, <3>1
        <3>5. /\ u.min * s.count \in Int /\ s.min * s.count \in Int
              /\ u.max * s.count \in Int /\ s.max * s.count \in Int
          BY <1>2, <3>1
        <3>. QED BY <1>1, <1>2, <1>3, <1>5, <3>1, <3>2, <3>3, <3>4, <3>5
                 DEF Agrees
      <2>. QED BY <2>1, <2>2
    <1>7. ASSUME NEW a \in Int, NEW b \in Int PROVE Spread(u, a, b) >= 0
      <2>1. Spread(s, a, b) >= 0
        BY <1>5 DEF Agrees
      <2>2. (a * l - b) * (a * l - b) >= 0
        <3>1. a * l - b \in Int
          BY <1>1
        <3>. QED BY <3>1, Squares
      <2>3. Spread(u, a, b) = Spread(s, a, b) + (a * l - b) * (a * l - b)
        <3>. DEFINE q == s.sqr
                    m == s.sum
                    c == s.count
        <3>1. q \in Int /\ m \in Int /\ c \in Int
          BY <1>2
        <3>2. /\ Spread(s, a, b) = a * a * q - 2 * a * b * m + b * b * c
              /\ Spread(u, a, b)
                 = a * a * (q + l * l) - 2 * a * b * (m + l) + b * b * (c + 1)
          BY <1>3 DEF Spread
        <3>. HIDE DEF q, m, c
        <3>. QED BY <1>1, <3>1, <3>2
      <2>4. Spread(s, a, b) \in Int /\ (a * l - b) * (a * l - b) \in Int
        BY <1>1, <1>2 DEF Spread
      <2>. QED BY <2>1, <2>2, <2>3, <2>4
    <1>8. u \in Stat
      BY <1>4, <1>6, <1>7 DEF Stat, Agrees
    <1>. QED BY <1>2, <1>3, <1>8, AddTrafficType DEF u

\* What print_result makes of the statistics it has added up and those of one
\* more thread.
LEMMA AddStatType ==
    ASSUME NEW d \in Stat, NEW s \in Stat, NEW first \in BOOLEAN,
           first => d = NoStat
    PROVE  LET u == AddStat(first, d, s) IN
           /\ u \in Stat
           /\ u.total.all = d.total.all + s.total.all
           /\ u.cur.all = d.cur.all + s.cur.all
    <1>. DEFINE u == AddStat(first, d, s)
    <1>1. /\ s.sum \in Int /\ s.sqr \in Int /\ s.min \in Int /\ s.max \in Int
          /\ s.count \in Nat /\ s.exec \in Int
          /\ s.total \in Traffic /\ s.cur \in Traffic
      BY StatFields
    <1>2. /\ d.sum \in Int /\ d.sqr \in Int /\ d.min \in Int /\ d.max \in Int
          /\ d.count \in Nat /\ d.exec \in Int
          /\ d.total \in Traffic /\ d.cur \in Traffic
      BY StatFields
    <1>3. /\ u.sum = d.sum + s.sum /\ u.sqr = d.sqr + s.sqr
          /\ u.count = d.count + s.count /\ u.exec = d.exec + s.exec
          /\ u.min = IF first THEN s.min ELSE Smaller(d.min, s.min)
          /\ u.max = IF first \/ s.max > d.max THEN s.max ELSE d.max
          /\ u.total = SumTraffic(d.total, s.total)
          /\ u.cur = SumTraffic(d.cur, s.cur)
      BY DEF AddStat
    <1>4. u \in StatRec
      <2>1. /\ SumTraffic(d.total, s.total) \in Traffic
            /\ SumTraffic(d.cur, s.cur) \in Traffic
        BY <1>1, <1>2, SumTrafficType
      <2>2. /\ u.sum \in Int /\ u.sqr \in Int /\ u.min \in Int /\ u.max \in Int
            /\ u.count \in Nat /\ u.exec \in Int
            /\ u.total \in Traffic /\ u.cur \in Traffic
        <3>. HIDE DEF u
        <3>. QED BY <1>1, <1>2, <1>3, <2>1 DEF Smaller
      <2>3. u = [sum |-> u.sum, sqr |-> u.sqr, min |-> u.min, max |-> u.max,
                 count |-> u.count, total |-> u.total, cur |-> u.cur,
                 exec |-> u.exec]
        BY DEF AddStat
      <2>. HIDE DEF u
      <2>. QED BY <2>2, <2>3 DEF StatRec
    <1>. HIDE DEF u
    <1>5. Agrees(s) /\ Agrees(d)
      BY DEF Stat
    <1>6. u.min * u.count <= u.sum /\ u.sum <= u.max * u.count
      <2>1. CASE first
        <3>1. d.sum = 0 /\ d.count = 0
          BY <2>1 DEF NoStat
        <3>2. /\ u.min = s.min /\ u.max = s.max
              /\ u.count = s.count /\ u.sum = s.sum
          BY <1>1, <1>3, <2>1, <3>1
        <3>. QED BY <1>5, <3>2 DEF Agrees
      <2>2. CASE ~first
        <3>1. /\ u.min \in Int /\ u.max \in Int
              /\ u.min <= s.min /\ u.min <= d.min
              /\ s.max <= u.max /\ d.max <= u.max
          BY <1>1, <1>2, <1>3, <2>2 DEF Smaller
        <3>2. /\ u.min * s.count <= s.min * s.count
              /\ u.min * d.count <= d.min * d.count
          BY <1>1, <1>2, <3>1, Scaled
        <3>3. /\ s.max * s.count <= u.max * s.count
              /\ d.max * d.count <= u.max * d.count
          BY <1>1, <1>2, <3>1, Scaled
        <3>4. /\ u.min * u.count = u.min * d.count + u.min * s.count
              /\ u.max * u.count = u.max * d.count + u.max * s.count
          BY <1>1, <1>2, <1>3, <3>1
        <3>5. /\ u.min * s.count \in Int /\ s.min * s.count \in Int
              /\ u.max * s.count \in Int /\ s.max * s.count \in Int
              /\ u.min * d.count \in Int /\ d.min * d.count \in Int
              /\ u.max * d.count \in Int /\ d.max * d.count \in Int
          BY <1>1, <1>2, <3>1
        <3>. QED BY <1>1, <1>2, <1>3, <1>5, <3>2, <3>3, <3>4, <3>5
                 DEF Agrees
      <2>. QED BY <2>1, <2>2
    <1>7. ASSUME NEW a \in Int, NEW b \in Int PROVE Spread(u, a, b) >= 0
      <2>1. Spread(s, a, b) >= 0 /\ Spread(d, a, b) >= 0
        BY <1>5 DEF Agrees
      <2>2. Spread(u, a, b) = Spread(d, a, b) + Spread(s, a, b)
        <3>1. \A q, m, c, r, n, e \in Int :
                 a * a * (q + r) - 2 * a * b * (m + n) + b * b * (c + e)
                 = (a * a * q - 2 * a * b * m + b * b * c)
                   + (a * a * r - 2 * a * b * n + b * b * e)
          OBVIOUS
        <3>. QED BY <1>1, <1>2, <1>3, <3>1 DEF Spread
      <2>3. Spread(s, a, b) \in Int /\ Spread(d, a, b) \in Int
        BY <1>1, <1>2 DEF Spread
      <2>. QED BY <2>1, <2>2, <2>3
    <1>8. u \in Stat
      BY <1>4, <1>6, <1>7 DEF Stat, Agrees
    <1>. QED BY <1>1, <1>2, <1>3, <1>8, SumTrafficType DEF u

-----------------------------------------------------------------------------
(* The parts of the inductive invariant                                    *)

\* Before the replay nothing of it has changed.
Fresh ==
    /\ cur = 0 /\ issue = 0
    /\ flight = [w \in Threads |-> {}]
    /\ left = {} /\ done = {}
    /\ stat = [w \in Threads |-> NoStat]
    /\ print = Idle /\ report = NoReport /\ results = {} /\ told = 0

StateType ==
    /\ cur \in Nat /\ issue \in Nat /\ clock \in Nat /\ tvEnd \in Nat
    /\ told \in Nat
    /\ flight \in [Threads -> SUBSET JobRec]
    /\ left \subseteq Threads /\ done \subseteq left
    /\ \A w \in done : flight[w] = {}
    /\ stat \in [Threads -> Stat]
    /\ print \in [at : 0 .. NThread + 1, detail : BOOLEAN, dst : Stat]
    /\ print.at \in {0, 1} => print.dst = NoStat
    /\ print.detail => done = Threads

\* How many requests jobs are made for.
Last == IF wanted > 0 THEN wanted - 1 ELSE Len(buf) - 1

\* The bytes of each request of a synthetic workload.
UnitBytes == Smaller(IoPages(job) * Spp, MaxSectors)

\* The bytes of the n-th job.
Due(n) == IF wanted > 0 THEN UnitBytes ELSE Bytes(buf[n])

Pending(n) == \E w \in Threads : \E j \in flight[w] : j.nr = n

\* What the jobs that are through have counted.
Through == [n \in 1 .. Last |->
              IF n <= issue /\ ~Pending(n - 1) THEN Due(n) ELSE 0]

AllOf(st) == [w \in Threads |-> st[w].total.all]
CurOf(st) == [w \in Threads |-> st[w].cur.all]

\* Each job is made once, with the bytes of its request, and is in flight or
\* counted; a thread leaves when all were made.
Numbered ==
    /\ \A w \in Threads : \A j \in flight[w] :
          j.nr < issue /\ j.nr < Last /\ j.bytes = Due(j.nr + 1)
    /\ \A v, w \in Threads : \A i \in flight[v], j \in flight[w] :
          i.nr = j.nr => v = w /\ i = j
    /\ wanted <= 0 => cur = issue
    /\ left # {} => issue > Last
    /\ SumOf(AllOf(stat)) = SumOf(Through)

\* print_result has added up no more than the threads it has passed have
\* counted, and at the end exactly that.
Swept ==
    print.at > 0 =>
       /\ print.dst.total.all <= Upto(AllOf(stat))[print.at - 1]
       /\ print.detail =>
             print.dst.total.all = Upto(AllOf(stat))[print.at - 1]

\* What the next report will at least show as done.
Ahead ==
    IF print.at = 0 THEN Upto(AllOf(stat))[NThread]
    ELSE print.dst.total.all
         + (Upto(AllOf(stat))[NThread] - Upto(AllOf(stat))[print.at - 1])

Shows(log, n) ==
    log.remaining_percentage
    = Frac((wanted * IoSize - n) * 100, wanted * IoSize)

\* The last report showed no more as done than there was to do and than the
\* next one will.
Remembered ==
    /\ \A x, y \in report.log : x = y
    /\ \A log \in report.log : wanted > 0 =>
          \E n \in Nat :
             Shows(log, n) /\ n <= (wanted - 1) * UnitBytes /\ n <= Ahead

\* The totals are made of statistics with all the bytes of the trace.
Totalled ==
    \A r \in results :
       /\ left = Threads
       /\ \E s \in Stat, t \in Int :
             /\ r.stats = PerTraceStat(s) /\ r.aggr = AggrStat(s, t)
             /\ s.total.all = Replayable

ReplayInv ==
    /\ StateType /\ (Replaying \/ Fresh) /\ (Replaying => Numbered)
    /\ ToldOnce /\ Swept /\ Remembered /\ Totalled

-----------------------------------------------------------------------------
(* What is loaded is ready to be replayed                                  *)

LEMMA ThreadsType == NThread \in Nat \ {0} /\ Threads = 1 .. NThread
    BY StatsAssumption DEF Threads

LEMMA WantedType ==
    ASSUME LoadInv
    PROVE  /\ wanted \in Int /\ job \in Jobs
           /\ wanted > 0 => IsSynthetic(job) /\ SynthBuf
    <1>1. CASE ~IsSynthetic(job)
      BY <1>1 DEF LoadInv, FileInv, Typed
    <1>2. CASE IsSynthetic(job)
      <2>1. SynthInv
        BY <1>2 DEF LoadInv
      <2>2. CASE SynthBuf
        <3>1. PICK pages \in WorkingSetPages(job) :
                 Divides(job) /\ wanted = Quot(pages, IoPages(job))
          BY <2>2 DEF SynthBuf
        <3>2. job \in Jobs
          BY <2>1 DEF SynthInv
        <3>3. pages \in Int /\ IoPages(job) \in Nat \ {0}
          BY <3>1, <3>2, SynthSizes DEF Divides
        <3>4. wanted \in Int
          BY <3>1, <3>3 DEF Quot
        <3>. QED BY <1>2, <2>2, <3>2, <3>4
      <2>3. CASE ~SynthBuf
        BY <2>1, <2>3 DEF SynthInv
      <2>. QED BY <2>2, <2>3
    <1>. QED BY <1>1, <1>2

LEMMA SectorsType ==
    Spp \in Nat \ {0} /\ MaxSectors \in Nat /\ MB \in Nat \ {0} /\ KB \in Nat
    <1>1. {Spp, PageKB, MegaKB, MaxKB} \subseteq Nat \ {0}
          /\ MegaKB % PageKB = 0
      BY ConstantsAssumption
    <1>2. MaxKB \div PageKB \in Nat
      BY <1>1
    <1>3. MegaKB \div PageKB \in Nat \ {0}
      BY <1>1
    <1>4. MaxSectors \in Nat /\ MB \in Nat \ {0}
      BY <1>1, <1>2, <1>3 DEF MaxSectors, MB
    <1>. QED BY <1>1, <1>4 DEF KB

LEMMA BytesType ==
    ASSUME NEW r \in Request
    PROVE  Bytes(r) \in Nat /\ Bytes(r) = Smaller(Pages(r) * Spp, MaxSectors)
    <1>1. Spp \in Nat \ {0} /\ r.bcount \in Nat
      BY SectorsType, RequestType
    <1>2. Pages(r) \in Nat
      BY <1>1 DEF Pages
    <1>3. MaxSectors \in Nat
      BY SectorsType
    <1>4. Pages(r) * Spp \in Nat
      BY <1>1, <1>2
    <1>5. Bytes(r) = Smaller(Pages(r) * Spp, MaxSectors)
      BY DEF Bytes, AlignSector
    <1>. QED BY <1>3, <1>4, <1>5 DEF Smaller

\* Each request of a synthetic workload counts with the same bytes.
LEMMA UnitIsBytes ==
    ASSUME LoadInv, wanted > 0
    PROVE  /\ UnitBytes \in Nat
           /\ \A k \in 1 .. Len(buf) : Bytes(buf[k]) = UnitBytes
           /\ IoPages(job) \in Nat \ {0}
           /\ UnitBytes <= IoPages(job) * Spp
    <1>1. SynthBuf /\ job \in Jobs
      BY WantedType
    <1>2. /\ Divides(job) /\ Shaped(job, buf) /\ buf \in Seq(Request)
      BY <1>1 DEF SynthBuf
    <1>3. IoPages(job) \in Nat \ {0} /\ Spp \in Nat \ {0}
      BY <1>1, <1>2, SynthSizes, ConstantsAssumption DEF Divides
    <1>4. MaxSectors \in Nat /\ IoPages(job) * Spp \in Nat
      BY <1>3, SectorsType
    <1>5. UnitBytes \in Nat /\ UnitBytes <= IoPages(job) * Spp
      BY <1>4 DEF UnitBytes, Smaller
    <1>6. ASSUME NEW k \in 1 .. Len(buf)
          PROVE  Bytes(buf[k]) = UnitBytes
      <2>1. buf[k] \in Request /\ buf[k].bcount = IoPages(job) * Spp
        BY <1>2 DEF Shaped
      <2>2. (IoPages(job) * Spp + Spp - 1) \div Spp = IoPages(job)
        <3>1. ASSUME NEW m \in Nat, NEW d \in Nat \ {0}
              PROVE  (m * d + d - 1) \div d = m
          OBVIOUS
        <3>. QED BY <1>3, <3>1
      <2>3. Pages(buf[k]) = IoPages(job)
        BY <2>1, <2>2 DEF Pages
      <2>. QED BY <2>1, <2>3, BytesType DEF UnitBytes
    <1>. QED BY <1>3, <1>5, <1>6

LEMMA LastType ==
    ASSUME LoadInv, Replaying
    PROVE  /\ Last \in Nat /\ Len(buf) \in Nat \ {0}
           /\ wanted <= 0 => Last = Len(buf) - 1
           /\ \A n \in 1 .. Last : Due(n) \in Nat
    <1>1. buf \in Seq(Request) /\ buf # <<>>
      BY BufType DEF Replaying
    <1>2. Len(buf) \in Nat \ {0}
      BY <1>1
    <1>3. wanted \in Int
      BY WantedType
    <1>4. CASE wanted > 0
      BY <1>2, <1>3, <1>4, UnitIsBytes DEF Last, Due
    <1>5. CASE ~(wanted > 0)
      <2>1. Last = Len(buf) - 1
        BY <1>5 DEF Last
      <2>2. ASSUME NEW n \in 1 .. Last PROVE Due(n) \in Nat
        <3>1. buf[n] \in Request
          BY <1>1, <1>2, <2>1
        <3>. QED BY <1>5, <3>1, BytesType DEF Due
      <2>. QED BY <1>2, <1>3, <1>5, <2>1, <2>2
    <1>. QED BY <1>4, <1>5

LEMMA ThroughType ==
    ASSUME LoadInv, Replaying
    PROVE  Through \in [1 .. Last -> Int]
    BY LastType DEF Through

LEMMA SumsType ==
    ASSUME NEW st \in [Threads -> Stat]
    PROVE  /\ AllOf(st) \in [1 .. NThread -> Int]
           /\ CurOf(st) \in [1 .. NThread -> Int]
           /\ \A w \in Threads : AllOf(st)[w] \in Nat /\ CurOf(st)[w] \in Nat
           /\ Upto(AllOf(st)) \in [0 .. NThread -> Int]
           /\ Upto(CurOf(st)) \in [0 .. NThread -> Int]
           /\ Upto(AllOf(st))[0] = 0
           /\ \A m \in Threads :
                 Upto(AllOf(st))[m] = Upto(AllOf(st))[m - 1] + st[m].total.all
           /\ SumOf(AllOf(st)) = Upto(AllOf(st))[NThread]
           /\ SumOf(CurOf(st)) = Upto(CurOf(st))[NThread]
    <1>1. \A w \in Threads : st[w].total.all \in Nat /\ st[w].cur.all \in Nat
      BY StatFields
    <1>2. /\ AllOf(st) \in [1 .. NThread -> Int]
          /\ CurOf(st) \in [1 .. NThread -> Int]
          /\ \A w \in Threads : AllOf(st)[w] = st[w].total.all
          /\ \A w \in Threads : CurOf(st)[w] = st[w].cur.all
      BY <1>1, ThreadsType DEF AllOf, CurOf
    <1>3. NThread \in Nat /\ NThread \in 0 .. NThread /\ Threads = 1 .. NThread
      BY ThreadsType
    <1>4. /\ Upto(AllOf(st)) \in [0 .. NThread -> Int]
          /\ Upto(AllOf(st))[0] = 0
          /\ \A m \in 1 .. NThread :
                Upto(AllOf(st))[m] = Upto(AllOf(st))[m - 1] + AllOf(st)[m]
      BY <1>2, <1>3, UptoDef
    <1>5. Upto(CurOf(st)) \in [0 .. NThread -> Int]
      BY <1>2, <1>3, UptoDef
    <1>6. SumOf(AllOf(st)) = Upto(AllOf(st))[NThread]
      BY <1>2, <1>3, SumIsUpto
    <1>7. SumOf(CurOf(st)) = Upto(CurOf(st))[NThread]
      BY <1>2, <1>3, SumIsUpto
    <1>. QED BY <1>1, <1>2, <1>3, <1>4, <1>5, <1>6, <1>7

\* The statistics of one thread are changed.
Changed(st, w, u, new) ==
    /\ st \in [Threads -> Stat] /\ w \in Threads /\ u \in Stat
    /\ new = [st EXCEPT ![w] = u]

LEMMA StatPoint ==
    ASSUME NEW st, NEW w, NEW u, NEW new, Changed(st, w, u, new)
    PROVE  /\ new \in [Threads -> Stat]
           /\ \A m \in 0 .. NThread :
                 /\ Upto(AllOf(new))[m]
                    = Upto(AllOf(st))[m]
                      + IF m >= w THEN u.total.all - st[w].total.all ELSE 0
                 /\ Upto(CurOf(new))[m]
                    = Upto(CurOf(st))[m]
                      + IF m >= w THEN u.cur.all - st[w].cur.all ELSE 0
    <1>1. /\ st \in [Threads -> Stat] /\ w \in Threads
          /\ new \in [Threads -> Stat] /\ new[w] = u
          /\ \A k \in Threads : k # w => new[k] = st[k]
      BY DEF Changed
    <1>2. /\ AllOf(new) \in [1 .. NThread -> Int]
          /\ CurOf(new) \in [1 .. NThread -> Int]
          /\ AllOf(st) \in [1 .. NThread -> Int]
          /\ CurOf(st) \in [1 .. NThread -> Int]
      BY <1>1, SumsType
    <1>3. /\ AllOf(new)[w] = u.total.all /\ CurOf(new)[w] = u.cur.all
          /\ AllOf(st)[w] = st[w].total.all /\ CurOf(st)[w] = st[w].cur.all
          /\ \A k \in 1 .. NThread : k # w => AllOf(new)[k] = AllOf(st)[k]
          /\ \A k \in 1 .. NThread : k # w => CurOf(new)[k] = CurOf(st)[k]
      BY <1>1, ThreadsType DEF AllOf, CurOf
    <1>4. NThread \in Nat /\ w \in 1 .. NThread
      BY <1>1, ThreadsType
    <1>5. \A m \in 0 .. NThread :
             Upto(AllOf(new))[m]
             = Upto(AllOf(st))[m]
               + IF m >= w THEN AllOf(new)[w] - AllOf(st)[w] ELSE 0
      BY <1>2, <1>3, <1>4, UptoPoint
    <1>6. \A m \in 0 .. NThread :
             Upto(CurOf(new))[m]
             = Upto(CurOf(st))[m]
               + IF m >= w THEN CurOf(new)[w] - CurOf(st)[w] ELSE 0
      BY <1>2, <1>3, <1>4, UptoPoint
    <1>. QED BY <1>1, <1>3, <1>5, <1>6

-----------------------------------------------------------------------------
(* The replay begins                                                       *)

LEMMA NoSums ==
    ASSUME NEW n \in Nat, NEW f \in [1 .. n -> Int],
           \A k \in 1 .. n : f[k] = 0
    PROVE  SumOf(f) = 0
    <1>1. Upto(f)[n] = n * 0
      BY UptoConst
    <1>. QED BY <1>1, SumIsUpto

LEMMA FreshInv ==
    LoadInv /\ Fresh /\ clock \in Nat /\ tvEnd \in Nat => ReplayInv
    <1>. SUFFICES ASSUME LoadInv, Fresh, clock \in Nat, tvEnd \in Nat
                  PROVE  ReplayInv
      OBVIOUS
    <1>1. stat \in [Threads -> Stat]
      BY NoStatIsStat DEF Fresh
    <1>2. /\ NoStat.total.all = 0 /\ NoStat.cur.all = 0
      BY DEF NoStat, NoTraffic
    <1>3. /\ AllOf(stat) \in [1 .. NThread -> Int]
          /\ CurOf(stat) \in [1 .. NThread -> Int]
      BY <1>1, SumsType
    <1>4. /\ \A w \in 1 .. NThread : AllOf(stat)[w] = 0
          /\ \A w \in 1 .. NThread : CurOf(stat)[w] = 0
      BY <1>2, ThreadsType DEF Fresh, AllOf, CurOf
    <1>5. SumOf(AllOf(stat)) = 0 /\ SumOf(CurOf(stat)) = 0
      BY <1>3, <1>4, NoSums, ThreadsType
    <1>6. StateType
      <2>1. print = [at |-> 0, detail |-> FALSE, dst |-> NoStat]
        BY DEF Fresh, Idle
      <2>2. print \in [at : 0 .. NThread + 1, detail : BOOLEAN, dst : Stat]
        BY <2>1, NoStatIsStat, ThreadsType
      <2>. QED BY <1>1, <2>1, <2>2 DEF Fresh, StateType
    <1>7. Replaying => Numbered
      <2>. SUFFICES ASSUME Replaying PROVE Numbered
        OBVIOUS
      <2>1. \A n \in 1 .. Last : Through[n] = 0
        BY LastType DEF Through, Fresh
      <2>2. SumOf(Through) = 0
        BY <2>1, LastType, ThroughType, NoSums
      <2>. QED BY <1>5, <2>2 DEF Fresh, Numbered
    <1>8. ToldOnce
      <2>1. told = 0 /\ print.dst.cur.all = 0
        BY <1>2 DEF Fresh, Idle
      <2>. QED BY <1>5, <2>1 DEF ToldOnce, AllOf, CurOf
    <1>9. Swept /\ Remembered /\ Totalled
      BY DEF Fresh, Idle, NoReport, Swept, Remembered, Totalled
    <1>. QED BY <1>6, <1>7, <1>8, <1>9 DEF ReplayInv

LEMMA InitReplay == Init => ReplayInv
    <1>. SUFFICES ASSUME Init PROVE ReplayInv
      OBVIOUS
    <1>1. LoadInv
      BY InitFile
    <1>2. Fresh /\ clock \in Nat /\ tvEnd \in Nat
      BY StatsAssumption DEF Init, Fresh
    <1>. QED BY <1>1, <1>2, FreshInv

\* Nothing is loaded any more while requests are replayed.
LEMMA LoadsBefore == LoadStep => ~Replaying
    BY DEF Replaying, LoadStep, ReadLine, WrongLine, FileEnds, CutTail, Merge,
           Drop, CutHead, Apart, AppendRequest, Comparing, Rejected, Crashed,
           Generate

LEMMA LoadReplay == LoadInv /\ LoadInv' /\ ReplayInv /\ Load => ReplayInv'
    <1>1. LoadInv /\ LoadInv' /\ ReplayInv /\ Load
          => (LoadInv /\ Fresh /\ clock \in Nat /\ tvEnd \in Nat)'
      <2>. SUFFICES ASSUME LoadInv, LoadInv', ReplayInv, Load
                    PROVE  (/\ LoadInv /\ Fresh
                            /\ clock \in Nat /\ tvEnd \in Nat)'
        OBVIOUS
      <2>1. Fresh /\ StateType /\ UNCHANGED replayVars
        BY LoadsBefore DEF Load, ReplayInv
      <2>2. Fresh'
        BY <2>1 DEF Fresh, replayVars
      <2>3. clock' \in Nat /\ tvEnd' \in Nat
        BY <2>1 DEF StateType, replayVars
      <2>. QED BY <2>2, <2>3
    <1>. QED BY <1>1, FreshInv, PTL

-----------------------------------------------------------------------------
(* What a step leaves alone                                                *)

LEMMA NumberedStays ==
    ASSUME Numbered, UNCHANGED <<job, buf, wanted, cur, issue, flight, left>>,
           AllOf(stat') = AllOf(stat)
    PROVE  Numbered'
    <1>1. Last' = Last
      BY DEF Last
    <1>2. \A n : Due(n)' = Due(n)
      BY DEF Due, UnitBytes
    <1>3. Through' = Through
      BY <1>1, <1>2 DEF Through, Pending
    <1>. QED BY <1>1, <1>2, <1>3 DEF Numbered

LEMMA AheadStays ==
    ASSUME UNCHANGED print, AllOf(stat') = AllOf(stat)
    PROVE  Ahead' = Ahead /\ (Swept => Swept')
    BY DEF Ahead, Swept

LEMMA RememberedStays ==
    ASSUME Remembered, UNCHANGED <<report, wanted, job>>,
           Ahead \in Int, Ahead' \in Int, Ahead <= Ahead'
    PROVE  Remembered'
    <1>. SUFFICES ASSUME NEW log \in report.log, wanted > 0
                  PROVE  \E n \in Nat :
                            /\ Shows(log, n)'
                            /\ (n <= (wanted - 1) * UnitBytes)'
                            /\ n <= Ahead'
      BY DEF Remembered
    <1>1. PICK n \in Nat :
             Shows(log, n) /\ n <= (wanted - 1) * UnitBytes /\ n <= Ahead
      BY DEF Remembered
    <1>2. Shows(log, n)' /\ (n <= (wanted - 1) * UnitBytes)'
      BY <1>1 DEF Shows, IoSize, UnitBytes
    <1>3. n <= Ahead'
      BY <1>1
    <1>. QED BY <1>2, <1>3

LEMMA TotalledStays ==
    ASSUME Totalled, UNCHANGED <<results, left, wanted, buf>>
    PROVE  Totalled'
    <1>1. Replayable' = Replayable
      BY DEF Replayable
    <1>. QED BY <1>1 DEF Totalled

LEMMA AheadType ==
    ASSUME StateType
    PROVE  Ahead \in Int
    <1>1. Upto(AllOf(stat)) \in [0 .. NThread -> Int] /\ NThread \in Nat
      BY SumsType, ThreadsType DEF StateType
    <1>2. print.dst.total.all \in Int /\ print.at \in 0 .. NThread + 1
      BY StatFields DEF StateType
    <1>3. CASE print.at = 0
      BY <1>1, <1>3 DEF Ahead
    <1>4. CASE print.at # 0
      <2>1. print.at - 1 \in 0 .. NThread
        BY <1>1, <1>2, <1>4
      <2>2. Upto(AllOf(stat))[print.at - 1] \in Int
        BY <1>1, <2>1
      <2>. QED BY <1>1, <1>2, <1>4, <2>2 DEF Ahead
    <1>. QED BY <1>3, <1>4

\* A step that leaves the requests, the statistics and the reports alone.
LEMMA ReplayFrame ==
    ASSUME ReplayInv, StateType',
           UNCHANGED <<job, phase, buf, wanted, cur, issue, flight, left, done,
                       stat, print, report, results, told>>
    PROVE  ReplayInv'
    <1>1. Replaying' = Replaying
      BY DEF Replaying
    <1>2. Fresh => Fresh'
      BY DEF Fresh
    <1>3. AllOf(stat') = AllOf(stat)
      OBVIOUS
    <1>4. Numbered => Numbered'
      BY <1>3, NumberedStays
    <1>5. Swept' /\ Ahead' = Ahead
      BY <1>3, AheadStays DEF ReplayInv
    <1>6. Remembered'
      BY <1>5, RememberedStays, AheadType DEF ReplayInv
    <1>7. Totalled'
      BY TotalledStays DEF ReplayInv
    <1>8. ToldOnce'
      BY DEF ReplayInv, ToldOnce
    <1>. QED BY <1>1, <1>2, <1>4, <1>5, <1>6, <1>7, <1>8 DEF ReplayInv

LEMMA StutterReplay ==
    ASSUME ReplayInv, UNCHANGED vars
    PROVE  ReplayInv'
    <1>1. StateType'
      BY DEF ReplayInv, StateType, vars, replayVars
    <1>. QED BY <1>1, ReplayFrame DEF vars, loadVars, replayVars

LEMMA TickReplay ==
    ASSUME ReplayInv, Tick
    PROVE  ReplayInv'
    <1>1. StateType'
      BY DEF ReplayInv, StateType, Tick
    <1>. QED BY <1>1, ReplayFrame DEF Tick, loadVars

-----------------------------------------------------------------------------
(* The threads leave                                                       *)

\* A step that may count a request up, or takes a thread away, when all were
\* made.
LEMMA LeftKeeps ==
    ASSUME Numbered, Last \in Nat, flight \in [Threads -> SUBSET JobRec],
           UNCHANGED <<job, buf, wanted, flight, stat>>,
           issue \in Nat, issue' \in {issue, issue + 1},
           wanted <= 0 => cur' = issue', issue' > Last
    PROVE  Numbered'
    <1>1. Last' = Last
      BY DEF Last
    <1>2. \A n : Due(n)' = Due(n)
      BY DEF Due, UnitBytes
    <1>3. Through' = Through
      <2>1. ASSUME NEW n \in 1 .. Last
            PROVE  (n <= issue' /\ ~Pending(n - 1)')
                 <=> (n <= issue /\ ~Pending(n - 1))
        <3>1. Pending(n - 1)' <=> Pending(n - 1)
          BY DEF Pending
        <3>2. n <= issue' /\ n <= issue
          OBVIOUS
        <3>. QED BY <3>1, <3>2
      <2>. QED BY <1>1, <1>2, <2>1 DEF Through
    <1>4. \A w \in Threads : \A j \in flight'[w] :
             j.nr < issue' /\ j.nr < Last' /\ j.bytes = Due(j.nr + 1)'
      <2>1. \A w \in Threads : \A j \in flight[w] : j.nr \in Nat
        BY DEF JobRec
      <2>. QED BY <1>1, <1>2, <2>1 DEF Numbered
    <1>. QED BY <1>1, <1>2, <1>3, <1>4 DEF Numbered

\* Where no job is made for a request, all were made.
LEMMA AllMade ==
    ASSUME LoadInv, StateType, Replaying, Numbered
    PROVE  /\ AtEnd(issue + 1) /\ ~CanReset(issue + 1) => issue + 1 > Last
           /\ cur >= Len(buf) /\ ~CanReset(issue) => issue > Last
    <1>1. /\ wanted \in Int /\ issue \in Nat /\ cur \in Nat
          /\ Len(buf) \in Nat /\ (wanted <= 0 => cur = issue)
      BY WantedType, LastType DEF StateType, Numbered
    <1>. QED BY <1>1 DEF AtEnd, CanReset, Last

LEMMA LeaveReplay ==
    ASSUME LoadInv, ReplayInv, NEW w \in Threads, Leave(w) \/ Refused(w)
    PROVE  ReplayInv'
    <1>1. /\ Replaying /\ left' = left \cup {w} /\ w \notin left
          /\ UNCHANGED <<loadVars, flight, done, stat, clock, tvEnd, print,
                         report, results, told>>
      BY DEF Leave, Refused, Takes
    <1>2. \/ cur' = cur /\ issue' = issue /\ issue > Last
          \/ cur' = cur + 1 /\ issue' = issue + 1 /\ issue + 1 > Last
      BY <1>1, AllMade DEF Leave, Refused, ReplayInv
    <1>3. StateType'
      BY <1>1, <1>2 DEF ReplayInv, StateType
    <1>4. Replaying'
      BY <1>1 DEF Replaying, loadVars
    <1>5. Numbered'
      <2>1. /\ Numbered /\ Last \in Nat /\ issue \in Nat
            /\ flight \in [Threads -> SUBSET JobRec]
        BY <1>1, LastType DEF ReplayInv, StateType
      <2>2. wanted <= 0 => cur' = issue'
        BY <1>2, <2>1 DEF Numbered
      <2>3. issue' > Last /\ issue' \in {issue, issue + 1}
        BY <1>2
      <2>. QED BY <1>1, <2>1, <2>2, <2>3, LeftKeeps DEF loadVars
    <1>6. Swept' /\ Ahead' = Ahead
      BY <1>1, AheadStays DEF ReplayInv
    <1>7. Remembered'
      BY <1>1, <1>6, RememberedStays, AheadType DEF ReplayInv, loadVars
    <1>8. Totalled'
      <2>1. results = {}
        BY <1>1 DEF ReplayInv, Totalled
      <2>. QED BY <1>1, <2>1 DEF Totalled
    <1>9. ToldOnce'
      BY <1>1 DEF ReplayInv, ToldOnce
    <1>. QED BY <1>3, <1>4, <1>5, <1>6, <1>7, <1>8, <1>9 DEF ReplayInv

LEMMA SetDoneReplay ==
    ASSUME LoadInv, ReplayInv, NEW w \in Threads, SetDone(w)
    PROVE  ReplayInv'
    <1>. DEFINE u == [stat[w] EXCEPT !.exec = clock - Epoch]
    <1>1. /\ w \in left \ done /\ flight[w] = {} /\ done' = done \cup {w}
          /\ stat' = [stat EXCEPT ![w] = u]
          /\ UNCHANGED <<loadVars, cur, issue, rep, flight, left, clock, tvEnd,
                         print, report, results, told>>
      BY DEF SetDone
    <1>2. StateType /\ stat \in [Threads -> Stat]
      BY DEF ReplayInv, StateType
    <1>3. /\ u \in Stat /\ u.total = stat[w].total /\ u.cur = stat[w].cur
      <2>1. stat[w] \in Stat /\ clock - Epoch \in Int
        BY <1>2, StatsAssumption DEF StateType
      <2>2. stat[w] \in StatRec /\ Agrees(stat[w])
        BY <2>1 DEF Stat
      <2>3. u \in StatRec
        BY <2>1, <2>2 DEF StatRec
      <2>4. /\ u.total = stat[w].total /\ u.cur = stat[w].cur
            /\ u.min = stat[w].min /\ u.max = stat[w].max
            /\ u.sum = stat[w].sum /\ u.sqr = stat[w].sqr
            /\ u.count = stat[w].count
        BY <2>2 DEF StatRec
      <2>. HIDE DEF u
      <2>5. Agrees(u)
        BY <2>2, <2>4 DEF Agrees, Spread
      <2>. QED BY <2>3, <2>4, <2>5 DEF Stat
    <1>. HIDE DEF u
    <1>4. stat' \in [Threads -> Stat]
      BY <1>1, <1>2, <1>3
    <1>5. AllOf(stat') = AllOf(stat) /\ CurOf(stat') = CurOf(stat)
      <2>1. /\ stat'[w] = u
            /\ \A k \in Threads : k # w => stat'[k] = stat[k]
        BY <1>1, <1>2
      <2>2. \A k \in Threads : /\ stat'[k].total.all = stat[k].total.all
                               /\ stat'[k].cur.all = stat[k].cur.all
        BY <1>3, <2>1
      <2>. QED BY <2>2 DEF AllOf, CurOf
    <1>6. StateType'
      BY <1>1, <1>2, <1>4 DEF StateType
    <1>7. Replaying /\ Replaying'
      BY <1>1 DEF ReplayInv, Fresh, Replaying, loadVars
    <1>8. Numbered'
      BY <1>1, <1>5, <1>7, NumberedStays DEF ReplayInv, loadVars
    <1>9. Swept' /\ Ahead' = Ahead
      BY <1>1, <1>5, AheadStays DEF ReplayInv
    <1>10. Remembered'
      BY <1>1, <1>9, RememberedStays, AheadType DEF ReplayInv, loadVars
    <1>11. Totalled'
      BY <1>1, TotalledStays DEF ReplayInv, loadVars
    <1>12. ToldOnce'
      BY <1>1, <1>5 DEF ReplayInv, ToldOnce, AllOf, CurOf
    <1>. QED BY <1>6, <1>7, <1>8, <1>9, <1>10, <1>11, <1>12 DEF ReplayInv

-----------------------------------------------------------------------------
(* print_result                                                            *)

LEMMA BeginReplay ==
    ASSUME LoadInv, ReplayInv, Begin
    PROVE  ReplayInv'
    <1>1. /\ Replaying /\ print.at = 0 /\ results = {}
          /\ print' = [at |-> 1, detail |-> done = Threads, dst |-> NoStat]
          /\ tvEnd' \in {clock, tvEnd}
          /\ UNCHANGED <<loadVars, cur, issue, rep, flight, left, done, stat,
                         clock, report, results, told>>
      BY DEF Begin
    <1>2. StateType /\ stat \in [Threads -> Stat] /\ print.dst = NoStat
      BY <1>1 DEF ReplayInv, StateType
    <1>3. /\ print'.at = 1 /\ print'.detail = (done = Threads)
          /\ print'.dst = NoStat
      BY <1>1
    <1>4. StateType'
      <2>1. print' \in [at : 0 .. NThread + 1, detail : BOOLEAN, dst : Stat]
        BY <1>1, NoStatIsStat, ThreadsType
      <2>. QED BY <1>1, <1>2, <1>3, <2>1 DEF StateType
    <1>5. Replaying'
      BY <1>1 DEF Replaying, loadVars
    <1>6. Numbered'
      BY <1>1, NumberedStays DEF ReplayInv, loadVars
    <1>7. NoStat.total.all = 0 /\ NoStat.cur.all = 0
      BY DEF NoStat, NoTraffic
    <1>8. /\ Upto(AllOf(stat)) \in [0 .. NThread -> Int]
          /\ Upto(AllOf(stat))[0] = 0
      BY <1>2, SumsType
    <1>9. Swept'
      BY <1>1, <1>3, <1>7, <1>8 DEF Swept
    <1>10. Ahead' = Ahead
      <2>1. Upto(AllOf(stat))[NThread] \in Int
        BY <1>8, ThreadsType
      <2>. QED BY <1>1, <1>3, <1>7, <1>8, <2>1 DEF Ahead
    <1>11. Remembered'
      BY <1>1, <1>2, <1>10, RememberedStays, AheadType DEF ReplayInv, loadVars
    <1>12. Totalled'
      BY <1>1 DEF Totalled
    <1>13. ToldOnce'
      BY <1>1, <1>2, <1>3 DEF ReplayInv, ToldOnce
    <1>. QED BY <1>4, <1>5, <1>6, <1>9, <1>11, <1>12, <1>13 DEF ReplayInv

\* One thread is added up, and its interval begins anew.
LEMMA SweepReplay ==
    ASSUME LoadInv, ReplayInv, Sweep
    PROVE  ReplayInv'
    <1>. DEFINE w == print.at
                u == [stat[w] EXCEPT !.cur = NoTraffic]
                d == AddStat(print.at = 1, print.dst, stat[w])
                U == Upto(AllOf(stat))
    <1>1. /\ w \in Threads
          /\ print' = [print EXCEPT !.at = w + 1, !.dst = d]
          /\ stat' = [stat EXCEPT ![w] = u]
          /\ UNCHANGED <<loadVars, cur, issue, rep, flight, left, done, clock,
                         tvEnd, report, results, told>>
      BY DEF Sweep
    <1>2. /\ StateType /\ stat \in [Threads -> Stat] /\ stat[w] \in Stat
          /\ print \in [at : 0 .. NThread + 1, detail : BOOLEAN, dst : Stat]
          /\ print.at = 1 => print.dst = NoStat
          /\ print.dst \in Stat
      BY <1>1 DEF ReplayInv, StateType
    <1>3. /\ w \in 1 .. NThread /\ NThread \in Nat
      BY <1>1, ThreadsType
    <1>4. /\ u \in Stat /\ u.total = stat[w].total /\ u.cur.all = 0
      <2>1. stat[w] \in StatRec /\ Agrees(stat[w]) /\ NoTraffic \in Traffic
        BY <1>2 DEF Stat, NoTraffic, Traffic
      <2>2. u \in StatRec
        BY <2>1 DEF StatRec
      <2>3. /\ u.total = stat[w].total /\ u.cur = NoTraffic
            /\ u.min = stat[w].min /\ u.max = stat[w].max
            /\ u.sum = stat[w].sum /\ u.sqr = stat[w].sqr
            /\ u.count = stat[w].count
        BY <2>1 DEF StatRec
      <2>. HIDE DEF u
      <2>4. Agrees(u)
        BY <2>1, <2>3 DEF Agrees, Spread
      <2>5. NoTraffic.all = 0
        BY DEF NoTraffic
      <2>. QED BY <2>2, <2>3, <2>4, <2>5 DEF Stat
    <1>5. /\ d \in Stat
          /\ d.total.all = print.dst.total.all + stat[w].total.all
          /\ d.cur.all = print.dst.cur.all + stat[w].cur.all
      BY <1>2, AddStatType
    <1>6. /\ print'.at = w + 1 /\ print'.detail = print.detail
          /\ print'.dst = d
      BY <1>1, <1>2
    <1>7. print' \in [at : 0 .. NThread + 1, detail : BOOLEAN, dst : Stat]
      <2>1. w + 1 \in 0 .. NThread + 1
        BY <1>3
      <2>. HIDE DEF d, w
      <2>. QED BY <1>1, <1>2, <1>5, <2>1
    <1>. HIDE DEF u, d
    <1>8. /\ stat' \in [Threads -> Stat]
          /\ \A m \in 0 .. NThread :
                Upto(CurOf(stat'))[m]
                = Upto(CurOf(stat))[m]
                  + IF m >= w THEN u.cur.all - stat[w].cur.all ELSE 0
      <2>1. Changed(stat, w, u, stat')
        BY <1>1, <1>2, <1>4 DEF Changed
      <2>. QED BY <2>1, StatPoint
    <1>9. AllOf(stat') = AllOf(stat)
      <2>1. /\ stat'[w] = u
            /\ \A k \in Threads : k # w => stat'[k] = stat[k]
        BY <1>1, <1>2
      <2>2. \A k \in Threads : stat'[k].total.all = stat[k].total.all
        BY <1>4, <2>1
      <2>. QED BY <2>2 DEF AllOf
    <1>10. StateType'
      <2>1. ~(print'.at \in {0, 1})
        BY <1>3, <1>6
      <2>. QED BY <1>1, <1>2, <1>6, <1>7, <1>8, <2>1 DEF StateType
    <1>11. Replaying /\ Replaying'
      BY <1>1, <1>3 DEF ReplayInv, Fresh, Idle, Replaying, loadVars
    <1>12. Numbered'
      BY <1>1, <1>9, <1>11, NumberedStays DEF ReplayInv, loadVars
    <1>13. /\ U \in [0 .. NThread -> Int]
           /\ U[w] = U[w - 1] + stat[w].total.all
           /\ U[w - 1] \in Int /\ U[w] \in Int /\ U[NThread] \in Int
      <2>1. U \in [0 .. NThread -> Int]
        BY <1>2, SumsType, Zenon
      <2>2. U[w] = U[w - 1] + stat[w].total.all
        <3>1. \A m \in Threads : U[m] = U[m - 1] + stat[m].total.all
          BY <1>2, SumsType, Zenon
        <3>. QED BY <1>1, <3>1, Zenon
      <2>. HIDE DEF U, w
      <2>3. w - 1 \in 0 .. NThread /\ w \in 0 .. NThread
            /\ NThread \in 0 .. NThread
        BY <1>3
      <2>. QED BY <2>1, <2>2, <2>3
    <1>14. /\ print.dst.total.all \in Int /\ stat[w].total.all \in Int
           /\ print.dst.cur.all \in Int /\ stat[w].cur.all \in Int
      BY <1>2, StatFields
    <1>15. Swept'
      <2>1. /\ print.dst.total.all <= U[w - 1]
            /\ print.detail => print.dst.total.all = U[w - 1]
        BY <1>3 DEF ReplayInv, Swept
      <2>2. print'.at - 1 = w
        BY <1>3, <1>6
      <2>3. d.total.all <= U[w] /\ (print.detail => d.total.all = U[w])
        BY <1>5, <1>13, <1>14, <2>1
      <2>4. Swept' <=> (print'.at > 0 =>
                           /\ print'.dst.total.all
                                <= Upto(AllOf(stat'))[print'.at - 1]
                           /\ print'.detail =>
                                 print'.dst.total.all
                                 = Upto(AllOf(stat'))[print'.at - 1])
        BY DEF Swept
      <2>. QED BY <1>6, <1>9, <2>2, <2>3, <2>4
    <1>16. Ahead' = Ahead
      <2>1. Ahead = print.dst.total.all + (U[NThread] - U[w - 1])
        BY <1>3 DEF Ahead
      <2>2. print'.at - 1 = w /\ print'.at # 0
        BY <1>3, <1>6
      <2>3. Ahead' = d.total.all + (U[NThread] - U[w])
        <3>1. Ahead' = IF print'.at = 0 THEN Upto(AllOf(stat'))[NThread]
                       ELSE print'.dst.total.all
                            + (Upto(AllOf(stat'))[NThread]
                               - Upto(AllOf(stat'))[print'.at - 1])
          BY DEF Ahead
        <3>. QED BY <1>6, <1>9, <2>2, <3>1
      <2>4. d.total.all = print.dst.total.all + stat[w].total.all
        BY <1>5
      <2>. HIDE DEF U, w
      <2>5. U[NThread] - U[w - 1] = stat[w].total.all + (U[NThread] - U[w])
        BY <1>13, <1>14
      <2>. QED BY <1>13, <1>14, <2>1, <2>3, <2>4, <2>5
    <1>17. Remembered'
      BY <1>1, <1>2, <1>16, RememberedStays, AheadType DEF ReplayInv, loadVars
    <1>18. Totalled'
      BY <1>1, TotalledStays DEF ReplayInv, loadVars
    <1>19. ToldOnce'
      <2>1. SumOf(CurOf(stat')) = SumOf(CurOf(stat)) - stat[w].cur.all
        <3>1. NThread \in 0 .. NThread /\ NThread >= w
          BY <1>3
        <3>2. Upto(CurOf(stat')) [NThread]
              = Upto(CurOf(stat))[NThread] + (u.cur.all - stat[w].cur.all)
          BY <1>8, <3>1
        <3>3. SumOf(CurOf(stat')) = Upto(CurOf(stat'))[NThread]
          BY <1>8, SumsType
        <3>4. /\ SumOf(CurOf(stat)) = Upto(CurOf(stat))[NThread]
              /\ Upto(CurOf(stat))[NThread] \in Int
          BY <1>2, <3>1, SumsType
        <3>. QED BY <1>4, <1>14, <3>2, <3>3, <3>4
      <2>2. SumOf(CurOf(stat)) \in Int /\ told \in Int
        <3>1. NThread \in 0 .. NThread
          BY <1>3
        <3>. QED BY <1>2, <3>1, SumsType DEF StateType
      <2>3. results = {} =>
               told + print.dst.cur.all + SumOf(CurOf(stat))
               = SumOf(AllOf(stat))
        BY DEF ReplayInv, ToldOnce, CurOf, AllOf
      <2>4. results = {} =>
               told + d.cur.all + SumOf(CurOf(stat')) = SumOf(AllOf(stat'))
        BY <1>5, <1>9, <1>14, <2>1, <2>2, <2>3
      <2>. QED BY <1>1, <1>6, <2>4 DEF ToldOnce, CurOf, AllOf
    <1>. QED BY <1>10, <1>11, <1>12, <1>15, <1>17, <1>18, <1>19 DEF ReplayInv

\* The threads never count more than there is to do.
LEMMA CountedBound ==
    ASSUME LoadInv, StateType, Replaying, Numbered, wanted > 0
    PROVE  Upto(AllOf(stat))[NThread] <= (wanted - 1) * UnitBytes
    <1>. DEFINE g == [n \in 1 .. Last |-> UnitBytes]
    <1>1. /\ Last \in Nat /\ Last = wanted - 1 /\ UnitBytes \in Nat
          /\ Last \in 0 .. Last
      BY LastType, UnitIsBytes DEF Last
    <1>2. Through \in [1 .. Last -> Int]
      BY ThroughType
    <1>3. g \in [1 .. Last -> Int] /\ \A n \in 1 .. Last : g[n] = UnitBytes
      BY <1>1
    <1>4. \A n \in 1 .. Last : Through[n] <= g[n]
      BY <1>1 DEF Through, Due
    <1>. HIDE DEF g
    <1>5. Upto(Through)[Last] <= Upto(g)[Last]
      BY <1>1, <1>2, <1>3, <1>4, UptoMono
    <1>6. Upto(g)[Last] = Last * UnitBytes
      BY <1>1, <1>3, UptoConst
    <1>7. Upto(Through)[Last] = Upto(AllOf(stat))[NThread]
      <2>1. SumOf(Through) = Upto(Through)[Last]
        BY <1>1, <1>2, SumIsUpto
      <2>2. SumOf(AllOf(stat)) = Upto(AllOf(stat))[NThread]
        BY SumsType DEF StateType
      <2>. QED BY <2>1, <2>2 DEF Numbered
    <1>. QED BY <1>1, <1>5, <1>6, <1>7

LEMMA ReportReplay ==
    ASSUME LoadInv, ReplayInv, Report
    PROVE  ReplayInv'
    <1>. DEFINE log == RealtimeLog(print.dst, clock - Epoch, clock - tvEnd)
                U == Upto(AllOf(stat))
    <1>1. /\ print.at = NThread + 1 /\ ~print.detail
          /\ report' = [nr |-> report.nr + 1, log |-> {log}]
          /\ told' = told + print.dst.cur.all
          /\ tvEnd' = clock /\ print' = Idle
          /\ UNCHANGED <<loadVars, cur, issue, rep, flight, left, done, stat,
                         clock, results>>
      BY DEF Report
    <1>2. /\ StateType /\ stat \in [Threads -> Stat] /\ print.dst \in Stat
          /\ told \in Nat
      BY DEF ReplayInv, StateType
    <1>3. /\ print'.at = 0 /\ print'.dst = NoStat /\ print'.detail = FALSE
          /\ NoStat.cur.all = 0 /\ report'.log = {log}
      BY <1>1 DEF Idle, NoStat, NoTraffic
    <1>4. NThread \in Nat \ {0} /\ print.at - 1 = NThread /\ print.at > 0
      BY <1>1, ThreadsType
    <1>5. /\ print.dst.total.all \in Nat /\ print.dst.cur.all \in Nat
      BY <1>2, StatFields
    <1>6. StateType'
      <2>1. print' \in [at : 0 .. NThread + 1, detail : BOOLEAN, dst : Stat]
        BY <1>1, <1>4, NoStatIsStat DEF Idle
      <2>. QED BY <1>1, <1>2, <1>3, <1>5, <2>1 DEF StateType
    <1>7. Replaying /\ Replaying'
      BY <1>1, <1>4 DEF ReplayInv, Fresh, Idle, Replaying, loadVars
    <1>8. Numbered'
      BY <1>1, <1>7, NumberedStays DEF ReplayInv, loadVars
    <1>9. Swept'
      BY <1>3 DEF Swept
    <1>10. U \in [0 .. NThread -> Int] /\ U[NThread] \in Int
      BY <1>2, <1>4, SumsType
    <1>11. Ahead' = U[NThread]
      BY <1>1, <1>3 DEF Ahead
    <1>12. print.dst.total.all <= U[NThread]
      BY <1>4 DEF ReplayInv, Swept
    <1>13. Remembered'
      <2>1. ASSUME wanted > 0
            PROVE  /\ Shows(log, print.dst.total.all)
                   /\ print.dst.total.all <= (wanted - 1) * UnitBytes
        <3>1. Shows(log, print.dst.total.all)
          BY <2>1 DEF Shows, RealtimeLog, RemainingWanted
        <3>2. U[NThread] <= (wanted - 1) * UnitBytes
          BY <1>7, <2>1, CountedBound DEF ReplayInv
        <3>3. (wanted - 1) * UnitBytes \in Int
          BY <2>1, UnitIsBytes, WantedType
        <3>. QED BY <1>5, <1>10, <1>12, <3>1, <3>2, <3>3
      <2>. HIDE DEF log
      <2>2. ASSUME NEW x \in report'.log, wanted' > 0
            PROVE  \E n \in Nat :
                      /\ Shows(x, n)' /\ (n <= (wanted - 1) * UnitBytes)'
                      /\ n <= Ahead'
        <3>1. PICK n \in Nat : n = print.dst.total.all
          BY <1>5
        <3>2. /\ Shows(x, n) /\ n <= (wanted - 1) * UnitBytes
              /\ n <= Ahead'
          BY <1>1, <1>3, <1>11, <1>12, <2>1, <2>2, <3>1 DEF loadVars
        <3>3. Shows(x, n)' /\ (n <= (wanted - 1) * UnitBytes)'
          BY <1>1, <3>2 DEF Shows, IoSize, UnitBytes, loadVars
        <3>. QED BY <3>2, <3>3
      <2>3. \A x, y \in report'.log : x = y
        BY <1>3
      <2>. QED BY <2>2, <2>3 DEF Remembered
    <1>14. Totalled'
      BY <1>1, TotalledStays DEF ReplayInv, loadVars
    <1>15. ToldOnce'
      <2>1. SumOf(CurOf(stat)) \in Int
        BY <1>2, <1>4, SumsType
      <2>2. results = {} =>
               told + print.dst.cur.all + SumOf(CurOf(stat))
               = SumOf(AllOf(stat))
        BY DEF ReplayInv, ToldOnce, CurOf, AllOf
      <2>3. results' = {} =>
               told' + print'.dst.cur.all + SumOf(CurOf(stat'))
               = SumOf(AllOf(stat'))
        BY <1>1, <1>2, <1>3, <1>5, <2>1, <2>2
      <2>. QED BY <2>3 DEF ToldOnce, CurOf, AllOf
    <1>. QED BY <1>6, <1>7, <1>8, <1>9, <1>13, <1>14, <1>15 DEF ReplayInv

\* The totals are taken when all requests are through.
LEMMA AllCounted ==
    ASSUME LoadInv, StateType, Replaying, Numbered, done = Threads
    PROVE  left = Threads /\ Upto(AllOf(stat))[NThread] = Replayable
    <1>1. left = Threads /\ \A w \in Threads : flight[w] = {}
      BY DEF StateType
    <1>2. left # {}
      BY <1>1, ThreadsType
    <1>3. Last \in Nat /\ issue > Last /\ issue \in Nat /\ Last \in 0 .. Last
      BY <1>2, LastType DEF Numbered, StateType
    <1>4. Through = [n \in 1 .. Last |-> Due(n)]
      <2>1. ASSUME NEW n \in 1 .. Last
            PROVE  n <= issue /\ ~Pending(n - 1)
        BY <1>1, <1>3 DEF Pending
      <2>. QED BY <2>1 DEF Through
    <1>5. Through \in [1 .. Last -> Int]
      BY ThroughType
    <1>6. SumOf(Through) = Replayable
      <2>1. CASE wanted > 0
        <3>1. Last = wanted - 1 /\ UnitBytes \in Int
          BY <2>1, UnitIsBytes DEF Last
        <3>2. \A n \in 1 .. Last : Through[n] = UnitBytes
          BY <1>4, <2>1 DEF Due
        <3>3. Upto(Through)[Last] = Last * UnitBytes
          BY <1>3, <1>5, <3>1, <3>2, UptoConst
        <3>4. SumOf(Through) = Upto(Through)[Last]
          BY <1>3, <1>5, SumIsUpto
        <3>5. Bytes(buf[1]) = UnitBytes
          <4>1. 1 \in 1 .. Len(buf)
            BY LastType
          <4>. QED BY <2>1, <4>1, UnitIsBytes
        <3>. QED BY <2>1, <3>1, <3>3, <3>4, <3>5 DEF Replayable
      <2>2. CASE ~(wanted > 0)
        BY <1>4, <2>2 DEF Replayable, Due, Last
      <2>. QED BY <2>1, <2>2
    <1>7. SumOf(AllOf(stat)) = Upto(AllOf(stat))[NThread]
      BY SumsType DEF StateType
    <1>. QED BY <1>1, <1>6, <1>7 DEF Numbered

LEMMA TotalsReplay ==
    ASSUME LoadInv, ReplayInv, Totals
    PROVE  ReplayInv'
    <1>. DEFINE s == print.dst
                t == tvEnd - Epoch
                U == Upto(AllOf(stat))
    <1>1. /\ print.at = NThread + 1 /\ print.detail
          /\ results' = {[name |-> job.name, issynthetic |-> IsSynthetic(job),
                          synthetic |-> Synthetic,
                          stats |-> PerTraceStat(s), trace_reset_count |-> rep,
                          aggr |-> AggrStat(s, t)]}
          /\ print' = Idle
          /\ UNCHANGED <<loadVars, cur, issue, rep, flight, left, done, stat,
                         clock, tvEnd, report, told>>
      BY DEF Totals
    <1>2. /\ StateType /\ stat \in [Threads -> Stat] /\ s \in Stat
          /\ done = Threads /\ t \in Int
      BY <1>1, StatsAssumption DEF ReplayInv, StateType
    <1>3. /\ print'.at = 0 /\ print'.dst = NoStat /\ print'.detail = FALSE
      BY <1>1 DEF Idle
    <1>4. NThread \in Nat \ {0} /\ print.at - 1 = NThread /\ print.at > 0
      BY <1>1, ThreadsType
    <1>5. StateType'
      <2>1. print' \in [at : 0 .. NThread + 1, detail : BOOLEAN, dst : Stat]
        BY <1>1, <1>4, NoStatIsStat DEF Idle
      <2>. QED BY <1>1, <1>2, <1>3, <2>1 DEF StateType
    <1>6. Replaying /\ Replaying'
      BY <1>1, <1>4 DEF ReplayInv, Fresh, Idle, Replaying, loadVars
    <1>7. Numbered'
      BY <1>1, <1>6, NumberedStays DEF ReplayInv, loadVars
    <1>8. Swept'
      BY <1>3 DEF Swept
    <1>9. U \in [0 .. NThread -> Int] /\ U[NThread] \in Int
      BY <1>2, <1>4, SumsType
    <1>10. s.total.all = U[NThread]
      BY <1>1, <1>4 DEF ReplayInv, Swept
    <1>11. Ahead' = U[NThread] /\ Ahead = U[NThread]
      <2>1. Ahead' = U[NThread]
        BY <1>1, <1>3 DEF Ahead
      <2>2. Ahead = s.total.all + (U[NThread] - U[NThread])
        BY <1>4 DEF Ahead
      <2>. HIDE DEF U, s
      <2>. QED BY <1>9, <1>10, <2>1, <2>2
    <1>12. Remembered'
      BY <1>1, <1>9, <1>11, RememberedStays DEF ReplayInv, loadVars
    <1>13. Totalled'
      <2>1. left = Threads /\ s.total.all = Replayable
        BY <1>2, <1>6, <1>10, AllCounted DEF ReplayInv
      <2>2. Replayable' = Replayable
        BY <1>1 DEF Replayable, loadVars
      <2>3. ASSUME NEW r \in results'
            PROVE  /\ r.stats = PerTraceStat(s) /\ r.aggr = AggrStat(s, t)
        BY <1>1
      <2>. HIDE DEF s, t
      <2>4. ASSUME NEW r \in results'
            PROVE  /\ left' = Threads
                   /\ \E x \in Stat, y \in Int :
                         /\ r.stats = PerTraceStat(x)
                         /\ r.aggr = AggrStat(x, y)
                         /\ x.total.all = Replayable'
        BY <1>1, <1>2, <2>1, <2>2, <2>3
      <2>. QED BY <2>4 DEF Totalled
    <1>14. ToldOnce'
      BY <1>1 DEF ToldOnce
    <1>. QED BY <1>5, <1>6, <1>7, <1>8, <1>12, <1>13, <1>14 DEF ReplayInv

-----------------------------------------------------------------------------
(* A request is through                                                    *)

\* One job less is in flight, and its bytes are counted.
LEMMA ThroughGrows ==
    ASSUME LoadInv, StateType, Replaying, Numbered,
           UNCHANGED <<job, buf, wanted, issue>>,
           NEW w \in Threads, NEW j \in flight[w],
           flight' = [flight EXCEPT ![w] = @ \ {j}]
    PROVE  SumOf(Through') = SumOf(Through) + j.bytes
    <1>. DEFINE c == j.nr + 1
    <1>1. flight \in [Threads -> SUBSET JobRec] /\ j \in JobRec
      BY DEF StateType
    <1>2. /\ Last \in Nat /\ Last' = Last /\ issue \in Nat
          /\ \A n : Due(n)' = Due(n)
          /\ \A n \in 1 .. Last : Due(n) \in Nat
      BY LastType DEF StateType, Last, Due, UnitBytes
    <1>3. /\ j.nr \in Nat /\ j.bytes \in Nat /\ j.nr < issue /\ j.nr < Last
          /\ j.bytes = Due(c)
      BY <1>1 DEF Numbered, JobRec
    <1>4. c \in 1 .. Last /\ c <= issue /\ c - 1 = j.nr
      BY <1>2, <1>3
    <1>5. /\ flight'[w] = flight[w] \ {j}
          /\ \A v \in Threads : v # w => flight'[v] = flight[v]
      BY <1>1
    <1>6. Pending(c - 1) /\ ~Pending(c - 1)'
      <2>1. Pending(j.nr)
        BY DEF Pending
      <2>2. ASSUME NEW v \in Threads, NEW i \in flight'[v], i.nr = j.nr
            PROVE  FALSE
        <3>1. i \in flight[v]
          BY <1>5
        <3>2. v = w /\ i = j
          BY <2>2, <3>1 DEF Numbered
        <3>. QED BY <1>5, <3>2
      <2>. HIDE DEF c
      <2>3. ~Pending(c - 1)'
        BY <1>4, <2>2 DEF Pending
      <2>. QED BY <1>4, <2>1, <2>3
    <1>7. ASSUME NEW n \in 1 .. Last, n # c
          PROVE  Pending(n - 1)' <=> Pending(n - 1)
      <2>1. n - 1 # j.nr
        BY <1>3, <1>7
      <2>2. ASSUME NEW v \in Threads
            PROVE  (\E i \in flight'[v] : i.nr = n - 1)
                   <=> (\E i \in flight[v] : i.nr = n - 1)
        BY <1>5, <2>1
      <2>. HIDE DEF c
      <2>. QED BY <2>2 DEF Pending
    <1>. HIDE DEF c
    <1>8. Through = [n \in 1 .. Last |->
                       IF n <= issue /\ ~Pending(n - 1) THEN Due(n) ELSE 0]
      BY DEF Through
    <1>9. Through' = [n \in 1 .. Last |->
                        IF n <= issue /\ ~Pending(n - 1)' THEN Due(n) ELSE 0]
      BY <1>2 DEF Through
    <1>10. Through \in [1 .. Last -> Int] /\ Through' \in [1 .. Last -> Int]
      BY <1>2, <1>8, <1>9
    <1>11. Through[c] = 0 /\ Through'[c] = j.bytes
      BY <1>3, <1>4, <1>6, <1>8, <1>9
    <1>12. \A n \in 1 .. Last : n # c => Through'[n] = Through[n]
      BY <1>7, <1>8, <1>9
    <1>13. Upto(Through')[Last]
           = Upto(Through)[Last]
             + IF Last >= c THEN Through'[c] - Through[c] ELSE 0
      <2>1. Last \in 0 .. Last
        BY <1>2
      <2>. QED BY <1>2, <1>4, <1>10, <1>12, <2>1, UptoPoint
    <1>14. /\ SumOf(Through') = Upto(Through')[Last]
           /\ SumOf(Through) = Upto(Through)[Last]
           /\ SumOf(Through) \in Int
      BY <1>2, <1>10, SumIsUpto
    <1>. QED BY <1>3, <1>4, <1>11, <1>13, <1>14

LEMMA AheadIsInt == StateType => Ahead \in Int
    BY AheadType

LEMMA AheadIsIntLater == StateType' => (Ahead \in Int)'
    BY AheadIsInt, PTL

LEMMA CompleteReplay ==
    ASSUME LoadInv, ReplayInv, NEW w \in Threads, Complete(w)
    PROVE  ReplayInv'
    <1>1. PICK j \in flight[w] :
             /\ flight' = [flight EXCEPT ![w] = @ \ {j}]
             /\ stat' = [stat EXCEPT ![w] = UpdateIostat(@, j)]
      BY DEF Complete
    <1>2. UNCHANGED <<loadVars, cur, issue, rep, left, done, clock, tvEnd,
                      print, report, results, told>>
      BY DEF Complete
    <1>. DEFINE u == UpdateIostat(stat[w], j)
                U == Upto(AllOf(stat))
                V == Upto(AllOf(stat'))
    <1>3. /\ StateType /\ stat \in [Threads -> Stat] /\ stat[w] \in Stat
          /\ flight \in [Threads -> SUBSET JobRec] /\ j \in JobRec
          /\ j.bytes \in Nat /\ clock \in Int /\ told \in Nat
      BY DEF ReplayInv, StateType, JobRec
    <1>4. /\ u \in Stat /\ u.total.all = stat[w].total.all + j.bytes
          /\ u.cur.all = stat[w].cur.all + j.bytes
      BY <1>3, UpdateType
    <1>5. stat' = [stat EXCEPT ![w] = u]
      BY <1>1, <1>3
    <1>. HIDE DEF u
    <1>6. NThread \in Nat \ {0} /\ w \in 1 .. NThread
      BY ThreadsType
    <1>7. /\ stat[w].total.all \in Nat /\ stat[w].cur.all \in Nat
      BY <1>3, StatFields
    <1>8. /\ stat' \in [Threads -> Stat]
          /\ \A m \in 0 .. NThread :
                /\ V[m] = U[m] + IF m >= w THEN j.bytes ELSE 0
                /\ Upto(CurOf(stat'))[m]
                   = Upto(CurOf(stat))[m] + IF m >= w THEN j.bytes ELSE 0
      <2>1. Changed(stat, w, u, stat')
        BY <1>3, <1>4, <1>5 DEF Changed
      <2>2. /\ u.total.all - stat[w].total.all = j.bytes
            /\ u.cur.all - stat[w].cur.all = j.bytes
        BY <1>3, <1>4, <1>7
      <2>3. /\ stat' \in [Threads -> Stat]
            /\ \A m \in 0 .. NThread :
                  /\ V[m]
                     = U[m] + IF m >= w THEN u.total.all - stat[w].total.all
                              ELSE 0
                  /\ Upto(CurOf(stat'))[m]
                     = Upto(CurOf(stat))[m]
                       + IF m >= w THEN u.cur.all - stat[w].cur.all ELSE 0
        BY <2>1, StatPoint
      <2>. HIDE DEF U, V
      <2>. QED BY <2>2, <2>3
    <1>9. /\ SumOf(AllOf(stat)) = U[NThread]
          /\ SumOf(CurOf(stat)) = Upto(CurOf(stat))[NThread]
          /\ U \in [0 .. NThread -> Int]
          /\ Upto(CurOf(stat)) \in [0 .. NThread -> Int]
      BY <1>3, SumsType
    <1>10. /\ SumOf(AllOf(stat')) = V[NThread]
           /\ SumOf(CurOf(stat')) = Upto(CurOf(stat'))[NThread]
      BY <1>8, SumsType
    <1>. HIDE DEF U, V
    <1>11. /\ SumOf(AllOf(stat')) = SumOf(AllOf(stat)) + j.bytes
           /\ SumOf(CurOf(stat')) = SumOf(CurOf(stat)) + j.bytes
           /\ SumOf(AllOf(stat)) \in Int /\ SumOf(CurOf(stat)) \in Int
      <2>1. NThread \in 0 .. NThread /\ NThread >= w
        BY <1>6
      <2>. QED BY <1>8, <1>9, <1>10, <2>1
    <1>12. /\ w \notin done /\ Replaying
           /\ print \in [at : 0 .. NThread + 1, detail : BOOLEAN, dst : Stat]
           /\ ~print.detail
      BY <1>3 DEF ReplayInv, StateType, Fresh
    <1>13. StateType'
      <2>1. /\ flight' \in [Threads -> SUBSET JobRec]
            /\ \A v \in done : flight'[v] = flight[v]
        BY <1>1, <1>3, <1>12
      <2>. QED BY <1>2, <1>3, <1>8, <2>1 DEF StateType
    <1>14. Replaying'
      BY <1>2, <1>12 DEF Replaying, loadVars
    <1>15. Numbered'
      <2>1. Last' = Last /\ \A n : Due(n)' = Due(n)
        BY <1>2 DEF Last, Due, UnitBytes, loadVars
      <2>2. \A v \in Threads : flight'[v] \subseteq flight[v]
        BY <1>1, <1>3
      <2>3. SumOf(Through') = SumOf(Through) + j.bytes
        BY <1>1, <1>2, <1>3, <1>12, ThroughGrows DEF ReplayInv, loadVars
      <2>4. SumOf(AllOf(stat')) = SumOf(Through')
        BY <1>11, <1>12, <2>3 DEF ReplayInv, Numbered
      <2>5. Numbered
        BY <1>12 DEF ReplayInv
      <2>6. \A v \in Threads : \A i \in flight'[v] :
               i.nr < issue' /\ i.nr < Last' /\ i.bytes = Due(i.nr + 1)'
        BY <1>2, <2>1, <2>2, <2>5 DEF Numbered
      <2>7. \A v, x \in Threads : \A i \in flight'[v], k \in flight'[x] :
               i.nr = k.nr => v = x /\ i = k
        BY <2>2, <2>5 DEF Numbered
      <2>8. (wanted <= 0 => cur = issue)' /\ (left # {} => issue > Last)'
        BY <1>2, <2>1, <2>5 DEF Numbered, loadVars
      <2>. QED BY <2>4, <2>6, <2>7, <2>8 DEF Numbered
    <1>16. ASSUME print.at > 0
           PROVE  /\ print.at - 1 \in 0 .. NThread
                  /\ V[print.at - 1]
                     = U[print.at - 1]
                       + IF print.at - 1 >= w THEN j.bytes ELSE 0
                  /\ U[print.at - 1] \in Int
      <2>1. print.at - 1 \in 0 .. NThread
        BY <1>6, <1>12, <1>16
      <2>. QED BY <1>8, <1>9, <2>1
    <1>17. print.dst.total.all \in Nat /\ print.dst.cur.all \in Nat
      BY <1>12, StatFields
    <1>18. Swept'
      <2>1. ASSUME print.at > 0
            PROVE  print.dst.total.all <= V[print.at - 1]
        <3>1. print.dst.total.all <= U[print.at - 1]
          BY <2>1 DEF ReplayInv, Swept, U
        <3>. QED BY <1>3, <1>6, <1>12, <1>16, <1>17, <2>1, <3>1
      <2>. QED BY <1>2, <1>12, <2>1 DEF Swept, V
    <1>19. Ahead <= Ahead'
      <2>1. /\ V[NThread] = U[NThread] + j.bytes /\ U[NThread] \in Int
        BY <1>6, <1>8, <1>9
      <2>2. CASE print.at = 0
        <3>1. Ahead = U[NThread] /\ Ahead' = V[NThread]
          BY <1>2, <2>2 DEF Ahead, U, V
        <3>. QED BY <1>3, <2>1, <3>1
      <2>3. CASE print.at # 0
        <3>1. /\ Ahead = print.dst.total.all + (U[NThread] - U[print.at - 1])
              /\ Ahead' = print.dst.total.all + (V[NThread] - V[print.at - 1])
          BY <1>2, <2>3 DEF Ahead, U, V
        <3>2. print.at > 0
          BY <1>6, <1>12, <2>3
        <3>. QED BY <1>3, <1>6, <1>12, <1>16, <1>17, <2>1, <3>1, <3>2
      <2>. QED BY <2>2, <2>3
    <1>20. Remembered'
      <2>1. Ahead \in Int
        BY <1>3, AheadType
      <2>2. Ahead' \in Int
        BY <1>13, AheadIsIntLater
      <2>. QED BY <1>2, <1>19, <2>1, <2>2, RememberedStays
           DEF ReplayInv, loadVars
    <1>21. Totalled'
      BY <1>2, TotalledStays DEF ReplayInv, loadVars
    <1>22. ToldOnce'
      <2>1. results = {} =>
               told + print.dst.cur.all + SumOf(CurOf(stat))
               = SumOf(AllOf(stat))
        BY DEF ReplayInv, ToldOnce, CurOf, AllOf
      <2>2. results = {} =>
               told + print.dst.cur.all + SumOf(CurOf(stat'))
               = SumOf(AllOf(stat'))
        BY <1>3, <1>11, <1>17, <2>1
      <2>. QED BY <1>2, <2>2 DEF ToldOnce, CurOf, AllOf
    <1>. QED BY <1>13, <1>14, <1>15, <1>18, <1>20, <1>21, <1>22 DEF ReplayInv

-----------------------------------------------------------------------------
(* A request is taken                                                      *)

\* The trace goes on with its next request, or is begun anew with the same
\* ones; in both cases there was a request to make a job for.
LEMMA FetchedBuffer ==
    ASSUME LoadInv, ReplayInv, NEW w \in Threads, Fetch(w)
    PROVE  /\ cur' \in Nat /\ (wanted <= 0 => cur' = issue + 1)
           /\ issue + 1 <= Last /\ Last' = Last /\ Replaying'
           /\ \A n : Due(n)' = Due(n)
    <1>1. /\ Replaying /\ cur < Len(buf)
          /\ UNCHANGED <<job, phase, pos, size, io, at, wanted>>
          /\ \/ ~AtEnd(issue + 1) /\ cur' = cur + 1 /\ buf' = buf
             \/ /\ AtEnd(issue + 1) /\ CanReset(issue + 1) /\ cur' = 0
                /\ buf' \in IF Random(job.name) THEN Mixes(buf) ELSE {buf}
      BY DEF Fetch, Takes
    <1>2. /\ wanted \in Int /\ issue \in Nat /\ cur \in Nat
          /\ Len(buf) \in Nat /\ (wanted <= 0 => cur = issue)
          /\ Last \in Nat /\ (wanted <= 0 => Last = Len(buf) - 1)
      BY <1>1, WantedType, LastType DEF ReplayInv, StateType, Numbered
    <1>3. CASE ~AtEnd(issue + 1) /\ cur' = cur + 1 /\ buf' = buf
      <2>1. issue + 1 <= Last
        BY <1>2, <1>3 DEF AtEnd, Last
      <2>2. Replaying'
        BY <1>1, <1>3 DEF Replaying
      <2>3. Last' = Last /\ \A n : Due(n)' = Due(n)
        BY <1>1, <1>3 DEF Last, Due, UnitBytes
      <2>. QED BY <1>2, <1>3, <2>1, <2>2, <2>3
    <1>4. CASE /\ AtEnd(issue + 1) /\ CanReset(issue + 1) /\ cur' = 0
               /\ buf' \in IF Random(job.name) THEN Mixes(buf) ELSE {buf}
      <2>1. wanted > 0 /\ issue + 1 < wanted
        BY <1>4 DEF CanReset
      <2>2. issue + 1 <= Last
        BY <1>2, <2>1 DEF Last
      <2>3. SynthBuf
        BY <2>1, WantedType
      <2>4. buf \in Seq(Request) /\ Shaped(job, buf)
        BY <2>3 DEF SynthBuf
      <2>5. Len(buf') = Len(buf) /\ buf' \in Seq(Request)
        BY <1>4, <2>4, MixesAlike, AlikeIsShaped
      <2>6. buf' # <<>>
        <3>1. Len(buf) \in Nat \ {0}
          BY <1>1, LastType
        <3>. QED BY <2>5, <3>1
      <2>7. Replaying'
        BY <1>1, <2>6 DEF Replaying
      <2>8. Last' = Last /\ \A n : Due(n)' = Due(n)
        BY <1>1, <2>1 DEF Last, Due, UnitBytes
      <2>. QED BY <1>2, <1>4, <2>1, <2>2, <2>7, <2>8
    <1>. QED BY <1>1, <1>3, <1>4

LEMMA FetchedJob ==
    ASSUME LoadInv, StateType, Replaying, Numbered, cur < Len(buf)
    PROVE  /\ JobOf(buf[cur + 1], issue) \in JobRec
           /\ JobOf(buf[cur + 1], issue).nr = issue
           /\ JobOf(buf[cur + 1], issue).bytes = Due(issue + 1)
    <1>. DEFINE r == buf[cur + 1]
                j == JobOf(r, issue)
    <1>1. cur \in Nat /\ issue \in Nat /\ clock \in Nat
      BY DEF StateType
    <1>2. r \in Request /\ cur + 1 \in 1 .. Len(buf)
      <2>1. buf \in Seq(Request)
        BY BufType
      <2>. QED BY <1>1, <2>1
    <1>3. /\ j.page = AlignSector(r).page /\ j.bytes = Bytes(r)
          /\ j.rw = (r.flags # 0) /\ j.start = clock /\ j.nr = issue
          /\ j = [page |-> j.page, bytes |-> j.bytes, rw |-> j.rw,
                  start |-> j.start, nr |-> j.nr]
      BY DEF JobOf
    <1>4. AlignSector(r).page \in Int
      <2>1. /\ r.blkno \in Nat /\ r.bcount \in Nat /\ Spp \in Nat \ {0}
            /\ TotalPages \in Nat \ {0}
        BY <1>2, RequestType, ConstantsAssumption
      <2>2. Pages(r) \in Int /\ r.blkno \div Spp \in Nat
        BY <2>1 DEF Pages
      <2>3. (r.blkno \div Spp) % TotalPages \in Nat
        BY <2>1, <2>2
      <2>. QED BY <2>2, <2>3 DEF AlignSector
    <1>5. Bytes(r) \in Nat
      BY <1>2, BytesType
    <1>6. j.bytes = Due(issue + 1)
      <2>1. CASE wanted > 0
        BY <1>2, <1>3, <2>1, UnitIsBytes DEF Due
      <2>2. CASE ~(wanted > 0)
        <3>1. cur = issue
          BY <2>2, WantedType DEF Numbered
        <3>. QED BY <1>3, <2>2, <3>1 DEF Due
      <2>. QED BY <2>1, <2>2
    <1>. HIDE DEF j, r
    <1>7. j \in JobRec
      <2>1. /\ j.page \in Int /\ j.bytes \in Nat
            /\ j.start \in Int /\ j.nr \in Nat
        BY <1>1, <1>3, <1>4, <1>5
      <2>2. j.rw \in BOOLEAN
        BY <1>3
      <2>. QED BY <1>3, <2>1, <2>2 DEF JobRec
    <1>. QED BY <1>3, <1>6, <1>7 DEF j, r

\* The job that is made is in flight.
LEMMA ThroughWaits ==
    ASSUME StateType, issue' = issue + 1, Last \in Nat, Last' = Last,
           \A n : Due(n)' = Due(n),
           NEW w \in Threads, NEW j, j.nr = issue,
           flight' = [flight EXCEPT ![w] = @ \cup {j}]
    PROVE  Through' = Through
    <1>1. /\ flight'[w] = flight[w] \cup {j} /\ issue \in Nat
          /\ \A v \in Threads : v # w => flight'[v] = flight[v]
      BY DEF StateType
    <1>2. ASSUME NEW n \in 1 .. Last
          PROVE  (n <= issue' /\ ~Pending(n - 1)')
                 <=> (n <= issue /\ ~Pending(n - 1))
      <2>1. CASE n <= issue
        <3>1. j.nr # n - 1
          BY <1>1, <2>1
        <3>2. \A v \in Threads :
                 (\E i \in flight'[v] : i.nr = n - 1)
                 <=> (\E i \in flight[v] : i.nr = n - 1)
          BY <1>1, <3>1
        <3>3. Pending(n - 1)' <=> Pending(n - 1)
          BY <3>2 DEF Pending
        <3>4. n <= issue'
          BY <1>1, <2>1
        <3>. QED BY <2>1, <3>3, <3>4
      <2>2. CASE n = issue + 1
        <3>1. j.nr = n - 1 /\ j \in flight'[w]
          BY <1>1, <2>2
        <3>2. Pending(n - 1)'
          BY <3>1 DEF Pending
        <3>. QED BY <1>1, <2>2, <3>2
      <2>3. CASE n > issue + 1
        BY <1>1, <2>3
      <2>. QED BY <1>1, <2>1, <2>2, <2>3
    <1>. QED BY <1>2 DEF Through

LEMMA FetchReplay ==
    ASSUME LoadInv, ReplayInv, NEW w \in Threads, Fetch(w)
    PROVE  ReplayInv'
    <1>. DEFINE j == JobOf(buf[cur + 1], issue)
    <1>1. /\ Replaying /\ w \notin left /\ cur < Len(buf)
          /\ flight' = [flight EXCEPT ![w] = @ \cup {j}]
          /\ issue' = issue + 1 /\ UNCHANGED <<job, wanted>>
          /\ UNCHANGED <<left, done, stat, clock, tvEnd, print, report,
                         results, told>>
      BY DEF Fetch, Takes
    <1>2. StateType /\ Numbered /\ issue \in Nat
      BY <1>1 DEF ReplayInv, StateType
    <1>3. /\ cur' \in Nat /\ (wanted <= 0 => cur' = issue + 1)
          /\ issue + 1 <= Last /\ Last' = Last /\ Replaying'
          /\ \A n : Due(n)' = Due(n)
      BY FetchedBuffer
    <1>4. j \in JobRec /\ j.nr = issue /\ j.bytes = Due(issue + 1)
      BY <1>1, <1>2, FetchedJob
    <1>. HIDE DEF j
    <1>5. /\ flight \in [Threads -> SUBSET JobRec]
          /\ flight' \in [Threads -> SUBSET JobRec]
          /\ flight'[w] = flight[w] \cup {j}
          /\ \A v \in Threads : v # w => flight'[v] = flight[v]
      BY <1>1, <1>2, <1>4 DEF StateType
    <1>6. Last \in Nat
      BY <1>1, LastType
    <1>7. left = {}
      BY <1>2, <1>3, <1>6 DEF Numbered
    <1>8. StateType'
      BY <1>1, <1>2, <1>3, <1>5, <1>7 DEF StateType
    <1>9. Numbered'
      <2>1. Through' = Through
        BY <1>1, <1>2, <1>3, <1>4, <1>6, ThroughWaits
      <2>2. ASSUME NEW v \in Threads, NEW i \in flight'[v], i \notin flight[v]
            PROVE  v = w /\ i = j
        BY <1>5, <2>2
      <2>3. \A v \in Threads : \A i \in flight[v] :
               i.nr \in Nat /\ i.nr < issue /\ i.nr < Last
               /\ i.bytes = Due(i.nr + 1)
        BY <1>2, <1>5 DEF Numbered, JobRec
      <2>4. ASSUME NEW v \in Threads, NEW i \in flight'[v]
            PROVE  /\ i.nr < issue' /\ i.nr < Last'
                   /\ i.bytes = Due(i.nr + 1)'
        <3>1. CASE i \in flight[v]
          BY <1>1, <1>2, <1>3, <2>3, <3>1
        <3>2. CASE i \notin flight[v]
          BY <1>1, <1>2, <1>3, <1>4, <1>6, <2>2, <3>2
        <3>. QED BY <3>1, <3>2
      <2>5. ASSUME NEW v \in Threads, NEW x \in Threads,
                   NEW i \in flight'[v], NEW k \in flight'[x], i.nr = k.nr
            PROVE  v = x /\ i = k
        <3>1. CASE i \in flight[v] /\ k \in flight[x]
          BY <1>2, <2>5, <3>1 DEF Numbered
        <3>2. CASE i \in flight[v] /\ k \notin flight[x]
          <4>1. i.nr < issue /\ i.nr \in Nat
            BY <2>3, <3>2
          <4>2. k.nr = issue
            BY <1>4, <2>2, <3>2
          <4>. QED BY <1>2, <2>5, <4>1, <4>2
        <3>3. CASE i \notin flight[v] /\ k \in flight[x]
          <4>1. k.nr < issue /\ k.nr \in Nat
            BY <2>3, <3>3
          <4>2. i.nr = issue
            BY <1>4, <2>2, <3>3
          <4>. QED BY <1>2, <2>5, <4>1, <4>2
        <3>4. CASE i \notin flight[v] /\ k \notin flight[x]
          BY <2>2, <3>4
        <3>. QED BY <3>1, <3>2, <3>3, <3>4
      <2>6. SumOf(AllOf(stat')) = SumOf(Through')
        BY <1>1, <1>2, <2>1 DEF Numbered
      <2>7. (wanted <= 0 => cur = issue)' /\ (left # {} => issue > Last)'
        BY <1>1, <1>3, <1>7
      <2>. QED BY <2>4, <2>5, <2>6, <2>7 DEF Numbered
    <1>10. Swept' /\ Ahead' = Ahead
      BY <1>1, AheadStays DEF ReplayInv
    <1>11. Remembered'
      BY <1>1, <1>2, <1>10, RememberedStays, AheadType DEF ReplayInv
    <1>12. Totalled'
      <2>1. results = {}
        BY <1>1 DEF ReplayInv, Totalled
      <2>. QED BY <1>1, <2>1 DEF Totalled
    <1>13. ToldOnce'
      BY <1>1 DEF ReplayInv, ToldOnce
    <1>. QED BY <1>3, <1>8, <1>9, <1>10, <1>11, <1>12, <1>13 DEF ReplayInv

-----------------------------------------------------------------------------
(* Every step                                                              *)

LEMMA ReplayKeeps ==
    LoadInv /\ LoadInv' /\ ReplayInv /\ [Next]_vars => ReplayInv'
    <1>. SUFFICES ASSUME LoadInv, LoadInv', ReplayInv, [Next]_vars
                  PROVE  ReplayInv'
      OBVIOUS
    <1>1. CASE Load
      BY <1>1, LoadReplay
    <1>2. CASE Begin
      BY <1>2, BeginReplay
    <1>3. CASE Sweep
      BY <1>3, SweepReplay
    <1>4. CASE Report
      BY <1>4, ReportReplay
    <1>5. CASE Totals
      BY <1>5, TotalsReplay
    <1>6. CASE Tick
      BY <1>6, TickReplay
    <1>7. CASE Ended \/ UNCHANGED vars
      BY <1>7, StutterReplay DEF Ended
    <1>8. ASSUME NEW w \in Threads,
                 Fetch(w) \/ Refused(w) \/ Leave(w)
                 \/ Complete(w) \/ SetDone(w)
          PROVE  ReplayInv'
      BY <1>8, FetchReplay, LeaveReplay, CompleteReplay, SetDoneReplay
    <1>. QED BY <1>1, <1>2, <1>3, <1>4, <1>5, <1>6, <1>7, <1>8 DEF Next

THEOREM ReplayInvariant == Spec => [](LoadInv /\ ReplayInv)
    <1>1. Init => LoadInv /\ ReplayInv
      BY InitFile, InitReplay
    <1>2. LoadInv /\ ReplayInv /\ [Next]_vars => LoadInv' /\ ReplayInv'
      BY LoadKeeps, ReplayKeeps
    <1>. QED BY <1>1, <1>2, PTL DEF Spec

-----------------------------------------------------------------------------
(* The intervals                                                           *)

\* No byte the threads count is told in two intervals or lost between them,
\* however their completions fall between the locks of print_result: it was
\* told, is in print_result's hand or waits for the next sweep.
THEOREM BytesAreToldOnce == Spec => []ToldOnce
    <1>1. ReplayInv => ToldOnce
      BY DEF ReplayInv
    <1>. QED BY <1>1, ReplayInvariant, PTL

LEMMA IoSizeType ==
    ASSUME LoadInv, wanted > 0
    PROVE  IoSize \in Nat \ {0} /\ UnitBytes \in Nat /\ UnitBytes <= IoSize
    <1>1. /\ IoPages(job) \in Nat \ {0} /\ UnitBytes \in Nat
          /\ UnitBytes <= IoPages(job) * Spp
      BY UnitIsBytes
    <1>2. Spp \in Nat \ {0} /\ KB \in Nat /\ PageKB \in Nat \ {0}
      BY SectorsType, ConstantsAssumption
    <1>3. job \in Jobs
      BY WantedType
    <1>4. IoKB(job) \in Nat
      BY <1>2, <1>3, ConstantsAssumption DEF IoKB
    <1>5. IoKB(job) % PageKB \in Nat
      BY <1>2, <1>4
    <1>. DEFINE rest == (IoKB(job) % PageKB) * KB
                whole == IoPages(job) * Spp
    <1>6. rest \in Nat
      BY <1>2, <1>5
    <1>7. whole \in Nat \ {0}
      BY <1>1, <1>2
    <1>8. IoSize = whole + rest
      BY DEF IoSize, IoPages
    <1>9. UnitBytes <= whole
      BY <1>1
    <1>. HIDE DEF rest, whole
    <1>. QED BY <1>1, <1>6, <1>7, <1>8, <1>9

\* A share of what is left, and how it compares with an earlier one.
LEMMA ShareLeft ==
    ASSUME LoadInv, wanted > 0, NEW n \in Nat,
           n <= (wanted - 1) * UnitBytes
    PROVE  /\ (wanted * IoSize - n) * 100 > 0
           /\ (wanted * IoSize - n) * 100 <= 100 * (wanted * IoSize)
           /\ \A m \in Nat : m <= n =>
                 (wanted * IoSize - n) * 100 <= (wanted * IoSize - m) * 100
    <1>1. IoSize \in Nat \ {0} /\ UnitBytes \in Nat /\ UnitBytes <= IoSize
      BY IoSizeType
    <1>2. wanted \in Nat \ {0} /\ wanted - 1 \in Nat
      BY WantedType
    <1>. DEFINE W == wanted * IoSize
                U == UnitBytes * (wanted - 1)
                V == IoSize * (wanted - 1)
    <1>3. U <= V
      BY <1>1, <1>2, Scaled
    <1>4. V = W - IoSize /\ W \in Nat /\ U \in Nat /\ V \in Nat
      BY <1>1, <1>2
    <1>5. n <= U
      BY <1>1, <1>2
    <1>6. n < W
      <2>. HIDE DEF U, V, W
      <2>. QED BY <1>1, <1>3, <1>4, <1>5
    <1>. HIDE DEF W
    <1>7. (W - n) * 100 > 0 /\ (W - n) * 100 <= 100 * W
      BY <1>4, <1>6
    <1>8. \A m \in Nat : m <= n => (W - n) * 100 <= (W - m) * 100
      BY <1>4
    <1>. QED BY <1>7, <1>8 DEF W

\* A report that shows n bytes as done.
LEMMA ShowsShare ==
    ASSUME NEW log, NEW n, Shows(log, n)
    PROVE  /\ log.remaining_percentage.num = (wanted * IoSize - n) * 100
           /\ LogJson(log).remaining_percentage.num
                 = (wanted * IoSize - n) * 100
           /\ LogJson(log).remaining_percentage.den = wanted * IoSize
    <1>1. LogJson(log).remaining_percentage = log.remaining_percentage
      BY DEF LogJson
    <1>2. log.remaining_percentage
          = [num |-> (wanted * IoSize - n) * 100, den |-> wanted * IoSize]
      BY DEF Shows, Frac
    <1>. QED BY <1>1, <1>2

LEMMA ReportFalls ==
    ASSUME LoadInv, ReplayInv, [Next]_vars, wanted > 0, NEW new \in report'.log
    PROVE  /\ LogJson(new).remaining_percentage.num > 0
           /\ LogJson(new).remaining_percentage.num
                 <= 100 * LogJson(new).remaining_percentage.den
           /\ \A old \in report.log :
                 new.remaining_percentage.num <= old.remaining_percentage.num
    <1>1. CASE Report
      <2>. DEFINE n == print.dst.total.all
                  U == Upto(AllOf(stat))
      <2>1. /\ print.at = NThread + 1 /\ StateType
            /\ new = RealtimeLog(print.dst, clock - Epoch, clock - tvEnd)
        BY <1>1 DEF Report, ReplayInv
      <2>2. NThread \in Nat \ {0} /\ print.at - 1 = NThread /\ print.at > 0
        BY <2>1, ThreadsType
      <2>3. Shows(new, n)
        BY <2>1 DEF Shows, RealtimeLog, RemainingWanted
      <2>4. /\ n \in Nat /\ U \in [0 .. NThread -> Int] /\ U[NThread] \in Int
        BY <2>1, <2>2, StatFields, SumsType DEF StateType
      <2>5. n <= U[NThread]
        BY <2>2 DEF ReplayInv, Swept
      <2>6. Ahead = n
        <3>1. Ahead = n + (U[NThread] - U[NThread])
          BY <2>2 DEF Ahead
        <3>. HIDE DEF n, U
        <3>. QED BY <2>4, <3>1
      <2>7. n <= (wanted - 1) * UnitBytes
        <3>1. Replaying /\ Numbered
          BY <2>2 DEF ReplayInv, Fresh, Idle
        <3>2. U[NThread] <= (wanted - 1) * UnitBytes
          BY <2>1, <3>1, CountedBound
        <3>3. (wanted - 1) * UnitBytes \in Int
          BY UnitIsBytes, WantedType
        <3>. HIDE DEF n, U
        <3>. QED BY <2>4, <2>5, <3>2, <3>3
      <2>. HIDE DEF n
      <2>8. ASSUME NEW old \in report.log
            PROVE  new.remaining_percentage.num <= old.remaining_percentage.num
        <3>1. PICK m \in Nat : Shows(old, m) /\ m <= Ahead
          BY DEF ReplayInv, Remembered
        <3>2. (wanted * IoSize - n) * 100 <= (wanted * IoSize - m) * 100
          BY <2>4, <2>6, <2>7, <3>1, ShareLeft
        <3>3. old.remaining_percentage.num = (wanted * IoSize - m) * 100
          BY <3>1, ShowsShare
        <3>4. new.remaining_percentage.num = (wanted * IoSize - n) * 100
          BY <2>3, ShowsShare
        <3>. QED BY <3>2, <3>3, <3>4
      <2>9. /\ LogJson(new).remaining_percentage.num
               = (wanted * IoSize - n) * 100
            /\ LogJson(new).remaining_percentage.den = wanted * IoSize
        BY <2>3, ShowsShare
      <2>10. /\ (wanted * IoSize - n) * 100 > 0
             /\ (wanted * IoSize - n) * 100 <= 100 * (wanted * IoSize)
        BY <2>4, <2>7, ShareLeft
      <2>. QED BY <2>8, <2>9, <2>10
    <1>2. CASE ~Report
      <2>1. report' = report
        BY <1>2 DEF Next, Load, Begin, Sweep, Totals, Tick, Ended, Fetch,
                    Refused, Leave, Complete, SetDone, vars, replayVars
      <2>2. PICK n \in Nat : Shows(new, n) /\ n <= (wanted - 1) * UnitBytes
        BY <2>1 DEF ReplayInv, Remembered
      <2>3. \A old \in report.log : old = new
        BY <2>1 DEF ReplayInv, Remembered
      <2>4. /\ LogJson(new).remaining_percentage.num
               = (wanted * IoSize - n) * 100
            /\ LogJson(new).remaining_percentage.den = wanted * IoSize
            /\ new.remaining_percentage.num = (wanted * IoSize - n) * 100
        BY <2>2, ShowsShare
      <2>5. /\ (wanted * IoSize - n) * 100 > 0
            /\ (wanted * IoSize - n) * 100 <= 100 * (wanted * IoSize)
            /\ (wanted * IoSize - n) * 100 <= (wanted * IoSize - n) * 100
        BY <2>2, ShareLeft
      <2>. QED BY <2>3, <2>4, <2>5
    <1>. QED BY <1>1, <1>2

\* The share that is left of a synthetic workload, which realtime_logs tell,
\* never rises from one interval to the next, and is never nothing nor more
\* than all.
THEOREM ShareLeftFalls == Spec => RemainingFalls
    <1>1. LoadInv /\ ReplayInv /\ [Next]_vars
          => [wanted > 0 =>
                \A new \in report'.log :
                   /\ LogJson(new).remaining_percentage.num > 0
                   /\ LogJson(new).remaining_percentage.num
                         <= 100 * LogJson(new).remaining_percentage.den
                   /\ \A old \in report.log :
                         new.remaining_percentage.num
                            <= old.remaining_percentage.num]_vars
      BY ReportFalls
    <1>. QED BY <1>1, ReplayInvariant, PTL DEF Spec, RemainingFalls

-----------------------------------------------------------------------------
(* The totals                                                              *)

LEMMA JsonOfStats ==
    ASSUME NEW r
    PROVE  /\ PerTraceJson(r).stats = StatsJson(r.stats)
           /\ AggrJson(r) = StatsJson(r.aggr)
           /\ \A x : \A f \in StatsFields : StatsJson(x)[f] = x[f]
    BY DEF PerTraceJson, AggrJson, StatsJson

LEMMA StatsOf ==
    ASSUME NEW s \in Stat, NEW exec, NEW lat, NEW var, NEW iops, NEW ratio
    PROVE  LET x == TraceStat(s, exec, lat, var, iops, ratio) IN
           /\ x.exec_time = exec /\ x.avg_lat = lat /\ x.avg_lat_var = var
           /\ x.iops = iops /\ x.read_ratio = ratio
           /\ x.lat_min.num = s.min /\ x.lat_min.den = 1
           /\ x.lat_max.num = s.max /\ x.lat_max.den = 1
           /\ x.total_traffic.num = s.total.all
           /\ x.read_traffic.num = s.total.rd
           /\ x.write_traffic.num = s.total.wr
           /\ \A f \in {"total_bw", "read_bw", "write_bw", "total_traffic",
                        "read_traffic", "write_traffic",
                        "total_avg_req_size", "read_avg_req_size",
                        "write_avg_req_size"} : x[f].den # 0
    <1>. DEFINE x == TraceStat(s, exec, lat, var, iops, ratio)
    <1>1. \A n, d : Safe(n, d).den # 0
      BY DEF Safe, Frac
    <1>2. MB # 0
      BY SectorsType
    <1>3. \A n, d : Frac(n, d).num = n /\ Frac(n, d).den = d
      BY DEF Frac
    <1>4. /\ x.exec_time = exec /\ x.avg_lat = lat /\ x.avg_lat_var = var
          /\ x.iops = iops /\ x.read_ratio = ratio
          /\ x.lat_min = Frac(s.min, 1) /\ x.lat_max = Frac(s.max, 1)
          /\ x.total_traffic = Frac(s.total.all, MB)
          /\ x.read_traffic = Frac(s.total.rd, MB)
          /\ x.write_traffic = Frac(s.total.wr, MB)
          /\ x.total_bw = Safe(s.total.all * exec.den, exec.num * MB)
          /\ x.read_bw = Safe(s.total.rd * exec.den, exec.num * MB)
          /\ x.write_bw = Safe(s.total.wr * exec.den, exec.num * MB)
          /\ x.total_avg_req_size = Safe(s.total.all, s.count * KB)
          /\ x.read_avg_req_size = Safe(s.total.rd, s.count * KB)
          /\ x.write_avg_req_size = Safe(s.total.wr, s.count * KB)
      BY DEF TraceStat
    <1>. HIDE DEF x
    <1>5. /\ x.lat_min.num = s.min /\ x.lat_min.den = 1
          /\ x.lat_max.num = s.max /\ x.lat_max.den = 1
          /\ x.total_traffic.num = s.total.all /\ x.total_traffic.den # 0
          /\ x.read_traffic.num = s.total.rd /\ x.read_traffic.den # 0
          /\ x.write_traffic.num = s.total.wr /\ x.write_traffic.den # 0
      BY <1>2, <1>3, <1>4
    <1>6. /\ x.total_bw.den # 0 /\ x.read_bw.den # 0 /\ x.write_bw.den # 0
          /\ x.total_avg_req_size.den # 0 /\ x.read_avg_req_size.den # 0
          /\ x.write_avg_req_size.den # 0
      BY <1>1, <1>4
    <1>. QED BY <1>4, <1>5, <1>6 DEF x

\* Whichever threads replayed it and in whatever order, the totals of
\* finalize are the traffic of the loaded trace without its last request, in
\* the statistics of the trace and of all traces, as reads and writes.
THEOREM TotalsAreTheTrace == Spec => []TotalsOfTrace
    <1>1. ReplayInv => TotalsOfTrace
      <2>1. SUFFICES ASSUME ReplayInv, NEW r \in results,
                            NEW x \in {PerTraceJson(r).stats, AggrJson(r)}
                     PROVE  /\ x.total_traffic.num = Replayable
                            /\ x.read_traffic.num + x.write_traffic.num
                                 = Replayable
        BY DEF TotalsOfTrace
      <2>2. PICK s \in Stat, t \in Int :
               /\ r.stats = PerTraceStat(s) /\ r.aggr = AggrStat(s, t)
               /\ s.total.all = Replayable
        BY <2>1 DEF ReplayInv, Totalled
      <2>3. s.total.rd + s.total.wr = s.total.all
        BY DEF Stat, StatRec, Traffic
      <2>4. ASSUME NEW y \in {r.stats, r.aggr}
            PROVE  /\ y.total_traffic.num = s.total.all
                   /\ y.read_traffic.num = s.total.rd
                   /\ y.write_traffic.num = s.total.wr
        <3>1. r.stats.total_traffic.num = s.total.all
              /\ r.stats.read_traffic.num = s.total.rd
              /\ r.stats.write_traffic.num = s.total.wr
          BY <2>2, StatsOf DEF PerTraceStat
        <3>2. r.aggr.total_traffic.num = s.total.all
              /\ r.aggr.read_traffic.num = s.total.rd
              /\ r.aggr.write_traffic.num = s.total.wr
          BY <2>2, StatsOf DEF AggrStat
        <3>. QED BY <3>1, <3>2
      <2>5. \E y \in {r.stats, r.aggr} : x = StatsJson(y)
        BY <2>1, JsonOfStats
      <2>6. PICK y \in {r.stats, r.aggr} : x = StatsJson(y)
        BY <2>5
      <2>7. /\ x.total_traffic = y.total_traffic
            /\ x.read_traffic = y.read_traffic
            /\ x.write_traffic = y.write_traffic
        BY <2>6, JsonOfStats DEF StatsFields
      <2>. QED BY <2>2, <2>3, <2>4, <2>7
    <1>. QED BY <1>1, ReplayInvariant, PTL

\* The variance is a square: it is not negative, for any latencies.
LEMMA VarianceType ==
    ASSUME NEW s \in Stat, s.count >= 2
    PROVE  Variance(s).num >= 0 /\ Variance(s).den # 0
    <1>. DEFINE c == s.count
                m == s.sum
                q == s.sqr
                v == q * c - m * m
    <1>1. c \in Nat /\ m \in Int /\ q \in Int /\ c >= 2
      BY StatFields
    <1>2. c * c * q - 2 * c * m * m + m * m * c >= 0
      <2>1. \A a, b \in Int : Spread(s, a, b) >= 0
        BY DEF Stat, Agrees
      <2>2. Spread(s, c, m) >= 0
        BY <1>1, <2>1
      <2>. QED BY <2>2 DEF Spread
    <1>3. Variance(s).num = v /\ Variance(s).den = c * (c - 1)
      BY DEF Variance, Frac
    <1>4. v \in Int
      BY <1>1
    <1>5. c * c * q - 2 * c * m * m + m * m * c = c * v
      <2>. HIDE DEF c, m, q
      <2>. QED BY <1>1
    <1>6. c * (c - 1) # 0
      <2>1. c \in Nat \ {0} /\ c - 1 \in Nat \ {0}
        BY <1>1
      <2>. HIDE DEF c
      <2>. QED BY <2>1
    <1>. HIDE DEF v, c, m, q
    <1>7. v >= 0
      <2>1. SUFFICES ASSUME v < 0 PROVE FALSE
        BY <1>4
      <2>2. c * (-v) > 0 /\ c * v = -(c * (-v))
        BY <1>1, <1>4, <2>1
      <2>3. c * v >= 0
        BY <1>2, <1>5
      <2>4. c * (-v) \in Int
        BY <1>1, <1>4
      <2>. QED BY <2>2, <2>3, <2>4
    <1>. QED BY <1>3, <1>6, <1>7

\* What both results have in common when two requests and some time were
\* counted.
Sound(x, s) ==
    /\ \A f \in StatsFields : x[f].den # 0
    /\ x.lat_min = Frac(s.min, 1) /\ x.lat_max = Frac(s.max, 1)
    /\ x.avg_lat = Frac(s.sum, s.count) /\ x.avg_lat_var = Variance(s)

LEMMA SoundStats ==
    ASSUME NEW s \in Stat, NEW t \in Int, s.count >= 2, s.exec > 0, t > 0
    PROVE  Sound(PerTraceStat(s), s) /\ Sound(AggrStat(s, t), s)
    <1>. DEFINE p == PerTraceStat(s)
                a == AggrStat(s, t)
    <1>1. s.count \in Nat /\ s.exec \in Int /\ NThread \in Nat \ {0}
      BY StatFields, ThreadsType
    <1>2. \A n, d : /\ Safe(n, d).den # 0 /\ Frac(n, d).den = d
                    /\ Frac(n, d).num = n /\ (d # 0 => Safe(n, d) = Frac(n, d))
      BY DEF Safe, Frac
    <1>3. Variance(s).den # 0
      BY VarianceType
    <1>4. /\ p.exec_time.den # 0 /\ p.avg_lat = Frac(s.sum, s.count)
          /\ p.avg_lat_var = Variance(s) /\ p.iops.den # 0
          /\ p.read_ratio.den # 0
      <2>1. /\ p.exec_time = Frac(s.exec, NThread)
            /\ p.avg_lat = Frac(s.sum, s.count)
            /\ p.avg_lat_var = Variance(s)
            /\ p.iops = Frac(s.count * Frac(s.exec, NThread).den,
                             Frac(s.exec, NThread).num)
            /\ p.read_ratio = Safe(s.total.wr, s.total.all)
        BY StatsOf DEF PerTraceStat
      <2>. HIDE DEF p
      <2>. QED BY <1>1, <1>2, <2>1
    <1>5. /\ a.exec_time.den # 0 /\ a.avg_lat = Frac(s.sum, s.count)
          /\ a.avg_lat_var = Variance(s) /\ a.iops.den # 0
          /\ a.read_ratio.den # 0
      <2>1. /\ a.exec_time = Frac(t, 1)
            /\ a.avg_lat = Safe(s.sum, s.count)
            /\ a.avg_lat_var
               = IF s.count = 0 THEN Frac(0, 1) ELSE Variance(s)
            /\ a.iops = Safe(s.count, t)
            /\ a.read_ratio = Safe(s.total.rd, s.total.wr)
        BY StatsOf DEF AggrStat
      <2>. HIDE DEF a
      <2>. QED BY <1>1, <1>2, <2>1
    <1>6. /\ p.lat_min = Frac(s.min, 1) /\ p.lat_max = Frac(s.max, 1)
          /\ a.lat_min = Frac(s.min, 1) /\ a.lat_max = Frac(s.max, 1)
      BY DEF PerTraceStat, AggrStat, TraceStat
    <1>7. \A f \in {"total_bw", "read_bw", "write_bw", "total_traffic",
                    "read_traffic", "write_traffic", "total_avg_req_size",
                    "read_avg_req_size", "write_avg_req_size"} :
             p[f].den # 0 /\ a[f].den # 0
      BY StatsOf DEF PerTraceStat, AggrStat
    <1>. HIDE DEF p, a
    <1>8. ASSUME NEW f \in StatsFields PROVE p[f].den # 0 /\ a[f].den # 0
      <2>1. CASE f \in {"exec_time", "iops", "read_ratio"}
        BY <1>4, <1>5, <2>1
      <2>2. CASE f \in {"avg_lat", "avg_lat_var"}
        BY <1>1, <1>2, <1>3, <1>4, <1>5, <2>2
      <2>3. CASE f \in {"lat_min", "lat_max"}
        BY <1>2, <1>6, <2>3
      <2>. QED BY <1>7, <2>1, <2>2, <2>3 DEF StatsFields
    <1>. QED BY <1>4, <1>5, <1>6, <1>8 DEF Sound, p, a

\* When two requests and some time were counted, no member of either result
\* is divided by zero, the mean latency is between the extremes and the
\* variance is not negative: as update_iostat and print_result add them up,
\* for any latencies, spread over the threads in any way.
THEOREM TotalsAgree == Spec => []TotalsMakeSense
    <1>1. ReplayInv => TotalsMakeSense
      <2>1. SUFFICES ASSUME ReplayInv, NEW r \in results,
                            NEW x \in {PerTraceJson(r).stats, AggrJson(r)},
                            r.stats.avg_lat.den >= 2,
                            r.stats.exec_time.num > 0,
                            r.aggr.exec_time.num > 0
                     PROVE  /\ \A f \in StatsFields : x[f].den # 0
                            /\ Leq(x.lat_min, x.avg_lat)
                            /\ Leq(x.avg_lat, x.lat_max)
                            /\ x.avg_lat_var.num >= 0
        BY DEF TotalsMakeSense
      <2>2. PICK s \in Stat, t \in Int :
               r.stats = PerTraceStat(s) /\ r.aggr = AggrStat(s, t)
        BY <2>1 DEF ReplayInv, Totalled
      <2>3. s.count >= 2 /\ s.exec > 0 /\ t > 0
        <3>1. /\ r.stats.avg_lat = Frac(s.sum, s.count)
              /\ r.stats.exec_time = Frac(s.exec, NThread)
              /\ r.aggr.exec_time = Frac(t, 1)
          BY <2>2, StatsOf DEF PerTraceStat, AggrStat
        <3>. QED BY <2>1, <3>1 DEF Frac
      <2>4. Sound(r.stats, s) /\ Sound(r.aggr, s)
        BY <2>2, <2>3, SoundStats
      <2>5. \E y \in {r.stats, r.aggr} : x = StatsJson(y)
        BY <2>1, JsonOfStats
      <2>6. PICK y \in {r.stats, r.aggr} : x = StatsJson(y)
        BY <2>5
      <2>7. \A f \in StatsFields : x[f] = y[f]
        BY <2>6, JsonOfStats
      <2>8. Sound(x, s)
        <3>1. Sound(y, s)
          BY <2>4
        <3>2. /\ x.lat_min = y.lat_min /\ x.lat_max = y.lat_max
              /\ x.avg_lat = y.avg_lat /\ x.avg_lat_var = y.avg_lat_var
          BY <2>7 DEF StatsFields
        <3>. QED BY <2>7, <3>1, <3>2 DEF Sound
      <2>9. /\ x.lat_min.num = s.min /\ x.lat_min.den = 1
            /\ x.lat_max.num = s.max /\ x.lat_max.den = 1
            /\ x.avg_lat.num = s.sum /\ x.avg_lat.den = s.count
        BY <2>8 DEF Sound, Frac
      <2>10. Leq(x.lat_min, x.avg_lat) /\ Leq(x.avg_lat, x.lat_max)
        <3>1. s.min * s.count <= s.sum /\ s.sum <= s.max * s.count
          BY DEF Stat, Agrees
        <3>2. s.sum \in Int
          BY StatFields
        <3>3. s.sum * 1 = s.sum
          BY <3>2
        <3>. QED BY <2>9, <3>1, <3>3 DEF Leq
      <2>11. x.avg_lat_var.num >= 0
        BY <2>3, <2>8, VarianceType DEF Sound
      <2>. QED BY <2>8, <2>10, <2>11 DEF Sound
    <1>. QED BY <1>1, ReplayInvariant, PTL
=============================================================================
