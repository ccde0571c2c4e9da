--------------------------- MODULE IoStats_proofs ---------------------------
(***************************************************************************)
(* What holds of the requests that are loaded, for all lines, windows and   *)
(* sizes: the parts trace_io_put leaves of a request overlap none of the    *)
(* last requests, and no sector is lost; a synthetic workload stays in its  *)
(* working set, however it is mixed; and align_sector puts every request    *)
(* into the partition.                                                      *)
(***************************************************************************)
EXTENDS IoStats, FiniteSetTheorems, WellFoundedInduction, TLAPS

\* The sectors of a buffer.
Held(b) == UNION {Sectors(b[k]) : k \in 1 .. Len(b)}

ReadSectors == UNION {Sectors(r) : r \in LinesRead}

Typed ==
    /\ job \in Jobs
    /\ phase \in {"fgets", "scan", "again", "ready"}
    /\ pos \in 0 .. Len(job.lines)
    /\ buf \in Seq(Request) /\ io \in Request
    /\ size \in Nat \ {0} /\ at \in Nat \ {0} /\ wanted = 0

Roomy ==
    /\ Len(buf) <= size
    /\ phase \in {"scan", "again"} => Len(buf) < size

\* The request in hand overlaps none of those it was compared with.
Scanned ==
    phase = "scan" =>
       \A k \in WindowStart .. Len(buf) : k < at => Disjoint(io, buf[k])

\* The buffer and the request in hand are about the sectors of the lines.
Covering ==
    Held(buf) \cup (IF phase = "scan" THEN Sectors(io) ELSE {})
    = ReadSectors

FileInv == Typed /\ Roomy /\ Scanned /\ Covering

\* The requests have the size of the workload and lie one behind the other
\* from the front, in any order.
Shaped(j, s) ==
    /\ \A k \in 1 .. Len(s) : s[k].bcount = IoPages(j) * Spp
    /\ {s[k].blkno : k \in 1 .. Len(s)}
       = {i * IoPages(j) * Spp : i \in 0 .. Len(s) - 1}

\* The buffer of a synthetic workload that was generated.
SynthBuf ==
    \E pages \in WorkingSetPages(job) :
       /\ Valid(job, pages) /\ Divides(job)
       /\ wanted = Quot(pages, IoPages(job))
       /\ SynthCount(job, pages) >= 0 /\ Len(buf) = SynthCount(job, pages)
       /\ buf \in Seq(Request) /\ Shaped(job, buf)

SynthInv ==
    /\ job \in Jobs
    /\ IF phase \in {"ready", "spin"} THEN SynthBuf
       ELSE /\ phase \in {"gen", "failed", "crashed"}
            /\ buf = <<>> /\ wanted = 0

LoadInv == IF IsSynthetic(job) THEN SynthInv ELSE FileInv

-----------------------------------------------------------------------------
(* Induction and recursive functions                                       *)

\* A set of natural numbers has a least one.
LEMMA Least ==
    ASSUME NEW S, S \subseteq Nat, S # {}
    PROVE  \E m \in S : \A k \in S : m <= k
    <1>. DEFINE T == {0 .. n : n \in S}
    <1>1. \A n \in S : 0 .. n \in SUBSET Nat /\ IsFiniteSet(0 .. n)
      BY FS_Interval
    <1>2. T \subseteq FiniteSubsetsOf(Nat) /\ T # {}
      BY <1>1 DEF FiniteSubsetsOf
    <1>3. PICK x \in T :
             \A y \in T : ~(<<y, x>> \in StrictSubsetOrdering(Nat))
      BY <1>2, FS_StrictSubsetOrderingWellFounded, WFMin
    <1>4. PICK m \in S : x = 0 .. m
      OBVIOUS
    <1>5. ASSUME NEW k \in S, k < m PROVE FALSE
      <2>1. <<0 .. k, 0 .. m>> \notin StrictSubsetOrdering(Nat)
        BY <1>3, <1>4
      <2>2. 0 .. k \subseteq 0 .. m /\ m \in 0 .. m /\ m \notin 0 .. k
        BY <1>5
      <2>. QED BY <1>1, <2>1, <2>2 DEF StrictSubsetOrdering
    <1>. QED BY <1>5

\* A set with 0 and the successor of each number holds them all.
LEMMA Induction ==
    ASSUME NEW S, 0 \in S, \A k \in S \cap Nat : k + 1 \in S
    PROVE  Nat \subseteq S
    <1>. SUFFICES ASSUME Nat \ S # {} PROVE FALSE
      OBVIOUS
    <1>1. PICK m \in Nat \ S : \A k \in Nat \ S : m <= k
      BY Least
    <1>2. m - 1 \in Nat /\ m - 1 \notin Nat \ S
      BY <1>1
    <1>. QED BY <1>1, <1>2

\* A value to begin with and what each of n steps makes of the one before.
Steps(n, V, e, g) == n \in Nat /\ e \in V /\ g \in [(1 .. n) \X V -> V]

Follows(up, n, V, e, g) ==
    /\ up \in [0 .. n -> V] /\ up[0] = e
    /\ \A i \in 1 .. n : up[i] = g[<<i, up[i - 1]>>]

\* There is a function that takes the steps.
LEMMA Recursion ==
    ASSUME NEW n, NEW V, NEW e, NEW g, Steps(n, V, e, g)
    PROVE  \E up : Follows(up, n, V, e, g)
    <1>. USE DEF Steps
    <1>. DEFINE Def(up, k) == 
            /\ up[0] = e
            /\ \A i \in 1 .. k : up[i] = g[<<i, up[i - 1]>>]
         S == {k \in Nat : k <= n =>
                  \E up \in [0 .. k -> V] : Def(up, k)}
    <1>1. 0 \in S
      <2>1. [i \in 0 .. 0 |-> e] \in [0 .. 0 -> V]
        OBVIOUS
      <2>2. Def([i \in 0 .. 0 |-> e], 0)
        OBVIOUS
      <2>. QED BY <2>1, <2>2
    <1>2. ASSUME NEW k \in S \cap Nat PROVE k + 1 \in S
      <2>. SUFFICES ASSUME k + 1 <= n
                    PROVE \E up \in [0 .. k + 1 -> V] : Def(up, k + 1)
        OBVIOUS
      <2>1. PICK up \in [0 .. k -> V] : Def(up, k)
        BY <1>2
      <2>. DEFINE v == g[<<k + 1, up[k]>>]
                  new == [i \in 0 .. k + 1 |-> IF i = k + 1 THEN v ELSE up[i]]
      <2>2. v \in V
        OBVIOUS
      <2>3. new \in [0 .. k + 1 -> V]
        BY <2>2
      <2>4. \A i \in 0 .. k : new[i] = up[i]
        OBVIOUS
      <2>5. new[k + 1] = v
        OBVIOUS
      <2>6. Def(new, k + 1)
        <3>1. new[0] = e
          BY <2>1, <2>4
        <3>2. ASSUME NEW i \in 1 .. k + 1
              PROVE  new[i] = g[<<i, new[i - 1]>>]
          <4>. HIDE DEF new
          <4>1. CASE i = k + 1
            BY <4>1, <2>4, <2>5
          <4>2. CASE i # k + 1
            BY <4>2, <2>1, <2>4
          <4>. QED BY <4>1, <4>2
        <3>. HIDE DEF new
        <3>. QED BY <3>1, <3>2
      <2>. QED BY <2>3, <2>6
    <1>3. n \in S
      <2>. HIDE DEF S
      <2>. QED BY <1>1, <1>2, Induction
    <1>. QED BY <1>3 DEF Follows

-----------------------------------------------------------------------------
(* Sectors                                                                 *)

\* A request is typed, and its end is a number.
LEMMA RequestType ==
    ASSUME NEW r \in Request
    PROVE  /\ r.devno \in Nat /\ r.blkno \in Nat /\ r.bcount \in Nat
           /\ End(r) \in Nat /\ End(r) = r.blkno + r.bcount
    BY DEF Request, End

LEMMA InSectors ==
    ASSUME NEW r \in Request, NEW d, NEW s
    PROVE  <<d, s>> \in Sectors(r)
           <=> d = r.devno /\ s \in Nat /\ r.blkno <= s /\ s < End(r)
    <1>1. /\ r.blkno \in Nat /\ End(r) \in Nat
      BY RequestType
    <1>2. Sectors(r) = {<<r.devno, t>> : t \in r.blkno .. End(r) - 1}
      BY DEF Sectors
    <1>. QED BY <1>1, <1>2

\* What is cut off at the tail lies in the earlier request.
LEMMA TailIsHeld ==
    ASSUME NEW r \in Request, NEW q \in Request, r.devno = q.devno,
           r.blkno < q.blkno, End(r) > q.blkno, End(r) < End(q)
    PROVE  LET c == Resized(r, r.blkno, q.blkno) IN
           /\ c \in Request
           /\ Sectors(c) \subseteq Sectors(r)
           /\ Sectors(r) \subseteq Sectors(c) \cup Sectors(q)
    <1>. DEFINE c == Resized(r, r.blkno, q.blkno)
    <1>1. /\ c \in Request /\ c.devno = r.devno /\ c.blkno = r.blkno
          /\ End(c) = q.blkno
      <2>1. r.blkno \in Nat /\ q.blkno \in Nat /\ r.blkno <= q.blkno
        BY RequestType
      <2>. QED BY <2>1, RequestType DEF Resized, Request, End
    <1>. HIDE DEF c
    <1>2. ASSUME NEW x \in Sectors(c) PROVE x \in Sectors(r)
      BY <1>1, <1>2, RequestType DEF Sectors
    <1>3. ASSUME NEW x \in Sectors(r) PROVE x \in Sectors(c) \cup Sectors(q)
      BY <1>1, <1>3, RequestType DEF Sectors
    <1>. QED BY <1>1, <1>2, <1>3 DEF c

\* What is cut off at the head lies in the earlier request.
LEMMA HeadIsHeld ==
    ASSUME NEW r \in Request, NEW q \in Request, r.devno = q.devno,
           r.blkno > q.blkno, r.blkno < End(q), End(r) > End(q)
    PROVE  LET c == Resized(r, End(q), End(r)) IN
           /\ c \in Request
           /\ Sectors(c) \subseteq Sectors(r)
           /\ Sectors(r) \subseteq Sectors(c) \cup Sectors(q)
    <1>. DEFINE c == Resized(r, End(q), End(r))
    <1>1. /\ c \in Request /\ c.devno = r.devno /\ c.blkno = End(q)
          /\ End(c) = End(r)
      <2>1. End(q) \in Nat /\ End(r) \in Nat /\ End(q) <= End(r)
        BY RequestType
      <2>. QED BY <2>1, RequestType DEF Resized, Request, End
    <1>. HIDE DEF c
    <1>2. ASSUME NEW x \in Sectors(c) PROVE x \in Sectors(r)
      BY <1>1, <1>2, RequestType DEF Sectors
    <1>3. ASSUME NEW x \in Sectors(r) PROVE x \in Sectors(c) \cup Sectors(q)
      BY <1>1, <1>3, RequestType DEF Sectors
    <1>. QED BY <1>1, <1>2, <1>3 DEF c

\* A request inside another has its sectors.
LEMMA InsideIsHeld ==
    ASSUME NEW r \in Request, NEW q \in Request, r.devno = q.devno,
           r.blkno >= q.blkno, End(r) <= End(q)
    PROVE  Sectors(r) \subseteq Sectors(q)
    <1>. SUFFICES ASSUME NEW x \in Sectors(r) PROVE x \in Sectors(q)
      OBVIOUS
    <1>. QED BY RequestType DEF Sectors

\* A longer buffer holds the sectors of the request that was added.
LEMMA HeldAppend ==
    ASSUME NEW b \in Seq(Request), NEW r \in Request
    PROVE  Held(Append(b, r)) = Held(b) \cup Sectors(r)
    <1>. DEFINE c == Append(b, r)
    <1>1. /\ Len(b) \in Nat /\ Len(c) = Len(b) + 1
          /\ c[Len(b) + 1] = r
          /\ \A k \in 1 .. Len(b) : c[k] = b[k]
      OBVIOUS
    <1>. HIDE DEF c
    <1>2. 1 .. Len(c) = (1 .. Len(b)) \cup {Len(b) + 1}
      BY <1>1
    <1>3. Held(c) = Held(b) \cup Sectors(r)
      BY <1>1, <1>2 DEF Held
    <1>. QED BY <1>3 DEF c

\* A buffer where one request has become a larger one holds the sectors it
\* held and those of the larger one.
LEMMA HeldMerge ==
    ASSUME NEW b \in Seq(Request), NEW i \in 1 .. Len(b), NEW r \in Request,
           Sectors(b[i]) \subseteq Sectors(r)
    PROVE  Held([b EXCEPT ![i] = r]) = Held(b) \cup Sectors(r)
    <1>. DEFINE c == [b EXCEPT ![i] = r]
    <1>1. /\ Len(c) = Len(b) /\ c[i] = r
          /\ \A k \in 1 .. Len(b) : k # i => c[k] = b[k]
      OBVIOUS
    <1>. HIDE DEF c
    <1>2. ASSUME NEW x \in Held(c) PROVE x \in Held(b) \cup Sectors(r)
      BY <1>1, <1>2 DEF Held
    <1>3. ASSUME NEW x \in Held(b) PROVE x \in Held(c)
      <2>1. PICK k \in 1 .. Len(b) : x \in Sectors(b[k])
        BY <1>3 DEF Held
      <2>2. CASE k = i
        BY <1>1, <2>1, <2>2 DEF Held
      <2>3. CASE k # i
        BY <1>1, <2>1, <2>3 DEF Held
      <2>. QED BY <2>2, <2>3
    <1>4. Sectors(r) \subseteq Held(c)
      BY <1>1 DEF Held
    <1>5. Held(c) = Held(b) \cup Sectors(r)
      BY <1>2, <1>3, <1>4
    <1>. QED BY <1>5 DEF c

\* Each request of a buffer is held.
LEMMA HeldElement ==
    ASSUME NEW b, NEW i \in 1 .. Len(b)
    PROVE  Sectors(b[i]) \subseteq Held(b)
    BY DEF Held

-----------------------------------------------------------------------------
(* The partition                                                           *)

\* align_sector puts a request that needs at most half of the partition
\* inside it.
LEMMA Aligned ==
    ASSUME NEW r \in Request, 2 * Pages(r) <= TotalPages
    PROVE  /\ AlignSector(r).page >= 0
           /\ AlignSector(r).page + Pages(r) <= TotalPages
    <1>1. /\ Spp \in Nat \ {0} /\ TotalPages \in Nat \ {0}
          /\ r.blkno \in Nat /\ r.bcount \in Nat
      BY ConstantsAssumption, RequestType
    <1>2. Pages(r) \in Nat
      BY <1>1 DEF Pages
    <1>3. r.blkno \div Spp \in Nat
      BY <1>1
    <1>4. (r.blkno \div Spp) % TotalPages \in 0 .. TotalPages - 1
      BY <1>1, <1>3
    <1>. QED BY <1>1, <1>2, <1>4 DEF AlignSector

-----------------------------------------------------------------------------
(* Synthetic workloads                                                     *)

\* The requests of a buffer.
Members(s) == {s[k] : k \in 1 .. Len(s)}

\* The buffers of the same requests.
Alike(s) == {t \in [1 .. Len(s) -> Request] :
                {t[k] : k \in 1 .. Len(s)} = Members(s)}

\* An exchange of two requests leaves the same ones.
LEMMA SwapIsAlike ==
    ASSUME NEW s \in Seq(Request), NEW t \in Alike(s),
           NEW i \in 1 .. Len(s), NEW k \in 1 .. Len(s)
    PROVE  Swap(t, i, k) \in Alike(s)
    <1>. DEFINE u == Swap(t, i, k)
                n == Len(s)
    <1>1. n \in Nat /\ t \in [1 .. n -> Request]
          /\ {t[m] : m \in 1 .. n} = Members(s)
      BY DEF Alike
    <1>2. u \in [1 .. n -> Request]
      BY <1>1 DEF Swap
    <1>3. \A m \in 1 .. n : u[m] = IF m = k THEN t[i]
                                   ELSE IF m = i THEN t[k] ELSE t[m]
      BY <1>1 DEF Swap
    <1>. HIDE DEF u, n
    <1>4. {u[m] : m \in 1 .. n} \subseteq {t[m] : m \in 1 .. n}
      BY <1>3 DEF n
    <1>5. ASSUME NEW m \in 1 .. n PROVE t[m] \in {u[l] : l \in 1 .. n}
      <2>1. CASE m = k
        BY <2>1, <1>3 DEF n
      <2>2. CASE m = i
        BY <2>2, <1>3 DEF n
      <2>3. CASE m # i /\ m # k
        BY <2>3, <1>3
      <2>. QED BY <2>1, <2>2, <2>3
    <1>6. {u[m] : m \in 1 .. n} = Members(s)
      BY <1>1, <1>4, <1>5
    <1>. QED BY <1>2, <1>6 DEF Alike, u, n

\* Whatever synthetic_mix leaves has the requests it was given.
LEMMA MixesAlike ==
    ASSUME NEW s \in Seq(Request)
    PROVE  Mixes(s) \subseteq Alike(s)
    <1>. DEFINE n == Len(s)
                Mixed(i, T) == {Swap(t, i, k) : t \in T, k \in (1 .. n) \ {i}}
                mixed == CHOOSE mixed : mixed =
                   [i \in 0 .. n |-> IF i = 0 THEN {s}
                                     ELSE Mixed(i, mixed[i - 1])]
                V == SUBSET Alike(s)
                g == [p \in (1 .. n) \X V |-> Mixed(p[1], p[2])]
    <1>1. Mixes(s) = mixed[n]
      BY DEF Mixes
    <1>2. n \in Nat /\ s \in Alike(s)
      BY DEF Alike, Members
    <1>3. ASSUME NEW i \in 1 .. n, NEW T \in V PROVE Mixed(i, T) \in V
      BY SwapIsAlike
    <1>4. \A i \in 1 .. n, T \in V : g[<<i, T>>] = Mixed(i, T)
      OBVIOUS
    <1>5. g \in [(1 .. n) \X V -> V]
      <2>1. \A p \in (1 .. n) \X V : Mixed(p[1], p[2]) \in V
        BY <1>3
      <2>. HIDE DEF V, Mixed
      <2>. QED BY <2>1
    <1>. HIDE DEF g, Mixed
    <1>6. PICK up : Follows(up, n, V, {s}, g)
      <2>1. Steps(n, V, {s}, g)
        BY <1>2, <1>5 DEF Steps
      <2>. HIDE DEF n, V
      <2>. QED BY <2>1, Recursion
    <1>. HIDE DEF V, n
    <1>7. up = [i \in 0 .. n |-> IF i = 0 THEN {s} ELSE Mixed(i, up[i - 1])]
      <2>1. up \in [0 .. n -> V] /\ up[0] = {s}
            /\ \A i \in 1 .. n : up[i] = g[<<i, up[i - 1]>>]
        BY <1>6 DEF Follows
      <2>2. ASSUME NEW i \in 1 .. n PROVE up[i] = Mixed(i, up[i - 1])
        <3>1. up[i - 1] \in V /\ up[i] = g[<<i, up[i - 1]>>]
          BY <1>2, <2>1
        <3>. QED BY <1>4, <3>1
      <2>3. \A i \in 0 .. n : up[i] = IF i = 0 THEN {s}
                                      ELSE Mixed(i, up[i - 1])
        BY <1>2, <2>1, <2>2
      <2>. QED BY <2>1, <2>3
    <1>8. mixed = [i \in 0 .. n |-> IF i = 0 THEN {s}
                                    ELSE Mixed(i, mixed[i - 1])]
      BY <1>7
    <1>. HIDE DEF mixed
    <1>9. /\ mixed[0] = {s}
          /\ \A i \in 1 .. n : mixed[i] = Mixed(i, mixed[i - 1])
      <2>1. ASSUME NEW i \in 0 .. n
            PROVE  mixed[i] = IF i = 0 THEN {s} ELSE Mixed(i, mixed[i - 1])
        BY <1>8
      <2>. QED BY <1>2, <2>1
    <1>. DEFINE S == {i \in Nat : i <= n => mixed[i] \in V}
    <1>10. 0 \in S
      BY <1>2, <1>9 DEF V
    <1>11. ASSUME NEW i \in S \cap Nat PROVE i + 1 \in S
      <2>1. CASE i + 1 <= n
        <3>1. i + 1 \in 1 .. n /\ mixed[i] \in V
          BY <1>2, <2>1
        <3>2. mixed[i + 1] = Mixed(i + 1, mixed[i])
          BY <1>9, <3>1
        <3>. QED BY <1>3, <3>1, <3>2
      <2>2. CASE ~(i + 1 <= n)
        BY <2>2
      <2>. QED BY <2>1, <2>2
    <1>12. n \in S
      <2>. HIDE DEF S
      <2>. QED BY <1>2, <1>10, <1>11, Induction
    <1>. QED BY <1>1, <1>2, <1>12 DEF V
\* They keep their shape when they are mixed.
LEMMA AlikeIsShaped ==
    ASSUME NEW s \in Seq(Request), NEW t \in Alike(s), Shaped(job, s)
    PROVE  t \in Seq(Request) /\ Len(t) = Len(s) /\ Shaped(job, t)
    <1>. DEFINE n == Len(s)
    <1>1. /\ n \in Nat /\ t \in [1 .. n -> Request]
          /\ {t[k] : k \in 1 .. n} = {s[k] : k \in 1 .. n}
      <2>1. t \in [1 .. n -> Request] /\ {t[k] : k \in 1 .. n} = Members(s)
        BY DEF Alike
      <2>2. n \in Nat
        OBVIOUS
      <2>. QED BY <2>1, <2>2 DEF Members
    <1>2. t \in Seq(Request) /\ Len(t) = n
      BY <1>1
    <1>3. \A k \in 1 .. n : \E l \in 1 .. n : t[k] = s[l]
      BY <1>1
    <1>4. \A k \in 1 .. n : \E l \in 1 .. n : s[k] = t[l]
      BY <1>1
    <1>5. \A k \in 1 .. n : t[k].bcount = IoPages(job) * Spp
      BY <1>3 DEF Shaped
    <1>6. {t[k].blkno : k \in 1 .. n} = {s[k].blkno : k \in 1 .. n}
      <2>. HIDE DEF n
      <2>1. ASSUME NEW k \in 1 .. n
            PROVE  t[k].blkno \in {s[l].blkno : l \in 1 .. n}
        BY <1>3
      <2>2. ASSUME NEW k \in 1 .. n
            PROVE  s[k].blkno \in {t[l].blkno : l \in 1 .. n}
        BY <1>4
      <2>. QED BY <2>1, <2>2
    <1>. QED BY <1>2, <1>5, <1>6 DEF Shaped

\* The sizes main works out are numbers.
LEMMA SynthSizes ==
    ASSUME job \in Jobs
    PROVE  /\ IoKB(job) \in Nat \ {0} /\ IoPages(job) \in Nat
           /\ WorkingSetMB(job) \in Nat
           /\ job.wss \in Nat /\ job.utilization \in Nat
           /\ WorkingSetPages(job) \subseteq Int
    <1>1. /\ {Spp, PageKB, MegaKB, Percent, IntKB, MaxKB} \subseteq Nat \ {0}
          /\ {job.wss, job.utilization, job.iosize} \subseteq Nat
      BY ConstantsAssumption
    <1>2. IoKB(job) \in Nat \ {0}
      BY <1>1 DEF IoKB
    <1>3. IoPages(job) \in Nat
      BY <1>1, <1>2 DEF IoPages
    <1>4. WorkingSetMB(job) \in Nat
      <2>1. (job.wss * MegaKB) \div IoKB(job) \in Nat
        BY <1>1, <1>2
      <2>2. ((job.wss * MegaKB) \div IoKB(job)) * IoKB(job) \in Nat
        BY <1>2, <2>1
      <2>. QED BY <1>1, <2>2 DEF WorkingSetMB
    <1>5. \A a \in Int : Wrap(a) \in Int
      BY <1>1 DEF Wrap
    <1>6. \A a \in Int : Quot(a, PageKB) \in Int
      BY <1>1 DEF Quot
    <1>7. WorkingSetMB(job) * MegaKB \in Int
      BY <1>1, <1>4
    <1>8. WorkingSetMB(job) * (MegaKB \div PageKB) \in Int
      <2>1. MegaKB \div PageKB \in Nat
        BY <1>1
      <2>. QED BY <2>1, <1>4
    <1>. QED BY <1>1, <1>2, <1>3, <1>4, <1>5, <1>6, <1>7, <1>8
             DEF WorkingSetPages

LEMMA SynthCountType ==
    ASSUME job \in Jobs, NEW pages \in WorkingSetPages(job), Divides(job)
    PROVE  SynthCount(job, pages) \in Int
    <1>1. /\ pages \in Int /\ IoPages(job) \in Nat \ {0}
          /\ Percent \in Nat \ {0} /\ job.utilization \in Nat
      BY SynthSizes, ConstantsAssumption DEF Divides
    <1>2. Quot(pages, IoPages(job)) \in Int
      BY <1>1 DEF Quot
    <1>3. Quot(Quot(pages, IoPages(job)), Percent) \in Int
      BY <1>1, <1>2 DEF Quot
    <1>. QED BY <1>1, <1>3 DEF SynthCount

\* synthetic_gen makes them in that shape.
LEMMA SynthMade ==
    ASSUME job \in Jobs, NEW n \in Nat,
           NEW f \in [1 .. n -> Flags(job.name)]
    PROVE  LET made == [i \in 1 .. n |-> SynthRequest(job, i - 1, f[i])] IN
           made \in Seq(Request) /\ Len(made) = n /\ Shaped(job, made)
    <1>. DEFINE made == [i \in 1 .. n |-> SynthRequest(job, i - 1, f[i])]
    <1>1. IoPages(job) \in Nat /\ Spp \in Nat
      BY SynthSizes, ConstantsAssumption
    <1>2. \A i \in 1 .. n : f[i] \in Nat
      <2>1. Flags(job.name) \subseteq Nat
        BY DEF Flags
      <2>. QED BY <2>1
    <1>3. ASSUME NEW i \in 1 .. n
          PROVE  /\ made[i] \in Request
                 /\ made[i].bcount = IoPages(job) * Spp
                 /\ made[i].blkno = (i - 1) * IoPages(job) * Spp
      <2>1. /\ made[i] = [devno |-> 0, blkno |-> (i - 1) * IoPages(job) * Spp,
                          bcount |-> IoPages(job) * Spp, flags |-> f[i]]
        BY DEF SynthRequest
      <2>2. /\ IoPages(job) * Spp \in Nat
            /\ (i - 1) * IoPages(job) * Spp \in Nat
        BY <1>1
      <2>. QED BY <1>2, <2>1, <2>2 DEF Request
    <1>4. made \in Seq(Request) /\ Len(made) = n
      BY <1>3
    <1>. HIDE DEF made
    <1>5. {made[k].blkno : k \in 1 .. n}
          = {i * IoPages(job) * Spp : i \in 0 .. n - 1}
      <2>1. ASSUME NEW k \in 1 .. n
            PROVE  made[k].blkno
                      \in {i * IoPages(job) * Spp : i \in 0 .. n - 1}
        <3>1. k - 1 \in 0 .. n - 1
          OBVIOUS
        <3>. QED BY <1>3, <3>1
      <2>2. ASSUME NEW i \in 0 .. n - 1
            PROVE  i * IoPages(job) * Spp \in {made[k].blkno : k \in 1 .. n}
        <3>1. i + 1 \in 1 .. n /\ (i + 1) - 1 = i
          OBVIOUS
        <3>2. made[i + 1].blkno = ((i + 1) - 1) * IoPages(job) * Spp
          BY <1>3, <3>1
        <3>. QED BY <3>1, <3>2
      <2>. QED BY <2>1, <2>2
    <1>6. Shaped(job, made)
      BY <1>3, <1>4, <1>5 DEF Shaped
    <1>. QED BY <1>4, <1>6 DEF made
-----------------------------------------------------------------------------
(* The inductive invariant                                                 *)

\* A line that is read is a request.
LEMMA LineType ==
    ASSUME job \in Jobs, NEW i \in 1 .. Len(job.lines),
           job.lines[i] # WrongText
    PROVE  job.lines[i] \in Request
    <1>1. job.lines \in Seq(Request \cup {WrongText})
      BY ConstantsAssumption
    <1>. QED BY <1>1

LEMMA WindowStarts ==
    ASSUME Len(buf) \in Nat
    PROVE  WindowStart \in Nat \ {0} /\ WindowStart <= Len(buf) + 1
    BY ConstantsAssumption DEF WindowStart

LEMMA InitFile == Init => LoadInv
    <1>. SUFFICES ASSUME Init PROVE LoadInv
      OBVIOUS
    <1>1. /\ job \in Jobs
          /\ phase = IF IsSynthetic(job) THEN "gen" ELSE "fgets"
          /\ pos = 0 /\ buf = <<>> /\ io = NoRequest /\ at = 1
          /\ wanted = 0
          /\ size = IF IsSynthetic(job) THEN 0 ELSE BufSize
      BY DEF Init, LoadInit
    <1>2. CASE IsSynthetic(job)
      BY <1>1, <1>2 DEF LoadInv, SynthInv
    <1>3. CASE ~IsSynthetic(job)
      <2>1. /\ job.lines \in Seq(Request \cup {WrongText})
            /\ BufSize \in Nat \ {0}
        BY <1>1, ConstantsAssumption
      <2>2. Typed
        BY <1>1, <1>3, <2>1 DEF Typed, NoRequest, Request
      <2>3. Roomy
        BY <1>1, <1>3, <2>1 DEF Roomy
      <2>4. Scanned
        BY <1>1, <1>3 DEF Scanned
      <2>5. LinesRead = {}
        BY <1>1 DEF LinesRead
      <2>6. Covering
        BY <1>1, <1>3, <2>5 DEF Covering, Held, ReadSectors
      <2>. QED BY <1>3, <2>2, <2>3, <2>4, <2>6 DEF LoadInv, FileInv
    <1>. QED BY <1>2, <1>3

\* A part of a request is apart from what the request was apart from.
LEMMA PartIsDisjoint ==
    ASSUME NEW r \in Request, NEW c \in Request, NEW q \in Request,
           c.devno = r.devno, c.blkno >= r.blkno, End(c) <= End(r),
           Disjoint(r, q)
    PROVE  Disjoint(c, q)
    BY RequestType DEF Disjoint

\* Two requests are apart, or trace_io_put has a case for them.
LEMMA ApartIsDisjoint ==
    ASSUME buf[at] \in Request, io \in Request,
           ~AtFront, ~Covers, ~Inside, ~AtTail
    PROVE  Disjoint(io, buf[at])
    <1>1. /\ io.blkno \in Nat /\ End(io) \in Nat
          /\ buf[at].blkno \in Nat /\ End(buf[at]) \in Nat
      BY RequestType
    <1>. QED BY <1>1 DEF Disjoint, AtFront, Covers, Inside, AtTail

LEMMA ReadLineKeeps == ASSUME FileInv, ~IsSynthetic(job), ReadLine
                       PROVE  FileInv'
    <1>1. /\ phase \in {"fgets", "again"} /\ pos < Len(job.lines)
          /\ job.lines[pos + 1] # WrongText
          /\ pos' = pos + 1 /\ size' = Grown
          /\ io' = job.lines[pos + 1] /\ at' = WindowStart
          /\ phase' = "scan" /\ job' = job /\ buf' = buf
          /\ wanted' = wanted
      BY DEF ReadLine
    <1>2. /\ job \in Jobs /\ pos \in 0 .. Len(job.lines)
          /\ buf \in Seq(Request) /\ size \in Nat \ {0} /\ wanted = 0
      BY DEF FileInv, Typed
    <1>3. job.lines \in Seq(Request \cup {WrongText})
      BY <1>2, ConstantsAssumption
    <1>4. /\ Len(job.lines) \in Nat /\ pos + 1 \in 1 .. Len(job.lines)
          /\ Len(buf) \in Nat
      BY <1>1, <1>2, <1>3
    <1>5. io' \in Request
      BY <1>1, <1>2, <1>4, LineType
    <1>6. at' \in Nat \ {0}
      BY <1>1, <1>4, WindowStarts
    <1>7. size' \in Nat \ {0} /\ Len(buf) < size'
      BY <1>1, <1>2, <1>4 DEF Grown, FileInv, Roomy
    <1>8. Typed'
      BY <1>1, <1>2, <1>4, <1>5, <1>6, <1>7 DEF Typed
    <1>9. Roomy'
      BY <1>1, <1>4, <1>7 DEF Roomy
    <1>10. Scanned'
      BY <1>1, <1>4, WindowStarts, ConstantsAssumption DEF Scanned, WindowStart
    <1>11. Covering'
      <2>1. 1 .. pos + 1 = (1 .. pos) \cup {pos + 1}
        BY <1>2, <1>4
      <2>2. LinesRead' = LinesRead \cup {io'}
        BY <1>1, <2>1 DEF LinesRead
      <2>3. ReadSectors' = ReadSectors \cup Sectors(io')
        BY <2>2 DEF ReadSectors
      <2>4. Held(buf) = ReadSectors
        BY <1>1 DEF FileInv, Covering
      <2>. QED BY <1>1, <2>3, <2>4 DEF Covering, Held
    <1>. QED BY <1>8, <1>9, <1>10, <1>11 DEF FileInv

LEMMA WrongLineKeeps == ASSUME FileInv, ~IsSynthetic(job), WrongLine
                        PROVE  FileInv'
    <1>1. /\ phase \in {"fgets", "again"} /\ pos < Len(job.lines)
          /\ job.lines[pos + 1] = WrongText
          /\ pos' = pos + 1 /\ size' = Grown
          /\ phase' = "fgets"
          /\ job' = job /\ buf' = buf /\ io' = io /\ at' = at
          /\ wanted' = wanted
      BY DEF WrongLine
    <1>2. /\ job \in Jobs /\ pos \in 0 .. Len(job.lines)
          /\ buf \in Seq(Request) /\ size \in Nat \ {0}
          /\ io \in Request /\ at \in Nat \ {0} /\ wanted = 0
      BY DEF FileInv, Typed
    <1>3. job.lines \in Seq(Request \cup {WrongText})
      BY <1>2, ConstantsAssumption
    <1>4. /\ Len(job.lines) \in Nat /\ pos + 1 \in 1 .. Len(job.lines)
          /\ Len(buf) \in Nat
      BY <1>1, <1>2, <1>3
    <1>5. size' \in Nat \ {0} /\ Len(buf) < size'
      BY <1>1, <1>2, <1>4 DEF Grown, FileInv, Roomy
    <1>6. Typed'
      BY <1>1, <1>2, <1>4, <1>5 DEF Typed
    <1>7. Roomy' /\ Scanned'
      BY <1>1, <1>4, <1>5 DEF Roomy, Scanned
    <1>8. Covering'
      <2>1. 1 .. pos + 1 = (1 .. pos) \cup {pos + 1}
        BY <1>2, <1>4
      <2>2. LinesRead' = LinesRead
        BY <1>1, <2>1 DEF LinesRead
      <2>3. ReadSectors' = ReadSectors
        BY <2>2 DEF ReadSectors
      <2>. QED BY <1>1, <2>3 DEF FileInv, Covering, Held
    <1>. QED BY <1>6, <1>7, <1>8 DEF FileInv

LEMMA FileEndsKeeps == ASSUME FileInv, FileEnds PROVE FileInv'
    <1>1. /\ phase \in {"fgets", "again"} /\ phase' = "ready"
          /\ job' = job /\ pos' = pos /\ buf' = buf /\ size' = size
          /\ io' = io /\ at' = at /\ wanted' = wanted
      BY DEF FileEnds
    <1>2. Typed' /\ Roomy' /\ Scanned'
      BY <1>1 DEF FileInv, Typed, Roomy, Scanned
    <1>3. LinesRead' = LinesRead
      BY <1>1 DEF LinesRead
    <1>4. Covering'
      BY <1>1, <1>3 DEF FileInv, Covering, Held, ReadSectors
    <1>. QED BY <1>2, <1>4 DEF FileInv

\* A part of the request in hand goes on, apart from one more request, and
\* what was cut off is held.
LEMMA CutKeeps ==
    ASSUME FileInv, phase = "scan", at <= Len(buf), io' \in Request,
           io'.devno = io.devno, io'.blkno >= io.blkno, End(io') <= End(io),
           Disjoint(io', buf[at]),
           Sectors(io') \subseteq Sectors(io),
           Sectors(io) \subseteq Sectors(io') \cup Sectors(buf[at]),
           at' = at + 1,
           UNCHANGED <<job, phase, pos, buf, size, wanted>>
    PROVE  FileInv'
    <1>1. /\ buf \in Seq(Request) /\ io \in Request /\ at \in Nat \ {0}
          /\ Len(buf) \in Nat /\ at \in 1 .. Len(buf)
      BY DEF FileInv, Typed
    <1>2. Typed' /\ Roomy'
      BY <1>1 DEF FileInv, Typed, Roomy
    <1>3. Scanned'
      <2>1. WindowStart' = WindowStart /\ WindowStart \in Nat \ {0}
        BY <1>1, WindowStarts DEF WindowStart
      <2>2. ASSUME NEW k \in WindowStart .. Len(buf), k < at + 1
            PROVE  Disjoint(io', buf[k])
        <3>1. buf[k] \in Request
          BY <1>1, <2>1
        <3>2. CASE k < at
          <4>1. Disjoint(io, buf[k])
            BY <3>2 DEF FileInv, Scanned
          <4>. QED BY <1>1, <3>1, <4>1, PartIsDisjoint
        <3>3. CASE k = at
          BY <3>3
        <3>. QED BY <1>1, <2>1, <2>2, <3>2, <3>3
      <2>. QED BY <2>1, <2>2 DEF Scanned
    <1>4. Covering'
      <2>1. Sectors(buf[at]) \subseteq Held(buf)
        BY <1>1, HeldElement
      <2>2. Held(buf) \cup Sectors(io') = Held(buf) \cup Sectors(io)
        BY <2>1
      <2>3. ReadSectors' = ReadSectors /\ Held(buf)' = Held(buf)
        BY DEF ReadSectors, LinesRead, Held
      <2>. QED BY <2>2, <2>3 DEF FileInv, Covering
    <1>. QED BY <1>2, <1>3, <1>4 DEF FileInv

LEMMA CutTailKeeps == ASSUME FileInv, CutTail PROVE FileInv'
    <1>1. /\ phase = "scan" /\ at <= Len(buf) /\ io.devno = buf[at].devno
          /\ io.blkno < buf[at].blkno
          /\ End(io) > buf[at].blkno /\ End(io) < End(buf[at])
          /\ io' = Resized(io, io.blkno, buf[at].blkno) /\ at' = at + 1
          /\ UNCHANGED <<job, phase, pos, buf, size, wanted>>
      BY DEF CutTail, Comparing, AtFront
    <1>2. io \in Request /\ buf[at] \in Request
      BY <1>1 DEF FileInv, Typed
    <1>3. /\ io' \in Request
          /\ Sectors(io') \subseteq Sectors(io)
          /\ Sectors(io) \subseteq Sectors(io') \cup Sectors(buf[at])
      BY <1>1, <1>2, TailIsHeld
    <1>4. /\ io.blkno \in Nat /\ End(io) \in Nat /\ buf[at].blkno \in Nat
      BY <1>2, RequestType
    <1>5. /\ io'.devno = io.devno /\ io'.blkno = io.blkno
          /\ End(io') = buf[at].blkno
      BY <1>1, <1>2, <1>4 DEF Resized, End
    <1>6. /\ io'.blkno >= io.blkno /\ End(io') <= End(io)
          /\ Disjoint(io', buf[at])
      BY <1>1, <1>4, <1>5 DEF Disjoint
    <1>. QED BY <1>1, <1>3, <1>5, <1>6, CutKeeps

LEMMA CutHeadKeeps == ASSUME FileInv, CutHead PROVE FileInv'
    <1>1. /\ phase = "scan" /\ at <= Len(buf) /\ io.devno = buf[at].devno
          /\ io.blkno > buf[at].blkno /\ io.blkno < End(buf[at])
          /\ End(io) > End(buf[at])
          /\ io' = Resized(io, End(buf[at]), End(io)) /\ at' = at + 1
          /\ UNCHANGED <<job, phase, pos, buf, size, wanted>>
      BY DEF CutHead, Comparing, AtTail
    <1>2. io \in Request /\ buf[at] \in Request
      BY <1>1 DEF FileInv, Typed
    <1>3. /\ io' \in Request
          /\ Sectors(io') \subseteq Sectors(io)
          /\ Sectors(io) \subseteq Sectors(io') \cup Sectors(buf[at])
      BY <1>1, <1>2, HeadIsHeld
    <1>4. /\ io.blkno \in Nat /\ End(io) \in Nat
          /\ buf[at].blkno \in Nat /\ End(buf[at]) \in Nat
      BY <1>2, RequestType
    <1>5. /\ io'.devno = io.devno /\ io'.blkno = End(buf[at])
          /\ End(io') = End(io)
      BY <1>1, <1>2, <1>4 DEF Resized, End
    <1>6. /\ io'.blkno >= io.blkno /\ End(io') <= End(io)
          /\ Disjoint(io', buf[at])
      BY <1>1, <1>4, <1>5 DEF Disjoint
    <1>. QED BY <1>1, <1>3, <1>5, <1>6, CutKeeps

LEMMA ApartKeeps == ASSUME FileInv, Apart PROVE FileInv'
    <1>1. /\ phase = "scan" /\ at <= Len(buf) /\ at' = at + 1 /\ io' = io
          /\ UNCHANGED <<job, phase, pos, buf, size, wanted>>
          /\ \/ io.devno # buf[at].devno
             \/ ~AtFront /\ ~Covers /\ ~Inside /\ ~AtTail
      BY DEF Apart
    <1>2. io \in Request /\ buf[at] \in Request
      BY <1>1 DEF FileInv, Typed
    <1>3. Disjoint(io, buf[at])
      BY <1>1, <1>2, ApartIsDisjoint DEF Disjoint
    <1>4. io.blkno \in Nat /\ End(io) \in Nat
      BY <1>2, RequestType
    <1>. QED BY <1>1, <1>2, <1>3, <1>4, CutKeeps

LEMMA DropKeeps == ASSUME FileInv, Drop PROVE FileInv'
    <1>1. /\ phase = "scan" /\ at <= Len(buf) /\ io.devno = buf[at].devno
          /\ io.blkno >= buf[at].blkno /\ End(io) <= End(buf[at])
          /\ phase' = "again"
          /\ UNCHANGED <<job, pos, buf, size, io, at, wanted>>
      BY DEF Drop, Comparing, Inside
    <1>2. io \in Request /\ buf[at] \in Request /\ at \in 1 .. Len(buf)
      BY <1>1 DEF FileInv, Typed
    <1>3. Typed' /\ Roomy' /\ Scanned'
      BY <1>1 DEF FileInv, Typed, Roomy, Scanned
    <1>4. Sectors(io) \subseteq Held(buf)
      BY <1>1, <1>2, InsideIsHeld, HeldElement
    <1>5. ReadSectors' = ReadSectors /\ Held(buf)' = Held(buf)
      BY <1>1 DEF ReadSectors, LinesRead, Held
    <1>6. Covering'
      BY <1>1, <1>4, <1>5 DEF FileInv, Covering
    <1>. QED BY <1>3, <1>6 DEF FileInv

LEMMA MergeKeeps == ASSUME FileInv, Merge PROVE FileInv'
    <1>. DEFINE r == Resized(buf[at], io.blkno, End(io))
    <1>1. /\ phase = "scan" /\ at <= Len(buf) /\ io.devno = buf[at].devno
          /\ io.blkno <= buf[at].blkno /\ End(io) >= End(buf[at])
          /\ buf' = [buf EXCEPT ![at] = r]
          /\ phase' = "again"
          /\ UNCHANGED <<job, pos, size, io, at, wanted>>
      BY DEF Merge, Comparing, Covers
    <1>2. /\ io \in Request /\ buf \in Seq(Request) /\ buf[at] \in Request
          /\ at \in 1 .. Len(buf) /\ Len(buf) \in Nat
      BY <1>1 DEF FileInv, Typed
    <1>3. /\ io.blkno \in Nat /\ End(io) \in Nat /\ io.blkno <= End(io)
          /\ io.blkno + io.bcount = End(io)
      BY <1>2, RequestType
    <1>4. /\ r \in Request /\ r.devno = io.devno
          /\ r.blkno = io.blkno /\ End(r) = End(io)
      <2>1. /\ buf[at].devno \in Nat /\ buf[at].flags \in Nat
            /\ io.devno = buf[at].devno /\ End(io) - io.blkno \in Nat
        <3>1. io.devno = buf[at].devno
          BY DEF Merge, Comparing
        <3>2. buf[at].devno \in Nat /\ buf[at].flags \in Nat
          BY <1>2 DEF Request
        <3>3. End(io) - io.blkno \in Nat
          BY <1>3
        <3>. QED BY <3>1, <3>2, <3>3
      <2>2. r = [devno |-> buf[at].devno, blkno |-> io.blkno,
                 bcount |-> End(io) - io.blkno, flags |-> buf[at].flags]
        BY DEF Resized
      <2>. QED BY <1>3, <2>1, <2>2 DEF Request, End
    <1>. HIDE DEF r
    <1>5. Sectors(r) = Sectors(io)
      BY <1>4 DEF Sectors
    <1>6. Sectors(buf[at]) \subseteq Sectors(r)
      BY <1>1, <1>2, <1>4, InsideIsHeld
    <1>7. buf' \in Seq(Request) /\ Len(buf') = Len(buf)
      BY <1>1, <1>2, <1>4
    <1>8. Typed' /\ Roomy' /\ Scanned'
      BY <1>1, <1>7 DEF FileInv, Typed, Roomy, Scanned
    <1>9. Held(buf') = Held(buf) \cup Sectors(io)
      BY <1>1, <1>2, <1>4, <1>5, <1>6, HeldMerge
    <1>10. ReadSectors' = ReadSectors /\ Held(buf)' = Held(buf')
      BY <1>1 DEF ReadSectors, LinesRead, Held
    <1>11. Covering'
      BY <1>1, <1>9, <1>10 DEF FileInv, Covering
    <1>. QED BY <1>8, <1>11 DEF FileInv

LEMMA AppendRequestKeeps == ASSUME FileInv, AppendRequest PROVE FileInv'
    <1>1. /\ phase = "scan" /\ at > Len(buf)
          /\ buf' = Append(buf, io) /\ phase' = "fgets"
          /\ UNCHANGED <<job, pos, size, io, at, wanted>>
      BY DEF AppendRequest
    <1>2. io \in Request /\ buf \in Seq(Request) /\ size \in Nat
      BY DEF FileInv, Typed
    <1>3. /\ buf' \in Seq(Request) /\ Len(buf') = Len(buf) + 1
          /\ Len(buf) \in Nat
      BY <1>1, <1>2
    <1>4. Typed' /\ Scanned'
      BY <1>1, <1>3 DEF FileInv, Typed, Scanned
    <1>5. Roomy'
      BY <1>1, <1>2, <1>3 DEF FileInv, Roomy
    <1>6. Held(buf') = Held(buf) \cup Sectors(io)
      BY <1>1, <1>2, HeldAppend
    <1>7. ReadSectors' = ReadSectors /\ Held(buf)' = Held(buf')
      BY <1>1 DEF ReadSectors, LinesRead, Held
    <1>8. Covering'
      BY <1>1, <1>6, <1>7 DEF FileInv, Covering
    <1>. QED BY <1>4, <1>5, <1>8 DEF FileInv

-----------------------------------------------------------------------------
(* Every step                                                              *)

\* The replay leaves what was loaded, except that it mixes a random workload
\* again.
LEMMA ReplayLeaves ==
    ASSUME \/ Begin \/ Sweep \/ Report \/ Totals \/ Tick \/ Ended
           \/ \E w \in Threads :
                 Fetch(w) \/ Refused(w) \/ Leave(w) \/ Complete(w)
                 \/ SetDone(w)
    PROVE  /\ UNCHANGED <<job, phase, wanted>>
           /\ \/ UNCHANGED loadVars
              \/ /\ phase = "ready" /\ IsSynthetic(job)
                 /\ buf' = buf \/ buf' \in Mixes(buf)
    <1>1. CASE \/ Begin \/ Sweep \/ Report \/ Totals \/ Tick \/ Ended
      BY <1>1 DEF Begin, Sweep, Report, Totals, Tick, Ended, vars, loadVars
    <1>2. ASSUME NEW w \in Threads,
                 Refused(w) \/ Leave(w) \/ Complete(w) \/ SetDone(w)
          PROVE  UNCHANGED loadVars
      BY <1>2 DEF Refused, Leave, Complete, SetDone
    <1>3. ASSUME NEW w \in Threads, Fetch(w)
          PROVE  /\ UNCHANGED <<job, phase, wanted>>
                 /\ \/ UNCHANGED loadVars
                    \/ /\ phase = "ready" /\ IsSynthetic(job)
                       /\ buf' = buf \/ buf' \in Mixes(buf)
      <2>1. /\ UNCHANGED <<job, phase, pos, size, io, at, wanted>>
            /\ buf' = buf \/ (Random(job.name) /\ buf' \in Mixes(buf))
            /\ phase = "ready"
        BY <1>3 DEF Fetch, Takes, Replaying
      <2>2. Random(job.name) => IsSynthetic(job)
        BY DEF IsSynthetic, SynthNames, Random
      <2>. QED BY <2>1, <2>2 DEF loadVars
    <1>. QED BY <1>1, <1>2, <1>3 DEF loadVars

LEMMA FileStays == ASSUME FileInv, UNCHANGED loadVars PROVE FileInv'
    <1>1. Typed' /\ Roomy'
      BY DEF FileInv, Typed, Roomy, loadVars
    <1>2. Scanned'
      BY DEF FileInv, Scanned, WindowStart, loadVars
    <1>3. Covering'
      BY DEF FileInv, Covering, Held, ReadSectors, LinesRead, loadVars
    <1>. QED BY <1>1, <1>2, <1>3 DEF FileInv

LEMMA FileLoads ==
    ASSUME FileInv, ~IsSynthetic(job), LoadStep
    PROVE  FileInv'
    <1>1. ~(Rejected \/ Crashed \/ Generate)
      BY DEF FileInv, Typed, Rejected, Crashed, Generate
    <1>2. CASE ReadLine      BY <1>2, ReadLineKeeps
    <1>3. CASE WrongLine     BY <1>3, WrongLineKeeps
    <1>4. CASE FileEnds      BY <1>4, FileEndsKeeps
    <1>5. CASE CutTail       BY <1>5, CutTailKeeps
    <1>6. CASE Merge         BY <1>6, MergeKeeps
    <1>7. CASE Drop          BY <1>7, DropKeeps
    <1>8. CASE CutHead       BY <1>8, CutHeadKeeps
    <1>9. CASE Apart         BY <1>9, ApartKeeps
    <1>10. CASE AppendRequest
      BY <1>10, AppendRequestKeeps
    <1>. QED BY <1>1, <1>2, <1>3, <1>4, <1>5, <1>6, <1>7, <1>8, <1>9, <1>10
             DEF LoadStep

LEMMA JobStays == LoadStep => job' = job
    BY DEF LoadStep, ReadLine, WrongLine, FileEnds, CutTail, Merge, Drop,
           CutHead, Apart, AppendRequest, Rejected, Crashed, Generate

\* A generated buffer stays one with the same requests in another order.
LEMMA SynthBufMixed ==
    ASSUME SynthBuf, UNCHANGED <<job, wanted>>,
           buf' = buf \/ buf' \in Mixes(buf)
    PROVE  SynthBuf'
    <1>1. PICK pages \in WorkingSetPages(job) :
             /\ Valid(job, pages) /\ Divides(job)
             /\ wanted = Quot(pages, IoPages(job))
             /\ SynthCount(job, pages) >= 0
             /\ Len(buf) = SynthCount(job, pages)
             /\ buf \in Seq(Request) /\ Shaped(job, buf)
      BY DEF SynthBuf
    <1>2. /\ buf' \in Seq(Request) /\ Len(buf') = Len(buf)
          /\ Shaped(job, buf')
      BY <1>1, MixesAlike, AlikeIsShaped
    <1>. QED BY <1>1, <1>2 DEF SynthBuf

LEMMA SynthLoads ==
    ASSUME SynthInv, IsSynthetic(job), LoadStep
    PROVE  SynthInv'
    <1>1. phase \notin {"fgets", "scan", "again"}
      BY DEF SynthInv
    <1>2. ~ReadLine /\ ~WrongLine /\ ~FileEnds /\ ~Apart /\ ~AppendRequest
      BY <1>1 DEF ReadLine, WrongLine, FileEnds, Apart, AppendRequest
    <1>3. ~CutTail /\ ~Merge /\ ~Drop /\ ~CutHead
      BY <1>1 DEF CutTail, Merge, Drop, CutHead, Comparing
    <1>4. CASE Rejected \/ Crashed
      BY <1>4 DEF SynthInv, Rejected, Crashed
    <1>5. CASE Generate
      <2>1. job \in Jobs /\ job' = job /\ phase' \in {"ready", "spin"}
        BY <1>5 DEF SynthInv, Generate
      <2>2. PICK pages \in WorkingSetPages(job) :
               /\ Valid(job, pages) /\ Divides(job)
               /\ SynthCount(job, pages) >= 0
               /\ wanted' = Quot(pages, IoPages(job))
               /\ LET n == SynthCount(job, pages) IN
                  \E f \in [1 .. n -> Flags(job.name)] :
                     LET made == [i \in 1 .. n |->
                                     SynthRequest(job, i - 1, f[i])]
                     IN  buf' = made \/ buf' \in Mixes(made)
        BY <1>5 DEF Generate
      <2>. DEFINE n == SynthCount(job, pages)
      <2>3. n \in Nat
        BY <2>1, <2>2, SynthCountType
      <2>4. PICK f \in [1 .. n -> Flags(job.name)] :
               LET made == [i \in 1 .. n |-> SynthRequest(job, i - 1, f[i])]
               IN  buf' = made \/ buf' \in Mixes(made)
        BY <2>2
      <2>. DEFINE made == [i \in 1 .. n |-> SynthRequest(job, i - 1, f[i])]
      <2>5. made \in Seq(Request) /\ Len(made) = n /\ Shaped(job, made)
        BY <2>1, <2>3, SynthMade
      <2>6. buf' = made \/ buf' \in Mixes(made)
        BY <2>4
      <2>. HIDE DEF made
      <2>7. /\ buf' \in Seq(Request) /\ Len(buf') = n
            /\ Shaped(job, buf')
        BY <2>5, <2>6, MixesAlike, AlikeIsShaped
      <2>8. SynthBuf'
        BY <2>1, <2>2, <2>7 DEF SynthBuf
      <2>. QED BY <2>1, <2>8 DEF SynthInv
    <1>. QED BY <1>2, <1>3, <1>4, <1>5 DEF LoadStep

\* Each step keeps the inductive invariant.
LEMMA LoadKeeps == LoadInv /\ [Next]_vars => LoadInv'
    <1>. SUFFICES ASSUME LoadInv, [Next]_vars PROVE LoadInv'
      OBVIOUS
    <1>1. CASE Load
      <2>1. LoadStep
        BY <1>1 DEF Load
      <2>2. IsSynthetic(job)' = IsSynthetic(job)
        BY <2>1, JobStays DEF IsSynthetic
      <2>. QED BY <2>1, <2>2, FileLoads, SynthLoads DEF LoadInv
    <1>2. CASE ~Load
      <2>1. /\ UNCHANGED <<job, phase, wanted>>
            /\ \/ UNCHANGED loadVars
               \/ /\ phase = "ready" /\ IsSynthetic(job)
                  /\ buf' = buf \/ buf' \in Mixes(buf)
        <3>1. CASE UNCHANGED vars
          BY <3>1 DEF vars, loadVars
        <3>2. CASE Next
          BY <1>2, <3>2, ReplayLeaves DEF Next
        <3>. QED BY <3>1, <3>2
      <2>2. IsSynthetic(job)' = IsSynthetic(job)
        BY <2>1 DEF IsSynthetic
      <2>3. CASE ~IsSynthetic(job)
        BY <2>1, <2>2, <2>3, FileStays DEF LoadInv
      <2>4. CASE IsSynthetic(job)
        <3>1. SynthInv
          BY <2>4 DEF LoadInv
        <3>2. SynthBuf => SynthBuf'
          BY <2>1, SynthBufMixed DEF loadVars
        <3>3. SynthInv'
          BY <2>1, <3>1, <3>2 DEF SynthInv, loadVars
        <3>. QED BY <2>2, <2>4, <3>3 DEF LoadInv
      <2>. QED BY <2>3, <2>4
    <1>. QED BY <1>1, <1>2

\* A request that joins the trace of a file is apart from those before it.
LEMMA AppendApart ==
    ASSUME LoadInv, [Next]_vars, ~IsSynthetic(job), Len(buf') > Len(buf)
    PROVE  \A k \in WindowStart .. Len(buf) :
              Disjoint(buf'[Len(buf')], buf[k])
    <1>1. FileInv /\ buf \in Seq(Request) /\ Len(buf) \in Nat
      BY DEF LoadInv, FileInv, Typed
    <1>2. LoadStep
      <2>1. CASE UNCHANGED vars
        BY <1>1, <2>1 DEF vars, loadVars
      <2>2. CASE Next /\ ~Load
        <3>1. UNCHANGED loadVars
          BY <2>2, ReplayLeaves DEF Next
        <3>. QED BY <1>1, <3>1 DEF loadVars
      <2>. QED BY <2>1, <2>2 DEF Load
    <1>3. ~(Rejected \/ Crashed \/ Generate)
      BY <1>1 DEF FileInv, Typed, Rejected, Crashed, Generate
    <1>4. ~Merge
      <2>1. SUFFICES ASSUME Merge PROVE FALSE
        OBVIOUS
      <2>2. Len(buf') = Len(buf)
        BY <1>1, <2>1 DEF Merge
      <2>. QED BY <1>1, <2>2
    <1>5. buf' = buf \/ AppendRequest
      BY <1>2, <1>3, <1>4 DEF LoadStep, ReadLine, WrongLine, FileEnds,
         CutTail, Drop, CutHead, Apart
    <1>6. AppendRequest
      BY <1>1, <1>5
    <1>7. /\ phase = "scan" /\ at > Len(buf) /\ buf' = Append(buf, io)
          /\ at \in Nat
      BY <1>1, <1>6 DEF AppendRequest, FileInv, Typed
    <1>8. buf'[Len(buf')] = io
      BY <1>1, <1>7
    <1>9. WindowStart \in Nat
      BY <1>1, WindowStarts
    <1>. QED BY <1>1, <1>7, <1>8, <1>9 DEF FileInv, Scanned

-----------------------------------------------------------------------------
(* Theorems                                                                *)

\* What trace_loader has loaded is always typed, fits the buffer, is about
\* the sectors of the lines it has read, and the request in hand overlaps
\* none it was compared with.
THEOREM LoadInvariant == Spec => []LoadInv
    <1>. QED BY InitFile, LoadKeeps, PTL DEF Spec

\* trace_io_put adds only requests that overlap none that may be in flight
\* with them, whatever the lines, the window and the cuts before.
THEOREM LoadedDisjoint == Spec => AppendedDisjoint
    <1>1. LoadInv /\ [Next]_vars
          => [~IsSynthetic(job) /\ Len(buf') > Len(buf) =>
                 \A k \in WindowStart .. Len(buf) :
                    Disjoint(buf'[Len(buf')], buf[k])]_loadVars
      BY AppendApart
    <1>. QED BY <1>1, LoadInvariant, PTL DEF Spec, AppendedDisjoint

\* No sector of a trace file is lost by the cuts and merges of trace_io_put,
\* and none is invented.
THEOREM LoadedSectors == Spec => []SectorsKept
    <1>1. LoadInv => SectorsKept
      <2>1. SUFFICES ASSUME LoadInv, ~IsSynthetic(job),
                            phase \in {"fgets", "again", "ready"}
                     PROVE  /\ Held(buf) = ReadSectors
                            /\ Len(buf) <= size
        BY DEF SectorsKept, Held, ReadSectors
      <2>. QED BY <2>1 DEF LoadInv, FileInv, Roomy, Covering
    <1>. QED BY <1>1, LoadInvariant, PTL

\* The requests are typed wherever they come from.
LEMMA BufType == LoadInv => buf \in Seq(Request)
    <1>1. ASSUME NEW S PROVE <<>> \in Seq(S)
      OBVIOUS
    <1>. QED BY <1>1 DEF LoadInv, FileInv, Typed, SynthInv, SynthBuf

\* align_sector puts each request of a trace file or a synthetic workload
\* into the partition, for every partition, page and request size.
THEOREM RequestsInPartition == Spec => []InPartition
    <1>1. LoadInv => InPartition
      <2>1. SUFFICES ASSUME LoadInv, NEW k \in 1 .. Len(buf),
                            2 * Pages(buf[k]) <= TotalPages
                     PROVE  /\ AlignSector(buf[k]).page >= 0
                            /\ AlignSector(buf[k]).page + Pages(buf[k])
                                 <= TotalPages
        BY DEF InPartition
      <2>2. buf[k] \in Request
        BY <2>1, BufType
      <2>. QED BY <2>1, <2>2, Aligned
    <1>. QED BY <1>1, LoadInvariant, PTL

-----------------------------------------------------------------------------
(* The working set                                                         *)

LEMMA Product ==
    ASSUME NEW a \in Nat, NEW b \in Nat, NEW c \in Nat, a <= b
    PROVE  a * c \in Nat /\ a * c <= b * c /\ c * a <= c * b
    OBVIOUS

LEMMA Quotient ==
    ASSUME NEW a \in Nat, NEW b \in Nat \ {0}
    PROVE  /\ a \div b \in Nat /\ (a \div b) * b <= a
           /\ (a \div b) * b \in Nat
           /\ Quot(a, b) = a \div b
    BY DEF Quot

LEMMA Remainder ==
    ASSUME NEW a \in Nat, NEW b \in Nat \ {0}, a < b
    PROVE  a % b = a
    OBVIOUS

\* Without an overflow the pages are those of the whole MB, which are not
\* more than the configured ones.
LEMMA NoOverflow ==
    ASSUME job \in Jobs, job.wss * MegaKB < IntKB
    PROVE  /\ WorkingSetPages(job)
              = {WorkingSetMB(job) * (MegaKB \div PageKB)}
           /\ WorkingSetMB(job) * (MegaKB \div PageKB)
              <= job.wss * (MegaKB \div PageKB)
    <1>. DEFINE W == WorkingSetMB(job)
                q == MegaKB \div PageKB
                x == job.wss * MegaKB
                y == (x \div IoKB(job)) * IoKB(job)
    <1>1. /\ {PageKB, MegaKB, IntKB} \subseteq Nat \ {0}
          /\ MegaKB % PageKB = 0
          /\ job.wss \in Nat /\ IoKB(job) \in Nat \ {0} /\ W \in Nat
      BY ConstantsAssumption, SynthSizes
    <1>2. x \in Nat
      BY <1>1
    <1>3. y \in Nat /\ y <= x
      <2>. HIDE DEF x
      <2>. QED BY <1>1, <1>2, Quotient
    <1>4. W * MegaKB <= y
      <2>1. W = y \div MegaKB
        BY DEF WorkingSetMB
      <2>. HIDE DEF y, W
      <2>. QED BY <1>1, <1>3, <2>1, Quotient
    <1>5. W * MegaKB < IntKB /\ W * MegaKB \in Nat
      <2>1. W * MegaKB \in Nat
        BY <1>1
      <2>. HIDE DEF x, y, W
      <2>2. x < IntKB
        BY DEF x
      <2>. QED BY <1>1, <1>2, <1>3, <1>4, <2>1, <2>2
    <1>6. W <= job.wss
      <2>1. ASSUME W > job.wss PROVE FALSE
        <3>1. W >= job.wss + 1
          BY <1>1, <2>1
        <3>2. (job.wss + 1) * MegaKB <= W * MegaKB
          <4>. HIDE DEF W
          <4>1. job.wss + 1 \in Nat /\ W \in Nat /\ MegaKB \in Nat
            BY <1>1
          <4>. QED BY <3>1, <4>1, Product
        <3>3. (job.wss + 1) * MegaKB = x + MegaKB
          BY <1>1
        <3>. HIDE DEF x, y, W
        <3>. QED BY <1>1, <1>2, <1>3, <1>4, <1>5, <3>2, <3>3
      <2>. QED BY <1>1, <2>1
    <1>7. Wrap(W * MegaKB) = W * MegaKB
      <2>. DEFINE k == W * MegaKB
      <2>1. k \in Nat /\ k < IntKB
        BY <1>5
      <2>. HIDE DEF k
      <2>2. (k + IntKB) % (2 * IntKB) = k + IntKB
        <3>1. /\ k + IntKB \in Nat /\ 2 * IntKB \in Nat \ {0}
              /\ k + IntKB < 2 * IntKB
          BY <1>1, <2>1
        <3>. QED BY <3>1, Remainder
      <2>3. Wrap(k) = k
        BY <1>1, <2>1, <2>2 DEF Wrap
      <2>. QED BY <2>3 DEF k
    <1>8. MegaKB = q * PageKB /\ q \in Nat
      BY <1>1
    <1>9. Quot(W * MegaKB, PageKB) = W * q
      <2>. HIDE DEF W, q
      <2>1. W * MegaKB = (W * q) * PageKB /\ W * q \in Nat
        BY <1>1, <1>8
      <2>2. ((W * q) * PageKB) \div PageKB = W * q
        <3>1. \A m \in Nat, d \in Nat \ {0} : (m * d) \div d = m
          OBVIOUS
        <3>. QED BY <1>1, <2>1, <3>1
      <2>. QED BY <1>1, <1>5, <2>1, <2>2, Quotient
    <1>10. WorkingSetPages(job) = {W * q}
      BY <1>7, <1>9 DEF WorkingSetPages
    <1>11. W * q <= job.wss * q
      <2>. HIDE DEF W, q
      <2>. QED BY <1>1, <1>6, <1>8, Product
    <1>. QED BY <1>10, <1>11

\* The requests that are made are no more than the utilization, and their
\* pages are in the working set.
LEMMA SynthFits ==
    ASSUME job \in Jobs, NEW P \in Nat, Divides(job), Valid(job, P)
    PROVE  LET n == SynthCount(job, P)
               w == Quot(P, IoPages(job))
           IN  /\ n \in Nat /\ w \in Nat
               /\ n * Percent <= w * job.utilization
               /\ n * IoPages(job) * Percent <= P * job.utilization
               /\ n <= w /\ w * IoPages(job) <= P
    <1>. DEFINE io1 == IoPages(job)
                u == job.utilization
                w == Quot(P, io1)
                c == w \div Percent
                n == SynthCount(job, P)
    <1>1. /\ io1 \in Nat \ {0} /\ Percent \in Nat \ {0} /\ u \in 1 .. Percent
      BY SynthSizes, ConstantsAssumption DEF Divides, Valid
    <1>2. w \in Nat /\ w * io1 <= P
      <2>. HIDE DEF io1
      <2>. QED BY <1>1, Quotient
    <1>3. c \in Nat /\ c * Percent <= w /\ n = c * u
      <2>1. c \in Nat /\ c * Percent <= w /\ Quot(w, Percent) = c
        <3>. HIDE DEF w
        <3>. QED BY <1>1, <1>2, Quotient
      <2>2. n = Quot(w, Percent) * u
        BY DEF SynthCount
      <2>. QED BY <2>1, <2>2
    <1>. HIDE DEF io1, u, w, c, n
    <1>4. n \in Nat
      BY <1>1, <1>3
    <1>5. n * Percent <= w * u
      <2>1. n * Percent = (c * Percent) * u /\ c * Percent \in Nat /\ u \in Nat
        BY <1>1, <1>3
      <2>. QED BY <1>2, <1>3, <2>1, Product
    <1>6. n <= w
      <2>1. c * u <= c * Percent /\ c * Percent \in Nat
        <3>1. u \in Nat /\ Percent \in Nat /\ u <= Percent
          BY <1>1
        <3>. QED BY <1>3, <3>1, Product
      <2>. QED BY <1>2, <1>3, <1>4, <2>1
    <1>7. n * io1 * Percent <= P * u
      <2>1. n * io1 * Percent = (n * Percent) * io1
        BY <1>1, <1>4
      <2>2. (n * Percent) * io1 <= (w * u) * io1
        <3>1. n * Percent \in Nat /\ w * u \in Nat /\ io1 \in Nat
          BY <1>1, <1>2, <1>4
        <3>. QED BY <1>5, <3>1, Product
      <2>3. (w * u) * io1 = (w * io1) * u
        BY <1>1, <1>2
      <2>4. (w * io1) * u <= P * u
        <3>1. w * io1 \in Nat /\ u \in Nat
          BY <1>1, <1>2
        <3>. QED BY <1>2, <3>1, Product
      <2>5. /\ (n * Percent) * io1 \in Nat /\ (w * u) * io1 \in Nat
            /\ P * u \in Nat
        BY <1>1, <1>2, <1>4
      <2>. QED BY <2>1, <2>2, <2>3, <2>4, <2>5
    <1>. QED BY <1>2, <1>4, <1>5, <1>6, <1>7 DEF io1, u, w, n

\* Whatever the sizes, and however synthetic_mix has mixed them, the requests
\* of a synthetic workload are the first ones of its working set, each once,
\* and no more than its utilization, unless an int overflows.
THEOREM SynthRequestsFit == Spec => []SynthInWorkingSet
    <1>1. LoadInv => SynthInWorkingSet
      <2>1. SUFFICES ASSUME LoadInv, phase = "ready", IsSynthetic(job),
                            job.wss * MegaKB < IntKB
                     PROVE  SynthInWorkingSet
        BY DEF SynthInWorkingSet
      <2>. DEFINE P == WorkingSetMB(job) * (MegaKB \div PageKB)
                  most == job.wss * (MegaKB \div PageKB)
                  n == SynthCount(job, P)
                  io1 == IoPages(job)
                  u == job.utilization
      <2>2. job \in Jobs /\ SynthBuf
        BY <2>1 DEF LoadInv, SynthInv
      <2>3. /\ {PageKB, MegaKB, Spp, Percent, TotalPages} \subseteq Nat \ {0}
            /\ io1 \in Nat /\ u \in Nat /\ job.wss \in Nat
            /\ WorkingSetMB(job) \in Nat
        BY <2>2, ConstantsAssumption, SynthSizes
      <2>4. MegaKB \div PageKB \in Nat
        BY <2>3
      <2>5. P \in Nat /\ most \in Nat
        BY <2>3, <2>4
      <2>6. P <= most /\ WorkingSetPages(job) = {P}
        BY <2>1, <2>2, NoOverflow
      <2>7. /\ Valid(job, P) /\ Divides(job) /\ wanted = Quot(P, IoPages(job))
            /\ Len(buf) = n /\ buf \in Seq(Request) /\ Shaped(job, buf)
        <3>. HIDE DEF P
        <3>. QED BY <2>2, <2>6 DEF SynthBuf
      <2>. HIDE DEF P, most
      <2>8. /\ n \in Nat /\ wanted \in Nat /\ n * Percent <= wanted * u
            /\ n * io1 * Percent <= P * u
            /\ n <= wanted /\ wanted * io1 <= P
        BY <2>2, <2>5, <2>7, SynthFits
      <2>9. P < TotalPages
        BY <2>7 DEF Valid
      <2>. HIDE DEF n, io1, u
      <2>10. n * io1 * Percent <= most * u
        <3>1. P * u <= most * u
          BY <2>3, <2>5, <2>6, Product
        <3>2. n * io1 * Percent \in Nat /\ P * u \in Nat /\ most * u \in Nat
          BY <2>3, <2>5, <2>8
        <3>. QED BY <2>8, <3>1, <3>2
      <2>11. ASSUME NEW k \in 1 .. n
             PROVE  End(buf[k]) <= most * Spp /\ End(buf[k]) < TotalPages * Spp
        <3>1. /\ buf[k].bcount = io1 * Spp
              /\ \E i \in 0 .. n - 1 : buf[k].blkno = i * io1 * Spp
          BY <2>7 DEF Shaped, io1
        <3>2. PICK i \in 0 .. n - 1 : buf[k].blkno = i * io1 * Spp
          BY <3>1
        <3>3. End(buf[k]) = ((i + 1) * io1) * Spp
          <4>1. i * io1 * Spp + io1 * Spp = ((i + 1) * io1) * Spp
            BY <2>3, <2>8, <3>2
          <4>. QED BY <3>1, <3>2, <4>1 DEF End
        <3>4. (i + 1) * io1 <= wanted * io1
          <4>1. i + 1 \in Nat /\ i + 1 <= wanted
            BY <2>8, <3>2
          <4>. QED BY <2>3, <2>8, <4>1, Product
        <3>5. (i + 1) * io1 \in Nat /\ (i + 1) * io1 <= P
          <4>1. (i + 1) * io1 \in Nat /\ wanted * io1 \in Nat
            BY <2>3, <2>8, <3>2
          <4>. QED BY <2>5, <2>8, <3>4, <4>1
        <3>6. /\ ((i + 1) * io1) * Spp <= P * Spp
              /\ ((i + 1) * io1) * Spp \in Nat
          BY <2>3, <2>5, <3>5, Product
        <3>7. P * Spp <= most * Spp /\ P * Spp \in Nat /\ most * Spp \in Nat
          BY <2>3, <2>5, <2>6, Product
        <3>8. P * Spp < TotalPages * Spp /\ TotalPages * Spp \in Nat
          <4>1. (P + 1) * Spp <= TotalPages * Spp
            <5>1. P + 1 \in Nat /\ TotalPages \in Nat /\ P + 1 <= TotalPages
              BY <2>3, <2>5, <2>9
            <5>. QED BY <2>3, <5>1, Product
          <4>2. (P + 1) * Spp = P * Spp + Spp /\ TotalPages * Spp \in Nat
            BY <2>3, <2>5
          <4>. QED BY <2>3, <3>7, <4>1, <4>2
        <3>. QED BY <3>3, <3>6, <3>7, <3>8
      <2>. QED BY <2>7, <2>8, <2>10, <2>11
               DEF SynthInWorkingSet, Shaped, n, io1, u, most
    <1>. QED BY <1>1, LoadInvariant, PTL
=============================================================================
