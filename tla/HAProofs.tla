------------------------------ MODULE HAProofs ------------------------------
(***************************************************************************)
(* Hot standby for every number of calls, every batch size and every number*)
(* of faults: its types; that what the standby has run is a prefix of the  *)
(* primary's log; that an acknowledgement never runs ahead of it; and that *)
(* the two nodes implement the replicated storage.                         *)
(***************************************************************************)
EXTENDS HAStandby, SequenceTheorems, WellFoundedInduction, TLAPS

-----------------------------------------------------------------------------
(***************************************************************************)
(* Types, whatever may happen.                                             *)
(***************************************************************************)
\* Messages that speak of the first n records of the log.
ToStandby(n) == {Fenced} \cup {Batch(e) : e \in Seq(1 .. n)}
ToPrimary(n) == {Fence} \cup {Acked(p) : p \in 0 .. n}

AdapterTypes ==
    /\ pc \in [Client -> {"idle", "queued", "direct", "applied", "failed", "waiting", "done"}]
    /\ queue \in Seq(Client) /\ log \in Seq(Client)
    /\ posCh \in [Client -> 0 .. Len(log)]
    /\ walPosition \in 0 .. Len(log)
    /\ memWAL \in Seq(1 .. Len(log)) /\ unpublished \in Seq(1 .. Len(log))

NodeTypes ==
    /\ isPrimary \in BOOLEAN /\ alive \in BOOLEAN /\ promoted \in BOOLEAN /\ healthy \in BOOLEAN
    /\ target \in [Client -> 0 .. Len(log)]
    /\ lastAcked \in 0 .. Len(log) /\ lastApplied \in 0 .. Len(log)
    /\ applied \in Seq(Client)
    /\ failover \in {"none", "fence", "fencing", "promote"}
    /\ faults \in 0 .. MaxFaults

NetTypes ==
    /\ conn \in BOOLEAN /\ beatStuck \in BOOLEAN
    /\ pending \in SUBSET Sender
    /\ toStandby \in Seq(ToStandby(Len(log))) /\ toPrimary \in Seq(ToPrimary(Len(log)))

TypeInv == AdapterTypes /\ NodeTypes /\ NetTypes

-----------------------------------------------------------------------------
(***************************************************************************)
(* The end of the log in memory, when every entry comes in turn.           *)
(***************************************************************************)
Sorted(mem) == \A i, j \in 1 .. Len(mem) : i <= j => mem[i] <= mem[j]

\* A process that does not run holds nothing.
DeadInv ==
    ~alive => /\ queue = <<>> /\ memWAL = <<>> /\ unpublished = <<>>
              /\ \A c \in Client : posCh[c] = 0 /\ pc[c] \notin {"queued", "direct"}

\* The writer holds a run of consecutive positions, none of them a caller's.
OwedInv ==
    /\ \A i \in 1 .. Len(unpublished) : unpublished[i] = unpublished[1] + (i - 1)
    /\ \A c \in Client : pc[c] = "direct" =>
          posCh[c] > 0 /\ \A i \in 1 .. Len(unpublished) : unpublished[i] # posCh[c]

\* Positions the process holds, or may put in memory again.
Held == Range(memWAL) \cup Range(unpublished) \cup ({posCh[c] : c \in Client} \ {0})

\* Memory is in order; what comes is not below it; and after a position that is
\* held, every later one is in memory, on its way, or acknowledged.
MemInv ==
    /\ Sorted(memWAL)
    /\ \A q \in Owed : \A i \in 1 .. Len(memWAL) : memWAL[i] <= q
    /\ \A p \in Held : \A q \in 1 .. Len(log) :
          p < q => q \in Range(memWAL) \/ q \in Owed \/ q <= lastAcked

-----------------------------------------------------------------------------
(***************************************************************************)
(* What the standby ran.                                                   *)
(***************************************************************************)
\* The standby restarted when all it had applied was acknowledged, and has not
\* run anything since: no fault is left.
Forgot ==
    /\ lastApplied = 0 /\ alive
    /\ faults = MaxFaults /\ lastAcked = Len(applied)

\* A batch starts no later than behind what is applied, and has no gap.
Gapless(e, n) ==
    /\ \A i \in 1 .. Len(e) : i = 1 => e[i] <= n + 1
    /\ \A i \in 1 .. Len(e) - 1 : e[i + 1] <= e[i] + 1

Beyond(e, n) == \A i \in 1 .. Len(e) : e[i] > n

StreamInv ==
    /\ Len(applied) <= Len(log)
    /\ \A i \in 1 .. Len(applied) : applied[i] = log[i]
    /\ lastAcked <= Len(applied)
    /\ lastApplied = Len(applied) \/ Forgot
    /\ \A m \in Range(toPrimary) : m.kind = "acked" => m.pos <= Len(applied)
    /\ \A m \in Range(toStandby) : m.kind = "batch" =>
          /\ Gapless(m.entries, Len(applied))
          /\ lastApplied # Len(applied) => Beyond(m.entries, Len(applied))

-----------------------------------------------------------------------------
(***************************************************************************)
(* Bisection.                                                              *)
(***************************************************************************)
\* A set of naturals that has 0, and every successor of its members, has all.
LEMMA NatsInSet ==
    ASSUME NEW S, 0 \in S, \A k \in Nat : k \in S => k + 1 \in S
    PROVE  \A k \in Nat : k \in S
<1> SUFFICES ASSUME NEW k \in Nat, k \notin S PROVE FALSE
  OBVIOUS
<1> DEFINE Less == OpToRel(<, Nat)
<1> DEFINE T == Nat \ S
<1>1. PICK x \in T : \A y \in T : ~(<<y, x>> \in Less)
  <2>1. IsWellFoundedOn(Less, Nat) /\ T # {} /\ T \subseteq Nat
    BY NatLessThanWellFounded
  <2> HIDE DEF Less, T
  <2> QED
    BY <2>1, WFMin
<1>2. x \in Nat /\ x # 0 /\ x \notin S
  BY <1>1
<1>3. x - 1 \in Nat /\ x - 1 < x /\ (x - 1) + 1 = x
  BY <1>2
<1>4. x - 1 \in S
  <2> SUFFICES ASSUME x - 1 \notin S PROVE FALSE
    OBVIOUS
  <2>1. x - 1 \in T
    BY <1>3
  <2>2. <<x - 1, x>> \in Less
    BY <1>2, <1>3 DEF OpToRel
  <2> HIDE DEF Less, T
  <2> QED
    BY <1>1, <2>1, <2>2
<1> QED
  BY <1>2, <1>3, <1>4

\* What the bisection of window w finds, when g has that of smaller ones.
BisectStep(g, mem, pos, w) ==
    IF w[1] >= w[2] THEN w[1]
    ELSE IF mem[Middle(w) + 1] <= pos THEN g[<<Middle(w) + 1, w[2]>>]
    ELSE g[<<w[1], Middle(w)>>]

Bisects(g, mem, pos) == g = [w \in Window(mem) |-> BisectStep(g, mem, pos, w)]

\* The two halves of a window are smaller.
LEMMA Halves ==
    ASSUME NEW mem, Len(mem) \in Nat, NEW w \in Window(mem), w[1] < w[2]
    PROVE  /\ Middle(w) \in Nat /\ w[1] <= Middle(w) /\ Middle(w) < w[2]
           /\ <<Middle(w) + 1, w[2]>> \in Window(mem) /\ <<w[1], Middle(w)>> \in Window(mem)
BY DEF Window, Middle

\* The bisection is well defined.
LEMMA BisectExists ==
    ASSUME NEW mem, NEW pos, Len(mem) \in Nat
    PROVE  \E g : Bisects(g, mem, pos)
<1> DEFINE Good(g, k) == \A w \in Window(mem) : w[2] - w[1] <= k => g[w] = BisectStep(g, mem, pos, w)
<1> DEFINE S == {k \in Nat : \E g : Good(g, k)}
<1>0. \A w \in Window(mem) : w[1] \in 0 .. Len(mem) /\ w[2] \in 0 .. Len(mem)
  BY DEF Window
<1>1. 0 \in S
  <2> DEFINE g0 == [w \in Window(mem) |-> w[1]]
  <2>1. Good(g0, 0)
    BY <1>0 DEF BisectStep
  <2> QED
    BY <2>1
<1>2. ASSUME NEW k \in Nat, k \in S PROVE k + 1 \in S
  <2>1. PICK g : Good(g, k)
    BY <1>2
  <2> DEFINE h == [w \in Window(mem) |-> IF w[2] - w[1] <= k THEN g[w] ELSE BisectStep(g, mem, pos, w)]
  <2>2. \A w \in Window(mem) : h[w] = BisectStep(g, mem, pos, w)
    BY <2>1
  <2>3. \A w \in Window(mem) : w[2] - w[1] <= k => h[w] = g[w]
    OBVIOUS
  <2> HIDE DEF h
  <2>4. ASSUME NEW w \in Window(mem), w[2] - w[1] <= k + 1 PROVE h[w] = BisectStep(h, mem, pos, w)
    <3>1. CASE w[1] >= w[2]
      BY <2>2, <3>1 DEF BisectStep
    <3>2. CASE w[1] < w[2]
      <4> DEFINE u == <<Middle(w) + 1, w[2]>>
                 v == <<w[1], Middle(w)>>
      <4>1. /\ Middle(w) \in Nat /\ w[1] <= Middle(w) /\ Middle(w) < w[2]
            /\ u \in Window(mem) /\ v \in Window(mem)
        BY <3>2, Halves
      <4>2. w[1] \in Nat /\ w[2] \in Nat
        BY <1>0
      <4>3. u[2] - u[1] <= k /\ v[2] - v[1] <= k
        BY <4>1, <4>2, <2>4
      <4> HIDE DEF u, v
      <4>4. h[u] = g[u] /\ h[v] = g[v]
        BY <4>1, <4>3, <2>3
      <4>5. BisectStep(h, mem, pos, w) = BisectStep(g, mem, pos, w)
        BY <4>4 DEF BisectStep, u, v
      <4> QED
        BY <2>2, <4>5
    <3> QED
      BY <1>0, <3>1, <3>2
  <2>5. Good(h, k + 1)
    BY <2>4
  <2> QED
    BY <2>5
<1>3. Len(mem) \in S
  <2> HIDE DEF S
  <2> QED
    BY <1>1, <1>2, NatsInSet
<1>4. PICK g : Good(g, Len(mem))
  BY <1>3
<1>5. \A w \in Window(mem) : g[w] = BisectStep(g, mem, pos, w)
  BY <1>0, <1>4
<1> DEFINE f == [w \in Window(mem) |-> BisectStep(g, mem, pos, w)]
<1>6. \A w \in Window(mem) : f[w] = g[w]
  BY <1>5
<1>7. ASSUME NEW w \in Window(mem) PROVE BisectStep(f, mem, pos, w) = BisectStep(g, mem, pos, w)
  <2> HIDE DEF f
  <2>1. CASE w[1] >= w[2]
    BY <2>1 DEF BisectStep
  <2>2. CASE w[1] < w[2]
    <3>1. <<Middle(w) + 1, w[2]>> \in Window(mem) /\ <<w[1], Middle(w)>> \in Window(mem)
      BY <2>2, Halves
    <3> QED
      BY <3>1, <1>6 DEF BisectStep
  <2> QED
    BY <1>0, <2>1, <2>2
<1>8. Bisects(f, mem, pos)
  BY <1>7 DEF Bisects
<1> QED
  BY <1>8

\* What it finds in a window: a place in it, and in a memory that is in order the
\* one that parts the entries up to pos from those above.
LEMMA BisectFinds ==
    ASSUME NEW mem, NEW pos, Len(mem) \in Nat, NEW f, Bisects(f, mem, pos)
    PROVE  \A w \in Window(mem) : w[1] <= w[2] =>
              /\ f[w] \in w[1] .. w[2]
              /\ pos \in Nat /\ mem \in Seq(Nat) /\ Sorted(mem) =>
                    /\ \A i \in 1 .. Len(mem) : i > w[1] /\ i <= f[w] => mem[i] <= pos
                    /\ \A i \in 1 .. Len(mem) : i > f[w] /\ i <= w[2] => mem[i] > pos
<1> DEFINE Ordered == pos \in Nat /\ mem \in Seq(Nat) /\ Sorted(mem)
<1> DEFINE Found(w) ==
      /\ f[w] \in w[1] .. w[2]
      /\ Ordered =>
            /\ \A i \in 1 .. Len(mem) : i > w[1] /\ i <= f[w] => mem[i] <= pos
            /\ \A i \in 1 .. Len(mem) : i > f[w] /\ i <= w[2] => mem[i] > pos
<1> DEFINE S == {k \in Nat : \A w \in Window(mem) : w[1] <= w[2] /\ w[2] - w[1] <= k => Found(w)}
<1>0. \A w \in Window(mem) : w[1] \in 0 .. Len(mem) /\ w[2] \in 0 .. Len(mem)
  BY DEF Window
<1>1. \A w \in Window(mem) : f[w] = BisectStep(f, mem, pos, w)
  BY DEF Bisects
<1>2. 0 \in S
  <2>1. ASSUME NEW w \in Window(mem), w[1] <= w[2], w[2] - w[1] <= 0 PROVE Found(w)
    <3>1. w[1] = w[2] /\ w[1] \in Nat /\ w[1] >= w[2]
      BY <1>0, <2>1
    <3>2. f[w] = w[1]
      BY <1>1, <3>1 DEF BisectStep
    <3> QED
      BY <3>1, <3>2
  <2> QED
    BY <2>1
<1>3. ASSUME NEW k \in Nat, k \in S PROVE k + 1 \in S
  <2>1. ASSUME NEW w \in Window(mem), w[1] <= w[2], w[2] - w[1] <= k + 1 PROVE Found(w)
    <3>1. CASE w[1] = w[2]
      <4>1. w[1] \in Nat /\ w[1] >= w[2]
        BY <1>0, <3>1
      <4>2. f[w] = w[1]
        BY <1>1, <4>1 DEF BisectStep
      <4> QED
        BY <3>1, <4>1, <4>2
    <3>2. CASE w[1] < w[2]
      <4> DEFINE m == Middle(w)
                 u == <<m + 1, w[2]>>
                 v == <<w[1], m>>
      <4>1. /\ m \in Nat /\ w[1] <= m /\ m < w[2]
            /\ u \in Window(mem) /\ v \in Window(mem)
        BY <3>2, Halves
      <4>2. w[1] \in Nat /\ w[2] \in Nat /\ w[2] <= Len(mem)
        BY <1>0
      <4>3. u[1] = m + 1 /\ u[2] = w[2] /\ v[1] = w[1] /\ v[2] = m
        OBVIOUS
      <4>4. f[w] = IF mem[m + 1] <= pos THEN f[u] ELSE f[v]
        BY <1>1, <3>2, <4>2 DEF BisectStep
      <4> HIDE DEF m, u, v, Found
      <4>5. Found(u) /\ Found(v)
        <5>1. u[1] <= u[2] /\ u[2] - u[1] <= k /\ v[1] <= v[2] /\ v[2] - v[1] <= k
          BY <2>1, <4>1, <4>2, <4>3
        <5>2. \A x \in Window(mem) : x[1] <= x[2] /\ x[2] - x[1] <= k => Found(x)
          BY <1>3
        <5> QED
          BY <4>1, <5>1, <5>2, Zenon
      <4>6. ASSUME Ordered
            PROVE  /\ m + 1 \in 1 .. Len(mem) /\ mem[m + 1] \in Nat
                   /\ mem[m + 1] <= pos => \A i \in 1 .. Len(mem) : i <= m + 1 => mem[i] <= pos
                   /\ mem[m + 1] > pos => \A i \in 1 .. Len(mem) : i > m => mem[i] > pos
                   /\ \A i \in 1 .. Len(mem) : mem[i] \in Nat
        <5>1. m + 1 \in 1 .. Len(mem)
          BY <4>1, <4>2
        <5>2. \A i \in 1 .. Len(mem) : mem[i] \in Nat
          BY <4>6
        <5>3. \A i \in 1 .. Len(mem) : i <= m + 1 => mem[i] <= mem[m + 1]
          BY <4>6, <5>1 DEF Sorted
        <5>4. \A i \in 1 .. Len(mem) : i > m => mem[m + 1] <= mem[i]
          BY <4>1, <4>6, <5>1 DEF Sorted
        <5> QED
          BY <4>6, <5>1, <5>2, <5>3, <5>4
      <4>7. CASE mem[m + 1] <= pos
        <5>1. f[w] = f[u]
          BY <4>4, <4>7
        <5>2. f[u] \in m + 1 .. w[2]
          BY <4>5, <4>3 DEF Found
        <5>3. f[w] \in w[1] .. w[2]
          BY <5>1, <5>2, <4>1, <4>2
        <5>4. ASSUME Ordered
              PROVE  /\ \A i \in 1 .. Len(mem) : i > w[1] /\ i <= f[w] => mem[i] <= pos
                     /\ \A i \in 1 .. Len(mem) : i > f[w] /\ i <= w[2] => mem[i] > pos
          <6>1. /\ \A i \in 1 .. Len(mem) : i > m + 1 /\ i <= f[u] => mem[i] <= pos
                /\ \A i \in 1 .. Len(mem) : i > f[u] /\ i <= w[2] => mem[i] > pos
            BY <4>5, <4>3, <5>4 DEF Found
          <6>2. \A i \in 1 .. Len(mem) : i <= m + 1 => mem[i] <= pos
            BY <4>6, <4>7, <5>4
          <6> QED
            BY <6>1, <6>2, <5>1, <4>1
        <5> QED
          BY <5>3, <5>4 DEF Found
      <4>8. CASE ~(mem[m + 1] <= pos)
        <5>1. f[w] = f[v]
          BY <4>4, <4>8
        <5>2. f[v] \in w[1] .. m
          BY <4>5, <4>3 DEF Found
        <5>3. f[w] \in w[1] .. w[2]
          BY <5>1, <5>2, <4>1, <4>2
        <5>4. ASSUME Ordered
              PROVE  /\ \A i \in 1 .. Len(mem) : i > w[1] /\ i <= f[w] => mem[i] <= pos
                     /\ \A i \in 1 .. Len(mem) : i > f[w] /\ i <= w[2] => mem[i] > pos
          <6>1. /\ \A i \in 1 .. Len(mem) : i > w[1] /\ i <= f[v] => mem[i] <= pos
                /\ \A i \in 1 .. Len(mem) : i > f[v] /\ i <= m => mem[i] > pos
            BY <4>5, <4>3, <5>4 DEF Found
          <6>2. \A i \in 1 .. Len(mem) : i > m => mem[i] > pos
            BY <4>6, <4>8, <5>4
          <6> QED
            BY <6>1, <6>2, <5>1, <4>1
        <5> QED
          BY <5>3, <5>4 DEF Found
      <4> QED
        BY <4>7, <4>8
    <3> QED
      BY <1>0, <2>1, <3>1, <3>2
  <2> QED
    BY <2>1
<1>4. Len(mem) \in S
  <2> HIDE DEF S
  <2> QED
    BY <1>2, <1>3, NatsInSet
<1> HIDE DEF Found
<1>5. \A w \in Window(mem) : w[1] <= w[2] => Found(w)
  BY <1>0, <1>4
<1> QED
  BY <1>5 DEF Found

\* The first entry above a position.
LEMMA FirstAboveFinds ==
    ASSUME NEW mem \in Seq(Nat), NEW pos \in Nat
    PROVE  /\ FirstAbove(mem, pos) \in 0 .. Len(mem)
           /\ Sorted(mem) =>
                 /\ \A i \in 1 .. Len(mem) : i <= FirstAbove(mem, pos) => mem[i] <= pos
                 /\ \A i \in 1 .. Len(mem) : i > FirstAbove(mem, pos) => mem[i] > pos
<1> DEFINE f == CHOOSE g : Bisects(g, mem, pos)
           w == <<0, Len(mem)>>
<1>1. FirstAbove(mem, pos) = f[w]
  BY DEF FirstAbove, Bisects, BisectStep
<1>2. Bisects(f, mem, pos) /\ Len(mem) \in Nat
  <2>1. Len(mem) \in Nat
    OBVIOUS
  <2>2. \E g : Bisects(g, mem, pos)
    BY <2>1, BisectExists
  <2> QED
    BY <2>1, <2>2
<1>3. w \in Window(mem) /\ w[1] = 0 /\ w[2] = Len(mem) /\ 0 <= Len(mem)
  BY <1>2 DEF Window
<1> HIDE DEF f, w
<1>4. /\ f[w] \in w[1] .. w[2]
      /\ Sorted(mem) =>
            /\ \A i \in 1 .. Len(mem) : i > w[1] /\ i <= f[w] => mem[i] <= pos
            /\ \A i \in 1 .. Len(mem) : i > f[w] /\ i <= w[2] => mem[i] > pos
  BY <1>2, <1>3, BisectFinds
<1> QED
  BY <1>1, <1>3, <1>4

-----------------------------------------------------------------------------
(***************************************************************************)
(* What a batch makes the standby run.                                     *)
(***************************************************************************)
Runs(n) == [last : 0 .. n, ran : Seq(1 .. n), failed : BOOLEAN]

RunStep(g, e, i) == IF i = 0 THEN NothingRun ELSE ApplyEntry(g[i - 1], e[i])

RunsThrough(g, e) == g = [i \in 0 .. Len(e) |-> RunStep(g, e, i)]

\* One after the other.
LEMMA BatchSteps ==
    ASSUME NEW e, Len(e) \in Nat
    PROVE  \E g : /\ g[0] = NothingRun
                  /\ \A i \in 1 .. Len(e) : g[i] = ApplyEntry(g[i - 1], e[i])
                  /\ ApplyBatch(e) = g[Len(e)]
<1> DEFINE Good(g, k) == \A i \in 0 .. Len(e) : i <= k => g[i] = RunStep(g, e, i)
<1> DEFINE S == {k \in Nat : \E g : Good(g, k)}
<1>1. 0 \in S
  <2> DEFINE g0 == [i \in 0 .. Len(e) |-> NothingRun]
  <2>1. Good(g0, 0)
    BY DEF RunStep
  <2> QED
    BY <2>1
<1>2. ASSUME NEW k \in Nat, k \in S PROVE k + 1 \in S
  <2>1. PICK g : Good(g, k)
    BY <1>2
  <2> DEFINE h == [i \in 0 .. Len(e) |-> IF i <= k THEN g[i] ELSE RunStep(g, e, i)]
  <2>2. \A i \in 0 .. Len(e) : h[i] = RunStep(g, e, i)
    BY <2>1
  <2>3. \A i \in 0 .. Len(e) : i <= k => h[i] = g[i]
    OBVIOUS
  <2> HIDE DEF h
  <2>4. ASSUME NEW i \in 0 .. Len(e), i <= k + 1 PROVE h[i] = RunStep(h, e, i)
    <3>1. CASE i = 0
      BY <2>2, <3>1 DEF RunStep
    <3>2. CASE i # 0
      <4>1. i - 1 \in 0 .. Len(e) /\ i - 1 <= k
        BY <2>4, <3>2
      <4>2. h[i - 1] = g[i - 1]
        BY <2>3, <4>1
      <4> QED
        BY <2>2, <4>2 DEF RunStep
    <3> QED
      BY <3>1, <3>2
  <2>5. Good(h, k + 1)
    BY <2>4
  <2> QED
    BY <2>5
<1>3. Len(e) \in S
  <2> HIDE DEF S
  <2> QED
    BY <1>1, <1>2, NatsInSet
<1>4. PICK g : Good(g, Len(e))
  BY <1>3
<1> DEFINE f == [i \in 0 .. Len(e) |-> RunStep(g, e, i)]
<1>5. \A i \in 0 .. Len(e) : f[i] = g[i]
  BY <1>4
<1>6. ASSUME NEW i \in 0 .. Len(e) PROVE RunStep(f, e, i) = RunStep(g, e, i)
  <2> HIDE DEF f
  <2>1. CASE i = 0
    BY <2>1 DEF RunStep
  <2>2. CASE i # 0
    <3>1. i - 1 \in 0 .. Len(e)
      BY <2>2
    <3> QED
      BY <3>1, <1>5 DEF RunStep
  <2> QED
    BY <2>1, <2>2
<1>7. RunsThrough(f, e)
  BY <1>6 DEF RunsThrough
<1> DEFINE c == CHOOSE x : RunsThrough(x, e)
<1>8. RunsThrough(c, e)
  <2> HIDE DEF f
  <2> QED
    BY <1>7
<1>9. ApplyBatch(e) = c[Len(e)]
  BY DEF ApplyBatch, RunsThrough, RunStep
<1> HIDE DEF c
<1>10. \A i \in 0 .. Len(e) : c[i] = RunStep(c, e, i)
  BY <1>8 DEF RunsThrough
<1>11. c[0] = NothingRun
  BY <1>10 DEF RunStep
<1>12. \A i \in 1 .. Len(e) : c[i] = ApplyEntry(c[i - 1], e[i])
  BY <1>10 DEF RunStep
<1> QED
  BY <1>9, <1>11, <1>12

\* An entry is passed over, is refused, or runs.
LEMMA EntryCases ==
    ASSUME NEW n \in Nat, NEW seen \in Runs(n), NEW p \in 1 .. n
    PROVE  /\ ApplyEntry(seen, p) \in Runs(n)
           /\ \/ p <= seen.last /\ ApplyEntry(seen, p) = seen
              \/ /\ p > seen.last
                 /\ ApplyEntry(seen, p).last = seen.last /\ ApplyEntry(seen, p).ran = seen.ran
                 /\ ApplyEntry(seen, p).failed
              \/ /\ p > seen.last /\ ~seen.failed
                 /\ ApplyEntry(seen, p).last = p /\ ApplyEntry(seen, p).ran = Append(seen.ran, p)
                 /\ ~ApplyEntry(seen, p).failed
<1>1. seen.last \in 0 .. n /\ seen.ran \in Seq(1 .. n) /\ seen.failed \in BOOLEAN
  BY DEF Runs
<1>2. CASE p <= seen.last
  BY <1>2 DEF ApplyEntry
<1>3. CASE ~(p <= seen.last) /\ (seen.failed \/ log[p] \in Failing)
  <2> DEFINE r == [seen EXCEPT !.failed = TRUE]
  <2>1. ApplyEntry(seen, p) = r
    BY <1>3 DEF ApplyEntry
  <2>2. r \in Runs(n) /\ r.last = seen.last /\ r.ran = seen.ran /\ r.failed
    BY <1>1 DEF Runs
  <2>3. p > seen.last
    BY <1>1, <1>3
  <2> HIDE DEF r
  <2> QED
    BY <2>1, <2>2, <2>3
<1>4. CASE ~(p <= seen.last) /\ ~(seen.failed \/ log[p] \in Failing)
  <2> DEFINE q == Append(seen.ran, p)
             r == [seen EXCEPT !.last = p, !.ran = q]
  <2>1. ApplyEntry(seen, p) = r
    BY <1>4 DEF ApplyEntry
  <2>2. q \in Seq(1 .. n)
    BY <1>1
  <2> HIDE DEF q
  <2>3. r.last = p /\ r.ran = q /\ r.failed = seen.failed
    BY DEF Runs
  <2>4. r \in Runs(n)
    <3> DEFINE P == 0 .. n
               Q == Seq(1 .. n)
    <3>1. seen \in [last : P, ran : Q, failed : BOOLEAN] /\ p \in P /\ q \in Q
      BY <2>2 DEF Runs
    <3> HIDE DEF P, Q
    <3>2. r \in [last : P, ran : Q, failed : BOOLEAN]
      BY <3>1
    <3> QED
      BY <3>2 DEF Runs, P, Q
  <2>5. p > seen.last /\ ~seen.failed
    BY <1>1, <1>4
  <2> HIDE DEF r
  <2> QED
    BY <2>1, <2>3, <2>4, <2>5 DEF q
<1> QED
  BY <1>2, <1>3, <1>4

\* A sequence with one element more.
LEMMA Appended ==
    ASSUME NEW S, NEW s \in Seq(S), NEW x \in S
    PROVE  /\ Append(s, x) \in Seq(S) /\ Append(s, x) # <<>> /\ Len(Append(s, x)) = Len(s) + 1
           /\ \A j \in 1 .. Len(s) + 1 : Append(s, x)[j] = IF j = Len(s) + 1 THEN x ELSE s[j]
<1>1. /\ Append(s, x) \in Seq(S) /\ Append(s, x) # <<>> /\ Len(Append(s, x)) = Len(s) + 1
      /\ \A j \in 1 .. Len(s) : Append(s, x)[j] = s[j]
      /\ Append(s, x)[Len(s) + 1] = x
  BY AppendProperties
<1>2. \A j \in 1 .. Len(s) + 1 : j \in 1 .. Len(s) \/ j = Len(s) + 1
  OBVIOUS
<1>3. \A j \in 1 .. Len(s) : j # Len(s) + 1
  OBVIOUS
<1> QED
  BY <1>1, <1>2, <1>3

\* A batch of entries of the log runs some of them.
LEMMA BatchType ==
    ASSUME NEW n \in Nat, lastApplied \in 0 .. n, NEW e \in Seq(1 .. n)
    PROVE  ApplyBatch(e) \in Runs(n)
<1>1. Len(e) \in Nat /\ \A i \in 1 .. Len(e) : e[i] \in 1 .. n
  OBVIOUS
<1>2. PICK g : /\ g[0] = NothingRun
               /\ \A i \in 1 .. Len(e) : g[i] = ApplyEntry(g[i - 1], e[i])
               /\ ApplyBatch(e) = g[Len(e)]
  BY <1>1, BatchSteps
<1> DEFINE S == {k \in Nat : k <= Len(e) => g[k] \in Runs(n)}
<1>3. 0 \in S
  <2>1. g[0] \in Runs(n)
    BY <1>2 DEF NothingRun, Runs
  <2> HIDE DEF Runs
  <2> QED
    BY <2>1
<1>4. ASSUME NEW k \in Nat, k \in S PROVE k + 1 \in S
  <2> SUFFICES ASSUME k + 1 <= Len(e) PROVE g[k + 1] \in Runs(n)
    OBVIOUS
  <2>1. k + 1 \in 1 .. Len(e) /\ (k + 1) - 1 = k
    BY <1>1
  <2>2. g[k] \in Runs(n) /\ e[k + 1] \in 1 .. n
    BY <1>1, <1>4, <2>1
  <2>3. g[k + 1] = ApplyEntry(g[k], e[k + 1])
    BY <1>2, <2>1
  <2> QED
    BY <2>2, <2>3, EntryCases
<1> HIDE DEF S
<1>5. Len(e) \in S
  BY <1>1, <1>3, <1>4, NatsInSet
<1> QED
  BY <1>1, <1>2, <1>5 DEF S

\* A batch without a gap runs what follows on what was applied.
LEMMA BatchRuns ==
    ASSUME NEW n \in Nat, lastApplied \in 0 .. n, NEW e \in Seq(1 .. n), NEW m \in Nat,
           Gapless(e, m), lastApplied = m \/ (lastApplied = 0 /\ Beyond(e, m))
    PROVE  LET r == ApplyBatch(e)
           IN  /\ r.last = IF r.ran = <<>> THEN lastApplied ELSE m + Len(r.ran)
               /\ \A j \in 1 .. Len(r.ran) : r.ran[j] = m + j
<1>1. Len(e) \in Nat /\ \A i \in 1 .. Len(e) : e[i] \in 1 .. n
  OBVIOUS
<1>2. PICK g : /\ g[0] = NothingRun
               /\ \A i \in 1 .. Len(e) : g[i] = ApplyEntry(g[i - 1], e[i])
               /\ ApplyBatch(e) = g[Len(e)]
  BY <1>1, BatchSteps
<1> DEFINE Follows(r) == /\ r.last = IF r.ran = <<>> THEN lastApplied ELSE m + Len(r.ran)
                         /\ \A j \in 1 .. Len(r.ran) : r.ran[j] = m + j
<1> DEFINE Up(k) == /\ g[k] \in Runs(n) /\ Follows(g[k])
                    /\ k > 0 /\ ~g[k].failed => e[k] <= g[k].last
<1> DEFINE S == {k \in Nat : k <= Len(e) => Up(k)}
<1>3. 0 \in S
  <2>1. g[0].last = lastApplied /\ g[0].ran = <<>> /\ g[0] \in Runs(n)
    BY <1>2 DEF NothingRun, Runs
  <2>2. Follows(g[0])
    BY <2>1
  <2> HIDE DEF Follows
  <2>3. Up(0)
    BY <2>1, <2>2
  <2> HIDE DEF Up
  <2> QED
    BY <2>3
<1>4. ASSUME NEW k \in Nat, k \in S PROVE k + 1 \in S
  <2> SUFFICES ASSUME k + 1 <= Len(e) PROVE Up(k + 1)
    OBVIOUS
  <2>1. k + 1 \in 1 .. Len(e) /\ (k + 1) - 1 = k
    BY <1>1
  <2>2. Up(k) /\ e[k + 1] \in 1 .. n
    BY <1>1, <1>4, <2>1
  <2>3. g[k + 1] = ApplyEntry(g[k], e[k + 1])
    BY <1>2, <2>1
  <2> DEFINE r == g[k]
             s == g[k + 1]
             p == e[k + 1]
  <2> HIDE DEF r, s, p
  <2>4. /\ r \in Runs(n) /\ Follows(r) /\ (k > 0 /\ ~r.failed => e[k] <= r.last)
        /\ p \in 1 .. n /\ s = ApplyEntry(r, p)
    BY <2>2, <2>3 DEF r, s, p
  <2>5. r.last \in 0 .. n /\ r.ran \in Seq(1 .. n) /\ Len(r.ran) \in Nat
    BY <2>4 DEF Runs
  <2>6. /\ s \in Runs(n)
        /\ \/ p <= r.last /\ s = r
           \/ p > r.last /\ s.last = r.last /\ s.ran = r.ran /\ s.failed
           \/ p > r.last /\ ~r.failed /\ s.last = p /\ s.ran = Append(r.ran, p) /\ ~s.failed
    BY <2>4, EntryCases
  <2>7. CASE p <= r.last /\ s = r
    <3>1. s \in Runs(n) /\ Follows(s) /\ p <= s.last
      BY <2>4, <2>6, <2>7
    <3> QED
      BY <3>1 DEF s, p
  <2>8. CASE p > r.last /\ s.last = r.last /\ s.ran = r.ran /\ s.failed
    <3>1. s \in Runs(n) /\ Follows(s) /\ s.failed
      BY <2>4, <2>6, <2>8
    <3> QED
      BY <3>1 DEF s, p
  <2>9. CASE p > r.last /\ ~r.failed /\ s.last = p /\ s.ran = Append(r.ran, p) /\ ~s.failed
    <3>1. p = m + (Len(r.ran) + 1)
      <4>1. r.ran # <<>> => r.last = m + Len(r.ran)
        BY <2>4
      <4>2. r.ran = <<>> => r.last = lastApplied /\ Len(r.ran) = 0
        BY <2>4
      <4>3. CASE k = 0
        <5>1. p <= m + 1
          BY <2>1, <4>3 DEF Gapless, p
        <5>2. r.ran = <<>>
          BY <1>2, <4>3 DEF r, NothingRun
        <5>3. Beyond(e, m) => p > m
          BY <2>1 DEF Beyond, p
        <5> QED
          BY <2>4, <2>5, <2>9, <4>2, <5>1, <5>2, <5>3
      <4>4. CASE k > 0
        <5>1. k \in 1 .. Len(e) - 1 /\ k \in 1 .. Len(e)
          BY <2>1, <4>4, <1>1
        <5>2. p <= e[k] + 1 /\ e[k] \in 1 .. n
          BY <5>1, <1>1 DEF Gapless, p
        <5>3. p = r.last + 1 /\ r.last >= 1
          <6>1. e[k] <= r.last /\ p > r.last /\ r.last \in Nat /\ p \in Nat
            BY <2>4, <2>5, <2>9, <4>4
          <6>2. e[k] \in Nat /\ e[k] >= 1
            BY <5>2
          <6> HIDE DEF p, r, Follows
          <6> QED
            BY <5>2, <6>1, <6>2, SMTT(30)
        <5>4. CASE r.ran # <<>>
          BY <4>1, <5>3, <5>4, <2>5
        <5>5. CASE r.ran = <<>>
          <6>1. lastApplied = m \/ lastApplied = 0
            OBVIOUS
          <6> QED
            BY <4>2, <5>3, <5>5, <6>1, <2>5
        <5> QED
          BY <5>4, <5>5
      <4> QED
        BY <4>3, <4>4
    <3>2. /\ s.ran # <<>> /\ Len(s.ran) = Len(r.ran) + 1
          /\ \A j \in 1 .. Len(s.ran) : s.ran[j] = IF j = Len(r.ran) + 1 THEN p ELSE r.ran[j]
      <4>1. s.ran = Append(r.ran, p)
        BY <2>9
      <4>2. p \in 1 .. n
        BY <2>4
      <4>3. /\ Append(r.ran, p) # <<>> /\ Len(Append(r.ran, p)) = Len(r.ran) + 1
            /\ \A j \in 1 .. Len(r.ran) + 1 : Append(r.ran, p)[j] = IF j = Len(r.ran) + 1 THEN p ELSE r.ran[j]
        <5>1. r.ran \in Seq(1 .. n)
          BY <2>5
        <5> DEFINE q == r.ran
                   P == 1 .. n
        <5>2. q \in Seq(P) /\ p \in P
          BY <5>1, <4>2
        <5> HIDE DEF q, P, Follows
        <5>3. /\ Append(q, p) # <<>> /\ Len(Append(q, p)) = Len(q) + 1
              /\ \A j \in 1 .. Len(q) + 1 : Append(q, p)[j] = IF j = Len(q) + 1 THEN p ELSE q[j]
          BY <5>2, Appended, SMTT(30)
        <5> QED
          BY <5>3 DEF q
      <4> HIDE DEF Follows
      <4> QED
        BY <4>1, <4>3
    <3>3. s.last = m + Len(s.ran)
      BY <2>9, <3>1, <3>2
    <3>4. \A j \in 1 .. Len(s.ran) : s.ran[j] = m + j
      <4> TAKE j \in 1 .. Len(s.ran)
      <4>1. CASE j = Len(r.ran) + 1
        BY <3>1, <3>2, <4>1
      <4>2. CASE j # Len(r.ran) + 1
        <5>1. j \in 1 .. Len(r.ran)
          BY <2>5, <3>2, <4>2
        <5>2. s.ran[j] = r.ran[j]
          BY <3>2, <4>2
        <5> QED
          BY <5>1, <5>2, <2>4
      <4> QED
        BY <4>1, <4>2
    <3>5. p <= s.last
      BY <2>9, <2>4
    <3>6. s \in Runs(n) /\ Follows(s)
      BY <2>6, <3>2, <3>3, <3>4
    <3> HIDE DEF Follows
    <3> QED
      BY <3>5, <3>6 DEF s, p
  <2> QED
    BY <2>6, <2>7, <2>8, <2>9
<1> HIDE DEF Up
<1>5. Len(e) \in S
  <2> HIDE DEF S
  <2> QED
    BY <1>3, <1>4, NatsInSet, <1>1
<1>6. Up(Len(e))
  BY <1>1, <1>5
<1> QED
  BY <1>2, <1>6 DEF Up

-----------------------------------------------------------------------------
(***************************************************************************)
(* Types are kept.                                                         *)
(***************************************************************************)
\* The type invariant gives TypeOK.
LEMMA TypeInvImplies == TypeInv => TypeOK
<1> SUFFICES ASSUME TypeInv PROVE TypeOK
  OBVIOUS
<1>1. \A S : \A s \in Seq(S) : Range(s) \subseteq S
  BY DEF Range
<1>2. \A s \in {queue, log, applied} : Range(s) \subseteq Client
  BY <1>1 DEF TypeInv, AdapterTypes, NodeTypes
<1>3. Range(memWAL) \cup Range(unpublished) \subseteq 1 .. Len(log)
  BY <1>1 DEF TypeInv, AdapterTypes
<1>4. \A m \in Range(toStandby) : m = Fenced \/ Range(m.entries) \subseteq 1 .. Len(log)
  <2> DEFINE P == 1 .. Len(log)
  <2>1. Range(toStandby) \subseteq {Fenced} \cup {Batch(e) : e \in Seq(P)}
    BY <1>1 DEF TypeInv, NetTypes, ToStandby
  <2> HIDE DEF P
  <2>2. \A e : Batch(e).entries = e
    BY DEF Batch
  <2>3. \A m \in Range(toStandby) : m = Fenced \/ Range(m.entries) \subseteq P
    BY <2>1, <2>2, <1>1
  <2> QED
    BY <2>3 DEF P
<1>5. \A m \in Range(toPrimary) : m = Fence \/ m.pos \in 0 .. Len(log)
  <2>1. Range(toPrimary) \subseteq {Fence} \cup {Acked(p) : p \in 0 .. Len(log)}
    BY <1>1 DEF TypeInv, NetTypes, ToPrimary
  <2>2. \A p : Acked(p).pos = p
    BY DEF Acked
  <2> QED
    BY <2>1, <2>2
<1>6. {isPrimary, alive, conn, beatStuck, healthy, promoted} \subseteq BOOLEAN
  BY DEF TypeInv, NodeTypes, NetTypes
<1> QED
  BY <1>2, <1>3, <1>4, <1>5, <1>6 DEF TypeInv, AdapterTypes, NodeTypes, NetTypes, TypeOK

\* Sequences of positions and messages stay such when the log grows.
LEMMA Wider ==
    ASSUME NEW m \in Nat, NEW n \in Nat, m <= n
    PROVE  /\ \A s \in Seq(1 .. m) : s \in Seq(1 .. n)
           /\ \A s \in Seq(ToStandby(m)) : s \in Seq(ToStandby(n))
           /\ \A s \in Seq(ToPrimary(m)) : s \in Seq(ToPrimary(n))
<1>1. \A S, T : S \subseteq T => \A s \in Seq(S) : s \in Seq(T)
  BY SeqMonotonic
<1>2. 1 .. m \subseteq 1 .. n /\ 0 .. m \subseteq 0 .. n
  OBVIOUS
<1> DEFINE M == 1 .. m
           N == 1 .. n
           M0 == 0 .. m
           N0 == 0 .. n
<1> HIDE DEF M, N, M0, N0
<1>3. \A s \in Seq(M) : s \in Seq(N)
  BY <1>1, <1>2 DEF M, N
<1>4. {Fenced} \cup {Batch(e) : e \in Seq(M)} \subseteq {Fenced} \cup {Batch(e) : e \in Seq(N)}
  BY <1>3
<1>5. {Fence} \cup {Acked(p) : p \in M0} \subseteq {Fence} \cup {Acked(p) : p \in N0}
  BY <1>2 DEF M0, N0
<1>6. ToStandby(m) \subseteq ToStandby(n)
  BY <1>4 DEF ToStandby, M, N
<1>7. ToPrimary(m) \subseteq ToPrimary(n)
  BY <1>5 DEF ToPrimary, M0, N0
<1> QED
  BY <1>1, <1>3, <1>6, <1>7 DEF M, N

\* The two nodes keep their types while the log only grows.
LEMMA LogGrows ==
    ASSUME NodeTypes, NetTypes, log \in Seq(Client), log' \in Seq(Client), Len(log) <= Len(log'),
           UNCHANGED <<primaryVars, netVars, standbyVars, faults>>
    PROVE  NodeTypes' /\ NetTypes'
<1>1. Len(log) \in Nat /\ Len(log') \in Nat
  OBVIOUS
<1>2. NodeTypes'
  BY <1>1 DEF NodeTypes, primaryVars, netVars, standbyVars
<1>3. toStandby \in Seq(ToStandby(Len(log'))) /\ toPrimary \in Seq(ToPrimary(Len(log')))
  BY <1>1, Wider DEF NetTypes
<1>4. NetTypes'
  BY <1>3 DEF NetTypes, netVars
<1> QED
  BY <1>2, <1>4

\* A sequence without its first element.
LEMMA Shortened ==
    ASSUME NEW S, NEW s \in Seq(S), s # <<>>
    PROVE  /\ Head(s) = s[1] /\ Head(s) \in S /\ Len(s) >= 1 /\ Len(Tail(s)) = Len(s) - 1
           /\ Tail(s) \in Seq(S) /\ \A i \in 1 .. Len(s) - 1 : Tail(s)[i] = s[i + 1]
<1>1. Head(s) \in S /\ Tail(s) \in Seq(S) /\ Len(Tail(s)) = Len(s) - 1
      /\ \A i \in 1 .. Len(Tail(s)) : Tail(s)[i] = s[i + 1]
  BY HeadTailProperties
<1>2. Len(s) \in Nat \ {0}
  BY EmptySeq
<1>3. Head(s) = s[1]
  OBVIOUS
<1> QED
  BY <1>1, <1>2, <1>3

\* What streaming reads are positions of the log.
LEMMA WALEntriesType ==
    ASSUME AdapterTypes, NEW from \in 0 .. Len(log), NEW k \in Nat
    PROVE  GetWALEntries(from, k) \in Seq(1 .. Len(log))
<1>1. Len(log) \in Nat /\ memWAL \in Seq(1 .. Len(log)) /\ Len(memWAL) \in Nat
  BY DEF AdapterTypes
<1>2. CASE memWAL # <<>> /\ from >= memWAL[1]
  <2> DEFINE lo == FirstAbove(memWAL, from)
             hi == Least(lo + k, Len(memWAL))
  <2>1. GetWALEntries(from, k) = SubSeq(memWAL, lo + 1, hi)
    BY <1>2 DEF GetWALEntries
  <2>2. lo \in 0 .. Len(memWAL)
    <3>1. memWAL \in Seq(Nat)
      <4>1. 1 .. Len(log) \subseteq Nat
        BY <1>1
      <4> QED
        BY <1>1, <4>1, SeqMonotonic
    <3> QED
      BY <3>1, FirstAboveFinds, <1>1
  <2> HIDE DEF lo
  <2>3. hi \in 0 .. Len(memWAL)
    BY <2>2, <1>1 DEF Least
  <2> HIDE DEF hi
  <2>4. \A i \in lo + 1 .. hi : memWAL[i] \in 1 .. Len(log)
    BY <1>1, <2>2, <2>3
  <2> DEFINE P == 1 .. Len(log)
  <2> HIDE DEF P
  <2>5. SubSeq(memWAL, lo + 1, hi) \in Seq(P)
    <3>1. lo + 1 \in Int /\ hi \in Int
      BY <2>2, <2>3
    <3>2. \A i \in lo + 1 .. hi : memWAL[i] \in P
      BY <2>4 DEF P
    <3> QED
      BY <3>1, <3>2, SubSeqProperties
  <2> QED
    BY <2>1, <2>5 DEF P
<1>3. CASE ~(memWAL # <<>> /\ from >= memWAL[1])
  <2> DEFINE j == Least(k, Len(log) - from)
  <2>1. GetWALEntries(from, k) = [i \in 1 .. j |-> from + i]
    BY <1>3 DEF GetWALEntries, ReadLog
  <2>2. j \in Nat /\ j <= Len(log) - from
    BY <1>1 DEF Least
  <2> HIDE DEF j
  <2>3. \A i \in 1 .. j : from + i \in 1 .. Len(log)
    BY <1>1, <2>2
  <2> QED
    BY <2>1, <2>2, <2>3
<1> QED
  BY <1>2, <1>3

\* What an acknowledgement leaves in memory are positions of the log.
LEMMA PruneType ==
    ASSUME AdapterTypes, NEW pos \in Nat
    PROVE  PruneWALEntries(pos) \in Seq(1 .. Len(log))
<1>1. Len(log) \in Nat /\ memWAL \in Seq(1 .. Len(log)) /\ Len(memWAL) \in Nat
  BY DEF AdapterTypes
<1> DEFINE P == 1 .. Len(log)
           lo == FirstAbove(memWAL, pos)
<1>2. lo \in 0 .. Len(memWAL)
  <2>1. memWAL \in Seq(Nat)
    <3>1. 1 .. Len(log) \subseteq Nat
      BY <1>1
    <3> QED
      BY <1>1, <3>1, SeqMonotonic
  <2> QED
    BY <2>1, FirstAboveFinds
<1> HIDE DEF lo
<1>3. \A i \in lo + 1 .. Len(memWAL) : memWAL[i] \in P
  BY <1>1, <1>2
<1> HIDE DEF P
<1>4. lo + 1 \in Int /\ Len(memWAL) \in Int
  BY <1>1, <1>2
<1>5. SubSeq(memWAL, lo + 1, Len(memWAL)) \in Seq(P)
  BY <1>3, <1>4, SubSeqProperties
<1> QED
  BY <1>5 DEF PruneWALEntries, lo, P

\* A batch taken from the queue.
LEMMA BatchTaken ==
    ASSUME queue \in Seq(Client), NEW n \in 1 .. Len(queue)
    PROVE  /\ SubSeq(queue, 1, n) \in Seq(Client) /\ Len(SubSeq(queue, 1, n)) = n
           /\ SubSeq(queue, n + 1, Len(queue)) \in Seq(Client)
           /\ \A i \in 1 .. n : SubSeq(queue, 1, n)[i] = queue[i]
<1>1. Len(queue) \in Nat /\ n \in Nat /\ 1 <= n /\ n <= Len(queue)
  OBVIOUS
<1>2. 1 \in Int /\ n \in Int /\ n + 1 \in Int /\ Len(queue) \in Int
  BY <1>1
<1>3. \A i \in 1 .. n : queue[i] \in Client
  BY <1>1
<1>4. \A i \in n + 1 .. Len(queue) : queue[i] \in Client
  BY <1>1
<1>5. /\ SubSeq(queue, 1, n) \in Seq(Client)
      /\ Len(SubSeq(queue, 1, n)) = IF 1 <= n THEN n - 1 + 1 ELSE 0
      /\ \A i \in 1 .. n - 1 + 1 : SubSeq(queue, 1, n)[i] = queue[1 + i - 1]
  BY <1>2, <1>3, SubSeqProperties
<1>6. SubSeq(queue, n + 1, Len(queue)) \in Seq(Client)
  BY <1>2, <1>4, SubSeqProperties
<1>7. n - 1 + 1 = n /\ \A i \in 1 .. n : 1 + i - 1 = i
  BY <1>1
<1> QED
  BY <1>1, <1>5, <1>6, <1>7

\* The adapter's steps.
LEMMA AdapterKeepsTypes ==
    ASSUME AdapterTypes,
           (\E c \in Client : Enqueue(c) \/ AppendDirectly(c) \/ Execute(c)) \/ WriterStep
    PROVE  AdapterTypes' /\ Len(log) <= Len(log')
<1>0. /\ queue \in Seq(Client) /\ log \in Seq(Client) /\ Len(log) \in Nat
      /\ memWAL \in Seq(1 .. Len(log)) /\ unpublished \in Seq(1 .. Len(log))
      /\ posCh \in [Client -> 0 .. Len(log)] /\ walPosition \in 0 .. Len(log)
      /\ pc \in [Client -> {"idle", "queued", "direct", "applied", "failed", "waiting", "done"}]
  BY DEF AdapterTypes
<1>1. ASSUME NEW c \in Client, Enqueue(c) PROVE AdapterTypes' /\ Len(log) <= Len(log')
  BY <1>0, <1>1 DEF Enqueue, AdapterTypes
<1>2. ASSUME NEW c \in Client, AppendDirectly(c) PROVE AdapterTypes' /\ Len(log) <= Len(log')
  <2>1. log' = Append(log, c) /\ Len(log') = Len(log) + 1 /\ log' \in Seq(Client)
    BY <1>0, <1>2 DEF AppendDirectly
  <2>2. memWAL' \in Seq(1 .. Len(log')) /\ unpublished' \in Seq(1 .. Len(log'))
    BY <1>0, <1>2, <2>1, Wider DEF AppendDirectly
  <2>3. /\ queue' = queue /\ walPosition' = Len(log')
        /\ posCh' = [posCh EXCEPT ![c] = Len(log')] /\ pc' = [pc EXCEPT ![c] = "direct"]
    BY <1>2 DEF AppendDirectly
  <2>4. posCh' \in [Client -> 0 .. Len(log')]
    BY <1>0, <2>1, <2>3
  <2> QED
    BY <1>0, <2>1, <2>2, <2>3, <2>4 DEF AdapterTypes
<1>3. ASSUME NEW c \in Client, Execute(c) PROVE AdapterTypes' /\ Len(log) <= Len(log')
  <2>1. log' = log /\ queue' = queue /\ unpublished' = unpublished
    BY <1>3 DEF Execute
  <2>2. memWAL' \in Seq(1 .. Len(log))
    <3> DEFINE P == 1 .. Len(log)
    <3>1. posCh[c] > 0 => posCh[c] \in P
      BY <1>0
    <3>2. memWAL' = IF posCh[c] > 0 THEN Append(memWAL, posCh[c]) ELSE memWAL
      BY <1>3 DEF Execute
    <3>3. memWAL \in Seq(P)
      BY <1>0
    <3> HIDE DEF P
    <3>4. memWAL' \in Seq(P)
      BY <3>1, <3>2, <3>3
    <3> QED
      BY <3>4 DEF P
  <2>3. posCh' \in [Client -> 0 .. Len(log)] /\ walPosition' \in 0 .. Len(log)
    BY <1>0, <1>3 DEF Execute
  <2>4. pc' \in [Client -> {"idle", "queued", "direct", "applied", "failed", "waiting", "done"}]
    BY <1>0, <1>3 DEF Execute
  <2> QED
    BY <1>0, <2>1, <2>2, <2>3, <2>4 DEF AdapterTypes
<1>4. ASSUME PublishBatch PROVE AdapterTypes' /\ Len(log) <= Len(log')
  <2>1. memWAL \o unpublished \in Seq(1 .. Len(log))
    BY <1>0, ConcatProperties
  <2>2. <<>> \in Seq(1 .. Len(log))
    BY EmptySeq
  <2>3. memWAL' = memWAL \o unpublished /\ unpublished' = <<>>
        /\ UNCHANGED <<pc, queue, log, posCh, walPosition>>
    BY <1>4 DEF PublishBatch
  <2> QED
    BY <1>0, <2>1, <2>2, <2>3 DEF AdapterTypes
<1>5. ASSUME NEW n \in 1 .. Len(queue), WriteBatch(n) PROVE AdapterTypes' /\ Len(log) <= Len(log')
  <2> DEFINE batch == SubSeq(queue, 1, n)
             At(c) == Len(log) + CHOOSE i \in 1 .. n : batch[i] = c
  <2>1. n \in Nat /\ batch \in Seq(Client) /\ Len(batch) = n /\ SubSeq(queue, n + 1, Len(queue)) \in Seq(Client)
    BY <1>0, <1>5, BatchTaken
  <2>2. /\ log' = log \o batch /\ queue' = SubSeq(queue, n + 1, Len(queue)) /\ walPosition' = Len(log')
        /\ posCh' = [c \in Client |-> IF c \in Range(batch) /\ pc[c] = "queued" THEN At(c) ELSE posCh[c]]
        /\ unpublished' = [i \in 1 .. n |-> Len(log) + i]
        /\ pc' = pc /\ memWAL' = memWAL
    BY <1>5 DEF WriteBatch
  <2>3. \A c \in Range(batch) : At(c) \in 1 .. Len(log) + n
    <3> TAKE c \in Range(batch)
    <3>1. \E i \in 1 .. n : batch[i] = c
      BY <2>1 DEF Range
    <3> DEFINE j == CHOOSE i \in 1 .. n : batch[i] = c
    <3>2. j \in 1 .. n
      BY <3>1
    <3> HIDE DEF j
    <3>3. Len(log) + j \in 1 .. Len(log) + n
      BY <1>0, <2>1, <3>2
    <3> QED
      BY <3>3 DEF j
  <2> HIDE DEF batch, At
  <2>4. log' \in Seq(Client) /\ Len(log') = Len(log) + n
    BY <1>0, <2>1, <2>2, ConcatProperties
  <2>5. memWAL' \in Seq(1 .. Len(log'))
    BY <1>0, <2>1, <2>2, <2>4, Wider
  <2>6. unpublished' \in Seq(1 .. Len(log'))
    <3> DEFINE P == 1 .. Len(log')
               u == [i \in 1 .. n |-> Len(log) + i]
    <3>1. \A i \in 1 .. n : Len(log) + i \in P
      BY <1>0, <2>1, <2>4
    <3> HIDE DEF P
    <3>2. u \in Seq(P)
      BY <2>1, <3>1
    <3>3. unpublished' = u
      BY <2>2
    <3> HIDE DEF u
    <3> QED
      BY <3>2, <3>3 DEF P
  <2>7. posCh' \in [Client -> 0 .. Len(log')]
    <3>1. \A c \in Client : posCh[c] \in 0 .. Len(log')
      BY <1>0, <2>1, <2>4
    <3>2. \A c \in Range(batch) : At(c) \in 0 .. Len(log')
      BY <1>0, <2>1, <2>3, <2>4
    <3> QED
      BY <2>2, <3>1, <3>2
  <2>8. walPosition' \in 0 .. Len(log')
    BY <1>0, <2>1, <2>2, <2>4
  <2> QED
    BY <1>0, <2>1, <2>2, <2>4, <2>5, <2>6, <2>7, <2>8, SMTT(30) DEF AdapterTypes
<1> QED
  BY <1>1, <1>2, <1>3, <1>4, <1>5 DEF WriterStep

\* What a node sends and receives: messages with positions of the log.
LEMMA NetKeeps ==
    ASSUME NetTypes, AdapterTypes
    PROVE  /\ \A m \in ToStandby(Len(log)) : Append(toStandby, m) \in Seq(ToStandby(Len(log)))
           /\ \A m \in ToPrimary(Len(log)) : Append(toPrimary, m) \in Seq(ToPrimary(Len(log)))
           /\ toStandby # <<>> => /\ Tail(toStandby) \in Seq(ToStandby(Len(log)))
                                  /\ Head(toStandby) \in ToStandby(Len(log))
           /\ toPrimary # <<>> => /\ Tail(toPrimary) \in Seq(ToPrimary(Len(log)))
                                  /\ Head(toPrimary) \in ToPrimary(Len(log))
           /\ <<>> \in Seq(ToStandby(Len(log))) /\ <<>> \in Seq(ToPrimary(Len(log)))
<1> DEFINE S == ToStandby(Len(log))
           T == ToPrimary(Len(log))
<1>1. toStandby \in Seq(S) /\ toPrimary \in Seq(T)
  BY DEF NetTypes
<1> HIDE DEF S, T
<1>2. \A m \in S : Append(toStandby, m) \in Seq(S)
  BY <1>1
<1>3. \A m \in T : Append(toPrimary, m) \in Seq(T)
  BY <1>1
<1>4. toStandby # <<>> => Tail(toStandby) \in Seq(S) /\ Head(toStandby) \in S
  BY <1>1, Shortened
<1>5. toPrimary # <<>> => Tail(toPrimary) \in Seq(T) /\ Head(toPrimary) \in T
  BY <1>1, Shortened
<1>6. <<>> \in Seq(S) /\ <<>> \in Seq(T)
  BY EmptySeq
<1> QED
  BY <1>2, <1>3, <1>4, <1>5, <1>6 DEF S, T

\* Which messages there are.
LEMMA MessageKinds ==
    ASSUME NEW n \in Nat
    PROVE  /\ Fence \in ToPrimary(n) /\ Fenced \in ToStandby(n)
           /\ \A p \in 0 .. n : Acked(p) \in ToPrimary(n)
           /\ \A e \in Seq(1 .. n) : Batch(e) \in ToStandby(n)
           /\ \A m \in ToPrimary(n) :
                 /\ m.kind = "acked" => m.pos \in 0 .. n /\ m = Acked(m.pos)
                 /\ m.kind # "acked" => m = Fence
           /\ \A m \in ToStandby(n) :
                 /\ m.kind = "batch" => m.entries \in Seq(1 .. n) /\ m = Batch(m.entries)
                 /\ m.kind # "batch" => m = Fenced
           /\ Fence.kind = "fence" /\ Fenced.kind = "fenced"
           /\ \A p : Acked(p).kind = "acked" /\ Acked(p).pos = p
           /\ \A e : Batch(e).kind = "batch" /\ Batch(e).entries = e
<1> DEFINE P == 0 .. n
           S == Seq(1 .. n)
<1> HIDE DEF P, S
<1>1. Fence \in ToPrimary(n) /\ Fenced \in ToStandby(n)
  BY DEF ToPrimary, ToStandby
<1>2. \A p \in P : Acked(p) \in {Fence} \cup {Acked(q) : q \in P}
  OBVIOUS
<1>3. \A e \in S : Batch(e) \in {Fenced} \cup {Batch(f) : f \in S}
  OBVIOUS
<1>4. /\ Fence.kind = "fence" /\ Fenced.kind = "fenced"
      /\ \A p : Acked(p).kind = "acked" /\ Acked(p).pos = p
      /\ \A e : Batch(e).kind = "batch" /\ Batch(e).entries = e
  BY DEF Fence, Fenced, Acked, Batch
<1>5. \A m \in {Fence} \cup {Acked(q) : q \in P} :
                 /\ m.kind = "acked" => m.pos \in P /\ m = Acked(m.pos)
                 /\ m.kind # "acked" => m = Fence
  BY <1>4
<1>6. \A m \in {Fenced} \cup {Batch(f) : f \in S} :
                 /\ m.kind = "batch" => m.entries \in S /\ m = Batch(m.entries)
                 /\ m.kind # "batch" => m = Fenced
  BY <1>4
<1> QED
  BY <1>1, <1>2, <1>3, <1>4, <1>5, <1>6 DEF ToPrimary, ToStandby, P, S

\* The calls.
LEMMA CallTypes ==
    ASSUME TypeInv, NEW c \in Client,
           Apply(c) \/ Adapter(c) \/ AwaitAck(c) \/ Acknowledged(c) \/ TimeOut(c) \/ Writer
    PROVE  TypeInv'
<1>0. AdapterTypes /\ NodeTypes /\ NetTypes /\ log \in Seq(Client) /\ Len(log) \in Nat
  BY DEF TypeInv, AdapterTypes
<1>1. CASE Apply(c) \/ Adapter(c) \/ Writer
  <2>1. /\ (\E d \in Client : Enqueue(d) \/ AppendDirectly(d) \/ Execute(d)) \/ WriterStep
        /\ UNCHANGED <<primaryVars, netVars, standbyVars, faults>>
    BY <1>1 DEF Apply, Adapter, Writer
  <2>2. AdapterTypes' /\ Len(log) <= Len(log')
    BY <1>0, <2>1, AdapterKeepsTypes
  <2>3. log' \in Seq(Client)
    BY <2>2 DEF AdapterTypes
  <2> QED
    BY <1>0, <2>1, <2>2, <2>3, LogGrows DEF TypeInv
<1>2. CASE AwaitAck(c)
  <2>1. /\ UNCHANGED <<queue, log, posCh, walPosition, memWAL, unpublished>>
        /\ UNCHANGED <<isPrimary, alive, lastAcked, netVars, standbyVars, faults>>
        /\ \E w \in {0, walPosition} : target' = [target EXCEPT ![c] = w]
        /\ \E s \in {"waiting", "done"} : pc' = [pc EXCEPT ![c] = s]
    BY <1>2 DEF AwaitAck
  <2>2. AdapterTypes'
    BY <1>0, <2>1 DEF AdapterTypes
  <2>3. NodeTypes'
    BY <1>0, <2>1 DEF NodeTypes, AdapterTypes, standbyVars
  <2>4. NetTypes'
    BY <1>0, <2>1 DEF NetTypes, netVars
  <2> QED
    BY <2>2, <2>3, <2>4 DEF TypeInv
<1>3. CASE Acknowledged(c) \/ TimeOut(c)
  <2>1. /\ UNCHANGED <<queue, log, posCh, walPosition, memWAL, unpublished>>
        /\ UNCHANGED <<isPrimary, alive, lastAcked, conn, toStandby, toPrimary, beatStuck, standbyVars, faults>>
        /\ target' = [target EXCEPT ![c] = 0]
        /\ \E s \in {"failed", "done"} : pc' = [pc EXCEPT ![c] = s]
        /\ pending' \in SUBSET pending
    BY <1>3 DEF Acknowledged, TimeOut, Return
  <2>2. AdapterTypes'
    BY <1>0, <2>1 DEF AdapterTypes
  <2>3. NodeTypes'
    BY <1>0, <2>1 DEF NodeTypes, AdapterTypes, standbyVars
  <2>4. NetTypes'
    BY <1>0, <2>1 DEF NetTypes
  <2> QED
    BY <2>2, <2>3, <2>4 DEF TypeInv
<1> QED
  BY <1>1, <1>2, <1>3

\* The commands a batch ran.
LEMMA RanType ==
    ASSUME log \in Seq(Client), NEW r \in Runs(Len(log))
    PROVE  LET s == [i \in DOMAIN r.ran |-> log[r.ran[i]]]
           IN  /\ s \in Seq(Client) /\ Len(s) = Len(r.ran) /\ Len(r.ran) \in Nat
               /\ \A i \in 1 .. Len(r.ran) : s[i] = log[r.ran[i]]
<1> DEFINE q == r.ran
           s == [i \in DOMAIN q |-> log[q[i]]]
<1>1. q \in Seq(1 .. Len(log))
  BY DEF Runs
<1> HIDE DEF q
<1>2. Len(q) \in Nat /\ DOMAIN q = 1 .. Len(q) /\ \A i \in 1 .. Len(q) : q[i] \in 1 .. Len(log)
  BY <1>1
<1>3. \A i \in 1 .. Len(q) : log[q[i]] \in Client
  BY <1>2
<1>4. s = [i \in 1 .. Len(q) |-> log[q[i]]]
  BY <1>2
<1>5. s \in Seq(Client) /\ Len(s) = Len(q) /\ \A i \in 1 .. Len(q) : s[i] = log[q[i]]
  BY <1>2, <1>3, <1>4
<1> QED
  BY <1>2, <1>5 DEF q

\* What the primary sends and receives.
LEMMA PrimaryTypes ==
    ASSUME TypeInv,
           \/ \E s \in Sender : StreamPendingWAL(s) \/ Deliver(s) \/ BeatTaken(s)
           \/ HandleFence \/ Heartbeat \/ TakenByBeat
    PROVE  TypeInv'
<1>0. AdapterTypes /\ NodeTypes /\ NetTypes /\ log \in Seq(Client) /\ Len(log) \in Nat /\ MaxFaults \in Nat
  BY HAAssumption DEF TypeInv, AdapterTypes
<1>1. ASSUME NEW s \in Sender, StreamPendingWAL(s) PROVE TypeInv'
  <2> DEFINE e == GetWALEntries(lastAcked, BatchSize)
  <2>1. /\ UNCHANGED <<adapterVars, primaryVars, conn, toPrimary, beatStuck, standbyVars, faults>>
        /\ toStandby' = Append(toStandby, Batch(e)) /\ pending' = pending \cup {s}
    BY <1>1 DEF StreamPendingWAL
  <2>2. e \in Seq(1 .. Len(log))
    BY <1>0, WALEntriesType, HAAssumption DEF NodeTypes
  <2> HIDE DEF e
  <2>3. Append(toStandby, Batch(e)) \in Seq(ToStandby(Len(log)))
    BY <1>0, <2>2, NetKeeps, MessageKinds
  <2>4. NetTypes'
    BY <1>0, <2>1, <2>3 DEF NetTypes, adapterVars
  <2>5. AdapterTypes' /\ NodeTypes'
    BY <1>0, <2>1 DEF AdapterTypes, NodeTypes, adapterVars, primaryVars, standbyVars
  <2> QED
    BY <2>4, <2>5 DEF TypeInv
<1>2. ASSUME NEW s \in Sender, Deliver(s) PROVE TypeInv'
  <2> DEFINE m == Head(toPrimary)
  <2>1. /\ toPrimary # <<>> /\ toPrimary' = Tail(toPrimary) /\ pending' = pending \ {s}
        /\ IF m.kind = "acked" THEN AcknowledgePosition(m.pos) ELSE UNCHANGED <<lastAcked, memWAL>>
        /\ UNCHANGED <<pc, queue, log, posCh, walPosition, unpublished>>
        /\ UNCHANGED <<isPrimary, alive, target, conn, toStandby, beatStuck, standbyVars, faults>>
    BY <1>2 DEF Deliver
  <2>2. Tail(toPrimary) \in Seq(ToPrimary(Len(log))) /\ m \in ToPrimary(Len(log))
    BY <1>0, <2>1, NetKeeps
  <2>3. m.kind = "acked" => m.pos \in 0 .. Len(log)
    BY <1>0, <2>2, MessageKinds
  <2> HIDE DEF m
  <2>4. memWAL' \in Seq(1 .. Len(log)) /\ lastAcked' \in 0 .. Len(log)
    <3>1. CASE m.kind = "acked"
      <4>1. lastAcked' = IF m.pos > lastAcked THEN m.pos ELSE lastAcked
        BY <2>1, <3>1 DEF AcknowledgePosition
      <4>2. memWAL' = PruneWALEntries(m.pos)
        BY <2>1, <3>1 DEF AcknowledgePosition
      <4>3. m.pos \in Nat
        BY <2>3, <3>1, <1>0
      <4>4. PruneWALEntries(m.pos) \in Seq(1 .. Len(log))
        BY <4>3, <1>0, PruneType
      <4> QED
        BY <4>1, <4>2, <4>4, <2>3, <3>1, <1>0 DEF NodeTypes
    <3>2. CASE m.kind # "acked"
      BY <1>0, <2>1, <3>2 DEF AdapterTypes, NodeTypes
    <3> QED
      BY <3>1, <3>2
  <2>5. AdapterTypes'
    BY <1>0, <2>1, <2>4 DEF AdapterTypes
  <2>6. NodeTypes'
    BY <1>0, <2>1, <2>4 DEF NodeTypes, standbyVars
  <2>7. NetTypes'
    BY <1>0, <2>1, <2>2 DEF NetTypes
  <2> QED
    BY <2>5, <2>6, <2>7 DEF TypeInv
<1>3. ASSUME NEW s \in Sender, BeatTaken(s) PROVE TypeInv'
  <2>1. /\ UNCHANGED <<adapterVars, primaryVars, conn, toStandby, toPrimary>>
        /\ UNCHANGED <<lastApplied, failover, promoted, applied>>
        /\ pending' = pending \ {s} /\ beatStuck' = TRUE /\ healthy' = TRUE
        /\ faults' = faults + 1 /\ faults < MaxFaults
    BY <1>3 DEF BeatTaken
  <2> QED
    BY <1>0, <2>1 DEF TypeInv, AdapterTypes, NodeTypes, NetTypes, adapterVars, primaryVars
<1>4. CASE HandleFence
  <2>1. /\ UNCHANGED <<adapterVars, alive, target, lastAcked, conn, pending, beatStuck, standbyVars, faults>>
        /\ toPrimary # <<>> /\ toPrimary' = Tail(toPrimary)
        /\ toStandby' \in {toStandby, Append(toStandby, Fenced)} /\ isPrimary' \in {isPrimary, FALSE}
    BY <1>4 DEF HandleFence
  <2>2. toStandby' \in Seq(ToStandby(Len(log))) /\ toPrimary' \in Seq(ToPrimary(Len(log)))
    <3>1. Fenced \in ToStandby(Len(log))
      BY <1>0, MessageKinds
    <3>2. toStandby \in Seq(ToStandby(Len(log)))
      BY <1>0 DEF NetTypes
    <3>3. /\ Append(toStandby, Fenced) \in Seq(ToStandby(Len(log)))
          /\ Tail(toPrimary) \in Seq(ToPrimary(Len(log)))
      BY <1>0, <2>1, <3>1, NetKeeps
    <3> QED
      BY <2>1, <3>2, <3>3
  <2>3. NetTypes'
    BY <1>0, <2>1, <2>2 DEF NetTypes, adapterVars
  <2>4. AdapterTypes' /\ NodeTypes'
    BY <1>0, <2>1 DEF AdapterTypes, NodeTypes, adapterVars, standbyVars
  <2> QED
    BY <2>3, <2>4 DEF TypeInv
<1>5. CASE Heartbeat
  <2>1. /\ UNCHANGED <<adapterVars, primaryVars, conn, toStandby, toPrimary, pending>>
        /\ UNCHANGED <<lastApplied, promoted, applied, faults>>
        /\ healthy' \in {healthy, TRUE} /\ failover' \in {failover, "promote"}
        /\ beatStuck' \in BOOLEAN
    BY <1>5 DEF Heartbeat
  <2>2. AdapterTypes' /\ NetTypes'
    BY <1>0, <2>1 DEF AdapterTypes, NetTypes, adapterVars
  <2>3. NodeTypes'
    BY <1>0, <2>1 DEF NodeTypes, adapterVars, primaryVars
  <2> QED
    BY <2>2, <2>3 DEF TypeInv
<1>6. CASE TakenByBeat
  <2>1. /\ UNCHANGED <<adapterVars, primaryVars, conn, toStandby, pending, standbyVars>>
        /\ toPrimary # <<>> /\ toPrimary' = Tail(toPrimary) /\ beatStuck' = FALSE
        /\ faults' \in 0 .. MaxFaults
    BY <1>0, <1>6 DEF TakenByBeat, NodeTypes, NetTypes
  <2>2. toPrimary' \in Seq(ToPrimary(Len(log)))
    BY <1>0, <2>1, NetKeeps
  <2>3. AdapterTypes' /\ NetTypes'
    BY <1>0, <2>1, <2>2 DEF AdapterTypes, NetTypes, adapterVars
  <2>4. NodeTypes'
    BY <1>0, <2>1 DEF NodeTypes, adapterVars, primaryVars, standbyVars
  <2> QED
    BY <2>3, <2>4 DEF TypeInv
<1> QED
  BY <1>1, <1>2, <1>3, <1>4, <1>5, <1>6

\* The standby's steps.
LEMMA StandbyTypes ==
    ASSUME TypeInv,
           HandleWALBatch \/ FenceAnswered \/ CheckPrimaryHealth \/ FenceOldPrimary \/ Promote
    PROVE  TypeInv'
<1>0. AdapterTypes /\ NodeTypes /\ NetTypes /\ log \in Seq(Client) /\ Len(log) \in Nat
  BY DEF TypeInv, AdapterTypes
<1>1. CASE HandleWALBatch
  <2> DEFINE r == ApplyBatch(Head(toStandby).entries)
             pos == IF r.ran = <<>> THEN 0 ELSE r.last
             ran == [i \in DOMAIN r.ran |-> log[r.ran[i]]]
  <2>1. /\ UNCHANGED <<adapterVars, primaryVars, conn, pending, beatStuck, failover, promoted, faults>>
        /\ toStandby # <<>> /\ Head(toStandby).kind = "batch" /\ toStandby' = Tail(toStandby)
        /\ \/ UNCHANGED <<lastApplied, applied, healthy, toPrimary>>
           \/ /\ healthy' = TRUE /\ lastApplied' = r.last /\ applied' = applied \o ran
              /\ toPrimary' \in {toPrimary, Append(toPrimary, Acked(pos))}
    BY <1>1 DEF HandleWALBatch
  <2>2. /\ Head(toStandby).entries \in Seq(1 .. Len(log))
        /\ Tail(toStandby) \in Seq(ToStandby(Len(log)))
    BY <1>0, <2>1, NetKeeps, MessageKinds
  <2>3. r \in Runs(Len(log))
    BY <1>0, <2>2, BatchType DEF NodeTypes
  <2> HIDE DEF r
  <2>4. r.last \in 0 .. Len(log)
    BY <2>3 DEF Runs
  <2>5. ran \in Seq(Client)
    BY <1>0, <2>3, RanType
  <2> HIDE DEF ran
  <2>6. pos \in 0 .. Len(log)
    BY <1>0, <2>4
  <2> HIDE DEF pos
  <2>7. Append(toPrimary, Acked(pos)) \in Seq(ToPrimary(Len(log)))
    BY <1>0, <2>6, NetKeeps, MessageKinds
  <2>8. toPrimary' \in Seq(ToPrimary(Len(log)))
    BY <1>0, <2>1, <2>7 DEF NetTypes
  <2>9. applied' \in Seq(Client) /\ lastApplied' \in 0 .. Len(log) /\ healthy' \in BOOLEAN
    BY <1>0, <2>1, <2>4, <2>5, ConcatProperties DEF NodeTypes
  <2>10. AdapterTypes' /\ NetTypes'
    BY <1>0, <2>1, <2>2, <2>8 DEF AdapterTypes, NetTypes, adapterVars
  <2>11. NodeTypes'
    BY <1>0, <2>1, <2>9 DEF NodeTypes, adapterVars, primaryVars
  <2> QED
    BY <2>10, <2>11 DEF TypeInv
<1>2. CASE FenceAnswered
  <2>1. /\ UNCHANGED <<adapterVars, primaryVars, conn, toPrimary, pending, beatStuck>>
        /\ UNCHANGED <<lastApplied, healthy, promoted, applied, faults>>
        /\ toStandby # <<>> /\ toStandby' = Tail(toStandby) /\ failover' \in {failover, "promote"}
    BY <1>2 DEF FenceAnswered
  <2>2. Tail(toStandby) \in Seq(ToStandby(Len(log)))
    BY <1>0, <2>1, NetKeeps
  <2>3. AdapterTypes' /\ NetTypes'
    BY <1>0, <2>1, <2>2 DEF AdapterTypes, NetTypes, adapterVars
  <2>4. NodeTypes'
    BY <1>0, <2>1 DEF NodeTypes, adapterVars, primaryVars
  <2> QED
    BY <2>3, <2>4 DEF TypeInv
<1>3. CASE CheckPrimaryHealth \/ Promote
  <2>1. /\ UNCHANGED <<adapterVars, primaryVars, netVars, lastApplied, applied, faults>>
        /\ failover' \in {failover, "fence", "none"}
        /\ healthy' \in {healthy, FALSE} /\ promoted' \in {promoted, TRUE}
    BY <1>3 DEF CheckPrimaryHealth, Promote
  <2>2. AdapterTypes' /\ NetTypes'
    BY <1>0, <2>1 DEF AdapterTypes, NetTypes, adapterVars, netVars
  <2>3. NodeTypes'
    BY <1>0, <2>1 DEF NodeTypes, adapterVars, primaryVars
  <2> QED
    BY <2>2, <2>3 DEF TypeInv
<1>4. CASE FenceOldPrimary
  <2>1. /\ UNCHANGED <<adapterVars, primaryVars, conn, toStandby, pending, beatStuck>>
        /\ UNCHANGED <<lastApplied, healthy, promoted, applied, faults>>
        /\ toPrimary' \in {toPrimary, Append(toPrimary, Fence)} /\ failover' \in {"fencing", "promote"}
    BY <1>4 DEF FenceOldPrimary, AfterFencing
  <2>2. toPrimary' \in Seq(ToPrimary(Len(log)))
    <3>1. Fence \in ToPrimary(Len(log))
      BY <1>0, MessageKinds
    <3>2. Append(toPrimary, Fence) \in Seq(ToPrimary(Len(log)))
      BY <1>0, <3>1, NetKeeps
    <3> QED
      BY <1>0, <2>1, <3>2 DEF NetTypes
  <2>3. AdapterTypes' /\ NetTypes'
    BY <1>0, <2>1, <2>2 DEF AdapterTypes, NetTypes, adapterVars
  <2>4. NodeTypes'
    BY <1>0, <2>1 DEF NodeTypes, adapterVars, primaryVars
  <2> QED
    BY <2>3, <2>4 DEF TypeInv
<1> QED
  BY <1>1, <1>2, <1>3, <1>4

\* Connections and crashes.
LEMMA FaultTypes ==
    ASSUME TypeInv,
           Connect \/ Break \/ ReadTimeout \/ CrashPrimary \/ RestartPrimary \/ RestartStandby
    PROVE  TypeInv'
<1>0. AdapterTypes /\ NodeTypes /\ NetTypes /\ log \in Seq(Client) /\ Len(log) \in Nat /\ MaxFaults \in Nat
  BY HAAssumption DEF TypeInv, AdapterTypes
<1>e. /\ <<>> \in Seq(ToStandby(Len(log))) /\ <<>> \in Seq(ToPrimary(Len(log)))
      /\ <<>> \in Seq(1 .. Len(log)) /\ <<>> \in Seq(Client)
  BY EmptySeq
<1>1. CASE Connect
  <2>1. /\ UNCHANGED <<adapterVars, primaryVars, toStandby, toPrimary, pending, beatStuck>>
        /\ UNCHANGED <<lastApplied, failover, promoted, applied, faults>>
        /\ conn' = TRUE /\ healthy' = TRUE
    BY <1>1 DEF Connect
  <2>2. AdapterTypes' /\ NetTypes'
    BY <1>0, <2>1 DEF AdapterTypes, NetTypes, adapterVars
  <2>3. NodeTypes'
    BY <1>0, <2>1 DEF NodeTypes, adapterVars, primaryVars
  <2> QED
    BY <2>2, <2>3 DEF TypeInv
<1>2. CASE Break \/ ReadTimeout
  <2>1. /\ UNCHANGED <<adapterVars, primaryVars, lastApplied, healthy, promoted, applied>>
        /\ conn' = FALSE /\ toStandby' = <<>> /\ toPrimary' = <<>> /\ pending' = {} /\ beatStuck' = FALSE
        /\ failover' \in {failover, "promote"} /\ faults' \in 0 .. MaxFaults
    BY <1>0, <1>2 DEF Break, ReadTimeout, CloseConnection, NodeTypes
  <2>2. AdapterTypes' /\ NetTypes'
    BY <1>0, <1>e, <2>1 DEF AdapterTypes, NetTypes, adapterVars
  <2>3. NodeTypes'
    BY <1>0, <2>1 DEF NodeTypes, adapterVars, primaryVars
  <2> QED
    BY <2>2, <2>3 DEF TypeInv
<1>3. CASE CrashPrimary
  <2>1. /\ alive' = FALSE /\ target' = [c \in Client |-> 0] /\ queue' = <<>>
        /\ posCh' = [c \in Client |-> 0] /\ memWAL' = <<>> /\ unpublished' = <<>>
        /\ UNCHANGED <<log, walPosition, isPrimary, lastAcked>>
        /\ UNCHANGED <<lastApplied, healthy, promoted, applied>>
        /\ conn' = FALSE /\ toStandby' = <<>> /\ toPrimary' = <<>> /\ pending' = {} /\ beatStuck' = FALSE
        /\ failover' \in {failover, "promote"} /\ faults' \in 0 .. MaxFaults
    BY <1>0, <1>3 DEF CrashPrimary, CloseConnection, NodeTypes
  <2>2. pc' \in [Client -> {"idle", "queued", "direct", "applied", "failed", "waiting", "done"}]
    BY <1>0, <1>3 DEF CrashPrimary, AdapterTypes
  <2>3. AdapterTypes'
    BY <1>0, <1>e, <2>1, <2>2 DEF AdapterTypes
  <2>4. NetTypes'
    BY <1>0, <1>e, <2>1 DEF NetTypes
  <2>5. NodeTypes'
    <3>1. 0 \in 0 .. Len(log)
      BY <1>0
    <3>2. target' \in [Client -> 0 .. Len(log)]
      BY <2>1, <3>1
    <3> QED
      BY <1>0, <2>1, <3>2 DEF NodeTypes
  <2> QED
    BY <2>3, <2>4, <2>5 DEF TypeInv
<1>4. CASE RestartPrimary
  <2>1. /\ alive' = TRUE /\ isPrimary' = TRUE /\ lastAcked' = 0 /\ walPosition' = Len(log)
        /\ UNCHANGED <<pc, queue, log, posCh, memWAL, unpublished, target>>
        /\ UNCHANGED <<netVars, standbyVars, faults>>
    BY <1>4 DEF RestartPrimary
  <2>2. AdapterTypes'
    BY <1>0, <2>1 DEF AdapterTypes
  <2>3. NetTypes' /\ NodeTypes'
    BY <1>0, <2>1 DEF NetTypes, NodeTypes, netVars, standbyVars
  <2> QED
    BY <2>2, <2>3 DEF TypeInv
<1>5. CASE RestartStandby
  <2>1. /\ UNCHANGED <<adapterVars, primaryVars, applied>>
        /\ lastApplied' = 0 /\ healthy' = FALSE /\ promoted' = FALSE /\ failover' = "none"
        /\ conn' = FALSE /\ toStandby' = <<>> /\ toPrimary' = <<>> /\ pending' = {} /\ beatStuck' = FALSE
        /\ faults' \in 0 .. MaxFaults
    BY <1>0, <1>5 DEF RestartStandby, NodeTypes
  <2>2. AdapterTypes' /\ NetTypes'
    BY <1>0, <1>e, <2>1 DEF AdapterTypes, NetTypes, adapterVars
  <2>3. NodeTypes'
    <3>1. 0 \in 0 .. Len(log) /\ log' = log
      BY <1>0, <2>1 DEF adapterVars
    <3>2. /\ isPrimary' = isPrimary /\ alive' = alive /\ target' = target /\ lastAcked' = lastAcked
          /\ applied' = applied
      BY <2>1 DEF primaryVars
    <3> QED
      BY <1>0, <2>1, <3>1, <3>2 DEF NodeTypes
  <2> QED
    BY <2>2, <2>3 DEF TypeInv
<1> QED
  BY <1>1, <1>2, <1>3, <1>4, <1>5

\* The initial state has the types.
LEMMA InitTypeInv == Init => TypeInv
<1> SUFFICES ASSUME Init PROVE TypeInv
  OBVIOUS
<1>0. Len(log) = 0 /\ log \in Seq(Client) /\ MaxFaults \in Nat
  BY HAAssumption DEF Init, AdapterInit
<1>e. /\ <<>> \in Seq(ToStandby(Len(log))) /\ <<>> \in Seq(ToPrimary(Len(log)))
      /\ <<>> \in Seq(1 .. Len(log)) /\ <<>> \in Seq(Client)
  BY EmptySeq
<1>1. AdapterTypes
  BY <1>0, <1>e DEF Init, AdapterInit, AdapterTypes
<1>2. NodeTypes
  <2>1. 0 \in 0 .. Len(log) /\ 0 \in 0 .. MaxFaults
    BY <1>0
  <2>2. target \in [Client -> 0 .. Len(log)]
    BY <2>1 DEF Init
  <2>3. /\ isPrimary \in BOOLEAN /\ alive \in BOOLEAN /\ promoted \in BOOLEAN /\ healthy \in BOOLEAN
        /\ failover \in {"none", "fence", "fencing", "promote"}
    BY DEF Init
  <2>4. lastAcked \in 0 .. Len(log) /\ lastApplied \in 0 .. Len(log) /\ faults \in 0 .. MaxFaults
    BY <2>1 DEF Init
  <2>5. applied \in Seq(Client)
    BY <1>e DEF Init
  <2> QED
    BY <2>2, <2>3, <2>4, <2>5 DEF NodeTypes
<1>3. NetTypes
  BY <1>e DEF Init, NetTypes
<1> QED
  BY <1>1, <1>2, <1>3 DEF TypeInv

\* Every step keeps the types.
LEMMA NextTypeInv ==
    ASSUME TypeInv, [Next]_vars
    PROVE  TypeInv'
<1>1. CASE UNCHANGED vars
  BY <1>1 DEF vars, adapterVars, primaryVars, netVars, standbyVars, TypeInv, AdapterTypes, NodeTypes, NetTypes
<1>2. ASSUME Writer PROVE TypeInv'
  <2>1. AdapterTypes /\ NodeTypes /\ NetTypes /\ log \in Seq(Client)
    BY DEF TypeInv, AdapterTypes
  <2>2. WriterStep /\ UNCHANGED <<primaryVars, netVars, standbyVars, faults>>
    BY <1>2 DEF Writer
  <2>3. AdapterTypes' /\ Len(log) <= Len(log')
    BY <2>1, <2>2, AdapterKeepsTypes
  <2>4. log' \in Seq(Client)
    BY <2>3 DEF AdapterTypes
  <2> QED
    BY <2>1, <2>2, <2>3, <2>4, LogGrows DEF TypeInv
<1> QED
  BY <1>1, <1>2, CallTypes, PrimaryTypes, StandbyTypes, FaultTypes DEF Next

\* All the variables stay in their ranges, and no message, no entry in memory and
\* no position names a record the log does not have, whatever may happen.
THEOREM TypesHold == Spec => []TypeOK
<1>1. Spec => []TypeInv
  BY InitTypeInv, NextTypeInv, PTL DEF Spec
<1> QED
  BY <1>1, TypeInvImplies, PTL

-----------------------------------------------------------------------------
(***************************************************************************)
(* The end of the log in memory stays in order and without a hole.         *)
(***************************************************************************)
HoldInv == DeadInv /\ OwedInv /\ MemInv

\* What a sequence holds.
LEMMA RangeIs ==
    ASSUME NEW S, NEW s \in Seq(S)
    PROVE  /\ \A x : x \in Range(s) <=> \E i \in 1 .. Len(s) : s[i] = x
           /\ Range(s) \subseteq S
BY DEF Range

\* Together they hold what each holds.
LEMMA RangeConcat ==
    ASSUME NEW S, NEW s \in Seq(S), NEW t \in Seq(S)
    PROVE  Range(s \o t) = Range(s) \cup Range(t)
<1>1. /\ s \o t \in Seq(S) /\ Len(s \o t) = Len(s) + Len(t) /\ Len(s) \in Nat /\ Len(t) \in Nat
      /\ \A i \in 1 .. Len(s) + Len(t) : (s \o t)[i] = IF i <= Len(s) THEN s[i] ELSE t[i - Len(s)]
  BY ConcatProperties
<1> DEFINE u == s \o t
<1> HIDE DEF u
<1>2. \A x : x \in Range(u) => x \in Range(s) \cup Range(t)
  <2> TAKE x
  <2> HAVE x \in Range(u)
  <2>1. PICK i \in 1 .. Len(u) : u[i] = x
    BY <1>1, RangeIs DEF u
  <2>2. i \in 1 .. Len(s) + Len(t)
    BY <1>1, <2>1 DEF u
  <2>3. CASE i <= Len(s)
    <3>1. i \in 1 .. Len(s) /\ s[i] = x
      BY <1>1, <2>1, <2>2, <2>3 DEF u
    <3> QED
      BY <3>1, RangeIs
  <2>4. CASE ~(i <= Len(s))
    <3>1. i - Len(s) \in 1 .. Len(t) /\ t[i - Len(s)] = x
      BY <1>1, <2>1, <2>2, <2>4 DEF u
    <3> QED
      BY <3>1, RangeIs
  <2> QED
    BY <2>3, <2>4
<1>3. \A x : x \in Range(s) => x \in Range(u)
  <2> TAKE x
  <2> HAVE x \in Range(s)
  <2>1. PICK i \in 1 .. Len(s) : s[i] = x
    BY RangeIs
  <2>2. i \in 1 .. Len(s) + Len(t) /\ u[i] = x /\ i \in 1 .. Len(u)
    BY <1>1, <2>1 DEF u
  <2> QED
    BY <1>1, <2>2, RangeIs DEF u
<1>4. \A x : x \in Range(t) => x \in Range(u)
  <2> TAKE x
  <2> HAVE x \in Range(t)
  <2>1. PICK i \in 1 .. Len(t) : t[i] = x
    BY RangeIs
  <2>2. i + Len(s) \in 1 .. Len(s) + Len(t) /\ ~(i + Len(s) <= Len(s)) /\ (i + Len(s)) - Len(s) = i
    BY <1>1
  <2>3. u[i + Len(s)] = x /\ i + Len(s) \in 1 .. Len(u)
    BY <1>1, <2>1, <2>2 DEF u
  <2> QED
    BY <1>1, <2>3, RangeIs DEF u
<1> QED
  BY <1>2, <1>3, <1>4 DEF u

\* One element more.
LEMMA RangeAppend ==
    ASSUME NEW S, NEW s \in Seq(S), NEW x \in S
    PROVE  Range(Append(s, x)) = Range(s) \cup {x}
<1>1. Append(s, x) = s \o <<x>> /\ <<x>> \in Seq(S)
  BY AppendIsConcat
<1>2. Range(<<x>>) = {x}
  BY DEF Range
<1>3. Range(s \o <<x>>) = Range(s) \cup Range(<<x>>)
  BY <1>1, RangeConcat, SMTT(30)
<1> QED
  BY <1>1, <1>2, <1>3, Zenon

\* Nothing is held by nobody.
LEMMA EmptyRange == Range(<<>>) = {}
BY DEF Range

\* Who brings a position.
LEMMA OwedIs ==
    \A q : q \in Owed <=> q \in Range(unpublished) \/ \E c \in Client : pc[c] = "direct" /\ q = posCh[c]
BY DEF Owed

\* Nothing of what is held changes.
LEMMA HoldFrame ==
    ASSUME TypeInv, HoldInv, UNCHANGED <<queue, log, posCh, memWAL, unpublished>>,
           \A c \in Client : /\ pc'[c] = "direct" <=> pc[c] = "direct"
                             /\ pc'[c] = "queued" => pc[c] = "queued",
           lastAcked' = lastAcked, ~alive' => ~alive
    PROVE  HoldInv'
<1>1. DeadInv'
  BY DEF HoldInv, DeadInv
<1>2. OwedInv'
  BY DEF HoldInv, OwedInv
<1>3. Owed' = Owed
  BY DEF Owed
<1>4. Held' = Held
  BY DEF Held
<1>5. MemInv'
  BY <1>3, <1>4 DEF HoldInv, MemInv, Sorted
<1> QED
  BY <1>1, <1>2, <1>5 DEF HoldInv

\* Records are appended to the log by someone who owes them.
LEMMA HoldGrows ==
    ASSUME TypeInv, MemInv, OwedInv, log' \in Seq(Client), Len(log) <= Len(log'),
           memWAL' = memWAL, lastAcked' = lastAcked,
           Owed \subseteq Owed', Owed' \subseteq Owed \cup (Len(log) + 1 .. Len(log')),
           Len(log) + 1 .. Len(log') \subseteq Owed',
           Held' \subseteq Held \cup (Len(log) + 1 .. Len(log'))
    PROVE  MemInv'
<1>0. Len(log) \in Nat /\ Len(log') \in Nat /\ memWAL \in Seq(1 .. Len(log)) /\ Len(memWAL) \in Nat
  BY DEF TypeInv, AdapterTypes
<1>1. Sorted(memWAL')
  BY DEF MemInv, Sorted
<1>2. ASSUME NEW q \in Owed', NEW i \in 1 .. Len(memWAL) PROVE memWAL[i] <= q
  <2>1. CASE q \in Owed
    BY <2>1, <1>2 DEF MemInv
  <2>2. CASE q \in Len(log) + 1 .. Len(log')
    <3>1. memWAL[i] \in 1 .. Len(log)
      BY <1>0, <1>2
    <3> QED
      BY <1>0, <2>2, <3>1
  <2> QED
    BY <2>1, <2>2, <1>2
<1>3. ASSUME NEW p \in Held', NEW q \in 1 .. Len(log'), p < q
      PROVE  q \in Range(memWAL) \/ q \in Owed' \/ q <= lastAcked
  <2>1. CASE q \in Len(log) + 1 .. Len(log')
    BY <2>1
  <2>2. CASE q \in 1 .. Len(log)
    <3>1. p \in Held
      <4>1. p \notin Len(log) + 1 .. Len(log')
        BY <1>0, <1>3, <2>2
      <4> QED
        BY <4>1, <1>3
    <3>2. q \in Range(memWAL) \/ q \in Owed \/ q <= lastAcked
      BY <1>3, <2>2, <3>1 DEF MemInv
    <3> QED
      BY <3>2
  <2> QED
    BY <1>0, <1>3, <2>1, <2>2
<1> QED
  BY <1>1, <1>2, <1>3 DEF MemInv

\* A caller appends its record.
LEMMA AppendHold ==
    ASSUME TypeInv, HoldInv, NEW c \in Client, AppendDirectly(c), alive, alive' = alive, lastAcked' = lastAcked
    PROVE  HoldInv'
<1>0. /\ Len(log) \in Nat /\ log \in Seq(Client) /\ posCh \in [Client -> 0 .. Len(log)]
      /\ unpublished \in Seq(1 .. Len(log)) /\ DOMAIN pc = Client
  BY DEF TypeInv, AdapterTypes
<1>1. /\ pc[c] = "idle" /\ pc' = [pc EXCEPT ![c] = "direct"]
      /\ log' = Append(log, c) /\ posCh' = [posCh EXCEPT ![c] = Len(log')]
      /\ memWAL' = memWAL /\ unpublished' = unpublished
  BY DEF AppendDirectly
<1>2. log' \in Seq(Client) /\ Len(log') = Len(log) + 1 /\ Len(log) + 1 .. Len(log') = {Len(log) + 1}
  BY <1>0, <1>1
<1>3. \A d \in Client : /\ posCh'[d] = IF d = c THEN Len(log) + 1 ELSE posCh[d]
                        /\ pc'[d] = IF d = c THEN "direct" ELSE pc[d]
  BY <1>0, <1>1, <1>2
<1>4. Owed' = Owed \cup {Len(log) + 1}
  <2>1. \A q : q \in Owed' <=> q \in Range(unpublished) \/ \E d \in Client : pc'[d] = "direct" /\ q = posCh'[d]
    BY <1>1 DEF Owed
  <2>2. \A d \in Client : pc[d] = "direct" => d # c
    BY <1>1
  <2> QED
    BY <2>1, <2>2, <1>3, OwedIs
<1>5. Held' \subseteq Held \cup {Len(log) + 1}
  BY <1>1, <1>3 DEF Held
<1>6. MemInv'
  BY <1>0, <1>1, <1>2, <1>4, <1>5, HoldGrows DEF HoldInv
<1>7. OwedInv'
  <2>1. \A i \in 1 .. Len(unpublished) : unpublished[i] \in 1 .. Len(log)
    BY <1>0
  <2>2. \A i \in 1 .. Len(unpublished) : unpublished[i] # Len(log) + 1
    BY <1>0, <2>1
  <2>3. ASSUME NEW d \in Client, pc'[d] = "direct"
        PROVE  posCh'[d] > 0 /\ \A i \in 1 .. Len(unpublished) : unpublished[i] # posCh'[d]
    <3>1. CASE d = c
      BY <1>0, <1>3, <2>2, <3>1
    <3>2. CASE d # c
      BY <1>3, <2>3, <3>2 DEF HoldInv, OwedInv
    <3> QED
      BY <3>1, <3>2
  <2> QED
    BY <1>1, <2>3 DEF HoldInv, OwedInv
<1>8. DeadInv'
  BY DEF DeadInv
<1> QED
  BY <1>6, <1>7, <1>8 DEF HoldInv

\* The writer appends records.
LEMMA WriteHold ==
    ASSUME TypeInv, HoldInv, NEW n \in 1 .. Len(queue), WriteBatch(n), alive' = alive, lastAcked' = lastAcked
    PROVE  HoldInv'
<1>0. /\ Len(log) \in Nat /\ log \in Seq(Client) /\ posCh \in [Client -> 0 .. Len(log)]
      /\ queue \in Seq(Client) /\ n \in Nat /\ n >= 1
  BY DEF TypeInv, AdapterTypes
<1> DEFINE batch == SubSeq(queue, 1, n)
           At(c) == Len(log) + CHOOSE i \in 1 .. n : batch[i] = c
<1>1. batch \in Seq(Client) /\ Len(batch) = n
  BY <1>0, BatchTaken
<1>2. /\ log' = log \o batch /\ unpublished = <<>>
      /\ posCh' = [c \in Client |-> IF c \in Range(batch) /\ pc[c] = "queued" THEN At(c) ELSE posCh[c]]
      /\ unpublished' = [i \in 1 .. n |-> Len(log) + i]
      /\ pc' = pc /\ memWAL' = memWAL
  BY DEF WriteBatch
<1>3. \A c \in Range(batch) : At(c) \in Len(log) + 1 .. Len(log) + n
  <2> TAKE c \in Range(batch)
  <2>1. \E i \in 1 .. n : batch[i] = c
    BY <1>1 DEF Range
  <2> DEFINE j == CHOOSE i \in 1 .. n : batch[i] = c
  <2>2. j \in 1 .. n
    BY <2>1
  <2> HIDE DEF j
  <2>3. Len(log) + j \in Len(log) + 1 .. Len(log) + n
    BY <1>0, <2>2
  <2> QED
    BY <2>3 DEF j
<1> HIDE DEF batch, At
<1>4. log' \in Seq(Client) /\ Len(log') = Len(log) + n
  BY <1>0, <1>1, <1>2, ConcatProperties
<1>5. Range(unpublished') = Len(log) + 1 .. Len(log')
  <2> DEFINE interval == Len(log) + 1 .. Len(log')
  <2>1. \A i \in 1 .. n : Len(log) + i \in Len(log) + 1 .. Len(log')
    BY <1>0, <1>4
  <2>2. \A q \in Len(log) + 1 .. Len(log') : q - Len(log) \in 1 .. n /\ Len(log) + (q - Len(log)) = q
    BY <1>0, <1>4
  <2>3. DOMAIN unpublished' = 1 .. n /\ \A i \in 1 .. n : unpublished'[i] = Len(log) + i
    BY <1>2
  <2>4. \A q : q \in Range(unpublished') <=> \E i \in 1 .. n : q = Len(log) + i
    BY <2>3 DEF Range
  <2>5. \A q : q \in interval <=> \E i \in 1 .. n : q = Len(log) + i
    BY <2>1, <2>2, Zenon
  <2> HIDE DEF interval
  <2>6. Range(unpublished') = interval
    BY <2>4, <2>5, Zenon
  <2> QED
    BY <2>6 DEF interval
<1>6. \A c \in Client : pc[c] = "direct" => posCh'[c] = posCh[c]
  BY <1>2
<1>7. Owed' = Owed \cup (Len(log) + 1 .. Len(log'))
  <2>1. \A q : q \in Owed' <=> q \in Range(unpublished') \/ \E d \in Client : pc'[d] = "direct" /\ q = posCh'[d]
    BY DEF Owed
  <2>2. \A q : q \in Owed <=> \E c \in Client : pc[c] = "direct" /\ q = posCh[c]
    BY <1>2, OwedIs, EmptyRange
  <2>3. pc' = pc
    BY <1>2
  <2>4. \A q : (\E d \in Client : pc'[d] = "direct" /\ q = posCh'[d])
                <=> (\E c \in Client : pc[c] = "direct" /\ q = posCh[c])
    BY <1>6, <2>3, Zenon
  <2>5. \A q : q \in Owed' <=> q \in Range(unpublished') \/ q \in Owed
    BY <2>1, <2>2, <2>4, Zenon
  <2> QED
    BY <1>5, <2>5, Zenon
<1>8. Held' \subseteq Held \cup (Len(log) + 1 .. Len(log'))
  <2>1. \A c \in Client : posCh'[c] = posCh[c] \/ posCh'[c] \in Len(log) + 1 .. Len(log')
    BY <1>2, <1>3, <1>4
  <2>2. Range(memWAL') \subseteq Held /\ {posCh[c] : c \in Client} \ {0} \subseteq Held
    BY <1>2 DEF Held
  <2>3. {posCh'[c] : c \in Client} \ {0} \subseteq Held \cup (Len(log) + 1 .. Len(log'))
    BY <2>1, <2>2
  <2> QED
    BY <1>5, <2>2, <2>3 DEF Held
<1>9. Len(log) <= Len(log')
  BY <1>0, <1>4
<1>10. MemInv'
  BY <1>2, <1>4, <1>7, <1>8, <1>9, HoldGrows DEF HoldInv
<1>11. OwedInv'
  <2>1. Len(unpublished') = n /\ \A i \in 1 .. n : unpublished'[i] = Len(log) + i
    BY <1>0, <1>2
  <2>2. \A i \in 1 .. n : Len(log) + i = (Len(log) + 1) + (i - 1)
    BY <1>0
  <2>3. unpublished'[1] = Len(log) + 1
    BY <1>0, <2>1
  <2>4. ASSUME NEW c \in Client, pc'[c] = "direct"
        PROVE  posCh'[c] > 0 /\ \A i \in 1 .. n : unpublished'[i] # posCh'[c]
    <3>1. posCh'[c] = posCh[c] /\ posCh[c] > 0 /\ posCh[c] \in 0 .. Len(log)
      BY <1>0, <1>2, <1>6, <2>4 DEF HoldInv, OwedInv
    <3>2. \A i \in 1 .. n : Len(log) + i # posCh[c]
      BY <1>0, <3>1
    <3> QED
      BY <3>1, <3>2, <2>1
  <2> QED
    BY <2>1, <2>2, <2>3, <2>4 DEF OwedInv
<1>12. DeadInv'
  <2>1. queue # <<>>
    BY <1>0
  <2> QED
    BY <2>1 DEF HoldInv, DeadInv
<1> QED
  BY <1>10, <1>11, <1>12 DEF HoldInv

\* Memory takes one more entry, in turn.
LEMMA ExecuteHold ==
    ASSUME TypeInv, HoldInv, NEW c \in Client, Execute(c), "late" \notin Hazards,
           alive' = alive, lastAcked' = lastAcked
    PROVE  HoldInv'
<1>0. /\ Len(log) \in Nat /\ memWAL \in Seq(1 .. Len(log)) /\ Len(memWAL) \in Nat
      /\ posCh \in [Client -> 0 .. Len(log)] /\ DOMAIN pc = Client
  BY DEF TypeInv, AdapterTypes
<1>1. /\ pc[c] \in {"queued", "direct"} /\ (posCh[c] = 0 \/ InTurn(posCh[c]))
      /\ \E r \in {"failed", "applied"} : pc' = [pc EXCEPT ![c] = r]
      /\ memWAL' = IF posCh[c] > 0 THEN Append(memWAL, posCh[c]) ELSE memWAL
      /\ posCh' = [posCh EXCEPT ![c] = 0]
      /\ UNCHANGED <<queue, log, unpublished>>
  BY DEF Execute
<1>2. alive
  BY <1>1 DEF HoldInv, DeadInv
<1>3. \A d \in Client : /\ posCh'[d] = IF d = c THEN 0 ELSE posCh[d]
                        /\ d # c => pc'[d] = pc[d]
                        /\ pc'[d] = "direct" => pc[d] = "direct" /\ d # c
  BY <1>0, <1>1
<1>4. DeadInv'
  BY <1>2 DEF DeadInv
<1>5. OwedInv'
  BY <1>1, <1>3 DEF HoldInv, OwedInv
<1> DEFINE p == posCh[c]
<1>6. \A q \in Owed' : q \in Owed
  <2>1. \A q : q \in Owed' <=> q \in Range(unpublished) \/ \E d \in Client : pc'[d] = "direct" /\ q = posCh'[d]
    BY <1>1 DEF Owed
  <2> QED
    BY <2>1, <1>3, OwedIs
<1>7. \A q \in Owed : q \in Owed' \/ (q = p /\ p > 0)
  <2>1. \A q : q \in Owed' <=> q \in Range(unpublished) \/ \E d \in Client : pc'[d] = "direct" /\ q = posCh'[d]
    BY <1>1 DEF Owed
  <2>2. \A d \in Client : pc[d] = "direct" /\ d # c => pc'[d] = "direct" /\ posCh'[d] = posCh[d]
    BY <1>3
  <2>3. pc[c] = "direct" => p > 0
    BY DEF HoldInv, OwedInv
  <2> QED
    BY <2>1, <2>2, <2>3, OwedIs
<1>8. CASE p = 0
  <2>1. memWAL' = memWAL
    BY <1>1, <1>8
  <2>2. Owed' = Owed
    BY <1>6, <1>7, <1>8
  <2>3. Held' \subseteq Held
    BY <1>1, <1>3, <2>1 DEF Held
  <2>4. MemInv'
    BY <1>1, <2>1, <2>2, <2>3 DEF HoldInv, MemInv, Sorted
  <2> QED
    BY <1>4, <1>5, <2>4 DEF HoldInv
<1>9. CASE p # 0
  <2>1. p \in 1 .. Len(log) /\ InTurn(p)
    BY <1>0, <1>1, <1>9
  <2> HIDE DEF p
  <2>2. memWAL' = Append(memWAL, p)
    BY <1>0, <1>1, <2>1 DEF p
  <2> DEFINE P == 1 .. Len(log)
  <2>3. memWAL \in Seq(P) /\ p \in P
    BY <1>0, <2>1
  <2> HIDE DEF P
  <2>4. /\ memWAL' \in Seq(P) /\ Len(memWAL') = Len(memWAL) + 1
        /\ \A j \in 1 .. Len(memWAL) + 1 : memWAL'[j] = IF j = Len(memWAL) + 1 THEN p ELSE memWAL[j]
    BY <2>2, <2>3, Appended
  <2>5. Range(memWAL') = Range(memWAL) \cup {p}
    BY <2>2, <2>3, RangeAppend
  <2>6. /\ \A i \in 1 .. Len(memWAL) : memWAL[i] <= p
        /\ \A q \in Owed : p <= q
    BY <1>0, <2>1 DEF InTurn
  <2>7. Sorted(memWAL')
    <3> SUFFICES ASSUME NEW i \in 1 .. Len(memWAL'), NEW j \in 1 .. Len(memWAL'), i <= j
                 PROVE  memWAL'[i] <= memWAL'[j]
      BY DEF Sorted
    <3>1. i \in 1 .. Len(memWAL) + 1 /\ j \in 1 .. Len(memWAL) + 1
      BY <2>4
    <3>2. CASE j # Len(memWAL) + 1
      <4>1. i \in 1 .. Len(memWAL) /\ j \in 1 .. Len(memWAL) /\ i # Len(memWAL) + 1
        BY <1>0, <3>1, <3>2
      <4>2. memWAL[i] <= memWAL[j]
        BY <4>1 DEF HoldInv, MemInv, Sorted
      <4> QED
        BY <2>4, <3>1, <3>2, <4>1, <4>2
    <3>3. CASE j = Len(memWAL) + 1
      <4>1. memWAL'[j] = p
        BY <2>4, <3>1, <3>3
      <4>2. CASE i = Len(memWAL) + 1
        BY <2>1, <2>4, <3>1, <4>1, <4>2
      <4>3. CASE i # Len(memWAL) + 1
        <5>1. i \in 1 .. Len(memWAL) /\ memWAL'[i] = memWAL[i]
          BY <1>0, <2>4, <3>1, <4>3
        <5> QED
          BY <2>6, <4>1, <5>1
      <4> QED
        BY <4>2, <4>3
    <3> QED
      BY <3>2, <3>3
  <2>8. \A q \in Owed' : \A i \in 1 .. Len(memWAL') : memWAL'[i] <= q
    <3> SUFFICES ASSUME NEW q \in Owed', NEW i \in 1 .. Len(memWAL') PROVE memWAL'[i] <= q
      OBVIOUS
    <3>1. i \in 1 .. Len(memWAL) + 1 /\ q \in Owed
      BY <2>4, <1>6
    <3>2. CASE i = Len(memWAL) + 1
      BY <2>4, <2>6, <3>1, <3>2
    <3>3. CASE i # Len(memWAL) + 1
      <4>1. i \in 1 .. Len(memWAL) /\ memWAL'[i] = memWAL[i]
        BY <1>0, <2>4, <3>1, <3>3
      <4> QED
        BY <3>1, <4>1 DEF HoldInv, MemInv
    <3> QED
      BY <3>2, <3>3
  <2>9. Held' \subseteq Held
    <3>1. p \in Held
      BY <1>9 DEF Held, p
    <3> QED
      BY <1>1, <1>3, <2>5, <3>1 DEF Held
  <2>10. \A r \in Held' : \A q \in 1 .. Len(log) :
            r < q => q \in Range(memWAL') \/ q \in Owed' \/ q <= lastAcked
    <3> SUFFICES ASSUME NEW r \in Held', NEW q \in 1 .. Len(log), r < q
                 PROVE  q \in Range(memWAL') \/ q \in Owed' \/ q <= lastAcked
      OBVIOUS
    <3>1. q \in Range(memWAL) \/ q \in Owed \/ q <= lastAcked
      BY <2>9 DEF HoldInv, MemInv
    <3> QED
      BY <3>1, <2>5, <1>7 DEF p
  <2>11. MemInv'
    BY <1>1, <2>7, <2>8, <2>10 DEF MemInv
  <2> QED
    BY <1>4, <1>5, <2>11 DEF HoldInv
<1> QED
  BY <1>8, <1>9

\* Memory takes the writer's entries, in turn.
LEMMA PublishHold ==
    ASSUME TypeInv, HoldInv, PublishBatch, "late" \notin Hazards, alive' = alive, lastAcked' = lastAcked
    PROVE  HoldInv'
<1> DEFINE P == 1 .. Len(log)
           m == memWAL
           u == unpublished
           h == u[1]
<1>0. /\ Len(log) \in Nat /\ m \in Seq(P) /\ u \in Seq(P) /\ Len(m) \in Nat /\ Len(u) \in Nat
      /\ \A i \in 1 .. Len(u) : u[i] \in P
      /\ \A i \in 1 .. Len(m) : m[i] \in P
      /\ \A c \in Client : posCh[c] \in 0 .. Len(log)
  <2>1. /\ log \in Seq(Client) /\ m \in Seq(P) /\ u \in Seq(P)
        /\ \A c \in Client : posCh[c] \in 0 .. Len(log)
    BY DEF TypeInv, AdapterTypes
  <2> HIDE DEF P, m, u
  <2>2. /\ Len(m) \in Nat /\ Len(u) \in Nat
        /\ \A i \in 1 .. Len(u) : u[i] \in P
        /\ \A i \in 1 .. Len(m) : m[i] \in P
    BY <2>1, LenProperties, ElementOfSeq
  <2> QED
    BY <2>1, <2>2
<1>1. /\ u # <<>> /\ InTurn(Head(u)) /\ memWAL' = m \o u /\ unpublished' = <<>>
      /\ UNCHANGED <<pc, queue, log, posCh, walPosition>>
  BY DEF PublishBatch
<1>2. alive
  BY <1>1 DEF HoldInv, DeadInv
<1>3. Len(u) >= 1 /\ Head(u) = h /\ h \in P
  <2> HIDE DEF P, u
  <2>1. Len(u) >= 1 /\ Head(u) = u[1] /\ Head(u) \in P
    BY <1>0, <1>1, Shortened
  <2> QED
    BY <2>1
<1>4. \A i \in 1 .. Len(u) : u[i] = h + (i - 1)
  BY DEF HoldInv, OwedInv
<1>5. /\ \A i \in 1 .. Len(m) : m[i] <= h
      /\ \A q \in Owed : h <= q
  BY <1>0, <1>1, <1>3 DEF InTurn
<1>6. /\ memWAL' \in Seq(P) /\ Len(memWAL') = Len(m) + Len(u)
      /\ \A i \in 1 .. Len(m) + Len(u) : memWAL'[i] = IF i <= Len(m) THEN m[i] ELSE u[i - Len(m)]
      /\ Range(memWAL') = Range(m) \cup Range(u)
  <2> HIDE DEF P, m, u
  <2> QED
    BY <1>0, <1>1, ConcatProperties, RangeConcat
<1>7. \A i \in 1 .. Len(m) + Len(u) :
         \/ i \in 1 .. Len(m) /\ memWAL'[i] = m[i]
         \/ i > Len(m) /\ i - Len(m) \in 1 .. Len(u) /\ memWAL'[i] = h + ((i - Len(m)) - 1)
  <2> TAKE i \in 1 .. Len(m) + Len(u)
  <2>1. CASE i <= Len(m)
    BY <1>0, <1>6, <2>1
  <2>2. CASE ~(i <= Len(m))
    <3>1. i - Len(m) \in 1 .. Len(u) /\ i > Len(m)
      BY <1>0, <2>2
    <3>2. memWAL'[i] = u[i - Len(m)]
      BY <1>6, <2>2
    <3> QED
      BY <1>4, <3>1, <3>2
  <2> QED
    BY <2>1, <2>2
<1>h. h \in Nat
  BY <1>0, <1>3
<1> HIDE DEF P, m, u, h
<1>8. Sorted(memWAL')
  <2> SUFFICES ASSUME NEW i \in 1 .. Len(m) + Len(u), NEW j \in 1 .. Len(m) + Len(u), i <= j
               PROVE  memWAL'[i] <= memWAL'[j]
    BY <1>6 DEF Sorted
  <2>1. CASE j \in 1 .. Len(m) /\ memWAL'[j] = m[j]
    <3>1. i \in 1 .. Len(m)
      BY <1>0, <2>1
    <3>2. memWAL'[i] = m[i]
      BY <1>0, <1>7, <3>1
    <3>3. m[i] <= m[j]
      BY <2>1, <3>1 DEF HoldInv, MemInv, Sorted, m
    <3> QED
      BY <2>1, <3>2, <3>3
  <2>2. CASE j > Len(m) /\ j - Len(m) \in 1 .. Len(u) /\ memWAL'[j] = h + ((j - Len(m)) - 1)
    <3>1. CASE i \in 1 .. Len(m) /\ memWAL'[i] = m[i]
      <4>1. m[i] <= h /\ m[i] \in Nat
        BY <1>0, <1>5, <3>1 DEF P
      <4> QED
        BY <1>0, <1>h, <2>2, <3>1, <4>1
    <3>2. CASE i > Len(m) /\ i - Len(m) \in 1 .. Len(u) /\ memWAL'[i] = h + ((i - Len(m)) - 1)
      BY <1>0, <1>h, <2>2, <3>2
    <3> QED
      BY <1>7, <3>1, <3>2
  <2> QED
    BY <1>7, <2>1, <2>2
<1>9. \A q : q \in Owed' <=> \E c \in Client : pc[c] = "direct" /\ q = posCh[c]
  <2>1. \A q : q \in Owed' <=> q \in Range(unpublished') \/ \E c \in Client : pc'[c] = "direct" /\ q = posCh'[c]
    BY DEF Owed
  <2> QED
    BY <1>1, <2>1, EmptyRange
<1>10. \A q \in Owed' : q \in Owed /\ q \in Nat /\ q >= h + Len(u)
  <2> SUFFICES ASSUME NEW q \in Owed' PROVE q \in Owed /\ q \in Nat /\ q >= h + Len(u)
    OBVIOUS
  <2>1. PICK c \in Client : pc[c] = "direct" /\ q = posCh[c]
    BY <1>9
  <2>2. q \in Owed /\ q \in Nat
    BY <1>0, <2>1, OwedIs
  <2>3. h <= q
    BY <1>5, <2>2
  <2>4. \A i \in 1 .. Len(u) : h + (i - 1) # q
    BY <1>4, <2>1 DEF HoldInv, OwedInv, u, h
  <2>5. ~(q < h + Len(u))
    <3> SUFFICES ASSUME q < h + Len(u) PROVE FALSE
      OBVIOUS
    <3>1. (q - h) + 1 \in 1 .. Len(u) /\ h + (((q - h) + 1) - 1) = q
      BY <1>0, <1>h, <2>2, <2>3
    <3> QED
      BY <2>4, <3>1
  <2> QED
    BY <1>0, <1>h, <2>2, <2>5
<1>11. \A q \in Owed' : \A i \in 1 .. Len(memWAL') : memWAL'[i] <= q
  <2> SUFFICES ASSUME NEW q \in Owed', NEW i \in 1 .. Len(m) + Len(u) PROVE memWAL'[i] <= q
    BY <1>6
  <2>1. q \in Nat /\ q >= h + Len(u)
    BY <1>10
  <2>2. CASE i \in 1 .. Len(m) /\ memWAL'[i] = m[i]
    <3>1. m[i] <= h /\ m[i] \in Nat
      BY <1>0, <1>5, <2>2 DEF P
    <3> QED
      BY <1>0, <1>h, <2>1, <2>2, <3>1
  <2>3. CASE i > Len(m) /\ i - Len(m) \in 1 .. Len(u) /\ memWAL'[i] = h + ((i - Len(m)) - 1)
    BY <1>0, <1>h, <2>1, <2>3
  <2> QED
    BY <1>7, <2>2, <2>3
<1>12. Held' \subseteq Held
  BY <1>1, <1>6, EmptyRange DEF Held, m, u
<1>13. \A q \in Owed : q \in Owed' \/ q \in Range(memWAL')
  BY <1>6, <1>9, OwedIs DEF u
<1>14. MemInv'
  <2>1. \A r \in Held' : \A q \in 1 .. Len(log) :
            r < q => q \in Range(memWAL') \/ q \in Owed' \/ q <= lastAcked
    <3> SUFFICES ASSUME NEW r \in Held', NEW q \in 1 .. Len(log), r < q
                 PROVE  q \in Range(memWAL') \/ q \in Owed' \/ q <= lastAcked
      OBVIOUS
    <3>1. q \in Range(memWAL) \/ q \in Owed \/ q <= lastAcked
      BY <1>12 DEF HoldInv, MemInv
    <3> QED
      BY <3>1, <1>6, <1>13 DEF m
  <2> QED
    BY <1>1, <1>8, <1>11, <2>1 DEF MemInv
<1>15. OwedInv'
  BY <1>1 DEF HoldInv, OwedInv
<1>16. DeadInv'
  BY <1>2 DEF DeadInv
<1> QED
  BY <1>14, <1>15, <1>16 DEF HoldInv

\* An acknowledgement drops what it covers.
LEMMA PruneHold ==
    ASSUME TypeInv, HoldInv, NEW pos \in 0 .. Len(log), AcknowledgePosition(pos),
           UNCHANGED <<pc, queue, log, posCh, unpublished, alive>>
    PROVE  HoldInv'
<1> DEFINE P == 1 .. Len(log)
           lo == FirstAbove(memWAL, pos)
           t == SubSeq(memWAL, lo + 1, Len(memWAL))
<1>0. /\ Len(log) \in Nat /\ memWAL \in Seq(P) /\ Len(memWAL) \in Nat /\ lastAcked \in Nat
      /\ \A i \in 1 .. Len(memWAL) : memWAL[i] \in P
      /\ pos \in Nat
  <2>1. Len(log) \in Nat /\ memWAL \in Seq(P) /\ lastAcked \in 0 .. Len(log)
    BY DEF TypeInv, AdapterTypes, NodeTypes
  <2>2. lastAcked \in Nat /\ pos \in Nat
    BY <2>1
  <2> HIDE DEF P
  <2>3. Len(memWAL) \in Nat /\ \A i \in 1 .. Len(memWAL) : memWAL[i] \in P
    BY <2>1, LenProperties, ElementOfSeq
  <2> QED
    BY <2>1, <2>2, <2>3
<1>1. memWAL' = t /\ lastAcked' = IF pos > lastAcked THEN pos ELSE lastAcked
  BY DEF AcknowledgePosition, PruneWALEntries
<1>2. Sorted(memWAL) /\ memWAL \in Seq(Nat)
  <2>1. P \subseteq Nat
    BY <1>0
  <2> HIDE DEF P
  <2> QED
    BY <1>0, <2>1, SeqMonotonic DEF HoldInv, MemInv
<1>3. /\ lo \in 0 .. Len(memWAL)
      /\ \A i \in 1 .. Len(memWAL) : i <= lo => memWAL[i] <= pos
  BY <1>0, <1>2, FirstAboveFinds
<1>4. /\ t \in Seq(P) /\ Len(t) = Len(memWAL) - lo
      /\ \A i \in 1 .. Len(memWAL) - lo : t[i] = memWAL[lo + i]
  <2> HIDE DEF lo
  <2>1. lo + 1 \in Int /\ Len(memWAL) \in Int /\ lo \in Nat /\ lo <= Len(memWAL)
    BY <1>0, <1>3
  <2>2. \A i \in lo + 1 .. Len(memWAL) : memWAL[i] \in P
    BY <1>0, <1>3
  <2> HIDE DEF P
  <2>3. /\ t \in Seq(P) /\ Len(t) = IF lo + 1 <= Len(memWAL) THEN Len(memWAL) - (lo + 1) + 1 ELSE 0
        /\ \A i \in 1 .. Len(memWAL) - (lo + 1) + 1 : t[i] = memWAL[(lo + 1) + i - 1]
    BY <2>1, <2>2, SubSeqProperties
  <2> HIDE DEF t
  <2>4. Len(t) = Len(memWAL) - lo
    BY <2>1, <2>3, <1>0
  <2>5. Len(memWAL) - (lo + 1) + 1 = Len(memWAL) - lo /\ \A i \in 1 .. Len(memWAL) - lo : (lo + 1) + i - 1 = lo + i
    BY <2>1, <1>0
  <2> QED
    BY <2>3, <2>4, <2>5
<1> HIDE DEF P, lo, t
<1>5. \A i \in 1 .. Len(t) : lo + i \in 1 .. Len(memWAL) /\ t[i] = memWAL[lo + i]
  BY <1>0, <1>3, <1>4
<1>6. Sorted(memWAL')
  <2> SUFFICES ASSUME NEW i \in 1 .. Len(t), NEW j \in 1 .. Len(t), i <= j
               PROVE  t[i] <= t[j]
    BY <1>1 DEF Sorted
  <2>1. lo + i <= lo + j /\ lo + i \in 1 .. Len(memWAL) /\ lo + j \in 1 .. Len(memWAL)
    BY <1>3, <1>5
  <2> QED
    BY <1>2, <1>5, <2>1 DEF Sorted
<1>7. Owed' = Owed
  BY DEF Owed
<1>8. Range(t) \subseteq Range(memWAL)
  <2>1. \A x \in Range(t) : \E i \in 1 .. Len(t) : t[i] = x
    BY <1>4, RangeIs
  <2> QED
    BY <1>0, <1>5, <2>1, RangeIs
<1>9. \A q \in Range(memWAL) : q \in Range(t) \/ q <= pos
  <2> TAKE q \in Range(memWAL)
  <2>1. PICK i \in 1 .. Len(memWAL) : memWAL[i] = q
    BY <1>0, RangeIs
  <2>2. CASE i <= lo
    BY <1>3, <2>1, <2>2
  <2>3. CASE ~(i <= lo)
    <3>1. i - lo \in 1 .. Len(t) /\ lo + (i - lo) = i
      BY <1>0, <1>3, <1>4, <2>3
    <3>2. t[i - lo] = q
      BY <1>5, <2>1, <3>1
    <3> QED
      BY <1>4, <3>1, <3>2, RangeIs
  <2> QED
    BY <2>2, <2>3
<1>10. Held' \subseteq Held
  BY <1>1, <1>8 DEF Held
<1>11. \A q \in Nat : q <= lastAcked \/ q <= pos => q <= lastAcked'
  BY <1>0, <1>1
<1>12. \A q \in Owed' : \A i \in 1 .. Len(memWAL') : memWAL'[i] <= q
  <2> SUFFICES ASSUME NEW q \in Owed, NEW i \in 1 .. Len(t) PROVE t[i] <= q
    BY <1>1, <1>7
  <2> QED
    BY <1>5 DEF HoldInv, MemInv
<1>13. \A r \in Held' : \A q \in 1 .. Len(log) :
            r < q => q \in Range(memWAL') \/ q \in Owed' \/ q <= lastAcked'
  <2> SUFFICES ASSUME NEW r \in Held', NEW q \in 1 .. Len(log), r < q
               PROVE  q \in Range(memWAL') \/ q \in Owed' \/ q <= lastAcked'
    OBVIOUS
  <2>1. q \in Range(memWAL) \/ q \in Owed \/ q <= lastAcked
    BY <1>10 DEF HoldInv, MemInv
  <2>2. q \in Nat
    BY <1>0
  <2> QED
    BY <2>1, <2>2, <1>1, <1>7, <1>9, <1>11
<1>14. MemInv'
  BY <1>6, <1>12, <1>13 DEF MemInv
<1>15. OwedInv'
  BY DEF HoldInv, OwedInv
<1>16. DeadInv'
  <2>1. memWAL = <<>> => t = <<>>
    <3> SUFFICES ASSUME memWAL = <<>> PROVE t = <<>>
      OBVIOUS
    <3>1. Len(memWAL) = 0 /\ Len(t) = 0
      BY <1>3, <1>4
    <3> QED
      BY <1>4, <3>1, EmptySeq
  <2> QED
    BY <1>1, <2>1 DEF HoldInv, DeadInv
<1> QED
  BY <1>14, <1>15, <1>16 DEF HoldInv

\* A process that has lost everything holds nothing.
LEMMA NoneHold ==
    ASSUME memWAL' = <<>>, unpublished' = <<>>, queue' = <<>>,
           \A c \in Client : posCh'[c] = 0 /\ pc'[c] \notin {"queued", "direct"}
    PROVE  HoldInv'
<1>1. Owed' = {} /\ Held' = {}
  BY EmptyRange DEF Owed, Held
<1>2. Len(memWAL') = 0 /\ Len(unpublished') = 0
  OBVIOUS
<1>3. MemInv'
  BY <1>1, <1>2 DEF MemInv, Sorted
<1>4. OwedInv'
  BY <1>2 DEF OwedInv
<1>5. DeadInv'
  BY DEF DeadInv
<1> QED
  BY <1>3, <1>4, <1>5 DEF HoldInv

\* Nor does one that has just started.
LEMMA InitHold == Init => HoldInv
<1> SUFFICES ASSUME Init PROVE HoldInv
  OBVIOUS
<1>0. /\ memWAL = <<>> /\ unpublished = <<>> /\ alive = TRUE
      /\ \A c \in Client : posCh[c] = 0 /\ pc[c] = "idle"
  BY DEF Init, AdapterInit
<1>1. Owed = {} /\ Held = {}
  BY <1>0, EmptyRange DEF Owed, Held
<1>2. Len(memWAL) = 0 /\ Len(unpublished) = 0
  BY <1>0
<1>3. MemInv
  BY <1>1, <1>2 DEF MemInv, Sorted
<1>4. OwedInv
  BY <1>0, <1>2 DEF OwedInv
<1> QED
  BY <1>0, <1>3, <1>4 DEF HoldInv, DeadInv

\* A record is queued.
LEMMA EnqueueHold ==
    ASSUME TypeInv, HoldInv, NEW c \in Client, Enqueue(c), alive, alive' = alive, lastAcked' = lastAcked
    PROVE  HoldInv'
<1>0. DOMAIN pc = Client
  BY DEF TypeInv, AdapterTypes
<1>1. /\ pc[c] = "idle" /\ pc' = [pc EXCEPT ![c] = "queued"]
      /\ UNCHANGED <<log, posCh, walPosition, memWAL, unpublished>>
  BY DEF Enqueue
<1>2. \A d \in Client : pc'[d] = "direct" <=> pc[d] = "direct"
  BY <1>0, <1>1
<1>3. Owed' = Owed /\ Held' = Held
  BY <1>1, <1>2 DEF Owed, Held
<1>4. MemInv'
  BY <1>1, <1>3 DEF HoldInv, MemInv, Sorted
<1>5. OwedInv'
  BY <1>1, <1>2 DEF HoldInv, OwedInv
<1>6. DeadInv'
  BY DEF DeadInv
<1> QED
  BY <1>4, <1>5, <1>6 DEF HoldInv

\* A call goes on after its command was run.
LEMMA ReturnHold ==
    ASSUME TypeInv, HoldInv, NEW c \in Client, AwaitAck(c) \/ Acknowledged(c) \/ TimeOut(c)
    PROVE  HoldInv'
<1>1. /\ pc[c] \in {"applied", "waiting"}
      /\ \E r \in {"waiting", "done", "failed"} : pc' = [pc EXCEPT ![c] = r]
      /\ UNCHANGED <<queue, log, posCh, memWAL, unpublished, alive, lastAcked>>
  BY DEF AwaitAck, Acknowledged, TimeOut, Return
<1>2. DOMAIN pc = Client
  BY DEF TypeInv, AdapterTypes
<1>3. \A d \in Client : /\ pc'[d] = "direct" <=> pc[d] = "direct"
                        /\ pc'[d] = "queued" => pc[d] = "queued"
  BY <1>1, <1>2
<1> QED
  BY <1>1, <1>3, HoldFrame

\* Every step keeps memory in order, when entries come in turn.
LEMMA NextHold ==
    ASSUME TypeInv, HoldInv, [Next]_vars, "late" \notin Hazards
    PROVE  HoldInv'
<1>1. ASSUME NEW c \in Client, Apply(c) PROVE HoldInv'
  <2>1. alive /\ alive' = alive /\ lastAcked' = lastAcked /\ (Enqueue(c) \/ AppendDirectly(c))
    BY <1>1 DEF Apply, primaryVars
  <2> QED
    BY <2>1, EnqueueHold, AppendHold
<1>2. ASSUME NEW c \in Client, Adapter(c) PROVE HoldInv'
  <2>1. Execute(c) /\ alive' = alive /\ lastAcked' = lastAcked
    BY <1>2 DEF Adapter, primaryVars
  <2> QED
    BY <2>1, ExecuteHold
<1>3. ASSUME Writer PROVE HoldInv'
  <2>1. WriterStep /\ alive' = alive /\ lastAcked' = lastAcked
    BY <1>3 DEF Writer, primaryVars
  <2> QED
    BY <2>1, PublishHold, WriteHold DEF WriterStep
<1>4. ASSUME NEW s \in Sender, Deliver(s) PROVE HoldInv'
  <2>1. /\ UNCHANGED <<pc, queue, log, posCh, unpublished, alive>> /\ toPrimary # <<>>
        /\ IF Head(toPrimary).kind = "acked" THEN AcknowledgePosition(Head(toPrimary).pos)
           ELSE UNCHANGED <<lastAcked, memWAL>>
    BY <1>4 DEF Deliver
  <2>2. CASE Head(toPrimary).kind = "acked"
    <3>1. Head(toPrimary) \in ToPrimary(Len(log)) /\ Len(log) \in Nat
      BY <2>1, NetKeeps DEF TypeInv, AdapterTypes
    <3>2. Head(toPrimary).pos \in 0 .. Len(log)
      BY <2>2, <3>1, MessageKinds
    <3> QED
      BY <2>1, <2>2, <3>2, PruneHold
  <2>3. CASE Head(toPrimary).kind # "acked"
    BY <2>1, <2>3, HoldFrame
  <2> QED
    BY <2>2, <2>3
<1>5. ASSUME \/ \E s \in Sender : StreamPendingWAL(s) \/ BeatTaken(s)
             \/ HandleFence \/ Heartbeat \/ TakenByBeat
             \/ HandleWALBatch \/ FenceAnswered \/ CheckPrimaryHealth \/ FenceOldPrimary \/ Promote
             \/ Connect \/ Break \/ ReadTimeout \/ RestartStandby \/ UNCHANGED vars
      PROVE  HoldInv'
  <2>1. UNCHANGED <<pc, queue, log, posCh, memWAL, unpublished, alive, lastAcked>>
    <3>1. CASE UNCHANGED vars
      BY <3>1 DEF vars, adapterVars, primaryVars
    <3>2. CASE \E s \in Sender : StreamPendingWAL(s) \/ BeatTaken(s)
      BY <3>2 DEF StreamPendingWAL, BeatTaken, adapterVars, primaryVars
    <3>3. CASE HandleFence \/ Heartbeat \/ TakenByBeat
      BY <3>3 DEF HandleFence, Heartbeat, TakenByBeat, adapterVars, primaryVars
    <3>4. CASE HandleWALBatch \/ FenceAnswered \/ CheckPrimaryHealth \/ FenceOldPrimary \/ Promote
      BY <3>4 DEF HandleWALBatch, FenceAnswered, CheckPrimaryHealth, FenceOldPrimary, Promote, adapterVars, primaryVars
    <3>5. CASE Connect \/ Break \/ ReadTimeout \/ RestartStandby
      BY <3>5 DEF Connect, Break, ReadTimeout, RestartStandby, adapterVars, primaryVars
    <3> QED
      BY <1>5, <3>1, <3>2, <3>3, <3>4, <3>5
  <2> QED
    BY <2>1, HoldFrame
<1>6. ASSUME CrashPrimary PROVE HoldInv'
  <2>1. /\ memWAL' = <<>> /\ unpublished' = <<>> /\ queue' = <<>>
        /\ posCh' = [c \in Client |-> 0]
        /\ pc' = [c \in Client |-> IF pc[c] \in {"idle", "done"} THEN pc[c] ELSE "failed"]
    BY <1>6 DEF CrashPrimary
  <2> QED
    BY <2>1, NoneHold
<1>7. ASSUME RestartPrimary PROVE HoldInv'
  <2>1. ~alive /\ UNCHANGED <<pc, queue, log, posCh, memWAL, unpublished>>
    BY <1>7 DEF RestartPrimary
  <2> QED
    BY <2>1, NoneHold DEF HoldInv, DeadInv
<1> QED
  BY <1>1, <1>2, <1>3, <1>4, <1>5, <1>6, <1>7, ReturnHold DEF Next

-----------------------------------------------------------------------------
(***************************************************************************)
(* The standby runs the log.                                               *)
(***************************************************************************)
\* A batch that is sent starts behind what is acknowledged, and has no gap.
LEMMA BatchSent ==
    ASSUME TypeInv, HoldInv, NEW k \in Nat
    PROVE  Gapless(GetWALEntries(lastAcked, k), lastAcked) /\ Beyond(GetWALEntries(lastAcked, k), lastAcked)
<1> DEFINE P == 1 .. Len(log)
           a == lastAcked
<1>0. /\ Len(log) \in Nat /\ memWAL \in Seq(P) /\ Len(memWAL) \in Nat /\ a \in 0 .. Len(log)
      /\ \A i \in 1 .. Len(memWAL) : memWAL[i] \in P
  <2>1. Len(log) \in Nat /\ memWAL \in Seq(P) /\ a \in 0 .. Len(log)
    BY DEF TypeInv, AdapterTypes, NodeTypes
  <2> HIDE DEF P
  <2>2. Len(memWAL) \in Nat /\ \A i \in 1 .. Len(memWAL) : memWAL[i] \in P
    BY <2>1, LenProperties, ElementOfSeq
  <2> QED
    BY <2>1, <2>2
<1>1. CASE ~(memWAL # <<>> /\ a >= memWAL[1])
  <2> DEFINE j == Least(k, Len(log) - a)
             e == [i \in 1 .. j |-> a + i]
  <2>1. GetWALEntries(lastAcked, k) = e
    BY <1>1 DEF GetWALEntries, ReadLog
  <2>2. j \in Nat
    BY <1>0 DEF Least
  <2> HIDE DEF j
  <2>3. Len(e) = j /\ \A i \in 1 .. j : e[i] = a + i
    BY <2>2
  <2> HIDE DEF e, a
  <2>4. Beyond(e, a)
    BY <1>0, <2>3 DEF Beyond
  <2>5. Gapless(e, a)
    BY <1>0, <2>2, <2>3 DEF Gapless
  <2> QED
    BY <2>1, <2>4, <2>5 DEF a
<1>2. CASE memWAL # <<>> /\ a >= memWAL[1]
  <2> DEFINE lo == FirstAbove(memWAL, a)
             hi == Least(lo + k, Len(memWAL))
             e == SubSeq(memWAL, lo + 1, hi)
  <2>1. GetWALEntries(lastAcked, k) = e
    BY <1>2 DEF GetWALEntries
  <2>s. Sorted(memWAL)
    BY DEF HoldInv, MemInv
  <2>2. /\ lo \in 0 .. Len(memWAL)
        /\ \A i \in 1 .. Len(memWAL) : i <= lo => memWAL[i] <= a
        /\ \A i \in 1 .. Len(memWAL) : i > lo => memWAL[i] > a
    <3>1. memWAL \in Seq(Nat)
      <4>1. P \subseteq Nat
        BY <1>0
      <4> HIDE DEF P
      <4> QED
        BY <1>0, <4>1, SeqMonotonic
    <3>2. a \in Nat
      BY <1>0
    <3> HIDE DEF a
    <3> QED
      BY <3>1, <3>2, <2>s, FirstAboveFinds
  <2> HIDE DEF lo
  <2>3. hi \in 0 .. Len(memWAL)
    BY <1>0, <2>2 DEF Least
  <2> HIDE DEF hi
  <2>4. /\ Len(e) \in Nat /\ \A i \in 1 .. Len(e) : lo + i \in 1 .. Len(memWAL) /\ e[i] = memWAL[lo + i]
    <3>1. lo + 1 \in Int /\ hi \in Int /\ \A i \in lo + 1 .. hi : memWAL[i] \in P
      BY <1>0, <2>2, <2>3
    <3> HIDE DEF P
    <3>2. /\ Len(e) = IF lo + 1 <= hi THEN hi - (lo + 1) + 1 ELSE 0
          /\ \A i \in 1 .. hi - (lo + 1) + 1 : e[i] = memWAL[(lo + 1) + i - 1]
      BY <3>1, SubSeqProperties
    <3> HIDE DEF e
    <3>3. Len(e) \in Nat /\ \A i \in 1 .. Len(e) : i \in 1 .. hi - (lo + 1) + 1 /\ (lo + 1) + i - 1 = lo + i
                                                 /\ lo + i \in 1 .. Len(memWAL)
      BY <1>0, <2>2, <2>3, <3>2
    <3> QED
      BY <3>2, <3>3
  <2> HIDE DEF e
  <2>5. memWAL[1] \in P /\ memWAL[1] \in Held /\ memWAL[1] <= a
    <3>1. 1 \in 1 .. Len(memWAL)
      <4> HIDE DEF P
      <4>1. Len(memWAL) # 0
        BY <1>0, <1>2, EmptySeq
      <4> QED
        BY <1>0, <4>1
    <3>2. memWAL[1] \in Range(memWAL)
      BY <1>0, <3>1, RangeIs
    <3> QED
      BY <1>0, <1>2, <3>1, <3>2 DEF Held
  <2>6. ASSUME NEW q \in P, a < q, NEW i \in 1 .. Len(memWAL), memWAL[i] > q, NEW p \in Held, p < q
        PROVE  \E j \in 1 .. Len(memWAL) : memWAL[j] = q
    <3>1. q \in Range(memWAL) \/ q \in Owed \/ q <= a
      BY <2>6 DEF HoldInv, MemInv
    <3>2. q \notin Owed
      <4>1. memWAL[i] \in Nat /\ q \in Nat
        BY <1>0, <2>6
      <4>2. q \in Owed => memWAL[i] <= q
        BY <2>6 DEF HoldInv, MemInv
      <4> QED
        BY <2>6, <4>1, <4>2
    <3>3. ~(q <= a)
      BY <1>0, <2>6
    <3> QED
      BY <1>0, <3>1, <3>2, <3>3, RangeIs
  <2>7. Beyond(e, a)
    <3>1. \A i \in 1 .. Len(e) : lo + i > lo
      BY <2>2, <2>4, <1>0
    <3> QED
      BY <2>2, <2>4, <3>1 DEF Beyond
  <2>8. \A i \in 1 .. Len(e) : i = 1 => e[i] <= a + 1
    <3> SUFFICES ASSUME 1 \in 1 .. Len(e), ~(e[1] <= a + 1) PROVE FALSE
      OBVIOUS
    <3>1. /\ lo + 1 \in 1 .. Len(memWAL) /\ e[1] = memWAL[lo + 1] /\ memWAL[lo + 1] \in P
      BY <1>0, <2>4
    <3>2. /\ a + 1 \in P /\ a < a + 1 /\ memWAL[lo + 1] > a + 1 /\ memWAL[1] < a + 1
      BY <1>0, <2>5, <3>1
    <3> HIDE DEF P, a
    <3>3. PICK j \in 1 .. Len(memWAL) : memWAL[j] = a + 1
      BY <2>5, <2>6, <3>1, <3>2
    <3>4. CASE j <= lo
      <4>1. a + 1 <= a
        BY <2>2, <3>3, <3>4
      <4> QED
        BY <4>1, <1>0
    <3>5. CASE ~(j <= lo)
      <4>1. lo + 1 <= j
        BY <1>0, <2>2, <3>5
      <4>2. memWAL[lo + 1] <= a + 1
        BY <2>s, <3>1, <3>3, <4>1 DEF Sorted
      <4> QED
        BY <1>0, <3>1, <3>2, <4>2 DEF P
    <3> QED
      BY <3>4, <3>5
  <2>9. \A i \in 1 .. Len(e) - 1 : e[i + 1] <= e[i] + 1
    <3> SUFFICES ASSUME NEW i \in 1 .. Len(e) - 1, ~(e[i + 1] <= e[i] + 1) PROVE FALSE
      OBVIOUS
    <3>1. i \in 1 .. Len(e) /\ i + 1 \in 1 .. Len(e) /\ i \in Nat
      BY <2>4
    <3>2. /\ lo + i \in 1 .. Len(memWAL) /\ e[i] = memWAL[lo + i] /\ memWAL[lo + i] \in P
          /\ (lo + i) + 1 \in 1 .. Len(memWAL) /\ e[i + 1] = memWAL[(lo + i) + 1] /\ memWAL[(lo + i) + 1] \in P
      <4>1. lo + (i + 1) = (lo + i) + 1
        BY <2>2, <3>1, <1>0
      <4> QED
        BY <1>0, <2>4, <3>1, <4>1, SMTT(30)
    <3> DEFINE n == lo + i
               x == memWAL[n]
               y == memWAL[n + 1]
    <3>3. /\ n \in 1 .. Len(memWAL) /\ n + 1 \in 1 .. Len(memWAL) /\ x \in Nat /\ y \in Nat
          /\ x > a /\ y > x + 1 /\ x + 1 \in P /\ a < x + 1 /\ x < x + 1
      <4>1. /\ n \in 1 .. Len(memWAL) /\ n + 1 \in 1 .. Len(memWAL) /\ x \in P /\ y \in P
            /\ e[i] = x /\ e[i + 1] = y
        BY <3>2
      <4>2. e[i] > a
        BY <2>7, <3>1 DEF Beyond
      <4> HIDE DEF n, x, y
      <4>3. x \in 1 .. Len(log) /\ y \in 1 .. Len(log) /\ a \in Nat
        BY <1>0, <4>1
      <4> HIDE DEF a
      <4>4. x > a /\ ~(y <= x + 1)
        BY <4>1, <4>2
      <4>5. x \in Nat /\ y \in Nat /\ y > x + 1 /\ x + 1 \in 1 .. Len(log) /\ a < x + 1 /\ x < x + 1
        BY <1>0, <4>3, <4>4
      <4> QED
        BY <4>1, <4>4, <4>5
    <3>4. x \in Held
      BY <1>0, <3>2, RangeIs DEF Held
    <3> HIDE DEF P, a, n
    <3>5. PICK j \in 1 .. Len(memWAL) : memWAL[j] = x + 1
      BY <2>6, <3>3, <3>4
    <3>6. CASE j <= n
      <4>1. x + 1 <= x
        BY <2>s, <3>3, <3>5, <3>6 DEF Sorted
      <4> QED
        BY <3>3, <4>1
    <3>7. CASE ~(j <= n)
      <4>1. n + 1 <= j
        BY <1>0, <3>3, <3>7
      <4>2. y <= x + 1
        BY <2>s, <3>3, <3>5, <4>1 DEF Sorted
      <4> QED
        BY <3>3, <4>2
    <3> QED
      BY <3>6, <3>7
  <2> QED
    BY <2>1, <2>7, <2>8, <2>9 DEF Gapless, a
<1> QED
  BY <1>1, <1>2

\* The log only grows.
LEMMA LogExtends ==
    ASSUME TypeInv, [Next]_vars
    PROVE  /\ Len(log) \in Nat /\ Len(log') \in Nat /\ Len(log) <= Len(log')
           /\ \A i \in 1 .. Len(log) : log'[i] = log[i]
<1>0. log \in Seq(Client) /\ queue \in Seq(Client) /\ Len(log) \in Nat
  BY DEF TypeInv, AdapterTypes
<1>1. ASSUME NEW t \in Seq(Client), log' = log \o t
      PROVE  /\ Len(log') \in Nat /\ Len(log) <= Len(log')
             /\ \A i \in 1 .. Len(log) : log'[i] = log[i]
  BY <1>0, <1>1, ConcatProperties
<1>2. CASE log' = log
  BY <1>0, <1>2
<1>3. ASSUME NEW c \in Client, AppendDirectly(c)
      PROVE  /\ Len(log') \in Nat /\ Len(log) <= Len(log')
             /\ \A i \in 1 .. Len(log) : log'[i] = log[i]
  <2>1. log' = Append(log, c)
    BY <1>3 DEF AppendDirectly
  <2> QED
    BY <1>0, <2>1, Appended
<1>4. ASSUME NEW n \in 1 .. Len(queue), WriteBatch(n)
      PROVE  /\ Len(log') \in Nat /\ Len(log) <= Len(log')
             /\ \A i \in 1 .. Len(log) : log'[i] = log[i]
  <2>1. log' = log \o SubSeq(queue, 1, n)
    BY <1>4 DEF WriteBatch
  <2>2. SubSeq(queue, 1, n) \in Seq(Client)
    BY <1>0, BatchTaken
  <2> QED
    BY <2>1, <2>2, <1>1
<1>5. \/ log' = log
      \/ \E c \in Client : AppendDirectly(c)
      \/ \E n \in 1 .. Len(queue) : WriteBatch(n)
  <2>1. CASE UNCHANGED vars
    BY <2>1 DEF vars, adapterVars
  <2>2. CASE \E c \in Client : Apply(c) \/ Adapter(c) \/ AwaitAck(c) \/ Acknowledged(c) \/ TimeOut(c)
    BY <2>2 DEF Apply, Adapter, AwaitAck, Acknowledged, TimeOut, Return, Enqueue, Execute
  <2>3. CASE Writer
    BY <2>3 DEF Writer, WriterStep, PublishBatch
  <2>4. CASE \E s \in Sender : StreamPendingWAL(s) \/ Deliver(s) \/ BeatTaken(s)
    BY <2>4 DEF StreamPendingWAL, Deliver, BeatTaken, adapterVars
  <2>5. CASE HandleFence \/ Heartbeat \/ TakenByBeat
    BY <2>5 DEF HandleFence, Heartbeat, TakenByBeat, adapterVars
  <2>6. CASE HandleWALBatch \/ FenceAnswered \/ CheckPrimaryHealth \/ FenceOldPrimary \/ Promote
    BY <2>6 DEF HandleWALBatch, FenceAnswered, CheckPrimaryHealth, FenceOldPrimary, Promote, adapterVars
  <2>7. CASE Connect \/ Break \/ ReadTimeout \/ CrashPrimary \/ RestartPrimary \/ RestartStandby
    BY <2>7 DEF Connect, Break, ReadTimeout, CrashPrimary, RestartPrimary, RestartStandby, adapterVars
  <2> QED
    BY <2>1, <2>2, <2>3, <2>4, <2>5, <2>6, <2>7 DEF Next
<1> QED
  BY <1>0, <1>2, <1>3, <1>4, <1>5

\* The standby ran nothing, and no message says more than was said.
LEMMA StreamFrame ==
    ASSUME TypeInv, StreamInv,
           Len(log') \in Nat, Len(log) <= Len(log'), \A i \in 1 .. Len(log) : log'[i] = log[i],
           applied' = applied, lastAcked' \in Nat, lastAcked' <= Len(applied),
           lastApplied' = Len(applied) \/ Forgot',
           lastApplied' # Len(applied) => lastApplied # Len(applied) \/ toStandby' = <<>>,
           \A m \in Range(toPrimary') :
              m \in Range(toPrimary) \/ (m.kind = "acked" => m.pos <= Len(applied)),
           \A m \in Range(toStandby') :
              m \in Range(toStandby)
              \/ (m.kind = "batch" => /\ Gapless(m.entries, Len(applied))
                                      /\ lastApplied' # Len(applied) => Beyond(m.entries, Len(applied)))
    PROVE  StreamInv'
<1>0. applied \in Seq(Client) /\ Len(applied) \in Nat /\ Len(log) \in Nat
  BY DEF TypeInv, NodeTypes, AdapterTypes
<1>1. Len(applied') <= Len(log') /\ \A i \in 1 .. Len(applied') : applied'[i] = log'[i]
  BY <1>0 DEF StreamInv
<1>2. \A m \in Range(toPrimary') : m.kind = "acked" => m.pos <= Len(applied)
  BY DEF StreamInv
<1>3. \A m \in Range(toStandby') : m.kind = "batch" =>
          /\ Gapless(m.entries, Len(applied))
          /\ lastApplied' # Len(applied) => Beyond(m.entries, Len(applied))
  <2> SUFFICES ASSUME NEW m \in Range(toStandby'), m.kind = "batch"
               PROVE  /\ Gapless(m.entries, Len(applied))
                      /\ lastApplied' # Len(applied) => Beyond(m.entries, Len(applied))
    OBVIOUS
  <2>1. CASE m \in Range(toStandby)
    <3>1. /\ Gapless(m.entries, Len(applied))
          /\ lastApplied # Len(applied) => Beyond(m.entries, Len(applied))
      BY <2>1 DEF StreamInv
    <3>2. toStandby' # <<>>
      BY EmptyRange
    <3> QED
      BY <3>1, <3>2
  <2>2. CASE m \notin Range(toStandby)
    <3>1. m \in Range(toStandby)
          \/ (m.kind = "batch" => /\ Gapless(m.entries, Len(applied))
                                  /\ lastApplied' # Len(applied) => Beyond(m.entries, Len(applied)))
      OBVIOUS
    <3> QED
      BY <2>2, <3>1
  <2> QED
    BY <2>1, <2>2
<1> QED
  BY <1>1, <1>2, <1>3 DEF StreamInv, Gapless, Beyond

\* Messages after one was sent, or received.
LEMMA MessagesAre ==
    ASSUME TypeInv
    PROVE  /\ \A m \in ToStandby(Len(log)) : Range(Append(toStandby, m)) = Range(toStandby) \cup {m}
           /\ \A m \in ToPrimary(Len(log)) : Range(Append(toPrimary, m)) = Range(toPrimary) \cup {m}
           /\ toStandby # <<>> => Range(Tail(toStandby)) \subseteq Range(toStandby) /\ Head(toStandby) \in Range(toStandby)
           /\ toPrimary # <<>> => Range(Tail(toPrimary)) \subseteq Range(toPrimary) /\ Head(toPrimary) \in Range(toPrimary)
<1>1. toStandby \in Seq(ToStandby(Len(log))) /\ toPrimary \in Seq(ToPrimary(Len(log)))
  BY DEF TypeInv, NetTypes
<1>2. ASSUME NEW S, NEW s \in Seq(S), s # <<>>
      PROVE  Range(Tail(s)) \subseteq Range(s) /\ Head(s) \in Range(s)
  <2>1. /\ Head(s) = s[1] /\ Len(s) >= 1 /\ Len(Tail(s)) = Len(s) - 1 /\ Len(s) \in Nat
        /\ Tail(s) \in Seq(S) /\ \A i \in 1 .. Len(s) - 1 : Tail(s)[i] = s[i + 1]
    BY <1>2, Shortened, LenProperties
  <2>2. \A i \in 1 .. Len(s) - 1 : i + 1 \in 1 .. Len(s)
    BY <2>1
  <2>3. 1 \in 1 .. Len(s)
    BY <2>1
  <2>4. \A x \in Range(Tail(s)) : \E i \in 1 .. Len(s) - 1 : Tail(s)[i] = x
    <3> DEFINE t == Tail(s)
    <3>1. t \in Seq(S) /\ Len(t) = Len(s) - 1
      BY <2>1
    <3> HIDE DEF t
    <3>2. \A x : x \in Range(t) => \E i \in 1 .. Len(t) : t[i] = x
      BY <3>1, RangeIs
    <3> QED
      BY <3>1, <3>2 DEF t
  <2>5. \A x \in Range(Tail(s)) : x \in Range(s)
    BY <1>2, <2>1, <2>2, <2>4, RangeIs
  <2> QED
    BY <1>2, <2>1, <2>3, <2>5, RangeIs
<1> QED
  BY <1>1, <1>2, RangeAppend

\* Steps that send nothing and run nothing.
LEMMA QuietStream ==
    ASSUME TypeInv, StreamInv, [Next]_vars,
           UNCHANGED <<applied, lastAcked, lastApplied, alive, faults>>,
           Range(toPrimary') \subseteq Range(toPrimary) \cup {Fence},
           Range(toStandby') \subseteq Range(toStandby) \cup {Fenced}
    PROVE  StreamInv'
<1>0. /\ Len(log) \in Nat /\ Len(log') \in Nat /\ Len(log) <= Len(log')
      /\ \A i \in 1 .. Len(log) : log'[i] = log[i]
  BY LogExtends
<1>1. lastAcked' \in Nat /\ lastAcked' <= Len(applied)
  BY <1>0 DEF StreamInv, TypeInv, NodeTypes
<1>2. lastApplied' = Len(applied) \/ Forgot'
  BY DEF StreamInv, Forgot
<1>3. Fence.kind # "acked" /\ Fenced.kind # "batch"
  BY DEF Fence, Fenced
<1>4. \A m \in Range(toPrimary') :
              m \in Range(toPrimary) \/ (m.kind = "acked" => m.pos <= Len(applied))
  BY <1>3
<1>5. \A m \in Range(toStandby') :
              m \in Range(toStandby)
              \/ (m.kind = "batch" => /\ Gapless(m.entries, Len(applied))
                                      /\ lastApplied' # Len(applied) => Beyond(m.entries, Len(applied)))
  BY <1>3
<1> QED
  BY <1>0, <1>1, <1>2, <1>4, <1>5, StreamFrame

\* A batch is sent.
LEMMA SendStream ==
    ASSUME TypeInv, HoldInv, StreamInv, [Next]_vars, NEW s \in Sender, StreamPendingWAL(s)
    PROVE  StreamInv'
<1> DEFINE e == GetWALEntries(lastAcked, BatchSize)
<1>0. /\ Len(log) \in Nat /\ Len(log') \in Nat /\ Len(log) <= Len(log')
      /\ \A i \in 1 .. Len(log) : log'[i] = log[i]
  BY LogExtends
<1>1. /\ UNCHANGED <<applied, lastAcked, lastApplied, alive, faults, toPrimary>>
      /\ toStandby' = Append(toStandby, Batch(e))
  BY DEF StreamPendingWAL, primaryVars, standbyVars
<1>2. lastAcked \in 0 .. Len(log) /\ AdapterTypes /\ BatchSize \in Nat /\ Len(applied) \in Nat
  BY HAAssumption DEF TypeInv, NodeTypes
<1>3. e \in Seq(1 .. Len(log)) /\ Gapless(e, lastAcked) /\ Beyond(e, lastAcked)
  BY <1>2, WALEntriesType, BatchSent
<1> HIDE DEF e
<1>4. Len(e) \in Nat /\ \A i \in 1 .. Len(e) : e[i] \in Nat
  BY <1>0, <1>3
<1>5. lastAcked <= Len(applied) /\ lastAcked \in Nat
  BY <1>0, <1>2 DEF StreamInv
<1>6. Gapless(e, Len(applied))
  <2>1. \A i \in 1 .. Len(e) : i = 1 => e[i] <= Len(applied) + 1
    <3>1. \A i \in 1 .. Len(e) : i = 1 => e[i] <= lastAcked + 1
      BY <1>3 DEF Gapless
    <3> QED
      BY <3>1, <1>2, <1>4, <1>5
  <2> QED
    BY <2>1, <1>3 DEF Gapless
<1>7. lastApplied' # Len(applied) => Beyond(e, Len(applied))
  BY <1>1, <1>3 DEF StreamInv, Forgot
<1>8. Batch(e) \in ToStandby(Len(log)) /\ Batch(e).entries = e
  BY <1>0, <1>3, MessageKinds
<1>9. Range(toStandby') = Range(toStandby) \cup {Batch(e)}
  BY <1>1, <1>8, MessagesAre
<1>10. lastApplied' = Len(applied) \/ Forgot'
  BY <1>1 DEF StreamInv, Forgot
<1>11. \A m \in Range(toStandby') :
              m \in Range(toStandby)
              \/ (m.kind = "batch" => /\ Gapless(m.entries, Len(applied))
                                      /\ lastApplied' # Len(applied) => Beyond(m.entries, Len(applied)))
  BY <1>6, <1>7, <1>8, <1>9
<1>12. \A m \in Range(toPrimary') : m \in Range(toPrimary)
  BY <1>1
<1>13. applied' = applied /\ lastAcked' \in Nat /\ lastAcked' <= Len(applied)
       /\ (lastApplied' # Len(applied) => lastApplied # Len(applied))
  BY <1>1, <1>5
<1> QED
  BY <1>0, <1>10, <1>11, <1>12, <1>13, StreamFrame

\* An answer comes back.
LEMMA DeliverStream ==
    ASSUME TypeInv, StreamInv, [Next]_vars, NEW s \in Sender, Deliver(s)
    PROVE  StreamInv'
<1> DEFINE m == Head(toPrimary)
<1>0. /\ Len(log) \in Nat /\ Len(log') \in Nat /\ Len(log) <= Len(log')
      /\ \A i \in 1 .. Len(log) : log'[i] = log[i]
  BY LogExtends
<1>1. /\ UNCHANGED <<applied, lastApplied, alive, faults, toStandby>>
      /\ toPrimary # <<>> /\ toPrimary' = Tail(toPrimary)
      /\ IF m.kind = "acked" THEN AcknowledgePosition(m.pos) ELSE lastAcked' = lastAcked
  BY DEF Deliver, standbyVars
<1>2. Range(toPrimary') \subseteq Range(toPrimary) /\ m \in Range(toPrimary)
  BY <1>1, MessagesAre
<1>3. m \in ToPrimary(Len(log))
  BY <1>1, NetKeeps DEF TypeInv
<1> HIDE DEF m
<1>4. lastAcked \in Nat /\ lastAcked <= Len(applied) /\ Len(applied) \in Nat
  <2>1. lastAcked \in 0 .. Len(log) /\ Len(applied) \in Nat
    BY DEF TypeInv, NodeTypes
  <2> QED
    BY <1>0, <2>1 DEF StreamInv
<1>5. lastAcked' \in Nat /\ lastAcked' <= Len(applied) /\ lastAcked' >= lastAcked
  <2>1. CASE m.kind = "acked"
    <3>1. m.pos \in Nat /\ m.pos <= Len(applied)
      <4>1. m.pos \in 0 .. Len(log)
        BY <1>0, <1>3, <2>1, MessageKinds
      <4>2. m.pos <= Len(applied)
        BY <1>2, <2>1 DEF StreamInv
      <4> QED
        BY <1>0, <4>1, <4>2
    <3>2. lastAcked' = IF m.pos > lastAcked THEN m.pos ELSE lastAcked
      BY <1>1, <2>1 DEF AcknowledgePosition
    <3> QED
      BY <3>1, <3>2, <1>4
  <2>2. CASE m.kind # "acked"
    BY <1>1, <1>4, <2>2
  <2> QED
    BY <2>1, <2>2
<1>6. lastApplied' = Len(applied) \/ Forgot'
  BY <1>1, <1>4, <1>5 DEF StreamInv, Forgot
<1> QED
  BY <1>0, <1>1, <1>2, <1>5, <1>6, StreamFrame

\* The standby runs what follows in a batch.
LEMMA BatchStream ==
    ASSUME TypeInv, TypeInv', StreamInv, [Next]_vars, HandleWALBatch, ~promoted
    PROVE  StreamInv'
<1> DEFINE e == Head(toStandby).entries
           r == ApplyBatch(e)
           pos == IF r.ran = <<>> THEN 0 ELSE r.last
           s == [i \in DOMAIN r.ran |-> log[r.ran[i]]]
           k == Len(r.ran)
           m == Len(applied)
<1>0. /\ Len(log) \in Nat /\ log \in Seq(Client) /\ lastApplied \in 0 .. Len(log) /\ lastApplied \in Nat
      /\ applied \in Seq(Client) /\ m \in Nat /\ lastAcked \in Nat
  BY SMTT(30) DEF TypeInv, AdapterTypes, NodeTypes
<1>1. /\ UNCHANGED <<log, lastAcked, alive, faults>>
      /\ toStandby # <<>> /\ Head(toStandby).kind = "batch" /\ toStandby' = Tail(toStandby)
      /\ lastApplied' = r.last /\ applied' = applied \o s
      /\ toPrimary' \in {toPrimary, Append(toPrimary, Acked(pos))}
  BY DEF HandleWALBatch, adapterVars, primaryVars
<1>2. e \in Seq(1 .. Len(log))
  BY <1>0, <1>1, NetKeeps, MessageKinds DEF TypeInv
<1>3. Range(toStandby') \subseteq Range(toStandby) /\ Head(toStandby) \in Range(toStandby)
  BY <1>1, MessagesAre
<1>4. /\ Gapless(e, m) /\ (lastApplied # m => Beyond(e, m))
      /\ lastApplied = m \/ Forgot
  BY <1>1, <1>3 DEF StreamInv
<1> HIDE DEF e
<1>5. r \in Runs(Len(log))
  BY <1>0, <1>2, BatchType
<1>6. /\ r.last = IF r.ran = <<>> THEN lastApplied ELSE m + Len(r.ran)
      /\ \A j \in 1 .. Len(r.ran) : r.ran[j] = m + j
  <2>1. lastApplied = m \/ (lastApplied = 0 /\ Beyond(e, m))
    BY <1>4 DEF Forgot
  <2> HIDE DEF m
  <2> QED
    BY <1>0, <1>2, <1>4, <2>1, BatchRuns
<1> HIDE DEF r
<1>7. s \in Seq(Client) /\ Len(s) = k /\ k \in Nat /\ \A i \in 1 .. k : s[i] = log[r.ran[i]]
  BY <1>0, <1>5, RanType
<1>8. k > 0 => m + k <= Len(log)
  <2> SUFFICES ASSUME k > 0 PROVE m + k <= Len(log)
    OBVIOUS
  <2>1. r.ran \in Seq(1 .. Len(log)) /\ k \in 1 .. k
    BY <1>5, <1>7 DEF Runs
  <2>2. r.ran[k] = m + k /\ r.ran[k] \in 1 .. Len(log)
    BY <1>6, <2>1, SMTT(30)
  <2> QED
    BY <2>2
<1>9. r.ran = <<>> <=> k = 0
  BY <1>5, <1>7, EmptySeq DEF Runs
<1> HIDE DEF s, k
<1>10. Len(applied') = m + k
  BY <1>0, <1>1, <1>7, ConcatProperties
<1>11. /\ Len(applied') <= Len(log)
       /\ \A i \in 1 .. Len(applied') : applied'[i] = log[i]
  <2>1. m <= Len(log) /\ \A i \in 1 .. m : applied[i] = log[i]
    BY DEF StreamInv
  <2>2. m + k <= Len(log)
    BY <1>0, <1>7, <1>8, <2>1
  <2>3. ASSUME NEW i \in 1 .. m + k PROVE applied'[i] = log[i]
    <3>1. applied'[i] = IF i <= m THEN applied[i] ELSE s[i - m]
      BY <1>0, <1>1, <1>7, ConcatProperties
    <3>2. CASE i <= m
      <4>1. i \in 1 .. m
        BY <1>0, <3>2
      <4> QED
        BY <2>1, <3>1, <3>2, <4>1
    <3>3. CASE ~(i <= m)
      <4>1. i - m \in 1 .. k /\ m + (i - m) = i
        BY <1>0, <1>7, <3>3
      <4>2. s[i - m] = log[r.ran[i - m]]
        BY <1>7, <4>1
      <4>3. r.ran[i - m] = i
        BY <1>6, <4>1 DEF k
      <4> QED
        BY <3>1, <3>3, <4>2, <4>3
    <3> QED
      BY <3>2, <3>3
  <2> QED
    BY <1>10, <2>2, <2>3
<1>12. lastApplied' = Len(applied') \/ Forgot'
  <2>1. CASE k > 0
    BY <1>0, <1>1, <1>6, <1>7, <1>9, <1>10, <2>1 DEF k
  <2>2. CASE k = 0
    <3>1. lastApplied' = lastApplied /\ Len(applied') = m
      BY <1>0, <1>1, <1>6, <1>9, <1>10, <2>2
    <3> QED
      BY <1>1, <1>4, <3>1 DEF Forgot
  <2> QED
    BY <1>7, <2>1, <2>2
<1>13. \A x \in Range(toPrimary') : x.kind = "acked" => x.pos <= Len(applied')
  <2>1. pos \in 0 .. Len(log)
    BY <1>0, <1>5 DEF Runs
  <2>2. pos <= m + k
    <3>1. CASE k = 0
      BY <1>0, <1>7, <1>9, <3>1
    <3>2. CASE k # 0
      BY <1>0, <1>6, <1>7, <1>9, <3>2 DEF k
    <3> QED
      BY <3>1, <3>2
  <2>3. \A x \in Range(toPrimary) : x.kind = "acked" => x.pos <= m
    BY DEF StreamInv
  <2>4. \A x \in Range(toPrimary) : x.kind = "acked" => x.pos <= m + k
    <3> SUFFICES ASSUME NEW x \in Range(toPrimary), x.kind = "acked" PROVE x.pos <= m + k
      OBVIOUS
    <3>1. x.pos <= m
      BY <2>3
    <3>2. x.pos \in 0 .. Len(log)
      <4>1. x \in ToPrimary(Len(log))
        BY RangeIs DEF TypeInv, NetTypes
      <4> QED
        BY <1>0, <4>1, MessageKinds
    <3> QED
      BY <1>0, <1>7, <3>1, <3>2
  <2> HIDE DEF pos, m
  <2>5. Acked(pos) \in ToPrimary(Len(log)) /\ Acked(pos).pos = pos
    BY <1>0, <2>1, MessageKinds
  <2>6. Range(Append(toPrimary, Acked(pos))) = Range(toPrimary) \cup {Acked(pos)}
    BY <2>5, MessagesAre
  <2>7. \A x \in Range(toPrimary') : x \in Range(toPrimary) \/ x = Acked(pos)
    BY <1>1, <2>6
  <2> QED
    BY <1>10, <2>2, <2>4, <2>5, <2>7
<1>14. \A x \in Range(toStandby') : x.kind = "batch" =>
          /\ Gapless(x.entries, Len(applied'))
          /\ lastApplied' # Len(applied') => Beyond(x.entries, Len(applied'))
  <2> SUFFICES ASSUME NEW x \in Range(toStandby), x.kind = "batch"
               PROVE  /\ Gapless(x.entries, m + k)
                      /\ lastApplied' # m + k => Beyond(x.entries, m + k)
    BY <1>3, <1>10
  <2>1. Gapless(x.entries, m) /\ (lastApplied # m => Beyond(x.entries, m))
    BY DEF StreamInv
  <2>2. x.entries \in Seq(1 .. Len(log))
    <3>1. x \in ToStandby(Len(log))
      BY RangeIs DEF TypeInv, NetTypes
    <3> QED
      BY <1>0, <3>1, MessageKinds
  <2>3. Gapless(x.entries, m + k)
    <3> DEFINE d == x.entries
    <3>1. Len(d) \in Nat /\ \A i \in 1 .. Len(d) : d[i] \in Nat
      BY <1>0, <2>2
    <3> HIDE DEF d, m
    <3>2. \A i \in 1 .. Len(d) : i = 1 => d[i] <= m + 1
      BY <2>1 DEF Gapless, d
    <3>3. \A i \in 1 .. Len(d) : i = 1 => d[i] <= (m + k) + 1
      BY <1>0, <1>7, <3>1, <3>2 DEF m
    <3> QED
      BY <2>1, <3>3 DEF Gapless, d
  <2>4. lastApplied' # m + k => k = 0 /\ lastApplied # m
    BY <1>0, <1>1, <1>6, <1>7, <1>9 DEF k
  <2>5. k = 0 => m + k = m
    BY <1>0
  <2> QED
    BY <2>1, <2>3, <2>4, <2>5
<1>15. lastAcked' <= Len(applied')
  <2>1. lastAcked <= m
    BY DEF StreamInv
  <2> QED
    BY <1>0, <1>1, <1>7, <1>10, <2>1
<1> QED
  BY <1>1, <1>11, <1>12, <1>13, <1>14, <1>15 DEF StreamInv

\* A fault, unless the standby forgets what it was not known to have applied.
LEMMA FaultStream ==
    ASSUME TypeInv, TypeInv', StreamInv, [Next]_vars, "forget" \notin Hazards,
           Break \/ CrashPrimary \/ RestartPrimary \/ RestartStandby
    PROVE  StreamInv'
<1>0. /\ Len(log) \in Nat /\ Len(log') \in Nat /\ Len(log) <= Len(log')
      /\ \A i \in 1 .. Len(log) : log'[i] = log[i]
  BY LogExtends
<1>1. /\ lastAcked \in Nat /\ lastAcked <= Len(applied) /\ Len(applied) \in Nat /\ faults \in Nat /\ MaxFaults \in Nat
  <2>1. lastAcked \in 0 .. Len(log) /\ Len(applied) \in Nat /\ faults \in 0 .. MaxFaults /\ MaxFaults \in Nat
    BY HAAssumption DEF TypeInv, NodeTypes
  <2> QED
    BY <1>0, <2>1 DEF StreamInv
<1>2. lastApplied = Len(applied)
  <2>1. CASE Break \/ CrashPrimary \/ RestartStandby
    <3>1. faults < MaxFaults
      BY <2>1 DEF Break, CrashPrimary, RestartStandby
    <3>2. ~Forgot
      BY <1>1, <3>1 DEF Forgot
    <3> QED
      BY <3>2 DEF StreamInv
  <2>2. CASE RestartPrimary
    BY <2>2 DEF RestartPrimary, StreamInv, Forgot
  <2> QED
    BY <2>1, <2>2
<1>3. CASE Break \/ CrashPrimary
  <2>1. /\ applied' = applied /\ lastAcked' = lastAcked /\ lastApplied' = lastApplied
        /\ toStandby' = <<>> /\ toPrimary' = <<>>
    BY <1>3 DEF Break, CrashPrimary, CloseConnection, primaryVars
  <2> QED
    BY <1>0, <1>1, <1>2, <2>1, EmptyRange, StreamFrame
<1>4. CASE RestartPrimary
  <2>1. /\ applied' = applied /\ lastAcked' = 0 /\ lastApplied' = lastApplied
        /\ toStandby' = toStandby /\ toPrimary' = toPrimary
    BY <1>4 DEF RestartPrimary, standbyVars, netVars
  <2>2. lastAcked' \in Nat /\ lastAcked' <= Len(applied)
    BY <1>1, <2>1
  <2> QED
    BY <1>0, <1>1, <1>2, <2>1, <2>2, StreamFrame
<1>5. CASE RestartStandby
  <2>1. /\ applied' = applied /\ lastAcked' = lastAcked /\ lastApplied' = 0 /\ alive' = alive
        /\ toStandby' = <<>> /\ toPrimary' = <<>> /\ faults' = faults + 1
        /\ alive /\ lastApplied = lastAcked /\ faults = MaxFaults - 1
    BY <1>5 DEF RestartStandby, primaryVars
  <2>2. Forgot'
    BY <1>1, <1>2, <2>1 DEF Forgot
  <2> QED
    BY <1>0, <1>1, <2>1, <2>2, EmptyRange, StreamFrame
<1> QED
  BY <1>3, <1>4, <1>5

\* Every step keeps the standby on the primary's log.
LEMMA NextStream ==
    ASSUME TypeInv, TypeInv', HoldInv, StreamInv, [Next]_vars, "forget" \notin Hazards
    PROVE  StreamInv'
<1>t. TypeInv => Fence \in ToPrimary(Len(log)) /\ Fenced \in ToStandby(Len(log))
  BY MessageKinds DEF TypeInv, AdapterTypes
<1>1. ASSUME \/ \E c \in Client : Apply(c) \/ Adapter(c) \/ AwaitAck(c) \/ Acknowledged(c) \/ TimeOut(c)
             \/ Writer \/ Heartbeat \/ CheckPrimaryHealth \/ Promote \/ Connect \/ UNCHANGED vars
      PROVE  StreamInv'
  <2>1. UNCHANGED <<applied, lastAcked, lastApplied, alive, faults, toPrimary, toStandby>>
    <3>1. CASE UNCHANGED vars \/ Writer
      BY <3>1 DEF vars, primaryVars, standbyVars, netVars, Writer
    <3>2. CASE \E c \in Client : Apply(c) \/ Adapter(c) \/ AwaitAck(c) \/ Acknowledged(c) \/ TimeOut(c)
      BY <3>2 DEF Apply, Adapter, AwaitAck, Acknowledged, TimeOut, Return, primaryVars, standbyVars, netVars
    <3>3. CASE Heartbeat \/ CheckPrimaryHealth \/ Promote \/ Connect
      BY <3>3 DEF Heartbeat, CheckPrimaryHealth, Promote, Connect, primaryVars, standbyVars, netVars
    <3> QED
      BY <1>1, <3>1, <3>2, <3>3
  <2> QED
    BY <2>1, QuietStream
<1>2. ASSUME HandleFence \/ FenceAnswered \/ FenceOldPrimary \/ ReadTimeout \/ (HandleWALBatch /\ promoted)
      PROVE  StreamInv'
  <2>1. /\ UNCHANGED <<applied, lastAcked, lastApplied, alive, faults>>
        /\ \/ toPrimary' = toPrimary \/ toPrimary' = <<>> \/ toPrimary' = Append(toPrimary, Fence)
           \/ toPrimary # <<>> /\ toPrimary' = Tail(toPrimary)
        /\ \/ toStandby' = toStandby \/ toStandby' = <<>> \/ toStandby' = Append(toStandby, Fenced)
           \/ toStandby # <<>> /\ toStandby' = Tail(toStandby)
    <3>1. CASE HandleFence
      BY <3>1 DEF HandleFence, standbyVars
    <3>2. CASE FenceAnswered
      BY <3>2 DEF FenceAnswered, primaryVars
    <3>3. CASE FenceOldPrimary
      BY <3>3 DEF FenceOldPrimary, primaryVars
    <3>4. CASE ReadTimeout
      BY <3>4 DEF ReadTimeout, CloseConnection, primaryVars
    <3>5. CASE HandleWALBatch /\ promoted
      BY <3>5 DEF HandleWALBatch, primaryVars
    <3> QED
      BY <1>2, <3>1, <3>2, <3>3, <3>4, <3>5
  <2>2. Range(toPrimary') \subseteq Range(toPrimary) \cup {Fence}
    BY <1>t, <2>1, MessagesAre, EmptyRange
  <2>3. Range(toStandby') \subseteq Range(toStandby) \cup {Fenced}
    BY <1>t, <2>1, MessagesAre, EmptyRange
  <2> QED
    BY <2>1, <2>2, <2>3, QuietStream
<1>3. ASSUME (\E s \in Sender : BeatTaken(s)) \/ TakenByBeat PROVE StreamInv'
  <2>1. /\ UNCHANGED <<applied, lastAcked, lastApplied, alive, toStandby>>
        /\ toPrimary' = toPrimary \/ (toPrimary # <<>> /\ toPrimary' = Tail(toPrimary))
        /\ faults' = faults \/ faults < MaxFaults
    BY <1>3 DEF BeatTaken, TakenByBeat, primaryVars, standbyVars
  <2>2. Range(toPrimary') \subseteq Range(toPrimary)
    BY <2>1, MessagesAre
  <2>3. CASE faults' = faults
    BY <2>1, <2>2, <2>3, QuietStream
  <2>4. CASE faults < MaxFaults
    <3>1. faults \in Nat /\ MaxFaults \in Nat /\ lastAcked \in Nat /\ lastAcked <= Len(applied)
      <4>1. lastAcked \in 0 .. Len(log) /\ faults \in 0 .. MaxFaults /\ MaxFaults \in Nat
        BY HAAssumption DEF TypeInv, NodeTypes
      <4>2. Len(log) \in Nat
        BY DEF TypeInv, AdapterTypes
      <4> QED
        BY <4>1, <4>2 DEF StreamInv
    <3>2. lastApplied = Len(applied)
      BY <2>4, <3>1 DEF StreamInv, Forgot
    <3>3. /\ Len(log) \in Nat /\ Len(log') \in Nat /\ Len(log) <= Len(log')
          /\ \A i \in 1 .. Len(log) : log'[i] = log[i]
      BY LogExtends
    <3> QED
      BY <2>1, <2>2, <3>1, <3>2, <3>3, StreamFrame
  <2> QED
    BY <2>1, <2>3, <2>4
<1> QED
  BY <1>1, <1>2, <1>3, SendStream, DeliverStream, BatchStream, FaultStream DEF Next

\* At first nothing is logged and nothing run.
LEMMA InitStream == Init => StreamInv
<1> SUFFICES ASSUME Init PROVE StreamInv
  OBVIOUS
<1>1. /\ applied = <<>> /\ log = <<>> /\ lastAcked = 0 /\ lastApplied = 0
      /\ toPrimary = <<>> /\ toStandby = <<>> /\ Len(applied) = 0 /\ Len(log) = 0
  BY DEF Init, AdapterInit
<1> QED
  BY <1>1, EmptyRange DEF StreamInv

\* The inductive invariant.
LEMMA StreamAlways ==
    ASSUME Hazards \cap {"late", "forget"} = {}
    PROVE  Spec => [](TypeInv /\ HoldInv /\ StreamInv)
<1> DEFINE I == TypeInv /\ HoldInv /\ StreamInv
<1>1. "late" \notin Hazards /\ "forget" \notin Hazards
  OBVIOUS
<1>2. Init => I
  BY InitTypeInv, InitHold, InitStream
<1>3. I /\ [Next]_vars => I'
  <2> SUFFICES ASSUME TypeInv, HoldInv, StreamInv, [Next]_vars PROVE TypeInv' /\ HoldInv' /\ StreamInv'
    OBVIOUS
  <2>1. TypeInv'
    BY NextTypeInv
  <2>2. HoldInv'
    BY <1>1, NextHold
  <2>3. StreamInv'
    BY <1>1, <2>1, NextStream
  <2> QED
    BY <2>1, <2>2, <2>3
<1> QED
  BY <1>2, <1>3, PTL DEF Spec

\* A quorum call that waited for its own record finds it applied: the position
\* acknowledged is one up to which the standby has run the log.
THEOREM QuorumWritesApplied ==
    ASSUME Hazards \cap {"late", "forget"} = {}
    PROVE  Spec => []QuorumWriteApplied
<1>1. TypeInv /\ StreamInv => QuorumWriteApplied
  <2> SUFFICES ASSUME TypeInv, StreamInv, NEW c \in Client, Enough(c), NEW i \in 1 .. target[c], log[i] = c
               PROVE  c \in Range(applied)
    BY DEF QuorumWriteApplied
  <2>1. /\ target[c] \in Nat /\ lastAcked \in Nat /\ Len(applied) \in Nat /\ applied \in Seq(Client)
    <3>1. /\ target \in [Client -> 0 .. Len(log)] /\ lastAcked \in 0 .. Len(log)
          /\ applied \in Seq(Client) /\ log \in Seq(Client)
      BY DEF TypeInv, AdapterTypes, NodeTypes
    <3>3. Len(log) \in Nat /\ Len(applied) \in Nat
      BY <3>1
    <3>2. target[c] \in 0 .. Len(log)
      BY <3>1
    <3> QED
      BY <3>1, <3>2, <3>3
  <2>2. target[c] <= lastAcked /\ lastAcked <= Len(applied)
    BY <2>1 DEF Enough, StreamInv
  <2>3. i \in 1 .. Len(applied)
    BY <2>1, <2>2
  <2>4. applied[i] = c
    BY <2>3 DEF StreamInv
  <2> QED
    BY <2>1, <2>3, <2>4, RangeIs
<1>2. Spec => [](TypeInv /\ HoldInv /\ StreamInv)
  BY StreamAlways
<1> QED
  BY <1>1, <1>2, PTL

-----------------------------------------------------------------------------
(***************************************************************************)
(* The refinement.                                                         *)
(***************************************************************************)
\* A sequence that agrees with a longer one is a prefix of it.
LEMMA AgreeingPrefix ==
    ASSUME NEW S, NEW s \in Seq(S), NEW t \in Seq(S), Len(s) <= Len(t),
           \A i \in 1 .. Len(s) : s[i] = t[i]
    PROVE  R!IsPrefix(s, t)
<1>1. Len(s) \in Nat /\ Len(t) \in Nat
  OBVIOUS
<1>2. 0 <= Len(s) /\ DOMAIN s = 1 .. Len(s)
  BY <1>1
<1>3. SubSeq(t, 1, Len(s)) = s
  <2>1. /\ SubSeq(t, 1, Len(s)) \in Seq(S)
        /\ Len(SubSeq(t, 1, Len(s))) = IF 1 <= Len(s) THEN Len(s) - 1 + 1 ELSE 0
        /\ \A i \in 1 .. Len(s) - 1 + 1 : SubSeq(t, 1, Len(s))[i] = t[1 + i - 1]
    <3>1. \A i \in 1 .. Len(s) : t[i] \in S
      BY <1>1
    <3>2. 1 \in Int /\ Len(s) \in Int
      BY <1>1
    <3> QED
      BY <3>1, <3>2, SubSeqProperties
  <2>2. Len(SubSeq(t, 1, Len(s))) = Len(s)
    BY <1>1, <2>1
  <2>3. \A i \in 1 .. Len(s) : SubSeq(t, 1, Len(s))[i] = s[i]
    <3>1. Len(s) - 1 + 1 = Len(s) /\ \A i \in 1 .. Len(s) : 1 + i - 1 = i
      BY <1>1
    <3> QED
      BY <2>1, <3>1
  <2> QED
    BY <2>1, <2>2, <2>3, SeqEqual
<1> QED
  BY <1>1, <1>2, <1>3 DEF R!IsPrefix

\* The standby's engine only ever runs more, and in a step of its own.
LEMMA AppliedGrows ==
    ASSUME TypeInv, [Next]_vars
    PROVE  /\ applied' = applied \/ log' = log
           /\ \E s \in Seq(Client) : applied' = applied \o s
<1>0. log \in Seq(Client) /\ applied \in Seq(Client) /\ Len(log) \in Nat /\ lastApplied \in 0 .. Len(log)
  BY DEF TypeInv, AdapterTypes, NodeTypes
<1>1. \/ applied' = applied
      \/ HandleWALBatch /\ ~promoted
  <2>1. CASE UNCHANGED vars
    BY <2>1 DEF vars, standbyVars
  <2>2. CASE \E c \in Client : Apply(c) \/ Adapter(c) \/ AwaitAck(c) \/ Acknowledged(c) \/ TimeOut(c)
    BY <2>2 DEF Apply, Adapter, AwaitAck, Acknowledged, TimeOut, Return, standbyVars
  <2>3. CASE Writer
    BY <2>3 DEF Writer, standbyVars
  <2>4. CASE \E s \in Sender : StreamPendingWAL(s) \/ Deliver(s) \/ BeatTaken(s)
    BY <2>4 DEF StreamPendingWAL, Deliver, BeatTaken, standbyVars
  <2>5. CASE HandleFence \/ Heartbeat \/ TakenByBeat
    BY <2>5 DEF HandleFence, Heartbeat, TakenByBeat, standbyVars
  <2>6. CASE FenceAnswered \/ CheckPrimaryHealth \/ FenceOldPrimary \/ Promote
    BY <2>6 DEF FenceAnswered, CheckPrimaryHealth, FenceOldPrimary, Promote
  <2>7. CASE Connect \/ Break \/ ReadTimeout \/ CrashPrimary \/ RestartPrimary \/ RestartStandby
    BY <2>7 DEF Connect, Break, ReadTimeout, CrashPrimary, RestartPrimary, RestartStandby, standbyVars
  <2>8. CASE HandleWALBatch
    BY <2>8 DEF HandleWALBatch
  <2> QED
    BY <2>1, <2>2, <2>3, <2>4, <2>5, <2>6, <2>7, <2>8 DEF Next
<1>2. CASE applied' = applied
  <2>1. <<>> \in Seq(Client) /\ applied \o <<>> = applied
    BY <1>0, ConcatEmptySeq
  <2> QED
    BY <1>2, <2>1
<1>3. CASE HandleWALBatch /\ ~promoted
  <2> DEFINE e == Head(toStandby).entries
             r == ApplyBatch(e)
             s == [i \in DOMAIN r.ran |-> log[r.ran[i]]]
  <2>1. log' = log /\ applied' = applied \o s /\ toStandby # <<>> /\ Head(toStandby).kind = "batch"
    BY <1>3 DEF HandleWALBatch, adapterVars
  <2>2. e \in Seq(1 .. Len(log))
    BY <1>0, <2>1, NetKeeps, MessageKinds DEF TypeInv
  <2> HIDE DEF e
  <2>3. r \in Runs(Len(log))
    BY <1>0, <2>2, BatchType
  <2> HIDE DEF r
  <2>4. s \in Seq(Client)
    BY <1>0, <2>3, RanType
  <2> QED
    BY <2>1, <2>4
<1> QED
  BY <1>1, <1>2, <1>3

\* What stands for "applied" in the replicated storage: the primary runs its
\* log, the standby what its engine ran.
Runners == {"primary", "standby"}
Ran == [q \in Runners |-> IF q = "primary" THEN log ELSE applied]

\* A step of the system is a step of the replicated storage, or none.
LEMMA StandbyLearns ==
    ASSUME TypeInv, StreamInv, TypeInv', StreamInv', [Next]_vars
    PROVE  [R!Next]_Ran
<1>0. /\ log \in Seq(Client) /\ log' \in Seq(Client) /\ applied \in Seq(Client) /\ applied' \in Seq(Client)
      /\ Len(applied) \in Nat /\ Len(applied') \in Nat /\ Len(log) \in Nat /\ Len(log') \in Nat
  <2>1. log \in Seq(Client) /\ applied \in Seq(Client)
    BY DEF TypeInv, AdapterTypes, NodeTypes
  <2>2. log' \in Seq(Client) /\ applied' \in Seq(Client)
    BY DEF TypeInv, AdapterTypes, NodeTypes
  <2>3. \A t \in Seq(Client) : Len(t) \in Nat
    OBVIOUS
  <2> QED
    BY <2>1, <2>2, <2>3
<1>1. Len(log) <= Len(log') /\ \A i \in 1 .. Len(log) : log'[i] = log[i]
  BY LogExtends
<1>2. /\ Len(applied) <= Len(log) /\ \A i \in 1 .. Len(applied) : applied[i] = log[i]
      /\ Len(applied') <= Len(log') /\ \A i \in 1 .. Len(applied') : applied'[i] = log'[i]
  BY DEF StreamInv
<1>3. /\ Len(applied) <= Len(applied')
      /\ \A i \in 1 .. Len(applied) : applied'[i] = applied[i]
  <2>1. PICK s \in Seq(Client) : applied' = applied \o s
    BY AppliedGrows
  <2> QED
    BY <1>0, <2>1, ConcatProperties
<1>4. R!IsPrefix(log, log') /\ R!IsPrefix(applied, applied')
  BY <1>0, <1>1, <1>3, AgreeingPrefix
<1>5. R!IsPrefix(applied', log')
  BY <1>0, <1>2, AgreeingPrefix
<1>6. R!IsPrefix(applied, log')
  <2>1. Len(applied) <= Len(log')
    BY <1>0, <1>1, <1>2
  <2>2. ASSUME NEW i \in 1 .. Len(applied) PROVE applied[i] = log'[i]
    <3>1. i \in 1 .. Len(log)
      BY <1>0, <1>2
    <3> QED
      BY <1>1, <1>2, <3>1
  <2> QED
    BY <1>0, <2>1, <2>2, AgreeingPrefix
<1>7. /\ Ran["primary"] = log /\ Ran["standby"] = applied
      /\ Ran' = [q \in Runners |-> IF q = "primary" THEN log' ELSE applied']
      /\ Ran'["primary"] = log' /\ Ran'["standby"] = applied'
  BY DEF Ran, Runners
<1>8. CASE applied' = applied
  <2>1. Ran' = [Ran EXCEPT !["primary"] = Ran'["primary"]]
    BY <1>7, <1>8 DEF Ran, Runners
  <2>2. R!Comparable(log', log) /\ R!Comparable(log', applied)
    BY <1>4, <1>6 DEF R!Comparable
  <2>3. R!Learn("primary")
    BY <1>4, <1>7, <2>1, <2>2 DEF R!Learn, Ran, Runners
  <2> QED
    BY <2>3 DEF R!Next
<1>9. CASE log' = log
  <2>1. Ran' = [Ran EXCEPT !["standby"] = Ran'["standby"]]
    BY <1>7, <1>9 DEF Ran, Runners
  <2>2. R!Comparable(applied', log) /\ R!Comparable(applied', applied)
    BY <1>4, <1>5, <1>9 DEF R!Comparable
  <2>3. R!Learn("standby")
    BY <1>4, <1>7, <2>1, <2>2 DEF R!Learn, Ran, Runners
  <2> QED
    BY <2>3 DEF R!Next
<1> QED
  BY <1>8, <1>9, AppliedGrows

\* Hot standby implements the replicated storage: primary and standby run one
\* sequence of commands, which neither leaves, reorders or goes back in.
THEOREM StandbyReplicates ==
    ASSUME Hazards \cap {"late", "forget"} = {}
    PROVE  Spec => Replicates
<1> DEFINE Inv == TypeInv /\ HoldInv /\ StreamInv
<1>1. Init => R!Init
  BY DEF Init, AdapterInit, R!Init
<1>2. Inv /\ Inv' /\ [Next]_vars
        => [R!Next]_([r \in {"primary", "standby"} |-> IF r = "primary" THEN log ELSE applied])
  BY StandbyLearns DEF Ran, Runners
<1>3. Spec => []Inv
  BY StreamAlways
<1> HIDE DEF Inv
<1> QED
  BY <1>1, <1>2, <1>3, PTL DEF Spec, Replicates, R!Spec
=============================================================================
