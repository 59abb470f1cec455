----------------------------- MODULE WALProofs -----------------------------
(***************************************************************************)
(* The write-ahead log for any callers, nodes and bounds: types under      *)
(* every hazard; and, as long as records reach the file in the order of    *)
(* their numbers and no crash hits between the file operations of a        *)
(* rotation or truncation, that numbers are not used twice, that the log   *)
(* does not end below the snapshot, and that recovery rebuilds the engine. *)
(***************************************************************************)
EXTENDS WAL, SequenceTheorems, FiniteSetTheorems, WellFoundedInduction, TLAPS

-----------------------------------------------------------------------------
(***************************************************************************)
(* Types.                                                                  *)
(***************************************************************************)
Number == 1 .. MaxSequence
Record == [seq : Number, op : LoggedOp]
Names == Number \X Number
Stores == [Key -> Value \cup {None}]
Points == {"idle", "locked", "numbered", "rotate", "sealed", "logged",
           "saved", "removing", "dropped"}

FileTypes ==
    /\ sequence \in 0 .. MaxSequence
    /\ active \in Seq(Record) /\ kept \in Seq(Record)
    /\ synced \in 0 .. Len(active)
    /\ DOMAIN segments \subseteq Names
    /\ \A n \in DOMAIN segments : segments[n] \in Seq(Record)
    /\ manifest \in SUBSET Names
    /\ sealed \in (0 .. MaxSequence) \X (0 .. MaxSequence)

ThreadTypes ==
    /\ snapshot \in [seq : 0 .. MaxSequence, data : Stores]
    /\ store \in Stores
    /\ pc \in [Thread -> Points]
    /\ op \in [Thread -> LoggedOp \cup {NoOp}]
    /\ seq \in [Thread -> 0 .. MaxSequence]
    /\ snapshotSeq \in 0 .. MaxSequence
    /\ settled \in SUBSET Key
    /\ crashes \in 0 .. MaxCrashes

\* One thread holds w.mu; what a thread that writes has with it.
LockInv ==
    /\ \A t, u \in Thread : pc[t] \in InWalMu /\ pc[u] \in InWalMu => t = u
    /\ \A t \in Thread : pc[t] \in {"numbered", "rotate"} => seq[t] \in Number /\ op[t] \in LoggedOp
    /\ \A t \in Thread : pc[t] = "rotate" => active # <<>>
    /\ \A t \in Thread : pc[t] = "sealed" => sealed \in Names

TypeInv == FileTypes /\ ThreadTypes /\ LockInv

-----------------------------------------------------------------------------
(***************************************************************************)
(* The order of the records.                                               *)
(***************************************************************************)
Increasing(s) == \A i, j \in 1 .. Len(s) : i < j => s[i].seq < s[j].seq

\* The files of one moment, whatever the manifest says.
Archived == UNION {Range(segments[n]) : n \in DOMAIN segments}
Recs == Archived \cup Range(active)
Files == Contents(segments, DOMAIN segments) \o active

\* What is left of the log while it is truncated is in the temporary file.
Truncating == pc[Compactor] \in {"removing", "dropped"}
Logged == IF Truncating THEN Range(kept) ELSE Recs
Log == IF Truncating THEN kept ELSE Files

\* Every file holds the numbers of its name, and no two names overlap.
InOrder(files, names) ==
    /\ \A n \in names :
          /\ Increasing(files[n])
          /\ \A r \in Range(files[n]) : n[1] <= r.seq /\ r.seq <= n[2]
          /\ \E r \in Range(files[n]) : r.seq = n[2]
    /\ \A n, m \in names : n # m => n[2] < m[1] \/ m[2] < n[1]

\* The numbers of the active file come after those of the segments.
SegmentInv ==
    /\ InOrder(segments, DOMAIN segments)
    /\ \A n \in DOMAIN segments : \A r \in Range(active) : n[2] < r.seq

\* A number that waits for its record is above those of the records.
NumberInv ==
    /\ Increasing(active) /\ Increasing(kept)
    /\ \A r \in Recs \cup Range(kept) :
          r.seq <= sequence /\ \A t \in Thread : pc[t] = "numbered" => r.seq < seq[t]
    /\ \A t \in Thread : pc[t] = "numbered" => seq[t] <= sequence
    /\ \A t, u \in Thread : pc[t] = "numbered" /\ pc[u] = "numbered" /\ seq[t] = seq[u] => t = u
    /\ \A t \in Thread : pc[t] = "rotate" => Last(active).seq = seq[t]

\* The manifest lists the segments, but for one that is being sealed; the
\* temporary file is there while the log is truncated.
ManifestInv ==
    /\ ~Truncating =>
          IF \E t \in Thread : pc[t] = "sealed"
          THEN sealed \in DOMAIN segments /\ manifest = DOMAIN segments \ {sealed}
          ELSE manifest = DOMAIN segments
    /\ pc[Compactor] = "dropped" => DOMAIN segments = {} /\ manifest = {}
    /\ ~Truncating => kept = <<>>

OrderInv == SegmentInv /\ NumberInv /\ ManifestInv

\* A number was handed out last, and is on its way or in the log.
Reached(x) ==
    \/ x = 0
    \/ \E r \in Logged : r.seq = x
    \/ \E t \in Thread : pc[t] = "numbered" /\ seq[t] = x

\* Compaction takes the snapshot's sequence, and then the checkpoint's.
CheckpointInv ==
    /\ Reached(sequence)
    /\ pc[Compactor] # "idle" => snapshotSeq <= sequence
    /\ pc[Compactor] \in {"locked", "numbered", "rotate", "sealed", "logged"} => Reached(snapshotSeq)
    /\ pc[Compactor] \notin {"idle", "locked"} => snapshotSeq < seq[Compactor]
    /\ pc[Compactor] \notin {"idle", "locked", "numbered"} => \E r \in Logged : r.seq = seq[Compactor]

\* The log reaches up to the snapshot, by a record that power loss spares.
Safe == Archived \cup {active[i] : i \in 1 .. synced}
SnapshotInv ==
    /\ snapshot.seq <= sequence
    /\ \A t \in Thread : pc[t] = "numbered" => snapshot.seq < seq[t]
    /\ pc[Compactor] \in {"saved", "removing", "dropped"} => snapshot.seq = snapshotSeq
    /\ ~Truncating =>
          \/ snapshot.seq = 0
          \/ \E r \in Recs : r.seq = snapshot.seq
          \/ \E r \in Safe : r.seq > snapshot.seq
    /\ Immediate => synced = Len(active)

LogInv == OrderInv /\ CheckpointInv /\ SnapshotInv

-----------------------------------------------------------------------------
(***************************************************************************)
(* What replay of the log makes of the snapshot.                           *)
(***************************************************************************)
Replayed == Replay(snapshot.data, After(Log, snapshot.seq))

Mutates(w) == pc[w] # "idle" /\ IsMutation(op[w])
Pending(w) == pc[w] \in {"rotate", "sealed", "logged"} /\ IsMutation(op[w])

\* No mutation is under way beside a compaction; one at a time writes a node.
MutationInv ==
    /\ \A w \in Writer : pc[w] \in {"idle", "numbered", "rotate", "sealed", "logged"}
    /\ \A w \in Writer : pc[w] # "idle" => op[w] \in Operation
    /\ pc[Compactor] \notin {"idle", "locked"} => op[Compactor] = CheckpointOp
    /\ pc[Compactor] # "idle" =>
          /\ \A w \in Writer : ~Mutates(w)
          /\ \A r \in Logged : r.seq > snapshotSeq => ~IsMutation(r.op)
    /\ \A w, u \in Writer : Mutates(w) /\ Mutates(u) /\ op[w].key = op[u].key => w = u
    /\ pc[Compactor] \in {"saved", "removing", "dropped"} => snapshot.data = store

\* Replay has done what is logged, the engine all of it but what is pending.
StoreInv ==
    \A k \in Key :
        /\ k \in settled /\ (\A w \in Writer : Pending(w) => op[w].key # k) => Replayed[k] = store[k]
        /\ \A w \in Writer :
              Pending(w) /\ op[w].key = k /\ (k \in settled \/ op[w].kind \in {"update", "delete"})
                => Replayed[k] = Effect(store, op[w])[k]

IInv == TypeInv /\ LogInv /\ MutationInv /\ StoreInv

-----------------------------------------------------------------------------
(***************************************************************************)
(* Recursion over numbers.                                                 *)
(***************************************************************************)
\* A set of naturals that has 0, and every successor of its members, has all.
LEMMA NatsInSet ==
    ASSUME NEW S, 0 \in S, \A k \in Nat : k \in S => k + 1 \in S
    PROVE  \A k \in Nat : k \in S
<1> SUFFICES ASSUME NEW k \in Nat, k \notin S PROVE FALSE
  OBVIOUS
<1> DEFINE R == OpToRel(<, Nat)
<1> DEFINE T == Nat \ S
<1>1. PICK x \in T : \A y \in T : ~(<<y, x>> \in R)
  <2>1. IsWellFoundedOn(R, Nat) /\ T # {} /\ T \subseteq Nat
    BY NatLessThanWellFounded
  <2> HIDE DEF R, T
  <2> QED
    BY <2>1, WFMin
<1>2. x \in Nat /\ x # 0 /\ x \notin S
  BY <1>1
<1>3. x - 1 \in Nat /\ x - 1 < x /\ (x - 1) + 1 = x
  BY <1>2
<1>4. x - 1 \in S
  <2> SUFFICES ASSUME x - 1 \notin S PROVE FALSE
    OBVIOUS
  <2>1. x - 1 \in T
    BY <1>3
  <2>2. <<x - 1, x>> \in R
    BY <1>2, <1>3 DEF OpToRel
  <2> HIDE DEF R, T
  <2> QED
    BY <1>1, <2>1, <2>2
<1> QED
  BY <1>2, <1>3, <1>4

\* A function of the numbers up to n goes on by a step.
Steps(g, n, z, step) == g[0] = z /\ \A i \in 1 .. n : g[i] = step[<<i, g[i - 1]>>]

\* Two of them start alike, and go on alike.
Alike(f, g, n) == f[0] = g[0] /\ \A i \in 1 .. n : f[i - 1] = g[i - 1] => f[i] = g[i]

\* A first value and a step define a function.
LEMMA Recursion ==
    ASSUME NEW V, NEW n \in Nat, NEW z \in V, NEW step \in [(1 .. n) \X V -> V]
    PROVE  \E g \in [0 .. n -> V] : Steps(g, n, z, step)
<1> DEFINE Good(g, k) == /\ \A i \in 0 .. k : g[i] \in V
                         /\ g[0] = z
                         /\ \A i \in 1 .. k : g[i] = step[<<i, g[i - 1]>>]
<1> DEFINE S == {k \in Nat : k <= n => \E g : Good(g, k)}
<1>1. 0 \in S
  <2> DEFINE g0 == [i \in 0 .. 0 |-> z]
  <2>1. Good(g0, 0)
    OBVIOUS
  <2> QED
    BY <2>1
<1>2. ASSUME NEW k \in Nat, k \in S PROVE k + 1 \in S
  <2> SUFFICES ASSUME k + 1 <= n PROVE \E h : Good(h, k + 1)
    OBVIOUS
  <2>1. PICK g : Good(g, k)
    BY <1>2
  <2> DEFINE h == [i \in 0 .. k + 1 |-> IF i <= k THEN g[i] ELSE step[<<k + 1, g[k]>>]]
  <2>2. \A i \in 0 .. k : h[i] = g[i]
    OBVIOUS
  <2>3. h[k + 1] = step[<<k + 1, g[k]>>]
    OBVIOUS
  <2> HIDE DEF h
  <2>4. g[k] \in V /\ k + 1 \in 1 .. n
    BY <2>1
  <2>5. h[k + 1] \in V
    <3>1. <<k + 1, g[k]>> \in (1 .. n) \X V
      BY <2>4
    <3> QED
      BY <2>3, <3>1
  <2>6. \A i \in 0 .. k + 1 : h[i] \in V
    <3>1. \A i \in 0 .. k + 1 : i \in 0 .. k \/ i = k + 1
      OBVIOUS
    <3> QED
      BY <2>1, <2>2, <2>5, <3>1
  <2>7. h[0] = z
    BY <2>1, <2>2
  <2>8. ASSUME NEW i \in 1 .. k + 1 PROVE h[i] = step[<<i, h[i - 1]>>]
    <3>1. i - 1 \in 0 .. k /\ h[i - 1] = g[i - 1]
      BY <2>2
    <3>2. CASE i \in 1 .. k
      <4>1. h[i] = g[i]
        BY <2>2, <3>2
      <4> QED
        BY <2>1, <3>1, <3>2, <4>1
    <3>3. CASE i = k + 1
      <4>1. i - 1 = k
        BY <3>3
      <4> QED
        BY <2>3, <3>1, <3>3, <4>1
    <3>4. i \in 1 .. k \/ i = k + 1
      OBVIOUS
    <3> QED
      BY <3>2, <3>3, <3>4
  <2> QED
    BY <2>6, <2>7, <2>8
<1>3. n \in S
  <2> HIDE DEF S
  <2> QED
    BY <1>1, <1>2, NatsInSet
<1>4. PICK g : Good(g, n)
  BY <1>3
<1> DEFINE f == [i \in 0 .. n |-> g[i]]
<1>5. \A i \in 0 .. n : f[i] = g[i]
  OBVIOUS
<1>6. f \in [0 .. n -> V]
  BY <1>4
<1> HIDE DEF f
<1>7. f[0] = z
  BY <1>4, <1>5
<1>8. \A i \in 1 .. n : f[i] = step[<<i, f[i - 1]>>]
  <2>1. \A i \in 1 .. n : i - 1 \in 0 .. n /\ i \in 0 .. n
    OBVIOUS
  <2> QED
    BY <1>4, <1>5, <2>1
<1> QED
  BY <1>6, <1>7, <1>8 DEF Steps

\* Functions that start alike and go on alike are alike.
LEMMA SameSteps ==
    ASSUME NEW n \in Nat, NEW f, NEW g, Alike(f, g, n)
    PROVE  \A i \in 0 .. n : f[i] = g[i]
<1> DEFINE S == {k \in Nat : k <= n => f[k] = g[k]}
<1>1. 0 \in S
  BY DEF Alike
<1>2. ASSUME NEW k \in Nat, k \in S PROVE k + 1 \in S
  <2> SUFFICES ASSUME k + 1 <= n PROVE f[k + 1] = g[k + 1]
    OBVIOUS
  <2>1. k + 1 \in 1 .. n /\ (k + 1) - 1 = k /\ f[k] = g[k]
    BY <1>2
  <2> QED
    BY <2>1 DEF Alike
<1>3. \A k \in Nat : k \in S
  <2> HIDE DEF S
  <2> QED
    BY <1>1, <1>2, NatsInSet
<1> QED
  BY <1>3

-----------------------------------------------------------------------------
(***************************************************************************)
(* Sequences of records.                                                   *)
(***************************************************************************)
\* What a sequence holds.
LEMMA RangeIs ==
    ASSUME NEW S, NEW s \in Seq(S)
    PROVE  /\ \A x : x \in Range(s) <=> \E i \in 1 .. Len(s) : s[i] = x
           /\ \A i \in 1 .. Len(s) : s[i] \in Range(s) /\ s[i] \in S
           /\ Range(s) \subseteq S
BY DEF Range

\* A sequence with one element more.
LEMMA Appended ==
    ASSUME NEW S, NEW s \in Seq(S), NEW x \in S
    PROVE  /\ Append(s, x) \in Seq(S) /\ Append(s, x) # <<>> /\ Len(Append(s, x)) = Len(s) + 1
           /\ \A j \in 1 .. Len(s) + 1 : Append(s, x)[j] = IF j = Len(s) + 1 THEN x ELSE s[j]
           /\ Range(Append(s, x)) = Range(s) \cup {x}
<1>1. /\ Append(s, x) \in Seq(S) /\ Append(s, x) # <<>> /\ Len(Append(s, x)) = Len(s) + 1
      /\ \A j \in 1 .. Len(s) : Append(s, x)[j] = s[j]
      /\ Append(s, x)[Len(s) + 1] = x
  BY AppendProperties
<1>2. \A j \in 1 .. Len(s) + 1 : j \in 1 .. Len(s) \/ j = Len(s) + 1
  OBVIOUS
<1>3. \A j \in 1 .. Len(s) : j # Len(s) + 1
  OBVIOUS
<1>4. Range(Append(s, x)) = Range(s) \cup {x}
  <2>1. Append(s, x) = s \o <<x>> /\ <<x>> \in Seq(S)
    BY AppendIsConcat
  <2>2. Range(<<x>>) = {x}
    BY DEF Range
  <2>3. Range(s \o <<x>>) = Range(s) \cup Range(<<x>>)
    BY <2>1, RangeConcatenation
  <2> QED
    BY <2>1, <2>2, <2>3, Zenon
<1> QED
  BY <1>1, <1>2, <1>3, <1>4

\* The fields of a record.
LEMMA RecordFields ==
    ASSUME NEW r \in Record
    PROVE  r.seq \in Nat /\ r.seq \in Number /\ r.op \in LoggedOp
BY WALAssumption DEF Record, Number

\* Records above all others are put after them.
LEMMA IncreasingConcat ==
    ASSUME NEW s \in Seq(Record), NEW t \in Seq(Record), Increasing(s), Increasing(t),
           \A r \in Range(s), q \in Range(t) : r.seq < q.seq
    PROVE  s \o t \in Seq(Record) /\ Increasing(s \o t) /\ Range(s \o t) = Range(s) \cup Range(t)
<1> DEFINE u == s \o t
           m == Len(s)
<1>1. /\ u \in Seq(Record) /\ Len(u) = m + Len(t) /\ m \in Nat /\ Len(t) \in Nat
      /\ \A i \in 1 .. m + Len(t) : u[i] = IF i <= m THEN s[i] ELSE t[i - m]
  BY ConcatProperties
<1>2. Range(u) = Range(s) \cup Range(t)
  BY RangeConcatenation
<1> HIDE DEF u, m
<1>3. ASSUME NEW i \in 1 .. Len(u), NEW j \in 1 .. Len(u), i < j PROVE u[i].seq < u[j].seq
  <2>1. i \in 1 .. m + Len(t) /\ j \in 1 .. m + Len(t)
    BY <1>1
  <2>2. CASE j <= m
    <3>1. i <= m /\ i \in 1 .. Len(s) /\ j \in 1 .. Len(s)
      BY <1>1, <1>3, <2>2 DEF m
    <3>2. u[i] = s[i] /\ u[j] = s[j]
      BY <1>1, <2>1, <2>2, <3>1
    <3> QED
      BY <1>3, <3>1, <3>2 DEF Increasing
  <2>3. CASE i > m
    <3>1. ~(i <= m) /\ ~(j <= m) /\ i - m \in 1 .. Len(t) /\ j - m \in 1 .. Len(t) /\ i - m < j - m
      BY <1>1, <1>3, <2>1, <2>3
    <3>2. u[i] = t[i - m] /\ u[j] = t[j - m]
      BY <1>1, <2>1, <3>1
    <3> QED
      BY <3>1, <3>2 DEF Increasing
  <2>4. CASE i <= m /\ j > m
    <3>1. ~(j <= m) /\ i \in 1 .. Len(s) /\ j - m \in 1 .. Len(t)
      BY <1>1, <2>1, <2>4 DEF m
    <3>2. u[i] = s[i] /\ u[j] = t[j - m]
      BY <1>1, <2>1, <2>4, <3>1
    <3>3. s[i] \in Range(s) /\ t[j - m] \in Range(t)
      BY <3>1, RangeIs
    <3> QED
      BY <3>2, <3>3
  <2> QED
    BY <1>1, <2>1, <2>2, <2>3, <2>4
<1>4. Increasing(u)
  BY <1>3 DEF Increasing
<1> QED
  BY <1>1, <1>2, <1>4 DEF u

\* A sequence in order is as long as the other one, and goes along with it.
LEMMA GoesAlong ==
    ASSUME NEW s \in Seq(Record), NEW t \in Seq(Record), Increasing(s), Increasing(t), Range(s) = Range(t)
    PROVE  Len(s) <= Len(t) /\ \A i \in 1 .. Len(s) : s[i] = t[i]
<1> DEFINE Along(k) == k <= Len(t) /\ \A i \in 1 .. k : s[i] = t[i]
<1> DEFINE S == {k \in Nat : k <= Len(s) => Along(k)}
<1>0. Len(s) \in Nat /\ Len(t) \in Nat
  OBVIOUS
<1>a. /\ \A i \in 1 .. Len(s) : s[i].seq \in Nat
      /\ \A i \in 1 .. Len(t) : t[i].seq \in Nat
  <2>1. /\ \A i \in 1 .. Len(s) : s[i] \in Record
        /\ \A i \in 1 .. Len(t) : t[i] \in Record
    OBVIOUS
  <2> QED
    BY <2>1, RecordFields
<1>1. 0 \in S
  BY <1>0
<1>2. ASSUME NEW k \in Nat, k \in S PROVE k + 1 \in S
  <2> SUFFICES ASSUME k + 1 <= Len(s) PROVE Along(k + 1)
    OBVIOUS
  <2>1. k <= Len(t) /\ \A i \in 1 .. k : s[i] = t[i]
    BY <1>0, <1>2
  <2>2. k + 1 \in 1 .. Len(s)
    BY <1>0
  <2>3. PICK j \in 1 .. Len(t) : t[j] = s[k + 1]
    BY <2>2, RangeIs
  <2>4. j > k
    <3> SUFFICES ASSUME j \in 1 .. k PROVE FALSE
      OBVIOUS
    <3>1. s[j] = s[k + 1] /\ j < k + 1 /\ j \in 1 .. Len(s)
      BY <1>0, <2>1, <2>3
    <3>2. s[j].seq < s[k + 1].seq
      BY <2>2, <3>1 DEF Increasing
    <3> QED
      BY <1>a, <3>1, <3>2
  <2>5. k + 1 \in 1 .. Len(t)
    BY <1>0, <2>4
  <2>6. PICK m \in 1 .. Len(s) : s[m] = t[k + 1]
    BY <2>5, RangeIs
  <2>7. m > k
    <3> SUFFICES ASSUME m \in 1 .. k PROVE FALSE
      OBVIOUS
    <3>1. t[m] = t[k + 1] /\ m < k + 1 /\ m \in 1 .. Len(t)
      BY <1>0, <2>1, <2>6
    <3>2. t[m].seq < t[k + 1].seq
      BY <2>5, <3>1 DEF Increasing
    <3> QED
      BY <1>a, <3>1, <3>2
  <2>8. j = k + 1
    <3> SUFFICES ASSUME j > k + 1 PROVE FALSE
      BY <2>4
    <3>1. t[k + 1].seq < t[j].seq
      BY <2>5 DEF Increasing
    <3>2. m = k + 1 \/ m > k + 1
      BY <2>7
    <3>3. s[k + 1].seq <= s[m].seq
      <4>1. CASE m = k + 1
        BY <1>a, <2>2, <4>1
      <4>2. CASE m > k + 1
        <5>1. s[k + 1].seq < s[m].seq
          BY <2>2, <4>2 DEF Increasing
        <5> QED
          BY <1>a, <2>2, <5>1
      <4> QED
        BY <3>2, <4>1, <4>2
    <3> QED
      BY <1>a, <2>2, <2>3, <2>5, <2>6, <3>1, <3>3
  <2>9. s[k + 1] = t[k + 1]
    BY <2>3, <2>8
  <2>10. \A i \in 1 .. k + 1 : i \in 1 .. k \/ i = k + 1
    OBVIOUS
  <2> QED
    BY <1>0, <2>1, <2>5, <2>9, <2>10
<1>3. Len(s) \in S
  <2> HIDE DEF S
  <2> QED
    BY <1>0, <1>1, <1>2, NatsInSet
<1> QED
  BY <1>0, <1>3

\* Records in order are known by which they are.
LEMMA SameRecords ==
    ASSUME NEW s \in Seq(Record), NEW t \in Seq(Record), Increasing(s), Increasing(t), Range(s) = Range(t)
    PROVE  s = t
<1>1. Len(s) <= Len(t) /\ \A i \in 1 .. Len(s) : s[i] = t[i]
  BY GoesAlong
<1>2. Len(t) <= Len(s)
  BY GoesAlong
<1>3. Len(s) = Len(t)
  BY <1>1, <1>2
<1> QED
  BY <1>1, <1>3, SeqEqual

-----------------------------------------------------------------------------
(***************************************************************************)
(* What is read of a log, and replayed.                                    *)
(***************************************************************************)
\* The kinds of operations.
LEMMA OpCases ==
    ASSUME NEW o \in LoggedOp
    PROVE  \/ o.kind \in {"create", "update"} /\ o.key \in Key /\ o.val \in Value /\ IsMutation(o)
           \/ o.kind = "delete" /\ o.key \in Key /\ IsMutation(o)
           \/ o.kind \in {"marker", "checkpoint"} /\ ~IsMutation(o)
BY DEF LoggedOp, Operation, CheckpointOp, Op, IsMutation

\* An operation changes one node, to what depends on nothing else.
LEMMA EffectIs ==
    ASSUME NEW s \in Stores, NEW o \in LoggedOp
    PROVE  /\ Effect(s, o) \in Stores
           /\ ~IsMutation(o) => Effect(s, o) = s
           /\ IsMutation(o) =>
                /\ o.key \in Key
                /\ \A k \in Key : k # o.key => Effect(s, o)[k] = s[k]
                /\ \A r \in Stores : r[o.key] = s[o.key] \/ o.kind \in {"update", "delete"}
                                       => Effect(r, o)[o.key] = Effect(s, o)[o.key]
<1>1. CASE o.kind = "create" /\ o.key \in Key /\ o.val \in Value
  <2>1. /\ IsMutation(o)
        /\ \A r : Effect(r, o) = CreateNode(r, o.key, o.val)
    BY <1>1 DEF Effect, IsMutation
  <2> QED
    BY <1>1, <2>1 DEF CreateNode, Stores
<1>2. CASE o.kind = "update" /\ o.key \in Key /\ o.val \in Value
  <2>1. /\ IsMutation(o)
        /\ \A r : Effect(r, o) = UpdateNode(r, o.key, o.val)
    BY <1>2 DEF Effect, IsMutation
  <2> QED
    BY <1>2, <2>1 DEF UpdateNode, Stores
<1>3. CASE o.kind = "delete" /\ o.key \in Key
  <2>1. /\ IsMutation(o)
        /\ \A r : Effect(r, o) = DeleteNode(r, o.key)
    BY <1>3 DEF Effect, IsMutation
  <2> QED
    BY <1>3, <2>1 DEF DeleteNode, Stores
<1>4. CASE o.kind \in {"marker", "checkpoint"}
  BY <1>4 DEF Effect, IsMutation
<1> QED
  BY <1>1, <1>2, <1>3, <1>4, OpCases

\* One record after the other.
LEMMA ReplaySteps ==
    ASSUME NEW data \in Stores, NEW es \in Seq(Record)
    PROVE  \E g \in [0 .. Len(es) -> Stores] :
              /\ g[0] = data
              /\ \A i \in 1 .. Len(es) : g[i] = Effect(g[i - 1], es[i].op)
              /\ Replay(data, es) = g[Len(es)]
<1> DEFINE n == Len(es)
           step == [p \in (1 .. n) \X Stores |-> Effect(p[2], es[p[1]].op)]
           Runs(g) == g = [i \in 0 .. Len(es) |-> IF i = 0 THEN data ELSE ReplayWALEntry(g[i - 1], es[i])]
<1>0. n \in Nat /\ \A i \in 1 .. n : es[i] \in Record
  OBVIOUS
<1>1. step \in [(1 .. n) \X Stores -> Stores]
  <2> SUFFICES ASSUME NEW i \in 1 .. n, NEW s \in Stores PROVE Effect(s, es[i].op) \in Stores
    OBVIOUS
  <2> QED
    BY <1>0, RecordFields, EffectIs
<1>2. \A i \in 1 .. n, s \in Stores : step[<<i, s>>] = Effect(s, es[i].op)
  OBVIOUS
<1> HIDE DEF step
<1>3. PICK g \in [0 .. n -> Stores] : Steps(g, n, data, step)
  <2> QED
    BY <1>0, <1>1, Recursion
<1>4. \A i \in 1 .. n : g[i] = Effect(g[i - 1], es[i].op)
  <2> TAKE i \in 1 .. n
  <2>1. g[i - 1] \in Stores
    BY <1>0, <1>3
  <2> QED
    BY <1>2, <1>3, <2>1 DEF Steps
<1>5. Runs(g)
  <2>1. \A i \in 0 .. n : g[i] = IF i = 0 THEN data ELSE ReplayWALEntry(g[i - 1], es[i])
    <3> TAKE i \in 0 .. n
    <3>1. CASE i = 0
      BY <1>3, <3>1 DEF Steps
    <3>2. CASE i # 0
      <4>1. i \in 1 .. n
        BY <1>0, <3>2
      <4> QED
        BY <1>4, <3>2, <4>1 DEF ReplayWALEntry
    <3> QED
      BY <3>1, <3>2
  <2> QED
    BY <1>3, <2>1
<1> DEFINE c == CHOOSE g1 : Runs(g1)
<1>6. Runs(c)
  BY <1>5
<1>7. Replay(data, es) = c[n]
  BY DEF Replay
<1> HIDE DEF c
<1>8. \A i \in 0 .. n : c[i] = IF i = 0 THEN data ELSE ReplayWALEntry(c[i - 1], es[i])
  BY <1>6
<1>9. \A i \in 0 .. n : c[i] = g[i]
  <2>1. c[0] = g[0]
    BY <1>0, <1>3, <1>8 DEF Steps
  <2>2. \A i \in 1 .. n : c[i - 1] = g[i - 1] => c[i] = g[i]
    BY <1>0, <1>4, <1>8 DEF ReplayWALEntry
  <2>3. Alike(c, g, Len(es))
    BY <2>1, <2>2 DEF Alike
  <2> QED
    BY <1>0, <2>3, SameSteps
<1>10. c[n] = g[n]
  BY <1>0, <1>9
<1> QED
  BY <1>3, <1>4, <1>7, <1>10 DEF Steps

\* Replay goes on where it was.
LEMMA ReplayMore ==
    ASSUME NEW data \in Stores, NEW es \in Seq(Record), NEW e \in Record
    PROVE  /\ Replay(data, es) \in Stores
           /\ Replay(data, Append(es, e)) = Effect(Replay(data, es), e.op)
<1> DEFINE fs == Append(es, e)
           n == Len(es)
<1>0. n \in Nat /\ fs \in Seq(Record) /\ Len(fs) = n + 1 /\ \A i \in 1 .. n : fs[i] = es[i]
  BY Appended
<1>a. fs[n + 1] = e
  BY Appended
<1> HIDE DEF fs
<1>1. PICK g \in [0 .. Len(es) -> Stores] :
              /\ g[0] = data
              /\ \A i \in 1 .. Len(es) : g[i] = Effect(g[i - 1], es[i].op)
              /\ Replay(data, es) = g[Len(es)]
  BY ReplaySteps
<1>2. PICK h \in [0 .. Len(fs) -> Stores] :
              /\ h[0] = data
              /\ \A i \in 1 .. Len(fs) : h[i] = Effect(h[i - 1], fs[i].op)
              /\ Replay(data, fs) = h[Len(fs)]
  BY <1>0, ReplaySteps
<1>3. \A i \in 0 .. n : h[i] = g[i]
  <2>1. h[0] = g[0]
    BY <1>1, <1>2
  <2>2. \A i \in 1 .. n : h[i - 1] = g[i - 1] => h[i] = g[i]
    <3>1. \A i \in 1 .. n : i \in 1 .. Len(fs)
      BY <1>0
    <3> QED
      BY <1>0, <1>1, <1>2, <3>1
  <2>3. Alike(h, g, Len(es))
    BY <2>1, <2>2 DEF Alike
  <2> QED
    BY <1>0, <2>3, SameSteps
<1>4. h[n + 1] = Effect(h[n], e.op)
  <2>1. n + 1 \in 1 .. Len(fs) /\ (n + 1) - 1 = n
    BY <1>0
  <2> QED
    BY <1>a, <1>2, <2>1
<1>5. h[n] = g[n] /\ g[n] \in Stores
  BY <1>0, <1>1, <1>3
<1> QED
  BY <1>0, <1>1, <1>2, <1>4, <1>5 DEF fs

\* Replay makes a store of a store.
LEMMA ReplayTyped ==
    ASSUME NEW data \in Stores, NEW es \in Seq(Record)
    PROVE  Replay(data, es) \in Stores
<1>1. Len(es) \in Nat /\ Len(es) \in 0 .. Len(es)
  BY LenProperties
<1> QED
  BY <1>1, ReplaySteps

\* Nothing is replayed of a log without mutations.
LEMMA ReplayQuiet ==
    ASSUME NEW data \in Stores, NEW es \in Seq(Record), \A r \in Range(es) : ~IsMutation(r.op)
    PROVE  Replay(data, es) = data
<1>0. Len(es) \in Nat /\ \A i \in 1 .. Len(es) : es[i] \in Range(es) /\ es[i] \in Record
  BY RangeIs
<1>1. PICK g \in [0 .. Len(es) -> Stores] :
              /\ g[0] = data
              /\ \A i \in 1 .. Len(es) : g[i] = Effect(g[i - 1], es[i].op)
              /\ Replay(data, es) = g[Len(es)]
  BY ReplaySteps
<1> DEFINE d == [i \in 0 .. Len(es) |-> data]
<1>2. \A i \in 0 .. Len(es) : g[i] = d[i]
  <2>1. g[0] = d[0]
    BY <1>0, <1>1
  <2>2. ASSUME NEW i \in 1 .. Len(es), g[i - 1] = d[i - 1] PROVE g[i] = d[i]
    <3>1. g[i - 1] = data /\ d[i] = data
      BY <1>0, <2>2
    <3>2. Effect(data, es[i].op) = data
      BY <1>0, RecordFields, EffectIs
    <3> QED
      BY <1>1, <3>1, <3>2
  <2> HIDE DEF d
  <2>3. Alike(g, d, Len(es))
    BY <2>1, <2>2 DEF Alike
  <2> QED
    BY <1>0, <2>3, SameSteps
<1> QED
  BY <1>0, <1>1, <1>2

\* What is above a number, record after record.
LEMMA AfterSteps ==
    ASSUME NEW m \in Nat, NEW es \in Seq(Record)
    PROVE  \E g \in [0 .. Len(es) -> Seq(Record)] :
              /\ g[0] = <<>>
              /\ \A i \in 1 .. Len(es) : g[i] = IF es[i].seq > m THEN Append(g[i - 1], es[i]) ELSE g[i - 1]
              /\ After(es, m) = g[Len(es)]
<1> DEFINE n == Len(es)
           More(s, i) == IF es[i].seq > m THEN Append(s, es[i]) ELSE s
           step == [p \in (1 .. n) \X Seq(Record) |-> More(p[2], p[1])]
           Runs(g) == g = [i \in 0 .. Len(es) |-> IF i = 0 THEN <<>> ELSE More(g[i - 1], i)]
<1>0. n \in Nat /\ \A i \in 1 .. n : es[i] \in Record
  OBVIOUS
<1>1. step \in [(1 .. n) \X Seq(Record) -> Seq(Record)]
  <2> SUFFICES ASSUME NEW i \in 1 .. n, NEW s \in Seq(Record) PROVE More(s, i) \in Seq(Record)
    OBVIOUS
  <2> QED
    BY <1>0, Appended
<1> HIDE DEF More
<1>2. \A i \in 1 .. n, s \in Seq(Record) : step[<<i, s>>] = More(s, i)
  OBVIOUS
<1> HIDE DEF step
<1>3. PICK g \in [0 .. n -> Seq(Record)] : Steps(g, n, <<>>, step)
  <2>1. <<>> \in Seq(Record)
    OBVIOUS
  <2> QED
    BY <1>0, <1>1, <2>1, Recursion
<1>4. \A i \in 1 .. n : g[i] = More(g[i - 1], i)
  <2> TAKE i \in 1 .. n
  <2>1. g[i - 1] \in Seq(Record)
    BY <1>0, <1>3
  <2> QED
    BY <1>2, <1>3, <2>1 DEF Steps
<1>5. Runs(g)
  <2>1. \A i \in 0 .. n : g[i] = IF i = 0 THEN <<>> ELSE More(g[i - 1], i)
    <3> TAKE i \in 0 .. n
    <3>1. CASE i = 0
      BY <1>3, <3>1 DEF Steps
    <3>2. CASE i # 0
      <4>1. i \in 1 .. n
        BY <1>0, <3>2
      <4> QED
        BY <1>4, <3>2, <4>1
    <3> QED
      BY <3>1, <3>2
  <2> QED
    BY <1>3, <2>1
<1> DEFINE c == CHOOSE g1 : Runs(g1)
<1>6. Runs(c)
  BY <1>5
<1>7. After(es, m) = c[n]
  BY DEF After, More
<1> HIDE DEF c
<1>8. \A i \in 0 .. n : c[i] = IF i = 0 THEN <<>> ELSE More(c[i - 1], i)
  BY <1>6
<1>9. \A i \in 0 .. n : c[i] = g[i]
  <2>1. c[0] = g[0]
    BY <1>0, <1>3, <1>8 DEF Steps
  <2>2. \A i \in 1 .. n : c[i - 1] = g[i - 1] => c[i] = g[i]
    BY <1>0, <1>4, <1>8
  <2>3. Alike(c, g, Len(es))
    BY <2>1, <2>2 DEF Alike
  <2> QED
    BY <1>0, <2>3, SameSteps
<1>10. c[n] = g[n]
  BY <1>0, <1>9
<1> QED
  BY <1>3, <1>4, <1>7, <1>10 DEF More, Steps

\* What is above a number: those records, in their order.
LEMMA AfterIs ==
    ASSUME NEW m \in Nat, NEW es \in Seq(Record)
    PROVE  /\ After(es, m) \in Seq(Record)
           /\ Range(After(es, m)) = {r \in Range(es) : r.seq > m}
           /\ Increasing(es) => Increasing(After(es, m))
<1>0. Len(es) \in Nat /\ \A i \in 1 .. Len(es) : es[i] \in Record /\ es[i].seq \in Nat
  BY RangeIs, RecordFields
<1>1. PICK g \in [0 .. Len(es) -> Seq(Record)] :
              /\ g[0] = <<>>
              /\ \A i \in 1 .. Len(es) : g[i] = IF es[i].seq > m THEN Append(g[i - 1], es[i]) ELSE g[i - 1]
              /\ After(es, m) = g[Len(es)]
  BY AfterSteps
<1> DEFINE Up(k) == /\ \A r : r \in Range(g[k]) <=> \E i \in 1 .. k : r = es[i] /\ r.seq > m
                    /\ Increasing(es) => Increasing(g[k])
           S == {k \in Nat : k <= Len(es) => Up(k)}
<1>2. 0 \in S
  <2>1. Range(g[0]) = {} /\ Increasing(g[0])
    BY <1>1 DEF Range, Increasing
  <2> QED
    BY <2>1
<1>3. ASSUME NEW k \in Nat, k \in S PROVE k + 1 \in S
  <2> SUFFICES ASSUME k + 1 <= Len(es) PROVE Up(k + 1)
    OBVIOUS
  <2>1. Up(k) /\ k \in 0 .. Len(es) /\ k + 1 \in 1 .. Len(es) /\ (k + 1) - 1 = k
    <3>1. k <= Len(es) /\ k \in 0 .. Len(es) /\ k + 1 \in 1 .. Len(es) /\ (k + 1) - 1 = k
      BY <1>0
    <3> HIDE DEF Up
    <3> QED
      BY <1>3, <3>1
  <2>2. g[k] \in Seq(Record) /\ es[k + 1] \in Record
    BY <1>0, <1>1, <2>1
  <2>3. \A i \in 1 .. k + 1 : i \in 1 .. k \/ i = k + 1
    OBVIOUS
  <2>4. CASE ~(es[k + 1].seq > m)
    <3>1. g[k + 1] = g[k]
      BY <1>1, <2>1, <2>4
    <3>2. \A r : (\E i \in 1 .. k : r = es[i] /\ r.seq > m) <=> (\E i \in 1 .. k + 1 : r = es[i] /\ r.seq > m)
      BY <2>3, <2>4
    <3> QED
      BY <2>1, <3>1, <3>2
  <2>5. CASE es[k + 1].seq > m
    <3>1. g[k + 1] = Append(g[k], es[k + 1])
      BY <1>1, <2>1, <2>5
    <3>2. Range(g[k + 1]) = Range(g[k]) \cup {es[k + 1]}
      BY <2>2, <3>1, Appended
    <3>3. \A r : r \in Range(g[k + 1]) <=> \E i \in 1 .. k + 1 : r = es[i] /\ r.seq > m
      <4>1. \A r : (\E i \in 1 .. k + 1 : r = es[i] /\ r.seq > m)
                     <=> (\E i \in 1 .. k : r = es[i] /\ r.seq > m) \/ r = es[k + 1]
        BY <2>3, <2>5
      <4> QED
        BY <2>1, <3>2, <4>1
    <3>4. ASSUME Increasing(es) PROVE Increasing(g[k + 1])
      <4> DEFINE s == g[k]
                 e == es[k + 1]
                 u == g[k + 1]
      <4>1. /\ Len(s) \in Nat /\ Len(u) = Len(s) + 1
            /\ \A j \in 1 .. Len(s) + 1 : u[j] = IF j = Len(s) + 1 THEN e ELSE s[j]
        BY <2>2, <3>1, Appended
      <4>2. Increasing(s)
        BY <2>1, <3>4
      <4>3. \A r \in Range(s) : r.seq < e.seq
        <5> SUFFICES ASSUME NEW r \in Range(s) PROVE r.seq < e.seq
          OBVIOUS
        <5>1. PICK i \in 1 .. k : r = es[i]
          BY <2>1
        <5>2. i \in 1 .. Len(es) /\ i < k + 1
          BY <2>1
        <5> QED
          BY <2>1, <3>4, <5>1, <5>2 DEF Increasing
      <4>4. \A j \in 1 .. Len(s) : s[j] \in Range(s)
        BY <2>2, RangeIs
      <4> HIDE DEF s, e, u
      <4>5. ASSUME NEW i \in 1 .. Len(u), NEW j \in 1 .. Len(u), i < j PROVE u[i].seq < u[j].seq
        <5>1. i \in 1 .. Len(s) /\ i # Len(s) + 1 /\ i \in 1 .. Len(s) + 1 /\ j \in 1 .. Len(s) + 1
          BY <4>1, <4>5
        <5>2. u[i] = s[i]
          BY <4>1, <5>1
        <5>3. CASE j = Len(s) + 1
          BY <4>1, <4>3, <4>4, <5>1, <5>2, <5>3
        <5>4. CASE j # Len(s) + 1
          <6>1. j \in 1 .. Len(s) /\ u[j] = s[j]
            BY <4>1, <5>1, <5>4
          <6> QED
            BY <4>2, <4>5, <5>1, <5>2, <6>1 DEF Increasing
        <5> QED
          BY <5>3, <5>4
      <4> QED
        BY <4>5 DEF Increasing, u
    <3> QED
      BY <3>3, <3>4
  <2> QED
    BY <2>4, <2>5
<1>4. Len(es) \in S
  <2> HIDE DEF S
  <2> QED
    BY <1>0, <1>2, <1>3, NatsInSet
<1>5. Up(Len(es)) /\ g[Len(es)] \in Seq(Record)
  BY <1>0, <1>1, <1>4
<1>6. \A r : r \in Range(es) <=> \E i \in 1 .. Len(es) : es[i] = r
  BY RangeIs
<1>7. Range(After(es, m)) = {r \in Range(es) : r.seq > m}
  BY <1>1, <1>5, <1>6
<1> QED
  BY <1>1, <1>5, <1>7

\* A record more is left out, or comes last.
LEMMA AfterMore ==
    ASSUME NEW m \in Nat, NEW es \in Seq(Record), NEW e \in Record
    PROVE  After(Append(es, e), m) = IF e.seq > m THEN Append(After(es, m), e) ELSE After(es, m)
<1> DEFINE fs == Append(es, e)
           n == Len(es)
<1>0. n \in Nat /\ fs \in Seq(Record) /\ Len(fs) = n + 1 /\ \A i \in 1 .. n : fs[i] = es[i]
  BY Appended
<1>a. fs[n + 1] = e
  BY Appended
<1> HIDE DEF fs
<1>1. PICK g \in [0 .. Len(es) -> Seq(Record)] :
              /\ g[0] = <<>>
              /\ \A i \in 1 .. Len(es) : g[i] = IF es[i].seq > m THEN Append(g[i - 1], es[i]) ELSE g[i - 1]
              /\ After(es, m) = g[Len(es)]
  BY AfterSteps
<1>2. PICK h \in [0 .. Len(fs) -> Seq(Record)] :
              /\ h[0] = <<>>
              /\ \A i \in 1 .. Len(fs) : h[i] = IF fs[i].seq > m THEN Append(h[i - 1], fs[i]) ELSE h[i - 1]
              /\ After(fs, m) = h[Len(fs)]
  BY <1>0, AfterSteps
<1>3. \A i \in 0 .. n : h[i] = g[i]
  <2>1. h[0] = g[0]
    BY <1>1, <1>2
  <2>2. ASSUME NEW i \in 1 .. n, h[i - 1] = g[i - 1] PROVE h[i] = g[i]
    <3>1. i \in 1 .. Len(fs) /\ fs[i] = es[i]
      BY <1>0
    <3>2. h[i] = IF fs[i].seq > m THEN Append(h[i - 1], fs[i]) ELSE h[i - 1]
      BY <1>2, <3>1
    <3>3. g[i] = IF es[i].seq > m THEN Append(g[i - 1], es[i]) ELSE g[i - 1]
      BY <1>1
    <3> QED
      BY <2>2, <3>1, <3>2, <3>3
  <2>3. Alike(h, g, Len(es))
    BY <2>1, <2>2 DEF Alike
  <2> QED
    BY <1>0, <2>3, SameSteps
<1>4. h[n + 1] = IF e.seq > m THEN Append(h[n], e) ELSE h[n]
  <2>1. n + 1 \in 1 .. Len(fs) /\ (n + 1) - 1 = n
    BY <1>0
  <2>2. h[n + 1] = IF fs[n + 1].seq > m THEN Append(h[(n + 1) - 1], fs[n + 1]) ELSE h[(n + 1) - 1]
    BY <1>2, <2>1
  <2> QED
    BY <1>a, <2>1, <2>2
<1>5. h[n] = g[n]
  BY <1>0, <1>3
<1> QED
  BY <1>0, <1>1, <1>2, <1>4, <1>5 DEF fs

-----------------------------------------------------------------------------
(***************************************************************************)
(* Reading the files in the order of their names.                          *)
(***************************************************************************)
\* Some files have a last one.
LEMMA LastOfIs ==
    ASSUME NEW names \in SUBSET Names, names # {}
    PROVE  LastOf(names) \in names /\ \A m \in names : FirstSeq(m) <= FirstSeq(LastOf(names))
<1>0. MaxSequence \in Nat /\ \A n \in names : FirstSeq(n) \in 1 .. MaxSequence
  BY WALAssumption DEF Names, Number, FirstSeq
<1> DEFINE T == {MaxSequence - FirstSeq(n) : n \in names}
           R == OpToRel(<, Nat)
<1>1. T \subseteq Nat /\ T # {}
  BY <1>0
<1>2. PICK x \in T : \A y \in T : ~(<<y, x>> \in R)
  <2>1. IsWellFoundedOn(R, Nat)
    BY NatLessThanWellFounded
  <2> HIDE DEF R, T
  <2> QED
    BY <1>1, <2>1, WFMin
<1>3. PICK n \in names : x = MaxSequence - FirstSeq(n)
  OBVIOUS
<1>4. \A m \in names : FirstSeq(m) <= FirstSeq(n)
  <2> SUFFICES ASSUME NEW m \in names, FirstSeq(m) > FirstSeq(n) PROVE FALSE
    BY <1>0
  <2> DEFINE y == MaxSequence - FirstSeq(m)
  <2>1. y \in T /\ y \in Nat /\ x \in Nat /\ y < x
    BY <1>0, <1>3
  <2>2. <<y, x>> \in R
    BY <2>1 DEF OpToRel
  <2> QED
    BY <1>2, <2>1, <2>2
<1> QED
  BY <1>4 DEF LastOf

\* Sets of names are finite, and without the last one smaller.
LEMMA FewerNames ==
    ASSUME NEW names \in SUBSET Names
    PROVE  /\ IsFiniteSet(names) /\ Cardinality(names) \in Nat
           /\ Cardinality(names) = 0 <=> names = {}
           /\ names # {} => Cardinality(names \ {LastOf(names)}) = Cardinality(names) - 1
<1>1. IsFiniteSet(Number)
  BY WALAssumption, FS_Interval DEF Number
<1>2. IsFiniteSet(Names)
  BY <1>1, FS_Product DEF Names
<1>3. IsFiniteSet(names)
  BY <1>2, FS_Subset
<1>4. names # {} => Cardinality(names \ {LastOf(names)}) = Cardinality(names) - 1
  BY <1>3, LastOfIs, FS_RemoveElement
<1> QED
  BY <1>3, <1>4, FS_CardinalityType, FS_EmptySet

\* What is read of some files, when g has what is read of fewer.
ReadStep(g, files, some) ==
    IF some = {} THEN <<>> ELSE g[some \ {LastOf(some)}] \o files[LastOf(some)]

\* One file after the other.
LEMMA ContentsSteps ==
    ASSUME NEW files, NEW names \in SUBSET Names
    PROVE  \E g : /\ \A some \in SUBSET names : g[some] = ReadStep(g, files, some)
                  /\ Contents(files, names) = g[names]
<1> DEFINE Good(g, k) == \A some \in SUBSET names : Cardinality(some) <= k => g[some] = ReadStep(g, files, some)
           S == {k \in Nat : \E g : Good(g, k)}
<1>0. \A some \in SUBSET names :
          /\ Cardinality(some) \in Nat
          /\ Cardinality(some) = 0 <=> some = {}
          /\ some # {} => Cardinality(some \ {LastOf(some)}) = Cardinality(some) - 1
          /\ some \ {LastOf(some)} \in SUBSET names
  BY FewerNames
<1>1. 0 \in S
  <2> DEFINE g0 == [some \in SUBSET names |-> <<>>]
  <2>1. ASSUME NEW some \in SUBSET names, Cardinality(some) <= 0 PROVE g0[some] = ReadStep(g0, files, some)
    <3>1. Cardinality(some) \in Nat
      BY <1>0
    <3>2. Cardinality(some) = 0
      BY <2>1, <3>1
    <3>3. some = {}
      BY <1>0, <3>2
    <3> QED
      BY <3>3 DEF ReadStep
  <2>2. Good(g0, 0)
    BY <2>1
  <2> HIDE DEF Good
  <2> QED
    BY <2>2
<1>2. ASSUME NEW k \in Nat, k \in S PROVE k + 1 \in S
  <2>1. PICK g : Good(g, k)
    BY <1>2
  <2> DEFINE h == [some \in SUBSET names |-> IF Cardinality(some) <= k THEN g[some] ELSE ReadStep(g, files, some)]
  <2>2. \A some \in SUBSET names : h[some] = ReadStep(g, files, some)
    BY <2>1
  <2>3. \A some \in SUBSET names : Cardinality(some) <= k => h[some] = g[some]
    OBVIOUS
  <2> HIDE DEF h
  <2>4. ASSUME NEW some \in SUBSET names, Cardinality(some) <= k + 1 PROVE h[some] = ReadStep(h, files, some)
    <3>1. CASE some = {}
      BY <2>2, <3>1 DEF ReadStep
    <3>2. CASE some # {}
      <4> DEFINE less == some \ {LastOf(some)}
      <4>1. less \in SUBSET names /\ Cardinality(less) <= k
        BY <1>0, <2>4, <3>2
      <4>2. h[less] = g[less]
        BY <2>3, <4>1
      <4>3. ReadStep(h, files, some) = ReadStep(g, files, some)
        BY <4>2 DEF ReadStep
      <4> QED
        BY <2>2, <4>3
    <3> QED
      BY <3>1, <3>2
  <2>5. Good(h, k + 1)
    BY <2>4
  <2> HIDE DEF Good
  <2> QED
    BY <2>5
<1>3. Cardinality(names) \in S
  <2>1. Cardinality(names) \in Nat
    BY <1>0
  <2> HIDE DEF S
  <2> QED
    BY <1>1, <1>2, <2>1, NatsInSet
<1>4. PICK g : Good(g, Cardinality(names))
  BY <1>3
<1>5. \A some \in SUBSET names : g[some] = ReadStep(g, files, some)
  <2>1. \A some \in SUBSET names : Cardinality(some) <= Cardinality(names)
    BY FewerNames, FS_Subset
  <2> QED
    BY <1>4, <2>1
<1> DEFINE f == [some \in SUBSET names |-> ReadStep(g, files, some)]
           Reads(r) == r = [some \in SUBSET names |-> ReadStep(r, files, some)]
<1>6. \A some \in SUBSET names : f[some] = g[some]
  BY <1>5
<1>7. \A some \in SUBSET names : ReadStep(f, files, some) = ReadStep(g, files, some)
  <2> SUFFICES ASSUME NEW some \in SUBSET names PROVE ReadStep(f, files, some) = ReadStep(g, files, some)
    OBVIOUS
  <2> HIDE DEF f
  <2>1. f[some \ {LastOf(some)}] = g[some \ {LastOf(some)}]
    BY <1>0, <1>6
  <2> QED
    BY <2>1 DEF ReadStep
<1>8. Reads(f)
  <2> DEFINE u == [some \in SUBSET names |-> ReadStep(f, files, some)]
  <2>1. f = u
    BY <1>7
  <2> QED
    BY <2>1
<1> DEFINE c == CHOOSE r : Reads(r)
<1>9. Reads(c)
  <2> HIDE DEF f
  <2> QED
    BY <1>8
<1>10. Contents(files, names) = c[names]
  BY DEF Contents, ReadStep
<1> HIDE DEF c
<1>11. \A some \in SUBSET names : c[some] = ReadStep(c, files, some)
  BY <1>9
<1> QED
  BY <1>10, <1>11

\* The records of a set of files: all of theirs; in order, if the files are.
LEMMA ContentsIs ==
    ASSUME NEW files, NEW names \in SUBSET Names, \A n \in names : files[n] \in Seq(Record)
    PROVE  /\ Contents(files, names) \in Seq(Record)
           /\ Range(Contents(files, names)) = UNION {Range(files[n]) : n \in names}
           /\ InOrder(files, names) => Increasing(Contents(files, names))
<1>1. PICK g : /\ \A some \in SUBSET names : g[some] = ReadStep(g, files, some)
               /\ Contents(files, names) = g[names]
  BY ContentsSteps
<1> DEFINE Read(some) == /\ g[some] \in Seq(Record)
                         /\ \A r : r \in Range(g[some]) <=> \E n \in some : r \in Range(files[n])
                         /\ InOrder(files, names) => Increasing(g[some])
           S == {k \in Nat : \A some \in SUBSET names : Cardinality(some) <= k => Read(some)}
<1>2. Read({})
  <2>1. g[{}] = <<>>
    BY <1>1 DEF ReadStep
  <2>2. <<>> \in Seq(Record) /\ Range(<<>>) = {} /\ Increasing(<<>>)
    BY DEF Range, Increasing
  <2> QED
    BY <2>1, <2>2
<1>3. ASSUME NEW some \in SUBSET names, some # {}, Read(some \ {LastOf(some)}) PROVE Read(some)
  <2> DEFINE last == LastOf(some)
             less == some \ {LastOf(some)}
  <2>1. last \in some /\ \A m \in some : FirstSeq(m) <= FirstSeq(last)
    BY <1>3, LastOfIs
  <2>2. g[some] = g[less] \o files[last]
    BY <1>1, <1>3 DEF ReadStep
  <2>3. g[less] \in Seq(Record) /\ files[last] \in Seq(Record)
    BY <1>3, <2>1
  <2>4. g[some] \in Seq(Record) /\ Range(g[some]) = Range(g[less]) \cup Range(files[last])
    <3> DEFINE s == g[less]
               t == files[last]
    <3>1. s \in Seq(Record) /\ t \in Seq(Record)
      BY <2>3
    <3> HIDE DEF s, t
    <3>2. s \o t \in Seq(Record) /\ Range(s \o t) = Range(s) \cup Range(t)
      BY <3>1, ConcatProperties, RangeConcatenation
    <3> QED
      BY <2>2, <3>2 DEF s, t
  <2>5. \A r : r \in Range(g[less]) <=> \E n \in less : r \in Range(files[n])
    BY <1>3
  <2>6. ASSUME InOrder(files, names) PROVE Increasing(g[some])
    <3>1. Increasing(g[less]) /\ Increasing(files[last])
      BY <1>3, <2>1, <2>6 DEF InOrder
    <3>2. ASSUME NEW r \in Range(g[less]), NEW q \in Range(files[last]) PROVE r.seq < q.seq
      <4>1. PICK n \in less : r \in Range(files[n])
        BY <2>5
      <4>2. n \in names /\ n # last /\ last \in names /\ n[1] <= last[1]
        BY <2>1 DEF FirstSeq
      <4>3. n[2] < last[1] \/ last[2] < n[1]
        BY <2>6, <4>2 DEF InOrder
      <4>4. r.seq <= n[2] /\ last[1] <= q.seq /\ q.seq <= last[2]
        BY <2>6, <4>1, <4>2 DEF InOrder
      <4>5. r.seq \in Nat /\ q.seq \in Nat
        BY <2>3, <4>1, <4>2, RangeIs, RecordFields
      <4>6. n[1] \in Nat /\ n[2] \in Nat /\ last[1] \in Nat /\ last[2] \in Nat
        BY <4>2, WALAssumption DEF Names, Number
      <4> HIDE DEF last
      <4> QED
        BY <4>2, <4>3, <4>4, <4>5, <4>6
    <3> HIDE DEF less, last
    <3> QED
      BY <2>2, <2>3, <3>1, <3>2, IncreasingConcat
  <2>7. \A r : r \in Range(g[some]) <=> \E n \in some : r \in Range(files[n])
    <3>1. some = less \cup {last}
      BY <2>1
    <3> HIDE DEF less, last
    <3> QED
      BY <2>4, <2>5, <3>1
  <2> QED
    BY <2>4, <2>6, <2>7
<1> HIDE DEF Read
<1>4. 0 \in S
  <2> SUFFICES ASSUME NEW some \in SUBSET names, Cardinality(some) <= 0 PROVE Read(some)
    OBVIOUS
  <2>1. Cardinality(some) \in Nat /\ (Cardinality(some) = 0 <=> some = {})
    BY FewerNames
  <2>2. Cardinality(some) = 0
    BY <2>1
  <2> QED
    BY <1>2, <2>1, <2>2
<1>5. ASSUME NEW k \in Nat, k \in S PROVE k + 1 \in S
  <2> SUFFICES ASSUME NEW some \in SUBSET names, Cardinality(some) <= k + 1 PROVE Read(some)
    OBVIOUS
  <2>1. CASE some = {}
    BY <1>2, <2>1
  <2>2. CASE some # {}
    <3> DEFINE less == some \ {LastOf(some)}
    <3>1. Cardinality(some) \in Nat /\ Cardinality(less) = Cardinality(some) - 1
      BY <2>2, FewerNames
    <3>2. less \in SUBSET names /\ Cardinality(less) <= k
      BY <3>1
    <3>3. Read(less)
      BY <1>5, <3>2
    <3> QED
      BY <1>3, <2>2, <3>3
  <2> QED
    BY <2>1, <2>2
<1>6. Read(names)
  <2>1. Cardinality(names) \in Nat
    BY FewerNames
  <2>2. Cardinality(names) \in S
    <3> HIDE DEF S
    <3> QED
      BY <1>4, <1>5, <2>1, NatsInSet
  <2> QED
    BY <2>1, <2>2
<1>7. Range(g[names]) = UNION {Range(files[n]) : n \in names}
  BY <1>6 DEF Read
<1> QED
  BY <1>1, <1>6, <1>7 DEF Read

\* The records of the files and of the active one after them.
LEMMA LogOf ==
    ASSUME NEW files, NEW names \in SUBSET Names, \A n \in names : files[n] \in Seq(Record),
           NEW act \in Seq(Record)
    PROVE  /\ Contents(files, names) \o act \in Seq(Record)
           /\ Range(Contents(files, names) \o act) = Range(act) \cup UNION {Range(files[n]) : n \in names}
           /\ InOrder(files, names) /\ Increasing(act)
                /\ (\A n \in names : \A r \in Range(files[n]), q \in Range(act) : r.seq < q.seq)
              => Increasing(Contents(files, names) \o act)
<1> DEFINE c == Contents(files, names)
<1>1. /\ c \in Seq(Record)
      /\ Range(c) = UNION {Range(files[n]) : n \in names}
      /\ InOrder(files, names) => Increasing(c)
  BY ContentsIs
<1> HIDE DEF c
<1>2. c \o act \in Seq(Record) /\ Range(c \o act) = Range(c) \cup Range(act)
  BY <1>1, ConcatProperties, RangeConcatenation
<1>3. ASSUME InOrder(files, names), Increasing(act),
             \A n \in names : \A r \in Range(files[n]), q \in Range(act) : r.seq < q.seq
      PROVE  Increasing(c \o act)
  <2>1. \A r \in Range(c), q \in Range(act) : r.seq < q.seq
    BY <1>1, <1>3
  <2> QED
    BY <1>1, <1>3, <2>1, IncreasingConcat
<1> QED
  BY <1>1, <1>2, <1>3 DEF c

\* The last record of a file.
LEMMA LastRecord ==
    ASSUME NEW s \in Seq(Record), s # <<>>
    PROVE  Last(s) \in Record /\ Last(s) \in Range(s) /\ Last(s) = s[Len(s)] /\ Len(s) \in 1 .. Len(s)
<1>1. Len(s) \in Nat /\ Len(s) # 0 /\ Last(s) = s[Len(s)]
  BY EmptySeq DEF Last
<1> QED
  BY <1>1, RangeIs

\* What is left of a file that lost its tail.
LEMMA RepairedTail ==
    ASSUME NEW s \in Seq(Record), NEW n \in 0 .. Len(s)
    PROVE  RepairTail(s, n) \in Seq(Record) /\ Len(RepairTail(s, n)) = n /\ \A i \in 1 .. n : RepairTail(s, n)[i] = s[i]
<1>1. n \in Nat /\ Len(s) \in Nat /\ 1 \in Int /\ n \in Int
  OBVIOUS
<1>2. \A i \in 1 .. n : s[i] \in Record
  BY <1>1
<1>3. /\ SubSeq(s, 1, n) \in Seq(Record)
      /\ Len(SubSeq(s, 1, n)) = IF 1 <= n THEN n - 1 + 1 ELSE 0
      /\ \A i \in 1 .. n - 1 + 1 : SubSeq(s, 1, n)[i] = s[1 + i - 1]
  BY <1>1, <1>2, SubSeqProperties
<1>4. Len(SubSeq(s, 1, n)) = n
  BY <1>1, <1>3
<1>5. \A i \in 1 .. n : i \in 1 .. n - 1 + 1 /\ 1 + i - 1 = i
  BY <1>1
<1> QED
  BY <1>3, <1>4, <1>5 DEF RepairTail

\* What a reader of the directory gets.
LEMMA ReadTypes ==
    ASSUME FileTypes, Readable
    PROVE  ReadWALEntriesFromDir \in Seq(Record)
<1>1. SegmentNames \in SUBSET Names /\ \A n \in SegmentNames : segments[n] \in Seq(Record)
  BY DEF FileTypes, Readable
<1>2. active \in Seq(Record)
  BY DEF FileTypes
<1> QED
  BY <1>1, <1>2, LogOf DEF ReadWALEntriesFromDir

-----------------------------------------------------------------------------
(***************************************************************************)
(* Types are kept, whatever may happen.                                    *)
(***************************************************************************)
\* Nothing is wrong at the start.
LEMMA InitTypeInv == Init => TypeInv
<1> SUFFICES ASSUME Init PROVE TypeInv
  OBVIOUS
<1>0. MaxSequence \in Nat /\ MaxCrashes \in Nat
  BY WALAssumption
<1>1. FileTypes
  <2>1. DOMAIN segments = {} /\ Len(active) = 0
    BY DEF Init
  <2> QED
    BY <1>0, <2>1 DEF Init, FileTypes, NoSegment
<1>2. ThreadTypes
  BY <1>0 DEF Init, ThreadTypes, EmptyStore, Stores, Points
<1>3. LockInv
  BY DEF Init, LockInv, InWalMu
<1> QED
  BY <1>1, <1>2, <1>3 DEF TypeInv

\* One thread goes on: w.mu has at most one holder still.
LEMMA OneHolder ==
    ASSUME ThreadTypes, LockInv, NEW t \in Thread, NEW x \in Points,
           x \in InWalMu => MuFree \/ pc[t] \in InWalMu,
           pc' = [pc EXCEPT ![t] = x]
    PROVE  \A u, v \in Thread : pc'[u] \in InWalMu /\ pc'[v] \in InWalMu => u = v
<1>1. \A u \in Thread : pc'[u] = IF u = t THEN x ELSE pc[u]
  BY DEF ThreadTypes
<1> QED
  BY <1>1 DEF LockInv, MuFree

\* Operations of callers are operations to log.
LEMMA OpsAreLogged == Operation \subseteq LoggedOp /\ CheckpointOp \in LoggedOp /\ Writer \subseteq Thread /\ Compactor \in Thread
BY DEF LoggedOp, Thread

\* A thread gets its number.
LEMMA NumberedTypes ==
    ASSUME TypeInv, NEW t \in Thread, NEW o \in LoggedOp, sequence < MaxSequence,
           sequence' = sequence + 1, seq' = [seq EXCEPT ![t] = sequence + 1],
           op' = [op EXCEPT ![t] = o], pc' = [pc EXCEPT ![t] = "numbered"],
           UNCHANGED <<active, synced, segments, manifest, snapshot, store, compactVars, settled, crashes>>
    PROVE  TypeInv'
<1>0. MaxSequence \in Nat /\ sequence \in Nat /\ sequence + 1 \in Number
  BY WALAssumption DEF TypeInv, FileTypes, Number
<1>1. FileTypes'
  <2>1. sequence' \in 0 .. MaxSequence
    BY <1>0 DEF Number
  <2> QED
    BY <2>1 DEF TypeInv, FileTypes, compactVars
<1>2. ThreadTypes'
  <2>1. "numbered" \in Points /\ sequence + 1 \in 0 .. MaxSequence
    BY <1>0 DEF Points, Number
  <2>2. pc' \in [Thread -> Points] /\ op' \in [Thread -> LoggedOp \cup {NoOp}] /\ seq' \in [Thread -> 0 .. MaxSequence]
    BY <2>1 DEF TypeInv, ThreadTypes
  <2> QED
    BY <2>2 DEF TypeInv, ThreadTypes, compactVars
<1>3. LockInv'
  <2>1. \A u \in Thread : /\ pc'[u] = IF u = t THEN "numbered" ELSE pc[u]
                          /\ op'[u] = IF u = t THEN o ELSE op[u]
                          /\ seq'[u] = IF u = t THEN sequence + 1 ELSE seq[u]
    BY DEF TypeInv, ThreadTypes
  <2>2. \A u, v \in Thread : pc'[u] \in InWalMu /\ pc'[v] \in InWalMu => u = v
    BY <2>1 DEF TypeInv, LockInv, InWalMu
  <2>3. \A u \in Thread : pc'[u] \in {"numbered", "rotate"} => seq'[u] \in Number /\ op'[u] \in LoggedOp
    BY <1>0, <2>1 DEF TypeInv, LockInv
  <2>4. \A u \in Thread : /\ pc'[u] = "rotate" => active' # <<>>
                          /\ pc'[u] = "sealed" => sealed' \in Names
    BY <2>1 DEF TypeInv, LockInv, compactVars
  <2> QED
    BY <2>2, <2>3, <2>4 DEF LockInv
<1> QED
  BY <1>1, <1>2, <1>3 DEF TypeInv

\* The program starts over the files that are left.
LEMMA ReopenTypes ==
    ASSUME TypeInv, CrashPoint, NEW acknowledged \in SUBSET Key, Reopen(acknowledged),
           UNCHANGED <<segments, manifest, snapshot, store>>,
           active' \in Seq(Record), synced' \in 0 .. Len(active')
    PROVE  TypeInv'
<1>0. MaxSequence \in Nat /\ MaxCrashes \in Nat
  BY WALAssumption
<1>1. sequence' \in 0 .. MaxSequence
  <2> DEFINE log == Contents(segments', SegmentNames') \o active'
  <2>1. sequence' = IF Readable' /\ log # <<>> THEN Last(log).seq ELSE 0
    BY DEF Reopen, LoadLastSequence, ReadWALEntriesFromDir
  <2>2. ASSUME Readable', log # <<>> PROVE Last(log).seq \in 0 .. MaxSequence
    <3>1. SegmentNames' \in SUBSET Names /\ \A n \in SegmentNames' : segments'[n] \in Seq(Record)
      BY <2>2 DEF TypeInv, FileTypes, Readable, SegmentNames
    <3>2. log \in Seq(Record)
      BY <3>1, LogOf
    <3> HIDE DEF log
    <3>3. Last(log) \in Record
      BY <2>2, <3>2, LastRecord
    <3> QED
      BY <1>0, <3>3, RecordFields DEF Number
  <2> HIDE DEF log
  <2> QED
    BY <1>0, <2>1, <2>2
<1>2. FileTypes'
  <2>1. kept' \in Seq(Record) /\ sealed' \in (0 .. MaxSequence) \X (0 .. MaxSequence)
    BY <1>0 DEF Reopen, NoSegment
  <2> QED
    BY <1>1, <2>1 DEF TypeInv, FileTypes
<1>3. ThreadTypes'
  <2>1. settled' \in SUBSET Key /\ crashes' \in 0 .. MaxCrashes /\ snapshotSeq' \in 0 .. MaxSequence
    BY <1>0 DEF Reopen, CrashPoint, TypeInv, ThreadTypes
  <2>2. pc' \in [Thread -> Points] /\ op' \in [Thread -> LoggedOp \cup {NoOp}] /\ seq' \in [Thread -> 0 .. MaxSequence]
    BY <1>0 DEF Reopen, Points
  <2> QED
    BY <2>1, <2>2 DEF TypeInv, ThreadTypes
<1>4. LockInv'
  <2>1. \A u \in Thread : pc'[u] = "idle"
    BY DEF Reopen
  <2> QED
    BY <2>1 DEF LockInv, InWalMu
<1> QED
  BY <1>2, <1>3, <1>4 DEF TypeInv

\* Every step keeps the types.
LEMMA NextTypeInv == TypeInv /\ [Next]_vars => TypeInv'
<1> SUFFICES ASSUME TypeInv, [Next]_vars PROVE TypeInv'
  OBVIOUS
<1>0. /\ MaxSequence \in Nat /\ MaxCrashes \in Nat
      /\ Operation \subseteq LoggedOp /\ CheckpointOp \in LoggedOp /\ Writer \subseteq Thread /\ Compactor \in Thread
  BY WALAssumption, OpsAreLogged
<1>1. ASSUME NEW w \in Writer, NEW o \in Operation, BeginWrite(w, o) PROVE TypeInv'
  BY <1>0, <1>1, NumberedTypes DEF BeginWrite
<1>2. CASE Checkpoint
  BY <1>0, <1>2, NumberedTypes DEF Checkpoint
<1>3. ASSUME NEW w \in Writer, ApplyToEngine(w) PROVE TypeInv'
  <2>0. /\ w \in Thread /\ "idle" \in Points
        /\ \A u \in Thread : /\ pc'[u] = IF u = w THEN "idle" ELSE pc[u]
                             /\ op'[u] = IF u = w THEN NoOp ELSE op[u]
                             /\ seq'[u] = IF u = w THEN 0 ELSE seq[u]
    BY <1>0, <1>3 DEF ApplyToEngine, TypeInv, ThreadTypes, Points
  <2>1. FileTypes'
    BY <1>3 DEF ApplyToEngine, TypeInv, FileTypes, logVars, compactVars
  <2>2. ThreadTypes'
    <3>1. op[w] \in LoggedOp \/ op[w] = NoOp
      BY <2>0 DEF TypeInv, ThreadTypes
    <3>2. Effect(store, op[w]) \in Stores
      <4>1. CASE op[w] \in LoggedOp
        BY <4>1, EffectIs DEF TypeInv, ThreadTypes
      <4>2. CASE op[w] = NoOp
        BY <4>2 DEF TypeInv, ThreadTypes, Effect, NoOp, Op
      <4> QED
        BY <3>1, <4>1, <4>2
    <3>3. pc' \in [Thread -> Points] /\ op' \in [Thread -> LoggedOp \cup {NoOp}] /\ seq' \in [Thread -> 0 .. MaxSequence]
      BY <1>0, <1>3, <2>0 DEF ApplyToEngine, TypeInv, ThreadTypes
    <3>4. settled' \in SUBSET Key
      BY <1>3 DEF ApplyToEngine, Settles, TypeInv, ThreadTypes
    <3> QED
      BY <1>3, <3>2, <3>3, <3>4 DEF ApplyToEngine, TypeInv, ThreadTypes, compactVars
  <2>3. LockInv'
    <3>1. \A u, v \in Thread : pc'[u] \in InWalMu /\ pc'[v] \in InWalMu => u = v
      BY <2>0 DEF TypeInv, LockInv, InWalMu
    <3>2. \A u \in Thread : pc'[u] \in {"numbered", "rotate"} => seq'[u] \in Number /\ op'[u] \in LoggedOp
      BY <2>0 DEF TypeInv, LockInv
    <3>3. \A u \in Thread : /\ pc'[u] = "rotate" => active' # <<>>
                            /\ pc'[u] = "sealed" => sealed' \in Names
      BY <1>3, <2>0 DEF ApplyToEngine, TypeInv, LockInv, logVars, compactVars
    <3> QED
      BY <3>1, <3>2, <3>3 DEF LockInv
  <2> QED
    BY <2>1, <2>2, <2>3 DEF TypeInv
<1>4. ASSUME NEW t \in Thread, AppendRecord(t) PROVE TypeInv'
  <2> DEFINE r == [seq |-> seq[t], op |-> op[t]]
             x == IF Full(Len(active) + 1) THEN "rotate" ELSE "logged"
  <2>0. /\ x \in Points /\ pc' = [pc EXCEPT ![t] = x] /\ pc[t] = "numbered" /\ MuFree
        /\ active' = Append(active, r) /\ UNCHANGED <<op, seq>>
        /\ \A u \in Thread : pc'[u] = IF u = t THEN x ELSE pc[u]
    BY <1>4 DEF AppendRecord, TypeInv, ThreadTypes, Points
  <2>1. r \in Record /\ seq[t] \in Number /\ op[t] \in LoggedOp
    BY <2>0 DEF TypeInv, LockInv, Record
  <2>2. active' \in Seq(Record) /\ Len(active') = Len(active) + 1 /\ active' # <<>> /\ Len(active) \in Nat
    <3>1. active \in Seq(Record)
      BY DEF TypeInv, FileTypes
    <3> HIDE DEF r
    <3> QED
      BY <2>0, <2>1, <3>1, Appended
  <2> HIDE DEF r, x
  <2>3. FileTypes'
    <3>1. synced' \in 0 .. Len(active')
      BY <1>4, <2>2 DEF AppendRecord, SyncedAfterAppend, TypeInv, FileTypes
    <3> QED
      BY <1>4, <2>2, <3>1 DEF AppendRecord, TypeInv, FileTypes, compactVars
  <2>4. ThreadTypes'
    BY <1>4, <2>0 DEF AppendRecord, TypeInv, ThreadTypes, compactVars
  <2>5. LockInv'
    <3>1. \A u, v \in Thread : pc'[u] \in InWalMu /\ pc'[v] \in InWalMu => u = v
      BY <2>0, OneHolder DEF TypeInv
    <3>2. \A u \in Thread : pc'[u] \in {"numbered", "rotate"} => seq'[u] \in Number /\ op'[u] \in LoggedOp
      BY <2>0, <2>1 DEF TypeInv, LockInv
    <3>3. \A u \in Thread : pc'[u] = "sealed" => sealed' \in Names
      BY <2>0 DEF MuFree, InWalMu, x
    <3> QED
      BY <2>2, <3>1, <3>2, <3>3 DEF LockInv
  <2> QED
    BY <2>3, <2>4, <2>5 DEF TypeInv
<1>5. ASSUME NEW t \in Thread, SealSegment(t) PROVE TypeInv'
  <2>0. /\ "sealed" \in Points /\ pc' = [pc EXCEPT ![t] = "sealed"] /\ pc[t] = "rotate"
        /\ \A u \in Thread : pc'[u] = IF u = t THEN "sealed" ELSE pc[u]
    BY <1>5 DEF SealSegment, TypeInv, ThreadTypes, Points
  <2>1. active \in Seq(Record) /\ active # <<>> /\ seq[t] \in Number
    BY <2>0 DEF TypeInv, FileTypes, LockInv
  <2>2. SegmentName(t) \in Names
    <3>1. Head(active) \in Record
      BY <2>1, HeadTailProperties
    <3> QED
      BY <2>1, <3>1, RecordFields DEF SegmentName, Names
  <2>3. FileTypes'
    <3> DEFINE name == SegmentName(t)
    <3>1. segments' = [n \in DOMAIN segments \cup {name} |-> IF n = name THEN active ELSE segments[n]]
      BY <1>5 DEF SealSegment
    <3>2. name \in Names /\ name \in (0 .. MaxSequence) \X (0 .. MaxSequence)
      BY <1>0, <2>2 DEF Names, Number
    <3> HIDE DEF name
    <3>3. DOMAIN segments' \subseteq Names /\ \A n \in DOMAIN segments' : segments'[n] \in Seq(Record)
      BY <2>1, <3>1, <3>2 DEF TypeInv, FileTypes
    <3>4. active' \in Seq(Record) /\ synced' \in 0 .. Len(active')
      BY <1>5 DEF SealSegment
    <3>5. sealed' = name
      BY <1>5 DEF SealSegment, name
    <3> QED
      BY <1>5, <3>2, <3>3, <3>4, <3>5 DEF SealSegment, TypeInv, FileTypes
  <2>4. ThreadTypes'
    BY <1>5, <2>0 DEF SealSegment, TypeInv, ThreadTypes
  <2>5. LockInv'
    <3>1. \A u, v \in Thread : pc'[u] \in InWalMu /\ pc'[v] \in InWalMu => u = v
      BY <2>0, OneHolder DEF TypeInv, InWalMu
    <3>2. \A u \in Thread : pc'[u] \in {"numbered", "rotate"} => seq'[u] \in Number /\ op'[u] \in LoggedOp
      BY <1>5, <2>0 DEF SealSegment, TypeInv, LockInv
    <3>3. \A u \in Thread : pc'[u] # "rotate"
      BY <2>0 DEF TypeInv, LockInv, InWalMu
    <3>4. sealed' \in Names
      BY <1>5, <2>2 DEF SealSegment
    <3> QED
      BY <3>1, <3>2, <3>3, <3>4 DEF LockInv
  <2> QED
    BY <2>3, <2>4, <2>5 DEF TypeInv
<1>6. ASSUME NEW t \in Thread, RegisterSegment(t) PROVE TypeInv'
  <2>0. /\ "logged" \in Points /\ pc' = [pc EXCEPT ![t] = "logged"] /\ pc[t] = "sealed"
        /\ \A u \in Thread : pc'[u] = IF u = t THEN "logged" ELSE pc[u]
    BY <1>6 DEF RegisterSegment, TypeInv, ThreadTypes, Points
  <2>1. sealed \in Names
    BY <2>0 DEF TypeInv, LockInv
  <2>2. FileTypes'
    <3>1. manifest' \in SUBSET Names
      BY <1>6, <2>1 DEF RegisterSegment, Listed, TypeInv, FileTypes
    <3>2. sealed' \in (0 .. MaxSequence) \X (0 .. MaxSequence)
      BY <1>0, <1>6 DEF RegisterSegment, NoSegment
    <3> QED
      BY <1>6, <3>1, <3>2 DEF RegisterSegment, TypeInv, FileTypes
  <2>3. ThreadTypes'
    BY <1>6, <2>0 DEF RegisterSegment, TypeInv, ThreadTypes
  <2>4. LockInv'
    <3>1. \A u, v \in Thread : pc'[u] \in InWalMu /\ pc'[v] \in InWalMu => u = v
      BY <2>0, OneHolder DEF TypeInv, InWalMu
    <3>2. \A u \in Thread : pc'[u] \in {"numbered", "rotate"} => seq'[u] \in Number /\ op'[u] \in LoggedOp
      BY <1>6, <2>0 DEF RegisterSegment, TypeInv, LockInv
    <3>3. \A u \in Thread : pc'[u] # "rotate" /\ pc'[u] # "sealed"
      BY <2>0 DEF TypeInv, LockInv, InWalMu
    <3> QED
      BY <3>1, <3>2, <3>3 DEF LockInv
  <2> QED
    BY <2>2, <2>3, <2>4 DEF TypeInv
<1>7. CASE StartCompaction
  <2>0. /\ "locked" \in Points /\ pc' = [pc EXCEPT ![Compactor] = "locked"] /\ pc[Compactor] = "idle"
        /\ \A u \in Thread : pc'[u] = IF u = Compactor THEN "locked" ELSE pc[u]
    BY <1>7 DEF StartCompaction, TypeInv, ThreadTypes, Points
  <2>1. FileTypes'
    BY <1>7 DEF StartCompaction, TypeInv, FileTypes, logVars
  <2>2. ThreadTypes'
    <3>1. snapshotSeq' \in 0 .. MaxSequence
      BY <1>7 DEF StartCompaction, SnapshotSequence, TypeInv, FileTypes
    <3> QED
      BY <1>7, <2>0, <3>1 DEF StartCompaction, TypeInv, ThreadTypes
  <2>3. LockInv'
    <3>1. \A u, v \in Thread : pc'[u] \in InWalMu /\ pc'[v] \in InWalMu => u = v
      BY <1>0, <2>0, OneHolder DEF TypeInv, InWalMu
    <3>2. UNCHANGED <<op, seq, active, sealed>>
      BY <1>7 DEF StartCompaction, logVars
    <3> QED
      BY <2>0, <3>1, <3>2 DEF TypeInv, LockInv
  <2> QED
    BY <2>1, <2>2, <2>3 DEF TypeInv
<1>8. CASE SaveSnapshot
  <2>0. /\ "saved" \in Points /\ pc' = [pc EXCEPT ![Compactor] = "saved"] /\ pc[Compactor] = "logged"
        /\ \A u \in Thread : pc'[u] = IF u = Compactor THEN "saved" ELSE pc[u]
    BY <1>8 DEF SaveSnapshot, TypeInv, ThreadTypes, Points
  <2>1. FileTypes'
    BY <1>8 DEF SaveSnapshot, TypeInv, FileTypes, logVars, compactVars
  <2>2. ThreadTypes'
    <3>1. snapshot' \in [seq : 0 .. MaxSequence, data : Stores]
      BY <1>8 DEF SaveSnapshot, TypeInv, ThreadTypes
    <3> QED
      BY <1>8, <2>0, <3>1 DEF SaveSnapshot, TypeInv, ThreadTypes, compactVars
  <2>3. LockInv'
    <3>1. \A u, v \in Thread : pc'[u] \in InWalMu /\ pc'[v] \in InWalMu => u = v
      BY <1>0, <2>0, OneHolder DEF TypeInv, InWalMu
    <3>2. UNCHANGED <<op, seq, active, sealed>>
      BY <1>8 DEF SaveSnapshot, logVars, compactVars
    <3> QED
      BY <2>0, <3>1, <3>2 DEF TypeInv, LockInv
  <2> QED
    BY <2>1, <2>2, <2>3 DEF TypeInv
<1>9. CASE RemoveSegments
  <2>0. /\ "removing" \in Points /\ pc' = [pc EXCEPT ![Compactor] = "removing"] /\ MuFree
        /\ \A u \in Thread : pc'[u] = IF u = Compactor THEN "removing" ELSE pc[u]
    BY <1>9 DEF RemoveSegments, TypeInv, ThreadTypes, Points
  <2>1. FileTypes'
    <3>1. kept' \in Seq(Record)
      <4>1. ASSUME Readable PROVE After(ReadWALEntriesFromDir, snapshotSeq) \in Seq(Record)
        <5>1. snapshotSeq \in Nat
          BY DEF TypeInv, ThreadTypes
        <5> QED
          BY <4>1, <5>1, ReadTypes, AfterIs DEF TypeInv
      <4>2. kept' = IF Readable THEN After(ReadWALEntriesFromDir, snapshotSeq) ELSE <<>>
        BY <1>9 DEF RemoveSegments
      <4> QED
        BY <4>1, <4>2
    <3>2. DOMAIN segments' \subseteq DOMAIN segments /\ \A n \in DOMAIN segments' : segments'[n] = segments[n]
      BY <1>9 DEF RemoveSegments
    <3>3. active' = active /\ synced' = Len(active) /\ Len(active) \in Nat
      BY <1>9 DEF RemoveSegments, TypeInv, FileTypes
    <3>4. manifest' \in SUBSET Names
      BY <1>9 DEF RemoveSegments, TypeInv, FileTypes
    <3> QED
      BY <1>9, <3>1, <3>2, <3>3, <3>4 DEF RemoveSegments, TypeInv, FileTypes
  <2>2. ThreadTypes'
    BY <1>9, <2>0 DEF RemoveSegments, TypeInv, ThreadTypes
  <2>3. LockInv'
    <3>1. \A u, v \in Thread : pc'[u] \in InWalMu /\ pc'[v] \in InWalMu => u = v
      BY <1>0, <2>0, OneHolder DEF TypeInv
    <3>2. UNCHANGED <<op, seq, active, sealed>>
      BY <1>9 DEF RemoveSegments
    <3> QED
      BY <2>0, <3>1, <3>2 DEF TypeInv, LockInv
  <2> QED
    BY <2>1, <2>2, <2>3 DEF TypeInv
<1>10. CASE DropSegments
  <2>0. /\ "dropped" \in Points /\ pc' = [pc EXCEPT ![Compactor] = "dropped"] /\ pc[Compactor] = "removing"
        /\ \A u \in Thread : pc'[u] = IF u = Compactor THEN "dropped" ELSE pc[u]
    BY <1>10 DEF DropSegments, TypeInv, ThreadTypes, Points
  <2>1. FileTypes'
    <3>1. DOMAIN segments' = {} /\ manifest' \in SUBSET Names
      BY <1>10 DEF DropSegments
    <3> QED
      BY <1>10, <3>1 DEF DropSegments, TypeInv, FileTypes, compactVars
  <2>2. ThreadTypes'
    BY <1>10, <2>0 DEF DropSegments, TypeInv, ThreadTypes, compactVars
  <2>3. LockInv'
    <3>1. \A u, v \in Thread : pc'[u] \in InWalMu /\ pc'[v] \in InWalMu => u = v
      BY <1>0, <2>0, OneHolder DEF TypeInv, InWalMu
    <3>2. UNCHANGED <<op, seq, active, sealed>>
      BY <1>10 DEF DropSegments, compactVars
    <3> QED
      BY <2>0, <3>1, <3>2 DEF TypeInv, LockInv
  <2> QED
    BY <2>1, <2>2, <2>3 DEF TypeInv
<1>11. CASE RenameTruncated
  <2>0. /\ "idle" \in Points /\ pc' = [pc EXCEPT ![Compactor] = "idle"] /\ pc[Compactor] = "dropped"
        /\ \A u \in Thread : /\ pc'[u] = IF u = Compactor THEN "idle" ELSE pc[u]
                             /\ op'[u] = IF u = Compactor THEN NoOp ELSE op[u]
                             /\ seq'[u] = IF u = Compactor THEN 0 ELSE seq[u]
    BY <1>11 DEF RenameTruncated, TypeInv, ThreadTypes, Points
  <2>1. FileTypes'
    <3>1. active' \in Seq(Record) /\ kept' \in Seq(Record) /\ synced' = Len(active') /\ Len(active') \in Nat
      BY <1>11 DEF RenameTruncated, TypeInv, FileTypes
    <3> QED
      BY <1>11, <3>1 DEF RenameTruncated, TypeInv, FileTypes
  <2>2. ThreadTypes'
    <3>1. pc' \in [Thread -> Points] /\ op' \in [Thread -> LoggedOp \cup {NoOp}] /\ seq' \in [Thread -> 0 .. MaxSequence]
      BY <1>0, <1>11, <2>0 DEF RenameTruncated, TypeInv, ThreadTypes
    <3> QED
      BY <1>0, <1>11, <3>1 DEF RenameTruncated, TypeInv, ThreadTypes
  <2>3. LockInv'
    <3>1. \A u, v \in Thread : pc'[u] \in InWalMu /\ pc'[v] \in InWalMu => u = v
      BY <1>0, <2>0, OneHolder DEF TypeInv, InWalMu
    <3>2. \A u \in Thread : pc'[u] \in {"numbered", "rotate"} => seq'[u] \in Number /\ op'[u] \in LoggedOp
      BY <2>0 DEF TypeInv, LockInv
    <3>3. \A u \in Thread : pc'[u] # "rotate" /\ pc'[u] # "sealed"
      BY <1>0, <2>0 DEF TypeInv, LockInv, InWalMu
    <3> QED
      BY <3>1, <3>2, <3>3 DEF LockInv
  <2> QED
    BY <2>1, <2>2, <2>3 DEF TypeInv
<1>12. CASE Sync
  <2>1. FileTypes'
    BY <1>12 DEF Sync, Fsync, TypeInv, FileTypes, compactVars
  <2>2. ThreadTypes'
    BY <1>12 DEF Sync, TypeInv, ThreadTypes, threadVars, compactVars
  <2>3. LockInv'
    BY <1>12 DEF Sync, TypeInv, LockInv, threadVars, compactVars
  <2> QED
    BY <2>1, <2>2, <2>3 DEF TypeInv
<1>13. CASE Crash
  <2>1. settled \in SUBSET Key /\ active' \in Seq(Record) /\ synced' \in 0 .. Len(active')
    BY <1>13 DEF Crash, TypeInv, FileTypes, ThreadTypes
  <2> QED
    BY <1>13, <2>1, ReopenTypes DEF Crash
<1>14. CASE PowerLoss
  <2>1. PICK n \in synced .. Len(active) :
              /\ active' = RepairTail(active, n)
              /\ synced' = n
              /\ Reopen(IF Immediate \/ n = Len(active) THEN settled ELSE {})
    BY <1>14 DEF PowerLoss
  <2>2. active \in Seq(Record) /\ n \in 0 .. Len(active) /\ n \in Nat /\ Len(active) \in Nat
    BY <2>1 DEF TypeInv, FileTypes
  <2>3. active' \in Seq(Record) /\ Len(active') = n
    BY <2>1, <2>2, RepairedTail
  <2>4. (IF Immediate \/ n = Len(active) THEN settled ELSE {}) \in SUBSET Key
    BY DEF TypeInv, ThreadTypes
  <2> QED
    BY <1>14, <2>1, <2>2, <2>3, <2>4, ReopenTypes DEF PowerLoss
<1>15. CASE Recover
  <2>1. FileTypes'
    <3>1. DOMAIN segments' = {} /\ manifest' \in SUBSET Names /\ active' \in Seq(Record) /\ synced' \in 0 .. Len(active')
      BY <1>15 DEF Recover
    <3> QED
      BY <1>0, <1>15, <3>1 DEF Recover, TypeInv, FileTypes, compactVars
  <2>2. ThreadTypes'
    <3>1. store' \in Stores
      <4>1. snapshot.seq \in Nat /\ snapshot.data \in Stores
        BY DEF TypeInv, ThreadTypes
      <4>2. After(ReadWALEntriesFromDir, snapshot.seq) \in Seq(Record)
        BY <1>15, <4>1, ReadTypes, AfterIs DEF Recover, TypeInv
      <4>3. store' = Replay(snapshot.data, After(ReadWALEntriesFromDir, snapshot.seq))
        BY <1>15 DEF Recover, RecoverIntoEngine
      <4> QED
        BY <4>1, <4>2, <4>3, ReplayTyped
    <3>2. snapshot' \in [seq : 0 .. MaxSequence, data : Stores]
      BY <1>0, <1>15 DEF Recover, EmptyStore, Stores
    <3>3. crashes' \in 0 .. MaxCrashes
      BY <1>0, <1>15 DEF Recover
    <3> QED
      BY <1>15, <3>1, <3>2, <3>3 DEF Recover, TypeInv, ThreadTypes, threadVars, compactVars
  <2>3. LockInv'
    <3>1. \A u \in Thread : pc'[u] = "idle"
      BY <1>15 DEF Recover, threadVars
    <3> QED
      BY <3>1 DEF LockInv, InWalMu
  <2> QED
    BY <2>1, <2>2, <2>3 DEF TypeInv
<1>16. CASE UNCHANGED vars
  BY <1>16 DEF vars, logVars, threadVars, compactVars, TypeInv, FileTypes, ThreadTypes, LockInv
<1> QED
  BY <1>1, <1>2, <1>3, <1>4, <1>5, <1>6, <1>7, <1>8, <1>9, <1>10, <1>11, <1>12, <1>13, <1>14, <1>15, <1>16
     DEF Next, Rotation, Compaction

\* The invariant's types are those of the model.
LEMMA TypeInvTypes == TypeInv => TypeOK
<1> SUFFICES ASSUME TypeInv PROVE TypeOK
  OBVIOUS
<1>1. ASSUME NEW s \in Seq(Record) PROVE \A i \in DOMAIN s : s[i] \in [seq : 1 .. MaxSequence, op : LoggedOp]
  <2>1. \A i \in DOMAIN s : s[i] \in Record
    BY LenProperties
  <2> QED
    BY <2>1 DEF Record, Number
<1>2. /\ \A i \in DOMAIN active : active[i] \in [seq : 1 .. MaxSequence, op : LoggedOp]
      /\ \A i \in DOMAIN kept : kept[i] \in [seq : 1 .. MaxSequence, op : LoggedOp]
      /\ \A n \in DOMAIN segments : \A i \in DOMAIN segments[n] :
            segments[n][i] \in [seq : 1 .. MaxSequence, op : LoggedOp]
  BY <1>1 DEF TypeInv, FileTypes
<1>3. sequence \in 0 .. MaxSequence /\ synced \in 0 .. Len(active)
        /\ sealed \in (0 .. MaxSequence) \X (0 .. MaxSequence)
        /\ manifest \subseteq (1 .. MaxSequence) \X (1 .. MaxSequence)
  BY DEF TypeInv, FileTypes, Names, Number
<1> QED
  BY <1>2, <1>3 DEF TypeInv, ThreadTypes, Stores, Points, TypeOK

\* Files hold whole records with numbers handed out, fsync has reached a prefix
\* of the active one, and every thread is at a point of its operation, whatever
\* order, crash or loss of power may come: NewWAL, Append and the truncation
\* never make anything else of the files (wal.go, wal_segments.go).
THEOREM TypesHold == Spec => []TypeOK
<1>1. Init => TypeInv
  BY InitTypeInv
<1>2. TypeInv /\ [Next]_vars => TypeInv'
  BY NextTypeInv
<1>3. TypeInv => TypeOK
  BY TypeInvTypes
<1> QED
  BY <1>1, <1>2, <1>3, PTL DEF Spec

-----------------------------------------------------------------------------
(***************************************************************************)
(* The order of the records is kept, when numbers reach the file in their  *)
(* order, a crash does not split a rotation or a truncation, and power     *)
(* loss spares what a snapshot covers.                                     *)
(***************************************************************************)
Orderly ==
    /\ Hazards \cap {"reorder", "rotate", "truncate"} = {}
    /\ "unsynced" \in Hazards => Immediate

\* What is compared below are numbers.
LEMMA Numbers ==
    ASSUME TypeInv
    PROVE  /\ sequence \in Nat /\ snapshotSeq \in Nat /\ snapshot.seq \in Nat /\ MaxSequence \in Nat
           /\ synced \in Nat /\ Len(active) \in Nat /\ synced <= Len(active)
           /\ \A t \in Thread : seq[t] \in Nat /\ pc[t] \in Points
           /\ \A r \in Recs \cup Range(kept) : r \in Record /\ r.seq \in Nat
           /\ \A n \in DOMAIN segments : n \in Names /\ n[1] \in Nat /\ n[2] \in Nat
           /\ Range(active) \subseteq Recs /\ Archived \subseteq Recs
<1>1. sequence \in Nat /\ MaxSequence \in Nat /\ synced \in Nat /\ Len(active) \in Nat /\ synced <= Len(active)
  BY WALAssumption DEF TypeInv, FileTypes
<1>2. snapshotSeq \in Nat /\ snapshot.seq \in Nat /\ \A t \in Thread : seq[t] \in Nat /\ pc[t] \in Points
  BY DEF TypeInv, ThreadTypes
<1>3. ASSUME NEW r \in Recs \cup Range(kept) PROVE r \in Record /\ r.seq \in Nat
  <2>1. \A n \in DOMAIN segments : Range(segments[n]) \subseteq Record
    BY RangeIs DEF TypeInv, FileTypes
  <2>2. Range(active) \subseteq Record /\ Range(kept) \subseteq Record
    BY RangeIs DEF TypeInv, FileTypes
  <2>3. r \in Record
    BY <1>3, <2>1, <2>2 DEF Recs, Archived
  <2> QED
    BY <2>3, RecordFields
<1>4. \A n \in DOMAIN segments : n \in Names /\ n[1] \in Nat /\ n[2] \in Nat
  BY <1>1 DEF TypeInv, FileTypes, Names, Number
<1> QED
  BY <1>1, <1>2, <1>3, <1>4 DEF Recs

\* The files hold the records, in their order.
LEMMA FilesIs ==
    ASSUME TypeInv, SegmentInv, Increasing(active)
    PROVE  Files \in Seq(Record) /\ Range(Files) = Recs /\ Increasing(Files)
<1>1. DOMAIN segments \in SUBSET Names /\ \A n \in DOMAIN segments : segments[n] \in Seq(Record)
  BY DEF TypeInv, FileTypes
<1>2. active \in Seq(Record)
  BY DEF TypeInv, FileTypes
<1>3. \A n \in DOMAIN segments : \A r \in Range(segments[n]), q \in Range(active) : r.seq < q.seq
  <2> SUFFICES ASSUME NEW n \in DOMAIN segments, NEW r \in Range(segments[n]), NEW q \in Range(active)
               PROVE  r.seq < q.seq
    OBVIOUS
  <2>1. r \in Recs /\ q \in Recs
    BY DEF Recs, Archived
  <2>2. r.seq <= n[2] /\ n[2] < q.seq
    BY DEF SegmentInv, InOrder
  <2> QED
    BY <2>1, <2>2, Numbers
<1>4. InOrder(segments, DOMAIN segments)
  BY DEF SegmentInv
<1> QED
  BY <1>1, <1>2, <1>3, <1>4, LogOf DEF Files, Recs, Archived

\* A thread that asks for w.mu finds no file operation under way.
LEMMA Quiet ==
    ASSUME TypeInv, ManifestInv, MuFree
    PROVE  /\ ~Truncating /\ \A t \in Thread : pc[t] \notin {"rotate", "sealed", "removing", "dropped"}
           /\ manifest = DOMAIN segments /\ SegmentNames = DOMAIN segments /\ Readable
<1>1. \A t \in Thread : pc[t] \notin {"rotate", "sealed", "removing", "dropped"}
  BY DEF MuFree, InWalMu
<1>2. ~Truncating
  BY <1>1, OpsAreLogged DEF Truncating
<1>3. manifest = DOMAIN segments
  BY <1>1, <1>2 DEF ManifestInv
<1> QED
  BY <1>1, <1>2, <1>3 DEF SegmentNames, Readable

\* At the start there is nothing to order.
LEMMA InitLogInv == Init => LogInv
<1> SUFFICES ASSUME Init PROVE LogInv
  OBVIOUS
<1>1. DOMAIN segments = {} /\ Range(active) = {} /\ Range(kept) = {} /\ Len(active) = 0 /\ Len(kept) = 0
  BY DEF Init, Range
<1>2. Recs = {} /\ \A t \in Thread : pc[t] = "idle"
  BY <1>1 DEF Init, Recs, Archived
<1>3. SegmentInv
  BY <1>1 DEF SegmentInv, InOrder
<1>4. NumberInv
  BY <1>1, <1>2 DEF NumberInv, Increasing
<1>5. ManifestInv
  BY <1>1, <1>2, OpsAreLogged DEF Init, ManifestInv
<1>6. CheckpointInv
  BY <1>2, OpsAreLogged DEF Init, CheckpointInv, Reached
<1>7. SnapshotInv
  BY <1>1, <1>2, OpsAreLogged DEF Init, SnapshotInv
<1> QED
  BY <1>3, <1>4, <1>5, <1>6, <1>7 DEF LogInv, OrderInv

\* A thread gets a number above all that there are.
LEMMA NumberedLog ==
    ASSUME TypeInv, LogInv, NEW t \in Thread,
           t = Compactor => pc[t] = "locked", t # Compactor => pc[t] = "idle",
           sequence' = sequence + 1, seq' = [seq EXCEPT ![t] = sequence + 1],
           pc' = [pc EXCEPT ![t] = "numbered"],
           UNCHANGED <<active, synced, segments, manifest, snapshot, compactVars>>
    PROVE  LogInv'
<1>0. \A u \in Thread : /\ pc'[u] = IF u = t THEN "numbered" ELSE pc[u]
                        /\ seq'[u] = IF u = t THEN sequence + 1 ELSE seq[u]
  BY DEF TypeInv, ThreadTypes
<1>1. /\ pc[t] \in {"idle", "locked"} /\ Compactor \in Thread
      /\ UNCHANGED <<active, synced, segments, manifest, snapshot, snapshotSeq, kept, sealed>>
  BY OpsAreLogged DEF compactVars
<1>2. Recs' = Recs /\ Archived' = Archived /\ Safe' = Safe
  BY <1>1 DEF Recs, Archived, Safe
<1>3. Truncating' = Truncating
  BY <1>0, <1>1 DEF Truncating
<1>4. Logged' = Logged
  BY <1>1, <1>2, <1>3 DEF Logged
<1>5. SegmentInv'
  BY <1>1 DEF LogInv, OrderInv, SegmentInv, InOrder, Increasing
<1>6. NumberInv'
  <2>1. Increasing(active)' /\ Increasing(kept)'
    BY <1>1 DEF LogInv, OrderInv, NumberInv, Increasing
  <2>2. ASSUME NEW r \in Recs \cup Range(kept)
        PROVE  r.seq <= sequence + 1 /\ \A u \in Thread : pc'[u] = "numbered" => r.seq < seq'[u]
    BY <1>0, Numbers DEF LogInv, OrderInv, NumberInv
  <2>3. ASSUME NEW u \in Thread, pc'[u] = "numbered" PROVE seq'[u] <= sequence + 1
    BY <1>0, <2>3, Numbers DEF LogInv, OrderInv, NumberInv
  <2>4. ASSUME NEW u \in Thread, NEW v \in Thread, pc'[u] = "numbered", pc'[v] = "numbered", seq'[u] = seq'[v]
        PROVE  u = v
    BY <1>0, <2>4, Numbers DEF LogInv, OrderInv, NumberInv
  <2>5. ASSUME NEW u \in Thread, pc'[u] = "rotate" PROVE Last(active)'.seq = seq'[u]
    BY <1>0, <1>1, <2>5 DEF LogInv, OrderInv, NumberInv
  <2> QED
    BY <1>1, <1>2, <2>1, <2>2, <2>3, <2>4, <2>5 DEF NumberInv
<1>7. ManifestInv'
  <2>1. (\E u \in Thread : pc'[u] = "sealed") <=> (\E u \in Thread : pc[u] = "sealed")
    BY <1>0, <1>1
  <2>2. pc'[Compactor] = "dropped" => pc[Compactor] = "dropped"
    BY <1>0, <1>1
  <2> QED
    BY <1>1, <1>3, <2>1, <2>2 DEF LogInv, OrderInv, ManifestInv
<1>8. CheckpointInv'
  <2>1. Reached(sequence)'
    BY <1>0 DEF Reached
  <2>2. Reached(snapshotSeq) => Reached(snapshotSeq)'
    BY <1>0, <1>1, <1>4 DEF Reached
  <2>3. CASE t = Compactor
    <3>1. pc[Compactor] = "locked" /\ pc'[Compactor] = "numbered" /\ seq'[Compactor] = sequence + 1
      BY <1>0, <2>3
    <3>2. snapshotSeq <= sequence /\ Reached(snapshotSeq)
      BY <3>1 DEF LogInv, CheckpointInv
    <3> QED
      BY <1>1, <2>1, <2>2, <3>1, <3>2, Numbers DEF CheckpointInv
  <2>4. CASE t # Compactor
    <3>1. pc'[Compactor] = pc[Compactor] /\ seq'[Compactor] = seq[Compactor]
      BY <1>0, <1>1, <2>4
    <3>2. snapshotSeq <= sequence => snapshotSeq <= sequence + 1
      BY Numbers
    <3> QED
      BY <1>1, <1>4, <2>1, <2>2, <3>1, <3>2 DEF LogInv, CheckpointInv
  <2> QED
    BY <2>3, <2>4
<1>9. SnapshotInv'
  <2>1. snapshot.seq <= sequence + 1 /\ \A u \in Thread : pc'[u] = "numbered" => snapshot.seq < seq'[u]
    BY <1>0, Numbers DEF LogInv, SnapshotInv
  <2>2. pc'[Compactor] \in {"saved", "removing", "dropped"} => pc[Compactor] \in {"saved", "removing", "dropped"}
    BY <1>0, <1>1
  <2> QED
    BY <1>1, <1>2, <1>3, <2>1, <2>2 DEF LogInv, SnapshotInv
<1> QED
  BY <1>5, <1>6, <1>7, <1>8, <1>9 DEF LogInv, OrderInv

\* The record with the lowest number that waits comes after all others.
LEMMA AppendLog ==
    ASSUME TypeInv, LogInv, Orderly, NEW t \in Thread, AppendRecord(t)
    PROVE  LogInv'
<1> DEFINE r == [seq |-> seq[t], op |-> op[t]]
           x == IF Full(Len(active) + 1) THEN "rotate" ELSE "logged"
<1>0. /\ x \in {"rotate", "logged"} /\ pc' = [pc EXCEPT ![t] = x] /\ pc[t] = "numbered" /\ MuFree
      /\ active' = Append(active, r) /\ Compactor \in Thread
      /\ UNCHANGED <<sequence, segments, manifest, snapshot, op, seq, snapshotSeq, kept, sealed>>
      /\ \A u \in Thread : pc'[u] = IF u = t THEN x ELSE pc[u]
  BY OpsAreLogged DEF AppendRecord, TypeInv, ThreadTypes, compactVars
<1>1. r \in Record /\ r.seq = seq[t]
  BY <1>0 DEF TypeInv, LockInv, Record
<1>2. active \in Seq(Record)
  BY DEF TypeInv, FileTypes
<1>3. \A u \in Thread : pc[u] = "numbered" => seq[t] <= seq[u]
  BY DEF AppendRecord, Orderly
<1> HIDE DEF r, x
<1>4. /\ active' \in Seq(Record) /\ Len(active') = Len(active) + 1
      /\ \A j \in 1 .. Len(active) + 1 : active'[j] = IF j = Len(active) + 1 THEN r ELSE active[j]
      /\ Range(active') = Range(active) \cup {r} /\ active' # <<>>
  BY <1>0, <1>1, <1>2, Appended
<1>5. Archived' = Archived /\ Recs' = Recs \cup {r}
  BY <1>0, <1>4 DEF Recs, Archived
<1>6. ~Truncating /\ ~Truncating' /\ \A u \in Thread : pc[u] \notin {"rotate", "sealed", "removing", "dropped"}
  BY <1>0, Quiet DEF LogInv, OrderInv, Truncating
<1>7. Logged = Recs /\ Logged' = Recs \cup {r}
  BY <1>5, <1>6 DEF Logged
<1>8. \A q \in Recs \cup Range(kept) : q.seq < seq[t]
  BY <1>0 DEF LogInv, OrderInv, NumberInv
<1>9. SegmentInv'
  <2>1. ASSUME NEW n \in DOMAIN segments PROVE n[2] < r.seq
    <3>1. PICK q \in Range(segments[n]) : q.seq = n[2]
      BY DEF LogInv, OrderInv, SegmentInv, InOrder
    <3>2. q \in Recs
      BY DEF Recs, Archived
    <3> QED
      BY <1>1, <1>8, <3>1, <3>2
  <2>2. InOrder(segments, DOMAIN segments)'
    BY <1>0 DEF LogInv, OrderInv, SegmentInv, InOrder, Increasing
  <2> QED
    BY <1>0, <1>4, <2>1, <2>2 DEF LogInv, OrderInv, SegmentInv
<1>10. NumberInv'
  <2>1. Increasing(kept)'
    BY <1>0 DEF LogInv, OrderInv, NumberInv, Increasing
  <2>2. Increasing(active')
    <3>1. ASSUME NEW i \in 1 .. Len(active'), NEW j \in 1 .. Len(active'), i < j PROVE active'[i].seq < active'[j].seq
      <4>1. i \in 1 .. Len(active) /\ j \in 1 .. Len(active) + 1 /\ i \in 1 .. Len(active) + 1 /\ i # Len(active) + 1
        BY <1>4, <3>1, Numbers
      <4>2. active'[i] = active[i] /\ active[i] \in Range(active)
        BY <1>2, <1>4, <4>1, RangeIs
      <4>3. CASE j = Len(active) + 1
        BY <1>1, <1>4, <1>8, <4>1, <4>2, <4>3, Numbers
      <4>4. CASE j # Len(active) + 1
        <5>1. j \in 1 .. Len(active) /\ active'[j] = active[j]
          BY <1>4, <4>1, <4>4, Numbers
        <5>2. Increasing(active)
          BY DEF LogInv, OrderInv, NumberInv
        <5> QED
          BY <3>1, <4>1, <4>2, <5>1, <5>2 DEF Increasing
      <4> QED
        BY <4>3, <4>4
    <3> QED
      BY <3>1 DEF Increasing
  <2>3. ASSUME NEW q \in Recs \cup Range(kept) \cup {r}
        PROVE  q.seq <= sequence /\ \A u \in Thread : pc'[u] = "numbered" => q.seq < seq[u]
    <3>1. CASE q \in Recs \cup Range(kept)
      <4>1. q.seq <= sequence /\ \A u \in Thread : pc[u] = "numbered" => q.seq < seq[u]
        BY <3>1 DEF LogInv, OrderInv, NumberInv
      <4>2. \A u \in Thread : pc'[u] = "numbered" => pc[u] = "numbered"
        BY <1>0
      <4> QED
        BY <4>1, <4>2
    <3>2. CASE q = r
      <4>1. r.seq <= sequence
        BY <1>0, <1>1 DEF LogInv, OrderInv, NumberInv
      <4>2. ASSUME NEW u \in Thread, pc'[u] = "numbered" PROVE r.seq < seq[u]
        <5>1. u # t /\ pc[u] = "numbered"
          BY <1>0, <4>2
        <5>2. seq[t] <= seq[u] /\ seq[t] # seq[u]
          BY <1>0, <1>3, <5>1 DEF LogInv, OrderInv, NumberInv
        <5> QED
          BY <1>1, <5>2, Numbers
      <4> QED
        BY <3>2, <4>1, <4>2
    <3> QED
      BY <2>3, <3>1, <3>2
  <2>4. ASSUME NEW u \in Thread, pc'[u] = "rotate" PROVE Last(active').seq = seq[u]
    <3>1. u = t
      BY <1>0, <1>6, <2>4
    <3>2. Last(active') = r
      BY <1>4, Numbers DEF Last
    <3> QED
      BY <1>1, <3>1, <3>2
  <2>5. /\ \A u \in Thread : pc'[u] = "numbered" => seq[u] <= sequence
        /\ \A u, v \in Thread : pc'[u] = "numbered" /\ pc'[v] = "numbered" /\ seq[u] = seq[v] => u = v
    BY <1>0 DEF LogInv, OrderInv, NumberInv
  <2>6. Last(active)' = Last(active')
    BY DEF Last
  <2> QED
    BY <1>0, <1>5, <2>1, <2>2, <2>3, <2>4, <2>5, <2>6 DEF NumberInv
<1>11. ManifestInv'
  <2>1. \A u \in Thread : pc'[u] # "sealed" /\ pc'[u] # "dropped"
    BY <1>0, <1>6
  <2>2. manifest = DOMAIN segments
    BY <1>0, Quiet DEF LogInv, OrderInv
  <2>3. kept = <<>>
    BY <1>6 DEF LogInv, OrderInv, ManifestInv
  <2> QED
    BY <1>0, <2>1, <2>2, <2>3 DEF ManifestInv
<1>12. CheckpointInv'
  <2>1. ASSUME NEW y, Reached(y) PROVE y = 0 \/ (\E q \in Logged' : q.seq = y) \/ (\E u \in Thread : pc'[u] = "numbered" /\ seq'[u] = y)
    BY <1>0, <1>1, <1>7, <2>1 DEF Reached
  <2>2. Reached(sequence)' /\ (Reached(snapshotSeq) => Reached(snapshotSeq)')
    BY <1>0, <2>1 DEF LogInv, CheckpointInv, Reached
  <2>3. CASE t = Compactor
    <3>1. pc[Compactor] = "numbered" /\ pc'[Compactor] \in {"rotate", "logged"}
      BY <1>0, <2>3
    <3>2. snapshotSeq <= sequence /\ Reached(snapshotSeq) /\ snapshotSeq < seq[Compactor]
      BY <3>1 DEF LogInv, CheckpointInv
    <3>3. \E q \in Logged' : q.seq = seq[Compactor]
      BY <1>1, <1>7, <2>3
    <3> QED
      BY <1>0, <2>2, <3>1, <3>2, <3>3 DEF CheckpointInv
  <2>4. CASE t # Compactor
    <3>1. pc'[Compactor] = pc[Compactor]
      BY <1>0, <2>4
    <3>2. \A y : (\E q \in Logged : q.seq = y) => (\E q \in Logged' : q.seq = y)
      BY <1>7
    <3> QED
      BY <1>0, <2>2, <3>1, <3>2 DEF LogInv, CheckpointInv
  <2> QED
    BY <2>3, <2>4
<1>13. SnapshotInv'
  <2>1. Safe \subseteq Safe'
    <3>1. synced' \in Nat /\ synced' >= synced
      BY Numbers DEF AppendRecord, SyncedAfterAppend
    <3>2. \A i \in 1 .. synced : i \in 1 .. synced' /\ active'[i] = active[i]
      BY <1>4, <3>1, Numbers
    <3> QED
      BY <1>5, <3>2 DEF Safe
  <2>2. Immediate => synced' = Len(active')
    BY <1>4 DEF AppendRecord, SyncedAfterAppend
  <2>3. /\ \A u \in Thread : pc'[u] = "numbered" => snapshot.seq < seq[u]
        /\ pc'[Compactor] \in {"saved", "removing", "dropped"} => snapshot.seq = snapshotSeq
    BY <1>0 DEF LogInv, SnapshotInv
  <2>4. \/ snapshot.seq = 0
        \/ \E q \in Recs' : q.seq = snapshot.seq
        \/ \E q \in Safe' : q.seq > snapshot.seq
    BY <1>5, <1>6, <2>1 DEF LogInv, SnapshotInv
  <2>5. snapshot.seq <= sequence
    BY DEF LogInv, SnapshotInv
  <2> QED
    BY <1>0, <2>2, <2>3, <2>4, <2>5 DEF SnapshotInv
<1> QED
  BY <1>9, <1>10, <1>11, <1>12, <1>13 DEF LogInv, OrderInv

\* What fsync has reached is in the files.
LEMMA SafeIsLogged == TypeInv => Safe \subseteq Recs
<1> SUFFICES ASSUME TypeInv PROVE Safe \subseteq Recs
  OBVIOUS
<1>1. active \in Seq(Record)
  BY DEF TypeInv, FileTypes
<1>2. \A i \in 1 .. synced : i \in 1 .. Len(active)
  BY Numbers
<1>3. \A i \in 1 .. synced : active[i] \in Range(active)
  BY <1>1, <1>2, RangeIs
<1> QED
  BY <1>3 DEF Safe, Recs

\* What a full file becomes when it is sealed.
LEMMA SealedFile ==
    ASSUME TypeInv, LogInv, NEW t \in Thread, SealSegment(t)
    PROVE  /\ active \in Seq(Record) /\ active # <<>>
           /\ SegmentName(t) \notin DOMAIN segments
           /\ SegmentName(t)[1] = Head(active).seq /\ SegmentName(t)[2] = seq[t]
           /\ Head(active) \in Range(active) /\ Last(active) \in Range(active) /\ Last(active).seq = seq[t]
           /\ \A r \in Range(active) : Head(active).seq <= r.seq /\ r.seq <= seq[t]
           /\ DOMAIN segments' = DOMAIN segments \cup {SegmentName(t)}
           /\ \A n \in DOMAIN segments : segments'[n] = segments[n]
           /\ segments'[SegmentName(t)] = active
           /\ active' = <<>> /\ Range(active') = {}
           /\ Recs' = Recs /\ Safe' = Recs
<1>1. active \in Seq(Record) /\ active # <<>> /\ pc[t] = "rotate"
  BY DEF SealSegment, TypeInv, FileTypes, LockInv
<1>2. Last(active) \in Range(active) /\ Last(active) = active[Len(active)] /\ Len(active) \in 1 .. Len(active)
  BY <1>1, LastRecord
<1>3. Head(active) = active[1] /\ Head(active) \in Range(active) /\ 1 \in 1 .. Len(active)
  BY <1>1, <1>2, RangeIs
<1>4. Last(active).seq = seq[t]
  BY <1>1 DEF LogInv, OrderInv, NumberInv
<1>5. ASSUME NEW r \in Range(active) PROVE Head(active).seq <= r.seq /\ r.seq <= seq[t]
  <2>1. PICK i \in 1 .. Len(active) : active[i] = r
    BY <1>1, RangeIs
  <2>2. Increasing(active)
    BY DEF LogInv, OrderInv, NumberInv
  <2>3. Len(active) \in Nat /\ r.seq \in Nat /\ Head(active).seq \in Nat /\ Last(active).seq \in Nat
    BY <1>2, <1>3, <1>1, RangeIs, RecordFields, Numbers
  <2>4. i = 1 \/ active[1].seq < r.seq
    <3>1. i = 1 \/ 1 < i
      OBVIOUS
    <3> QED
      BY <1>3, <2>1, <2>2, <3>1 DEF Increasing
  <2>5. i = Len(active) \/ r.seq < active[Len(active)].seq
    <3>1. i = Len(active) \/ i < Len(active)
      BY <2>3
    <3> QED
      BY <1>2, <2>1, <2>2, <3>1 DEF Increasing
  <2>6. Head(active).seq <= r.seq
    BY <1>3, <2>1, <2>3, <2>4
  <2>7. r.seq <= Last(active).seq
    BY <1>2, <2>1, <2>3, <2>5
  <2> QED
    BY <1>4, <2>6, <2>7
<1>6. SegmentName(t)[1] = Head(active).seq /\ SegmentName(t)[2] = seq[t]
  BY DEF SegmentName
<1>7. SegmentName(t) \notin DOMAIN segments
  <2> DEFINE n == SegmentName(t)
  <2> SUFFICES ASSUME n \in DOMAIN segments PROVE FALSE
    OBVIOUS
  <2>1. n[2] < Head(active).seq
    BY <1>3 DEF LogInv, OrderInv, SegmentInv
  <2>2. Head(active).seq <= seq[t]
    BY <1>3, <1>5
  <2>3. Head(active).seq \in Nat /\ seq[t] \in Nat
    BY <1>1, <1>3, RangeIs, RecordFields, Numbers
  <2> QED
    BY <1>6, <2>1, <2>2, <2>3
<1> DEFINE name == SegmentName(t)
<1>8. segments' = [n \in DOMAIN segments \cup {name} |-> IF n = name THEN active ELSE segments[n]]
  BY DEF SealSegment
<1>9. active' = <<>> /\ synced' = 0 /\ Range(active') = {}
  BY DEF SealSegment, Range
<1> HIDE DEF name
<1>10. /\ DOMAIN segments' = DOMAIN segments \cup {name}
       /\ \A n \in DOMAIN segments : segments'[n] = segments[n]
       /\ segments'[name] = active
  BY <1>7, <1>8 DEF name
<1>11. Archived' = Recs
  BY <1>10 DEF Archived, Recs
<1>12. Recs' = Recs /\ Safe' = Recs
  BY <1>9, <1>11 DEF Recs, Safe
<1> QED
  BY <1>1, <1>2, <1>3, <1>4, <1>5, <1>6, <1>7, <1>9, <1>10, <1>12 DEF name

\* A full file becomes the last segment.
LEMMA SealLog ==
    ASSUME TypeInv, LogInv, NEW t \in Thread, SealSegment(t)
    PROVE  LogInv'
<1> DEFINE name == SegmentName(t)
<1>0. /\ pc[t] = "rotate" /\ Compactor \in Thread /\ sealed' = name
      /\ UNCHANGED <<sequence, manifest, snapshot, op, seq, snapshotSeq, kept>>
      /\ \A u \in Thread : pc'[u] = IF u = t THEN "sealed" ELSE pc[u]
  BY OpsAreLogged DEF SealSegment, TypeInv, ThreadTypes
<1>1. /\ active \in Seq(Record) /\ active # <<>>
      /\ name \notin DOMAIN segments
      /\ name[1] = Head(active).seq /\ name[2] = seq[t]
      /\ Head(active) \in Range(active) /\ Last(active) \in Range(active) /\ Last(active).seq = seq[t]
      /\ \A r \in Range(active) : Head(active).seq <= r.seq /\ r.seq <= seq[t]
      /\ DOMAIN segments' = DOMAIN segments \cup {name}
      /\ \A n \in DOMAIN segments : segments'[n] = segments[n]
      /\ segments'[name] = active
      /\ active' = <<>> /\ Range(active') = {}
      /\ Recs' = Recs /\ Safe' = Recs
  BY SealedFile
<1> HIDE DEF name
<1>2. \A u \in Thread : pc[u] \in {"rotate", "sealed", "removing", "dropped"} => u = t
  BY <1>0 DEF TypeInv, LockInv, InWalMu
<1>3. ~Truncating /\ ~Truncating'
  BY <1>0, <1>2 DEF Truncating
<1>4. Logged' = Logged
  BY <1>1, <1>3 DEF Logged
<1>5. SegmentInv'
  <2>1. ASSUME NEW n \in DOMAIN segments' PROVE /\ Increasing(segments'[n])
                                                /\ \A r \in Range(segments'[n]) : n[1] <= r.seq /\ r.seq <= n[2]
                                                /\ \E r \in Range(segments'[n]) : r.seq = n[2]
    <3>1. CASE n = name
      <4>1. Increasing(active)
        BY DEF LogInv, OrderInv, NumberInv
      <4> QED
        BY <1>1, <3>1, <4>1
    <3>2. CASE n \in DOMAIN segments
      BY <1>1, <3>2 DEF LogInv, OrderInv, SegmentInv, InOrder
    <3> QED
      BY <1>1, <2>1, <3>1, <3>2
  <2>2. ASSUME NEW n \in DOMAIN segments', NEW m \in DOMAIN segments', n # m PROVE n[2] < m[1] \/ m[2] < n[1]
    <3>1. \A p \in DOMAIN segments : p[2] < name[1]
      BY <1>1 DEF LogInv, OrderInv, SegmentInv
    <3>2. CASE n = name \/ m = name
      BY <1>1, <2>2, <3>1, <3>2
    <3>3. CASE n \in DOMAIN segments /\ m \in DOMAIN segments
      BY <2>2, <3>3 DEF LogInv, OrderInv, SegmentInv, InOrder
    <3> QED
      BY <1>1, <3>2, <3>3
  <2> QED
    BY <1>1, <2>1, <2>2 DEF SegmentInv, InOrder, Increasing
<1>6. NumberInv'
  <2>1. Increasing(active)' /\ Increasing(kept)'
    BY <1>0, <1>1 DEF LogInv, OrderInv, NumberInv, Increasing
  <2>2. \A u \in Thread : pc'[u] # "rotate" /\ (pc'[u] = "numbered" => pc[u] = "numbered")
    BY <1>0, <1>2
  <2> QED
    BY <1>0, <1>1, <2>1, <2>2 DEF LogInv, OrderInv, NumberInv
<1>7. ManifestInv'
  <2>1. manifest = DOMAIN segments
    BY <1>0, <1>2, <1>3 DEF LogInv, OrderInv, ManifestInv
  <2>2. pc'[t] = "sealed" /\ pc'[Compactor] # "dropped"
    BY <1>0, <1>2
  <2>3. kept = <<>>
    BY <1>3 DEF LogInv, OrderInv, ManifestInv
  <2> QED
    BY <1>0, <1>1, <2>1, <2>2, <2>3 DEF ManifestInv
<1>8. CheckpointInv'
  <2>1. \A u \in Thread : pc'[u] = "numbered" <=> pc[u] = "numbered"
    BY <1>0
  <2>2. Reached(sequence)' /\ (Reached(snapshotSeq) => Reached(snapshotSeq)')
    BY <1>0, <1>4, <2>1 DEF LogInv, CheckpointInv, Reached
  <2>3. pc'[Compactor] = pc[Compactor] \/ (pc[Compactor] = "rotate" /\ pc'[Compactor] = "sealed")
    BY <1>0
  <2> QED
    BY <1>0, <1>4, <2>2, <2>3 DEF LogInv, CheckpointInv
<1>9. SnapshotInv'
  <2>1. \A u \in Thread : pc'[u] = "numbered" <=> pc[u] = "numbered"
    BY <1>0
  <2>2. pc'[Compactor] \notin {"saved", "removing", "dropped"} \/ pc'[Compactor] = pc[Compactor]
    BY <1>0
  <2>3. synced' = Len(active')
    BY <1>1 DEF SealSegment
  <2>4. Safe \subseteq Safe'
    BY <1>1, SafeIsLogged
  <2> QED
    BY <1>0, <1>1, <1>3, <2>1, <2>2, <2>3, <2>4 DEF LogInv, SnapshotInv
<1> QED
  BY <1>5, <1>6, <1>7, <1>8, <1>9 DEF LogInv, OrderInv

\* The manifest lists the sealed segment.
LEMMA RegisterLog ==
    ASSUME TypeInv, LogInv, NEW t \in Thread, RegisterSegment(t)
    PROVE  LogInv'
<1>0. /\ pc[t] = "sealed" /\ Compactor \in Thread /\ manifest' = manifest \cup {sealed}
      /\ UNCHANGED <<sequence, active, synced, segments, snapshot, op, seq, snapshotSeq, kept>>
      /\ \A u \in Thread : pc'[u] = IF u = t THEN "logged" ELSE pc[u]
  BY OpsAreLogged DEF RegisterSegment, Listed, TypeInv, ThreadTypes
<1>1. Recs' = Recs /\ Archived' = Archived /\ Safe' = Safe
  BY <1>0 DEF Recs, Archived, Safe
<1>2. \A u \in Thread : pc[u] \in {"rotate", "sealed", "removing", "dropped"} => u = t
  BY <1>0 DEF TypeInv, LockInv, InWalMu
<1>3. ~Truncating /\ ~Truncating'
  BY <1>0, <1>2 DEF Truncating
<1>4. Logged' = Logged
  BY <1>1, <1>3 DEF Logged
<1>5. SegmentInv'
  BY <1>0 DEF LogInv, OrderInv, SegmentInv, InOrder, Increasing
<1>6. NumberInv'
  <2>1. Increasing(active)' /\ Increasing(kept)'
    BY <1>0 DEF LogInv, OrderInv, NumberInv, Increasing
  <2>2. \A u \in Thread : pc'[u] # "rotate" /\ (pc'[u] = "numbered" => pc[u] = "numbered")
    BY <1>0, <1>2
  <2> QED
    BY <1>0, <1>1, <2>1, <2>2 DEF LogInv, OrderInv, NumberInv
<1>7. ManifestInv'
  <2>1. sealed \in DOMAIN segments /\ manifest = DOMAIN segments \ {sealed}
    BY <1>0, <1>3 DEF LogInv, OrderInv, ManifestInv
  <2>2. \A u \in Thread : pc'[u] # "sealed" /\ pc'[u] # "dropped"
    BY <1>0, <1>2
  <2>3. kept = <<>>
    BY <1>3 DEF LogInv, OrderInv, ManifestInv
  <2> QED
    BY <1>0, <2>1, <2>2, <2>3 DEF ManifestInv
<1>8. CheckpointInv'
  <2>1. \A u \in Thread : pc'[u] = "numbered" <=> pc[u] = "numbered"
    BY <1>0
  <2>2. Reached(sequence)' /\ (Reached(snapshotSeq) => Reached(snapshotSeq)')
    BY <1>0, <1>4, <2>1 DEF LogInv, CheckpointInv, Reached
  <2>3. pc'[Compactor] = pc[Compactor] \/ (pc[Compactor] = "sealed" /\ pc'[Compactor] = "logged")
    BY <1>0
  <2> QED
    BY <1>0, <1>4, <2>2, <2>3 DEF LogInv, CheckpointInv
<1>9. SnapshotInv'
  <2>1. \A u \in Thread : pc'[u] = "numbered" <=> pc[u] = "numbered"
    BY <1>0
  <2>2. pc'[Compactor] \notin {"saved", "removing", "dropped"} \/ pc'[Compactor] = pc[Compactor]
    BY <1>0
  <2> QED
    BY <1>0, <1>1, <1>3, <2>1, <2>2 DEF LogInv, SnapshotInv
<1> QED
  BY <1>5, <1>6, <1>7, <1>8, <1>9 DEF LogInv, OrderInv

\* A step that leaves the files alone, and no thread with a number to write.
LEMMA SameFilesLog ==
    ASSUME TypeInv, LogInv,
           UNCHANGED <<sequence, active, segments, manifest, snapshot, kept, sealed>>,
           synced' = synced \/ synced' = Len(active),
           \A u \in Thread : \/ pc'[u] = pc[u] /\ seq'[u] = seq[u]
                             \/ pc[u] = "logged" /\ pc'[u] = "idle"
                             \/ pc[u] = "idle" /\ pc'[u] = "locked",
           \/ pc'[Compactor] = pc[Compactor] /\ snapshotSeq' = snapshotSeq
           \/ pc'[Compactor] = "locked" /\ snapshotSeq' = sequence
    PROVE  LogInv'
<1>0. /\ Compactor \in Thread
      /\ \A u \in Thread : pc'[u] \in {"numbered", "rotate", "sealed", "saved", "removing", "dropped"}
                             => pc'[u] = pc[u] /\ seq'[u] = seq[u]
      /\ \A u \in Thread : pc[u] \in {"numbered", "rotate", "sealed", "saved", "removing", "dropped"}
                             => pc'[u] = pc[u] /\ seq'[u] = seq[u]
  BY OpsAreLogged
<1>1. Recs' = Recs /\ Archived' = Archived /\ Safe \subseteq Safe'
  <2>1. \A i \in 1 .. synced : i \in 1 .. synced'
    BY Numbers
  <2> QED
    BY <2>1 DEF Recs, Archived, Safe
<1>a. Immediate => synced' = Len(active')
  BY DEF LogInv, SnapshotInv
<1>2. Truncating' = Truncating
  BY <1>0 DEF Truncating
<1>3. Logged' = Logged
  BY <1>1, <1>2 DEF Logged
<1>4. SegmentInv'
  BY DEF LogInv, OrderInv, SegmentInv, InOrder, Increasing
<1>5. NumberInv'
  <2>1. Increasing(active)' /\ Increasing(kept)'
    BY DEF LogInv, OrderInv, NumberInv, Increasing
  <2>2. \A u \in Thread : pc'[u] = "rotate" => Last(active)'.seq = seq'[u]
    BY <1>0 DEF LogInv, OrderInv, NumberInv
  <2> QED
    BY <1>0, <1>1, <2>1, <2>2 DEF LogInv, OrderInv, NumberInv
<1>6. ManifestInv'
  <2>1. (\E u \in Thread : pc'[u] = "sealed") <=> (\E u \in Thread : pc[u] = "sealed")
    BY <1>0
  <2>2. pc'[Compactor] = "dropped" => pc[Compactor] = "dropped"
    BY <1>0
  <2> QED
    BY <1>2, <2>1, <2>2 DEF LogInv, OrderInv, ManifestInv
<1>7. CheckpointInv'
  <2>1. \A y : Reached(y) =>
          \/ y = 0 \/ (\E q \in Logged' : q.seq = y) \/ (\E u \in Thread : pc'[u] = "numbered" /\ seq'[u] = y)
    BY <1>0, <1>3 DEF Reached
  <2>2. Reached(sequence)'
    BY <2>1 DEF LogInv, CheckpointInv, Reached
  <2>3. CASE pc'[Compactor] = "locked" /\ snapshotSeq' = sequence
    <3>1. Reached(snapshotSeq)' /\ snapshotSeq' <= sequence'
      BY <2>2, <2>3, Numbers DEF Reached
    <3> QED
      BY <2>2, <2>3, <3>1 DEF CheckpointInv
  <2>4. CASE pc'[Compactor] = pc[Compactor] /\ snapshotSeq' = snapshotSeq
    <3>1. Reached(snapshotSeq) => Reached(snapshotSeq)'
      BY <2>1, <2>4 DEF Reached
    <3>2. pc[Compactor] = "idle" \/ seq'[Compactor] = seq[Compactor]
      BY <1>0, <2>4
    <3> QED
      BY <1>3, <2>2, <2>4, <3>1, <3>2 DEF LogInv, CheckpointInv
  <2> QED
    BY <2>3, <2>4
<1>8. SnapshotInv'
  <2>1. pc'[Compactor] \in {"saved", "removing", "dropped"} => pc[Compactor] = pc'[Compactor] /\ snapshotSeq' = snapshotSeq
    BY <1>0
  <2>2. \A u \in Thread : pc'[u] = "numbered" => snapshot.seq < seq'[u]
    BY <1>0 DEF LogInv, SnapshotInv
  <2> QED
    BY <1>1, <1>2, <1>a, <2>1, <2>2 DEF LogInv, SnapshotInv
<1> QED
  BY <1>4, <1>5, <1>6, <1>7, <1>8 DEF LogInv, OrderInv

\* The snapshot is below what waits, and the log reaches beyond it.
LEMMA SaveLog ==
    ASSUME TypeInv, LogInv, SaveSnapshot
    PROVE  LogInv'
<1>0. /\ pc[Compactor] = "logged" /\ Compactor \in Thread /\ snapshot'.seq = snapshotSeq
      /\ UNCHANGED <<sequence, active, synced, segments, manifest, seq, snapshotSeq, kept, sealed>>
      /\ \A u \in Thread : pc'[u] = IF u = Compactor THEN "saved" ELSE pc[u]
  BY OpsAreLogged DEF SaveSnapshot, TypeInv, ThreadTypes, logVars, compactVars
<1>1. Recs' = Recs /\ Archived' = Archived /\ Safe' = Safe
  BY <1>0 DEF Recs, Archived, Safe
<1>2. ~Truncating /\ ~Truncating'
  BY <1>0 DEF Truncating
<1>3. Logged' = Recs /\ Logged = Recs
  BY <1>1, <1>2 DEF Logged
<1>4. SegmentInv'
  BY <1>0 DEF LogInv, OrderInv, SegmentInv, InOrder, Increasing
<1>5. \A u \in Thread : pc'[u] \in {"numbered", "rotate", "sealed"} <=> pc[u] \in {"numbered", "rotate", "sealed"}
  BY <1>0
<1>6. \A u \in Thread : pc'[u] \in {"numbered", "rotate", "sealed"} => pc[u] = pc'[u]
  BY <1>0
<1>7. NumberInv'
  <2>1. Increasing(active)' /\ Increasing(kept)'
    BY <1>0 DEF LogInv, OrderInv, NumberInv, Increasing
  <2>2. \A u \in Thread : pc'[u] = "rotate" => Last(active)'.seq = seq'[u]
    BY <1>0, <1>6 DEF LogInv, OrderInv, NumberInv
  <2> QED
    BY <1>0, <1>1, <1>6, <2>1, <2>2 DEF LogInv, OrderInv, NumberInv
<1>8. ManifestInv'
  <2>1. (\E u \in Thread : pc'[u] = "sealed") <=> (\E u \in Thread : pc[u] = "sealed")
    BY <1>0
  <2>2. pc'[Compactor] # "dropped"
    BY <1>0
  <2> QED
    BY <1>0, <1>2, <2>1, <2>2 DEF LogInv, OrderInv, ManifestInv
<1>9. CheckpointInv'
  <2>1. Reached(sequence)'
    BY <1>0, <1>3 DEF LogInv, CheckpointInv, Reached
  <2>2. pc'[Compactor] = "saved"
    BY <1>0
  <2> QED
    BY <1>0, <1>3, <2>1, <2>2 DEF LogInv, CheckpointInv
<1>10. SnapshotInv'
  <2>1. PICK c \in Recs : c.seq = seq[Compactor]
    BY <1>0, <1>3 DEF LogInv, CheckpointInv
  <2>2. snapshotSeq < c.seq /\ snapshotSeq <= sequence
    BY <1>0, <2>1 DEF LogInv, CheckpointInv
  <2>3. ASSUME NEW u \in Thread, pc[u] = "numbered" PROVE snapshotSeq < seq[u]
    <3>1. c.seq < seq[u]
      BY <2>1, <2>3 DEF LogInv, OrderInv, NumberInv
    <3> QED
      BY <2>1, <2>2, <3>1, Numbers
  <2>4. snapshotSeq = 0 \/ \E r \in Recs : r.seq = snapshotSeq
    <3>1. Reached(snapshotSeq)
      BY <1>0 DEF LogInv, CheckpointInv
    <3>2. \A u \in Thread : pc[u] = "numbered" => seq[u] # snapshotSeq
      BY <2>3, Numbers
    <3> QED
      BY <1>3, <3>1, <3>2 DEF Reached
  <2>5. Immediate => synced = Len(active)
    BY DEF LogInv, SnapshotInv
  <2> QED
    BY <1>0, <1>1, <1>6, <2>2, <2>3, <2>4, <2>5 DEF SnapshotInv
<1> QED
  BY <1>4, <1>7, <1>8, <1>9, <1>10 DEF LogInv, OrderInv

\* What truncation keeps: the records above the snapshot, the checkpoint's too.
LEMMA KeptIs ==
    ASSUME TypeInv, LogInv, RemoveSegments
    PROVE  /\ kept' = After(Files, snapshotSeq) /\ Increasing(kept')
           /\ Range(kept') = {r \in Recs : r.seq > snapshotSeq}
<1>1. MuFree
  BY DEF RemoveSegments
<1>2. Readable /\ SegmentNames = DOMAIN segments
  BY <1>1, Quiet DEF LogInv, OrderInv
<1>3. kept' = After(Files, snapshotSeq)
  BY <1>2 DEF RemoveSegments, Files, ReadWALEntriesFromDir
<1>4. Files \in Seq(Record) /\ Range(Files) = Recs /\ Increasing(Files)
  BY FilesIs DEF LogInv, OrderInv, NumberInv
<1>5. snapshotSeq \in Nat
  BY Numbers
<1> QED
  BY <1>3, <1>4, <1>5, AfterIs

\* The files may go one by one: what matters of them is in the temporary file.
LEMMA RemoveLog ==
    ASSUME TypeInv, LogInv, RemoveSegments
    PROVE  LogInv'
<1>0. /\ pc[Compactor] = "saved" /\ Compactor \in Thread /\ synced' = Len(active)
      /\ UNCHANGED <<sequence, active, snapshot, seq, snapshotSeq, sealed>>
      /\ \A u \in Thread : pc'[u] = IF u = Compactor THEN "removing" ELSE pc[u]
      /\ DOMAIN segments' \subseteq DOMAIN segments
      /\ \A n \in DOMAIN segments' : segments'[n] = segments[n]
  BY OpsAreLogged DEF RemoveSegments, TypeInv, ThreadTypes
<1>1. Increasing(kept') /\ Range(kept') = {r \in Recs : r.seq > snapshotSeq}
  BY KeptIs
<1>2. Recs' \subseteq Recs
  BY <1>0 DEF Recs, Archived
<1>3. ~Truncating /\ Truncating'
  BY <1>0 DEF Truncating
<1>4. Logged = Recs /\ Logged' = Range(kept')
  BY <1>3 DEF Logged
<1>5. \A u \in Thread : pc'[u] \in {"numbered", "rotate"} => pc[u] = pc'[u]
  BY <1>0
<1>6. SegmentInv'
  BY <1>0 DEF LogInv, OrderInv, SegmentInv, InOrder, Increasing
<1>7. NumberInv'
  <2>1. Increasing(active)'
    BY <1>0 DEF LogInv, OrderInv, NumberInv, Increasing
  <2>2. \A u \in Thread : pc'[u] = "rotate" => Last(active)'.seq = seq'[u]
    BY <1>0, <1>5 DEF LogInv, OrderInv, NumberInv
  <2>3. \A r \in (Recs \cup Range(kept))' : r \in Recs
    BY <1>1, <1>2
  <2>4. Increasing(kept)'
    BY <1>1 DEF Increasing
  <2> QED
    BY <1>0, <1>5, <2>1, <2>2, <2>3, <2>4 DEF LogInv, OrderInv, NumberInv
<1>8. ManifestInv'
  <2>1. pc'[Compactor] # "dropped"
    BY <1>0
  <2> QED
    BY <1>3, <2>1 DEF ManifestInv
<1>9. CheckpointInv'
  <2>1. PICK c \in Recs : c.seq = seq[Compactor]
    BY <1>0, <1>4 DEF LogInv, CheckpointInv
  <2>2. snapshotSeq < c.seq /\ snapshotSeq <= sequence /\ c.seq <= sequence
    BY <1>0, <2>1 DEF LogInv, CheckpointInv, OrderInv, NumberInv
  <2>3. c \in Logged'
    BY <1>1, <1>4, <2>1, <2>2, Numbers
  <2>4. sequence > snapshotSeq /\ sequence # 0
    BY <2>1, <2>2, Numbers
  <2>5. \A u \in Thread : pc[u] = "numbered" => pc'[u] = "numbered"
    BY <1>0
  <2>6. Reached(sequence)'
    <3>1. Reached(sequence)
      BY DEF LogInv, CheckpointInv
    <3>2. CASE \E r \in Recs : r.seq = sequence
      BY <1>0, <1>1, <1>4, <2>4, <3>2 DEF Reached
    <3>3. CASE \E u \in Thread : pc[u] = "numbered" /\ seq[u] = sequence
      BY <1>0, <2>5, <3>3 DEF Reached
    <3> QED
      BY <1>4, <2>4, <3>1, <3>2, <3>3 DEF Reached
  <2>7. pc'[Compactor] = "removing"
    BY <1>0
  <2> QED
    BY <1>0, <2>1, <2>2, <2>3, <2>6, <2>7 DEF LogInv, CheckpointInv
<1>10. SnapshotInv'
  <2>1. snapshot.seq = snapshotSeq /\ snapshot.seq <= sequence
    BY <1>0 DEF LogInv, SnapshotInv
  <2>2. \A u \in Thread : pc'[u] = "numbered" => snapshot.seq < seq'[u]
    BY <1>0, <1>5 DEF LogInv, SnapshotInv
  <2> QED
    BY <1>0, <1>3, <2>1, <2>2 DEF SnapshotInv
<1> QED
  BY <1>6, <1>7, <1>8, <1>9, <1>10 DEF LogInv, OrderInv

\* The segments are gone, the temporary file has what is kept.
LEMMA DropLog ==
    ASSUME TypeInv, LogInv, DropSegments
    PROVE  LogInv'
<1>0. /\ pc[Compactor] = "removing" /\ Compactor \in Thread
      /\ UNCHANGED <<sequence, active, synced, snapshot, seq, snapshotSeq, kept, sealed>>
      /\ \A u \in Thread : pc'[u] = IF u = Compactor THEN "dropped" ELSE pc[u]
      /\ DOMAIN segments' = {} /\ manifest' = {}
  BY OpsAreLogged DEF DropSegments, TypeInv, ThreadTypes, compactVars
<1>1. Recs' \subseteq Recs
  BY <1>0 DEF Recs, Archived
<1>2. Truncating /\ Truncating'
  BY <1>0 DEF Truncating
<1>3. Logged' = Logged
  BY <1>0, <1>2 DEF Logged
<1>4. \A u \in Thread : pc'[u] \in {"numbered", "rotate"} <=> pc[u] \in {"numbered", "rotate"}
  BY <1>0
<1>5. \A u \in Thread : pc[u] \in {"numbered", "rotate"} => pc[u] = pc'[u]
  BY <1>0
<1>6. SegmentInv'
  BY <1>0 DEF SegmentInv, InOrder
<1>7. NumberInv'
  <2>1. Increasing(active)' /\ Increasing(kept)'
    BY <1>0 DEF LogInv, OrderInv, NumberInv, Increasing
  <2>2. \A u \in Thread : pc'[u] = "rotate" => Last(active)'.seq = seq'[u]
    BY <1>0, <1>4, <1>5 DEF LogInv, OrderInv, NumberInv
  <2>3. \A u \in Thread : pc'[u] = "numbered" => pc[u] = "numbered"
    BY <1>0
  <2> QED
    BY <1>0, <1>1, <2>1, <2>2, <2>3 DEF LogInv, OrderInv, NumberInv
<1>8. ManifestInv'
  BY <1>0, <1>2 DEF ManifestInv
<1>9. CheckpointInv'
  <2>1. Reached(sequence)'
    BY <1>0, <1>3, <1>5 DEF LogInv, CheckpointInv, Reached
  <2>2. pc'[Compactor] = "dropped"
    BY <1>0
  <2> QED
    BY <1>0, <1>3, <2>1, <2>2 DEF LogInv, CheckpointInv
<1>10. SnapshotInv'
  <2>1. snapshot.seq = snapshotSeq /\ snapshot.seq <= sequence
    BY <1>0 DEF LogInv, SnapshotInv
  <2>2. \A u \in Thread : pc'[u] = "numbered" => snapshot.seq < seq'[u]
    BY <1>0 DEF LogInv, SnapshotInv
  <2> QED
    BY <1>0, <1>2, <2>1, <2>2 DEF LogInv, SnapshotInv
<1> QED
  BY <1>6, <1>7, <1>8, <1>9, <1>10 DEF LogInv, OrderInv

\* The temporary file is the log, and its checkpoint is above the snapshot.
LEMMA RenameLog ==
    ASSUME TypeInv, LogInv, RenameTruncated
    PROVE  LogInv'
<1>0. /\ pc[Compactor] = "dropped" /\ Compactor \in Thread
      /\ active' = kept /\ synced' = Len(kept) /\ kept' = <<>>
      /\ UNCHANGED <<sequence, segments, manifest, snapshot>>
      /\ \A u \in Thread : /\ pc'[u] = IF u = Compactor THEN "idle" ELSE pc[u]
                           /\ seq'[u] = IF u = Compactor THEN 0 ELSE seq[u]
  BY OpsAreLogged DEF RenameTruncated, TypeInv, ThreadTypes
<1>1. Truncating /\ ~Truncating'
  BY <1>0 DEF Truncating
<1>2. DOMAIN segments = {} /\ manifest = {}
  BY <1>0 DEF LogInv, OrderInv, ManifestInv
<1>3. Recs' = Range(kept) /\ Range(kept') = {}
  BY <1>0, <1>2 DEF Recs, Archived, Range
<1>4. Logged' = Range(kept) /\ Logged = Range(kept)
  BY <1>1, <1>3 DEF Logged
<1>5. \A u \in Thread : pc'[u] \notin {"rotate", "sealed", "removing", "dropped"}
  BY <1>0 DEF TypeInv, LockInv, InWalMu
<1>6. \A u \in Thread : pc'[u] = "numbered" => pc[u] = "numbered" /\ seq'[u] = seq[u]
  BY <1>0
<1>7. SegmentInv'
  BY <1>0, <1>2 DEF SegmentInv, InOrder
<1>8. NumberInv'
  <2>1. Increasing(active)' /\ Increasing(kept)'
    BY <1>0 DEF LogInv, OrderInv, NumberInv, Increasing
  <2>2. \A r \in (Recs \cup Range(kept))' : r \in Range(kept)
    BY <1>3
  <2> QED
    BY <1>0, <1>5, <1>6, <2>1, <2>2 DEF LogInv, OrderInv, NumberInv
<1>9. ManifestInv'
  BY <1>0, <1>2, <1>5 DEF ManifestInv
<1>10. CheckpointInv'
  <2>1. \A u \in Thread : pc[u] = "numbered" => pc'[u] = "numbered" /\ seq'[u] = seq[u]
    BY <1>0
  <2>2. Reached(sequence)'
    BY <1>0, <1>4, <2>1 DEF LogInv, CheckpointInv, Reached
  <2>3. pc'[Compactor] = "idle"
    BY <1>0
  <2> QED
    BY <2>2, <2>3 DEF CheckpointInv
<1>11. SnapshotInv'
  <2>1. PICK c \in Range(kept) : c.seq = seq[Compactor]
    BY <1>0, <1>4 DEF LogInv, CheckpointInv
  <2>2. snapshot.seq = snapshotSeq /\ snapshotSeq < c.seq
    BY <1>0, <2>1 DEF LogInv, CheckpointInv, SnapshotInv
  <2>3. c \in Safe'
    <3>1. kept \in Seq(Record)
      BY DEF TypeInv, FileTypes
    <3>2. \E i \in 1 .. Len(kept) : kept[i] = c
      BY <3>1, RangeIs
    <3> QED
      BY <1>0, <3>2 DEF Safe
  <2>4. c.seq > snapshot.seq
    BY <2>1, <2>2, Numbers
  <2>5. pc'[Compactor] = "idle" /\ snapshot.seq <= sequence
    BY <1>0 DEF LogInv, SnapshotInv
  <2>6. \A u \in Thread : pc'[u] = "numbered" => snapshot.seq < seq'[u]
    BY <1>6 DEF LogInv, SnapshotInv
  <2> QED
    BY <1>0, <2>3, <2>4, <2>5, <2>6 DEF SnapshotInv
<1> QED
  BY <1>7, <1>8, <1>9, <1>10, <1>11 DEF LogInv, OrderInv

\* NewWAL goes on from the last record, whether the tail was lost or not.
LEMMA ReopenLog ==
    ASSUME TypeInv, LogInv, Orderly, CrashPoint, NEW acknowledged, Reopen(acknowledged),
           UNCHANGED <<segments, manifest, snapshot>>,
           NEW n \in 0 .. Len(active), synced <= n,
           active' \in Seq(Record), Len(active') = n, \A i \in 1 .. n : active'[i] = active[i],
           synced' \in Nat, synced <= synced', synced' <= n, Immediate => synced' = n,
           "unsynced" \in Hazards \/ n = Len(active)
              \/ \A i \in DOMAIN active : active[i].seq <= snapshot.seq => i <= synced
    PROVE  /\ LogInv'
           /\ Readable' /\ SegmentNames' = DOMAIN segments
           /\ Recs' \subseteq Recs /\ (n = Len(active) => Recs' = Recs)
<1> DEFINE log == Contents(segments, DOMAIN segments) \o active'
<1>0. /\ Compactor \in Thread /\ \A u \in Thread : pc'[u] = "idle"
      /\ kept' = <<>> /\ Range(kept') = {}
  BY OpsAreLogged DEF Reopen, Range
<1>1. ~Truncating /\ ~Truncating' /\ \A u \in Thread : pc[u] # "sealed"
  BY <1>0 DEF CrashPoint, Orderly, Truncating
<1>2. manifest = DOMAIN segments
  BY <1>1 DEF LogInv, OrderInv, ManifestInv
<1>3. Readable' /\ SegmentNames' = DOMAIN segments
  BY <1>2 DEF Readable, SegmentNames
<1>4. n \in Nat /\ n <= Len(active) /\ Len(active) \in Nat /\ active \in Seq(Record) /\ synced \in Nat
  BY Numbers DEF TypeInv, FileTypes
<1>5. \A i \in 1 .. n : i \in 1 .. Len(active)
  BY <1>4
<1>6. Range(active') \subseteq Range(active) /\ (n = Len(active) => Range(active') = Range(active))
  <2>1. \A x : x \in Range(active') <=> \E i \in 1 .. n : active'[i] = x
    BY RangeIs
  <2>2. \A x : x \in Range(active) <=> \E i \in 1 .. Len(active) : active[i] = x
    BY <1>4, RangeIs
  <2> QED
    BY <1>5, <2>1, <2>2
<1>7. Recs' \subseteq Recs /\ (n = Len(active) => Recs' = Recs) /\ Archived' = Archived
  BY <1>6 DEF Recs, Archived
<1>8. Increasing(active)'
  <2>1. Increasing(active)
    BY DEF LogInv, OrderInv, NumberInv
  <2> QED
    BY <1>5, <2>1 DEF Increasing
<1>9. SegmentInv'
  <2>1. InOrder(segments, DOMAIN segments)'
    BY DEF LogInv, OrderInv, SegmentInv, InOrder, Increasing
  <2> QED
    BY <1>6, <2>1 DEF LogInv, OrderInv, SegmentInv
<1>10. log \in Seq(Record) /\ Range(log) = Recs' /\ Increasing(log)
  <2>1. DOMAIN segments \in SUBSET Names /\ \A m \in DOMAIN segments : segments[m] \in Seq(Record)
    BY DEF TypeInv, FileTypes
  <2>2. \A m \in DOMAIN segments : \A r \in Range(segments[m]), q \in Range(active') : r.seq < q.seq
    <3> SUFFICES ASSUME NEW m \in DOMAIN segments, NEW r \in Range(segments[m]), NEW q \in Range(active')
                 PROVE  r.seq < q.seq
      OBVIOUS
    <3>1. r \in Recs /\ q \in Recs /\ q \in Range(active)
      BY <1>6 DEF Recs, Archived
    <3>2. r.seq <= m[2] /\ m[2] < q.seq
      BY <3>1 DEF LogInv, OrderInv, SegmentInv, InOrder
    <3> QED
      BY <3>1, <3>2, Numbers
  <2>3. InOrder(segments, DOMAIN segments) /\ Increasing(active')
    BY <1>8 DEF LogInv, OrderInv, SegmentInv, Increasing
  <2>4. Recs' = Range(active') \cup UNION {Range(segments[m]) : m \in DOMAIN segments}
    BY <1>7 DEF Recs, Archived
  <2> QED
    BY <2>1, <2>2, <2>3, <2>4, LogOf
<1>11. sequence' = IF log # <<>> THEN Last(log).seq ELSE 0
  BY <1>3 DEF Reopen, LoadLastSequence, ReadWALEntriesFromDir
<1> HIDE DEF log
<1>12. \A r \in Recs' : r.seq <= sequence'
  <2> SUFFICES ASSUME NEW r \in Recs' PROVE r.seq <= sequence'
    OBVIOUS
  <2>1. PICK i \in 1 .. Len(log) : log[i] = r
    BY <1>10, RangeIs
  <2>2. log # <<>>
    BY <2>1
  <2>3. Last(log) = log[Len(log)] /\ Len(log) \in 1 .. Len(log) /\ Last(log) \in Record
    BY <1>10, <2>2, LastRecord
  <2>4. r.seq \in Nat /\ Last(log).seq \in Nat
    BY <1>7, <2>3, Numbers, RecordFields
  <2>5. i = Len(log) \/ i < Len(log)
    BY <2>3
  <2>6. i = Len(log) \/ r.seq < Last(log).seq
    BY <1>10, <2>1, <2>3, <2>5 DEF Increasing
  <2> QED
    BY <1>11, <2>1, <2>2, <2>3, <2>4, <2>6
<1>13. sequence' \in Nat /\ (sequence' = 0 \/ \E r \in Recs' : r.seq = sequence')
  <2>1. CASE log = <<>>
    BY <1>11, <2>1
  <2>2. CASE log # <<>>
    <3>1. Last(log) \in Record /\ Last(log) \in Recs'
      BY <1>10, <2>2, LastRecord
    <3> QED
      BY <1>11, <2>2, <3>1, RecordFields
  <2> QED
    BY <2>1, <2>2
<1>14. NumberInv'
  <2>1. \A r \in (Recs \cup Range(kept))' : r \in Recs'
    BY <1>0
  <2>2. Increasing(kept)'
    BY <1>0 DEF Increasing
  <2> QED
    BY <1>0, <1>8, <1>12, <2>1, <2>2 DEF NumberInv
<1>15. ManifestInv'
  BY <1>0, <1>1, <1>2 DEF ManifestInv
<1>16. CheckpointInv'
  <2>1. Logged' = Recs'
    BY <1>1 DEF Logged
  <2>2. Reached(sequence)'
    BY <1>13, <2>1 DEF Reached
  <2> QED
    BY <1>0, <2>2 DEF CheckpointInv
<1>17. Safe \subseteq Safe' /\ Safe' \subseteq Recs'
  <2>1. \A i \in 1 .. synced : i \in 1 .. synced' /\ active'[i] = active[i]
    BY <1>4
  <2>2. \A i \in 1 .. synced' : i \in 1 .. Len(active')
    BY <1>4
  <2>3. \A i \in 1 .. synced' : active'[i] \in Range(active')
    BY <2>2, RangeIs
  <2> QED
    BY <1>7, <2>1, <2>3 DEF Safe, Recs
<1>18. ASSUME NEW r \in Recs, r.seq = snapshot.seq PROVE r \in Recs'
  <2>1. CASE n = Len(active)
    BY <1>7, <2>1
  <2>2. CASE r \in Archived
    BY <1>7, <2>2 DEF Recs
  <2>3. CASE n # Len(active) /\ r \in Range(active)
    <3>1. \A i \in DOMAIN active : active[i].seq <= snapshot.seq => i <= synced
      <4>1. "unsynced" \notin Hazards
        <5>1. Immediate => n = Len(active)
          BY <1>4 DEF LogInv, SnapshotInv
        <5> QED
          BY <2>3, <5>1 DEF Orderly
      <4> QED
        BY <2>3, <4>1
    <3>2. PICK i \in 1 .. Len(active) : active[i] = r
      BY <1>4, <2>3, RangeIs
    <3>3. active[i].seq <= snapshot.seq
      BY <1>18, <3>2, Numbers
    <3>4. i \in 1 .. n
      BY <1>4, <3>1, <3>2, <3>3
    <3>5. active'[i] = r /\ i \in 1 .. Len(active')
      BY <3>2, <3>4
    <3>6. r \in Range(active')
      BY <3>5, RangeIs
    <3> QED
      BY <3>6 DEF Recs
  <2> QED
    BY <2>1, <2>2, <2>3 DEF Recs
<1>19. SnapshotInv'
  <2>1. \/ snapshot.seq = 0
        \/ \E r \in Recs' : r.seq = snapshot.seq
        \/ \E r \in Safe' : r.seq > snapshot.seq
    BY <1>1, <1>17, <1>18 DEF LogInv, SnapshotInv
  <2>2. snapshot.seq <= sequence'
    <3>1. snapshot.seq \in Nat /\ \A r \in Recs' : r.seq \in Nat
      BY <1>7, Numbers
    <3>2. \A r \in Safe' : r \in Recs'
      BY <1>17
    <3> QED
      BY <1>12, <1>13, <2>1, <3>1, <3>2
  <2>3. Immediate => synced' = Len(active')
    OBVIOUS
  <2> QED
    BY <1>0, <2>1, <2>2, <2>3 DEF SnapshotInv
<1> QED
  BY <1>3, <1>7, <1>9, <1>14, <1>15, <1>16, <1>19 DEF LogInv, OrderInv

\* A new data directory starts with nothing.
LEMMA RecoverLog ==
    ASSUME LogInv, Recover
    PROVE  LogInv'
<1>0. /\ Compactor \in Thread /\ \A u \in Thread : pc[u] = "idle" /\ pc'[u] = "idle"
      /\ active' = <<>> /\ synced' = 0 /\ segments' = <<>> /\ manifest' = {} /\ kept' = kept
      /\ snapshot'.seq = 0 /\ sequence' = 0
  BY OpsAreLogged DEF Recover, threadVars, compactVars
<1>1. kept = <<>>
  BY <1>0 DEF LogInv, OrderInv, ManifestInv, Truncating
<1>2. DOMAIN segments' = {} /\ Range(active') = {} /\ Range(kept') = {} /\ Len(active') = 0 /\ Len(kept') = 0
  BY <1>0, <1>1 DEF Range
<1>3. Recs' = {}
  BY <1>2 DEF Recs, Archived
<1>4. SegmentInv'
  BY <1>2 DEF SegmentInv, InOrder
<1>5. NumberInv'
  BY <1>0, <1>2, <1>3 DEF NumberInv, Increasing
<1>6. ManifestInv'
  BY <1>0, <1>1, <1>2 DEF ManifestInv
<1>7. CheckpointInv'
  BY <1>0 DEF CheckpointInv, Reached
<1>8. SnapshotInv'
  BY <1>0, <1>2 DEF SnapshotInv
<1> QED
  BY <1>4, <1>5, <1>6, <1>7, <1>8 DEF LogInv, OrderInv

\* Every step keeps the order.
LEMMA NextLogInv ==
    ASSUME Orderly
    PROVE  TypeInv /\ LogInv /\ [Next]_vars => LogInv'
<1> SUFFICES ASSUME TypeInv, LogInv, [Next]_vars PROVE LogInv'
  OBVIOUS
<1>0. Compactor \in Thread /\ Compactor \notin Writer /\ \A w \in Writer : w \in Thread /\ w # Compactor
  BY WALAssumption, OpsAreLogged
<1>a. /\ synced \in Nat /\ Len(active) \in Nat /\ synced <= Len(active)
      /\ active \in Seq(Record) /\ (Immediate => synced = Len(active))
  BY Numbers DEF TypeInv, FileTypes, LogInv, SnapshotInv
<1>1. ASSUME NEW w \in Writer, NEW o \in Operation, BeginWrite(w, o) PROVE LogInv'
  BY <1>0, <1>1, NumberedLog DEF BeginWrite
<1>2. CASE Checkpoint
  BY <1>0, <1>2, NumberedLog DEF Checkpoint
<1>3. ASSUME NEW w \in Writer, ApplyToEngine(w) PROVE LogInv'
  <2>1. \A u \in Thread : \/ pc'[u] = pc[u] /\ seq'[u] = seq[u]
                          \/ pc[u] = "logged" /\ pc'[u] = "idle"
                          \/ pc[u] = "idle" /\ pc'[u] = "locked"
    BY <1>0, <1>3 DEF ApplyToEngine, TypeInv, ThreadTypes
  <2>2. pc'[Compactor] = pc[Compactor]
    BY <1>0, <1>3 DEF ApplyToEngine, TypeInv, ThreadTypes
  <2>3. UNCHANGED <<sequence, active, synced, segments, manifest, snapshot, snapshotSeq, kept, sealed>>
    BY <1>3 DEF ApplyToEngine, logVars, compactVars
  <2> QED
    BY <2>1, <2>2, <2>3, SameFilesLog
<1>4. ASSUME NEW t \in Thread, AppendRecord(t) PROVE LogInv'
  BY <1>4, AppendLog
<1>5. ASSUME NEW t \in Thread, SealSegment(t) PROVE LogInv'
  BY <1>5, SealLog
<1>6. ASSUME NEW t \in Thread, RegisterSegment(t) PROVE LogInv'
  BY <1>6, RegisterLog
<1>7. CASE StartCompaction
  <2>1. \A u \in Thread : \/ pc'[u] = pc[u] /\ seq'[u] = seq[u]
                          \/ pc[u] = "logged" /\ pc'[u] = "idle"
                          \/ pc[u] = "idle" /\ pc'[u] = "locked"
    BY <1>0, <1>7 DEF StartCompaction, TypeInv, ThreadTypes
  <2>2. pc'[Compactor] = "locked" /\ snapshotSeq' = sequence
    BY <1>0, <1>7 DEF StartCompaction, SnapshotSequence, TypeInv, ThreadTypes
  <2>3. UNCHANGED <<sequence, active, synced, segments, manifest, snapshot, kept, sealed>>
    BY <1>7 DEF StartCompaction, logVars
  <2> QED
    BY <2>1, <2>2, <2>3, SameFilesLog
<1>8. CASE SaveSnapshot
  BY <1>8, SaveLog
<1>9. CASE RemoveSegments
  BY <1>9, RemoveLog
<1>10. CASE DropSegments
  BY <1>10, DropLog
<1>11. CASE RenameTruncated
  BY <1>11, RenameLog
<1>12. CASE Sync
  <2>1. UNCHANGED <<sequence, active, segments, manifest, snapshot, snapshotSeq, kept, sealed, pc, seq>>
    BY <1>12 DEF Sync, threadVars, compactVars
  <2>2. synced' = Len(active)
    BY <1>12 DEF Sync, Fsync
  <2> QED
    BY <2>1, <2>2, SameFilesLog
<1>13. CASE Crash
  <2>1. CrashPoint /\ Reopen(settled) /\ UNCHANGED <<active, synced, segments, manifest, snapshot>>
    BY <1>13 DEF Crash
  <2>2. Len(active) \in 0 .. Len(active) /\ \A i \in 1 .. Len(active) : active'[i] = active[i]
    BY <1>a, <2>1
  <2> QED
    BY <1>a, <2>1, <2>2, ReopenLog
<1>14. CASE PowerLoss
  <2>1. PICK n \in synced .. Len(active) :
              /\ active' = RepairTail(active, n)
              /\ synced' = n
              /\ Reopen(IF Immediate \/ n = Len(active) THEN settled ELSE {})
    BY <1>14 DEF PowerLoss
  <2>2. n \in 0 .. Len(active) /\ n \in Nat /\ synced <= n
    BY <1>a, <2>1
  <2>3. active' \in Seq(Record) /\ Len(active') = n /\ \A i \in 1 .. n : active'[i] = active[i]
    BY <1>a, <2>1, <2>2, RepairedTail
  <2>4. CrashPoint /\ UNCHANGED <<segments, manifest, snapshot>>
        /\ ("unsynced" \in Hazards \/ \A i \in DOMAIN active : active[i].seq <= snapshot.seq => i <= synced)
    BY <1>14 DEF PowerLoss
  <2>5. Immediate => synced' = n
    BY <2>1
  <2> HIDE DEF Orderly
  <2> DEFINE acknowledged == IF Immediate \/ n = Len(active) THEN settled ELSE {}
  <2>6. Reopen(acknowledged)
    BY <2>1
  <2> HIDE DEF acknowledged
  <2> QED
    BY <2>1, <2>2, <2>3, <2>4, <2>5, <2>6, ReopenLog
<1>15. CASE Recover
  BY <1>15, RecoverLog
<1>16. CASE UNCHANGED vars
  <2>1. UNCHANGED <<sequence, active, synced, segments, manifest, snapshot, snapshotSeq, kept, sealed, pc, seq>>
    BY <1>16 DEF vars, logVars, threadVars, compactVars
  <2> QED
    BY <2>1, SameFilesLog
<1> QED
  BY <1>1, <1>2, <1>3, <1>4, <1>5, <1>6, <1>7, <1>8, <1>9, <1>10, <1>11, <1>12, <1>13, <1>14, <1>15, <1>16
     DEF Next, Rotation, Compaction

\* A record handed out last is the number the next one goes on from, and the
\* log always reaches up to the snapshot: unless power loss takes what only the
\* snapshot has, what is appended after a restart is above it (wal.go: NewWAL,
\* loadLastSequence; wal_engine.go: createSnapshotAndCompact).
THEOREM SequenceStaysAbove == Orderly => (Spec => []SequenceAboveSnapshot)
<1> SUFFICES ASSUME Orderly PROVE Spec => []SequenceAboveSnapshot
  OBVIOUS
<1>1. Init => TypeInv /\ LogInv
  BY InitTypeInv, InitLogInv
<1>2. TypeInv /\ LogInv /\ [Next]_vars => TypeInv' /\ LogInv'
  BY NextTypeInv, NextLogInv
<1>3. TypeInv /\ LogInv => SequenceAboveSnapshot
  BY Numbers DEF LogInv, SnapshotInv, SequenceAboveSnapshot
<1> QED
  BY <1>1, <1>2, <1>3, PTL DEF Spec

\* Rotation, truncation, crashes and the order in which callers get w.mu never
\* make two records of the log with one number (wal.go:
\* AppendWithDatabaseReturningSeq; wal_segments.go: rotateSegmentLocked).
THEOREM NumbersUnique == Orderly => (Spec => []SequencesUnique)
<1> SUFFICES ASSUME Orderly PROVE Spec => []SequencesUnique
  OBVIOUS
<1>1. Init => TypeInv /\ LogInv
  BY InitTypeInv, InitLogInv
<1>2. TypeInv /\ LogInv /\ [Next]_vars => TypeInv' /\ LogInv'
  BY NextTypeInv, NextLogInv
<1>3. TypeInv /\ LogInv => SequencesUnique
  <2> SUFFICES ASSUME TypeInv, LogInv, MuFree
               PROVE  \A i, j \in DOMAIN ReadWALEntriesFromDir :
                         i # j => ReadWALEntriesFromDir[i].seq # ReadWALEntriesFromDir[j].seq
    BY DEF SequencesUnique
  <2>1. ReadWALEntriesFromDir = Files
    BY Quiet DEF LogInv, OrderInv, ReadWALEntriesFromDir, Files
  <2>2. Files \in Seq(Record) /\ Range(Files) = Recs /\ Increasing(Files)
    BY FilesIs DEF LogInv, OrderInv, NumberInv
  <2>3. ASSUME NEW i \in 1 .. Len(Files), NEW j \in 1 .. Len(Files), i # j PROVE Files[i].seq # Files[j].seq
    <3>1. Files[i].seq \in Nat /\ Files[j].seq \in Nat
      BY <2>2, RangeIs, RecordFields
    <3>2. i < j \/ j < i
      BY <2>3
    <3>3. Files[i].seq < Files[j].seq \/ Files[j].seq < Files[i].seq
      BY <2>2, <3>2 DEF Increasing
    <3> QED
      BY <3>1, <3>3
  <2>4. DOMAIN Files = 1 .. Len(Files)
    BY <2>2, LenProperties
  <2> QED
    BY <2>1, <2>3, <2>4
<1> QED
  BY <1>1, <1>2, <1>3, PTL DEF Spec

-----------------------------------------------------------------------------
(***************************************************************************)
(* Mutations: none beside a compaction, and one at a time for a node.      *)
(***************************************************************************)
\* What a caller has mutates, or does not; what compaction logs does not.
LEMMA MutatesOrNot ==
    ASSUME MutationInv
    PROVE  /\ Compactor \notin Writer /\ Compactor \in Thread /\ \A w \in Writer : w \in Thread /\ w # Compactor
           /\ \A w \in Writer : pc[w] # "idle" => op[w] \in LoggedOp
           /\ \A w \in Writer : Pending(w) => Mutates(w) /\ op[w] \in LoggedOp
           /\ ~IsMutation(CheckpointOp)
           /\ \A t \in Thread : t \in Writer \/ t = Compactor
<1>1. Compactor \notin Writer /\ \A t \in Thread : t \in Writer \/ t = Compactor
  BY WALAssumption DEF Thread
<1>2. ~IsMutation(CheckpointOp)
  BY DEF IsMutation, CheckpointOp, Op
<1> QED
  BY <1>1, <1>2, OpsAreLogged DEF MutationInv, Pending, Mutates

\* A caller goes from one point of its operation to the next.
LEMMA SameMutations ==
    ASSUME TypeInv, MutationInv, NEW t \in Thread, NEW x \in Points,
           pc[t] # "idle", x \in {"rotate", "sealed", "logged"}, pc[t] \in {"numbered", "rotate", "sealed"},
           pc' = [pc EXCEPT ![t] = x],
           UNCHANGED <<snapshot, store, op, snapshotSeq>>,
           pc[Compactor] # "idle" => \A r \in Logged' : r.seq > snapshotSeq => ~IsMutation(r.op)
    PROVE  MutationInv'
<1>0. Compactor \in Thread /\ \A w \in Writer : w \in Thread
  BY OpsAreLogged
<1>1. \A u \in Thread : pc'[u] = IF u = t THEN x ELSE pc[u]
  BY DEF TypeInv, ThreadTypes
<1>2. \A u \in Thread : pc'[u] = "idle" <=> pc[u] = "idle"
  BY <1>1
<1>3. \A w \in Writer : Mutates(w)' <=> Mutates(w)
  BY <1>0, <1>2 DEF Mutates
<1>4. pc'[Compactor] \in {"saved", "removing", "dropped"} => pc[Compactor] \in {"saved", "removing", "dropped"}
  BY <1>0, <1>1
<1>5. pc'[Compactor] \notin {"idle", "locked"} => pc[Compactor] \notin {"idle", "locked"}
  BY <1>0, <1>1
<1>6. \A w \in Writer : pc'[w] \in {"idle", "numbered", "rotate", "sealed", "logged"}
  BY <1>0, <1>1 DEF MutationInv
<1>7. /\ \A w \in Writer : pc'[w] # "idle" => op'[w] \in Operation
      /\ pc'[Compactor] \notin {"idle", "locked"} => op'[Compactor] = CheckpointOp
  BY <1>0, <1>2, <1>5 DEF MutationInv
<1>8. pc'[Compactor] # "idle" =>
          /\ \A w \in Writer : ~Mutates(w)'
          /\ \A r \in Logged' : r.seq > snapshotSeq' => ~IsMutation(r.op)
  BY <1>0, <1>2, <1>3 DEF MutationInv
<1>9. \A w, u \in Writer : Mutates(w)' /\ Mutates(u)' /\ op'[w].key = op'[u].key => w = u
  BY <1>3 DEF MutationInv
<1>10. pc'[Compactor] \in {"saved", "removing", "dropped"} => snapshot'.data = store'
  BY <1>4 DEF MutationInv
<1> QED
  BY <1>6, <1>7, <1>8, <1>9, <1>10 DEF MutationInv

\* When all is over nothing mutates.
LEMMA IdleMutations ==
    ASSUME \A t \in Thread : pc'[t] = "idle"
    PROVE  MutationInv'
<1>1. /\ \A w \in Writer : pc'[w] = "idle"
      /\ pc'[Compactor] = "idle"
  BY OpsAreLogged
<1>2. \A w \in Writer : ~Mutates(w)'
  BY <1>1 DEF Mutates
<1> QED
  BY <1>1, <1>2 DEF MutationInv

\* Compaction goes on, nobody else does.
LEMMA CompactionMutations ==
    ASSUME TypeInv, MutationInv, NEW x \in Points \ {"idle"},
           pc' = [pc EXCEPT ![Compactor] = x],
           \A w \in Writer : op'[w] = op[w],
           x # "locked" => op'[Compactor] = CheckpointOp,
           pc[Compactor] = "idle" => NoMutation,
           \A r \in Logged' : r.seq > snapshotSeq' => ~IsMutation(r.op),
           x \in {"saved", "removing", "dropped"} => snapshot'.data = store'
    PROVE  MutationInv'
<1>0. Compactor \in Thread /\ Compactor \notin Writer /\ \A w \in Writer : w \in Thread /\ w # Compactor
  BY MutatesOrNot
<1>1. /\ pc'[Compactor] = x /\ x # "idle"
      /\ \A w \in Writer : pc'[w] = pc[w]
  BY <1>0 DEF TypeInv, ThreadTypes
<1>2. \A w \in Writer : ~Mutates(w)
  <2>1. CASE pc[Compactor] = "idle"
    BY <2>1 DEF NoMutation, Mutates
  <2>2. CASE pc[Compactor] # "idle"
    BY <2>2 DEF MutationInv
  <2> QED
    BY <2>1, <2>2
<1>3. \A w \in Writer : ~Mutates(w)'
  BY <1>1, <1>2 DEF Mutates
<1>4. \A w \in Writer : /\ pc'[w] \in {"idle", "numbered", "rotate", "sealed", "logged"}
                        /\ pc'[w] # "idle" => op'[w] \in Operation
  BY <1>1 DEF MutationInv
<1> QED
  BY <1>1, <1>3, <1>4 DEF MutationInv

\* The log is no more than it was, for what may be in it beside a compaction.
LEMMA LoggedFromRecs ==
    ASSUME TypeInv, LogInv,
           UNCHANGED <<active, segments, kept>>, Truncating' <=> Truncating
    PROVE  Logged' = Logged
BY DEF Logged, Recs, Archived

\* Every step keeps that, when callers do not write a node at the same time.
LEMMA NextMutationInv ==
    ASSUME Orderly, "samekey" \notin Hazards
    PROVE  TypeInv /\ LogInv /\ MutationInv /\ [Next]_vars => MutationInv'
<1> SUFFICES ASSUME TypeInv, LogInv, MutationInv, [Next]_vars PROVE MutationInv'
  OBVIOUS
<1>0. /\ Compactor \in Thread /\ Compactor \notin Writer /\ \A w \in Writer : w \in Thread /\ w # Compactor
      /\ \A t \in Thread : t \in Writer \/ t = Compactor
      /\ ~IsMutation(CheckpointOp)
  BY MutatesOrNot
<1>1. ASSUME NEW w \in Writer, NEW o \in Operation, BeginWrite(w, o) PROVE MutationInv'
  <2>1. /\ \A u \in Thread : /\ pc'[u] = IF u = w THEN "numbered" ELSE pc[u]
                             /\ op'[u] = IF u = w THEN o ELSE op[u]
        /\ pc[w] = "idle" /\ w \in Thread
        /\ UNCHANGED <<active, segments, snapshot, store, snapshotSeq, kept>>
    BY <1>0, <1>1 DEF BeginWrite, TypeInv, ThreadTypes, compactVars
  <2>2. pc'[Compactor] = pc[Compactor] /\ op'[Compactor] = op[Compactor]
    BY <1>0, <2>1
  <2>3. Logged' = Logged
    BY <2>1, <2>2, LoggedFromRecs DEF Truncating
  <2>4. \A u \in Writer : u # w => (Mutates(u)' <=> Mutates(u))
    BY <1>0, <2>1 DEF Mutates
  <2>5. Mutates(w)' <=> IsMutation(o)
    BY <1>0, <2>1 DEF Mutates
  <2>6. IsMutation(o) => pc[Compactor] = "idle" /\ \A u \in Writer : Mutates(u) => op[u].key # o.key
    BY <1>1 DEF BeginWrite, MutationMuFree, Busy, Mutates
  <2>7. \A u \in Writer : /\ pc'[u] \in {"idle", "numbered", "rotate", "sealed", "logged"}
                          /\ pc'[u] # "idle" => op'[u] \in Operation
    BY <1>0, <2>1 DEF MutationInv
  <2>8. pc[Compactor] # "idle" => \A u \in Writer : ~Mutates(u)'
    <3> SUFFICES ASSUME pc[Compactor] # "idle", NEW u \in Writer PROVE ~Mutates(u)'
      OBVIOUS
    <3>1. ~Mutates(u) /\ ~IsMutation(o)
      BY <2>6 DEF MutationInv
    <3> QED
      BY <2>4, <2>5, <3>1
  <2>9. \A v, u \in Writer : Mutates(v)' /\ Mutates(u)' /\ op'[v].key = op'[u].key => v = u
    <3> SUFFICES ASSUME NEW v \in Writer, NEW u \in Writer, Mutates(v)', Mutates(u)', op'[v].key = op'[u].key, v # u
                 PROVE  FALSE
      OBVIOUS
    <3>1. CASE v # w /\ u # w
      <4>1. Mutates(v) /\ Mutates(u) /\ op[v].key = op[u].key
        BY <1>0, <2>1, <2>4, <3>1
      <4> QED
        BY <4>1 DEF MutationInv
    <3>2. CASE v = w
      <4>1. Mutates(u) /\ op[u].key = o.key /\ IsMutation(o)
        BY <1>0, <2>1, <2>4, <2>5, <3>2
      <4> QED
        BY <2>6, <4>1
    <3>3. CASE u = w
      <4>1. Mutates(v) /\ op[v].key = o.key /\ IsMutation(o)
        BY <1>0, <2>1, <2>4, <2>5, <3>3
      <4> QED
        BY <2>6, <4>1
    <3> QED
      BY <3>1, <3>2, <3>3
  <2>10. /\ pc[Compactor] \notin {"idle", "locked"} => op[Compactor] = CheckpointOp
         /\ pc[Compactor] # "idle" => \A r \in Logged : r.seq > snapshotSeq => ~IsMutation(r.op)
         /\ pc[Compactor] \in {"saved", "removing", "dropped"} => snapshot.data = store
    BY DEF MutationInv
  <2> QED
    BY <2>1, <2>2, <2>3, <2>7, <2>8, <2>9, <2>10 DEF MutationInv
<1>2. CASE Checkpoint
  <2>1. /\ pc' = [pc EXCEPT ![Compactor] = "numbered"] /\ pc[Compactor] = "locked"
        /\ op'[Compactor] = CheckpointOp /\ \A w \in Writer : op'[w] = op[w]
        /\ UNCHANGED <<active, segments, snapshotSeq, kept>>
    BY <1>0, <1>2 DEF Checkpoint, TypeInv, ThreadTypes, compactVars
  <2>2. pc'[Compactor] = "numbered"
    BY <1>0, <2>1 DEF TypeInv, ThreadTypes
  <2>3. Logged' = Logged
    BY <2>1, <2>2, LoggedFromRecs DEF Truncating
  <2>4. \A r \in Logged' : r.seq > snapshotSeq' => ~IsMutation(r.op)
    BY <2>1, <2>3 DEF MutationInv
  <2>5. "numbered" \in Points \ {"idle"}
    BY DEF Points
  <2> QED
    BY <2>1, <2>4, <2>5, CompactionMutations
<1>3. ASSUME NEW w \in Writer, ApplyToEngine(w) PROVE MutationInv'
  <2>1. /\ \A u \in Thread : /\ pc'[u] = IF u = w THEN "idle" ELSE pc[u]
                             /\ op'[u] = IF u = w THEN NoOp ELSE op[u]
        /\ pc[w] = "logged" /\ w \in Thread
        /\ UNCHANGED <<active, segments, snapshot, snapshotSeq, kept>>
        /\ store' = Effect(store, op[w])
    BY <1>0, <1>3 DEF ApplyToEngine, TypeInv, ThreadTypes, logVars, compactVars
  <2>2. pc'[Compactor] = pc[Compactor] /\ op'[Compactor] = op[Compactor]
    BY <1>0, <2>1
  <2>3. Logged' = Logged
    BY <2>1, <2>2, LoggedFromRecs DEF Truncating
  <2>4. \A u \in Writer : /\ u # w => (Mutates(u)' <=> Mutates(u)) /\ op'[u] = op[u] /\ pc'[u] = pc[u]
                          /\ u = w => ~Mutates(u)'
    BY <1>0, <2>1 DEF Mutates
  <2>5. ~IsMutation(op[w]) => store' = store
    <3>1. op[w] \in LoggedOp /\ store \in Stores
      BY <2>1, OpsAreLogged DEF MutationInv, TypeInv, ThreadTypes
    <3> QED
      BY <2>1, <3>1, EffectIs
  <2>6. pc[Compactor] \in {"saved", "removing", "dropped"} => snapshot'.data = store'
    <3> SUFFICES ASSUME pc[Compactor] \in {"saved", "removing", "dropped"} PROVE snapshot'.data = store'
      OBVIOUS
    <3>1. ~Mutates(w) /\ snapshot.data = store
      BY DEF MutationInv
    <3>2. ~IsMutation(op[w])
      BY <2>1, <3>1 DEF Mutates
    <3> QED
      BY <2>1, <2>5, <3>1, <3>2
  <2>7. \A u \in Writer : /\ pc'[u] \in {"idle", "numbered", "rotate", "sealed", "logged"}
                          /\ pc'[u] # "idle" => op'[u] \in Operation
    BY <1>0, <2>1 DEF MutationInv
  <2>8. pc[Compactor] # "idle" => \A u \in Writer : ~Mutates(u)'
    BY <2>4 DEF MutationInv
  <2>9. \A v, u \in Writer : Mutates(v)' /\ Mutates(u)' /\ op'[v].key = op'[u].key => v = u
    BY <2>4 DEF MutationInv
  <2>10. /\ pc[Compactor] \notin {"idle", "locked"} => op[Compactor] = CheckpointOp
         /\ pc[Compactor] # "idle" => \A r \in Logged : r.seq > snapshotSeq => ~IsMutation(r.op)
    BY DEF MutationInv
  <2> QED
    BY <2>1, <2>2, <2>3, <2>6, <2>7, <2>8, <2>9, <2>10 DEF MutationInv
<1>4. ASSUME NEW t \in Thread, AppendRecord(t) PROVE MutationInv'
  <2> DEFINE r == [seq |-> seq[t], op |-> op[t]]
             x == IF Full(Len(active) + 1) THEN "rotate" ELSE "logged"
  <2>1. /\ x \in Points /\ x \in {"rotate", "logged"} /\ pc' = [pc EXCEPT ![t] = x] /\ pc[t] = "numbered" /\ MuFree
        /\ active' = Append(active, r)
        /\ UNCHANGED <<segments, snapshot, store, op, snapshotSeq, kept>>
        /\ \A u \in Thread : pc'[u] = IF u = t THEN x ELSE pc[u]
    BY <1>4 DEF AppendRecord, compactVars, Points, TypeInv, ThreadTypes
  <2>2. r \in Record /\ active \in Seq(Record) /\ r.op = op[t]
    BY <2>1 DEF TypeInv, LockInv, FileTypes, Record
  <2> HIDE DEF r, x
  <2>3. Range(active') = Range(active) \cup {r}
    BY <2>1, <2>2, Appended
  <2>4. ~Truncating /\ ~Truncating'
    BY <1>0, <2>1, Quiet DEF LogInv, OrderInv, Truncating
  <2>5. Logged' = Logged \cup {r}
    BY <2>1, <2>3, <2>4 DEF Logged, Recs, Archived
  <2>6. pc[Compactor] # "idle" => \A q \in Logged' : q.seq > snapshotSeq => ~IsMutation(q.op)
    <3> SUFFICES ASSUME pc[Compactor] # "idle" PROVE \A q \in Logged' : q.seq > snapshotSeq => ~IsMutation(q.op)
      OBVIOUS
    <3>1. ~IsMutation(op[t])
      <4>1. CASE t = Compactor
        BY <1>0, <2>1, <4>1 DEF MutationInv
      <4>2. CASE t \in Writer
        BY <2>1, <4>2 DEF MutationInv, Mutates
      <4> QED
        BY <1>0, <4>1, <4>2
    <3>2. \A q \in Logged : q.seq > snapshotSeq => ~IsMutation(q.op)
      BY DEF MutationInv
    <3> QED
      BY <2>2, <2>5, <3>1, <3>2
  <2> QED
    BY <2>1, <2>6, SameMutations
<1>5. ASSUME NEW t \in Thread, SealSegment(t) PROVE MutationInv'
  <2>1. /\ "sealed" \in Points /\ pc[t] = "rotate" /\ pc' = [pc EXCEPT ![t] = "sealed"]
        /\ UNCHANGED <<snapshot, store, op, snapshotSeq>>
        /\ \A u \in Thread : pc'[u] = IF u = t THEN "sealed" ELSE pc[u]
    BY <1>5 DEF SealSegment, Points, TypeInv, ThreadTypes
  <2>2. ~Truncating /\ ~Truncating'
    BY <1>0, <2>1 DEF Truncating, TypeInv, LockInv, InWalMu
  <2>3. Logged' = Logged
    <3>1. Recs' = Recs
      BY <1>5, SealedFile
    <3> QED
      BY <2>2, <3>1 DEF Logged
  <2>4. pc[Compactor] # "idle" => \A r \in Logged' : r.seq > snapshotSeq => ~IsMutation(r.op)
    BY <2>3 DEF MutationInv
  <2> QED
    BY <2>1, <2>4, SameMutations
<1>6. ASSUME NEW t \in Thread, RegisterSegment(t) PROVE MutationInv'
  <2>1. /\ "logged" \in Points /\ pc[t] = "sealed" /\ pc' = [pc EXCEPT ![t] = "logged"]
        /\ UNCHANGED <<active, segments, kept, snapshot, store, op, snapshotSeq>>
        /\ \A u \in Thread : pc'[u] = IF u = t THEN "logged" ELSE pc[u]
    BY <1>6 DEF RegisterSegment, Points, TypeInv, ThreadTypes
  <2>2. ~Truncating /\ ~Truncating'
    BY <1>0, <2>1 DEF Truncating, TypeInv, LockInv, InWalMu
  <2>3. Logged' = Logged
    BY <2>1, <2>2, LoggedFromRecs
  <2>4. pc[Compactor] # "idle" => \A r \in Logged' : r.seq > snapshotSeq => ~IsMutation(r.op)
    BY <2>3 DEF MutationInv
  <2> QED
    BY <2>1, <2>4, SameMutations
<1>7. CASE StartCompaction
  <2>1. /\ pc' = [pc EXCEPT ![Compactor] = "locked"] /\ pc[Compactor] = "idle" /\ NoMutation
        /\ UNCHANGED <<active, segments, kept, op>> /\ snapshotSeq' = sequence
    BY <1>7 DEF StartCompaction, SnapshotSequence, logVars
  <2>2. pc'[Compactor] = "locked"
    BY <1>0, <2>1 DEF TypeInv, ThreadTypes
  <2>3. Logged' = Recs
    BY <2>1, <2>2 DEF Logged, Truncating, Recs, Archived
  <2>4. \A r \in Logged' : ~(r.seq > snapshotSeq')
    BY <2>1, <2>3, Numbers DEF LogInv, OrderInv, NumberInv
  <2>5. "locked" \in Points \ {"idle"}
    BY DEF Points
  <2> QED
    BY <2>1, <2>4, <2>5, CompactionMutations
<1>8. CASE SaveSnapshot
  <2>1. /\ pc' = [pc EXCEPT ![Compactor] = "saved"] /\ pc[Compactor] = "logged"
        /\ UNCHANGED <<active, segments, kept, op, snapshotSeq>> /\ snapshot'.data = store'
    BY <1>8 DEF SaveSnapshot, logVars, compactVars
  <2>2. pc'[Compactor] = "saved"
    BY <1>0, <2>1 DEF TypeInv, ThreadTypes
  <2>3. Logged' = Logged
    BY <2>1, <2>2, LoggedFromRecs DEF Truncating
  <2>4. \A r \in Logged' : r.seq > snapshotSeq' => ~IsMutation(r.op)
    BY <2>1, <2>3 DEF MutationInv
  <2>5. "saved" \in Points \ {"idle"} /\ op'[Compactor] = CheckpointOp
    BY <2>1 DEF Points, MutationInv
  <2> QED
    BY <2>1, <2>4, <2>5, CompactionMutations
<1>9. CASE RemoveSegments
  <2>1. /\ pc' = [pc EXCEPT ![Compactor] = "removing"] /\ pc[Compactor] = "saved"
        /\ UNCHANGED <<op, snapshotSeq, snapshot, store>>
    BY <1>9 DEF RemoveSegments
  <2>2. pc'[Compactor] = "removing"
    BY <1>0, <2>1 DEF TypeInv, ThreadTypes
  <2>3. Logged' = Range(kept') /\ Logged = Recs
    BY <2>1, <2>2 DEF Logged, Truncating
  <2>4. Logged' \subseteq Logged
    BY <1>9, <2>3, KeptIs
  <2>5. \A r \in Logged' : r.seq > snapshotSeq' => ~IsMutation(r.op)
    BY <2>1, <2>4 DEF MutationInv
  <2>6. "removing" \in Points \ {"idle"} /\ op'[Compactor] = CheckpointOp /\ snapshot'.data = store'
    BY <2>1 DEF Points, MutationInv
  <2> QED
    BY <2>1, <2>5, <2>6, CompactionMutations
<1>10. CASE DropSegments
  <2>1. /\ pc' = [pc EXCEPT ![Compactor] = "dropped"] /\ pc[Compactor] = "removing"
        /\ UNCHANGED <<op, snapshotSeq, snapshot, store, kept>>
    BY <1>10 DEF DropSegments, compactVars
  <2>2. pc'[Compactor] = "dropped"
    BY <1>0, <2>1 DEF TypeInv, ThreadTypes
  <2>3. Logged' = Logged
    BY <2>1, <2>2 DEF Logged, Truncating
  <2>4. \A r \in Logged' : r.seq > snapshotSeq' => ~IsMutation(r.op)
    BY <2>1, <2>3 DEF MutationInv
  <2>5. "dropped" \in Points \ {"idle"} /\ op'[Compactor] = CheckpointOp /\ snapshot'.data = store'
    BY <2>1 DEF Points, MutationInv
  <2> QED
    BY <2>1, <2>4, <2>5, CompactionMutations
<1>11. CASE RenameTruncated
  <2>1. /\ \A u \in Thread : /\ pc'[u] = IF u = Compactor THEN "idle" ELSE pc[u]
                             /\ op'[u] = IF u = Compactor THEN NoOp ELSE op[u]
    BY <1>0, <1>11 DEF RenameTruncated, TypeInv, ThreadTypes
  <2>2. \A w \in Writer : pc'[w] = pc[w] /\ op'[w] = op[w] /\ (Mutates(w)' <=> Mutates(w))
    BY <1>0, <2>1 DEF Mutates
  <2>3. pc'[Compactor] = "idle"
    BY <1>0, <2>1
  <2> QED
    BY <2>2, <2>3 DEF MutationInv
<1>12. CASE Sync \/ UNCHANGED vars
  <2>1. UNCHANGED <<active, segments, kept, pc, op, store, snapshot, snapshotSeq>>
    BY <1>12 DEF Sync, vars, logVars, threadVars, compactVars
  <2>2. Logged' = Logged
    BY <2>1, LoggedFromRecs DEF Truncating
  <2> QED
    BY <2>1, <2>2 DEF MutationInv, Mutates
<1>13. CASE Crash
  <2>1. \A u \in Thread : pc'[u] = "idle"
    BY <1>13 DEF Crash, Reopen
  <2> QED
    BY <2>1, IdleMutations
<1>14. CASE PowerLoss
  <2>1. \A u \in Thread : pc'[u] = "idle"
    BY <1>14 DEF PowerLoss, Reopen
  <2> QED
    BY <2>1, IdleMutations
<1>15. CASE Recover
  <2>1. \A u \in Thread : pc'[u] = "idle"
    BY <1>15 DEF Recover, threadVars
  <2> QED
    BY <2>1, IdleMutations
<1> QED
  BY <1>1, <1>2, <1>3, <1>4, <1>5, <1>6, <1>7, <1>8, <1>9, <1>10, <1>11, <1>12, <1>13, <1>14, <1>15
     DEF Next, Rotation, Compaction

-----------------------------------------------------------------------------
(***************************************************************************)
(* What recovery would rebuild.                                            *)
(***************************************************************************)
\* The log holds what is logged, in order.
LogHolds == Log \in Seq(Record) /\ Range(Log) = Logged /\ Increasing(Log)

\* It does, in the temporary file too.
LEMMA LogIs == TypeInv /\ LogInv => LogHolds
<1> SUFFICES ASSUME TypeInv, LogInv PROVE LogHolds
  OBVIOUS
<1>1. CASE Truncating
  BY <1>1 DEF LogHolds, Log, Logged, TypeInv, FileTypes, LogInv, OrderInv, NumberInv
<1>2. CASE ~Truncating
  <2>1. Files \in Seq(Record) /\ Range(Files) = Recs /\ Increasing(Files)
    BY FilesIs DEF LogInv, OrderInv, NumberInv
  <2> QED
    BY <1>2, <2>1 DEF LogHolds, Log, Logged
<1> QED
  BY <1>1, <1>2

\* After a step, too.
LEMMA LogIsNext == TypeInv' /\ LogInv' => LogHolds'
BY LogIs, PTL

\* Recovery sees the log above the snapshot.
LEMMA ReplayedIs ==
    ASSUME TypeInv, LogInv
    PROVE  /\ Replayed \in Stores
           /\ After(Log, snapshot.seq) \in Seq(Record) /\ Increasing(After(Log, snapshot.seq))
           /\ Range(After(Log, snapshot.seq)) = {r \in Logged : r.seq > snapshot.seq}
<1>1. Log \in Seq(Record) /\ Range(Log) = Logged /\ Increasing(Log)
  BY LogIs DEF LogHolds
<1>2. snapshot.seq \in Nat /\ snapshot.data \in Stores
  BY Numbers DEF TypeInv, ThreadTypes
<1>3. /\ After(Log, snapshot.seq) \in Seq(Record) /\ Increasing(After(Log, snapshot.seq))
      /\ Range(After(Log, snapshot.seq)) = {r \in Logged : r.seq > snapshot.seq}
  BY <1>1, <1>2, AfterIs
<1> QED
  BY <1>2, <1>3, ReplayTyped DEF Replayed

\* The files may change: the same records above the snapshot rebuild the same.
LEMMA SameReplay ==
    ASSUME TypeInv, LogInv, TypeInv', LogInv', snapshot' = snapshot,
           \A r : r \in Logged' /\ r.seq > snapshot.seq <=> r \in Logged /\ r.seq > snapshot.seq
    PROVE  Replayed' = Replayed
<1> DEFINE log == Log
           next == Log'
           n == snapshot.seq
<1>1. next \in Seq(Record) /\ Range(next) = Logged' /\ Increasing(next)
  <2>1. LogHolds'
    BY LogIsNext
  <2> QED
    BY <2>1 DEF LogHolds, Increasing
<1>2. n \in Nat
  BY Numbers
<1>3. Replayed' = Replay(snapshot.data, After(next, n)) /\ Replayed = Replay(snapshot.data, After(log, n))
  BY DEF Replayed
<1>4. After(log, n) \in Seq(Record) /\ Increasing(After(log, n)) /\ Range(After(log, n)) = {r \in Logged : r.seq > n}
  BY ReplayedIs
<1> HIDE DEF log, next, n
<1>5. After(next, n) \in Seq(Record) /\ Increasing(After(next, n)) /\ Range(After(next, n)) = {r \in Logged' : r.seq > n}
  BY <1>1, <1>2, AfterIs
<1>6. Range(After(next, n)) = Range(After(log, n))
  BY <1>4, <1>5 DEF n
<1>7. After(next, n) = After(log, n)
  BY <1>4, <1>5, <1>6, SameRecords
<1> QED
  BY <1>3, <1>7

\* A record more has its effect, after that of the others.
LEMMA MoreReplay ==
    ASSUME TypeInv, LogInv, TypeInv', LogInv', snapshot' = snapshot, NEW r \in Record,
           r.seq > snapshot.seq, \A q \in Logged : q.seq < r.seq, Logged' = Logged \cup {r}
    PROVE  Replayed' = Effect(Replayed, r.op)
<1> DEFINE log == Log
           next == Log'
           more == Append(log, r)
           n == snapshot.seq
<1>1. next \in Seq(Record) /\ Range(next) = Logged' /\ Increasing(next)
  <2>1. LogHolds'
    BY LogIsNext
  <2> QED
    BY <2>1 DEF LogHolds, Increasing
<1>2. log \in Seq(Record) /\ Range(log) = Logged /\ Increasing(log)
  BY LogIs DEF LogHolds
<1>3. n \in Nat /\ snapshot.data \in Stores
  BY Numbers DEF TypeInv, ThreadTypes
<1>4. Replayed' = Replay(snapshot.data, After(next, n)) /\ Replayed = Replay(snapshot.data, After(log, n))
  BY DEF Replayed
<1> HIDE DEF log, next, n
<1>5. more = log \o <<r>> /\ <<r>> \in Seq(Record) /\ Range(<<r>>) = {r} /\ Increasing(<<r>>)
  <2>1. more = log \o <<r>> /\ <<r>> \in Seq(Record)
    BY <1>2, AppendIsConcat
  <2>2. Range(<<r>>) = {r}
    BY DEF Range
  <2>3. Increasing(<<r>>)
    BY DEF Increasing
  <2> QED
    BY <2>1, <2>2, <2>3
<1>6. more \in Seq(Record) /\ Increasing(more) /\ Range(more) = Logged'
  <2>1. \A q \in Range(log), p \in Range(<<r>>) : q.seq < p.seq
    BY <1>2, <1>5
  <2> HIDE DEF more
  <2>2. log \o <<r>> \in Seq(Record) /\ Increasing(log \o <<r>>) /\ Range(log \o <<r>>) = Range(log) \cup Range(<<r>>)
    BY <1>2, <1>5, <2>1, IncreasingConcat
  <2> QED
    BY <1>2, <1>5, <2>2
<1>7. next = more
  <2> HIDE DEF more
  <2> QED
    BY <1>1, <1>6, SameRecords
<1>8. After(more, n) = Append(After(log, n), r)
  BY <1>2, <1>3, AfterMore DEF n
<1>9. After(log, n) \in Seq(Record)
  BY <1>2, <1>3, AfterIs
<1>10. Replay(snapshot.data, Append(After(log, n), r)) = Effect(Replay(snapshot.data, After(log, n)), r.op)
  BY <1>3, <1>9, ReplayMore
<1> HIDE DEF more
<1> QED
  BY <1>4, <1>7, <1>8, <1>10

\* What is replayed and what the engine holds stay as they are.
LEMMA SameStore ==
    ASSUME StoreInv, Replayed' = Replayed, store' = store, settled' = settled,
           \A w \in Writer : (Pending(w)' <=> Pending(w)) /\ (Pending(w) => op'[w] = op[w])
    PROVE  StoreInv'
<1> SUFFICES ASSUME NEW k \in Key
             PROVE  /\ k \in settled /\ (\A w \in Writer : Pending(w)' => op'[w].key # k) => Replayed[k] = store[k]
                    /\ \A w \in Writer :
                          Pending(w)' /\ op'[w].key = k /\ (k \in settled \/ op'[w].kind \in {"update", "delete"})
                            => Replayed[k] = Effect(store, op'[w])[k]
  BY DEF StoreInv
<1>1. k \in settled /\ (\A w \in Writer : Pending(w) => op[w].key # k) => Replayed[k] = store[k]
  BY DEF StoreInv
<1>2. \A w \in Writer :
         Pending(w) /\ op[w].key = k /\ (k \in settled \/ op[w].kind \in {"update", "delete"})
           => Replayed[k] = Effect(store, op[w])[k]
  BY DEF StoreInv
<1> QED
  BY <1>1, <1>2

\* After a crash, what nobody was writing is as it was.
LEMMA CrashStore ==
    ASSUME StoreInv, store' = store, \A t \in Thread : pc'[t] = "idle",
           settled' \subseteq {k \in settled : ~Busy(k)},
           settled' # {} => Replayed' = Replayed
    PROVE  StoreInv'
<1>1. \A w \in Writer : ~Pending(w)'
  BY OpsAreLogged DEF Pending
<1>2. ASSUME NEW k \in Key, k \in settled' PROVE Replayed'[k] = store'[k]
  <2>1. k \in settled /\ ~Busy(k) /\ Replayed' = Replayed
    BY <1>2
  <2>2. \A w \in Writer : Pending(w) => op[w].key # k
    BY <2>1 DEF Pending, Busy
  <2> QED
    BY <2>1, <2>2 DEF StoreInv
<1> QED
  BY <1>1, <1>2 DEF StoreInv

\* The record of a mutation is replayed before the engine has it.
LEMMA AppendStore ==
    ASSUME TypeInv, LogInv, MutationInv, StoreInv, TypeInv', LogInv', Orderly, NEW t \in Thread, AppendRecord(t)
    PROVE  StoreInv'
<1> DEFINE r == [seq |-> seq[t], op |-> op[t]]
           x == IF Full(Len(active) + 1) THEN "rotate" ELSE "logged"
           o == op[t]
<1>0. /\ Compactor \in Thread /\ Compactor \notin Writer /\ \A w \in Writer : w \in Thread
      /\ \A w \in Writer : Pending(w) => Mutates(w) /\ op[w] \in LoggedOp
      /\ ~IsMutation(CheckpointOp)
      /\ \A u \in Thread : u \in Writer \/ u = Compactor
  BY MutatesOrNot
<1>1. /\ x \in {"rotate", "logged"} /\ pc[t] = "numbered" /\ MuFree
      /\ active' = Append(active, r)
      /\ UNCHANGED <<segments, snapshot, store, op, settled>>
      /\ \A u \in Thread : pc'[u] = IF u = t THEN x ELSE pc[u]
  BY DEF AppendRecord, TypeInv, ThreadTypes
<1>2. r \in Record /\ active \in Seq(Record) /\ r.op = o /\ r.seq = seq[t] /\ o \in LoggedOp
  BY <1>1 DEF TypeInv, LockInv, FileTypes, Record
<1> HIDE DEF r, x, o
<1>3. Range(active') = Range(active) \cup {r}
  BY <1>1, <1>2, Appended
<1>4. ~Truncating /\ ~Truncating'
  BY <1>0, <1>1, Quiet DEF LogInv, OrderInv, Truncating
<1>5. Logged' = Logged \cup {r} /\ Logged = Recs
  BY <1>1, <1>3, <1>4 DEF Logged, Recs, Archived
<1>6. r.seq > snapshot.seq /\ \A q \in Logged : q.seq < r.seq
  <2>1. snapshot.seq < seq[t] /\ \A q \in Recs : q.seq < seq[t]
    BY <1>1 DEF LogInv, SnapshotInv, OrderInv, NumberInv
  <2> QED
    BY <1>2, <1>5, <2>1, Numbers
<1>7. Replayed' = Effect(Replayed, o)
  BY <1>1, <1>2, <1>5, <1>6, MoreReplay
<1>8. Replayed \in Stores /\ store \in Stores
  BY ReplayedIs DEF TypeInv, ThreadTypes
<1>9. \A w \in Writer : w # t => (Pending(w)' <=> Pending(w))
  BY <1>0, <1>1 DEF Pending
<1>10. CASE ~IsMutation(o)
  <2>1. Replayed' = Replayed
    BY <1>2, <1>7, <1>8, <1>10, EffectIs
  <2>2. \A w \in Writer : w = t => ~Pending(w)' /\ ~Pending(w)
    BY <1>1, <1>10 DEF Pending, o
  <2> QED
    BY <1>1, <1>9, <2>1, <2>2, SameStore
<1>11. CASE IsMutation(o)
  <2>1. t \in Writer /\ Mutates(t) /\ ~Pending(t) /\ Pending(t)'
    <3>1. t \in Writer
      BY <1>0, <1>1, <1>11 DEF MutationInv, o
    <3> QED
      BY <1>0, <1>1, <1>11, <3>1 DEF Mutates, Pending, o
  <2>2. \A w \in Writer : Pending(w) => op[w].key # o.key
    BY <1>0, <2>1 DEF MutationInv, o
  <2>3. o.key \in Key /\ \A k \in Key : k # o.key => Replayed'[k] = Replayed[k]
    BY <1>2, <1>7, <1>8, <1>11, EffectIs
  <2>4. ASSUME o.key \in settled \/ o.kind \in {"update", "delete"} PROVE Replayed'[o.key] = Effect(store, o)[o.key]
    <3>1. o.key \in settled => Replayed[o.key] = store[o.key]
      BY <2>2, <2>3 DEF StoreInv
    <3> QED
      BY <1>2, <1>7, <1>8, <1>11, <2>4, <3>1, EffectIs
  <2>5. ASSUME NEW k \in Key
        PROVE  /\ k \in settled /\ (\A w \in Writer : Pending(w)' => op[w].key # k) => Replayed'[k] = store[k]
               /\ \A w \in Writer :
                     Pending(w)' /\ op[w].key = k /\ (k \in settled \/ op[w].kind \in {"update", "delete"})
                       => Replayed'[k] = Effect(store, op[w])[k]
    <3>1. CASE k = o.key
      <4>1. ~(\A w \in Writer : Pending(w)' => op[w].key # k)
        BY <2>1, <3>1 DEF o
      <4>2. \A w \in Writer : Pending(w)' /\ op[w].key = k => w = t
        BY <1>9, <2>2, <3>1
      <4> QED
        BY <2>4, <3>1, <4>1, <4>2 DEF o
    <3>2. CASE k # o.key
      <4>1. Replayed'[k] = Replayed[k]
        BY <2>3, <3>2
      <4>2. \A w \in Writer : op[w].key = k => (Pending(w)' <=> Pending(w))
        BY <1>9, <3>2 DEF o
      <4>3. /\ k \in settled /\ (\A w \in Writer : Pending(w) => op[w].key # k) => Replayed[k] = store[k]
            /\ \A w \in Writer :
                  Pending(w) /\ op[w].key = k /\ (k \in settled \/ op[w].kind \in {"update", "delete"})
                    => Replayed[k] = Effect(store, op[w])[k]
        BY DEF StoreInv
      <4> QED
        BY <4>1, <4>2, <4>3
    <3> QED
      BY <3>1, <3>2
  <2>6. UNCHANGED <<store, op, settled>>
    BY <1>1
  <2> QED
    BY <2>5, <2>6 DEF StoreInv
<1> QED
  BY <1>10, <1>11

\* The engine catches up with what is replayed of its node.
LEMMA ApplyStore ==
    ASSUME TypeInv, LogInv, MutationInv, StoreInv, TypeInv', LogInv', "orphan" \notin Hazards,
           NEW w \in Writer, ApplyToEngine(w)
    PROVE  StoreInv'
<1> DEFINE o == op[w]
<1>0. /\ Compactor \in Thread /\ \A v \in Writer : v \in Thread /\ v # Compactor
      /\ \A v \in Writer : Pending(v) => Mutates(v) /\ op[v] \in LoggedOp
      /\ \A v \in Writer : pc[v] # "idle" => op[v] \in LoggedOp
  BY MutatesOrNot
<1>1. /\ pc[w] = "logged" /\ store' = Effect(store, o)
      /\ UNCHANGED <<active, segments, snapshot, kept>>
      /\ settled' = settled \cup Settles(o)
      /\ \A u \in Thread : /\ pc'[u] = IF u = w THEN "idle" ELSE pc[u]
                           /\ op'[u] = IF u = w THEN NoOp ELSE op[u]
  BY <1>0 DEF ApplyToEngine, TypeInv, ThreadTypes, logVars, compactVars
<1>2. o \in LoggedOp /\ store \in Stores /\ Replayed \in Stores
  BY <1>0, <1>1, ReplayedIs DEF TypeInv, ThreadTypes
<1> HIDE DEF o
<1>3. Replayed' = Replayed
  <2>1. Logged' = Logged
    BY <1>0, <1>1, LoggedFromRecs DEF Truncating
  <2> QED
    BY <1>1, <2>1, SameReplay
<1>4. \A v \in Writer : /\ v = w => ~Pending(v)'
                        /\ v # w => (Pending(v)' <=> Pending(v)) /\ op'[v] = op[v]
  BY <1>0, <1>1 DEF Pending
<1>5. \A k \in Key : k \in Settles(o) => k = o.key /\ o.kind \in {"update", "delete"}
  BY DEF Settles
<1>6. CASE ~IsMutation(o)
  <2>1. store' = store
    BY <1>1, <1>2, <1>6, EffectIs
  <2>2. Settles(o) = {}
    BY <1>5, <1>6 DEF Settles, IsMutation
  <2>3. ~Pending(w)
    BY <1>6 DEF Pending, o
  <2> QED
    BY <1>1, <1>3, <1>4, <2>1, <2>2, <2>3, SameStore
<1>7. CASE IsMutation(o)
  <2>1. Pending(w) /\ Mutates(w)
    BY <1>0, <1>1, <1>7 DEF Pending, o
  <2>2. \A v \in Writer : v # w /\ Pending(v) => op[v].key # o.key
    BY <1>0, <2>1 DEF MutationInv, o
  <2>3. \A k \in Key : k # o.key => store'[k] = store[k]
    BY <1>1, <1>2, <1>7, EffectIs
  <2>4. store' \in Stores
    BY <1>1, <1>2, EffectIs
  <2>5. ASSUME NEW k \in Key
        PROVE  /\ k \in settled' /\ (\A v \in Writer : Pending(v)' => op'[v].key # k) => Replayed[k] = store'[k]
               /\ \A v \in Writer :
                     Pending(v)' /\ op'[v].key = k /\ (k \in settled' \/ op'[v].kind \in {"update", "delete"})
                       => Replayed[k] = Effect(store', op'[v])[k]
    <3>1. CASE k = o.key
      <4>1. \A v \in Writer : Pending(v)' => op'[v].key # k
        BY <1>4, <2>2, <3>1
      <4>2. ASSUME k \in settled' PROVE Replayed[k] = store'[k]
        <5>1. k \in settled \/ o.kind \in {"update", "delete"}
          BY <1>1, <1>5, <4>2
        <5> QED
          BY <1>1, <2>1, <3>1, <5>1 DEF StoreInv, o
      <4> QED
        BY <4>1, <4>2
    <3>2. CASE k # o.key
      <4>1. store'[k] = store[k] /\ (k \in settled' <=> k \in settled)
        BY <1>1, <1>5, <2>3, <3>2
      <4>2. ASSUME k \in settled, \A v \in Writer : Pending(v)' => op'[v].key # k PROVE Replayed[k] = store[k]
        <5>1. \A v \in Writer : Pending(v) => op[v].key # k
          BY <1>4, <3>2, <4>2 DEF o
        <5> QED
          BY <4>2, <5>1 DEF StoreInv
      <4>3. ASSUME NEW v \in Writer, Pending(v)', op'[v].key = k, k \in settled \/ op'[v].kind \in {"update", "delete"}
            PROVE  Replayed[k] = Effect(store', op'[v])[k]
        <5>1. v # w /\ Pending(v) /\ op'[v] = op[v]
          BY <1>4, <4>3
        <5>2. Replayed[k] = Effect(store, op[v])[k]
          BY <4>3, <5>1 DEF StoreInv
        <5>3. op[v] \in LoggedOp /\ IsMutation(op[v]) /\ op[v].key = k
          BY <1>0, <4>3, <5>1 DEF Pending
        <5>4. Effect(store', op[v])[k] = Effect(store, op[v])[k]
          BY <1>2, <2>4, <4>1, <5>3, EffectIs
        <5> QED
          BY <5>1, <5>2, <5>4
      <4> QED
        BY <4>1, <4>2, <4>3
    <3> QED
      BY <3>1, <3>2
  <2> QED
    BY <1>3, <2>5 DEF StoreInv
<1> QED
  BY <1>6, <1>7

\* The snapshot takes what the engine holds, and nothing above it mutates.
LEMMA SaveStore ==
    ASSUME TypeInv, LogInv, MutationInv, TypeInv', LogInv', SaveSnapshot
    PROVE  StoreInv'
<1>0. /\ Compactor \in Thread /\ Compactor \notin Writer /\ \A w \in Writer : w \in Thread
      /\ \A w \in Writer : Pending(w) => Mutates(w)
  BY MutatesOrNot
<1>1. /\ pc[Compactor] = "logged" /\ snapshot' = [seq |-> snapshotSeq, data |-> store]
      /\ UNCHANGED <<active, segments, store, op, kept>>
      /\ \A u \in Thread : pc'[u] = IF u = Compactor THEN "saved" ELSE pc[u]
  BY <1>0 DEF SaveSnapshot, TypeInv, ThreadTypes, logVars, compactVars
<1>2. \A w \in Writer : ~Pending(w)'
  BY <1>0, <1>1 DEF MutationInv, Pending
<1>3. Logged' = Logged
  BY <1>0, <1>1, LoggedFromRecs DEF Truncating
<1> DEFINE next == Log'
<1>4. next \in Seq(Record) /\ Range(next) = Logged
  <2>1. LogHolds'
    BY LogIsNext
  <2> QED
    BY <1>3, <2>1 DEF LogHolds
<1>5. Replayed' = Replay(store, After(next, snapshotSeq))
  BY <1>1 DEF Replayed
<1> HIDE DEF next
<1>6. snapshotSeq \in Nat /\ store \in Stores
  BY Numbers DEF TypeInv, ThreadTypes
<1>7. After(next, snapshotSeq) \in Seq(Record) /\ Range(After(next, snapshotSeq)) = {r \in Logged : r.seq > snapshotSeq}
  BY <1>4, <1>6, AfterIs
<1>8. \A r \in Range(After(next, snapshotSeq)) : ~IsMutation(r.op)
  BY <1>1, <1>7 DEF MutationInv
<1>9. Replayed' = store'
  BY <1>1, <1>5, <1>6, <1>7, <1>8, ReplayQuiet
<1> QED
  BY <1>2, <1>9 DEF StoreInv

\* A step that leaves the log, the snapshot and the engine alone leaves alone
\* what is replayed of them.
LEMMA QuietStep ==
    ASSUME TypeInv, LogInv, StoreInv, TypeInv', LogInv',
           UNCHANGED <<snapshot, store, settled>>, Logged' = Logged,
           \A w \in Writer : (Pending(w)' <=> Pending(w)) /\ (Pending(w) => op'[w] = op[w])
    PROVE  StoreInv'
<1>1. Replayed' = Replayed
  BY SameReplay
<1> QED
  BY <1>1, SameStore

\* Nobody is at the files while a crash hits: what it leaves, recovery reads.
LEMMA CrashReplay ==
    ASSUME TypeInv, LogInv, Orderly, CrashPoint, TypeInv', LogInv', \A t \in Thread : pc'[t] = "idle",
           snapshot' = snapshot, Recs' = Recs
    PROVE  Replayed' = Replayed
<1>1. ~Truncating
  BY DEF CrashPoint, Orderly, Truncating
<1>2. ~Truncating'
  BY OpsAreLogged DEF Truncating
<1>3. Logged' = Logged
  BY <1>1, <1>2 DEF Logged
<1> QED
  BY <1>3, SameReplay

\* Every step keeps what recovery would rebuild and what the engine holds
\* together.
LEMMA NextStoreInv ==
    ASSUME Orderly, Hazards \cap {"samekey", "orphan"} = {}
    PROVE  TypeInv /\ LogInv /\ MutationInv /\ StoreInv /\ [Next]_vars => StoreInv'
<1> SUFFICES ASSUME TypeInv, LogInv, MutationInv, StoreInv, [Next]_vars PROVE StoreInv'
  OBVIOUS
<1>0. /\ Compactor \in Thread /\ Compactor \notin Writer /\ \A w \in Writer : w \in Thread /\ w # Compactor
      /\ \A t \in Thread : t \in Writer \/ t = Compactor
  BY MutatesOrNot
<1>t. TypeInv' /\ LogInv'
  BY NextTypeInv, NextLogInv
<1>a. /\ synced \in Nat /\ Len(active) \in Nat /\ synced <= Len(active)
      /\ active \in Seq(Record) /\ (Immediate => synced = Len(active))
  BY Numbers DEF TypeInv, FileTypes, LogInv, SnapshotInv
<1>1. ASSUME NEW w \in Writer, NEW o \in Operation, BeginWrite(w, o) PROVE StoreInv'
  <2>1. /\ \A u \in Thread : /\ pc'[u] = IF u = w THEN "numbered" ELSE pc[u]
                             /\ op'[u] = IF u = w THEN o ELSE op[u]
        /\ pc[w] = "idle" /\ w \in Thread
        /\ UNCHANGED <<active, segments, snapshot, store, kept, settled>>
    BY <1>0, <1>1 DEF BeginWrite, TypeInv, ThreadTypes, compactVars
  <2>2. Logged' = Logged
    BY <1>0, <2>1, LoggedFromRecs DEF Truncating
  <2>3. \A u \in Writer : (Pending(u)' <=> Pending(u)) /\ (Pending(u) => op'[u] = op[u])
    BY <1>0, <2>1 DEF Pending
  <2> QED
    BY <1>t, <2>1, <2>2, <2>3, QuietStep
<1>2. CASE Checkpoint
  <2>1. /\ \A w \in Writer : pc'[w] = pc[w] /\ op'[w] = op[w]
        /\ pc[Compactor] = "locked" /\ pc'[Compactor] = "numbered"
        /\ UNCHANGED <<active, segments, snapshot, store, kept, settled>>
    BY <1>0, <1>2 DEF Checkpoint, TypeInv, ThreadTypes, compactVars
  <2>2. Logged' = Logged
    BY <2>1, LoggedFromRecs DEF Truncating
  <2>3. \A u \in Writer : (Pending(u)' <=> Pending(u)) /\ (Pending(u) => op'[u] = op[u])
    BY <2>1 DEF Pending
  <2> QED
    BY <1>t, <2>1, <2>2, <2>3, QuietStep
<1>3. ASSUME NEW w \in Writer, ApplyToEngine(w) PROVE StoreInv'
  BY <1>3, <1>t, ApplyStore
<1>4. ASSUME NEW t \in Thread, AppendRecord(t) PROVE StoreInv'
  BY <1>4, <1>t, AppendStore
<1>5. ASSUME NEW t \in Thread, SealSegment(t) PROVE StoreInv'
  <2>1. /\ \A u \in Thread : pc'[u] = IF u = t THEN "sealed" ELSE pc[u]
        /\ pc[t] = "rotate"
        /\ UNCHANGED <<snapshot, store, kept, settled, op>>
    BY <1>0, <1>5 DEF SealSegment, TypeInv, ThreadTypes
  <2>2. Recs' = Recs
    BY <1>5, SealedFile
  <2>3. ~Truncating /\ ~Truncating'
    <3>1. pc[Compactor] \notin {"removing", "dropped"}
      BY <1>0, <2>1 DEF TypeInv, LockInv, InWalMu
    <3> QED
      BY <1>0, <2>1, <3>1 DEF Truncating
  <2>4. Logged' = Logged
    BY <2>2, <2>3 DEF Logged
  <2>5. \A u \in Writer : (Pending(u)' <=> Pending(u)) /\ (Pending(u) => op'[u] = op[u])
    BY <1>0, <2>1 DEF Pending
  <2> QED
    BY <1>t, <2>1, <2>4, <2>5, QuietStep
<1>6. ASSUME NEW t \in Thread, RegisterSegment(t) PROVE StoreInv'
  <2>1. /\ \A u \in Thread : pc'[u] = IF u = t THEN "logged" ELSE pc[u]
        /\ pc[t] = "sealed"
        /\ UNCHANGED <<active, segments, snapshot, store, kept, settled, op>>
    BY <1>0, <1>6 DEF RegisterSegment, TypeInv, ThreadTypes
  <2>2. Logged' = Logged
    BY <1>0, <2>1, LoggedFromRecs DEF Truncating
  <2>3. \A u \in Writer : (Pending(u)' <=> Pending(u)) /\ (Pending(u) => op'[u] = op[u])
    BY <1>0, <2>1 DEF Pending
  <2> QED
    BY <1>t, <2>1, <2>2, <2>3, QuietStep
<1>7. CASE StartCompaction
  <2>1. /\ \A w \in Writer : pc'[w] = pc[w]
        /\ pc[Compactor] = "idle" /\ pc'[Compactor] = "locked"
        /\ UNCHANGED <<active, segments, snapshot, store, kept, settled, op>>
    BY <1>0, <1>7 DEF StartCompaction, TypeInv, ThreadTypes, logVars
  <2>2. Logged' = Logged
    BY <2>1, LoggedFromRecs DEF Truncating
  <2>3. \A u \in Writer : (Pending(u)' <=> Pending(u)) /\ (Pending(u) => op'[u] = op[u])
    BY <2>1 DEF Pending
  <2> QED
    BY <1>t, <2>1, <2>2, <2>3, QuietStep
<1>8. CASE SaveSnapshot
  BY <1>8, <1>t, SaveStore
<1>9. CASE RemoveSegments
  <2>1. /\ \A w \in Writer : pc'[w] = pc[w]
        /\ pc[Compactor] = "saved" /\ pc'[Compactor] = "removing"
        /\ UNCHANGED <<snapshot, store, settled, op, snapshotSeq>>
    BY <1>0, <1>9 DEF RemoveSegments, TypeInv, ThreadTypes
  <2>2. Range(kept') = {r \in Recs : r.seq > snapshotSeq}
    BY <1>9, KeptIs
  <2>3. Logged = Recs /\ Logged' = Range(kept')
    BY <2>1 DEF Logged, Truncating
  <2>4. snapshot.seq = snapshotSeq
    BY <2>1 DEF LogInv, SnapshotInv
  <2>5. \A r : r \in Logged' /\ r.seq > snapshot.seq <=> r \in Logged /\ r.seq > snapshot.seq
    BY <2>2, <2>3, <2>4
  <2>6. Replayed' = Replayed
    BY <1>t, <2>1, <2>5, SameReplay
  <2>7. \A u \in Writer : (Pending(u)' <=> Pending(u)) /\ (Pending(u) => op'[u] = op[u])
    BY <2>1 DEF Pending
  <2> QED
    BY <2>1, <2>6, <2>7, SameStore
<1>10. CASE DropSegments
  <2>1. /\ \A w \in Writer : pc'[w] = pc[w]
        /\ pc[Compactor] = "removing" /\ pc'[Compactor] = "dropped"
        /\ UNCHANGED <<snapshot, store, settled, op, kept>>
    BY <1>0, <1>10 DEF DropSegments, TypeInv, ThreadTypes, compactVars
  <2>2. Logged' = Logged
    BY <2>1 DEF Logged, Truncating
  <2>3. \A u \in Writer : (Pending(u)' <=> Pending(u)) /\ (Pending(u) => op'[u] = op[u])
    BY <2>1 DEF Pending
  <2> QED
    BY <1>t, <2>1, <2>2, <2>3, QuietStep
<1>11. CASE RenameTruncated
  <2>1. /\ \A w \in Writer : pc'[w] = pc[w] /\ op'[w] = op[w]
        /\ pc[Compactor] = "dropped" /\ pc'[Compactor] = "idle"
        /\ active' = kept
        /\ UNCHANGED <<segments, snapshot, store, settled>>
    BY <1>0, <1>11 DEF RenameTruncated, TypeInv, ThreadTypes
  <2>2. DOMAIN segments' = {}
    BY <2>1 DEF LogInv, OrderInv, ManifestInv
  <2>3. Recs' = Range(kept)
    BY <2>1, <2>2 DEF Recs, Archived
  <2>4. Logged' = Logged
    BY <2>1, <2>3 DEF Logged, Truncating
  <2>5. \A u \in Writer : (Pending(u)' <=> Pending(u)) /\ (Pending(u) => op'[u] = op[u])
    BY <2>1 DEF Pending
  <2> QED
    BY <1>t, <2>1, <2>4, <2>5, QuietStep
<1>12. CASE Sync
  <2>1. UNCHANGED <<active, segments, snapshot, store, kept, settled, pc, op>>
    BY <1>12 DEF Sync, threadVars, compactVars
  <2>2. Logged' = Logged
    BY <2>1, LoggedFromRecs DEF Truncating
  <2>3. \A u \in Writer : (Pending(u)' <=> Pending(u)) /\ (Pending(u) => op'[u] = op[u])
    BY <2>1 DEF Pending
  <2> QED
    BY <1>t, <2>1, <2>2, <2>3, QuietStep
<1>13. CASE Crash
  <2>1. CrashPoint /\ Reopen(settled) /\ UNCHANGED <<active, segments, snapshot, store>>
    BY <1>13 DEF Crash
  <2>2. /\ \A t \in Thread : pc'[t] = "idle"
        /\ settled' = {k \in settled : ~Busy(k)}
    BY <2>1 DEF Reopen
  <2>3. Recs' = Recs
    BY <2>1 DEF Recs, Archived
  <2>4. Replayed' = Replayed
    BY <1>t, <2>1, <2>2, <2>3, CrashReplay
  <2> QED
    BY <2>1, <2>2, <2>4, CrashStore
<1>14. CASE PowerLoss
  <2>1. PICK n \in synced .. Len(active) :
              /\ active' = RepairTail(active, n)
              /\ synced' = n
              /\ Reopen(IF Immediate \/ n = Len(active) THEN settled ELSE {})
    BY <1>14 DEF PowerLoss
  <2>2. /\ \A t \in Thread : pc'[t] = "idle"
        /\ settled' = {k \in IF Immediate \/ n = Len(active) THEN settled ELSE {} : ~Busy(k)}
    BY <2>1 DEF Reopen
  <2>3. CrashPoint /\ UNCHANGED <<segments, snapshot, store>>
    BY <1>14 DEF PowerLoss
  <2>4. CASE Immediate \/ n = Len(active)
    <3>1. n = Len(active) /\ n \in 0 .. Len(active)
      BY <1>a, <2>1, <2>4
    <3>2. active' \in Seq(Record) /\ Len(active') = Len(active) /\ \A i \in 1 .. Len(active) : active'[i] = active[i]
      BY <1>a, <2>1, <3>1, RepairedTail
    <3>3. Range(active') = Range(active)
      <4>1. \A x : x \in Range(active') <=> \E i \in 1 .. Len(active) : active'[i] = x
        BY <3>2, RangeIs
      <4>2. \A x : x \in Range(active) <=> \E i \in 1 .. Len(active) : active[i] = x
        BY <1>a, RangeIs
      <4> QED
        BY <3>2, <4>1, <4>2
    <3>4. Recs' = Recs
      BY <2>3, <3>3 DEF Recs, Archived
    <3>5. Replayed' = Replayed
      BY <1>t, <2>2, <2>3, <3>4, CrashReplay
    <3>6. settled' \subseteq {k \in settled : ~Busy(k)}
      BY <2>2, <2>4
    <3> QED
      BY <2>2, <2>3, <3>5, <3>6, CrashStore
  <2>5. CASE ~(Immediate \/ n = Len(active))
    <3>1. settled' = {}
      BY <2>2, <2>5
    <3> QED
      BY <2>2, <2>3, <3>1, CrashStore
  <2> QED
    BY <2>4, <2>5
<1>15. CASE Recover
  <2>1. settled' = {} /\ \A w \in Writer : pc'[w] = "idle"
    BY <1>0, <1>15 DEF Recover, threadVars
  <2>2. \A w \in Writer : ~Pending(w)'
    BY <2>1 DEF Pending
  <2> QED
    BY <2>1, <2>2 DEF StoreInv
<1>16. CASE UNCHANGED vars
  <2>1. UNCHANGED <<active, segments, snapshot, store, kept, settled, pc, op>>
    BY <1>16 DEF vars, logVars, threadVars, compactVars
  <2>2. Logged' = Logged
    BY <2>1, LoggedFromRecs DEF Truncating
  <2>3. \A u \in Writer : (Pending(u)' <=> Pending(u)) /\ (Pending(u) => op'[u] = op[u])
    BY <2>1 DEF Pending
  <2> QED
    BY <1>t, <2>1, <2>2, <2>3, QuietStep
<1> QED
  BY <1>1, <1>2, <1>3, <1>4, <1>5, <1>6, <1>7, <1>8, <1>9, <1>10, <1>11, <1>12, <1>13, <1>14, <1>15, <1>16
     DEF Next, Rotation, Compaction

\* At the start there is nothing to replay.
LEMMA InitIInv == Init => IInv
<1> SUFFICES ASSUME Init PROVE IInv
  OBVIOUS
<1>1. TypeInv /\ LogInv
  BY InitTypeInv, InitLogInv
<1>2. \A w \in Writer : pc[w] = "idle"
  BY OpsAreLogged DEF Init
<1>3. pc[Compactor] = "idle"
  BY OpsAreLogged DEF Init
<1>4. \A w \in Writer : ~Mutates(w) /\ ~Pending(w)
  BY <1>2 DEF Mutates, Pending
<1>5. MutationInv
  BY <1>2, <1>3, <1>4 DEF MutationInv
<1>6. Logged = {}
  <2>1. DOMAIN segments = {} /\ Range(active) = {}
    BY DEF Init, Range
  <2> QED
    BY <1>3, <2>1 DEF Logged, Truncating, Recs, Archived
<1>7. snapshot.data = store /\ snapshot.data \in Stores
  BY <1>1 DEF Init, TypeInv, ThreadTypes
<1>8. /\ After(Log, snapshot.seq) \in Seq(Record)
      /\ Range(After(Log, snapshot.seq)) = {}
  BY <1>1, <1>6, ReplayedIs
<1>9. Replayed = store
  BY <1>7, <1>8, ReplayQuiet DEF Replayed
<1>10. StoreInv
  BY <1>4, <1>9 DEF StoreInv
<1> QED
  BY <1>1, <1>5, <1>10 DEF IInv

\* Every step keeps the invariant.
LEMMA NextIInv ==
    ASSUME Orderly, Hazards \cap {"samekey", "orphan"} = {}
    PROVE  IInv /\ [Next]_vars => IInv'
<1>1. "samekey" \notin Hazards
  OBVIOUS
<1> QED
  BY <1>1, NextTypeInv, NextLogInv, NextMutationInv, NextStoreInv DEF IInv

\* When w.mu is free the files hold the log, and who is not busy has nothing
\* pending.
LEMMA IInvRecoverable == IInv => Recoverable
<1> SUFFICES ASSUME IInv, MuFree
             PROVE  /\ Readable
                    /\ \A k \in settled : ~Busy(k) => RecoverIntoEngine[k] = store[k]
  BY DEF Recoverable
<1>1. ~Truncating /\ Readable /\ SegmentNames = DOMAIN segments
  BY Quiet DEF IInv, LogInv, OrderInv
<1>2. RecoverIntoEngine = Replayed
  BY <1>1 DEF RecoverIntoEngine, Replayed, ReadWALEntriesFromDir, Log, Files
<1>3. ASSUME NEW k \in settled, ~Busy(k) PROVE Replayed[k] = store[k]
  <2>1. k \in Key
    BY DEF IInv, TypeInv, ThreadTypes
  <2>2. \A w \in Writer : Pending(w) => op[w].key # k
    BY <1>3 DEF Pending, Busy
  <2> QED
    BY <2>1, <2>2 DEF IInv, StoreInv
<1> QED
  BY <1>1, <1>2, <1>3

\* As long as two callers do not write one node at the same time, what recovery
\* would make of snapshot and log is what the engine holds of every settled node
\* no caller is writing: across rotations, compactions, process crashes and power
\* loss, for any number of callers and nodes (wal_engine.go: CreateNode,
\* createSnapshotAndCompact; wal_recovery_stream.go: RecoverIntoEngine).
THEOREM RecoveryRebuilds ==
    Orderly /\ Hazards \cap {"samekey", "orphan"} = {} => (Spec => []Recoverable)
<1> SUFFICES ASSUME Orderly, Hazards \cap {"samekey", "orphan"} = {} PROVE Spec => []Recoverable
  OBVIOUS
<1> QED
  BY InitIInv, NextIInv, IInvRecoverable, PTL DEF Spec
=============================================================================
