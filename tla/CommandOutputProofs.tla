------------------------- MODULE CommandOutputProofs -------------------------
(***************************************************************************)
(* Proofs about CommandOutput, for any sizes of chunks, buffers and limits *)
(* and whatever the command writes: the buffer stays below its thresholds, *)
(* output called complete is, the limit holds, and the chunks are in order.*)
(***************************************************************************)
EXTENDS CommandOutput, FiniteSetTheorems, SequenceTheorems, TLAPS

-----------------------------------------------------------------------------
(* The inductive invariant.                                                *)

Counts ==
  /\ {written, captured, numbered, indexes} \subseteq [Streams -> Nat]
  /\ \A s \in Streams : numbered[s] <= captured[s] /\ captured[s] <= written[s]
  /\ Both(captured) <= MaxOutput
  /\ stream \in Streams /\ capture \subseteq Streams /\ cancels \in Nat

\* Which task is where, and who has the lock.
Places ==
  /\ at \in {"running", "writing", "storing", "closing", "draining", "joining", "ending", "over"}
  /\ lock \in {"free", "task", "timer"}
  /\ outcome \in {"none", "result", "error", "cancelled"}
  /\ lock = "timer" <=> timer = "flushing"
  /\ lock = "task" => at \in {"writing", "storing", "draining"}
  /\ at \in {"storing", "draining"} => lock = "task"
  /\ at \in {"running", "writing", "storing"} <=> outcome = "none"
  /\ closed => lock # "timer"
  /\ failed => at \notin {"storing", "draining"} /\ lock # "timer"

\* What the buffer holds.  A flush takes all of it, so that it is empty while chunks are
\* appended, wherever that is given up, and when the writer is closed or has failed.
Below == Buffered(captured) < FlushBytes /\ ~QueueFull(captured)

Emptied ==
  /\ at \in {"storing", "draining"} \/ lock = "timer" \/ closed \/ failed => numbered = captured
  /\ lock = "free" \/ at = "writing" => Below

\* How the task gets to the record of the end.
Ended ==
  /\ at \in {"draining", "joining"} => closed
  /\ at \in {"ending", "over"} /\ outcome = "result" => closed /\ timer = "none"
  /\ closed => at \in {"draining", "joining", "ending", "over"}
  /\ at = "joining" => lock = "free"
  /\ status = "result" => at = "over" /\ timer = "none" /\ lock = "free"
  /\ status \in {"started", "absent", "result", "error", "cancelled"}

BufferInv == Counts /\ Places /\ Emptied /\ Ended

-----------------------------------------------------------------------------
(* Chunks.                                                                 *)

Last(c) == c[Len(c)]

\* Consecutive bytes of a stream.
Run(c) == c \in Seq(Nat) /\ Len(c) >= 1 /\ c[1] >= 1 /\ \A n \in DOMAIN c : c[n] = c[1] + n - 1

\* The chunks that are stored, being appended, or still on the way.
Sources == {stored, batch} \cup late

\* Nothing but the writer's chunks has been stored.
WriterOnly == status # "result" \/ (~failed /\ Both(captured) > 0)

\* A chunk holds bytes that were cut off, not more than its index leaves room for.
Cut ==
  \A f \in Sources, s \in Streams : \A i \in DOMAIN f[s] :
    /\ i \in Nat /\ i < indexes[s]
    /\ Run(f[s][i]) /\ Last(f[s][i]) <= numbered[s] /\ Last(f[s][i]) <= (i + 1) * ChunkBytes

\* Chunks are in the order of their indexes, and one index is one chunk.
Arranged ==
  \A f, g \in Sources, s \in Streams : \A i \in DOMAIN f[s], j \in DOMAIN g[s] :
    /\ i < j => Last(f[s][i]) < g[s][j][1]
    /\ i = j => f[s][i] = g[s][j]

ChunkInv ==
  /\ \A s \in Streams : numbered[s] <= indexes[s] * ChunkBytes
  /\ WriterOnly => Cut /\ Arranged
  /\ IsFiniteSet(late)

\* Appends are under way only while somebody waits for them.
BatchInv ==
  \A s \in Streams : DOMAIN batch[s] # {} => lock = "timer" \/ at \in {"storing", "draining"}

-----------------------------------------------------------------------------
(* Completeness.                                                           *)

\* No append has been given up, as far as the end of the command will tell.
Sound == outcome \in {"none", "result"} /\ timer # "died" /\ ~failed

InSource(f, s, x) == \E i \in DOMAIN f[s] : \E n \in DOMAIN f[s][i] : f[s][i][n] = x

Covered ==
  Sound => /\ late = {}
           /\ \A s \in Streams : \A x \in 1 .. numbered[s] :
                (status # "result" \/ Both(captured) > 0) => InSource(stored, s, x) \/ InSource(batch, s, x)

CapturesAll ==
  /\ outcome = "none" => unstreamed = {}
  /\ outcome \in {"none", "result"} /\ ~failed /\ ~truncated =>
       \A s \in capture \ unstreamed :
         captured[s] = written[s] \/ (at \in {"writing", "storing"} /\ s = stream)

RecordInv ==
  status = "result" =>
    /\ storage = "complete" /\ unstreamed = {} =>
         late = {} /\ \A s \in capture : StoredBytes(s) = written[s]
    /\ ~failed /\ Both(captured) = 0 /\ store = "helper" =>
         late = {} /\ StoredBytes("stdout") + StoredBytes("stderr") <= MaxOutput

-----------------------------------------------------------------------------
(* Order.                                                                  *)

\* A result can still be recorded.
Open == outcome \in {"none", "result"} /\ timer # "died" /\ status = "started"

\* The chunks stored for a stream have the first indexes, and those of the append that
\* is under way or was given up have the next ones.
Prefix(s, k) ==
  /\ k <= indexes[s]
  /\ DOMAIN stored[s] = {i \in Nat : i < k}
  /\ \A b \in late : DOMAIN b[s] = {i \in Nat : k <= i /\ i < indexes[s]}
  /\ ~failed => DOMAIN batch[s] = {i \in Nat : k <= i /\ i < indexes[s]}

PrefixInv ==
  Open => /\ \A b, c \in late : b = c
          /\ \A s \in Streams : \E k \in Nat : Prefix(s, k)

-----------------------------------------------------------------------------
(* Numbers.                                                                *)

LEMMA LeastOfThree ==
  ASSUME NEW a \in Int, NEW b \in Int, NEW c \in Int
  PROVE  /\ Min({a, b, c}) \in {a, b, c}
         /\ Min({a, b, c}) <= a /\ Min({a, b, c}) <= b /\ Min({a, b, c}) <= c
<1>1. \E x \in {a, b, c} : \A y \in {a, b, c} : x <= y
  <2>1. CASE a <= b /\ a <= c
    BY <2>1
  <2>2. CASE b <= a /\ b <= c
    BY <2>2
  <2>3. CASE c <= a /\ c <= b
    BY <2>3
  <2> QED BY <2>1, <2>2, <2>3
<1>2. Min({a, b, c}) \in {a, b, c} /\ \A y \in {a, b, c} : Min({a, b, c}) <= y
  BY <1>1 DEF Min
<1> QED BY <1>2

LEMMA LeastOfTwo ==
  ASSUME NEW a \in Int, NEW b \in Int
  PROVE  Min({a, b}) = IF a <= b THEN a ELSE b
<1>1. \E x \in {a, b} : \A y \in {a, b} : x <= y
  <2>1. CASE a <= b
    BY <2>1
  <2>2. CASE b <= a
    BY <2>2
  <2> QED BY <2>1, <2>2
<1>2. Min({a, b}) \in {a, b} /\ \A y \in {a, b} : Min({a, b}) <= y
  BY <1>1 DEF Min
<1> QED BY <1>2

LEMMA Multiples ==
  ASSUME NEW m \in Nat, NEW n \in Nat
  PROVE  /\ m * ChunkBytes \in Nat
         /\ (m + 1) * ChunkBytes = m * ChunkBytes + ChunkBytes
         /\ (m + n) * ChunkBytes = m * ChunkBytes + n * ChunkBytes
         /\ m < n => (m + 1) * ChunkBytes <= n * ChunkBytes
         /\ m <= n => m * ChunkBytes <= n * ChunkBytes
         /\ 0 * ChunkBytes = 0
<1>1. ChunkBytes \in Nat
  BY SizesAssumption
<1> QED BY <1>1

\* CeilDiv is the number of chunks that n bytes are cut into.
LEMMA Ceilings ==
  ASSUME NEW n \in Nat
  PROVE  /\ CeilDiv(n) \in Nat
         /\ n <= CeilDiv(n) * ChunkBytes
         /\ CeilDiv(n) * ChunkBytes < n + ChunkBytes
         /\ n = 0 => CeilDiv(n) = 0
<1>1. ChunkBytes \in Nat \ {0}
  BY SizesAssumption
<1> DEFINE m == n + ChunkBytes - 1
<1>2. m \in Nat /\ CeilDiv(n) = m \div ChunkBytes
  BY <1>1 DEF CeilDiv
<1> HIDE DEF m
<1>3. /\ m \div ChunkBytes \in Nat /\ (m \div ChunkBytes) * ChunkBytes <= m
      /\ m < (m \div ChunkBytes) * ChunkBytes + ChunkBytes
  BY <1>1, <1>2
<1>4. m = n + ChunkBytes - 1
  BY DEF m
<1>5. n = 0 => m \div ChunkBytes = 0
  BY <1>1, <1>4
<1>6. (m \div ChunkBytes) * ChunkBytes \in Nat
  BY <1>1, <1>3
<1> QED BY <1>1, <1>2, <1>3, <1>4, <1>5, <1>6

\* Before which multiple of ChunkBytes a number lies.
LEMMA Between ==
  ASSUME NEW n \in Nat, NEW x \in 1 .. n
  PROVE  \E q \in Nat : q < CeilDiv(n) /\ q * ChunkBytes < x /\ x <= (q + 1) * ChunkBytes
<1>1. ChunkBytes \in Nat \ {0} /\ x - 1 \in Nat
  BY SizesAssumption
<1> DEFINE q == (x - 1) \div ChunkBytes
<1>2. q \in Nat /\ q * ChunkBytes <= x - 1 /\ x - 1 < q * ChunkBytes + ChunkBytes
  BY <1>1
<1> HIDE DEF q
<1>3. q * ChunkBytes \in Nat /\ (q + 1) * ChunkBytes = q * ChunkBytes + ChunkBytes
  BY <1>2, Multiples
<1>4. q < CeilDiv(n)
  <2>1. CeilDiv(n) \in Nat /\ n <= CeilDiv(n) * ChunkBytes
    BY Ceilings
  <2>2. q * ChunkBytes < CeilDiv(n) * ChunkBytes
    BY <1>1, <1>2, <1>3, <2>1, Multiples
  <2>3. CeilDiv(n) <= q => CeilDiv(n) * ChunkBytes <= q * ChunkBytes
    BY <1>2, <2>1, Multiples
  <2>4. CeilDiv(n) * ChunkBytes \in Nat
    BY <2>1, Multiples
  <2> QED BY <1>2, <1>3, <2>1, <2>2, <2>3, <2>4
<1> QED BY <1>1, <1>2, <1>3, <1>4

\* The bytes of w before its chunk q, and those up to its end.
Before(q) == q * ChunkBytes
Through(w, q) == Min({Before(q + 1), Len(w)})

\* Chunk q of w.
IsPart(c, w, q) ==
  /\ c \in Seq(Nat) /\ Len(c) = Through(w, q) - Before(q)
  /\ \A n \in 1 .. Len(c) : c[n] = w[Before(q) + n]

LEMMA Bounds ==
  ASSUME NEW w \in Seq(Nat), NEW q \in Nat
  PROVE  /\ Before(q) \in Nat /\ Before(q + 1) \in Nat /\ Through(w, q) \in Nat
         /\ Before(q + 1) = Before(q) + ChunkBytes
         /\ Through(w, q) = IF Before(q + 1) <= Len(w) THEN Before(q + 1) ELSE Len(w)
         /\ q < CeilDiv(Len(w)) => Before(q) < Through(w, q)
<1>1. ChunkBytes \in Nat \ {0} /\ Len(w) \in Nat /\ CeilDiv(Len(w)) \in Nat
  BY SizesAssumption, Ceilings
<1>2. Before(q) \in Nat /\ Before(q + 1) \in Nat /\ Before(q + 1) = Before(q) + ChunkBytes
  BY <1>1, Multiples DEF Before
<1>3. Through(w, q) = IF Before(q + 1) <= Len(w) THEN Before(q + 1) ELSE Len(w)
  BY <1>1, <1>2, LeastOfTwo DEF Through
<1>4. ASSUME q < CeilDiv(Len(w)) PROVE Before(q) < Len(w)
  <2>1. /\ Len(w) <= Before(CeilDiv(Len(w)))
        /\ Before(CeilDiv(Len(w))) < Len(w) + ChunkBytes
    BY <1>1, Ceilings DEF Before
  <2>2. Before(q + 1) <= Before(CeilDiv(Len(w))) /\ Before(CeilDiv(Len(w))) \in Nat
    BY <1>1, <1>4, Multiples DEF Before
  <2> QED BY <1>1, <1>2, <2>1, <2>2
<1> QED BY <1>1, <1>2, <1>3, <1>4

\* Chop cuts w into its parts.
LEMMA ChopParts ==
  ASSUME NEW w \in Seq(Nat), NEW k \in Nat
  PROVE  /\ DOMAIN Chop(w, k) = {i \in k .. k + CeilDiv(Len(w)) : i < k + CeilDiv(Len(w))}
         /\ \A i \in DOMAIN Chop(w, k) :
              /\ i \in Nat /\ i - k \in Nat /\ i - k < CeilDiv(Len(w))
              /\ IsPart(Chop(w, k)[i], w, i - k)
<1>1. Len(w) \in Nat /\ CeilDiv(Len(w)) \in Nat
  BY Ceilings
<1>2. DOMAIN Chop(w, k) = {i \in k .. k + CeilDiv(Len(w)) : i < k + CeilDiv(Len(w))}
  BY <1>1 DEF Chop
<1>3. ASSUME NEW i \in DOMAIN Chop(w, k)
      PROVE  /\ i \in Nat /\ i - k \in Nat /\ i - k < CeilDiv(Len(w))
             /\ IsPart(Chop(w, k)[i], w, i - k)
  <2>1. i \in k .. k + CeilDiv(Len(w)) - 1
    BY <1>1, <1>2
  <2>2. i \in Nat /\ i - k \in Nat /\ i - k < CeilDiv(Len(w)) /\ i + 1 - k = i - k + 1
    BY <1>1, <2>1
  <2> DEFINE q == i - k
             lo == Before(q)
             hi == Through(w, q)
             c == SubSeq(w, lo + 1, hi)
  <2>3. Chop(w, k)[i] = c
    <3>1. Chop(w, k)[i] = SubSeq(w, (i - k) * ChunkBytes + 1,
                                 Min({(i + 1 - k) * ChunkBytes, Len(w)}))
      BY <2>1 DEF Chop
    <3> QED BY <2>2, <3>1 DEF Before, Through
  <2> HIDE DEF q
  <2>4. q \in Nat /\ q < CeilDiv(Len(w))
    BY <2>2 DEF q
  <2>5. /\ lo \in Nat /\ hi \in Nat /\ lo < hi /\ Before(q + 1) \in Nat
        /\ hi = IF Before(q + 1) <= Len(w) THEN Before(q + 1) ELSE Len(w)
    BY <2>4, Bounds
  <2> HIDE DEF lo, hi
  <2>6. \A n \in lo + 1 .. hi : w[n] \in Nat
    BY <1>1, <2>5
  <2>9. /\ SubSeq(w, lo + 1, hi) \in Seq(Nat)
        /\ Len(SubSeq(w, lo + 1, hi)) = IF lo + 1 <= hi THEN hi - (lo + 1) + 1 ELSE 0
        /\ \A n \in 1 .. hi - (lo + 1) + 1 : SubSeq(w, lo + 1, hi)[n] = w[lo + 1 + n - 1]
    <3>1. lo + 1 \in Int /\ hi \in Int
      BY <2>5
    <3> QED BY <2>6, <3>1, SubSeqProperties
  <2>7. hi - (lo + 1) + 1 = hi - lo /\ lo + 1 <= hi
        /\ \A n \in 1 .. hi - lo : lo + 1 + n - 1 = lo + n
    BY <2>5
  <2>8. /\ c \in Seq(Nat) /\ Len(c) = hi - lo
        /\ \A n \in 1 .. Len(c) : c[n] = w[lo + n]
    BY <2>7, <2>9
  <2> HIDE DEF c
  <2> QED BY <2>2, <2>3, <2>8 DEF IsPart, lo, hi, q
<1> QED BY <1>2, <1>3

LEMMA BytesAreNumbers ==
  ASSUME NEW a \in Nat, NEW b \in Nat, a <= b
  PROVE  /\ Bytes(a + 1, b) \in Seq(Nat) /\ Len(Bytes(a + 1, b)) = b - a
         /\ \A n \in 1 .. b - a : Bytes(a + 1, b)[n] = a + n
<1> DEFINE w == [i \in 1 .. b - a |-> a + i]
<1>1. b + 1 - (a + 1) = b - a /\ b - a \in Nat
  OBVIOUS
<1>2. \A i \in 1 .. b - a : a + 1 + i - 1 = a + i /\ a + i \in Nat
  OBVIOUS
<1>3. Bytes(a + 1, b) = w
  BY <1>1, <1>2 DEF Bytes
<1>4. w \in Seq(Nat) /\ Len(w) = b - a
  BY <1>1, <1>2
<1>5. \A n \in 1 .. b - a : w[n] = a + n
  OBVIOUS
<1> HIDE DEF w
<1> QED BY <1>3, <1>4, <1>5

\* A chunk with the bytes lo + 1 .. hi.
Holds(c, lo, hi) ==
  /\ Run(c) /\ c[1] = lo + 1 /\ Last(c) = hi
  /\ \A x \in Nat : lo < x /\ x <= hi => \E n \in DOMAIN c : c[n] = x

LEMMA PartOfBytes ==
  ASSUME NEW a \in Nat, NEW b \in Nat, a <= b, NEW q \in Nat, q < CeilDiv(b - a),
         NEW c, IsPart(c, Bytes(a + 1, b), q)
  PROVE  \E hi \in Nat : /\ Holds(c, a + Before(q), hi)
                         /\ hi = IF a + Before(q + 1) <= b THEN a + Before(q + 1) ELSE b
<1> DEFINE w == Bytes(a + 1, b)
           lo == Before(q)
           hi == Through(w, q)
           up == Before(q + 1)
<1>1. w \in Seq(Nat) /\ Len(w) = b - a /\ b - a \in Nat /\ \A n \in 1 .. b - a : w[n] = a + n
  BY BytesAreNumbers
<1>2. IsPart(c, w, q)
  OBVIOUS
<1> HIDE DEF w
<1>3. /\ lo \in Nat /\ hi \in Nat /\ up \in Nat /\ lo < hi
      /\ hi = IF up <= b - a THEN up ELSE b - a
  BY <1>1, Bounds
<1>4. c \in Seq(Nat) /\ Len(c) = hi - lo /\ \A n \in 1 .. Len(c) : c[n] = w[lo + n]
  BY <1>2 DEF IsPart
<1> HIDE DEF lo, hi, up
<1>5. DOMAIN c = 1 .. hi - lo /\ hi <= b - a
  BY <1>1, <1>3, <1>4
<1>6. ASSUME NEW n \in 1 .. hi - lo PROVE c[n] = a + lo + n
  <2>1. lo + n \in 1 .. b - a
    BY <1>1, <1>3, <1>5
  <2>2. w[lo + n] = a + (lo + n) /\ c[n] = w[lo + n]
    BY <1>1, <1>4, <2>1
  <2>3. a + (lo + n) = a + lo + n
    BY <1>3
  <2> QED BY <2>2, <2>3
<1>7. c[1] = a + lo + 1 /\ Last(c) = a + hi
  <2>1. 1 \in 1 .. hi - lo /\ hi - lo \in 1 .. hi - lo
    BY <1>3
  <2>2. c[hi - lo] = a + lo + (hi - lo)
    BY <1>6, <2>1
  <2>3. a + lo + (hi - lo) = a + hi
    BY <1>3
  <2> QED BY <1>4, <1>6, <2>1, <2>2, <2>3 DEF Last
<1>8. Run(c)
  <2>1. \A n \in DOMAIN c : c[n] = c[1] + n - 1
    <3>1. \A n \in 1 .. hi - lo : a + lo + n = (a + lo + 1) + n - 1
      BY <1>3
    <3> QED BY <1>5, <1>6, <1>7, <3>1
  <2>2. hi - lo >= 1 /\ a + lo + 1 >= 1
    BY <1>3
  <2>3. Len(c) >= 1 /\ c[1] >= 1 /\ c \in Seq(Nat)
    <3>1. Len(c) = hi - lo /\ c \in Seq(Nat)
      BY <1>4
    <3> QED BY <1>7, <2>2, <3>1
  <2> QED BY <2>1, <2>3, Zenon DEF Run
<1>9. ASSUME NEW x \in Nat, a + lo < x, x <= a + hi PROVE \E n \in DOMAIN c : c[n] = x
  <2>1. x - a - lo \in 1 .. hi - lo
    BY <1>3, <1>9
  <2>2. c[x - a - lo] = a + lo + (x - a - lo)
    BY <1>6, <2>1
  <2>3. a + lo + (x - a - lo) = x
    BY <1>3
  <2> QED BY <1>5, <2>1, <2>2, <2>3
<1>10. Holds(c, a + lo, a + hi)
  BY <1>7, <1>8, <1>9 DEF Holds
<1>11. a + hi \in Nat /\ a + hi = IF a + up <= b THEN a + up ELSE b
  BY <1>3
<1> QED BY <1>10, <1>11 DEF lo, up

\* What a flush makes of the bytes a + 1 .. b of a stream: chunks that follow each other
\* and together hold all of them.
Parted(new, a, b, k) ==
  /\ DOMAIN new = {i \in k .. k + CeilDiv(b - a) : i < k + CeilDiv(b - a)}
  /\ b <= Before(k + CeilDiv(b - a))
  /\ \A i \in DOMAIN new :
       /\ i \in Nat /\ k <= i /\ i < k + CeilDiv(b - a)
       /\ Run(new[i]) /\ a < new[i][1]
       /\ Last(new[i]) <= b /\ Last(new[i]) <= Before(i + 1)
  /\ \A i, j \in DOMAIN new : i < j => Last(new[i]) < new[j][1]
  /\ \A x \in a + 1 .. b : \E i \in DOMAIN new : \E n \in DOMAIN new[i] : new[i][n] = x

LEMMA NewChunks ==
  ASSUME NEW a \in Nat, NEW b \in Nat, a <= b, NEW k \in Nat, a <= Before(k)
  PROVE  Parted(Chop(Bytes(a + 1, b), k), a, b, k)
<1> DEFINE new == Chop(Bytes(a + 1, b), k)
<1>0. new = Chop(Bytes(a + 1, b), k)
  OBVIOUS
<1> HIDE DEF new
<1>1. /\ b - a \in Nat /\ CeilDiv(b - a) \in Nat /\ b - a <= Before(CeilDiv(b - a))
      /\ Bytes(a + 1, b) \in Seq(Nat) /\ Len(Bytes(a + 1, b)) = b - a
  <2>1. b - a \in Nat
    OBVIOUS
  <2>2. CeilDiv(b - a) \in Nat /\ b - a <= Before(CeilDiv(b - a))
    BY <2>1, Ceilings DEF Before
  <2> QED BY <2>1, <2>2, BytesAreNumbers
<1>2. DOMAIN new = {i \in k .. k + CeilDiv(b - a) : i < k + CeilDiv(b - a)}
  BY <1>0, <1>1, ChopParts
<1>3. \A m, n \in Nat : Before(m + n) = Before(m) + Before(n) /\ Before(m) \in Nat
  BY Multiples DEF Before
<1>4. \A m, n \in Nat : m <= n => Before(m) <= Before(n)
  BY Multiples DEF Before
<1>5. b <= Before(k + CeilDiv(b - a))
  <2>1. /\ Before(k + CeilDiv(b - a)) = Before(k) + Before(CeilDiv(b - a))
        /\ Before(k) \in Nat /\ Before(CeilDiv(b - a)) \in Nat
    BY <1>1, <1>3
  <2> QED BY <1>1, <2>1
<1>6. ASSUME NEW i \in DOMAIN new
      PROVE  /\ i \in Nat /\ k <= i /\ i < k + CeilDiv(b - a)
             /\ \E hi \in Nat :
                  /\ Holds(new[i], a + Before(i - k), hi)
                  /\ hi = IF a + Before(i - k + 1) <= b THEN a + Before(i - k + 1) ELSE b
  <2>1. /\ i \in Nat /\ i - k \in Nat /\ i - k < CeilDiv(b - a)
        /\ IsPart(new[i], Bytes(a + 1, b), i - k)
    BY <1>0, <1>1, ChopParts
  <2>2. \E hi \in Nat : /\ Holds(new[i], a + Before(i - k), hi)
                        /\ hi = IF a + Before(i - k + 1) <= b THEN a + Before(i - k + 1) ELSE b
    BY <2>1, PartOfBytes
  <2> QED BY <1>1, <2>1, <2>2
<1>7. ASSUME NEW i \in DOMAIN new
      PROVE  /\ Run(new[i]) /\ a < new[i][1]
             /\ Last(new[i]) \in Nat /\ Last(new[i]) <= b
             /\ Last(new[i]) <= a + Before(i - k + 1) /\ Last(new[i]) <= Before(i + 1)
             /\ new[i][1] = a + Before(i - k) + 1
  <2>1. i \in Nat /\ i - k \in Nat /\ i - k + 1 \in Nat /\ k + (i - k + 1) = i + 1
    BY <1>6
  <2>2. /\ Before(i - k) \in Nat /\ Before(i - k + 1) \in Nat /\ Before(k) \in Nat
        /\ Before(i + 1) = Before(k) + Before(i - k + 1)
    BY <1>3, <2>1
  <2>3. PICK hi \in Nat :
          /\ Holds(new[i], a + Before(i - k), hi)
          /\ hi = IF a + Before(i - k + 1) <= b THEN a + Before(i - k + 1) ELSE b
    BY <1>6
  <2>4. Run(new[i]) /\ new[i][1] = a + Before(i - k) + 1 /\ Last(new[i]) = hi
    BY <2>3 DEF Holds
  <2> QED BY <2>2, <2>3, <2>4
<1>8. ASSUME NEW i \in DOMAIN new, NEW j \in DOMAIN new, i < j
      PROVE  Last(new[i]) < new[j][1]
  <2>1. i \in Nat /\ k <= i /\ j \in Nat /\ k <= j
    BY <1>6
  <2>2. i - k + 1 \in Nat /\ j - k \in Nat /\ i - k + 1 <= j - k
    BY <1>8, <2>1
  <2>3. /\ Before(i - k + 1) <= Before(j - k)
        /\ Before(i - k + 1) \in Nat /\ Before(j - k) \in Nat
    BY <1>3, <1>4, <2>2
  <2>4. Last(new[i]) \in Nat /\ Last(new[i]) <= a + Before(i - k + 1)
    BY <1>7
  <2>5. new[j][1] = a + Before(j - k) + 1
    BY <1>7
  <2> QED BY <2>3, <2>4, <2>5
<1>9. ASSUME NEW x \in a + 1 .. b
      PROVE  \E i \in DOMAIN new : \E n \in DOMAIN new[i] : new[i][n] = x
  <2>1. x - a \in 1 .. b - a /\ x \in Nat
    OBVIOUS
  <2>2. PICK q \in Nat : /\ q < CeilDiv(b - a) /\ Before(q) < x - a
                         /\ x - a <= Before(q + 1)
    BY <1>1, <2>1, Between DEF Before
  <2>3. k + q \in DOMAIN new /\ k + q - k = q
    <3>1. k + q \in k .. k + CeilDiv(b - a) /\ k + q < k + CeilDiv(b - a) /\ k + q - k = q
      BY <1>1, <2>2
    <3> QED BY <1>2, <3>1
  <2>4. PICK hi \in Nat :
          /\ Holds(new[k + q], a + Before(q), hi)
          /\ hi = IF a + Before(q + 1) <= b THEN a + Before(q + 1) ELSE b
    BY <1>6, <2>3
  <2>5. Before(q) \in Nat /\ Before(q + 1) \in Nat
    BY <1>3, <2>2
  <2>6. a + Before(q) < x /\ x <= hi
    BY <2>1, <2>2, <2>4, <2>5
  <2>7. \E n \in DOMAIN new[k + q] : new[k + q][n] = x
    BY <2>1, <2>4, <2>6 DEF Holds
  <2> QED BY <2>3, <2>7
<1>10. Parted(new, a, b, k)
  BY <1>2, <1>5, <1>6, <1>7, <1>8, <1>9 DEF Parted
<1> QED BY <1>0, <1>10

-----------------------------------------------------------------------------
(* The buffer.                                                             *)

\* What has been numbered is not in the buffer.
LEMMA NothingBuffered ==
  ASSUME NEW c \in [Streams -> Nat]
  PROVE  /\ Both(c) - Both(c) = 0
         /\ Both([s \in Streams |-> CeilDiv(c[s] - c[s])]) = 0
<1>1. Both(c) - Both(c) = 0
  BY DEF Both, Streams
<1>2. \A s \in Streams : c[s] - c[s] = 0
  OBVIOUS
<1>3. \A s \in Streams : CeilDiv(c[s] - c[s]) = 0
  BY <1>2, Ceilings
<1>4. Both([s \in Streams |-> CeilDiv(c[s] - c[s])]) = 0
  BY <1>3 DEF Both, Streams
<1> QED BY <1>1, <1>4

LEMMA PlacesStep ==
  ASSUME BufferInv, [Next]_vars
  PROVE  Places' /\ Ended'
<1>0. failed => Buffered(captured) = 0
  BY NothingBuffered DEF BufferInv, Emptied, Counts, Buffered
<1> USE DEF BufferInv, Places, Ended, Emptied, history, flags, command, config, buffer
<1>1. ASSUME NEW s \in Streams, Emit(s) PROVE Places' /\ Ended'
  BY <1>1 DEF Emit
<1>2. CASE Finish \/ Break
  BY <1>2 DEF Finish, Break
<1>3. CASE WriteNothing \/ WriteBuffers
  BY <1>3 DEF WriteNothing, WriteBuffers, Enters, EnsureTimer
<1>4. CASE WriteFlushes
  BY <1>4 DEF WriteFlushes, Enters, EnsureTimer
<1>5. CASE Close
  BY <1>0, <1>5 DEF Close
<1>6. CASE Join
  BY <1>6 DEF Join
<1>7. CASE TimerFlushes
  BY <1>0, <1>7 DEF TimerFlushes
<1>8. CASE BatchStored
  BY <1>8 DEF BatchStored, Continues
<1>9. CASE BatchFails
  BY <1>9 DEF BatchFails, Continues
<1>10. CASE BatchRaises
  BY <1>10 DEF BatchRaises
<1>11. CASE BatchLands
  BY <1>11 DEF BatchLands
<1>12. CASE CancelCommand
  BY <1>12 DEF CancelCommand, Cancels
<1>13. CASE End
  BY <1>13 DEF End, Cancels, Records
<1>14. CASE UNCHANGED vars
  BY <1>14 DEF vars
<1> QED BY <1>1, <1>2, <1>3, <1>4, <1>5, <1>6, <1>7, <1>8, <1>9, <1>10, <1>11, <1>12, <1>13,
           <1>14 DEF Next

\* A turn of the writer's loop takes no more than there is, and stays within the limit.
LEMMA TakenCounts ==
  ASSUME Counts, Below
  PROVE  /\ Taken \in [Streams -> Nat]
         /\ \A s \in Streams : captured[s] <= Taken[s] /\ Taken[s] <= written[s]
         /\ Both(Taken) <= MaxOutput
         /\ \A s \in Streams : s # stream => Taken[s] = captured[s]
<1> DEFINE take == Min({Left, Remaining, QueueBytes - Buffered(captured)})
<1>1. /\ captured \in [Streams -> Nat] /\ numbered \in [Streams -> Nat]
      /\ written \in [Streams -> Nat] /\ stream \in Streams
      /\ MaxOutput \in Nat /\ QueueBytes \in Nat /\ FlushBytes <= QueueBytes /\ FlushBytes \in Nat
  BY SizesAssumption DEF Counts
<1>2. Both(captured) \in Nat /\ Both(numbered) \in Nat
  BY <1>1 DEF Both, Streams
<1>3. Buffered(captured) \in Int /\ Buffered(captured) < FlushBytes
  BY <1>2 DEF Buffered, Below
<1>4. Left \in Nat /\ Remaining \in Nat /\ QueueBytes - Buffered(captured) \in Nat
  BY <1>1, <1>2, <1>3 DEF Left, Remaining, Counts
<1>5. /\ take \in Nat /\ take <= Left /\ take <= Remaining
  <2>1. Left \in Int /\ Remaining \in Int /\ QueueBytes - Buffered(captured) \in Int
    BY <1>4
  <2>2. /\ take \in {Left, Remaining, QueueBytes - Buffered(captured)}
        /\ take <= Left /\ take <= Remaining
    BY <2>1, LeastOfThree
  <2> HIDE DEF take
  <2>3. take \in Nat
    BY <1>4, <2>2
  <2> QED BY <2>2, <2>3
<1>6. Taken = [captured EXCEPT ![stream] = @ + take]
  BY DEF Taken
<1> HIDE DEF take
<1>7. Taken \in [Streams -> Nat] /\ Taken[stream] = captured[stream] + take
  BY <1>1, <1>5, <1>6
<1>8. \A s \in Streams : s # stream => Taken[s] = captured[s]
  BY <1>1, <1>6
<1>9. Both(Taken) = Both(captured) + take
  BY <1>1, <1>5, <1>7, <1>8 DEF Both, Streams
<1>10. Both(Taken) <= MaxOutput
  BY <1>1, <1>2, <1>5, <1>9 DEF Remaining
<1>11. captured[stream] + take <= written[stream] /\ captured[stream] <= captured[stream] + take
  BY <1>1, <1>5 DEF Left
<1>12. \A s \in Streams : captured[s] <= Taken[s] /\ Taken[s] <= written[s]
  BY <1>1, <1>7, <1>8, <1>11 DEF Counts
<1> QED BY <1>7, <1>8, <1>10, <1>12

\* What a step does to the buffer: nothing, a turn of the loop, a flush, or both.
LEMMA BufferSteps ==
  ASSUME [Next]_vars
  PROVE  /\ \/ captured' = captured
            \/ (WriteBuffers \/ WriteFlushes) /\ captured' = Taken
         /\ \/ UNCHANGED <<numbered, indexes>>
            \/ /\ WriteFlushes \/ Close \/ TimerFlushes
               /\ TakeChunks(captured')
<1> USE DEF history, flags, command, config, buffer
<1>1. ASSUME NEW s \in Streams, Emit(s) PROVE UNCHANGED <<captured, numbered, indexes>>
  BY <1>1 DEF Emit
<1>2. CASE Finish \/ Break
  BY <1>2 DEF Finish, Break
<1>3. CASE WriteNothing \/ WriteBuffers
  BY <1>3 DEF WriteNothing, WriteBuffers
<1>4. CASE WriteFlushes
  BY <1>4 DEF WriteFlushes
<1>5. CASE Close
  BY <1>5 DEF Close
<1>6. CASE TimerFlushes
  BY <1>6 DEF TimerFlushes
<1>7. CASE BatchStored \/ BatchFails \/ BatchRaises \/ BatchLands
  BY <1>7 DEF BatchStored, BatchFails, BatchRaises, BatchLands
<1>8. CASE Join \/ CancelCommand \/ End
  BY <1>8 DEF Join, CancelCommand, Cancels, End
<1>9. CASE UNCHANGED vars
  BY <1>9 DEF vars
<1> QED BY <1>1, <1>2, <1>3, <1>4, <1>5, <1>6, <1>7, <1>8, <1>9 DEF Next

\* What the command writes is counted up, and its configuration is fixed.
LEMMA CommandSteps ==
  ASSUME Counts, [Next]_vars
  PROVE  /\ written' \in [Streams -> Nat] /\ \A s \in Streams : written[s] <= written'[s]
         /\ stream' \in Streams /\ cancels' \in Nat /\ UNCHANGED config
<1> USE DEF history, flags, command, config, buffer, Counts
<1>1. ASSUME NEW s \in Streams, NEW n \in 1 .. MaxWritten, Written(s, n)
      PROVE  written' \in [Streams -> Nat] /\ \A t \in Streams : written[t] <= written'[t]
  <2>1. n \in Nat
    OBVIOUS
  <2>2. written' = [written EXCEPT ![s] = @ + n] /\ written \in [Streams -> Nat]
    BY <1>1 DEF Written
  <2> QED BY <2>1, <2>2
<1>2. ASSUME NEW s \in Streams, Emit(s)
      PROVE  /\ written' \in [Streams -> Nat] /\ \A t \in Streams : written[t] <= written'[t]
             /\ stream' \in Streams /\ cancels' \in Nat /\ UNCHANGED config
  BY <1>1, <1>2 DEF Emit
<1>3. CASE Finish
  <2>1. UNCHANGED written \/ \E s \in Streams, n \in 1 .. MaxWritten : Written(s, n)
    BY <1>3 DEF Finish
  <2>2. written' \in [Streams -> Nat] /\ \A t \in Streams : written[t] <= written'[t]
    BY <1>1, <2>1
  <2> QED BY <1>3, <2>2 DEF Finish
<1>4. CASE UNCHANGED <<config, written, stream, cancels>>
  BY <1>4
<1>5. CASE CancelCommand
  BY <1>5 DEF CancelCommand, Cancels
<1>6. CASE Break \/ WriteNothing \/ WriteBuffers \/ WriteFlushes \/ Close
  BY <1>4, <1>6 DEF Break, WriteNothing, WriteBuffers, WriteFlushes, Close
<1>7. CASE Join \/ TimerFlushes \/ BatchStored \/ BatchFails \/ BatchRaises
  BY <1>4, <1>7 DEF Join, TimerFlushes, BatchStored, BatchFails, BatchRaises
<1>8. CASE BatchLands \/ End \/ UNCHANGED vars
  BY <1>4, <1>8 DEF BatchLands, End, Cancels, vars
<1> QED BY <1>2, <1>3, <1>5, <1>6, <1>7, <1>8 DEF Next

LEMMA CountsStep ==
  ASSUME BufferInv, [Next]_vars
  PROVE  Counts' /\ \A s \in Streams : captured[s] <= captured'[s] /\ numbered[s] <= numbered'[s]
<1>1. Counts
  BY DEF BufferInv
<1>2. /\ written \in [Streams -> Nat] /\ captured \in [Streams -> Nat]
      /\ numbered \in [Streams -> Nat] /\ indexes \in [Streams -> Nat]
      /\ \A s \in Streams : numbered[s] <= captured[s] /\ captured[s] <= written[s]
  BY <1>1 DEF Counts
<1>3. /\ written' \in [Streams -> Nat] /\ \A s \in Streams : written[s] <= written'[s]
      /\ stream' \in Streams /\ cancels' \in Nat /\ UNCHANGED config
  BY <1>1, CommandSteps
<1>4. /\ captured' \in [Streams -> Nat] /\ Both(captured') <= MaxOutput
      /\ \A s \in Streams : captured[s] <= captured'[s] /\ captured'[s] <= written'[s]
  <2>1. CASE captured' = captured
    BY <1>1, <1>2, <1>3, <2>1 DEF Counts
  <2>2. CASE (WriteBuffers \/ WriteFlushes) /\ captured' = Taken
    <3>1. Below /\ written' = written
      BY <2>2 DEF WriteBuffers, WriteFlushes, BufferInv, Emptied
    <3> QED BY <1>1, <2>2, <3>1, TakenCounts
  <2> QED BY <2>1, <2>2, BufferSteps
<1>5. /\ numbered' \in [Streams -> Nat] /\ indexes' \in [Streams -> Nat]
      /\ \A s \in Streams : numbered[s] <= numbered'[s] /\ numbered'[s] <= captured'[s]
  <2>1. CASE UNCHANGED <<numbered, indexes>>
    BY <1>2, <1>4, <2>1
  <2>2. CASE TakeChunks(captured')
    <3>1. numbered' = captured'
      BY <2>2 DEF TakeChunks
    <3>2. ASSUME NEW s \in Streams PROVE indexes[s] + CeilDiv(captured'[s] - numbered[s]) \in Nat
      <4>1. captured'[s] - numbered[s] \in Nat
        BY <1>2, <1>4
      <4>2. CeilDiv(captured'[s] - numbered[s]) \in Nat
        BY <4>1, Ceilings
      <4> QED BY <1>2, <4>2
    <3>3. indexes' = [s \in Streams |-> indexes[s] + CeilDiv(captured'[s] - numbered[s])]
      BY <2>2 DEF TakeChunks
    <3>4. indexes' \in [Streams -> Nat]
      BY <3>2, <3>3
    <3> QED BY <1>2, <1>4, <3>1, <3>4
  <2> QED BY <2>1, <2>2, BufferSteps
<1>6. capture' \subseteq Streams
  BY <1>1, <1>3 DEF Counts, config
<1> QED BY <1>3, <1>4, <1>5, <1>6 DEF Counts

\* Nothing is below the thresholds.
LEMMA EmptyIsBelow ==
  /\ Counts /\ numbered = captured => Below
  /\ Counts' /\ numbered' = captured' => Below'
<1>1. FlushBytes \in Nat \ {0} /\ QueueBytes \in Nat \ {0} /\ QueueChunks \in Nat \ {0}
  BY SizesAssumption
<1>2. ASSUME Counts, numbered = captured PROVE Below
  <2>1. captured \in [Streams -> Nat]
    BY <1>2 DEF Counts
  <2> QED BY <1>1, <1>2, <2>1, NothingBuffered DEF Below, QueueFull, Buffered
<1>3. ASSUME Counts', numbered' = captured' PROVE Below'
  <2>1. captured' \in [Streams -> Nat]
    BY <1>3 DEF Counts
  <2> QED BY <1>1, <1>3, <2>1, NothingBuffered DEF Below, QueueFull, Buffered
<1> QED BY <1>2, <1>3

\* A flush empties the buffer, and nobody gives the lock back before there is room again.
LEMMA EmptiedStep ==
  ASSUME BufferInv, Counts', [Next]_vars
  PROVE  Emptied'
<1> USE DEF history, flags, command, config, buffer
<1>1. Counts /\ Places /\ Emptied /\ Ended
  BY DEF BufferInv
<1>2. ASSUME numbered' = captured' PROVE Emptied'
  BY <1>2, EmptyIsBelow DEF Emptied
<1>3. ASSUME UNCHANGED <<captured, numbered>>,
             \/ numbered = captured
             \/ /\ lock' = "free" \/ at' = "writing" => Below
                /\ ~(at' \in {"storing", "draining"} \/ lock' = "timer" \/ closed' \/ failed')
      PROVE  Emptied'
  <2>1. CASE numbered = captured
    BY <1>2, <1>3, <2>1
  <2>2. CASE /\ lock' = "free" \/ at' = "writing" => Below
             /\ ~(at' \in {"storing", "draining"} \/ lock' = "timer" \/ closed' \/ failed')
    <3>1. Below => Below'
      BY <1>3 DEF Below, QueueFull, Buffered
    <3> QED BY <2>2, <3>1 DEF Emptied
  <2> QED BY <1>3, <2>1, <2>2
<1> USE DEF Places, Ended, Emptied
<1>4. ASSUME NEW s \in Streams, Emit(s) PROVE Emptied'
  BY <1>1, <1>3, <1>4 DEF Emit
<1>5. CASE Finish \/ Break
  BY <1>1, <1>3, <1>5 DEF Finish, Break
<1>6. CASE WriteNothing
  BY <1>1, <1>3, <1>6 DEF WriteNothing
<1>7. CASE WriteBuffers
  <2>1. Below'
    BY <1>7 DEF WriteBuffers, Below, QueueFull, Buffered
  <2> QED BY <1>1, <1>7, <2>1 DEF WriteBuffers, Enters
<1>8. CASE WriteFlushes \/ Close
  BY <1>2, <1>8 DEF WriteFlushes, Close, TakeChunks
<1>9. CASE Join
  BY <1>1, <1>3, <1>9 DEF Join
<1>10. CASE TimerFlushes
  BY <1>1, <1>2, <1>3, <1>10 DEF TimerFlushes, TakeChunks
<1>11. CASE BatchStored \/ BatchFails
  BY <1>1, <1>3, <1>11 DEF BatchStored, BatchFails, Continues
<1>12. CASE BatchRaises
  BY <1>1, <1>3, <1>12 DEF BatchRaises
<1>13. CASE BatchLands
  BY <1>1, <1>3, <1>13 DEF BatchLands
<1>14. CASE CancelCommand
  BY <1>1, <1>3, <1>14 DEF CancelCommand, Cancels
<1>15. CASE End
  BY <1>1, <1>3, <1>15 DEF End, Cancels
<1>16. CASE UNCHANGED vars
  BY <1>1, <1>3, <1>16 DEF vars
<1> QED BY <1>4, <1>5, <1>6, <1>7, <1>8, <1>9, <1>10, <1>11, <1>12, <1>13, <1>14, <1>15,
           <1>16 DEF Next

LEMMA InitialBuffer ==
  Init => BufferInv
<1> SUFFICES ASSUME Init PROVE BufferInv
  OBVIOUS
<1>1. Counts
  BY SizesAssumption DEF Init, Counts, Both, Streams
<1>2. Below
  BY <1>1, EmptyIsBelow DEF Init
<1>3. Places /\ Emptied /\ Ended
  BY <1>2 DEF Init, Places, Emptied, Ended
<1> QED BY <1>1, <1>3 DEF BufferInv

LEMMA BufferStep ==
  ASSUME BufferInv, [Next]_vars
  PROVE  BufferInv'
<1>1. Counts'
  BY CountsStep
<1> QED BY <1>1, PlacesStep, EmptiedStep DEF BufferInv

LEMMA BufferInvariance ==
  Spec => []BufferInv
<1>1. Init => BufferInv
  BY InitialBuffer
<1>2. ASSUME BufferInv, [Next]_vars PROVE BufferInv'
  BY <1>2, BufferStep
<1> QED BY <1>1, <1>2, PTL DEF Spec

\* Whoever takes the lock finds the buffer below the thresholds of a flush, for any sizes
\* of the buffer and whatever becomes of the flushes before: write never blocks on room.
THEOREM TheBufferIsBounded ==
  Spec => []BufferStaysBelowThresholds
<1>1. BufferInv => BufferStaysBelowThresholds
  BY DEF BufferInv, Emptied, Below, BufferStaysBelowThresholds
<1> QED BY <1>1, BufferInvariance, PTL

-----------------------------------------------------------------------------
(* The chunks.                                                             *)

LEMMA Insertion ==
  ASSUME NEW old, NEW new, NEW s \in Streams
  PROVE  /\ DOMAIN Insert(old, new)[s] = DOMAIN old[s] \cup DOMAIN new[s]
         /\ \A i \in DOMAIN old[s] : Insert(old, new)[s][i] = old[s][i]
         /\ \A i \in DOMAIN new[s] \ DOMAIN old[s] : Insert(old, new)[s][i] = new[s][i]
BY DEF Insert

LEMMA NothingToInsert ==
  ASSUME NEW s \in Streams
  PROVE  DOMAIN NoChunks[s] = {} /\ DOMAIN Chop(<<>>, 0) = {}
<1>1. <<>> \in Seq(Nat) /\ Len(<<>>) = 0 /\ DOMAIN <<>> = {}
  OBVIOUS
<1>2. NoChunks[s] = <<>>
  BY DEF NoChunks
<1>3. CeilDiv(0) = 0
  BY Ceilings
<1>4. DOMAIN Chop(<<>>, 0) = {i \in 0 .. 0 + 0 : i < 0 + 0}
  BY <1>1, <1>3, ChopParts
<1> QED BY <1>1, <1>2, <1>4

\* Once the result is recorded nothing happens but that late appends take effect.
LEMMA AfterTheRecord ==
  ASSUME BufferInv, status = "result", [Next]_vars
  PROVE  UNCHANGED vars \/ BatchLands
<1>1. at = "over" /\ timer = "none" /\ lock = "free"
  BY DEF BufferInv, Ended
<1>2. ASSUME NEW s \in Streams PROVE ~Emit(s)
  BY <1>1 DEF Emit
<1>3. ~Finish /\ ~Break /\ ~WriteNothing /\ ~WriteBuffers /\ ~WriteFlushes /\ ~Close /\ ~Join
  BY <1>1 DEF Finish, Break, WriteNothing, WriteBuffers, WriteFlushes, Close, Join
<1>4. ~TimerFlushes /\ ~BatchStored /\ ~BatchFails /\ ~BatchRaises /\ ~CancelCommand /\ ~End
  BY <1>1 DEF TimerFlushes, BatchStored, BatchFails, BatchRaises, CancelCommand, Cancels, End, Continues
<1> QED BY <1>2, <1>3, <1>4 DEF Next

\* What a step does with the chunks: a flush makes new ones, and everything else moves
\* them, until the end adds those of the bounded output.
LEMMA ChunkSteps ==
  ASSUME BufferInv, [Next]_vars
  PROVE  /\ failed => failed'
         /\ status' \in {status, outcome}
         /\ \/ /\ WriteFlushes \/ Close \/ TimerFlushes
               /\ TakeChunks(captured')
               /\ UNCHANGED <<stored, late, status, failed>>
            \/ /\ UNCHANGED <<numbered, indexes, status>>
               /\ batch' \in {batch, NoChunks} /\ late' \subseteq late \cup {batch}
               /\ \/ stored' = stored
                  \/ BatchStored /\ stored' = Insert(stored, batch)
                  \/ \E b \in late : stored' = Insert(stored, b)
            \/ End /\ UNCHANGED <<numbered, captured, indexes, batch, late, failed>>
<1> USE DEF history, flags, command, config, buffer
<1>1. ASSUME NEW s \in Streams, Emit(s)
      PROVE UNCHANGED <<numbered, indexes, status, failed, batch, late, stored>>
  BY <1>1 DEF Emit
<1>2. CASE Finish \/ Break
  BY <1>2 DEF Finish, Break
<1>3. CASE WriteNothing \/ WriteBuffers
  BY <1>3 DEF WriteNothing, WriteBuffers
<1>4. CASE WriteFlushes
  BY <1>4 DEF WriteFlushes
<1>5. CASE Close
  BY <1>5 DEF Close
<1>6. CASE TimerFlushes
  BY <1>6 DEF TimerFlushes
<1>7. CASE BatchStored
  BY <1>7 DEF BatchStored
<1>8. CASE BatchFails
  BY <1>8 DEF BatchFails, GiveUp
<1>9. CASE BatchRaises
  BY <1>9 DEF BatchRaises, GiveUp
<1>10. CASE BatchLands
  BY <1>10 DEF BatchLands
<1>11. CASE CancelCommand
  BY <1>11 DEF CancelCommand, Cancels, GiveUp
<1>12. CASE Join
  BY <1>12 DEF Join
<1>13. CASE End
  BY <1>13 DEF End, Cancels, Records
<1>14. CASE UNCHANGED vars
  BY <1>14 DEF vars
<1> QED BY <1>1, <1>2, <1>3, <1>4, <1>5, <1>6, <1>7, <1>8, <1>9, <1>10, <1>11, <1>12, <1>13,
           <1>14 DEF Next

LEMMA WriterOnlyBefore ==
  ASSUME BufferInv, [Next]_vars, WriterOnly'
  PROVE  WriterOnly
<1>1. CASE status # "result"
  BY <1>1 DEF WriterOnly
<1>2. CASE status = "result"
  <2>1. UNCHANGED <<status, failed, captured>>
    BY <1>2, AfterTheRecord
       DEF vars, BatchLands, flags, buffer, history
  <2> QED BY <1>2, <2>1 DEF WriterOnly
<1> QED BY <1>1, <1>2

\* Where the writer has stored the output, the record of the end adds nothing.
LEMMA NothingToRecord ==
  ASSUME End, ~UseTerminalFallback \/ outcome # "result"
  PROVE  /\ storage' \in {storage, StorageState}
         /\ \/ stored' = stored
            \/ \E new : stored' = Insert(stored, new) /\ \A s \in Streams : DOMAIN new[s] = {}
<1>1. CASE UNCHANGED <<stored, storage>>
  BY <1>1
<1>2. CASE HelperRecords /\ ~UseTerminalFallback
  <2>1. \A s \in Streams : Shown(s) = <<>>
    BY <1>2 DEF Shown
  <2>2. SubSeq(<<>>, 1, 0) = <<>>
    OBVIOUS
  <2>3. Len(<<>>) = 0 /\ MaxOutput \in Nat /\ MaxOutput - 0 \in Nat
    BY SizesAssumption
  <2>4. Min({0, MaxOutput}) = 0 /\ Min({0, MaxOutput - 0}) = 0
    BY <2>3, LeastOfTwo
  <2>5. \A s \in Streams : Share(s) = 0
    BY <2>1, <2>3, <2>4 DEF Share, Streams
  <2> DEFINE kept == [s \in Streams |-> SubSeq(Shown(s), 1, Share(s))]
             new == [s \in Streams |-> Chop(kept[s], 0)]
  <2>6. \A s \in Streams : kept[s] = <<>>
    BY <2>1, <2>2, <2>5
  <2>7. stored' = Insert(stored, new) /\ storage' = StorageState
    BY <1>2, <2>6 DEF HelperRecords
  <2>8. \A s \in Streams : DOMAIN new[s] = {}
    BY <2>6, NothingToInsert
  <2> HIDE DEF new
  <2> QED BY <2>7, <2>8
<1>3. CASE DatabaseRecords /\ ~UseTerminalFallback
  <2>1. \A s \in Streams : Shown(s) = <<>>
    BY <1>3 DEF Shown
  <2> DEFINE new == [s \in Streams |-> Chop(Shown(s), 0)]
  <2>2. stored' = Insert(stored, new) /\ storage' = StorageState
    BY <1>3 DEF DatabaseRecords
  <2>3. \A s \in Streams : DOMAIN new[s] = {}
    BY <2>1, NothingToInsert
  <2> HIDE DEF new
  <2> QED BY <2>2, <2>3
<1> QED BY <1>1, <1>2, <1>3 DEF End, Cancels, Records, history


\* Chunks that are only moved stay cut and arranged.
LEMMA MovedChunks ==
  ASSUME BufferInv, BufferInv', Cut, Arranged, UNCHANGED <<numbered, indexes>>,
         \A f \in Sources', s \in Streams : \A i \in DOMAIN f[s] :
           \E g \in Sources : i \in DOMAIN g[s] /\ f[s][i] = g[s][i]
  PROVE  Cut' /\ Arranged'
<1>1. Cut'
  BY DEF Cut
<1>2. ASSUME NEW f \in Sources', NEW g \in Sources', NEW s \in Streams,
             NEW i \in DOMAIN f[s], NEW j \in DOMAIN g[s]
      PROVE  /\ i < j => Last(f[s][i]) < g[s][j][1]
             /\ i = j => f[s][i] = g[s][j]
  <2>1. PICK e \in Sources : i \in DOMAIN e[s] /\ f[s][i] = e[s][i]
    OBVIOUS
  <2>2. PICK h \in Sources : j \in DOMAIN h[s] /\ g[s][j] = h[s][j]
    OBVIOUS
  <2> QED BY <2>1, <2>2 DEF Arranged
<1>3. Arranged'
  BY <1>2 DEF Arranged
<1> QED BY <1>1, <1>3

\* Those a flush makes come after the others.
LEMMA FlushedChunks ==
  ASSUME BufferInv, Counts', [Next]_vars, ChunkInv, TakeChunks(captured'), NEW s \in Streams
  PROVE  /\ DOMAIN batch'[s] = {i \in Nat : indexes[s] <= i /\ i < indexes'[s]}
         /\ indexes[s] <= indexes'[s] /\ numbered'[s] <= indexes'[s] * ChunkBytes
         /\ indexes'[s] = indexes[s] + CeilDiv(captured'[s] - numbered[s])
         /\ \A i \in DOMAIN batch'[s] :
              /\ Run(batch'[s][i]) /\ numbered[s] < batch'[s][i][1]
              /\ Last(batch'[s][i]) <= numbered'[s]
              /\ Last(batch'[s][i]) <= (i + 1) * ChunkBytes
         /\ \A i, j \in DOMAIN batch'[s] : i < j => Last(batch'[s][i]) < batch'[s][j][1]
         /\ \A x \in numbered[s] + 1 .. numbered'[s] : InSource(batch', s, x)
<1> DEFINE a == numbered[s]
           b == captured'[s]
           k == indexes[s]
<1>1. Counts /\ a \in Nat /\ b \in Nat /\ k \in Nat
  BY DEF BufferInv, Counts
<1>2. a <= b /\ b - a \in Nat
  <2>1. numbered'[s] = b /\ a <= numbered'[s]
    BY CountsStep DEF TakeChunks
  <2> QED BY <1>1, <2>1
<1>3. a <= Before(k)
  BY DEF ChunkInv, Before
<1>4. /\ batch'[s] = Chop(Bytes(a + 1, b), k) /\ indexes'[s] = k + CeilDiv(b - a)
      /\ numbered'[s] = b
  BY DEF TakeChunks
<1>5. CeilDiv(b - a) \in Nat
  BY <1>2, Ceilings
<1> HIDE DEF a, b, k
<1>6. /\ DOMAIN batch'[s] = {i \in k .. k + CeilDiv(b - a) : i < k + CeilDiv(b - a)}
      /\ b <= Before(k + CeilDiv(b - a))
      /\ \A i \in DOMAIN batch'[s] :
           /\ i \in Nat /\ k <= i /\ i < k + CeilDiv(b - a)
           /\ Run(batch'[s][i]) /\ a < batch'[s][i][1]
           /\ Last(batch'[s][i]) <= b /\ Last(batch'[s][i]) <= Before(i + 1)
      /\ \A i, j \in DOMAIN batch'[s] : i < j => Last(batch'[s][i]) < batch'[s][j][1]
      /\ \A x \in a + 1 .. b : \E i \in DOMAIN batch'[s] : \E n \in DOMAIN batch'[s][i] :
           batch'[s][i][n] = x
  <2>1. Parted(batch'[s], a, b, k)
    BY <1>1, <1>2, <1>3, <1>4, NewChunks
  <2> QED BY <2>1 DEF Parted
<1>7. /\ DOMAIN batch'[s] = {i \in Nat : k <= i /\ i < indexes'[s]}
      /\ k <= indexes'[s] /\ numbered'[s] <= indexes'[s] * ChunkBytes
  <2>1. DOMAIN batch'[s] = {i \in k .. k + CeilDiv(b - a) : i < k + CeilDiv(b - a)}
    BY <1>6
  <2>2. {i \in k .. k + CeilDiv(b - a) : i < k + CeilDiv(b - a)}
          = {i \in Nat : k <= i /\ i < k + CeilDiv(b - a)}
    BY <1>1, <1>5
  <2>3. numbered'[s] <= indexes'[s] * ChunkBytes
    BY <1>4, <1>6 DEF Before
  <2>4. k <= indexes'[s]
    BY <1>1, <1>4, <1>5
  <2> QED BY <1>4, <2>1, <2>2, <2>3, <2>4
<1>8. \A x \in a + 1 .. b : InSource(batch', s, x)
  BY <1>6 DEF InSource
<1>9. \A i \in DOMAIN batch'[s] :
        /\ Run(batch'[s][i]) /\ a < batch'[s][i][1]
        /\ Last(batch'[s][i]) <= b /\ Last(batch'[s][i]) <= (i + 1) * ChunkBytes
  BY <1>6 DEF Before
<1> QED BY <1>4, <1>6, <1>7, <1>8, <1>9 DEF a, b, k

\* What the first byte of a chunk is, and the last.
LEMMA RunBounds ==
  ASSUME NEW c, Run(c)
  PROVE  c[1] \in Nat /\ Last(c) \in Nat /\ 1 <= c[1] /\ c[1] <= Last(c)
<1>1. c \in Seq(Nat) /\ Len(c) \in Nat /\ Len(c) >= 1 /\ c[1] >= 1
  BY DEF Run
<1>2. 1 \in DOMAIN c /\ Len(c) \in DOMAIN c
  BY <1>1
<1>3. c[1] \in Nat /\ c[Len(c)] \in Nat /\ c[Len(c)] = c[1] + Len(c) - 1
  <2>1. \A n \in DOMAIN c : c[n] \in Nat
    BY <1>1
  <2>2. c[Len(c)] = c[1] + Len(c) - 1
    BY <1>2 DEF Run
  <2> QED BY <1>2, <2>1, <2>2
<1> QED BY <1>1, <1>3 DEF Last

LEMMA ChunksStep ==
  ASSUME BufferInv, BufferInv', ChunkInv, [Next]_vars
  PROVE  ChunkInv'
<1>1. /\ numbered \in [Streams -> Nat] /\ numbered' \in [Streams -> Nat]
      /\ indexes \in [Streams -> Nat] /\ indexes' \in [Streams -> Nat]
      /\ \A s \in Streams : numbered[s] <= numbered'[s]
      /\ Counts'
  BY CountsStep DEF BufferInv, Counts
<1>2. IsFiniteSet(late) /\ (WriterOnly => Cut /\ Arranged)
      /\ \A s \in Streams : numbered[s] <= indexes[s] * ChunkBytes
  BY DEF ChunkInv
<1>3. CASE TakeChunks(captured') /\ UNCHANGED <<stored, late, status, failed>>
  <2>1. \A s \in Streams : numbered'[s] <= indexes'[s] * ChunkBytes
    BY <1>1, <1>3, FlushedChunks
  <2>2. ASSUME WriterOnly' PROVE Cut' /\ Arranged'
    <3>1. Cut /\ Arranged
      BY <1>2, <2>2, WriterOnlyBefore
    <3>2. Sources' \subseteq Sources \cup {batch'}
      BY <1>3 DEF Sources
    <3>3. ASSUME NEW f \in Sources, NEW s \in Streams, NEW i \in DOMAIN f[s]
          PROVE  /\ i \in Nat /\ i < indexes[s] /\ Run(f[s][i])
                 /\ Last(f[s][i]) <= numbered[s] /\ Last(f[s][i]) <= (i + 1) * ChunkBytes
      BY <3>1 DEF Cut
    <3>4. ASSUME NEW s \in Streams
          PROVE  /\ indexes[s] <= indexes'[s] /\ indexes[s] \in Nat /\ indexes'[s] \in Nat
                 /\ numbered[s] <= numbered'[s] /\ numbered[s] \in Nat /\ numbered'[s] \in Nat
      BY <1>1, <1>3, FlushedChunks
    <3>5. ASSUME NEW s \in Streams, NEW i \in DOMAIN batch'[s]
          PROVE  /\ i \in Nat /\ indexes[s] <= i /\ i < indexes'[s] /\ Run(batch'[s][i])
                 /\ numbered[s] < batch'[s][i][1] /\ Last(batch'[s][i]) <= numbered'[s]
                 /\ Last(batch'[s][i]) <= (i + 1) * ChunkBytes
      BY <1>1, <1>3, FlushedChunks
    <3>6. Cut'
      <4>1. ASSUME NEW f \in Sources', NEW s \in Streams, NEW i \in DOMAIN f[s]
            PROVE  /\ i \in Nat /\ i < indexes'[s] /\ Run(f[s][i])
                   /\ Last(f[s][i]) <= numbered'[s] /\ Last(f[s][i]) <= (i + 1) * ChunkBytes
        <5>1. CASE f = batch'
          BY <3>5, <5>1
        <5>2. CASE f \in Sources
          <6>1. Last(f[s][i]) \in Nat
            BY <3>3, <5>2, RunBounds
          <6> QED BY <3>3, <3>4, <5>2, <6>1
        <5> QED BY <3>2, <5>1, <5>2
      <4> QED BY <4>1 DEF Cut
    <3>7. Arranged'
      <4>1. ASSUME NEW f \in Sources', NEW g \in Sources', NEW s \in Streams,
                   NEW i \in DOMAIN f[s], NEW j \in DOMAIN g[s]
            PROVE  /\ i < j => Last(f[s][i]) < g[s][j][1]
                   /\ i = j => f[s][i] = g[s][j]
        <5>1. CASE f \in Sources /\ g \in Sources
          BY <3>1, <5>1 DEF Arranged
        <5>2. CASE f \in Sources /\ g = batch'
          <6>1. /\ i \in Nat /\ i < indexes[s] /\ Last(f[s][i]) <= numbered[s] /\ Run(f[s][i])
            BY <3>3, <5>2
          <6>2. /\ j \in Nat /\ indexes[s] <= j /\ numbered[s] < g[s][j][1] /\ Run(g[s][j])
            BY <3>5, <5>2
          <6> QED BY <3>4, <6>1, <6>2, RunBounds
        <5>3. CASE f = batch' /\ g \in Sources
          <6>1. j \in Nat /\ j < indexes[s]
            BY <3>3, <5>3
          <6>2. i \in Nat /\ indexes[s] <= i
            BY <3>5, <5>3
          <6> QED BY <3>4, <6>1, <6>2
        <5>4. CASE f = batch' /\ g = batch'
          BY <1>1, <1>3, <5>4, FlushedChunks
        <5> QED BY <3>2, <5>1, <5>2, <5>3, <5>4
      <4> QED BY <4>1 DEF Arranged
    <3> QED BY <3>6, <3>7
  <2> QED BY <1>2, <1>3, <2>1, <2>2 DEF ChunkInv
<1>4. CASE /\ UNCHANGED <<numbered, indexes>>
           /\ batch' \in {batch, NoChunks} /\ late' \subseteq late \cup {batch}
           /\ \/ stored' = stored
              \/ \E b \in Sources : stored' = Insert(stored, b)
              \/ WriterOnly' => \E new : /\ stored' = Insert(stored, new)
                                         /\ \A s \in Streams : DOMAIN new[s] = {}
  <2>1. IsFiniteSet(late')
    <3>1. IsFiniteSet(late \cup {batch})
      BY <1>2, FS_AddElement
    <3> QED BY <1>4, <3>1, FS_Subset
  <2>2. ASSUME WriterOnly' PROVE Cut' /\ Arranged'
    <3>1. Cut /\ Arranged
      BY <1>2, <2>2, WriterOnlyBefore
    <3>2. ASSUME NEW s \in Streams, NEW i \in DOMAIN stored'[s]
          PROVE  \E g \in Sources : i \in DOMAIN g[s] /\ stored'[s][i] = g[s][i]
      <4>1. CASE stored' = stored
        BY <4>1 DEF Sources
      <4>2. ASSUME NEW b, stored' = Insert(stored, b),
                   b \in Sources \/ \A t \in Streams : DOMAIN b[t] = {}
            PROVE  \E g \in Sources : i \in DOMAIN g[s] /\ stored'[s][i] = g[s][i]
        <5>1. CASE i \in DOMAIN stored[s]
          BY <4>2, <5>1, Insertion DEF Sources
        <5>2. CASE i \notin DOMAIN stored[s]
          BY <4>2, <5>2, Insertion
        <5> QED BY <5>1, <5>2
      <4> QED BY <1>4, <2>2, <4>1, <4>2
    <3>3. ASSUME NEW f \in Sources', NEW s \in Streams, NEW i \in DOMAIN f[s]
          PROVE  \E g \in Sources : i \in DOMAIN g[s] /\ f[s][i] = g[s][i]
      <4>1. CASE f = stored'
        BY <3>2, <4>1
      <4>2. CASE f = NoChunks
        BY <4>2, NothingToInsert
      <4>3. CASE f \in late \cup {batch}
        BY <4>3 DEF Sources
      <4> QED BY <1>4, <4>1, <4>2, <4>3 DEF Sources
    <3> QED BY <1>4, <3>1, <3>3, MovedChunks
  <2> QED BY <1>2, <1>4, <2>1, <2>2 DEF ChunkInv
<1>5. CASE End /\ UNCHANGED <<numbered, captured, indexes, batch, late, failed>>
  <2>1. ASSUME WriterOnly' PROVE ~UseTerminalFallback \/ outcome # "result" \/ UNCHANGED stored
    BY <1>5, <2>1 DEF End, Cancels, Records, WriterOnly, UseTerminalFallback, history
  <2>2. ASSUME WriterOnly'
        PROVE  \/ stored' = stored
               \/ \E new : /\ stored' = Insert(stored, new)
                           /\ \A s \in Streams : DOMAIN new[s] = {}
    BY <1>5, <2>1, <2>2, NothingToRecord
  <2>3. CASE stored' = stored
    BY <1>4, <1>5, <2>3
  <2>4. CASE stored' # stored
    BY <1>4, <1>5, <2>2, <2>4
  <2> QED BY <2>3, <2>4
<1> QED BY <1>3, <1>4, <1>5, ChunkSteps DEF Sources


\* A flush finds no append under way; the one of close may find nothing to append.
LEMMA FlushSteps ==
  ASSUME BufferInv, BatchInv, WriteFlushes \/ Close \/ TimerFlushes, TakeChunks(captured'),
         NEW s \in Streams
  PROVE  DOMAIN batch[s] = {}
BY DEF BufferInv, Places, BatchInv, WriteFlushes, Close, TimerFlushes, Enters

LEMMA EmptyFlush ==
  ASSUME BufferInv, Counts', [Next]_vars, ChunkInv, TakeChunks(captured'), captured' = captured,
         Buffered(captured) = 0, NEW s \in Streams
  PROVE  DOMAIN batch'[s] = {}
<1>1. /\ captured \in [Streams -> Nat] /\ numbered \in [Streams -> Nat]
      /\ \A t \in Streams : numbered[t] <= captured[t]
      /\ indexes \in [Streams -> Nat]
  BY DEF BufferInv, Counts
<1>2. captured[s] - numbered[s] = 0
  BY <1>1 DEF Buffered, Both, Streams
<1>3. CeilDiv(0) = 0
  BY Ceilings
<1>4. indexes'[s] = indexes[s] + 0
  BY <1>2, <1>3, FlushedChunks
<1>5. DOMAIN batch'[s] = {i \in Nat : indexes[s] <= i /\ i < indexes'[s]}
  BY FlushedChunks
<1> QED BY <1>1, <1>4, <1>5

LEMMA BatchStep ==
  ASSUME BufferInv, Counts', ChunkInv, BatchInv, [Next]_vars
  PROVE  BatchInv'
<1> USE DEF BatchInv, history, flags, command, config, buffer
<1>1. Places
  BY DEF BufferInv
<1>2. ASSUME \A s \in Streams : DOMAIN batch'[s] = {} PROVE BatchInv'
  BY <1>2
<1>3. ASSUME UNCHANGED <<batch, lock, at>> PROVE BatchInv'
  BY <1>3
<1>4. ASSUME UNCHANGED batch, ~(lock = "timer" \/ at \in {"storing", "draining"}) PROVE BatchInv'
  BY <1>4
<1>5. ASSUME batch' = NoChunks PROVE BatchInv'
  BY <1>2, <1>5, NothingToInsert
<1>6. ASSUME lock' = "timer" \/ at' \in {"storing", "draining"} PROVE BatchInv'
  BY <1>6
<1> HIDE DEF BatchInv
<1>7. ASSUME NEW s \in Streams, Emit(s) PROVE BatchInv'
  BY <1>1, <1>4, <1>6, <1>7 DEF Emit, Places
<1>8. CASE Finish \/ Break
  BY <1>1, <1>4, <1>6, <1>8 DEF Finish, Break, Places
<1>9. CASE WriteNothing \/ WriteBuffers
  BY <1>1, <1>4, <1>9 DEF WriteNothing, WriteBuffers, Enters, Places
<1>10. CASE WriteFlushes
  BY <1>6, <1>10 DEF WriteFlushes
<1>11. CASE Close
  <2>1. CASE Buffered(captured) = 0
    <3>1. TakeChunks(captured') /\ captured' = captured
      BY <1>11 DEF Close
    <3> QED BY <1>2, <2>1, <3>1, EmptyFlush
  <2>2. CASE Buffered(captured) # 0
    BY <1>6, <1>11, <2>2 DEF Close
  <2> QED BY <2>1, <2>2
<1>12. CASE Join
  BY <1>1, <1>4, <1>6, <1>12 DEF Join, Places
<1>13. CASE TimerFlushes
  BY <1>3, <1>6, <1>13 DEF TimerFlushes
<1>14. CASE BatchStored \/ BatchFails \/ BatchRaises
  BY <1>5, <1>14 DEF BatchStored, BatchFails, BatchRaises, GiveUp
<1>15. CASE BatchLands
  BY <1>3, <1>15 DEF BatchLands
<1>16. CASE CancelCommand
  BY <1>1, <1>4, <1>5, <1>6, <1>16 DEF CancelCommand, Cancels, GiveUp, Places
<1>17. CASE End
  BY <1>1, <1>4, <1>6, <1>17 DEF End, Cancels, Places
<1>18. CASE UNCHANGED vars
  BY <1>3, <1>18 DEF vars
<1> QED BY <1>7, <1>8, <1>9, <1>10, <1>11, <1>12, <1>13, <1>14, <1>15, <1>16, <1>17, <1>18 DEF Next

ChunksInv == BufferInv /\ ChunkInv /\ BatchInv

LEMMA ChunksInvStep ==
  ASSUME ChunksInv, [Next]_vars
  PROVE  ChunksInv'
<1>1. BufferInv'
  BY BufferStep DEF ChunksInv
<1>2. Counts'
  BY <1>1 DEF BufferInv
<1> QED BY <1>1, <1>2, ChunksStep, BatchStep DEF ChunksInv

LEMMA InitialChunks ==
  ASSUME Init
  PROVE  ChunksInv
<1>1. BufferInv
  BY InitialBuffer
<1>2. \A f \in Sources, s \in Streams : DOMAIN f[s] = {}
  BY NothingToInsert DEF Init, Sources
<1>3. Cut /\ Arranged
  BY <1>2 DEF Cut, Arranged
<1>4. \A s \in Streams : numbered[s] <= indexes[s] * ChunkBytes
  <2>1. 0 * ChunkBytes = 0
    BY Multiples
  <2> QED BY <2>1 DEF Init
<1>5. IsFiniteSet(late)
  BY FS_EmptySet DEF Init
<1>6. BatchInv
  BY <1>2 DEF BatchInv, Sources
<1> QED BY <1>1, <1>3, <1>4, <1>5, <1>6 DEF ChunksInv, ChunkInv


-----------------------------------------------------------------------------
(* Nothing is lost unnoticed.                                              *)

\* Who gives up an append leaves a trace: the writer has failed, its timer died, or the
\* command did not end with its result.
LEMMA SoundSteps ==
  ASSUME BufferInv, [Next]_vars, Sound'
  PROVE  /\ Sound
         /\ \/ UNCHANGED <<late, batch, stored, numbered, status>>
            \/ /\ WriteFlushes \/ Close \/ TimerFlushes
               /\ TakeChunks(captured') /\ UNCHANGED <<late, stored, status>>
            \/ /\ BatchStored /\ stored' = Insert(stored, batch)
               /\ UNCHANGED <<late, numbered, captured, status>>
            \/ BatchLands /\ late # {}
            \/ End /\ UNCHANGED <<late, batch, numbered, captured>>
<1> USE DEF BufferInv, Places, Sound, history, flags, command, config, buffer
<1>1. ASSUME NEW s \in Streams, Emit(s)
      PROVE Sound /\ UNCHANGED <<late, batch, stored, numbered, status>>
  BY <1>1 DEF Emit
<1>2. CASE Finish \/ Break
  BY <1>2 DEF Finish, Break
<1>3. CASE WriteNothing \/ WriteBuffers
  BY <1>3 DEF WriteNothing, WriteBuffers, EnsureTimer
<1>4. CASE WriteFlushes
  BY <1>4 DEF WriteFlushes, EnsureTimer
<1>5. CASE Close
  BY <1>5 DEF Close
<1>6. CASE TimerFlushes
  BY <1>6 DEF TimerFlushes
<1>7. CASE BatchStored
  BY <1>7 DEF BatchStored, Continues
<1>8. CASE BatchFails
  BY <1>8 DEF BatchFails
<1>9. CASE BatchRaises
  BY <1>9 DEF BatchRaises
<1>10. CASE BatchLands
  BY <1>10 DEF BatchLands
<1>11. CASE CancelCommand
  BY <1>11 DEF CancelCommand, Cancels
<1>12. CASE Join
  BY <1>12 DEF Join
<1>13. CASE End
  BY <1>13 DEF End, Cancels, Ended
<1>14. CASE UNCHANGED vars
  BY <1>14 DEF vars
<1> QED BY <1>1, <1>2, <1>3, <1>4, <1>5, <1>6, <1>7, <1>8, <1>9, <1>10, <1>11, <1>12, <1>13,
           <1>14 DEF Next

LEMMA CoveredStep ==
  ASSUME ChunksInv, Covered, [Next]_vars
  PROVE  Covered'
<1> SUFFICES ASSUME Sound'
             PROVE  /\ late' = {}
                    /\ \A s \in Streams : \A x \in 1 .. numbered'[s] :
                         (status' # "result" \/ Both(captured') > 0) =>
                            InSource(stored', s, x) \/ InSource(batch', s, x)
  BY DEF Covered, InSource
<1>1. BufferInv /\ Counts' /\ ChunkInv /\ BatchInv /\ ChunksInv'
  BY ChunksInvStep DEF ChunksInv, BufferInv
<1>2. Sound /\ late = {}
  BY <1>1, SoundSteps DEF Covered
<1>3. late' = {}
  BY <1>1, <1>2, SoundSteps
<1>4. ASSUME NEW s \in Streams, NEW x \in 1 .. numbered'[s],
             status' # "result" \/ Both(captured') > 0
      PROVE  InSource(stored', s, x) \/ InSource(batch', s, x)
  <2>1. WriterOnly'
    BY <1>4 DEF WriterOnly, Sound
  <2>2. WriterOnly
    BY <1>1, <2>1, WriterOnlyBefore
  <2>3. x \in 1 .. numbered[s] => InSource(stored, s, x) \/ InSource(batch, s, x)
    BY <1>2, <2>2 DEF Covered, WriterOnly
  <2>4. numbered[s] \in Nat /\ numbered'[s] \in Nat
    BY <1>1 DEF BufferInv, Counts
  <2>5. CASE UNCHANGED <<late, batch, stored, numbered>>
    BY <2>3, <2>5 DEF InSource
  <2>6. CASE /\ WriteFlushes \/ Close \/ TimerFlushes
             /\ TakeChunks(captured') /\ UNCHANGED <<late, stored, status>>
    <3>1. DOMAIN batch[s] = {}
      BY <1>1, <2>6, FlushSteps
    <3>2. CASE x \in 1 .. numbered[s]
      BY <2>3, <2>6, <3>1, <3>2 DEF InSource
    <3>3. CASE x \in numbered[s] + 1 .. numbered'[s]
      BY <1>1, <2>6, <3>3, FlushedChunks
    <3> QED BY <2>4, <3>2, <3>3
  <2>7. CASE BatchStored /\ stored' = Insert(stored, batch) /\ UNCHANGED numbered
    <3>1. CASE InSource(stored, s, x)
      <4>1. PICK i \in DOMAIN stored[s] : \E n \in DOMAIN stored[s][i] : stored[s][i][n] = x
        BY <3>1 DEF InSource
      <4>2. i \in DOMAIN stored'[s] /\ stored'[s][i] = stored[s][i]
        BY <2>7, <4>1, Insertion
      <4> QED BY <4>1, <4>2 DEF InSource
    <3>2. CASE InSource(batch, s, x)
      <4>1. PICK i \in DOMAIN batch[s] : \E n \in DOMAIN batch[s][i] : batch[s][i][n] = x
        BY <3>2 DEF InSource
      <4>2. i \in DOMAIN stored[s] => stored[s][i] = batch[s][i]
        BY <1>1, <2>2, <4>1 DEF ChunkInv, Arranged, Sources
      <4>3. i \in DOMAIN stored'[s] /\ stored'[s][i] = batch[s][i]
        BY <2>7, <4>1, <4>2, Insertion
      <4> QED BY <4>1, <4>3 DEF InSource
    <3> QED BY <2>3, <2>7, <3>1, <3>2
  <2>8. CASE End /\ UNCHANGED <<late, batch, numbered, captured>>
    <3>1. ~UseTerminalFallback \/ outcome # "result" \/ UNCHANGED stored
      BY <1>2, <1>4, <2>8 DEF End, Cancels, Records, UseTerminalFallback, Sound, history
    <3>2. \/ stored' = stored
          \/ \E new : stored' = Insert(stored, new) /\ \A t \in Streams : DOMAIN new[t] = {}
      BY <2>8, <3>1, NothingToRecord
    <3>3. InSource(stored, s, x) => InSource(stored', s, x)
      BY <3>2, Insertion DEF InSource
    <3> QED BY <2>3, <2>8, <3>3
  <2> QED BY <1>1, <1>2, <2>5, <2>6, <2>7, <2>8, SoundSteps
<1> QED BY <1>3, <1>4

\* write has captured all there is, unless it is in the middle of it.
LEMMA CapturesStep ==
  ASSUME BufferInv, CapturesAll, [Next]_vars
  PROVE  CapturesAll'
<1> USE DEF CapturesAll, BufferInv, Places, Ended, history, flags, command, config, buffer
<1>1. ASSUME NEW s \in Streams, Emit(s) PROVE CapturesAll'
  <2>1. PICK n \in 1 .. MaxWritten : Written(s, n)
    BY <1>1 DEF Emit
  <2>2. \A t \in Streams : t # s => written'[t] = written[t]
    BY <2>1 DEF Written, Counts
  <2>3. /\ at = "running" /\ stream' = s
        /\ s \in capture => at' = "writing"
        /\ UNCHANGED <<captured, unstreamed, outcome, failed, truncated, capture>>
        /\ capture \subseteq Streams
    BY <1>1 DEF Emit, Counts
  <2> HIDE DEF BufferInv, Places, Ended, CapturesAll
  <2> QED BY <2>2, <2>3 DEF CapturesAll
<1>2. CASE Finish
  <2>1. CASE UNCHANGED <<written, unstreamed>>
    BY <1>2, <2>1 DEF Finish
  <2>2. ASSUME NEW s \in Streams, NEW n \in 1 .. MaxWritten, Written(s, n), unstreamed' = {s}
        PROVE  CapturesAll'
    <3>1. \A t \in Streams : t # s => written'[t] = written[t]
      BY <2>2 DEF Written, Counts
    <3> QED BY <1>2, <2>2, <3>1 DEF Finish, Counts
  <2> QED BY <1>2, <2>1, <2>2 DEF Finish
<1>3. CASE Break
  BY <1>3 DEF Break
<1>4. CASE WriteNothing
  BY <1>4 DEF WriteNothing
<1>5. CASE WriteBuffers
  <2>1. /\ \A s \in Streams : captured[s] <= Taken[s] /\ Taken[s] <= written[s]
        /\ \A s \in Streams : s # stream => Taken[s] = captured[s]
        /\ Taken \in [Streams -> Nat] /\ written \in [Streams -> Nat]
        /\ stream \in Streams /\ capture \subseteq Streams
    BY <1>5, TakenCounts DEF WriteBuffers, Emptied, Counts
  <2>2. ~(Taken[stream] < written[stream]) => Taken[stream] = written[stream]
    BY <2>1
  <2> QED BY <1>5, <2>1, <2>2 DEF WriteBuffers
<1>6. CASE WriteFlushes
  <2>1. /\ \A s \in Streams : s # stream => Taken[s] = captured[s]
        /\ capture \subseteq Streams
    BY <1>6, TakenCounts DEF WriteFlushes, Emptied, Counts
  <2> QED BY <1>6, <2>1 DEF WriteFlushes
<1>7. CASE Close
  BY <1>7 DEF Close
<1>8. CASE Join
  BY <1>8 DEF Join
<1>9. CASE TimerFlushes
  BY <1>9 DEF TimerFlushes
<1>10. CASE BatchStored \/ BatchFails
  <2>1. ASSUME ~(Left > 0) PROVE captured[stream] = written[stream]
    BY <2>1 DEF Left, Counts
  <2> HIDE DEF CapturesAll
  <2>2. CASE BatchFails
    <3>1. failed'
      BY <2>2 DEF BatchFails
    <3>2. outcome' = outcome /\ unstreamed' = unstreamed
      BY <2>2 DEF BatchFails
    <3> QED BY <3>1, <3>2 DEF CapturesAll
  <2>3. CASE BatchStored
    BY <2>1, <2>3 DEF BatchStored, Continues, CapturesAll
  <2> QED BY <1>10, <2>2, <2>3
<1>11. CASE BatchRaises
  BY <1>11 DEF BatchRaises
<1>12. CASE BatchLands
  BY <1>12 DEF BatchLands
<1>13. CASE CancelCommand
  BY <1>13 DEF CancelCommand, Cancels
<1>14. CASE End
  BY <1>14 DEF End, Cancels
<1>15. CASE UNCHANGED vars
  BY <1>15 DEF vars
<1> QED BY <1>1, <1>2, <1>3, <1>4, <1>5, <1>6, <1>7, <1>8, <1>9, <1>10, <1>11, <1>12, <1>13,
           <1>14, <1>15 DEF Next


-----------------------------------------------------------------------------
(* Counting the stored bytes.                                              *)

\* The places of the bytes of the chunks f.
BytesAt(f) == UNION {{i} \X DOMAIN f[i] : i \in DOMAIN f}

LEMMA RunElements ==
  ASSUME NEW c, Run(c), NEW m \in DOMAIN c, NEW n \in DOMAIN c
  PROVE  /\ c[n] \in Nat /\ c[1] <= c[n] /\ c[n] <= Last(c) /\ 1 <= c[n]
         /\ c[m] = c[n] => m = n
<1>1. c \in Seq(Nat) /\ Len(c) \in Nat /\ Len(c) >= 1 /\ c[1] >= 1
  BY DEF Run
<1>2. DOMAIN c = 1 .. Len(c) /\ 1 \in DOMAIN c /\ Len(c) \in DOMAIN c /\ m \in Nat /\ n \in Nat
      /\ 1 <= n /\ n <= Len(c)
  BY <1>1
<1>3. c[1] \in Nat /\ c[m] \in Nat /\ c[n] \in Nat
  BY <1>1, <1>2
<1>4. c[m] = c[1] + m - 1 /\ c[n] = c[1] + n - 1 /\ c[Len(c)] = c[1] + Len(c) - 1
  BY <1>2 DEF Run
<1>5. c[1] <= c[n] /\ c[n] <= c[Len(c)] /\ 1 <= c[n] /\ (c[m] = c[n] => m = n)
  <2> DEFINE a == c[1]
             l == Len(c)
  <2>1. a \in Nat /\ l \in Nat /\ m \in Nat /\ n \in Nat /\ 1 <= n /\ n <= l /\ 1 <= a
    BY <1>1, <1>2, <1>3
  <2>2. c[m] = a + m - 1 /\ c[n] = a + n - 1 /\ c[l] = a + l - 1
    BY <1>4
  <2> HIDE DEF a, l
  <2>3. a <= c[n] /\ c[n] <= c[l] /\ 1 <= c[n] /\ (c[m] = c[n] => m = n)
    BY <2>1, <2>2
  <2> QED BY <2>3 DEF a, l
<1> QED BY <1>3, <1>5 DEF Last

\* As many bytes as there are places, if no byte comes twice.
LEMMA CountedBytes ==
  ASSUME NEW f, NEW n \in Nat,
         \A i \in DOMAIN f : i \in Nat /\ Run(f[i]) /\ Last(f[i]) <= n,
         \A i, j \in DOMAIN f : i < j => Last(f[i]) < f[j][1]
  PROVE  /\ IsFiniteSet(BytesAt(f)) /\ Cardinality(BytesAt(f)) <= n
         /\ (\A x \in 1 .. n : \E i \in DOMAIN f : \E k \in DOMAIN f[i] : f[i][k] = x) =>
              Cardinality(BytesAt(f)) = n
<1> DEFINE S == BytesAt(f)
           T == 1 .. n
           v == [p \in S |-> f[p[1]][p[2]]]
<1>1. \A p \in S : p[1] \in DOMAIN f /\ p[2] \in DOMAIN f[p[1]] /\ p = <<p[1], p[2]>>
  BY DEF BytesAt
<1>2. \A i \in DOMAIN f : \A k \in DOMAIN f[i] : <<i, k>> \in S
  BY DEF BytesAt
<1>3. IsFiniteSet(T) /\ Cardinality(T) = n
  <2>1. 1 \in Int /\ n \in Int
    OBVIOUS
  <2>2. IsFiniteSet(1 .. n) /\ Cardinality(1 .. n) = IF 1 > n THEN 0 ELSE n - 1 + 1
    BY <2>1, FS_Interval
  <2> QED BY <2>2
<1> HIDE DEF S
<1>4. \A p \in S : v[p] \in T
  <2>1. ASSUME NEW i \in DOMAIN f, NEW k \in DOMAIN f[i] PROVE f[i][k] \in 1 .. n
    <3>1. Run(f[i]) /\ Last(f[i]) <= n
      OBVIOUS
    <3>2. f[i][k] \in Nat /\ 1 <= f[i][k] /\ f[i][k] <= Last(f[i]) /\ Last(f[i]) \in Nat
      BY <3>1, RunElements, RunBounds
    <3> QED BY <3>1, <3>2
  <2> QED BY <1>1, <2>1
<1>5. ASSUME NEW p \in S, NEW q \in S, v[p] = v[q] PROVE p = q
  <2>1. /\ p[1] \in DOMAIN f /\ p[2] \in DOMAIN f[p[1]] /\ p = <<p[1], p[2]>>
        /\ q[1] \in DOMAIN f /\ q[2] \in DOMAIN f[q[1]] /\ q = <<q[1], q[2]>>
        /\ f[p[1]][p[2]] = f[q[1]][q[2]]
    BY <1>1, <1>5
  <2>2. ASSUME NEW i \in DOMAIN f, NEW j \in DOMAIN f, NEW k \in DOMAIN f[i],
               NEW l \in DOMAIN f[j], f[i][k] = f[j][l]
        PROVE  ~(i < j)
    <3>1. Run(f[i]) /\ Run(f[j])
      OBVIOUS
    <3>2. f[i][k] \in Nat /\ f[i][k] <= Last(f[i]) /\ Last(f[i]) \in Nat
      BY <3>1, RunElements, RunBounds
    <3>3. f[j][l] \in Nat /\ f[j][1] <= f[j][l] /\ f[j][1] \in Nat
      BY <3>1, RunElements, RunBounds
    <3> QED BY <2>2, <3>2, <3>3
  <2>3. p[1] \in Nat /\ q[1] \in Nat /\ ~(p[1] < q[1]) /\ ~(q[1] < p[1])
    BY <2>1, <2>2
  <2>4. p[1] = q[1]
    BY <2>3
  <2>5. p[2] = q[2]
    BY <2>1, <2>4, RunElements
  <2> QED BY <2>1, <2>4, <2>5
<1>6. v \in Injection(S, T)
  <2>1. v \in [S -> T]
    BY <1>4
  <2> QED BY <1>5, <2>1 DEF Injection, IsInjective
<1>7. IsFiniteSet(S) /\ Cardinality(S) <= n /\ (v \in Surjection(S, T) => Cardinality(S) = n)
  <2> HIDE DEF v, T
  <2> QED BY <1>3, <1>6, FS_Injection
<1>8. ASSUME \A x \in 1 .. n : \E i \in DOMAIN f : \E k \in DOMAIN f[i] : f[i][k] = x
      PROVE  v \in Surjection(S, T)
  <2>1. ASSUME NEW x \in T PROVE \E p \in S : v[p] = x
    <3>1. PICK i \in DOMAIN f : \E k \in DOMAIN f[i] : f[i][k] = x
      BY <1>8
    <3>2. PICK k \in DOMAIN f[i] : f[i][k] = x
      BY <3>1
    <3>3. <<i, k>> \in S /\ v[<<i, k>>] = x
      BY <1>2, <3>2
    <3> QED BY <3>3
  <2>2. v \in [S -> T]
    BY <1>4
  <2> QED BY <2>1, <2>2 DEF Surjection
<1> QED BY <1>7, <1>8 DEF S

\* While only the writer's chunks are stored.
LEMMA StoredByTheWriter ==
  ASSUME Counts, Cut, Arranged, NEW s \in Streams
  PROVE  /\ StoredBytes(s) \in Nat /\ StoredBytes(s) <= numbered[s]
         /\ (\A x \in 1 .. numbered[s] : InSource(stored, s, x)) => StoredBytes(s) = numbered[s]
<1> DEFINE f == stored[s]
<1>1. numbered[s] \in Nat /\ stored \in Sources
  BY DEF Counts, Sources
<1>2. \A i \in DOMAIN f : i \in Nat /\ Run(f[i]) /\ Last(f[i]) <= numbered[s]
  BY <1>1 DEF Cut
<1>3. \A i, j \in DOMAIN f : i < j => Last(f[i]) < f[j][1]
  BY <1>1 DEF Arranged
<1>4. StoredBytes(s) = Cardinality(BytesAt(f))
  BY DEF StoredBytes, StoredAt, BytesAt
<1>5. (\A x \in 1 .. numbered[s] : InSource(stored, s, x)) =>
        \A x \in 1 .. numbered[s] : \E i \in DOMAIN f : \E k \in DOMAIN f[i] : f[i][k] = x
  BY DEF InSource
<1> HIDE DEF f
<1>6. /\ IsFiniteSet(BytesAt(f)) /\ Cardinality(BytesAt(f)) <= numbered[s]
      /\ (\A x \in 1 .. numbered[s] : \E i \in DOMAIN f : \E k \in DOMAIN f[i] : f[i][k] = x) =>
           Cardinality(BytesAt(f)) = numbered[s]
  BY <1>1, <1>2, <1>3, CountedBytes
<1>7. Cardinality(BytesAt(f)) \in Nat
  BY <1>6, FS_CardinalityType
<1> QED BY <1>4, <1>5, <1>6, <1>7


\* The bytes of a stream in their order, with or without a gap.
Rising(w) ==
  /\ w \in Seq(Nat)
  /\ \A m \in DOMAIN w : m <= w[m]
  /\ \A m, n \in DOMAIN w : m < n => w[m] < w[n]

LEMMA BoundedRises ==
  ASSUME NEW n \in Nat
  PROVE  Rising(Bounded(n)) /\ (n = 0 => Len(Bounded(n)) = 0)
<1>1. HeadBytes \in Nat /\ TailBytes \in Nat
  BY SizesAssumption
<1>2. ASSUME NEW m \in Nat
      PROVE  /\ Bytes(1, m) \in Seq(Nat) /\ Len(Bytes(1, m)) = m
             /\ \A i \in 1 .. m : Bytes(1, m)[i] = i
  <2>1. 0 + 1 = 1 /\ 0 <= m /\ m - 0 = m /\ \A i \in 1 .. m : 0 + i = i
    OBVIOUS
  <2>2. /\ Bytes(0 + 1, m) \in Seq(Nat) /\ Len(Bytes(0 + 1, m)) = m - 0
        /\ \A i \in 1 .. m - 0 : Bytes(0 + 1, m)[i] = 0 + i
    BY <2>1, BytesAreNumbers
  <2> QED BY <2>1, <2>2
<1>3. CASE n <= HeadBytes + TailBytes
  <2> DEFINE w == Bytes(1, n)
  <2>1. w \in Seq(Nat) /\ Len(w) = n /\ \A i \in 1 .. n : w[i] = i
    BY <1>2
  <2> HIDE DEF w
  <2>2. DOMAIN w = 1 .. n
    BY <2>1
  <2>3. Rising(w)
    BY <2>1, <2>2 DEF Rising
  <2> QED BY <1>3, <2>1, <2>3 DEF Bounded, w
<1>4. CASE ~(n <= HeadBytes + TailBytes)
  <2> DEFINE h == Bytes(1, HeadBytes)
             t == Bytes(n + 1 - TailBytes, n)
             w == h \o t
  <2>1. h \in Seq(Nat) /\ Len(h) = HeadBytes /\ \A i \in 1 .. HeadBytes : h[i] = i
    BY <1>1, <1>2
  <2>2. n - TailBytes \in Nat /\ n - TailBytes <= n /\ n - TailBytes + 1 = n + 1 - TailBytes
        /\ n - (n - TailBytes) = TailBytes /\ HeadBytes < n - TailBytes
    BY <1>1, <1>4
  <2>3. t \in Seq(Nat) /\ Len(t) = TailBytes
        /\ \A i \in 1 .. TailBytes : t[i] = n - TailBytes + i
    <3> DEFINE a == n - TailBytes
    <3>1. a \in Nat /\ a <= n /\ a + 1 = n + 1 - TailBytes /\ n - a = TailBytes
      BY <2>2
    <3> HIDE DEF a
    <3>2. /\ Bytes(a + 1, n) \in Seq(Nat) /\ Len(Bytes(a + 1, n)) = n - a
          /\ \A i \in 1 .. n - a : Bytes(a + 1, n)[i] = a + i
      BY <3>1, BytesAreNumbers
    <3>3. /\ t \in Seq(Nat) /\ Len(t) = TailBytes /\ \A i \in 1 .. TailBytes : t[i] = a + i
      BY <3>1, <3>2
    <3> QED BY <3>3 DEF a
  <2>4. Bounded(n) = w
    BY <1>4 DEF Bounded
  <2> HIDE DEF h, t
  <2>5. /\ w \in Seq(Nat) /\ Len(w) = HeadBytes + TailBytes
        /\ DOMAIN w = 1 .. HeadBytes + TailBytes
        /\ \A i \in 1 .. HeadBytes + TailBytes :
             w[i] = IF i <= HeadBytes THEN h[i] ELSE t[i - HeadBytes]
    <3>1. /\ h \o t \in Seq(Nat) /\ Len(h \o t) = Len(h) + Len(t)
          /\ \A i \in 1 .. Len(h) + Len(t) :
               (h \o t)[i] = IF i <= Len(h) THEN h[i] ELSE t[i - Len(h)]
      BY <2>1, <2>3, ConcatProperties
    <3>2. /\ Len(h \o t) = HeadBytes + TailBytes
          /\ \A i \in 1 .. HeadBytes + TailBytes :
               (h \o t)[i] = IF i <= HeadBytes THEN h[i] ELSE t[i - HeadBytes]
      BY <2>1, <2>3, <3>1
    <3>3. DOMAIN (h \o t) = 1 .. Len(h \o t)
      BY <3>1
    <3> QED BY <3>1, <3>2, <3>3
  <2> HIDE DEF w
  <2>6. \A i \in DOMAIN w : w[i] = IF i <= HeadBytes THEN i ELSE n - TailBytes + (i - HeadBytes)
    <3>1. ASSUME NEW i \in 1 .. HeadBytes + TailBytes
          PROVE  /\ i <= HeadBytes => i \in 1 .. HeadBytes
                 /\ ~(i <= HeadBytes) => i - HeadBytes \in 1 .. TailBytes
      BY <1>1
    <3> QED BY <2>1, <2>3, <2>5, <3>1
  <2>7. \A i \in DOMAIN w : i <= w[i]
    BY <1>1, <2>2, <2>5, <2>6
  <2>8. \A i, j \in DOMAIN w : i < j => w[i] < w[j]
    BY <1>1, <2>2, <2>5, <2>6
  <2>9. n # 0
    BY <1>1, <1>4
  <2> QED BY <2>4, <2>5, <2>7, <2>8, <2>9 DEF Rising
<1> QED BY <1>3, <1>4

LEMMA PrefixRises ==
  ASSUME NEW w, Rising(w), NEW n \in Nat, n <= Len(w)
  PROVE  Rising(SubSeq(w, 1, n)) /\ Len(SubSeq(w, 1, n)) = n
<1> DEFINE p == SubSeq(w, 1, n)
<1>1. w \in Seq(Nat) /\ Len(w) \in Nat /\ DOMAIN w = 1 .. Len(w)
  BY DEF Rising
<1>2. \A i \in 1 .. n : w[i] \in Nat
  BY <1>1
<1>3. 1 \in Int /\ n \in Int /\ n - 1 + 1 = n /\ \A i \in 1 .. n : 1 + i - 1 = i
  OBVIOUS
<1>4. /\ p \in Seq(Nat) /\ Len(p) = IF 1 <= n THEN n - 1 + 1 ELSE 0
      /\ \A i \in 1 .. n - 1 + 1 : p[i] = w[1 + i - 1]
  BY <1>2, <1>3, SubSeqProperties
<1> HIDE DEF p
<1>5. p \in Seq(Nat) /\ Len(p) = n /\ \A i \in 1 .. n : p[i] = w[i]
  BY <1>3, <1>4
<1>6. DOMAIN p = 1 .. n /\ 1 .. n \subseteq DOMAIN w
  BY <1>1, <1>5
<1>7. Rising(p)
  BY <1>5, <1>6 DEF Rising
<1> QED BY <1>5, <1>7 DEF p

\* What is recorded of a stream is a part of what it wrote, and both parts share the limit.
LEMMA ShownBytes ==
  ASSUME Counts
  PROVE  /\ \A s \in Streams : /\ Rising(Shown(s)) /\ (written[s] = 0 => Len(Shown(s)) = 0)
                               /\ Share(s) \in Nat /\ Share(s) <= Len(Shown(s))
         /\ Share("stdout") + Share("stderr") <= MaxOutput
<1>1. MaxOutput \in Nat /\ \A s \in Streams : written[s] \in Nat
  BY SizesAssumption DEF Counts
<1>2. Rising(<<>>) /\ Len(<<>>) = 0
  BY DEF Rising
<1>3. ASSUME NEW s \in Streams
      PROVE  Rising(Shown(s)) /\ Len(Shown(s)) \in Nat /\ (written[s] = 0 => Len(Shown(s)) = 0)
  <2>1. Rising(Shown(s)) /\ (written[s] = 0 => Len(Shown(s)) = 0)
    BY <1>1, <1>2, BoundedRises DEF Shown
  <2>2. Shown(s) \in Seq(Nat)
    BY <2>1 DEF Rising
  <2> QED BY <2>1, <2>2
<1> DEFINE a == Len(Shown("stdout"))
           b == Len(Shown("stderr"))
           m == Min({a, MaxOutput})
<1>4. a \in Nat /\ b \in Nat
  BY <1>3 DEF Streams
<1>5. /\ Share("stdout") = IF "stdout" \in capture THEN m ELSE 0
      /\ Share("stderr") = IF "stderr" \notin capture THEN 0
                           ELSE IF "stdout" \in capture THEN Min({b, MaxOutput - m})
                           ELSE Min({b, MaxOutput})
  BY DEF Share
<1> HIDE DEF a, b
<1>6. m = IF a <= MaxOutput THEN a ELSE MaxOutput
  BY <1>1, <1>4, LeastOfTwo
<1> HIDE DEF m
<1>7. m \in Nat /\ m <= a /\ m <= MaxOutput /\ MaxOutput - m \in Nat
  BY <1>1, <1>4, <1>6
<1>8. /\ Min({b, MaxOutput - m}) = IF b <= MaxOutput - m THEN b ELSE MaxOutput - m
      /\ Min({b, MaxOutput}) = IF b <= MaxOutput THEN b ELSE MaxOutput
  BY <1>1, <1>4, <1>7, LeastOfTwo
<1>9. /\ Share("stdout") \in Nat /\ Share("stdout") <= a
      /\ Share("stderr") \in Nat /\ Share("stderr") <= b
      /\ Share("stdout") + Share("stderr") <= MaxOutput
  BY <1>1, <1>4, <1>5, <1>7, <1>8
<1> QED BY <1>3, <1>9 DEF a, b, Streams


\* The chunks that w is cut into have no more bytes than w.
LEMMA ChoppedBytes ==
  ASSUME NEW w \in Seq(Nat)
  PROVE  /\ IsFiniteSet(BytesAt(Chop(w, 0)))
         /\ Cardinality(BytesAt(Chop(w, 0))) \in Nat
         /\ Cardinality(BytesAt(Chop(w, 0))) <= Len(w)
<1> DEFINE f == Chop(w, 0)
           S == BytesAt(f)
           T == 1 .. Len(w)
           v == [p \in S |-> Before(p[1]) + p[2]]
<1>1. Len(w) \in Nat /\ CeilDiv(Len(w)) \in Nat
  BY Ceilings
<1>2. ASSUME NEW i \in DOMAIN f
      PROVE  i \in Nat /\ i < CeilDiv(Len(w)) /\ IsPart(f[i], w, i)
  <2>1. 0 \in Nat /\ \A j \in Nat : j - 0 = j
    OBVIOUS
  <2>2. i \in Nat /\ i - 0 \in Nat /\ i - 0 < CeilDiv(Len(w)) /\ IsPart(f[i], w, i - 0)
    BY <2>1, ChopParts
  <2> QED BY <2>1, <2>2
<1>3. \A p \in S : p[1] \in DOMAIN f /\ p[2] \in DOMAIN f[p[1]] /\ p = <<p[1], p[2]>>
  BY DEF BytesAt
<1> HIDE DEF f, S
<1>4. ASSUME NEW i \in DOMAIN f, NEW m \in DOMAIN f[i]
      PROVE  /\ m \in Nat /\ 1 <= m /\ Before(i) \in Nat /\ Before(i + 1) \in Nat
             /\ Before(i) + m <= Before(i + 1) /\ Before(i) + m <= Len(w)
  <2>1. i \in Nat /\ i < CeilDiv(Len(w)) /\ IsPart(f[i], w, i)
    BY <1>2
  <2> DEFINE lo == Before(i)
             hi == Through(w, i)
             up == Before(i + 1)
  <2>2. /\ lo \in Nat /\ hi \in Nat /\ up \in Nat /\ lo < hi
        /\ hi = IF up <= Len(w) THEN up ELSE Len(w)
    BY <2>1, Bounds
  <2>3. f[i] \in Seq(Nat) /\ Len(f[i]) = hi - lo
    BY <2>1 DEF IsPart
  <2> HIDE DEF lo, hi, up
  <2>4. m \in 1 .. hi - lo
    BY <2>3
  <2>5. m \in Nat /\ 1 <= m /\ lo + m <= hi
    BY <2>2, <2>4
  <2>6. lo + m <= up /\ lo + m <= Len(w)
    BY <1>1, <2>2, <2>5
  <2> QED BY <2>2, <2>5, <2>6 DEF lo, up
<1>5. \A p \in S : v[p] \in T
  <2>1. ASSUME NEW p \in S PROVE Before(p[1]) + p[2] \in T
    <3>1. p[1] \in DOMAIN f /\ p[2] \in DOMAIN f[p[1]]
      BY <1>3
    <3> DEFINE lo == Before(p[1])
               m == p[2]
    <3>2. m \in Nat /\ 1 <= m /\ lo \in Nat /\ lo + m <= Len(w)
      BY <1>4, <3>1
    <3> HIDE DEF lo, m
    <3>3. lo + m \in T
      BY <1>1, <3>2
    <3> QED BY <3>3 DEF lo, m
  <2> QED BY <2>1
<1>6. ASSUME NEW p \in S, NEW q \in S, v[p] = v[q] PROVE p = q
  <2>1. /\ p[1] \in DOMAIN f /\ p[2] \in DOMAIN f[p[1]] /\ p = <<p[1], p[2]>>
        /\ q[1] \in DOMAIN f /\ q[2] \in DOMAIN f[q[1]] /\ q = <<q[1], q[2]>>
        /\ Before(p[1]) + p[2] = Before(q[1]) + q[2]
    BY <1>3, <1>6
  <2>2. ASSUME NEW i \in DOMAIN f, NEW j \in DOMAIN f, NEW k \in DOMAIN f[i],
               NEW l \in DOMAIN f[j], Before(i) + k = Before(j) + l
        PROVE  ~(i < j)
    <3> SUFFICES ASSUME i < j PROVE FALSE
      OBVIOUS
    <3>1. i \in Nat /\ j \in Nat
      BY <1>2
    <3>2. i + 1 \in Nat /\ i + 1 <= j
      BY <3>1
    <3>3. Before(i + 1) <= Before(j)
      BY <3>1, <3>2, Multiples DEF Before
    <3>4. /\ Before(i + 1) \in Nat /\ Before(i) \in Nat /\ k \in Nat
          /\ Before(i) + k <= Before(i + 1)
      BY <1>4
    <3>5. Before(j) \in Nat /\ l \in Nat /\ 1 <= l
      BY <1>4
    <3> QED BY <2>2, <3>3, <3>4, <3>5
  <2>3. p[1] \in Nat /\ q[1] \in Nat /\ ~(p[1] < q[1]) /\ ~(q[1] < p[1])
    BY <1>2, <2>1, <2>2
  <2>4. p[1] = q[1]
    BY <2>3
  <2>5. p[2] \in Nat /\ q[2] \in Nat /\ Before(p[1]) \in Nat
    BY <1>4, <2>1
  <2>6. p[2] = q[2]
    BY <2>1, <2>4, <2>5
  <2> QED BY <2>1, <2>4, <2>6
<1>7. v \in Injection(S, T)
  <2>1. v \in [S -> T]
    BY <1>5
  <2> QED BY <1>6, <2>1 DEF Injection, IsInjective
<1>8. IsFiniteSet(T) /\ Cardinality(T) = Len(w)
  <2> DEFINE n == Len(w)
  <2>1. n \in Nat
    BY <1>1
  <2> HIDE DEF n
  <2>2. 1 \in Int /\ n \in Int
    BY <2>1
  <2>3. IsFiniteSet(1 .. n) /\ Cardinality(1 .. n) = IF 1 > n THEN 0 ELSE n - 1 + 1
    BY <2>2, FS_Interval
  <2>4. IsFiniteSet(1 .. n) /\ Cardinality(1 .. n) = n
    BY <2>1, <2>3
  <2> QED BY <2>4 DEF n
<1>9. IsFiniteSet(S) /\ Cardinality(S) <= Len(w)
  <2> HIDE DEF v, T
  <2> QED BY <1>7, <1>8, FS_Injection
<1>10. Cardinality(S) \in Nat
  BY <1>9, FS_CardinalityType
<1> QED BY <1>9, <1>10 DEF S, f

LEMMA InsertedBytes ==
  ASSUME NEW old, NEW new, NEW s \in Streams
  PROVE  /\ DOMAIN new[s] = {} => BytesAt(Insert(old, new)[s]) = BytesAt(old[s])
         /\ DOMAIN old[s] = {} => BytesAt(Insert(old, new)[s]) = BytesAt(new[s])
<1> DEFINE all == Insert(old, new)[s]
<1>1. /\ DOMAIN all = DOMAIN old[s] \cup DOMAIN new[s]
      /\ \A i \in DOMAIN old[s] : all[i] = old[s][i]
      /\ \A i \in DOMAIN new[s] \ DOMAIN old[s] : all[i] = new[s][i]
  BY Insertion
<1> HIDE DEF all
<1>2. ASSUME DOMAIN new[s] = {} PROVE BytesAt(all) = BytesAt(old[s])
  <2>1. DOMAIN all = DOMAIN old[s] /\ \A i \in DOMAIN old[s] : all[i] = old[s][i]
    BY <1>1, <1>2
  <2> QED BY <2>1 DEF BytesAt
<1>3. ASSUME DOMAIN old[s] = {} PROVE BytesAt(all) = BytesAt(new[s])
  <2>1. DOMAIN all = DOMAIN new[s] /\ \A i \in DOMAIN new[s] : all[i] = new[s][i]
    BY <1>1, <1>3
  <2> QED BY <2>1 DEF BytesAt
<1> QED BY <1>2, <1>3 DEF all

\* What the record of the end adds where nothing was stored.
LEMMA RecordedBytes ==
  ASSUME Counts, HelperRecords \/ DatabaseRecords, NEW s \in Streams, DOMAIN stored[s] = {}
  PROVE  /\ StoredBytes(s)' \in Nat
         /\ written[s] = 0 => StoredBytes(s)' = 0
         /\ HelperRecords => StoredBytes(s)' <= Share(s)
<1>1. /\ Rising(Shown(s)) /\ (written[s] = 0 => Len(Shown(s)) = 0)
      /\ Share(s) \in Nat /\ Share(s) <= Len(Shown(s))
  BY ShownBytes
<1>2. StoredBytes(s)' = Cardinality(BytesAt(stored'[s]))
  BY DEF StoredBytes, StoredAt, BytesAt
<1>3. CASE HelperRecords
  <2> DEFINE w == SubSeq(Shown(s), 1, Share(s))
             new == [t \in Streams |-> Chop(SubSeq(Shown(t), 1, Share(t)), 0)]
  <2>1. stored' = Insert(stored, new) /\ new[s] = Chop(w, 0)
    BY <1>3 DEF HelperRecords
  <2>2. w \in Seq(Nat) /\ Len(w) = Share(s)
    BY <1>1, PrefixRises DEF Rising
  <2> HIDE DEF w, new
  <2>3. BytesAt(stored'[s]) = BytesAt(Chop(w, 0))
    BY <2>1, InsertedBytes
  <2>4. StoredBytes(s)' \in Nat /\ StoredBytes(s)' <= Share(s)
    BY <1>2, <2>2, <2>3, ChoppedBytes
  <2>5. written[s] = 0 => Share(s) = 0
    BY <1>1
  <2> QED BY <1>1, <2>4, <2>5
<1>4. CASE DatabaseRecords
  <2> DEFINE w == Shown(s)
             new == [t \in Streams |-> Chop(Shown(t), 0)]
  <2>1. stored' = Insert(stored, new) /\ new[s] = Chop(w, 0)
    BY <1>4 DEF DatabaseRecords
  <2>2. w \in Seq(Nat) /\ Len(w) \in Nat
    BY <1>1 DEF Rising
  <2> HIDE DEF w, new
  <2>3. BytesAt(stored'[s]) = BytesAt(Chop(w, 0))
    BY <2>1, InsertedBytes
  <2>4. StoredBytes(s)' \in Nat /\ StoredBytes(s)' <= Len(w)
    BY <1>2, <2>2, <2>3, ChoppedBytes
  <2>5. written[s] = 0 => StoredBytes(s)' = 0
    BY <1>1, <2>2, <2>4 DEF w
  <2>6. CASE HelperRecords
    BY <1>3, <2>6
  <2> QED BY <2>4, <2>5, <2>6, <1>3
<1> QED BY <1>3, <1>4


RecordsInv == ChunksInv /\ Covered /\ CapturesAll /\ RecordInv

\* The record of a result, by what became of the output before.
LEMMA RecordOfTheResult ==
  ASSUME RecordsInv, End, Records, outcome = "result"
  PROVE  /\ storage' = "complete" /\ unstreamed = {} =>
              late = {} /\ \A s \in capture : StoredBytes(s)' = written[s]
         /\ ~failed /\ Both(captured) = 0 /\ store = "helper" =>
              late = {} /\ StoredBytes("stdout")' + StoredBytes("stderr")' <= MaxOutput
<1>1. /\ BufferInv /\ Counts /\ ChunkInv /\ BatchInv /\ Covered /\ CapturesAll
      /\ captured \in [Streams -> Nat] /\ numbered \in [Streams -> Nat]
      /\ \A s \in Streams : numbered[s] <= captured[s]
      /\ capture \subseteq Streams
  BY DEF RecordsInv, ChunksInv, BufferInv, Counts
<1>2. at = "ending" /\ status = "started"
  BY DEF End, Cancels, Records
<1>3. closed /\ timer = "none" /\ lock # "timer" /\ numbered = captured
  BY <1>1, <1>2 DEF BufferInv, Places, Emptied, Ended
<1>4. \A s \in Streams : DOMAIN batch[s] = {}
  BY <1>1, <1>2, <1>3 DEF BatchInv
<1>5. Cut /\ Arranged
  BY <1>1, <1>2 DEF ChunkInv, WriterOnly
<1>6. HelperRecords \/ DatabaseRecords
  BY DEF Records
<1>7. ~failed => late = {}
  BY <1>1, <1>3 DEF Covered, Sound
<1>8. storage' = "complete" => ~failed /\ ~truncated
  BY <1>6 DEF HelperRecords, DatabaseRecords, StorageState
<1>9. ~failed /\ ~truncated /\ unstreamed = {} => \A s \in capture : captured[s] = written[s]
  BY <1>1, <1>2 DEF CapturesAll
<1>10. ASSUME ~failed, Both(captured) # 0
       PROVE  \A s \in Streams : StoredBytes(s)' = captured[s]
  <2>1. ASSUME NEW s \in Streams PROVE StoredBytes(s)' = captured[s]
    <3>1. Both(captured) > 0
      BY <1>1, <1>10 DEF Both, Streams
    <3>2. \A x \in 1 .. numbered[s] : InSource(stored, s, x)
      <4>1. \A x : ~InSource(batch, s, x)
        BY <1>4 DEF InSource
      <4> QED BY <1>1, <1>3, <1>10, <3>1, <4>1 DEF Covered, Sound
    <3>3. StoredBytes(s) = numbered[s]
      BY <1>1, <1>5, <3>2, StoredByTheWriter
    <3>4. ~UseTerminalFallback
      BY <1>10 DEF UseTerminalFallback
    <3>5. BytesAt(stored'[s]) = BytesAt(stored[s])
      <4>1. CASE stored' = stored
        BY <4>1
      <4>2. ASSUME NEW new, stored' = Insert(stored, new), \A t \in Streams : DOMAIN new[t] = {}
            PROVE  BytesAt(stored'[s]) = BytesAt(stored[s])
        BY <4>2, InsertedBytes
      <4> QED BY <3>4, <4>1, <4>2, NothingToRecord
    <3>6. StoredBytes(s)' = StoredBytes(s)
      BY <3>5 DEF StoredBytes, StoredAt, BytesAt
    <3> QED BY <1>3, <3>3, <3>6
  <2> QED BY <2>1
<1>11. ASSUME Both(captured) = 0
       PROVE  \A s \in Streams : captured[s] = 0 /\ DOMAIN stored[s] = {}
  <2>1. \A s \in Streams : captured[s] = 0 /\ numbered[s] = 0
    BY <1>1, <1>3, <1>11 DEF Both, Streams
  <2>2. ASSUME NEW s \in Streams, NEW i \in DOMAIN stored[s] PROVE FALSE
    <3>1. Run(stored[s][i]) /\ Last(stored[s][i]) <= 0
      BY <1>5, <2>1 DEF Cut, Sources
    <3> QED BY <3>1, RunBounds
  <2> QED BY <2>1, <2>2
<1>12. ASSUME storage' = "complete", unstreamed = {}
       PROVE  late = {} /\ \A s \in capture : StoredBytes(s)' = written[s]
  <2>1. CASE Both(captured) # 0
    BY <1>1, <1>7, <1>8, <1>9, <1>10, <1>12, <2>1
  <2>2. CASE Both(captured) = 0
    <3>1. \A s \in capture : written[s] = 0 /\ DOMAIN stored[s] = {} /\ s \in Streams
      BY <1>1, <1>8, <1>9, <1>11, <1>12, <2>2
    <3> QED BY <1>1, <1>6, <1>7, <1>8, <1>12, <3>1, RecordedBytes
  <2> QED BY <2>1, <2>2
<1>13. ASSUME ~failed, Both(captured) = 0, store = "helper"
       PROVE  late = {} /\ StoredBytes("stdout")' + StoredBytes("stderr")' <= MaxOutput
  <2>1. HelperRecords
    BY <1>13 DEF Records
  <2>2. \A s \in Streams : StoredBytes(s)' \in Nat /\ StoredBytes(s)' <= Share(s)
    BY <1>1, <1>11, <1>13, <2>1, RecordedBytes
  <2> DEFINE a == StoredBytes("stdout")'
             b == StoredBytes("stderr")'
             c == Share("stdout")
             d == Share("stderr")
  <2>3. a \in Nat /\ b \in Nat /\ a <= c /\ b <= d
    BY <2>2 DEF Streams
  <2>4. c \in Nat /\ d \in Nat /\ c + d <= MaxOutput
    BY <1>1, ShownBytes DEF Streams
  <2> HIDE DEF a, b, c, d
  <2>5. MaxOutput \in Nat
    BY SizesAssumption
  <2>6. a + b <= MaxOutput
    BY <2>3, <2>4, <2>5
  <2> QED BY <1>7, <1>13, <2>6 DEF a, b
<1> QED BY <1>12, <1>13

LEMMA RecordStep ==
  ASSUME RecordsInv, [Next]_vars
  PROVE  RecordInv'
<1>1. BufferInv
  BY DEF RecordsInv, ChunksInv
<1>2. CASE status' # "result"
  BY <1>2 DEF RecordInv
<1>3. CASE status = "result"
  <2>1. RecordInv
    BY DEF RecordsInv
  <2>2. CASE UNCHANGED vars
    BY <2>1, <2>2 DEF RecordInv, vars, StoredBytes, StoredAt, Both, history, flags, command, config,
                      buffer
  <2>3. CASE BatchLands
    <3>1. late # {}
      BY <2>3 DEF BatchLands
    <3> QED BY <1>3, <2>1, <2>3, <3>1
            DEF RecordInv, BatchLands, Both, history, flags, command, config, buffer
  <2> QED BY <1>1, <1>3, <2>2, <2>3, AfterTheRecord
<1>4. CASE status # "result" /\ status' = "result"
  <2>1. End /\ Records /\ outcome = "result"
    <3>1. End
      BY <1>1, <1>4, ChunkSteps
    <3> QED BY <1>4, <3>1 DEF End, Cancels, Records, history
  <2>2. UNCHANGED <<unstreamed, capture, written, failed, captured, store, late>>
    BY <2>1 DEF End, Cancels, config, flags, buffer
  <2>3. /\ storage' = "complete" /\ unstreamed = {} =>
             late = {} /\ \A s \in capture : StoredBytes(s)' = written[s]
        /\ ~failed /\ Both(captured) = 0 /\ store = "helper" =>
             late = {} /\ StoredBytes("stdout")' + StoredBytes("stderr")' <= MaxOutput
    BY <2>1, RecordOfTheResult
  <2>4. Both(captured)' = Both(captured)
    BY <2>2 DEF Both
  <2> QED BY <2>2, <2>3, <2>4 DEF RecordInv
<1> QED BY <1>2, <1>3, <1>4

LEMMA RecordsInvariance ==
  Spec => []RecordsInv
<1>1. ASSUME Init PROVE RecordsInv
  <2>1. ChunksInv
    BY <1>1, InitialChunks
  <2>2. \A s \in Streams : written[s] = 0 /\ captured[s] = 0 /\ numbered[s] = 0
    BY <1>1 DEF Init
  <2>3. Counts
    BY <2>1 DEF ChunksInv, BufferInv
  <2>4. Covered
    BY <1>1, <2>2 DEF Covered, Init
  <2>5. CapturesAll
    BY <1>1, <2>2, <2>3 DEF CapturesAll, Init, Counts
  <2>6. RecordInv
    BY <1>1 DEF RecordInv, Init
  <2> QED BY <2>1, <2>4, <2>5, <2>6 DEF RecordsInv
<1>2. ASSUME RecordsInv, [Next]_vars PROVE RecordsInv'
  <2>1. ChunksInv /\ BufferInv /\ Covered /\ CapturesAll
    BY <1>2 DEF RecordsInv, ChunksInv
  <2> QED BY <1>2, <2>1, ChunksInvStep, CoveredStep, CapturesStep, RecordStep DEF RecordsInv
<1> QED BY <1>1, <1>2, PTL DEF Spec

\* What the history calls complete is: an append that was given up, whoever waited for it
\* and however the wait ended, keeps the record of the result from saying so.
THEOREM CompleteIsComplete ==
  Spec => []CompleteMeansAll
<1>1. RecordsInv => CompleteMeansAll
  BY DEF RecordsInv, RecordInv, CompleteMeansAll
<1> QED BY <1>1, RecordsInvariance, PTL

\* The limit of an operation's output holds for the chunks of the writer and the bounded
\* output of the record together, as long as no append fails.
THEOREM TheLimitHolds ==
  Spec => []LimitHolds
<1>1. ASSUME RecordsInv, store = "helper", ~failed
      PROVE  StoredBytes("stdout") + StoredBytes("stderr") <= MaxOutput
  <2>1. /\ Counts /\ ChunkInv /\ MaxOutput \in Nat
        /\ captured \in [Streams -> Nat] /\ numbered \in [Streams -> Nat]
        /\ \A s \in Streams : numbered[s] <= captured[s]
        /\ Both(captured) <= MaxOutput
    BY <1>1, SizesAssumption DEF RecordsInv, ChunksInv, BufferInv, Counts
  <2>2. CASE WriterOnly
    <3>1. \A s \in Streams : StoredBytes(s) \in Nat /\ StoredBytes(s) <= numbered[s]
      BY <2>1, <2>2, StoredByTheWriter DEF ChunkInv
    <3> DEFINE a == StoredBytes("stdout")
               b == StoredBytes("stderr")
    <3>2. a \in Nat /\ b \in Nat /\ a <= numbered["stdout"] /\ b <= numbered["stderr"]
      BY <3>1 DEF Streams
    <3> HIDE DEF a, b
    <3>3. a + b <= MaxOutput
      BY <2>1, <3>2 DEF Both, Streams
    <3> QED BY <3>3 DEF a, b
  <2>3. CASE ~WriterOnly
    <3>1. status = "result" /\ Both(captured) = 0
      BY <1>1, <2>1, <2>3 DEF WriterOnly, Both, Streams
    <3> QED BY <1>1, <3>1 DEF RecordsInv, RecordInv
  <2> QED BY <2>2, <2>3
<1>2. RecordsInv => LimitHolds
  BY <1>1 DEF LimitHolds
<1> QED BY <1>2, RecordsInvariance, PTL


-----------------------------------------------------------------------------
(* The order of the chunks.                                                *)

\* What happens to the chunks until the result is recorded.
LEMMA OpenSteps ==
  ASSUME BufferInv, [Next]_vars, Open'
  PROVE  /\ Open
         /\ \/ UNCHANGED <<late, batch, stored, indexes, failed>>
            \/ /\ WriteFlushes \/ Close \/ TimerFlushes
               /\ TakeChunks(captured') /\ UNCHANGED <<late, stored, failed>>
               /\ failed => Close /\ captured' = captured
            \/ /\ ~failed /\ stored' = Insert(stored, batch) /\ batch' = NoChunks
               /\ UNCHANGED <<late, indexes, failed>>
            \/ /\ ~failed /\ failed' /\ late' \subseteq late \cup {batch}
               /\ UNCHANGED <<stored, indexes>>
            \/ /\ \E b \in late : late' = late \ {b} /\ stored' = Insert(stored, b)
               /\ UNCHANGED <<batch, indexes, failed>>
<1>0. failed => Buffered(captured) = 0
  BY NothingBuffered DEF BufferInv, Emptied, Counts, Buffered
<1> USE DEF BufferInv, Places, Open, history, flags, command, config, buffer
<1>1. ASSUME NEW s \in Streams, Emit(s)
      PROVE Open /\ UNCHANGED <<late, batch, stored, indexes, failed>>
  BY <1>1 DEF Emit
<1>2. CASE Finish \/ Break
  BY <1>2 DEF Finish, Break
<1>3. CASE WriteNothing \/ WriteBuffers
  BY <1>3 DEF WriteNothing, WriteBuffers, EnsureTimer
<1>4. CASE WriteFlushes
  BY <1>4 DEF WriteFlushes, EnsureTimer
<1>5. CASE Close
  BY <1>5 DEF Close
<1>6. CASE TimerFlushes
  BY <1>0, <1>6 DEF TimerFlushes
<1>7. CASE BatchStored
  BY <1>7 DEF BatchStored, Continues
<1>8. CASE BatchFails
  BY <1>8 DEF BatchFails, Continues, GiveUp
<1>9. CASE BatchRaises
  BY <1>9 DEF BatchRaises
<1>10. CASE BatchLands
  BY <1>10 DEF BatchLands
<1>11. CASE CancelCommand
  BY <1>11 DEF CancelCommand, Cancels
<1>12. CASE Join
  BY <1>12 DEF Join
<1>13. CASE End
  BY <1>13 DEF End, Cancels, Ended, Records
<1>14. CASE UNCHANGED vars
  BY <1>14 DEF vars
<1> QED BY <1>1, <1>2, <1>3, <1>4, <1>5, <1>6, <1>7, <1>8, <1>9, <1>10, <1>11, <1>12, <1>13,
           <1>14 DEF Next

LEMMA PrefixStep ==
  ASSUME RecordsInv, PrefixInv, [Next]_vars
  PROVE  PrefixInv'
<1> SUFFICES ASSUME Open'
             PROVE  /\ \A b, c \in late' : b = c
                    /\ \A s \in Streams : \E k \in Nat : Prefix(s, k)'
  BY DEF PrefixInv
<1>1. /\ BufferInv /\ Counts' /\ ChunkInv /\ BatchInv /\ Covered
      /\ indexes \in [Streams -> Nat] /\ indexes' \in [Streams -> Nat]
  BY ChunksInvStep DEF RecordsInv, ChunksInv, BufferInv, Counts
<1>2. /\ Open /\ \A b, c \in late : b = c
      /\ \A s \in Streams : \E k \in Nat : Prefix(s, k)
  BY <1>1, OpenSteps DEF PrefixInv
<1>3. ~failed => late = {}
  BY <1>1, <1>2 DEF Covered, Sound, Open
<1>4. CASE UNCHANGED <<late, batch, stored, indexes, failed>>
  BY <1>2, <1>4 DEF Prefix
<1>5. CASE /\ WriteFlushes \/ Close \/ TimerFlushes
           /\ TakeChunks(captured') /\ UNCHANGED <<late, stored, failed>>
           /\ failed => Close /\ captured' = captured
  <2>1. ASSUME NEW s \in Streams PROVE \E k \in Nat : Prefix(s, k)'
    <3>1. PICK k \in Nat : Prefix(s, k)
      BY <1>2
    <3>2. /\ DOMAIN batch'[s] = {i \in Nat : indexes[s] <= i /\ i < indexes'[s]}
          /\ indexes[s] <= indexes'[s]
          /\ indexes'[s] = indexes[s] + CeilDiv(captured'[s] - numbered[s])
      BY <1>1, <1>5, FlushedChunks
    <3>3. k <= indexes'[s]
      BY <1>1, <3>1, <3>2 DEF Prefix
    <3>4. CASE failed
      <4>1. captured'[s] - numbered[s] = 0
        BY <1>1, <1>5, <3>4 DEF BufferInv, Emptied, Counts
      <4>2. indexes'[s] = indexes[s]
        BY <1>1, <3>2, <4>1, Ceilings
      <4> QED BY <1>5, <3>1, <3>3, <3>4, <4>2 DEF Prefix
    <3>5. CASE ~failed
      <4>1. DOMAIN batch[s] = {}
        BY <1>1, <1>5, FlushSteps
      <4>2. {i \in Nat : k <= i /\ i < indexes[s]} = {}
        BY <3>1, <3>5, <4>1 DEF Prefix
      <4>3. k = indexes[s]
        BY <1>1, <3>1, <4>2 DEF Prefix
      <4> QED BY <1>3, <1>5, <3>1, <3>2, <3>3, <3>5, <4>3 DEF Prefix
    <3> QED BY <3>4, <3>5
  <2> QED BY <1>2, <1>5, <2>1
<1>6. ASSUME NEW b, stored' = Insert(stored, b), UNCHANGED indexes, late' = {},
             ~failed' => batch' = NoChunks,
             \A s \in Streams : \A k \in Nat :
               Prefix(s, k) => DOMAIN b[s] = {i \in Nat : k <= i /\ i < indexes[s]}
      PROVE  \A s \in Streams : \E k \in Nat : Prefix(s, k)'
  <2>1. ASSUME NEW s \in Streams PROVE Prefix(s, indexes[s])'
    <3>1. PICK k \in Nat : Prefix(s, k)
      BY <1>2
    <3>2. DOMAIN stored'[s] = {i \in Nat : i < k} \cup {i \in Nat : k <= i /\ i < indexes[s]}
      BY <1>6, <3>1, Insertion DEF Prefix
    <3>3. k <= indexes[s] /\ indexes[s] \in Nat
      BY <1>1, <3>1 DEF Prefix
    <3>4. {i \in Nat : i < k} \cup {i \in Nat : k <= i /\ i < indexes[s]}
            = {i \in Nat : i < indexes[s]}
      BY <3>3
    <3>5. {i \in Nat : indexes[s] <= i /\ i < indexes[s]} = {}
      BY <3>3
    <3>6. ~failed' => DOMAIN batch'[s] = {}
      BY <1>6, NothingToInsert
    <3> QED BY <1>6, <3>2, <3>3, <3>4, <3>5, <3>6 DEF Prefix
  <2>2. \A s \in Streams : indexes'[s] \in Nat /\ indexes[s] \in Nat
    BY <1>1
  <2> QED BY <1>6, <2>1, <2>2
<1>7. CASE /\ ~failed /\ stored' = Insert(stored, batch) /\ batch' = NoChunks
           /\ UNCHANGED <<late, indexes, failed>>
  <2>1. late' = {}
    BY <1>3, <1>7
  <2>2. \A s \in Streams : \A k \in Nat :
          Prefix(s, k) => DOMAIN batch[s] = {i \in Nat : k <= i /\ i < indexes[s]}
    BY <1>7 DEF Prefix
  <2> QED BY <1>6, <1>7, <2>1, <2>2
<1>8. CASE /\ ~failed /\ failed' /\ late' \subseteq late \cup {batch}
           /\ UNCHANGED <<stored, indexes>>
  <2>1. late' \subseteq {batch}
    BY <1>3, <1>8
  <2>2. ASSUME NEW s \in Streams PROVE \E k \in Nat : Prefix(s, k)'
    <3>1. PICK k \in Nat : Prefix(s, k)
      BY <1>2
    <3> QED BY <1>8, <2>1, <3>1 DEF Prefix
  <2> QED BY <2>1, <2>2
<1>9. ASSUME NEW b \in late, late' = late \ {b}, stored' = Insert(stored, b),
             UNCHANGED <<batch, indexes, failed>>
      PROVE  /\ \A d, c \in late' : d = c
             /\ \A s \in Streams : \E k \in Nat : Prefix(s, k)'
  <2>1. late' = {} /\ failed'
    BY <1>2, <1>3, <1>9
  <2>2. \A s \in Streams : \A k \in Nat :
          Prefix(s, k) => DOMAIN b[s] = {i \in Nat : k <= i /\ i < indexes[s]}
    BY <1>9 DEF Prefix
  <2> QED BY <1>6, <1>9, <2>1, <2>2
<1> QED BY <1>1, <1>4, <1>5, <1>7, <1>8, <1>9, OpenSteps


\* The chunks that rising bytes are cut into are in order, and none starts before its place.
LEMMA ChoppedInOrder ==
  ASSUME NEW w, Rising(w)
  PROVE  /\ \A i \in DOMAIN Chop(w, 0) :
              i \in Nat /\ Before(i) \in Nat /\ Before(i) < Chop(w, 0)[i][1]
              /\ Chop(w, 0)[i][1] \in Nat
         /\ \A i, j \in DOMAIN Chop(w, 0) :
              i < j => Last(Chop(w, 0)[i]) < Chop(w, 0)[j][1]
<1> DEFINE f == Chop(w, 0)
<1>1. w \in Seq(Nat) /\ Len(w) \in Nat /\ DOMAIN w = 1 .. Len(w) /\ CeilDiv(Len(w)) \in Nat
  BY Ceilings DEF Rising
<1>2. ASSUME NEW i \in DOMAIN f
      PROVE  i \in Nat /\ i < CeilDiv(Len(w)) /\ IsPart(f[i], w, i)
  <2>1. 0 \in Nat /\ \A j \in Nat : j - 0 = j
    OBVIOUS
  <2>2. i \in Nat /\ i - 0 \in Nat /\ i - 0 < CeilDiv(Len(w)) /\ IsPart(f[i], w, i - 0)
    BY <1>1, <2>1, ChopParts
  <2> QED BY <2>1, <2>2
<1> HIDE DEF f
<1>3. ASSUME NEW i \in DOMAIN f
      PROVE  /\ Before(i) \in Nat /\ Before(i) + 1 \in DOMAIN w /\ f[i][1] = w[Before(i) + 1]
             /\ Through(w, i) \in DOMAIN w /\ Last(f[i]) = w[Through(w, i)]
             /\ Through(w, i) <= Before(i + 1) /\ Before(i + 1) \in Nat
  <2> DEFINE c == f[i]
             lo == Before(i)
             hi == Through(w, i)
             up == Before(i + 1)
  <2>1. i \in Nat /\ i < CeilDiv(Len(w)) /\ IsPart(c, w, i)
    BY <1>2
  <2>2. /\ lo \in Nat /\ hi \in Nat /\ up \in Nat /\ lo < hi
        /\ hi = IF up <= Len(w) THEN up ELSE Len(w)
    BY <1>1, <2>1, Bounds
  <2>3. Len(c) = hi - lo /\ \A n \in 1 .. Len(c) : c[n] = w[lo + n]
    BY <2>1 DEF IsPart
  <2> HIDE DEF c, lo, hi, up
  <2>4. 1 \in 1 .. Len(c) /\ Len(c) \in 1 .. Len(c) /\ lo + Len(c) = hi
    BY <2>2, <2>3
  <2>5. c[1] = w[lo + 1] /\ c[Len(c)] = w[hi]
    BY <2>3, <2>4
  <2>6. lo + 1 \in DOMAIN w /\ hi \in DOMAIN w /\ hi <= up
    <3> DEFINE l == Len(w)
    <3>1. l \in Nat /\ hi = IF up <= l THEN up ELSE l
      BY <1>1, <2>2
    <3> HIDE DEF l
    <3>2. lo + 1 \in 1 .. l /\ hi \in 1 .. l /\ hi <= up
      BY <2>2, <3>1
    <3> QED BY <1>1, <3>2 DEF l
  <2> QED BY <2>2, <2>5, <2>6 DEF c, lo, hi, up, Last
<1>4. \A n \in DOMAIN w : w[n] \in Nat /\ n <= w[n]
  BY <1>1 DEF Rising
<1>5. ASSUME NEW i \in DOMAIN f
      PROVE  i \in Nat /\ Before(i) \in Nat /\ Before(i) < f[i][1] /\ f[i][1] \in Nat
  BY <1>2, <1>3, <1>4
<1>6. ASSUME NEW i \in DOMAIN f, NEW j \in DOMAIN f, i < j
      PROVE  Last(f[i]) < f[j][1]
  <2>1. i \in Nat /\ j \in Nat /\ i + 1 \in Nat /\ i + 1 <= j
    BY <1>2, <1>6
  <2>2. Before(i + 1) <= Before(j)
    BY <2>1, Multiples DEF Before
  <2> DEFINE m == Through(w, i)
             n == Before(j) + 1
  <2>3. m \in DOMAIN w /\ n \in DOMAIN w /\ Last(f[i]) = w[m] /\ f[j][1] = w[n]
    BY <1>3
  <2>4. m < n
    <3>1. m \in Nat /\ m <= Before(i + 1) /\ Before(i + 1) \in Nat /\ Before(j) \in Nat
      BY <1>1, <1>3
    <3> QED BY <2>2, <3>1
  <2> HIDE DEF m, n
  <2> QED BY <2>3, <2>4 DEF Rising
<1> QED BY <1>5, <1>6 DEF f

\* The bounded output of a failed writer comes after the chunks that were stored: their
\* indexes are the first ones, and no chunk holds bytes from beyond its index.
LEMMA RecordedInOrder ==
  ASSUME RecordsInv, PrefixInv, End, Records, outcome = "result"
  PROVE  InOrder'
<1>1. BufferInv /\ Counts /\ ChunkInv
  BY DEF RecordsInv, ChunksInv, BufferInv
<1>2. status = "started" /\ timer = "none"
  BY <1>1 DEF End, Cancels, Records, BufferInv, Ended
<1>3. Cut /\ Arranged
  BY <1>1, <1>2 DEF ChunkInv, WriterOnly
<1>4. \A s \in Streams : \E k \in Nat : DOMAIN stored[s] = {i \in Nat : i < k}
  BY <1>2 DEF PrefixInv, Open, Prefix
<1>5. \E new : /\ stored' = Insert(stored, new)
               /\ \A s \in Streams : \E w : Rising(w) /\ new[s] = Chop(w, 0)
  <2>1. ASSUME NEW s \in Streams
        PROVE  Rising(SubSeq(Shown(s), 1, Share(s))) /\ Rising(Shown(s))
    BY <1>1, ShownBytes, PrefixRises
  <2>2. CASE HelperRecords
    <3> DEFINE new == [s \in Streams |-> Chop(SubSeq(Shown(s), 1, Share(s)), 0)]
    <3>1. stored' = Insert(stored, new)
      BY <2>2 DEF HelperRecords
    <3>2. \A s \in Streams : \E w : Rising(w) /\ new[s] = Chop(w, 0)
      BY <2>1
    <3> HIDE DEF new
    <3> QED BY <3>1, <3>2
  <2>3. CASE DatabaseRecords
    <3> DEFINE new == [s \in Streams |-> Chop(Shown(s), 0)]
    <3>1. stored' = Insert(stored, new)
      BY <2>3 DEF DatabaseRecords
    <3>2. \A s \in Streams : \E w : Rising(w) /\ new[s] = Chop(w, 0)
      BY <2>1
    <3> HIDE DEF new
    <3> QED BY <3>1, <3>2
  <2> QED BY <2>2, <2>3 DEF Records
<1>6. PICK new : /\ stored' = Insert(stored, new)
                 /\ \A s \in Streams : \E w : Rising(w) /\ new[s] = Chop(w, 0)
  BY <1>5
<1>7. ASSUME NEW s \in Streams, NEW i \in DOMAIN stored'[s], NEW j \in DOMAIN stored'[s], i < j
      PROVE  Last(stored'[s][i]) < stored'[s][j][1]
  <2>1. PICK k \in Nat : DOMAIN stored[s] = {n \in Nat : n < k}
    BY <1>4
  <2>2. PICK w : Rising(w) /\ new[s] = Chop(w, 0)
    BY <1>6
  <2>3. /\ \A n \in DOMAIN new[s] : /\ n \in Nat /\ Before(n) \in Nat
                                    /\ Before(n) < new[s][n][1] /\ new[s][n][1] \in Nat
        /\ \A m, n \in DOMAIN new[s] : m < n => Last(new[s][m]) < new[s][n][1]
    BY <2>2, ChoppedInOrder
  <2>4. \A n \in DOMAIN stored'[s] :
          \/ n \in DOMAIN stored[s] /\ stored'[s][n] = stored[s][n]
          \/ n \notin DOMAIN stored[s] /\ n \in DOMAIN new[s] /\ stored'[s][n] = new[s][n]
    BY <1>6, Insertion
  <2>5. i \in Nat /\ j \in Nat
    BY <2>1, <2>3, <2>4
  <2>6. CASE i \in DOMAIN stored[s] /\ j \in DOMAIN stored[s]
    BY <1>3, <1>7, <2>4, <2>6 DEF Arranged, Sources
  <2>7. CASE i \in DOMAIN stored[s] /\ j \notin DOMAIN stored[s]
    <3>1. /\ Run(stored[s][i]) /\ Last(stored[s][i]) <= Before(i + 1)
          /\ stored'[s][i] = stored[s][i]
      BY <1>3, <2>4, <2>7 DEF Cut, Sources, Before
    <3>2. /\ Before(j) \in Nat /\ Before(j) < new[s][j][1] /\ new[s][j][1] \in Nat
          /\ stored'[s][j] = new[s][j]
      BY <2>3, <2>4, <2>7
    <3>3. Last(stored[s][i]) \in Nat
      BY <3>1, RunBounds
    <3>4. Before(i + 1) <= Before(j) /\ Before(i + 1) \in Nat
      <4>1. i + 1 \in Nat /\ i + 1 <= j
        BY <1>7, <2>5
      <4> QED BY <2>5, <4>1, Multiples DEF Before
    <3> QED BY <3>1, <3>2, <3>3, <3>4
  <2>8. CASE i \notin DOMAIN stored[s] /\ j \in DOMAIN stored[s]
    BY <1>7, <2>1, <2>5, <2>8
  <2>9. CASE i \notin DOMAIN stored[s] /\ j \notin DOMAIN stored[s]
    BY <1>7, <2>3, <2>4, <2>9
  <2> QED BY <2>6, <2>7, <2>8, <2>9
<1> QED BY <1>7 DEF InOrder, Last

\* The chunks of a stream are in order and repeat nothing, unless an append that was given
\* up takes effect once the end is recorded.
THEOREM TheOutputIsInOrder ==
  Spec => OnlyLateOutputDisorders
<1> DEFINE Inv == RecordsInv /\ PrefixInv
<1>1. ASSUME Init PROVE PrefixInv
  <2>1. /\ \A s \in Streams : indexes[s] = 0 /\ DOMAIN stored[s] = {} /\ DOMAIN batch[s] = {}
        /\ late = {}
    BY <1>1, NothingToInsert DEF Init
  <2>2. \A s \in Streams : Prefix(s, 0)
    <3>1. {i \in Nat : i < 0} = {} /\ {i \in Nat : 0 <= i /\ i < 0} = {} /\ 0 <= 0
      OBVIOUS
    <3> QED BY <2>1, <3>1 DEF Prefix
  <2> QED BY <2>1, <2>2 DEF PrefixInv
<1>2. Spec => []Inv
  <2>1. ASSUME RecordsInv, PrefixInv, [Next]_vars PROVE PrefixInv'
    BY <2>1, PrefixStep
  <2> QED BY <1>1, <2>1, RecordsInvariance, PTL DEF Spec
<1>3. ASSUME Inv, [Next]_vars, InOrder
      PROVE  InOrder' \/ (status # "started" /\ Cardinality(late') < Cardinality(late))
  <2>1. ChunksInv /\ ChunksInv' /\ BufferInv /\ IsFiniteSet(late)
    BY <1>3, ChunksInvStep DEF RecordsInv, ChunksInv, ChunkInv
  <2>2. CASE WriterOnly'
    <3>1. Arranged'
      BY <2>1, <2>2 DEF ChunksInv, ChunkInv
    <3>2. InOrder'
      BY <3>1 DEF Arranged, Sources, InOrder, Last
    <3> QED BY <3>2
  <2>3. CASE status = "result"
    <3>1. CASE UNCHANGED vars
      BY <1>3, <3>1 DEF vars, history, InOrder
    <3>2. CASE BatchLands
      <4>1. PICK b \in late : late' = late \ {b}
        BY <3>2 DEF BatchLands
      <4>2. Cardinality(late') = Cardinality(late) - 1 /\ Cardinality(late) \in Nat
        BY <2>1, <4>1, FS_RemoveElement, FS_CardinalityType
      <4> QED BY <2>3, <4>2
    <3> QED BY <1>3, <2>1, <2>3, <3>1, <3>2, AfterTheRecord
  <2>4. CASE ~WriterOnly' /\ status # "result"
    <3>1. status' = "result"
      BY <2>4 DEF WriterOnly
    <3>2. End
      BY <1>3, <2>1, <2>4, <3>1, ChunkSteps
    <3>3. Records /\ outcome = "result"
      BY <2>4, <3>1, <3>2 DEF End, Cancels, Records, history
    <3> QED BY <1>3, <3>2, <3>3, RecordedInOrder
  <2> QED BY <2>2, <2>3, <2>4
<1>4. ASSUME Inv, [Next]_vars
      PROVE  [InOrder => \/ InOrder'
                         \/ status # "started" /\ Cardinality(late') < Cardinality(late)]_vars
  BY <1>3, <1>4
<1> QED BY <1>2, <1>4, PTL DEF Spec, OnlyLateOutputDisorders

=============================================================================
