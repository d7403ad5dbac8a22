--------------------------- MODULE DwipeStatusProofs ---------------------------
(***************************************************************************)
(* The speed ring for every size, granularity and rate: its totals, which    *)
(* the code only adds to and subtracts from, are those of the recent past    *)
(* and never wrap, and are at any time the sums of its slots; and the        *)
(* scrolling of the status window.                                          *)
(***************************************************************************)
EXTENDS DwipeStatus, FiniteSetTheorems, WellFoundedInduction, TLAPS

Rings == [bytes : [Positions -> Nat], bytestotal : Nat, byteslast : Nat,
          times : [Positions -> Nat], timestotal : Nat, timeslast : Nat,
          position : Positions]

Samples == Seq([at : Nat, bytes : Nat])

\* How many samples ago the slot k was written, or will have been.
Age(p, k) == IF k < p THEN p - k ELSE p + RingSize - k

\* What the ring keeps of two samples: what the later one adds.
Gain(s, m)  == IF m >= 1 THEN s[m + 1].bytes - s[m].bytes ELSE 0
Lapse(s, m) == IF m >= 1 THEN s[m + 1].at - s[m].at ELSE 0

Oldest(n) == IF n > RingSize THEN n - RingSize ELSE 1

-----------------------------------------------------------------------------
\* An array after a store, and the ring that is left after a sample.
Stored(f, p, x) == [f EXCEPT ![p] = x]
Advanced(s, b, t) == [Recorded(s, b, t) EXCEPT !.position = Following(@)]

LEMMA RecordedFields ==
  ASSUME NEW s \in Rings, NEW b \in Nat, NEW t \in Nat,
         NEW r, r = Advanced(s, b, t)
  PROVE  r = [bytes |-> Stored(s.bytes, s.position, b - s.byteslast),
              bytestotal |-> (s.bytestotal - s.bytes[s.position]) + (b - s.byteslast),
              byteslast |-> b,
              times |-> Stored(s.times, s.position, t - s.timeslast),
              timestotal |-> (s.timestotal - s.times[s.position]) + (t - s.timeslast),
              timeslast |-> t,
              position |-> Following(s.position)]
BY DEF Rings, Recorded, Advanced, Stored

\* The next slot is in the ring, and every slot is one sample older, but for the
\* one that was written.
LEMMA NextAge ==
  ASSUME NEW p \in Positions
  PROVE  /\ Following(p) \in Positions
         /\ Age(p, p) = RingSize /\ Age(Following(p), p) = 1
         /\ \A k \in Positions : /\ Age(p, k) \in 1 .. RingSize
                                 /\ k # p => Age(Following(p), k) = Age(p, k) + 1
BY StatusAssumption DEF Positions, Following, Age

-----------------------------------------------------------------------------
ClockInv ==
  /\ time \in 1 .. MaxTime /\ now \in 0 .. time
  /\ round_done \in 0 .. RoundSize
  /\ running \in BOOLEAN
  /\ pc \in {"clock", "key", "sample", "estimate", "dead"}
  /\ pc = "key" \/ pc = "sample" => now >= 1
  /\ throughput \in Nat /\ eta \in Nat

\* Samples are taken in the order of time, and progress never goes back.
SamplesInv ==
  /\ samples \in Samples
  /\ \A i, j \in 1 .. Len(samples) :
       i <= j => samples[i].at <= samples[j].at /\ samples[i].bytes <= samples[j].bytes
  /\ \A i \in 1 .. Len(samples) :
       samples[i].at \in 1 .. now /\ samples[i].bytes \in 0 .. round_done

\* The ring is empty, or each slot holds what its sample added, the slots that were
\* never written hold nothing, and the totals reach back to the oldest.
RingInv ==
  LET n == Len(samples) IN
  /\ speedring \in Rings
  /\ IF n = 0
     THEN /\ speedring.timeslast = 0 /\ speedring.byteslast = 0
          /\ speedring.timestotal = 0 /\ speedring.bytestotal = 0
          /\ \A k \in Positions : speedring.bytes[k] = 0 /\ speedring.times[k] = 0
     ELSE /\ speedring.timeslast = samples[n].at /\ speedring.byteslast = samples[n].bytes
          /\ speedring.timestotal = samples[n].at - samples[Oldest(n)].at
          /\ speedring.bytestotal = samples[n].bytes - samples[Oldest(n)].bytes
          /\ \A k \in Positions :
               LET m == n - Age(speedring.position, k)
               IN  speedring.bytes[k] = Gain(samples, m) /\ speedring.times[k] = Lapse(samples, m)

ScrollInv == offset \in Nat /\ ScrollInRange

StatusInv == ClockInv /\ SamplesInv /\ RingInv /\ ScrollInv

\* What the invariant says of the types alone.
LEMMA Numbers ==
  ASSUME StatusInv
  PROVE  /\ now \in Nat /\ round_done \in Nat /\ time \in Nat
         /\ Len(samples) \in Nat /\ samples \in Samples
         /\ \A i \in 1 .. Len(samples) : samples[i].at \in Nat /\ samples[i].bytes \in Nat
<1>1. time \in Nat
  BY StatusAssumption DEF StatusInv, ClockInv
<1>2. now \in Nat /\ round_done \in Nat
  BY <1>1, StatusAssumption DEF StatusInv, ClockInv
<1>3. Len(samples) \in Nat /\ samples \in Samples
  BY DEF StatusInv, SamplesInv, Samples
<1> QED
  BY <1>1, <1>2, <1>3 DEF StatusInv, SamplesInv

LEMMA RingTypes ==
  ASSUME StatusInv
  PROVE  speedring \in Rings /\ speedring.position \in Positions
BY DEF StatusInv, RingInv, Rings

LEMMA StatusInit == Init => StatusInv
<1> SUFFICES ASSUME Init PROVE StatusInv
  OBVIOUS
<1>1. ClockInv
  BY StatusAssumption DEF Init, ClockInv
<1>2. SamplesInv /\ Len(samples) = 0
  BY DEF Init, SamplesInv, Samples
<1>3. 0 \in Positions
  BY StatusAssumption DEF Positions
<1>4. RingInv
  BY <1>2, <1>3 DEF Init, RingInv, Rings
<1>5. ScrollInv
  BY DEF Init, ScrollInv, ScrollInRange
<1> QED
  BY <1>1, <1>2, <1>4, <1>5 DEF StatusInv

\* The keys keep the window inside the list.
LEMMA ScrollStep ==
  ASSUME ScrollInv, offset' \in {offset, ScrolledDown, ScrolledUp}
  PROVE  ScrollInv'
<1>1. offset \in Nat /\ Count \in Nat /\ Slots \in Nat
  BY StatusAssumption DEF ScrollInv
<1>2. CASE offset' = offset
  BY <1>2 DEF ScrollInv, ScrollInRange
<1>3. CASE offset' = ScrolledDown
  <2>1. CASE Count < Slots
    BY <1>1, <1>3, <2>1 DEF ScrollInv, ScrollInRange, ScrolledDown
  <2>2. CASE ~(Count < Slots) /\ offset + 1 + Slots > Count
    <3>1. offset' = Count - Slots
      BY <1>3, <2>2 DEF ScrolledDown
    <3> QED
      BY <1>1, <2>2, <3>1 DEF ScrollInv, ScrollInRange
  <2>3. CASE ~(Count < Slots) /\ ~(offset + 1 + Slots > Count)
    <3>1. offset' = offset + 1
      BY <1>3, <2>3 DEF ScrolledDown
    <3> QED
      BY <1>1, <2>3, <3>1 DEF ScrollInv, ScrollInRange
  <2> QED
    BY <2>1, <2>2, <2>3
<1>4. CASE offset' = ScrolledUp
  <2>1. CASE offset = 0
    BY <1>4, <2>1 DEF ScrollInv, ScrollInRange, ScrolledUp
  <2>2. CASE offset # 0
    <3>1. offset' = offset - 1
      BY <1>4, <2>2 DEF ScrolledUp
    <3> QED
      BY <1>1, <2>2, <3>1 DEF ScrollInv, ScrollInRange
  <2> QED
    BY <2>1, <2>2
<1> QED
  BY <1>2, <1>3, <1>4

\* A step that takes no sample.
LEMMA RingStays ==
  ASSUME StatusInv, ClockInv', UNCHANGED <<speedring, samples>>,
         now' >= now, round_done' >= round_done
  PROVE  SamplesInv' /\ RingInv'
<1>1. SamplesInv'
  <2>1. now \in Nat /\ round_done \in Nat /\ now' \in Nat /\ round_done' \in Nat
    <3>1. time' \in Nat
      BY StatusAssumption DEF ClockInv
    <3> QED
      BY <3>1, Numbers, StatusAssumption DEF ClockInv
  <2>2. \A i \in 1 .. Len(samples) :
          samples[i].at \in 1 .. now' /\ samples[i].bytes \in 0 .. round_done'
    BY <2>1, Numbers DEF StatusInv, SamplesInv
  <2> QED
    BY <2>2 DEF StatusInv, SamplesInv, Samples
<1>2. RingInv'
  BY DEF StatusInv, RingInv, Gain, Lapse
<1> QED
  BY <1>1, <1>2

\* The sequence of samples after a further one.
LEMMA SamplesGrow ==
  ASSUME StatusInv, NEW x \in [at : Nat, bytes : Nat], samples' = Append(samples, x),
         x.at = now, now >= 1, x.bytes \in 0 .. round_done,
         Len(samples) > 0 => x.bytes >= samples[Len(samples)].bytes,
         UNCHANGED <<now, round_done>>
  PROVE  /\ SamplesInv' /\ Len(samples') = Len(samples) + 1
         /\ samples'[Len(samples) + 1] = x
         /\ \A i \in 1 .. Len(samples) : samples'[i] = samples[i]
<1> DEFINE n == Len(samples)
<1>1. n \in Nat /\ samples \in Samples
  BY DEF StatusInv, SamplesInv, Samples
<1>2. /\ samples' \in Samples /\ Len(samples') = n + 1
      /\ samples'[n + 1] = x /\ \A i \in 1 .. n : samples'[i] = samples[i]
  BY <1>1 DEF Samples
<1>3. now \in Nat /\ round_done \in Nat
  BY Numbers
<1>4. \A i \in 1 .. n : /\ samples[i].at \in Nat /\ samples[i].bytes \in Nat
                        /\ samples[i].at <= now /\ samples[i].at >= 1
                        /\ samples[i].bytes <= round_done
  BY <1>3 DEF StatusInv, SamplesInv
<1>5. \A i \in 1 .. n : samples[i].at <= x.at /\ samples[i].bytes <= x.bytes
  <2> SUFFICES ASSUME NEW i \in 1 .. n
               PROVE  samples[i].at <= x.at /\ samples[i].bytes <= x.bytes
    OBVIOUS
  <2>1. n \in 1 .. n /\ i <= n
    BY <1>1
  <2>2. samples[i].bytes <= samples[n].bytes
    BY <2>1 DEF StatusInv, SamplesInv
  <2> QED
    BY <1>4, <2>1, <2>2
<1>6. ASSUME NEW i \in 1 .. n + 1, NEW j \in 1 .. n + 1, i <= j
      PROVE  samples'[i].at <= samples'[j].at /\ samples'[i].bytes <= samples'[j].bytes
  <2>1. CASE j = n + 1 /\ i = n + 1
    BY <1>2, <2>1
  <2>2. CASE j = n + 1 /\ i # n + 1
    <3>1. i \in 1 .. n
      BY <1>1, <2>2
    <3> QED
      BY <1>2, <1>5, <2>2, <3>1
  <2>3. CASE j # n + 1
    <3>1. i \in 1 .. n /\ j \in 1 .. n
      BY <1>1, <1>6, <2>3
    <3> QED
      BY <1>2, <1>6, <3>1 DEF StatusInv, SamplesInv
  <2> QED
    BY <2>1, <2>2, <2>3
<1>7. ASSUME NEW i \in 1 .. n + 1
      PROVE  samples'[i].at \in 1 .. now /\ samples'[i].bytes \in 0 .. round_done
  <2>1. CASE i = n + 1
    BY <1>2, <1>3, <2>1
  <2>2. CASE i # n + 1
    <3>1. i \in 1 .. n
      BY <1>1, <2>2
    <3> QED
      BY <1>2, <3>1 DEF StatusInv, SamplesInv
  <2> QED
    BY <2>1, <2>2
<1> QED
  BY <1>2, <1>6, <1>7 DEF SamplesInv

\* The first sample: the ring stays empty, and the clock of it is remembered.
LEMMA FirstSample ==
  ASSUME StatusInv, Len(samples) = 0, now >= 1,
         speedring' = [speedring EXCEPT !.timeslast = now],
         samples' = <<[at |-> now, bytes |-> 0]>>, UNCHANGED <<now, round_done>>
  PROVE  SamplesInv' /\ RingInv'
<1>1. now \in Nat /\ round_done \in Nat /\ samples = <<>>
  <2>1. samples \in Samples
    BY Numbers
  <2> QED
    BY <2>1, Numbers DEF Samples
<1>2. samples' = Append(samples, [at |-> now, bytes |-> 0])
  BY <1>1
<1>3. SamplesInv' /\ Len(samples') = 1 /\ samples'[1] = [at |-> now, bytes |-> 0]
  BY <1>1, <1>2, SamplesGrow
<1>4. /\ speedring' \in Rings /\ speedring'.timeslast = now
      /\ speedring'.position = speedring.position /\ speedring.position \in Positions
      /\ speedring'.bytes = speedring.bytes /\ speedring'.times = speedring.times
      /\ speedring'.byteslast = 0 /\ speedring'.timestotal = 0 /\ speedring'.bytestotal = 0
  BY <1>1 DEF StatusInv, RingInv, Rings
<1>5. Oldest(1) = 1
  BY StatusAssumption DEF Oldest
<1>6. \A k \in Positions : /\ speedring.bytes[k] = 0 /\ speedring.times[k] = 0
                           /\ ~(1 - Age(speedring.position, k) >= 1)
  BY <1>4, NextAge DEF StatusInv, RingInv
<1>7. \A k \in Positions : LET m == 1 - Age(speedring'.position, k)
                           IN  /\ speedring'.bytes[k] = Gain(samples', m)
                               /\ speedring'.times[k] = Lapse(samples', m)
  BY <1>4, <1>6 DEF Gain, Lapse
<1>8. RingInv'
  BY <1>1, <1>3, <1>4, <1>5, <1>7 DEF RingInv
<1> QED
  BY <1>3, <1>8

\* One sample more, for one of the two quantities: the ring f with its total.
Step(v, m) == IF m >= 1 THEN v[m + 1] - v[m] ELSE 0

LEMMA TotalMoves ==
  ASSUME NEW n \in Nat \ {0}, NEW v \in [1 .. n + 1 -> Nat]
  PROVE  ((v[n] - v[Oldest(n)]) - Step(v, n - RingSize)) + (v[n + 1] - v[n])
         = v[n + 1] - v[Oldest(n + 1)]
<1>1. RingSize \in Nat \ {0} /\ v[n] \in Nat /\ v[n + 1] \in Nat
  BY StatusAssumption
<1>2. CASE n > RingSize
  <2>1. Oldest(n) = n - RingSize /\ Oldest(n + 1) = (n - RingSize) + 1
    BY <1>1, <1>2 DEF Oldest
  <2>2. n - RingSize \in 1 .. n + 1 /\ (n - RingSize) + 1 \in 1 .. n + 1 /\ n - RingSize >= 1
    BY <1>1, <1>2
  <2>3. v[n - RingSize] \in Nat /\ v[(n - RingSize) + 1] \in Nat
    BY <2>2
  <2>4. Step(v, n - RingSize) = v[(n - RingSize) + 1] - v[n - RingSize]
    BY <2>2 DEF Step
  <2> QED
    BY <1>1, <2>1, <2>3, <2>4
<1>3. CASE ~(n > RingSize)
  <2>1. Oldest(n) = 1 /\ Oldest(n + 1) = 1 /\ ~(n - RingSize >= 1)
    BY <1>1, <1>3 DEF Oldest
  <2>2. v[1] \in Nat /\ Step(v, n - RingSize) = 0
    BY <2>1 DEF Step
  <2> QED
    BY <1>1, <2>1, <2>2
<1> QED
  BY <1>2, <1>3

Ascending(n, v) == \A i, j \in 1 .. n : i <= j => v[i] <= v[j]

\* The ring f and its total are those of the n samples v.
IsRingOf(n, v, p, f, total) ==
  /\ f \in [Positions -> Nat]
  /\ total = v[n] - v[Oldest(n)]
  /\ \A k \in Positions : f[k] = Step(v, n - Age(p, k))

LEMMA RingMoves ==
  ASSUME NEW n \in Nat \ {0}, NEW v \in [1 .. n + 1 -> Nat], NEW p \in Positions,
         NEW f, NEW total, Ascending(n + 1, v), IsRingOf(n, v, p, f, total),
         NEW g, g = Stored(f, p, v[n + 1] - v[n]),
         NEW sum, sum = (total - f[p]) + (v[n + 1] - v[n])
  PROVE  IsRingOf(n + 1, v, Following(p), g, sum) /\ sum \in Nat
<1>1. n \in 1 .. n + 1 /\ n + 1 \in 1 .. n + 1 /\ v[n] \in Nat /\ v[n + 1] \in Nat
  OBVIOUS
<1>2. v[n + 1] - v[n] \in Nat
  <2>1. v[n] <= v[n + 1]
    BY <1>1 DEF Ascending
  <2> QED
    BY <1>1, <2>1
<1>3. /\ f \in [Positions -> Nat] /\ f[p] = Step(v, n - RingSize)
      /\ total = v[n] - v[Oldest(n)]
  BY NextAge DEF IsRingOf
<1>4. Oldest(n + 1) \in 1 .. n + 1 /\ Oldest(n + 1) <= n + 1
  <2>1. RingSize \in Nat \ {0}
    BY StatusAssumption
  <2> QED
    BY <2>1 DEF Oldest
<1>5. v[n + 1] - v[Oldest(n + 1)] \in Nat
  <2>1. v[Oldest(n + 1)] <= v[n + 1] /\ v[Oldest(n + 1)] \in Nat
    BY <1>1, <1>4 DEF Ascending
  <2> QED
    BY <1>1, <2>1
<1>6. (total - f[p]) + (v[n + 1] - v[n]) = v[n + 1] - v[Oldest(n + 1)]
  BY <1>3, TotalMoves
<1>7. ASSUME NEW k \in Positions
      PROVE  g[k] = Step(v, (n + 1) - Age(Following(p), k))
  <2>1. CASE k = p
    <3>1. (n + 1) - Age(Following(p), k) = n
      BY <2>1, NextAge
    <3>2. g[k] = v[n + 1] - v[n]
      BY <1>3, <2>1 DEF Stored
    <3> QED
      BY <3>1, <3>2 DEF Step
  <2>2. CASE k # p
    <3>1. Age(p, k) \in Int /\ Age(Following(p), k) = Age(p, k) + 1
      BY <2>2, NextAge
    <3>2. (n + 1) - Age(Following(p), k) = n - Age(p, k)
      BY <3>1
    <3>3. g[k] = f[k]
      BY <1>3, <2>2 DEF Stored
    <3> QED
      BY <3>2, <3>3 DEF IsRingOf
  <2> QED
    BY <2>1, <2>2
<1>8. g \in [Positions -> Nat]
  BY <1>2, <1>3 DEF Stored
<1> QED
  BY <1>5, <1>6, <1>7, <1>8 DEF IsRingOf

\* A further sample.
LEMMA FurtherSample ==
  ASSUME StatusInv, Len(samples) # 0, now >= 1,
         speedring' = Advanced(speedring, round_done, now),
         samples' = Append(samples, [at |-> now, bytes |-> round_done]),
         UNCHANGED <<now, round_done>>
  PROVE  SamplesInv' /\ RingInv'
<1>n. PICK n : n = Len(samples)
  OBVIOUS
<1>ring. PICK ring : ring = speedring
  OBVIOUS
<1>p. PICK p : p = ring.position
  OBVIOUS
<1>1. /\ now \in Nat /\ round_done \in Nat /\ n \in Nat \ {0}
      /\ ring \in Rings /\ p \in Positions
      /\ ring.bytes \in [Positions -> Nat] /\ ring.times \in [Positions -> Nat]
  BY <1>n, <1>ring, <1>p, Numbers, RingTypes DEF Rings
<1>2. n \in 1 .. n /\ samples[n].at <= now /\ samples[n].bytes <= round_done
  <2>1. n \in 1 .. n
    BY <1>1
  <2> QED
    BY <1>1, <1>n, <2>1 DEF StatusInv, SamplesInv
<1>3. /\ SamplesInv' /\ Len(samples') = n + 1
      /\ samples'[n + 1] = [at |-> now, bytes |-> round_done]
      /\ \A i \in 1 .. n : samples'[i] = samples[i]
  BY <1>1, <1>2, <1>n, SamplesGrow
<1>4. speedring' = [bytes |-> Stored(ring.bytes, p, round_done - ring.byteslast),
                    bytestotal |-> (ring.bytestotal - ring.bytes[p])
                                   + (round_done - ring.byteslast),
                    byteslast |-> round_done,
                    times |-> Stored(ring.times, p, now - ring.timeslast),
                    timestotal |-> (ring.timestotal - ring.times[p])
                                   + (now - ring.timeslast),
                    timeslast |-> now,
                    position |-> Following(p)]
  <2>1. speedring' = Advanced(ring, round_done, now)
    BY <1>ring
  <2> PICK r : r = speedring'
    OBVIOUS
  <2> QED
    BY <1>1, <1>p, <2>1, RecordedFields
<1>5. /\ ring.timeslast = samples[n].at /\ ring.byteslast = samples[n].bytes
      /\ ring.timestotal = samples[n].at - samples[Oldest(n)].at
      /\ ring.bytestotal = samples[n].bytes - samples[Oldest(n)].bytes
      /\ \A k \in Positions : /\ ring.bytes[k] = Gain(samples, n - Age(p, k))
                              /\ ring.times[k] = Lapse(samples, n - Age(p, k))
  BY <1>1, <1>n, <1>ring, <1>p DEF StatusInv, RingInv
<1>at. PICK at : at = [i \in 1 .. n + 1 |-> samples'[i].at]
  OBVIOUS
<1>bytes. PICK bytes : bytes = [i \in 1 .. n + 1 |-> samples'[i].bytes]
  OBVIOUS
<1>6. \A i \in 1 .. n : at[i] = samples[i].at /\ bytes[i] = samples[i].bytes
  BY <1>1, <1>3, <1>at, <1>bytes
<1>7. at[n + 1] = now /\ bytes[n + 1] = round_done
  BY <1>1, <1>3, <1>at, <1>bytes
<1>8. at \in [1 .. n + 1 -> Nat] /\ bytes \in [1 .. n + 1 -> Nat]
  <2>1. ASSUME NEW i \in 1 .. n + 1 PROVE at[i] \in Nat /\ bytes[i] \in Nat
    <3>1. CASE i = n + 1
      BY <1>1, <1>7, <3>1
    <3>2. CASE i # n + 1
      <4>1. i \in 1 .. n
        BY <1>1, <3>2
      <4> QED
        BY <1>6, <1>n, <4>1, Numbers
    <3> QED
      BY <3>1, <3>2
  <2> QED
    BY <2>1, <1>at, <1>bytes
<1>9. \A i, j \in 1 .. n + 1 : i <= j => at[i] <= at[j] /\ bytes[i] <= bytes[j]
  BY <1>3, <1>at, <1>bytes DEF SamplesInv
<1>10. Oldest(n) \in 1 .. n /\ Oldest(n + 1) \in 1 .. n + 1
  <2>1. RingSize \in Nat \ {0}
    BY StatusAssumption
  <2> QED
    BY <1>1, <2>1 DEF Oldest
<1>11. \A k \in Positions : /\ ring.bytes[k] = Step(bytes, n - Age(p, k))
                            /\ ring.times[k] = Step(at, n - Age(p, k))
  <2> SUFFICES ASSUME NEW k \in Positions
               PROVE  /\ Gain(samples, n - Age(p, k)) = Step(bytes, n - Age(p, k))
                      /\ Lapse(samples, n - Age(p, k)) = Step(at, n - Age(p, k))
    BY <1>5
  <2>m. PICK m : m = n - Age(p, k)
    OBVIOUS
  <2>1. m \in Int /\ m < n
    <3>1. Age(p, k) \in 1 .. RingSize /\ RingSize \in Nat
      BY <1>1, NextAge, StatusAssumption
    <3> QED
      BY <1>1, <2>m, <3>1
  <2>2. m >= 1 => m \in 1 .. n /\ m + 1 \in 1 .. n
    BY <1>1, <2>1
  <2> QED
    BY <1>6, <2>m, <2>2 DEF Gain, Lapse, Step
<1>12. /\ ring.timestotal = at[n] - at[Oldest(n)] /\ ring.bytestotal = bytes[n] - bytes[Oldest(n)]
       /\ now - ring.timeslast = at[n + 1] - at[n]
       /\ round_done - ring.byteslast = bytes[n + 1] - bytes[n]
  BY <1>2, <1>5, <1>6, <1>7, <1>10
<1>newring. PICK newring : newring = speedring'
  OBVIOUS
<1>13. /\ newring.times = Stored(ring.times, p, at[n + 1] - at[n])
       /\ newring.timestotal = (ring.timestotal - ring.times[p]) + (at[n + 1] - at[n])
       /\ newring.bytes = Stored(ring.bytes, p, bytes[n + 1] - bytes[n])
       /\ newring.bytestotal = (ring.bytestotal - ring.bytes[p]) + (bytes[n + 1] - bytes[n])
       /\ newring.position = Following(p)
       /\ newring.timeslast = now /\ newring.byteslast = round_done
  <2>1. /\ newring.times = Stored(ring.times, p, now - ring.timeslast)
        /\ newring.timestotal = (ring.timestotal - ring.times[p]) + (now - ring.timeslast)
    BY <1>4, <1>newring
  <2>2. /\ newring.bytes = Stored(ring.bytes, p, round_done - ring.byteslast)
        /\ newring.bytestotal = (ring.bytestotal - ring.bytes[p]) + (round_done - ring.byteslast)
    BY <1>4, <1>newring
  <2>3. /\ newring.position = Following(p)
        /\ newring.timeslast = now /\ newring.byteslast = round_done
    BY <1>4, <1>newring
  <2> QED
    BY <1>12, <2>1, <2>2, <2>3
<1>14. /\ newring.times \in [Positions -> Nat]
       /\ newring.timestotal = at[n + 1] - at[Oldest(n + 1)] /\ newring.timestotal \in Nat
       /\ \A k \in Positions : newring.times[k] = Step(at, (n + 1) - Age(Following(p), k))
  <2>1. Ascending(n + 1, at)
    BY <1>9 DEF Ascending
  <2>2. IsRingOf(n, at, p, ring.times, ring.timestotal)
    BY <1>1, <1>11, <1>12 DEF IsRingOf
  <2>3. IsRingOf(n + 1, at, Following(p), newring.times, newring.timestotal) /\ newring.timestotal \in Nat
    <3>1. newring.times = Stored(ring.times, p, at[n + 1] - at[n])
      BY <1>13
    <3>2. newring.timestotal = (ring.timestotal - ring.times[p]) + (at[n + 1] - at[n])
      BY <1>13
    <3>3. n \in Nat \ {0} /\ at \in [1 .. n + 1 -> Nat] /\ p \in Positions
      BY <1>1, <1>8
    <3>4. ASSUME NEW f, NEW total, NEW g, NEW sum, IsRingOf(n, at, p, f, total),
                 g = Stored(f, p, at[n + 1] - at[n]),
                 sum = (total - f[p]) + (at[n + 1] - at[n])
          PROVE  IsRingOf(n + 1, at, Following(p), g, sum) /\ sum \in Nat
      BY <2>1, <3>3, <3>4, RingMoves, Zenon
    <3> QED
      BY <2>2, <3>1, <3>2, <3>4, Zenon
  <2> QED
    BY <2>3 DEF IsRingOf
<1>15. /\ newring.bytes \in [Positions -> Nat]
       /\ newring.bytestotal = bytes[n + 1] - bytes[Oldest(n + 1)] /\ newring.bytestotal \in Nat
       /\ \A k \in Positions : newring.bytes[k] = Step(bytes, (n + 1) - Age(Following(p), k))
  <2>1. Ascending(n + 1, bytes)
    BY <1>9 DEF Ascending
  <2>2. IsRingOf(n, bytes, p, ring.bytes, ring.bytestotal)
    BY <1>1, <1>11, <1>12 DEF IsRingOf
  <2>3. IsRingOf(n + 1, bytes, Following(p), newring.bytes, newring.bytestotal) /\ newring.bytestotal \in Nat
    <3>1. newring.bytes = Stored(ring.bytes, p, bytes[n + 1] - bytes[n])
      BY <1>13
    <3>2. newring.bytestotal = (ring.bytestotal - ring.bytes[p]) + (bytes[n + 1] - bytes[n])
      BY <1>13
    <3>3. n \in Nat \ {0} /\ bytes \in [1 .. n + 1 -> Nat] /\ p \in Positions
      BY <1>1, <1>8
    <3>4. ASSUME NEW f, NEW total, NEW g, NEW sum, IsRingOf(n, bytes, p, f, total),
                 g = Stored(f, p, bytes[n + 1] - bytes[n]),
                 sum = (total - f[p]) + (bytes[n + 1] - bytes[n])
          PROVE  IsRingOf(n + 1, bytes, Following(p), g, sum) /\ sum \in Nat
      BY <2>1, <3>3, <3>4, RingMoves, Zenon
    <3> QED
      BY <2>2, <3>1, <3>2, <3>4, Zenon
  <2> QED
    BY <2>3 DEF IsRingOf
<1>16. newring \in Rings
  <2>1. Following(p) \in Positions
    BY <1>1, NextAge
  <2> QED
    BY <1>1, <1>4, <1>newring, <1>13, <1>14, <1>15, <2>1 DEF Rings
<1>17. \A k \in Positions :
         /\ newring.bytes[k] = Gain(samples', (n + 1) - Age(newring.position, k))
         /\ newring.times[k] = Lapse(samples', (n + 1) - Age(newring.position, k))
  <2> SUFFICES ASSUME NEW k \in Positions
               PROVE  LET m == (n + 1) - Age(Following(p), k)
                      IN  /\ Gain(samples', m) = Step(bytes, m)
                          /\ Lapse(samples', m) = Step(at, m)
    <3>1. newring.position = Following(p)
      BY <1>13
    <3> QED
      BY <1>14, <1>15, <3>1
  <2>m. PICK m : m = (n + 1) - Age(Following(p), k)
    OBVIOUS
  <2>1. m \in Int /\ m < n + 1
    <3>1. Age(Following(p), k) \in 1 .. RingSize /\ RingSize \in Nat
      BY <1>1, NextAge, StatusAssumption
    <3> QED
      BY <1>1, <2>m, <3>1
  <2>2. m >= 1 => m \in 1 .. n + 1 /\ m + 1 \in 1 .. n + 1
    BY <1>1, <2>1
  <2>3. \A i \in 1 .. n + 1 : at[i] = samples'[i].at /\ bytes[i] = samples'[i].bytes
    BY <1>at, <1>bytes
  <2> QED
    BY <2>m, <2>2, <2>3 DEF Gain, Lapse, Step
<1>18. RingInv'
  <2>1. /\ newring.timestotal = samples'[n + 1].at - samples'[Oldest(n + 1)].at
        /\ newring.bytestotal = samples'[n + 1].bytes - samples'[Oldest(n + 1)].bytes
        /\ newring.timeslast = samples'[n + 1].at /\ newring.byteslast = samples'[n + 1].bytes
    BY <1>1, <1>3, <1>7, <1>10, <1>13, <1>14, <1>15, <1>at, <1>bytes
  <2>2. n + 1 # 0
    BY <1>1
  <2> QED
    BY <1>3, <1>16, <1>17, <1>newring, <2>1, <2>2 DEF RingInv
<1> QED
  BY <1>3, <1>18

LEMMA SampleStep ==
  ASSUME StatusInv, Sample
  PROVE  StatusInv'
<1>1. /\ pc = "sample" /\ pc' = "estimate" /\ now >= 1
      /\ UNCHANGED <<time, round_done, running, now, throughput, eta, offset>>
  BY DEF Sample, StatusInv, ClockInv
<1>2. ClockInv' /\ ScrollInv'
  BY <1>1 DEF StatusInv, ClockInv, ScrollInv, ScrollInRange
<1>3. speedring.timeslast = 0 <=> Len(samples) = 0
  <2>1. Len(samples) \in Nat
    BY DEF StatusInv, SamplesInv, Samples
  <2>2. Len(samples) # 0 => samples[Len(samples)].at \in 1 .. now
    BY <2>1 DEF StatusInv, SamplesInv
  <2> QED
    BY <2>2 DEF StatusInv, RingInv
<1>4. CASE speedring.timeslast = 0
  <2>1. SamplesInv' /\ RingInv'
    BY <1>1, <1>3, <1>4, FirstSample DEF Sample
  <2> QED
    BY <1>2, <2>1 DEF StatusInv
<1>5. CASE speedring.timeslast # 0 /\ now - speedring.timeslast < Granularity
  <2>1. UNCHANGED <<speedring, samples>>
    BY <1>5 DEF Sample
  <2>2. now' >= now /\ round_done' >= round_done
    BY <1>1, StatusAssumption DEF StatusInv, ClockInv
  <2> QED
    BY <1>2, <2>1, <2>2, RingStays DEF StatusInv
<1>6. CASE speedring.timeslast # 0 /\ ~(now - speedring.timeslast < Granularity)
  <2>1. SamplesInv' /\ RingInv'
    BY <1>1, <1>3, <1>6, FurtherSample DEF Sample, Advanced
  <2> QED
    BY <1>2, <2>1 DEF StatusInv
<1> QED
  BY <1>4, <1>5, <1>6

\* The divisions of the estimate: neither is by zero, and neither is negative.
LEMMA EstimateTypes ==
  ASSUME StatusInv, speedring.timestotal # 0
  PROVE  Average \in Nat /\ (Average # 0 => (RoundSize - round_done) \div Average \in Nat)
<1>1. speedring.timestotal \in Nat \ {0} /\ speedring.bytestotal \in Nat
  BY DEF StatusInv, RingInv, Rings
<1>2. RoundSize - round_done \in Nat
  BY StatusAssumption DEF StatusInv, ClockInv
<1>3. \A a \in Nat, b \in Nat \ {0} : a \div b \in Nat
  OBVIOUS
<1> QED
  BY <1>1, <1>2, <1>3 DEF Average

LEMMA StatusStep == StatusInv /\ [Next]_vars => StatusInv'
<1> SUFFICES ASSUME StatusInv, [Next]_vars PROVE StatusInv'
  OBVIOUS
<1>1. CASE Tick
  <2>1. ClockInv' /\ round_done' >= round_done /\ now' >= now
    BY <1>1, StatusAssumption DEF Tick, StatusInv, ClockInv
  <2>2. ScrollInv'
    BY <1>1 DEF Tick, StatusInv, ScrollInv, ScrollInRange
  <2> QED
    BY <1>1, <2>1, <2>2, RingStays DEF Tick, StatusInv
<1>2. CASE Reaped \/ ReadClock \/ Key
  <2>1. now' >= now /\ now' \in 0 .. time' /\ (pc' \in {"key", "sample"} => now' >= 1)
    <3>1. time >= 1 /\ now <= time
      BY Numbers, StatusAssumption DEF StatusInv, ClockInv
    <3>2. pc = "key" => now >= 1
      BY DEF StatusInv, ClockInv
    <3>3. CASE ReadClock
      BY <3>1, <3>3, Numbers DEF ReadClock
    <3>4. CASE Reaped \/ Key
      BY <1>2, <3>1, <3>2, <3>4, Numbers DEF Reaped, Key
    <3> QED
      BY <1>2, <3>3, <3>4
  <2>2. ClockInv' /\ round_done' >= round_done
    <3>1. UNCHANGED <<time, round_done, throughput, eta>> /\ running' \in BOOLEAN
      BY <1>2 DEF Reaped, ReadClock, Key, StatusInv, ClockInv
    <3>2. pc' \in {"clock", "key", "sample"}
      BY <1>2 DEF Reaped, ReadClock, Key
    <3> QED
      BY <2>1, <3>1, <3>2, Numbers DEF StatusInv, ClockInv
  <2>3. ScrollInv'
    BY <1>2, ScrollStep DEF Reaped, ReadClock, Key, StatusInv
  <2> QED
    BY <1>2, <2>1, <2>2, <2>3, RingStays DEF Reaped, ReadClock, Key, StatusInv
<1>3. CASE Sample
  BY <1>3, SampleStep
<1>4. CASE Estimate
  <2>1. ClockInv' /\ round_done' >= round_done /\ now' >= now
    BY <1>4, EstimateTypes, StatusAssumption DEF Estimate, StatusInv, ClockInv
  <2>2. ScrollInv'
    BY <1>4 DEF Estimate, StatusInv, ScrollInv, ScrollInRange
  <2> QED
    BY <1>4, <2>1, <2>2, RingStays DEF Estimate, StatusInv
<1>5. CASE Stopped \/ UNCHANGED vars
  <2>1. UNCHANGED vars
    BY <1>5 DEF Stopped
  <2>2. ClockInv' /\ ScrollInv' /\ round_done' >= round_done /\ now' >= now
    BY <2>1, StatusAssumption DEF vars, StatusInv, ClockInv, ScrollInv, ScrollInRange
  <2> QED
    BY <2>1, <2>2, RingStays DEF vars, StatusInv
<1> QED
  BY <1>1, <1>2, <1>3, <1>4, <1>5 DEF Next

LEMMA StatusAlways == Spec => []StatusInv
BY StatusInit, StatusStep, PTL DEF Spec

-----------------------------------------------------------------------------
(***************************************************************************)
(* The sums of the ring.  A fold over a set is a function defined on its     *)
(* subsets, by recursion on their size.                                    *)
(***************************************************************************)
\* Induction, with a set in the place of a predicate.
LEMMA NatInduct ==
  ASSUME NEW T, 0 \in T, \A n \in Nat : n \in T => n + 1 \in T
  PROVE  \A n \in Nat : n \in T
<1> SUFFICES ASSUME Nat \ T # {} PROVE FALSE
  OBVIOUS
<1> DEFINE below == OpToRel(<, Nat)
<1>1. IsWellFoundedOn(below, Nat)
  BY NatLessThanWellFounded, Zenon
<1>2. \A x, y \in Nat : <<x, y>> \in below <=> x < y
  BY DEF OpToRel
<1> HIDE DEF below
<1>3. PICK least \in Nat \ T : \A y \in Nat \ T : <<y, least>> \notin below
  BY <1>1, WFMin
<1>4. least - 1 \in Nat /\ least - 1 < least
  BY <1>3
<1>5. least - 1 \in T
  BY <1>2, <1>3, <1>4
<1> QED
  BY <1>3, <1>4, <1>5

\* The sets that are summed, and the element a fold takes off first.
Parts == SUBSET Positions
One(s) == CHOOSE k \in s : TRUE
Rest(s) == s \ {One(s)}

\* The sets of up to n positions.
Small(n) == {s \in Parts : Cardinality(s) <= n}

\* One step of the fold of the array f: the sum of s, given sums of smaller sets.
Folded(f, sums, s) == IF s = {} THEN 0 ELSE f[One(s)] + sums[Rest(s)]

\* The function of the fold.
Sums(f) == CHOOSE sums : sums = [s \in Parts |-> Folded(f, sums, s)]

\* The sum of the community modules is that function, at the whole ring.
LEMMA TotalIsFold ==
  ASSUME NEW f
  PROVE  MapThenSumSet(LAMBDA k : f[k], Positions) = Sums(f)[Positions]
BY DEF MapThenSumSet, MapThenFoldSet, Sums, Folded, Parts, One, Rest

LEMMA PartsAreFinite ==
  /\ \A s \in Parts : IsFiniteSet(s) /\ Cardinality(s) \in Nat
  /\ Positions \in Parts
<1>1. IsFiniteSet(Positions)
  BY FS_Interval, StatusAssumption DEF Positions
<1>2. \A s \in Parts : IsFiniteSet(s)
  BY <1>1, FS_Subset DEF Parts
<1> QED
  BY <1>2, FS_CardinalityType DEF Parts

LEMMA RestIsSmaller ==
  ASSUME NEW s \in Parts, s # {}
  PROVE  One(s) \in s /\ One(s) \in Positions /\ Rest(s) \in Parts /\ Cardinality(Rest(s)) = Cardinality(s) - 1
<1>1. One(s) \in s
  BY DEF One
<1>2. Cardinality(s \ {One(s)}) = Cardinality(s) - 1
  BY <1>1, PartsAreFinite, FS_RemoveElement
<1> QED
  BY <1>1, <1>2 DEF Parts, Rest

\* The equation of the fold, on sets of up to n positions, has a solution.
LEMMA PartialSums ==
  ASSUME NEW f \in [Positions -> Int]
  PROVE  \A n \in Nat :
           \E sums \in [Small(n) -> Int] : \A s \in Small(n) : sums[s] = Folded(f, sums, s)
<1> DEFINE Solved(n) ==
      \E sums \in [Small(n) -> Int] : \A s \in Small(n) : sums[s] = Folded(f, sums, s)
           solved == {n \in Nat : Solved(n)}
<1>1. 0 \in solved
  <2>1. Small(0) = {{}}
    BY PartsAreFinite, FS_EmptySet DEF Small, Parts
  <2>2. [s \in {{}} |-> 0] \in [Small(0) -> Int]
    BY <2>1
  <2>3. \A s \in Small(0) : [t \in {{}} |-> 0][s] = Folded(f, [t \in {{}} |-> 0], s)
    BY <2>1 DEF Folded
  <2> QED
    BY <2>2, <2>3
<1>2. ASSUME NEW n \in Nat, n \in solved PROVE n + 1 \in solved
  <2>1. PICK sums \in [Small(n) -> Int] : \A s \in Small(n) : sums[s] = Folded(f, sums, s)
    BY <1>2
  <2> DEFINE more == [s \in Small(n + 1) |-> Folded(f, sums, s)]
  <2>2. \A s \in Small(n + 1) : s # {} => Rest(s) \in Small(n) /\ One(s) \in Positions
    BY RestIsSmaller, PartsAreFinite DEF Small
  <2>3. more \in [Small(n + 1) -> Int]
    BY <2>2 DEF Folded
  <2>4. Small(n) \subseteq Small(n + 1)
    BY PartsAreFinite DEF Small
  <2>5. \A s \in Small(n) : more[s] = sums[s]
    BY <2>1, <2>4
  <2>6. \A s \in Small(n + 1) : more[s] = Folded(f, more, s)
    BY <2>2, <2>5 DEF Folded
  <2> HIDE DEF more
  <2> QED
    BY <2>3, <2>6
<1> HIDE DEF solved
<1>3. \A n \in Nat : n \in solved
  BY <1>1, <1>2, NatInduct
<1> QED
  BY <1>3 DEF solved

LEMMA SumsSolve ==
  ASSUME NEW f \in [Positions -> Int]
  PROVE  /\ Sums(f) \in [Parts -> Int]
         /\ \A s \in Parts : Sums(f)[s] = Folded(f, Sums(f), s)
<1> DEFINE n == Cardinality(Positions)
<1>1. n \in Nat /\ Small(n) = Parts
  <2>1. \A s \in Parts : Cardinality(s) <= n
    BY PartsAreFinite, FS_Subset DEF Parts
  <2> QED
    BY <2>1, PartsAreFinite DEF Small
<1>2. PICK sums \in [Parts -> Int] : \A s \in Parts : sums[s] = Folded(f, sums, s)
  BY <1>1, PartialSums
<1>3. sums = [s \in Parts |-> Folded(f, sums, s)]
  BY <1>2
<1>4. Sums(f) = [s \in Parts |-> Folded(f, Sums(f), s)]
  BY <1>3 DEF Sums
<1>5. \A s \in Parts : Sums(f)[s] = Folded(f, Sums(f), s)
  BY <1>4
<1> HIDE DEF n
<1> DEFINE agreed == {m \in Nat : \A s \in Small(m) : Sums(f)[s] = sums[s]}
<1>6. 0 \in agreed
  <2>1. \A s \in Small(0) : s = {} /\ s \in Parts
    BY PartsAreFinite, FS_EmptySet DEF Small
  <2> QED
    BY <1>2, <1>5, <2>1 DEF Folded
<1>7. ASSUME NEW m \in Nat, m \in agreed PROVE m + 1 \in agreed
  <2>1. \A s \in Small(m + 1) : s \in Parts /\ (s # {} => Rest(s) \in Small(m))
    BY RestIsSmaller, PartsAreFinite DEF Small
  <2> QED
    BY <1>2, <1>5, <1>7, <2>1 DEF Folded
<1> HIDE DEF agreed
<1>8. n \in agreed
  BY <1>1, <1>6, <1>7, NatInduct
<1>9. \A s \in Parts : Sums(f)[s] = sums[s]
  BY <1>1, <1>8 DEF agreed
<1> QED
  BY <1>2, <1>4, <1>5, <1>9

\* A store into one slot changes the sum by what it adds to the slot.
LEMMA StoredSum ==
  ASSUME NEW f \in [Positions -> Int], NEW p \in Positions, NEW x \in Int
  PROVE  Sums([f EXCEPT ![p] = x])[Positions] = (Sums(f)[Positions] - f[p]) + x
<1> DEFINE g == [f EXCEPT ![p] = x]
           shifted == {m \in Nat : \A s \in Small(m) :
                         Sums(g)[s] = Sums(f)[s] + (IF p \in s THEN x - f[p] ELSE 0)}
<1>1. g \in [Positions -> Int] /\ g[p] = x /\ \A k \in Positions : k # p => g[k] = f[k]
  OBVIOUS
<1> HIDE DEF g
<1>2. 0 \in shifted
  <2>1. \A s \in Small(0) : s = {} /\ s \in Parts
    BY PartsAreFinite, FS_EmptySet DEF Small
  <2>2. Sums(g)[{}] = 0 /\ Sums(f)[{}] = 0
    BY <1>1, SumsSolve DEF Folded, Parts
  <2>3. ASSUME NEW s \in Small(0)
        PROVE  Sums(g)[s] = Sums(f)[s] + (IF p \in s THEN x - f[p] ELSE 0)
    <3>1. p \notin s
      BY <2>1
    <3>2. Sums(g)[s] = 0 /\ Sums(f)[s] = 0
      BY <2>1, <2>2
    <3> QED
      BY <3>1, <3>2
  <2> QED
    BY <2>3
<1>3. ASSUME NEW m \in Nat, m \in shifted PROVE m + 1 \in shifted
  <2> SUFFICES ASSUME NEW s \in Small(m + 1)
               PROVE  Sums(g)[s] = Sums(f)[s] + (IF p \in s THEN x - f[p] ELSE 0)
    OBVIOUS
  <2>1. CASE s = {}
    <3>1. Sums(g)[{}] = 0 /\ Sums(f)[{}] = 0
      BY <1>1, SumsSolve DEF Folded, Parts
    <3> QED
      BY <2>1, <3>1
  <2>2. CASE s # {}
    <3>1. s \in Parts /\ One(s) \in s /\ One(s) \in Positions /\ Rest(s) \in Small(m) /\ Rest(s) \in Parts
      BY <2>2, RestIsSmaller, PartsAreFinite DEF Small
    <3>2. Sums(g)[s] = g[One(s)] + Sums(g)[Rest(s)] /\ Sums(f)[s] = f[One(s)] + Sums(f)[Rest(s)]
      BY <1>1, <2>2, <3>1, SumsSolve DEF Folded
    <3>3. Sums(g)[Rest(s)] = Sums(f)[Rest(s)] + (IF p \in Rest(s) THEN x - f[p] ELSE 0)
      BY <1>3, <3>1
    <3>4. p \in Rest(s) <=> p \in s /\ p # One(s)
      BY DEF Rest
    <3>5. Sums(f)[Rest(s)] \in Int /\ f[One(s)] \in Int /\ f[p] \in Int
      BY <3>1, SumsSolve
    <3>6. CASE p = One(s)
      BY <1>1, <3>1, <3>2, <3>3, <3>4, <3>5, <3>6
    <3>7. CASE p # One(s)
      <4>1. g[One(s)] = f[One(s)]
        BY <1>1, <3>1, <3>7
      <4> QED
        BY <3>2, <3>3, <3>4, <3>5, <3>7, <4>1
    <3> QED
      BY <3>6, <3>7
  <2> QED
    BY <2>1, <2>2
<1>4. Cardinality(Positions) \in Nat /\ Positions \in Small(Cardinality(Positions))
  BY PartsAreFinite DEF Small
<1> HIDE DEF shifted
<1>5. Cardinality(Positions) \in shifted
  BY <1>2, <1>3, <1>4, NatInduct
<1>6. Sums(g)[Positions] = Sums(f)[Positions] + (x - f[p])
  BY <1>4, <1>5 DEF shifted
<1>7. Sums(f)[Positions] \in Int /\ f[p] \in Int
  BY SumsSolve, PartsAreFinite
<1> QED
  BY <1>6, <1>7 DEF g

\* The sum of a ring that holds nothing.
LEMMA EmptySum ==
  ASSUME NEW f \in [Positions -> Int], \A k \in Positions : f[k] = 0
  PROVE  Sums(f)[Positions] = 0
<1> DEFINE nothing == {m \in Nat : \A s \in Small(m) : Sums(f)[s] = 0}
<1>1. 0 \in nothing
  <2>1. \A s \in Small(0) : s = {} /\ s \in Parts
    BY PartsAreFinite, FS_EmptySet DEF Small
  <2> QED
    BY <2>1, SumsSolve DEF Folded
<1>2. ASSUME NEW m \in Nat, m \in nothing PROVE m + 1 \in nothing
  <2>1. \A s \in Small(m + 1) : s \in Parts /\ (s # {} => Rest(s) \in Small(m) /\ One(s) \in Positions)
    BY RestIsSmaller, PartsAreFinite DEF Small
  <2> QED
    BY <1>2, <2>1, SumsSolve DEF Folded
<1> HIDE DEF nothing
<1>3. \A m \in Nat : m \in nothing
  BY <1>1, <1>2, NatInduct
<1>4. Cardinality(Positions) \in Nat /\ Positions \in Small(Cardinality(Positions))
  BY PartsAreFinite DEF Small
<1> QED
  BY <1>3, <1>4 DEF nothing

\* The totals are sums of the slots, as functions of the ring; the model's properties
\* write them as folds.
TotalsInv ==
  /\ speedring.bytestotal = Sums(speedring.bytes)[Positions]
  /\ speedring.timestotal = Sums(speedring.times)[Positions]

LEMMA TotalsInit == Init => TotalsInv
<1> SUFFICES ASSUME Init PROVE TotalsInv
  OBVIOUS
<1>1. /\ speedring.bytes = [k \in Positions |-> 0] /\ speedring.times = [k \in Positions |-> 0]
      /\ speedring.bytestotal = 0 /\ speedring.timestotal = 0
  BY DEF Init
<1>2. Sums([k \in Positions |-> 0])[Positions] = 0
  BY EmptySum
<1> QED
  BY <1>1, <1>2 DEF TotalsInv

LEMMA TotalsStep == StatusInv /\ TotalsInv /\ [Next]_vars => TotalsInv'
<1> SUFFICES ASSUME StatusInv, TotalsInv, [Next]_vars PROVE TotalsInv'
  OBVIOUS
<1>0. speedring \in Rings /\ now \in Nat /\ round_done \in Nat
  BY RingTypes, Numbers
<1>1. CASE UNCHANGED speedring
  BY <1>1 DEF TotalsInv
<1>2. CASE speedring' = [speedring EXCEPT !.timeslast = now]
  <2>1. /\ speedring'.bytes = speedring.bytes /\ speedring'.times = speedring.times
        /\ speedring'.bytestotal = speedring.bytestotal
        /\ speedring'.timestotal = speedring.timestotal
    BY <1>0, <1>2 DEF Rings
  <2> QED
    BY <2>1 DEF TotalsInv
<1>3. CASE speedring' = Advanced(speedring, round_done, now)
  <2> DEFINE p == speedring.position
             d == round_done - speedring.byteslast
             e == now - speedring.timeslast
  <2>1. /\ speedring'.bytes = [speedring.bytes EXCEPT ![p] = d]
        /\ speedring'.times = [speedring.times EXCEPT ![p] = e]
        /\ speedring'.bytestotal = (speedring.bytestotal - speedring.bytes[p]) + d
        /\ speedring'.timestotal = (speedring.timestotal - speedring.times[p]) + e
    BY <1>0, <1>3, RecordedFields DEF Stored
  <2>2. /\ speedring.bytes \in [Positions -> Int] /\ speedring.times \in [Positions -> Int]
        /\ p \in Positions /\ d \in Int /\ e \in Int
    BY <1>0 DEF Rings
  <2> HIDE DEF p, d, e
  <2>3. /\ Sums([speedring.bytes EXCEPT ![p] = d])[Positions]
             = (Sums(speedring.bytes)[Positions] - speedring.bytes[p]) + d
        /\ Sums([speedring.times EXCEPT ![p] = e])[Positions]
             = (Sums(speedring.times)[Positions] - speedring.times[p]) + e
    BY <2>2, StoredSum
  <2> QED
    BY <2>1, <2>3 DEF TotalsInv
<1>4. \/ UNCHANGED speedring
      \/ speedring' = [speedring EXCEPT !.timeslast = now]
      \/ speedring' = Advanced(speedring, round_done, now)
  BY DEF Next, Tick, Reaped, ReadClock, Key, Sample, Estimate, Stopped, vars, Advanced
<1> QED
  BY <1>1, <1>2, <1>3, <1>4

-----------------------------------------------------------------------------
\* The totals, unsigned in C, never go below zero, and the estimate never divides a
\* negative number: progress never passes the size of the round (gui.c:1585).
THEOREM StatusTypes == Spec => []TypeOK
<1>1. StatusInv => TypeOK
  <2> SUFFICES ASSUME StatusInv PROVE TypeOK
    OBVIOUS
  <2>1. offset \in 0 .. Count
    BY StatusAssumption DEF StatusInv, ScrollInv, ScrollInRange
  <2> QED
    BY <2>1 DEF TypeOK, StatusInv, ClockInv, SamplesInv, Samples, RingInv, Rings
<1> QED
  BY <1>1, StatusAlways, PTL

\* The totals of the ring, kept by adding and subtracting for the whole wipe, are
\* those of the last samples that fit into it, for every size of the ring and
\* however often it wraps (gui.c:1762-1786).
THEOREM TotalsAlwaysSpanWindow == Spec => []TotalsSpanWindow
<1>1. StatusInv => TotalsSpanWindow
  <2>1. StatusInv => Len(samples) \in Nat /\ (samples # <<>> => Len(samples) # 0)
    BY DEF StatusInv, SamplesInv, Samples
  <2> QED
    BY <2>1 DEF StatusInv, RingInv, TotalsSpanWindow, Oldest
<1> QED
  BY <1>1, StatusAlways, PTL

\* No key scrolls the status window beyond the devices, for every number of devices
\* and lines (gui.c:1530-1560).
THEOREM ScrollAlwaysInRange == Spec => []ScrollInRange
<1>1. StatusInv => ScrollInRange
  BY DEF StatusInv, ScrollInv
<1> QED
  BY <1>1, StatusAlways, PTL

\* The totals of the ring equal the sums of its slots, which the code never adds up,
\* for every size of the ring: what is taken out is what had been put in
\* (gui.c:1762-1786).
THEOREM TotalsAlwaysSums == Spec => []TotalsAreSums
<1>1. TotalsInv => TotalsAreSums
  <2>1. \A f : MapThenSumSet(LAMBDA k : f[k], Positions) = Sums(f)[Positions]
    BY TotalIsFold
  <2> QED
    BY <2>1 DEF TotalsInv, TotalsAreSums
<1> QED
  BY <1>1, StatusAlways, TotalsInit, TotalsStep, PTL DEF Spec
-----------------------------------------------------------------------------
\* Over the remembered samples fewer bytes went by than seconds.
Stalled ==
  /\ samples # <<>>
  /\ LET n == Len(samples)
     IN  samples[n].bytes - samples[Oldest(n)].bytes < samples[n].at - samples[Oldest(n)].at

\* The parent that has died was dividing by the average of the ring it left.
DeadInv == pc = "dead" => speedring.timestotal # 0 /\ Average = 0

LEMMA DeadStep == DeadInv /\ [Next]_vars => DeadInv'
<1> SUFFICES ASSUME DeadInv, [Next]_vars PROVE DeadInv'
  OBVIOUS
<1>1. CASE Estimate
  BY <1>1 DEF Estimate, DeadInv, Average
<1>2. CASE UNCHANGED vars
  BY <1>2 DEF vars, DeadInv, Average
<1>3. [Next]_vars => Estimate \/ UNCHANGED vars \/ pc' # "dead"
  BY DEF Next, Tick, Reaped, ReadClock, Key, Sample, Stopped
<1> QED
  BY <1>1, <1>2, <1>3 DEF DeadInv

\* A quotient of zero.
LEMMA ZeroAverage ==
  ASSUME NEW a \in Nat, NEW b \in Nat \ {0}, a \div b = 0
  PROVE  a < b
OBVIOUS

\* The status window traps only after a stall as long as the ring remembers: a
\* process that moved as many bytes as seconds went by never kills the parent, for
\* every size and granularity of the ring (gui.c:1579-1585).
THEOREM DiesOnlyWhenStalled == Spec => [](pc = "dead" => Stalled)
<1>1. StatusInv /\ DeadInv => (pc = "dead" => Stalled)
  <2> SUFFICES ASSUME StatusInv, DeadInv, pc = "dead" PROVE Stalled
    OBVIOUS
  <2>1. speedring.timestotal \in Nat \ {0} /\ speedring.bytestotal \in Nat
    BY DEF StatusInv, RingInv, Rings, DeadInv
  <2>2. speedring.bytestotal < speedring.timestotal
    BY <2>1, ZeroAverage DEF DeadInv, Average
  <2>3. Len(samples) # 0
    BY <2>1 DEF StatusInv, RingInv
  <2>4. samples # <<>>
    BY <2>3, Numbers DEF Samples
  <2> QED
    BY <2>2, <2>3, <2>4 DEF Stalled, StatusInv, RingInv
<1>2. Init => DeadInv
  BY DEF Init, DeadInv
<1> QED
  BY <1>1, <1>2, DeadStep, StatusAlways, PTL DEF Spec
=============================================================================
