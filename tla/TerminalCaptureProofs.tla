----------------------- MODULE TerminalCaptureProofs -----------------------
(***************************************************************************)
(* Proofs about TerminalCapture.  The limits need a lemma about what the   *)
(* code does when the window is full: it empties executions that have      *)
(* ended and cuts the writer by what is still over.  That suffices because *)
(* all but the writer were within the limit before the step, so that what  *)
(* is over is never more than the writer holds; which of the ended ones    *)
(* were emptied, and in which order, does not matter.                      *)
(***************************************************************************)
EXTENDS TerminalCapture, DataTheorems, TLAPS

\* What WithinWindow may do to an execution: it forgets characters and tells so.
Shortened(x, y) ==
    /\ y \in Kept /\ x.dropped <= y.dropped /\ y.dropped <= y.total
    /\ y.terminal = x.terminal /\ y.recorded = x.recorded /\ y.running = x.running
    /\ y.total = x.total /\ y.streamEnded = x.streamEnded

\* What is kept of an output has a size.
LEMMA BytesType ==
    ASSUME NEW x \in Kept
    PROVE  Bytes(x) \in Nat
<1>1. x.dropped..(x.total - 1) \subseteq 0..MaxTotal
  BY CaptureAssumption DEF Kept
<1>2. IsFiniteSet(x.dropped..(x.total - 1))
  BY FS_Interval, CaptureAssumption DEF Kept
<1>3. \A n \in x.dropped..(x.total - 1) : Width[n] \in Nat
  BY <1>1, CaptureAssumption
<1> QED BY <1>2, <1>3, SumType DEF Bytes

\* An output that forgets characters gets no bigger.
LEMMA BytesShrink ==
    ASSUME NEW x \in Kept, NEW y \in Kept, Shortened(x, y)
    PROVE  Bytes(y) <= Bytes(x)
<1>1. x.dropped..(x.total - 1) \subseteq 0..MaxTotal
  BY SMTT(30), CaptureAssumption DEF Kept
<1>2. IsFiniteSet(x.dropped..(x.total - 1))
  BY FS_Interval, CaptureAssumption DEF Kept
<1>3. \A n \in x.dropped..(x.total - 1) : Width[n] \in Nat
  BY <1>1, CaptureAssumption
<1>4. y.dropped..(y.total - 1) \subseteq x.dropped..(x.total - 1)
  BY CaptureAssumption DEF Kept, Shortened
<1> QED BY <1>2, <1>3, <1>4, SumOfPart DEF Bytes

\* An output that has forgotten everything is empty.
LEMMA BytesOfEmptied ==
    ASSUME NEW x \in Kept, x.dropped = x.total
    PROVE  Bytes(x) = 0
<1>1. x.dropped..(x.total - 1) = {}
  BY CaptureAssumption DEF Kept
<1> QED BY <1>1, SumOfNone DEF Bytes

\* #enforceWindowLimit: an execution that is emptied holds nothing.
LEMMA EvictedHoldsNothing ==
    ASSUME NEW x \in Kept, x.dropped <= x.total
    PROVE  Shortened(x, Evicted(x)) /\ Bytes(Evicted(x)) = 0
<1>1. Evicted(x) \in Kept /\ Evicted(x).dropped = Evicted(x).total
  BY DEF Kept, Evicted
<1>2. Shortened(x, Evicted(x))
  BY <1>1, CaptureAssumption DEF Kept, Evicted, Shortened
<1> QED BY <1>1, <1>2, BytesOfEmptied

\* #trimExecution: an output can be cut to any size, and is.
LEMMA TrimmedFits ==
    ASSUME NEW x \in Kept, x.dropped <= x.total, NEW max \in Nat
    PROVE  Shortened(x, Trimmed(x, max)) /\ Bytes(Trimmed(x, max)) <= max
<1> DEFINE cut(d) == [x EXCEPT !.dropped = d]
           range == x.dropped..x.total
           fits == {d \in range : Bytes(cut(d)) <= max}
<1>1. range \subseteq 0..MaxTotal
  BY CaptureAssumption DEF Kept
<1>2. \A d \in range : cut(d) \in Kept /\ Shortened(x, cut(d))
  BY SMTT(30), <1>1, CaptureAssumption DEF Kept, Shortened
<1>3. x.total \in range /\ Bytes(cut(x.total)) = 0
  <2>1. x.total \in range
    BY CaptureAssumption DEF Kept
  <2>2. cut(x.total).dropped = cut(x.total).total
    BY DEF Kept
  <2> QED BY <2>1, <2>2, <1>2, BytesOfEmptied
<1>4. x.total \in fits /\ fits \in SUBSET Nat
  BY SMTT(30), <1>1, <1>3, CaptureAssumption
<1>5. PICK d \in fits : \A c \in fits : d <= c
  <2> HIDE DEF fits
  <2> QED BY <1>4, LeastElement
<1>6. ASSUME NEW c \in x.dropped..(d - 1) PROVE Bytes(cut(c)) > max
  <2>1. c \in range /\ ~ (d <= c)
    BY CaptureAssumption, <1>5 DEF Kept
  <2>2. c \notin fits
    BY <2>1, <1>5
  <2>3. Bytes(cut(c)) \in Nat
    BY <2>1, <1>2, BytesType
  <2> QED BY <2>1, <2>2, <2>3
<1>7. \E e \in range : /\ Bytes(cut(e)) <= max
                       /\ \A c \in x.dropped..(e - 1) : Bytes(cut(c)) > max
  BY <1>5, <1>6
<1>8. PICK e \in range : Trimmed(x, max) = cut(e) /\ Bytes(cut(e)) <= max
  BY <1>7 DEF Trimmed
<1> QED BY <1>2, <1>8

\* #enforceWindowLimit: whichever executions are emptied, when all but the writer were within the
\* limit of the window, all are once the writer has given up what is over.
LEMMA WindowFits ==
    ASSUME IsFiniteSet(Recorded), NEW e \in Recorded,
           NEW xs \in [Executions -> Kept], \A f \in Executions : xs[f].dropped <= xs[f].total,
           Held(xs, Recorded \ {e}) <= WindowBytes
    PROVE  /\ WithinWindow(xs, e) \in [Executions -> Kept]
           /\ \A f \in Executions : Shortened(xs[f], WithinWindow(xs, e)[f])
           /\ Held(WithinWindow(xs, e), Recorded) <= WindowBytes
<1> DEFINE total(k, victims) == Held(xs, Recorded \ {victims[n] : n \in 1..k})
           victims == SelectSeq(ended, LAMBDA f : xs[f].dropped < xs[f].total)
           fits == {k \in 0..Len(victims) : total(k, victims) <= WindowBytes}
           out == IF fits = {} THEN ToSet(victims) ELSE {victims[n] : n \in 1..Min(fits)}
           kept == [f \in Executions |-> IF f \in out THEN Evicted(xs[f]) ELSE xs[f]]
           over == Held(kept, Recorded) - WindowBytes
           limit == IF Bytes(kept[e]) > over THEN Bytes(kept[e]) - over ELSE 0
           trimmed == [kept EXCEPT ![e] = Trimmed(@, limit)]
<1>1. WithinWindow(xs, e) = IF over <= 0 THEN kept ELSE trimmed
  BY DEF WithinWindow
<1> HIDE DEF out
<1>2. \A f \in Executions : kept[f] \in Kept /\ Shortened(xs[f], kept[f])
  <2> SUFFICES ASSUME NEW f \in Executions PROVE kept[f] \in Kept /\ Shortened(xs[f], kept[f])
    OBVIOUS
  <2>1. Shortened(xs[f], xs[f])
    BY CaptureAssumption DEF Shortened, Kept
  <2>2. Shortened(xs[f], Evicted(xs[f]))
    BY EvictedHoldsNothing
  <2> QED BY <2>1, <2>2 DEF Shortened
<1>3. kept \in [Executions -> Kept]
  BY <1>2
<1> HIDE DEF kept
<1> DEFINE others == Recorded \ {e}
<1>4. IsFiniteSet(others) /\ e \in Executions /\ Recorded \subseteq Executions
  BY FS_RemoveElement DEF Recorded
<1>5. \A f \in Executions : Bytes(kept[f]) \in Nat /\ Bytes(xs[f]) \in Nat /\ Bytes(kept[f]) <= Bytes(xs[f])
  BY <1>2, BytesType, BytesShrink
<1>6. Held(kept, others) <= Held(xs, others) /\ Held(kept, others) \in Nat /\ Held(xs, others) \in Nat
  <2> DEFINE g == [f \in Executions |-> Bytes(kept[f])]
             h == [f \in Executions |-> Bytes(xs[f])]
  <2>1. \A f \in others : g[f] \in Nat /\ h[f] \in Nat /\ g[f] <= h[f]
    BY <1>4, <1>5
  <2> HIDE DEF g, h
  <2>2. /\ SumFunctionOnSet(g, others) <= SumFunctionOnSet(h, others)
        /\ SumFunctionOnSet(g, others) \in Nat /\ SumFunctionOnSet(h, others) \in Nat
    BY <2>1, <1>4, SumMonotone, SumType
  <2> QED BY <2>2 DEF Held, g, h
<1>7. Held(kept, Recorded) = Bytes(kept[e]) + Held(kept, others)
  <2> DEFINE g == [f \in Executions |-> Bytes(kept[f])]
  <2>1. \A f \in Recorded : g[f] \in Nat
    BY <1>4, <1>5
  <2>2. g[e] = Bytes(kept[e])
    BY <1>4
  <2> HIDE DEF g
  <2>3. SumFunctionOnSet(g, Recorded) = g[e] + SumFunctionOnSet(g, others)
    BY <2>1, SumRemove
  <2> QED BY <2>2, <2>3 DEF Held, g
<1>8. CASE over <= 0
  <2>1. Held(kept, Recorded) <= WindowBytes
    BY <1>5, <1>6, <1>7, <1>8, <1>4, CaptureAssumption
  <2> QED BY <1>1, <1>2, <1>3, <1>8, <2>1
<1>9. CASE ~ (over <= 0)
  <2>1. over \in Nat /\ over <= Bytes(kept[e]) /\ limit \in Nat /\ limit = Bytes(kept[e]) - over
    BY SMTT(30), <1>4, <1>5, <1>6, <1>7, <1>9, CaptureAssumption
  <2>2. kept[e] \in Kept /\ kept[e].dropped <= kept[e].total
    BY <1>2, <1>4 DEF Shortened, Kept
  <2> HIDE DEF limit, over
  <2>3. Shortened(kept[e], Trimmed(kept[e], limit)) /\ Bytes(Trimmed(kept[e], limit)) <= limit
    BY <2>1, <2>2, TrimmedFits
  <2>4. /\ trimmed \in [Executions -> Kept] /\ trimmed[e] = Trimmed(kept[e], limit)
        /\ \A f \in Executions \ {e} : trimmed[f] = kept[f]
    BY <1>3, <1>4, <2>3 DEF Shortened
  <2> HIDE DEF trimmed
  <2>5. \A f \in Executions : Shortened(xs[f], trimmed[f])
    <3> SUFFICES ASSUME NEW f \in Executions PROVE Shortened(xs[f], trimmed[f])
      OBVIOUS
    <3>1. CASE f # e
      BY <3>1, <2>4, <1>2
    <3>2. CASE f = e
      <4>1. Shortened(xs[e], kept[e]) /\ Shortened(kept[e], trimmed[e])
        BY <3>2, <1>2, <2>3, <2>4
      <4>2. xs[e].dropped \in Nat /\ kept[e].dropped \in Nat /\ trimmed[e].dropped \in Nat
        BY <1>4, <1>3, <2>4, CaptureAssumption DEF Kept
      <4> QED BY <3>2, <4>1, <4>2 DEF Shortened
    <3> QED BY <3>1, <3>2
  <2>6. Held(trimmed, others) = Held(kept, others)
    <3> DEFINE g == [f \in Executions |-> Bytes(kept[f])]
               h == [f \in Executions |-> Bytes(trimmed[f])]
    <3>1. \A f \in others : g[f] = h[f]
      BY <1>4, <2>4
    <3> HIDE DEF g, h
    <3>2. SumFunctionOnSet(g, others) = SumFunctionOnSet(h, others)
      BY <3>1, <1>4, SumCongruence
    <3> QED BY <3>2 DEF Held, g, h
  <2>7. Held(trimmed, Recorded) = Bytes(trimmed[e]) + Held(trimmed, others) /\ Bytes(trimmed[e]) \in Nat
    <3> DEFINE g == [f \in Executions |-> Bytes(trimmed[f])]
    <3>1. \A f \in Executions : Bytes(trimmed[f]) \in Nat
      BY <2>4, BytesType
    <3>2. \A f \in Recorded : g[f] \in Nat
      BY <1>4, <3>1
    <3>3. g[e] = Bytes(trimmed[e])
      BY <1>4
    <3> HIDE DEF g
    <3>4. SumFunctionOnSet(g, Recorded) = g[e] + SumFunctionOnSet(g, others)
      BY <3>2, SumRemove
    <3> QED BY <1>4, <3>1, <3>3, <3>4 DEF Held, g
  <2>8. Bytes(trimmed[e]) <= Bytes(kept[e]) - over
    BY <2>1, <2>3, <2>4
  <2>9. Held(trimmed, Recorded) <= Bytes(kept[e]) - over + Held(kept, others)
    BY <2>1, <2>6, <2>7, <2>8, <1>5, <1>6, <1>4
  <2>10. Bytes(kept[e]) - over + Held(kept, others) = WindowBytes
    BY <1>4, <1>5, <1>6, <1>7, CaptureAssumption DEF over
  <2>11. Held(trimmed, Recorded) <= WindowBytes
    BY <2>9, <2>10
  <2>12. WithinWindow(xs, e) = trimmed
    BY <1>1, <1>9 DEF over
  <2> QED BY <2>4, <2>5, <2>11, <2>12
<1> QED BY <1>8, <1>9

\* An execution that is recorded has a stream, whose end it knows of only after it; a reader that was
\* told so stands at the end of an output that has ended.
Consistent ==
    /\ IsFiniteSet(Recorded)
    /\ \A e \in Executions : execution[e].dropped <= execution[e].total
    /\ \A e \in Recorded : /\ stream[e] # "none"
                           /\ execution[e].streamEnded => stream[e] = "ended"
    /\ reader.told => /\ reader.of \in Recorded /\ execution[reader.of].streamEnded
                      /\ reader.cursor = execution[reader.of].total

\* The inductive invariant
CaptureInv == TypeOK /\ Consistent /\ MemoryBounded /\ Private

\* appendOutput keeps both limits, and of the other executions all but characters.
LEMMA AppendedFits ==
    ASSUME TypeOK, Consistent, MemoryBounded, NEW e \in Recorded, NEW n \in Nat,
           execution[e].total + n <= MaxTotal
    PROVE  /\ Appended(e, n) \in [Executions -> Kept]
           /\ \A f \in Executions :
                 /\ Appended(e, n)[f].dropped <= Appended(e, n)[f].total
                 /\ Appended(e, n)[f].terminal = execution[f].terminal
                 /\ Appended(e, n)[f].recorded = execution[f].recorded
                 /\ Appended(e, n)[f].running = execution[f].running
                 /\ Appended(e, n)[f].streamEnded = execution[f].streamEnded
                 /\ f # e => Appended(e, n)[f].total = execution[f].total
           /\ \A f \in Recorded : Bytes(Appended(e, n)[f]) <= ExecutionBytes
           /\ Held(Appended(e, n), Recorded) <= WindowBytes
<1> DEFINE x == [execution[e] EXCEPT !.total = @ + n]
           xs == [execution EXCEPT ![e] = Trimmed(x, ExecutionBytes)]
           others == Recorded \ {e}
<1>1. e \in Executions /\ Recorded \subseteq Executions /\ IsFiniteSet(others)
  BY FS_RemoveElement DEF Recorded, Consistent
<1>2. x \in Kept /\ x.dropped <= x.total
  <2>1. execution[e] \in Kept /\ execution[e].dropped <= execution[e].total
    BY <1>1 DEF TypeOK, Consistent
  <2>2. execution[e].total + n \in 0..MaxTotal
    BY <2>1, CaptureAssumption DEF Kept
  <2>3. x \in Kept /\ x.dropped = execution[e].dropped /\ x.total = execution[e].total + n
    BY <2>1, <2>2 DEF Kept
  <2>4. execution[e].dropped \in Nat /\ execution[e].total \in Nat
    BY <2>1, CaptureAssumption DEF Kept
  <2> HIDE DEF x
  <2> QED BY <2>1, <2>3, <2>4
<1>3. Shortened(x, Trimmed(x, ExecutionBytes)) /\ Bytes(Trimmed(x, ExecutionBytes)) <= ExecutionBytes
  BY <1>2, TrimmedFits, CaptureAssumption
<1>4. /\ xs \in [Executions -> Kept] /\ xs[e] = Trimmed(x, ExecutionBytes)
      /\ \A f \in Executions \ {e} : xs[f] = execution[f]
  BY <1>1, <1>3 DEF TypeOK, Shortened
<1>5. \A f \in Executions : xs[f].dropped <= xs[f].total
  BY <1>3, <1>4 DEF Consistent, Shortened
<1>6. \A f \in Recorded : Bytes(xs[f]) <= ExecutionBytes
  BY <1>1, <1>3, <1>4 DEF MemoryBounded
<1>7. Held(xs, others) <= WindowBytes
  <2> DEFINE g == [f \in Executions |-> Bytes(execution[f])]
             h == [f \in Executions |-> Bytes(xs[f])]
  <2>1. \A f \in others : g[f] = h[f]
    BY <1>1, <1>4
  <2>2. \A f \in Recorded : g[f] \in Nat
    BY <1>1, BytesType DEF TypeOK
  <2>3. SumFunctionOnSet(g, Recorded) <= WindowBytes
    BY DEF MemoryBounded, Held
  <2> HIDE DEF g, h
  <2>4. SumFunctionOnSet(g, others) <= SumFunctionOnSet(g, Recorded)
    BY <2>2, SumOfPart DEF Consistent
  <2>5. SumFunctionOnSet(g, others) = SumFunctionOnSet(h, others)
    BY <2>1, <1>1, SumCongruence
  <2>6. SumFunctionOnSet(g, Recorded) \in Nat /\ SumFunctionOnSet(g, others) \in Nat
    BY <2>2, <1>1, SumType DEF Consistent
  <2>7. SumFunctionOnSet(h, others) <= WindowBytes
    BY <2>3, <2>4, <2>5, <2>6, CaptureAssumption
  <2> QED BY <2>7 DEF Held, h
<1>8. Appended(e, n) = WithinWindow(xs, e)
  BY DEF Appended
<1> DEFINE ys == WithinWindow(xs, e)
<1> HIDE DEF xs
<1>9. /\ ys \in [Executions -> Kept]
      /\ \A f \in Executions : Shortened(xs[f], ys[f])
      /\ Held(ys, Recorded) <= WindowBytes
  BY <1>4, <1>5, <1>7, WindowFits DEF Consistent
<1> HIDE DEF ys
<1>10. \A f \in Recorded : Bytes(ys[f]) <= ExecutionBytes
  <2> SUFFICES ASSUME NEW f \in Recorded PROVE Bytes(ys[f]) <= ExecutionBytes
    OBVIOUS
  <2>1. Bytes(ys[f]) <= Bytes(xs[f]) /\ Bytes(ys[f]) \in Nat /\ Bytes(xs[f]) \in Nat
    BY <1>1, <1>4, <1>9, BytesShrink, BytesType
  <2>2. Bytes(xs[f]) <= ExecutionBytes
    BY <1>6
  <2> QED BY <2>1, <2>2, CaptureAssumption
<1>11. ASSUME NEW f \in Executions
       PROVE  /\ ys[f].dropped <= ys[f].total
              /\ ys[f].terminal = execution[f].terminal
              /\ ys[f].recorded = execution[f].recorded
              /\ ys[f].running = execution[f].running
              /\ ys[f].streamEnded = execution[f].streamEnded
              /\ f # e => ys[f].total = execution[f].total
  <2>1. CASE f # e
    BY <2>1, <1>4, <1>9 DEF Shortened
  <2>2. CASE f = e
    <3>1. Shortened(x, xs[e]) /\ Shortened(xs[e], ys[e])
      BY <1>1, <1>3, <1>4, <1>9
    <3>2. /\ x.terminal = execution[e].terminal /\ x.recorded = execution[e].recorded
          /\ x.running = execution[e].running /\ x.streamEnded = execution[e].streamEnded
      BY <1>1 DEF TypeOK, Kept
    <3> QED BY <2>2, <3>1, <3>2 DEF Shortened
  <2> QED BY <2>1, <2>2
<1>12. Appended(e, n) = ys
  BY <1>8 DEF ys
<1> QED BY <1>9, <1>10, <1>11, <1>12

\* The limits survive a step that adds no more than an empty execution and enlarges none.
LEMMA BoundKept ==
    ASSUME TypeOK, Consistent, MemoryBounded, execution' \in [Executions -> Kept],
           NEW z \in Executions, Recorded' \subseteq Recorded \cup {z},
           \A f \in Recorded' : \/ Bytes(execution'[f]) = 0
                                \/ f \in Recorded /\ Bytes(execution'[f]) <= Bytes(execution[f])
    PROVE  MemoryBounded'
<1> DEFINE g == [f \in Executions |-> Bytes(execution[f])]
           h == [f \in Executions |-> IF f \in Recorded THEN Bytes(execution[f]) ELSE 0]
           k == [f \in Executions |-> Bytes(execution'[f])]
           S == Recorded \cup {z}
<1>1. Recorded \subseteq Executions /\ Recorded' \subseteq Executions
  BY DEF Recorded
<1>2. IsFiniteSet(Recorded) /\ IsFiniteSet(S) /\ IsFiniteSet(Recorded')
  BY FS_AddElement, FS_Subset DEF Consistent
<1>3. \A f \in Executions : Bytes(execution[f]) \in Nat /\ Bytes(execution'[f]) \in Nat
  BY BytesType DEF TypeOK
<1>4. \A f \in Executions : g[f] \in Nat /\ h[f] \in Nat /\ k[f] \in Nat
  BY <1>3
<1>5. \A f \in Recorded' : k[f] <= h[f]
  BY <1>1, <1>3
<1>6. \A f \in Recorded : g[f] = h[f]
  BY <1>1
<1>7. z \notin Recorded => h[z] = 0
  BY <1>1
<1>8. ASSUME NEW f \in Recorded' PROVE Bytes(execution'[f]) <= ExecutionBytes
  <2>1. CASE Bytes(execution'[f]) = 0
    BY <2>1, CaptureAssumption
  <2>2. CASE f \in Recorded /\ Bytes(execution'[f]) <= Bytes(execution[f])
    <3>1. Bytes(execution[f]) <= ExecutionBytes
      BY <2>2 DEF MemoryBounded
    <3> QED BY <2>2, <3>1, <1>1, <1>3, CaptureAssumption
  <2> QED BY <2>1, <2>2
<1>9. SumFunctionOnSet(g, Recorded) <= WindowBytes
  BY DEF MemoryBounded, Held
<1> HIDE DEF g, h, k
<1>10. SumFunctionOnSet(k, Recorded') <= SumFunctionOnSet(h, Recorded')
  BY <1>1, <1>2, <1>4, <1>5, SumMonotone
<1>11. SumFunctionOnSet(h, Recorded') <= SumFunctionOnSet(h, S)
  <2>1. \A f \in S : h[f] \in Nat
    BY <1>1, <1>4
  <2> QED BY <1>2, <2>1, SumOfPart
<1>12. SumFunctionOnSet(h, Recorded) = SumFunctionOnSet(g, Recorded)
  BY <1>2, <1>6, SumCongruence
<1>13. /\ SumFunctionOnSet(k, Recorded') \in Nat /\ SumFunctionOnSet(h, Recorded') \in Nat
       /\ SumFunctionOnSet(h, S) \in Nat /\ SumFunctionOnSet(h, Recorded) \in Nat
  <2>1. \A f \in S : h[f] \in Nat
    BY <1>1, <1>4
  <2>2. (\A f \in Recorded' : k[f] \in Nat /\ h[f] \in Nat) /\ \A f \in Recorded : h[f] \in Nat
    BY <1>1, <1>4
  <2> QED BY <1>2, <2>1, <2>2, SumType
<1>14. SumFunctionOnSet(h, S) = SumFunctionOnSet(h, Recorded)
  <2>1. CASE z \in Recorded
    <3>1. S = Recorded
      BY <2>1
    <3> QED BY <3>1
  <2>2. CASE z \notin Recorded
    <3>1. S \ {z} = Recorded /\ z \in S
      BY <2>2
    <3>2. \A f \in S : h[f] \in Nat
      BY <1>1, <1>4
    <3>3. SumFunctionOnSet(h, S) = h[z] + SumFunctionOnSet(h, S \ {z})
      BY <1>2, <3>1, <3>2, SumRemove
    <3>4. SumFunctionOnSet(h, S) = 0 + SumFunctionOnSet(h, Recorded)
      BY <2>2, <3>1, <3>3, <1>7
    <3> QED BY <3>4, <1>13
  <2> QED BY <2>1, <2>2
<1>15. SumFunctionOnSet(k, Recorded') <= WindowBytes
  BY <1>9, <1>10, <1>11, <1>12, <1>13, <1>14, CaptureAssumption
<1>16. Held(execution', Recorded') <= WindowBytes
  BY <1>15 DEF Held, k
<1> QED BY <1>8, <1>16 DEF MemoryBounded

\* Executions that are removed take their readers along, and nothing else changes.
LEMMA ForgottenKeeps ==
    ASSUME CaptureInv, NEW gone \in SUBSET Recorded, Forgotten(gone), UNCHANGED stream
    PROVE  /\ execution' \in [Executions -> Kept]
           /\ reader' \in [of : Executions \cup {Nil}, cursor : 0..MaxTotal, told : BOOLEAN]
           /\ Consistent' /\ MemoryBounded' /\ Recorded' = Recorded \ gone
<1>1. execution' \in [Executions -> Kept] /\ \A e \in Executions : ~ NoExecution.recorded
  BY CaptureAssumption DEF CaptureInv, TypeOK, Kept, NoExecution, Forgotten
<1>2. Recorded' = Recorded \ gone
  BY <1>1 DEF CaptureInv, TypeOK, Forgotten, Recorded, NoExecution
<1>3. reader' \in [of : Executions \cup {Nil}, cursor : 0..MaxTotal, told : BOOLEAN]
  BY CaptureAssumption DEF CaptureInv, TypeOK, Forgotten, NoReader
<1>4. \A e \in Recorded' : execution'[e] = execution[e]
  BY <1>2 DEF Forgotten, Recorded
<1>5. Consistent'
  <2>1. IsFiniteSet(Recorded')
    BY <1>2, FS_Subset DEF CaptureInv, Consistent
  <2>2. \A e \in Executions : execution'[e].dropped <= execution'[e].total
    BY DEF CaptureInv, Consistent, Forgotten, NoExecution
  <2>3. \A e \in Recorded' : stream'[e] # "none" /\ (execution'[e].streamEnded => stream'[e] = "ended")
    BY <1>2, <1>4 DEF CaptureInv, Consistent
  <2>4. reader'.told => /\ reader'.of \in Recorded' /\ execution'[reader'.of].streamEnded
                        /\ reader'.cursor = execution'[reader'.of].total
    <3>1. reader.of \in gone => ~ reader'.told
      BY DEF Forgotten, NoReader
    <3>2. CASE reader.of \notin gone
      BY <3>2, <1>2, <1>4 DEF CaptureInv, Consistent, Forgotten
    <3> QED BY <3>1, <3>2 DEF Forgotten
  <2> QED BY <2>1, <2>2, <2>3, <2>4 DEF Consistent
<1>6. MemoryBounded'
  <2>1. CASE Recorded' = {}
    <3>1. Held(execution', {}) = 0
      BY SumOfNone DEF Held
    <3> QED BY <2>1, <3>1, CaptureAssumption DEF MemoryBounded
  <2>2. CASE Recorded' # {}
    <3>1. PICK z \in Executions : TRUE
      BY <2>2 DEF Recorded
    <3>2. \A f \in Recorded' : f \in Recorded /\ Bytes(execution'[f]) <= Bytes(execution[f])
      <4>1. \A f \in Recorded' : f \in Recorded /\ Bytes(execution[f]) \in Nat
        BY <1>2, BytesType DEF CaptureInv, TypeOK, Recorded
      <4> QED BY <1>4, <4>1
    <3> QED BY <1>1, <1>2, <3>2, BoundKept DEF CaptureInv
  <2> QED BY <2>1, <2>2
<1> QED BY <1>1, <1>2, <1>3, <1>5, <1>6

\* The invariant holds, action by action.
LEMMA CaptureInvariant == Spec => []CaptureInv
<1>1. Init => CaptureInv
  <2> SUFFICES ASSUME Init PROVE CaptureInv
    OBVIOUS
  <2>1. NoExecution \in Kept /\ NoReader \in [of : Executions \cup {Nil}, cursor : 0..MaxTotal, told : BOOLEAN]
    BY CaptureAssumption DEF NoExecution, Kept, NoReader
  <2>2. TypeOK
    BY <2>1, CaptureAssumption DEF Init, TypeOK, NoTerminal, Window
  <2>3. Recorded = {}
    BY DEF Init, Recorded, NoExecution
  <2>4. Consistent
    BY <2>3, FS_EmptySet DEF Consistent, Init, NoExecution, NoReader
  <2>5. Held(execution, {}) = 0
    BY SumOfNone DEF Held
  <2>6. MemoryBounded
    BY <2>3, <2>5, CaptureAssumption DEF MemoryBounded
  <2>7. Private
    BY <2>3 DEF Private, Init, NoTerminal
  <2> QED BY <2>2, <2>4, <2>6, <2>7 DEF CaptureInv
<1>2. CaptureInv /\ [Next]_vars => CaptureInv'
  <2> SUFFICES ASSUME CaptureInv, [Next]_vars PROVE CaptureInv'
    OBVIOUS
  <2> USE DEF CaptureInv
  <2>0. terminal \in [Terminals -> Window]
    BY DEF TypeOK
  <2>1. ASSUME UNCHANGED <<allowed, execution, stream, reader, policies>>,
               terminal' \in [Terminals -> Window],
               ~ allowed => \A t \in Terminals : ~ terminal'[t].cwd
        PROVE  CaptureInv'
    <3>1. TypeOK'
      BY <2>1 DEF TypeOK, Window
    <3>2. Recorded' = Recorded
      BY <2>1 DEF Recorded
    <3>3. Consistent'
      BY <2>1, <3>2 DEF Consistent
    <3>4. MemoryBounded'
      BY <2>1, <3>2 DEF MemoryBounded, Held
    <3>5. Private'
      BY <2>1, <3>2 DEF Private
    <3> QED BY <3>1, <3>3, <3>4, <3>5
  <2>2. ASSUME NEW t \in Terminals, OpenTerminal(t) PROVE CaptureInv'
    <3>1. PICK shell \in BOOLEAN, existed \in BOOLEAN :
             terminal' = [terminal EXCEPT ![t] = Registered(shell, existed)]
      BY <2>2 DEF OpenTerminal
    <3>2. Registered(shell, existed) \in Window /\ (~ allowed => ~ Registered(shell, existed).cwd)
      BY DEF Registered, Window, TypeOK
    <3>3. terminal' \in [Terminals -> Window] /\ (~ allowed => \A u \in Terminals : ~ terminal'[u].cwd)
      BY <2>0, <3>1, <3>2 DEF Private
    <3> QED BY <2>1, <2>2, <3>3 DEF OpenTerminal
  <2>3. ASSUME NEW t \in Terminals, Refresh(t) PROVE CaptureInv'
    <3>1. /\ Refreshed(terminal[t], allowed, TRUE) \in Window
          /\ ~ allowed => ~ Refreshed(terminal[t], allowed, TRUE).cwd
      BY <2>0 DEF Refreshed, Window, TypeOK
    <3>2. terminal' = [terminal EXCEPT ![t] = Refreshed(terminal[t], allowed, TRUE)]
      BY <2>3 DEF Refresh
    <3>3. terminal' \in [Terminals -> Window] /\ (~ allowed => \A u \in Terminals : ~ terminal'[u].cwd)
      BY <2>0, <3>1, <3>2 DEF Private
    <3> QED BY <2>1, <2>3, <3>3 DEF Refresh
  <2>4. ASSUME NEW t \in Terminals, CloseTerminal(t) PROVE CaptureInv'
    <3>1. terminal' \in [Terminals -> Window] /\ (~ allowed => \A u \in Terminals : ~ terminal'[u].cwd)
      BY ZenonT(40), <2>0, <2>4 DEF CloseTerminal, Private, Window
    <3> QED BY <2>1, <2>4, <3>1 DEF CloseTerminal
  <2>5. ASSUME NEW t \in Terminals, Expire(t) PROVE CaptureInv'
    <3> DEFINE gone == {e \in Recorded : execution[e].terminal = t}
    <3>1. gone \in SUBSET Recorded /\ Forgotten(gone) /\ UNCHANGED <<allowed, stream, policies>>
      BY <2>5 DEF Expire
    <3> HIDE DEF gone
    <3>2. /\ execution' \in [Executions -> Kept]
          /\ reader' \in [of : Executions \cup {Nil}, cursor : 0..MaxTotal, told : BOOLEAN]
          /\ Consistent' /\ MemoryBounded' /\ Recorded' = Recorded \ gone
      BY <3>1, ForgottenKeeps
    <3>3. terminal' \in [Terminals -> Window] /\ (~ allowed => \A u \in Terminals : ~ terminal'[u].cwd)
      BY <2>0, <2>5 DEF Expire, Private, Window, NoTerminal
    <3>4. TypeOK'
      BY <3>1, <3>2, <3>3 DEF TypeOK, Window
    <3>5. Private'
      BY <3>1, <3>2, <3>3 DEF Private
    <3> QED BY <3>2, <3>4, <3>5
  <2>6. ASSUME NEW t \in Terminals, NEW e \in Executions, StartExecution(t, e) PROVE CaptureInv'
    <3>1. PICK readable \in BOOLEAN :
            /\ execution' = [execution EXCEPT ![e] =
                [NoExecution EXCEPT !.terminal = t, !.recorded = TRUE, !.running = TRUE,
                                    !.failed = ~ readable, !.streamEnded = ~ readable]]
            /\ stream' = [stream EXCEPT ![e] = IF readable THEN "open" ELSE "ended"]
      BY <2>6 DEF StartExecution
    <3> DEFINE x == [NoExecution EXCEPT !.terminal = t, !.recorded = TRUE, !.running = TRUE,
                                    !.failed = ~ readable, !.streamEnded = ~ readable]
    <3>2. /\ x \in Kept /\ x.dropped = 0 /\ x.total = 0 /\ x.recorded
          /\ x.streamEnded = ~ readable
      <4>1. /\ x.terminal = t /\ x.recorded = TRUE /\ x.running = TRUE /\ x.failed = ~ readable
            /\ x.streamEnded = ~ readable /\ x.dropped = 0 /\ x.total = 0
        BY DEF NoExecution
      <4>2. ASSUME NEW p \in BOOLEAN
            PROVE  [NoExecution EXCEPT !.terminal = t, !.recorded = TRUE, !.running = TRUE,
                                       !.failed = p, !.streamEnded = p] \in Kept
        <5>1. NoExecution \in Kept
          BY CaptureAssumption DEF NoExecution, Kept
        <5>2. \A y \in Kept : [y EXCEPT !.terminal = t, !.recorded = TRUE] \in Kept
          BY DEF Kept
        <5>3. \A y \in Kept : [y EXCEPT !.running = TRUE, !.failed = p, !.streamEnded = p] \in Kept
          BY DEF Kept
        <5> QED BY <5>1, <5>2, <5>3
      <4>3. x \in Kept
        BY <4>2
      <4> QED BY <4>1, <4>3
    <3>3. e \notin Recorded
      BY <2>6 DEF StartExecution, Consistent
    <3> HIDE DEF x
    <3>4. execution' \in [Executions -> Kept] /\ execution'[e] = x /\ \A f \in Executions \ {e} : execution'[f] = execution[f]
      BY <3>1, <3>2 DEF TypeOK, x
    <3>5. Recorded' = Recorded \cup {e}
      BY <3>2, <3>4 DEF Recorded
    <3>6. terminal' \in [Terminals -> Window]
      <4> DEFINE y == [(IF terminal[t].at = "none" THEN Registered(TRUE, FALSE) ELSE terminal[t]) EXCEPT !.status = "running"]
      <4>1. y \in Window
        BY <2>0 DEF Registered, Window, TypeOK
      <4>2. terminal' = [terminal EXCEPT ![t] = y]
        BY <2>6 DEF StartExecution
      <4> QED BY <2>0, <4>1, <4>2
    <3>7. stream' \in [Executions -> {"none", "open", "ended"}] /\ stream'[e] = (IF readable THEN "open" ELSE "ended")
             /\ \A f \in Executions \ {e} : stream'[f] = stream[f]
      BY <3>1 DEF TypeOK
    <3>8. TypeOK'
      BY <2>6, <3>4, <3>6, <3>7 DEF TypeOK, Window, StartExecution
    <3>9. Consistent'
      <4>1. IsFiniteSet(Recorded')
        BY <3>5, FS_AddElement DEF Consistent
      <4>2. \A f \in Executions : execution'[f].dropped <= execution'[f].total
        BY <3>2, <3>4 DEF Consistent
      <4>3. \A f \in Recorded' : stream'[f] # "none" /\ (execution'[f].streamEnded => stream'[f] = "ended")
        BY <3>2, <3>4, <3>5, <3>7 DEF Consistent, Recorded
      <4>4. reader' = reader /\ (reader.told => reader.of \in Executions /\ reader.of # e)
        BY <2>6, <3>3 DEF StartExecution, Consistent, Recorded
      <4> QED BY <3>4, <3>5, <4>1, <4>2, <4>3, <4>4 DEF Consistent
    <3>10. MemoryBounded'
      <4>1. Bytes(x) = 0
        BY <3>2, BytesOfEmptied
      <4>2. \A f \in Recorded : Bytes(execution[f]) \in Nat
        BY BytesType DEF TypeOK, Recorded
      <4>3. \A f \in Recorded' : \/ Bytes(execution'[f]) = 0
                                 \/ f \in Recorded /\ Bytes(execution'[f]) <= Bytes(execution[f])
        BY <3>3, <3>4, <3>5, <4>1, <4>2 DEF Recorded
      <4> QED BY <3>4, <3>5, <4>3, BoundKept
    <3>11. Private'
      BY <2>6 DEF StartExecution, Private
    <3> QED BY <3>8, <3>9, <3>10, <3>11
  <2>7. ASSUME NEW e \in Executions, Read(e) PROVE CaptureInv'
    <3>1. UNCHANGED <<allowed, terminal, execution, stream, policies>>
      BY <2>7 DEF Read
    <3> DEFINE actual == Max({reader.cursor, execution[e].dropped})
               next == Min({actual + PageChars, execution[e].total})
    <3>2. reader' = [of |-> e, cursor |-> next, told |-> NoNextPage(execution[e], next)] /\ e \in Recorded
      BY <2>7 DEF Read, Recorded
    <3>3. next \in 0..MaxTotal
      <4>1. /\ reader.cursor \in Nat /\ execution[e].dropped \in Nat
            /\ execution[e].total \in 0..MaxTotal
        BY CaptureAssumption DEF TypeOK, Kept
      <4>2. actual \in Nat
        BY SMTT(30), <4>1 DEF Max
      <4> HIDE DEF actual
      <4>3. actual + PageChars \in Nat
        BY <4>2, CaptureAssumption
      <4>4. next \in {actual + PageChars, execution[e].total} /\ next <= execution[e].total
        <5> DEFINE both == {actual + PageChars, execution[e].total}
        <5>1. \E x \in both : \A y \in both : x <= y
          BY <4>1, <4>3, CaptureAssumption
        <5>2. next \in both /\ \A y \in both : next <= y
          BY <5>1 DEF Min
        <5> QED BY <5>2
      <4> QED BY <4>1, <4>3, <4>4, CaptureAssumption
    <3> HIDE DEF next
    <3>4. NoNextPage(execution[e], next) \in BOOLEAN
      BY DEF NoNextPage, TypeOK, Kept
    <3>5. TypeOK'
      BY <3>1, <3>2, <3>3, <3>4 DEF TypeOK
    <3>6. Recorded' = Recorded
      BY <3>1 DEF Recorded
    <3>7. Consistent'
      BY <3>1, <3>2, <3>6 DEF Consistent, NoNextPage
    <3>8. MemoryBounded' /\ Private'
      BY <3>1, <3>6 DEF MemoryBounded, Held, Private
    <3> QED BY <3>5, <3>7, <3>8
  <2>8. CASE PolicyChanges
    <3>1. terminal' \in [Terminals -> Window] /\ (~ allowed' => \A t \in Terminals : ~ terminal'[t].cwd)
      <4>1. ASSUME NEW w \in Window
            PROVE  /\ Cleared(w) \in Window /\ ~ Cleared(w).cwd
                   /\ \A p, shell \in BOOLEAN : /\ Refreshed(w, p, shell) \in Window
                                                /\ ~ p => ~ Refreshed(w, p, shell).cwd
        BY DEF Cleared, Refreshed, Window
      <4>2. allowed' \in BOOLEAN
        BY <2>8 DEF PolicyChanges, TypeOK
      <4>3. ASSUME NEW t \in Terminals
            PROVE  terminal'[t] \in Window /\ (~ allowed' => ~ terminal'[t].cwd)
        <5> DEFINE x == IF allowed' THEN terminal[t] ELSE Cleared(terminal[t])
        <5>1. x \in Window /\ (~ allowed' => ~ x.cwd)
          BY <2>0, <4>1
        <5>2. x.shell \in BOOLEAN
          BY <5>1 DEF Window
        <5>3. terminal'[t] = IF x.at = "open" THEN Refreshed(x, allowed', x.shell) ELSE x
          BY <2>8 DEF PolicyChanges
        <5> HIDE DEF x
        <5> QED BY <4>1, <4>2, <5>1, <5>2, <5>3
      <4>4. terminal' = [t \in Terminals |-> terminal'[t]]
        BY <2>8 DEF PolicyChanges
      <4> QED BY <4>3, <4>4
    <3>2. CASE ~ allowed'
      <4>1. Forgotten(Recorded) /\ UNCHANGED stream /\ allowed' \in BOOLEAN /\ policies' \in 0..MaxPolicies
        BY <2>8, <3>2, CaptureAssumption DEF PolicyChanges, TypeOK
      <4>2. /\ execution' \in [Executions -> Kept]
            /\ reader' \in [of : Executions \cup {Nil}, cursor : 0..MaxTotal, told : BOOLEAN]
            /\ Consistent' /\ MemoryBounded' /\ Recorded' = {}
        BY <4>1, ForgottenKeeps
      <4> QED BY <3>1, <4>1, <4>2 DEF TypeOK, Window, Private
    <3>3. CASE allowed'
      <4>1. /\ UNCHANGED <<execution, ended, reader, stream>>
            /\ allowed' \in BOOLEAN /\ policies' \in 0..MaxPolicies
        BY <2>8, <3>3, CaptureAssumption DEF PolicyChanges, TypeOK
      <4>2. TypeOK' /\ Private'
        BY <3>1, <3>3, <4>1 DEF TypeOK, Window, Private
      <4>3. Recorded' = Recorded
        BY <4>1 DEF Recorded
      <4> QED BY <4>1, <4>2, <4>3 DEF Consistent, MemoryBounded, Held
    <3> QED BY <3>2, <3>3
  \* An execution changes in fields that count for nothing in the limits and that no reader has seen.
  <2>9. ASSUME NEW e \in Recorded, execution' \in [Executions -> Kept],
               stream' \in [Executions -> {"none", "open", "ended"}],
               \A f \in Executions : /\ execution'[f].recorded = execution[f].recorded
                                     /\ execution'[f].dropped = execution[f].dropped
                                     /\ execution'[f].total = execution[f].total
                                     /\ execution[f].streamEnded => execution'[f].streamEnded
                                     /\ execution'[f].streamEnded => execution[f].streamEnded \/ stream'[f] = "ended"
                                     /\ stream'[f] \in {stream[f], "ended"},
               terminal' \in [Terminals -> Window],
               \A t \in Terminals : terminal'[t].cwd = terminal[t].cwd,
               UNCHANGED <<allowed, reader, policies>>
        PROVE  CaptureInv'
    <3>1. TypeOK'
      BY <2>9 DEF TypeOK, Window
    <3>2. Recorded' = Recorded
      BY <2>9 DEF Recorded
    <3>3. Consistent'
      BY <2>9, <3>2 DEF Consistent, Recorded
    <3>4. MemoryBounded'
      <4>1. \A f \in Recorded' : f \in Recorded /\ Bytes(execution'[f]) <= Bytes(execution[f])
        <5>1. \A f \in Recorded : Bytes(execution[f]) \in Nat
          BY BytesType DEF TypeOK, Recorded
        <5>2. \A f \in Recorded : Bytes(execution'[f]) = Bytes(execution[f])
          BY <2>9 DEF Bytes, Recorded
        <5> QED BY <3>2, <5>1, <5>2
      <4>2. e \in Executions /\ Recorded' \subseteq Recorded \cup {e}
        BY <3>2 DEF Recorded
      <4> QED BY <2>9, <4>1, <4>2, BoundKept
    <3>5. Private'
      BY <2>9, <3>2 DEF Private
    <3> QED BY <3>1, <3>3, <3>4, <3>5
  <2>10. ASSUME NEW e \in Executions, StreamFails(e) PROVE CaptureInv'
    <3>1. /\ e \in Recorded /\ UNCHANGED <<allowed, terminal, reader, policies>>
          /\ execution' = [execution EXCEPT ![e].failed = TRUE, ![e].streamEnded = TRUE]
          /\ stream' = [stream EXCEPT ![e] = "ended"]
      BY <2>10 DEF StreamFails, Recorded
    <3>2. [execution[e] EXCEPT !.failed = TRUE, !.streamEnded = TRUE] \in Kept
      <4>1. \A y \in Kept : [y EXCEPT !.failed = TRUE, !.streamEnded = TRUE] \in Kept
        BY DEF Kept
      <4> QED BY <4>1 DEF TypeOK
    <3>3. execution' \in [Executions -> Kept] /\ stream' \in [Executions -> {"none", "open", "ended"}]
      BY <3>1, <3>2 DEF TypeOK
    <3>4. \A f \in Executions : /\ execution'[f].recorded = execution[f].recorded
                                /\ execution'[f].dropped = execution[f].dropped
                                /\ execution'[f].total = execution[f].total
                                /\ execution[f].streamEnded => execution'[f].streamEnded
                                /\ execution'[f].streamEnded => execution[f].streamEnded \/ stream'[f] = "ended"
                                /\ stream'[f] \in {stream[f], "ended"}
      BY <3>1 DEF TypeOK, Kept
    <3> QED BY <2>0, <2>9, <3>1, <3>3, <3>4
  <2>11. ASSUME NEW e \in Executions, EndExecution(e) PROVE CaptureInv'
    <3>1. /\ e \in Recorded /\ UNCHANGED <<allowed, stream, reader, policies>>
          /\ execution' = [execution EXCEPT ![e].running = FALSE]
      BY <2>11 DEF EndExecution, Recorded
    <3>2. [execution[e] EXCEPT !.running = FALSE] \in Kept
      <4>1. \A y \in Kept : [y EXCEPT !.running = FALSE] \in Kept
        BY DEF Kept
      <4> QED BY <4>1 DEF TypeOK
    <3>3. execution' \in [Executions -> Kept] /\ stream' \in [Executions -> {"none", "open", "ended"}]
      BY <3>1, <3>2 DEF TypeOK
    <3>4. \A f \in Executions : /\ execution'[f].recorded = execution[f].recorded
                                /\ execution'[f].dropped = execution[f].dropped
                                /\ execution'[f].total = execution[f].total
                                /\ execution[f].streamEnded => execution'[f].streamEnded
                                /\ execution'[f].streamEnded => execution[f].streamEnded \/ stream'[f] = "ended"
                                /\ stream'[f] \in {stream[f], "ended"}
      BY <3>1 DEF TypeOK, Kept
    <3>5. terminal' \in [Terminals -> Window] /\ \A t \in Terminals : terminal'[t].cwd = terminal[t].cwd
      BY ZenonT(40), <2>0, <2>11 DEF EndExecution, Window
    <3> QED BY <2>9, <3>1, <3>3, <3>4, <3>5
  \* A chunk is appended, and the last one perhaps ends the output: no reader was told before.
  <2>12. ASSUME NEW e \in Recorded, NEW n \in Nat, execution[e].total + n <= MaxTotal,
                stream[e] = "open", UNCHANGED <<allowed, terminal, reader, policies>>,
                \/ execution' = Appended(e, n) /\ stream' = stream
                \/ /\ execution' = [Appended(e, n) EXCEPT ![e].streamEnded = TRUE]
                   /\ stream' = [stream EXCEPT ![e] = "ended"]
         PROVE  CaptureInv'
    <3> DEFINE xs == Appended(e, n)
    <3>1. /\ xs \in [Executions -> Kept]
          /\ \A f \in Executions : /\ xs[f].dropped <= xs[f].total
                                   /\ xs[f].recorded = execution[f].recorded
                                   /\ xs[f].streamEnded = execution[f].streamEnded
                                   /\ f # e => xs[f].total = execution[f].total
          /\ \A f \in Recorded : Bytes(xs[f]) <= ExecutionBytes
          /\ Held(xs, Recorded) <= WindowBytes
      BY <2>12, AppendedFits
    <3>2. e \in Executions
      BY DEF Recorded
    <3> HIDE DEF xs
    <3>3. /\ execution' \in [Executions -> Kept]
          /\ \A f \in Executions : /\ execution'[f].dropped = xs[f].dropped
                                   /\ execution'[f].total = xs[f].total
                                   /\ execution'[f].recorded = xs[f].recorded
                                   /\ f # e => execution'[f].streamEnded = xs[f].streamEnded
                                   /\ execution'[f].streamEnded => xs[f].streamEnded \/ stream'[f] = "ended"
      <4>1. CASE execution' = xs
        BY <4>1, <3>1
      <4>2. CASE execution' = [xs EXCEPT ![e].streamEnded = TRUE] /\ stream' = [stream EXCEPT ![e] = "ended"]
        <5>1. [xs[e] EXCEPT !.streamEnded = TRUE] \in Kept
          BY <3>1, <3>2 DEF Kept
        <5>2. execution' \in [Executions -> Kept] /\ stream'[e] = "ended"
          BY <3>1, <3>2, <4>2, <5>1 DEF TypeOK
        <5> QED BY <3>1, <3>2, <4>2, <5>2 DEF Kept
      <4> QED BY <2>12, <4>1, <4>2 DEF xs
    <3>4. /\ stream' \in [Executions -> {"none", "open", "ended"}]
          /\ \A f \in Executions : stream'[f] \in {stream[f], "ended"}
      BY <2>12 DEF TypeOK
    <3>5. Recorded' = Recorded
      BY <3>1, <3>3 DEF Recorded
    <3>6. TypeOK'
      BY <2>12, <3>3, <3>4 DEF TypeOK
    <3>7. Private'
      BY <2>12, <3>5 DEF Private
    <3>8. Consistent'
      <4>1. \A f \in Executions : execution'[f].dropped <= execution'[f].total
        BY <3>1, <3>3
      <4>2. \A f \in Recorded' : /\ stream'[f] # "none"
                                 /\ execution'[f].streamEnded => stream'[f] = "ended"
        BY <3>1, <3>3, <3>4, <3>5 DEF Consistent, Recorded
      <4>3. reader.told => reader.of # e
        BY <2>12 DEF Consistent
      <4>4. reader.told => /\ reader.of \in Recorded /\ execution'[reader.of].streamEnded
                           /\ reader.cursor = execution'[reader.of].total
        BY <3>1, <3>3, <4>3 DEF Consistent, Recorded
      <4> QED BY <2>12, <3>5, <4>1, <4>2, <4>4 DEF Consistent
    <3>9. MemoryBounded'
      <4>1. \A f \in Executions : Bytes(execution'[f]) = Bytes(xs[f])
        BY <3>3 DEF Bytes
      <4>2. [f \in Executions |-> Bytes(execution'[f])] = [f \in Executions |-> Bytes(xs[f])]
        BY <4>1
      <4>3. Held(execution', Recorded') = Held(xs, Recorded)
        BY <3>5, <4>2 DEF Held
      <4>4. \A f \in Recorded : Bytes(execution'[f]) <= ExecutionBytes
        BY <3>1, <4>1 DEF Recorded
      <4> QED BY <3>1, <3>5, <4>3, <4>4 DEF MemoryBounded
    <3> QED BY <3>6, <3>7, <3>8, <3>9
  <2>13. ASSUME NEW e \in Executions, NEW n \in 1..2, Chunk(e, n) PROVE CaptureInv'
    <3>1. CASE execution[e].recorded
      BY <2>12, <2>13, <3>1 DEF Chunk, Recorded
    <3>2. CASE ~ execution[e].recorded
      <4>1. /\ UNCHANGED <<allowed, terminal, execution, reader, policies>>
            /\ stream' = [stream EXCEPT ![e] = "ended"]
        BY <2>13, <3>2 DEF Chunk
      <4>2. TypeOK' /\ Recorded' = Recorded
        BY <4>1 DEF TypeOK, Recorded
      <4> QED BY <4>1, <4>2 DEF TypeOK, Consistent, MemoryBounded, Held, Private
    <3> QED BY <3>1, <3>2
  <2>14. ASSUME NEW e \in Executions, NEW n \in 0..1, StreamEnds(e, n) PROVE CaptureInv'
    <3>1. /\ e \in Recorded /\ stream[e] = "open" /\ execution[e].total + n <= MaxTotal
          /\ UNCHANGED <<allowed, terminal, reader, policies>>
          /\ stream' = [stream EXCEPT ![e] = "ended"] /\ execution' = Finished(e, n)
      BY <2>14 DEF StreamEnds, Recorded
    <3>2. CASE n # 0
      <4>1. n \in Nat /\ execution' = [Appended(e, n) EXCEPT ![e].streamEnded = TRUE]
        BY <3>1, <3>2 DEF Finished
      <4> QED BY <2>12, <3>1, <4>1
    <3>3. CASE n = 0
      <4>1. execution' = [execution EXCEPT ![e].streamEnded = TRUE]
        BY <3>1, <3>3 DEF Finished
      <4>2. [execution[e] EXCEPT !.streamEnded = TRUE] \in Kept
        <5>1. \A y \in Kept : [y EXCEPT !.streamEnded = TRUE] \in Kept
          BY DEF Kept
        <5> QED BY <5>1 DEF TypeOK
      <4>3. execution' \in [Executions -> Kept] /\ stream' \in [Executions -> {"none", "open", "ended"}]
        BY <3>1, <4>1, <4>2 DEF TypeOK
      <4>4. \A f \in Executions : /\ execution'[f].recorded = execution[f].recorded
                                  /\ execution'[f].dropped = execution[f].dropped
                                  /\ execution'[f].total = execution[f].total
                                  /\ execution[f].streamEnded => execution'[f].streamEnded
                                  /\ execution'[f].streamEnded => execution[f].streamEnded \/ stream'[f] = "ended"
                                  /\ stream'[f] \in {stream[f], "ended"}
        BY <3>1, <4>1 DEF TypeOK, Kept
      <4> QED BY <2>0, <2>9, <3>1, <4>3, <4>4
    <3> QED BY <3>2, <3>3
  <2>15. CASE UNCHANGED vars
    <3>1. Recorded' = Recorded
      BY <2>15 DEF vars, Recorded
    <3> QED BY <2>15, <3>1 DEF vars, TypeOK, Consistent, MemoryBounded, Held, Private
  <2> QED BY <2>2, <2>3, <2>4, <2>5, <2>6, <2>7, <2>8, <2>10, <2>11, <2>13, <2>14, <2>15 DEF Next
<1> QED BY <1>1, <1>2, PTL DEF Spec

\* The types hold in every state.
THEOREM TypeCorrect == Spec => []TypeOK
  BY CaptureInvariant, PTL DEF CaptureInv

\* #trimExecution, #enforceWindowLimit: the limits of an output and of the window hold for any widths
\* of characters, any limits and any number of executions, in whatever order these stream and end.
THEOREM BoundsHold == Spec => []MemoryBounded
  BY CaptureInvariant, PTL DEF CaptureInv

\* readOutput: a reader that is told there is no next page has reached an end that stays the end.
THEOREM ReadersAreToldTheTruth == Spec => []OutputIsWhole
<1>1. CaptureInv => OutputIsWhole
  BY DEF CaptureInv, Consistent, OutputIsWhole
<1> QED BY <1>1, CaptureInvariant, PTL

\* #handlePolicyChange: while the policy forbids it nothing is recorded and no directory is known.
THEOREM NothingIsKept == Spec => []Private
  BY CaptureInvariant, PTL DEF CaptureInv
=============================================================================
