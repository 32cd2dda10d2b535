------------------------------ MODULE RpcProofs ------------------------------
(***************************************************************************)
(* A connection keeps the promise of Rpc, for any calls, any chunking and  *)
(* any ring buffers: the pieces an end has not taken yet are the frames of *)
(* the messages it has not taken, so it takes them whole and in order, and *)
(* what a callback is given is what the server said of that call - the     *)
(* client's end only until it drops a chunk.                               *)
(***************************************************************************)
EXTENDS StreamProofs, WellFoundedInduction

-----------------------------------------------------------------------------
\* FlattenSeq.  Its recursive function is unique and exists for every sequence
\* of sequences: a least index at which it did not would contradict itself.

\* Every set of naturals has a least element.
LEMMA Least ==
  ASSUME NEW T \in SUBSET Nat, T # {}
  PROVE  \E x \in T : \A y \in T : x <= y
<1>1. PICK R : R = OpToRel(<, Nat)
  OBVIOUS
<1>2. \A x, y \in Nat : <<x, y>> \in R <=> x < y
  BY <1>1 DEF OpToRel
<1>3. IsWellFoundedOn(R, Nat)
  BY <1>1, NatLessThanWellFounded
<1>4. T \subseteq Nat
  OBVIOUS
<1>5. PICK x \in T : \A y \in T : ~(<<y, x>> \in R)
  BY <1>3, <1>4, WFMin
<1>6. \A y \in T : ~(y < x)
  BY <1>2, <1>4, <1>5
<1> QED
  BY <1>4, <1>6

\* The first n steps of a flattening: g[i] is the first i sequences of ss, joined.
Joins(ss, n, g) ==
  /\ g = [i \in 1..n |-> g[i]]
  /\ \A i \in 1..n : g[i] = IF i = 1 THEN ss[i] ELSE g[i - 1] \o ss[i]

LEMMA JoinsUnique ==
  ASSUME NEW ss, NEW n \in Nat, NEW g, Joins(ss, n, g), NEW h, Joins(ss, n, h)
  PROVE  g = h
<1> DEFINE T == {i \in 1..n : g[i] # h[i]}
<1>1. CASE T = {}
  <2>1. g = [i \in 1..n |-> g[i]] /\ h = [i \in 1..n |-> h[i]]
    BY DEF Joins
  <2> QED BY <1>1, <2>1
<1>2. CASE T # {}
  <2>1. T \in SUBSET Nat
    OBVIOUS
  <2>2. PICK i \in T : \A j \in T : i <= j
    BY <1>2, <2>1, Least
  <2>3. i \in 1..n /\ g[i] # h[i]
    OBVIOUS
  <2>4. i = 1 \/ (i - 1 \in 1..n /\ i - 1 < i /\ ~(i <= i - 1))
    BY <2>3
  <2>5. i = 1 \/ g[i - 1] = h[i - 1]
    BY <2>2, <2>4
  <2> QED BY <2>3, <2>5 DEF Joins
<1> QED
  BY <1>1, <1>2

LEMMA JoinsExist ==
  ASSUME NEW S, NEW ss \in Seq(Seq(S)), NEW n \in 0..Len(ss)
  PROVE  \E g \in [1..n -> Seq(S)] : Joins(ss, n, g)
<1> DEFINE T == {m \in 0..Len(ss) : ~\E g \in [1..m -> Seq(S)] : Joins(ss, m, g)}
<1>0. Len(ss) \in Nat /\ \A i \in 1..Len(ss) : ss[i] \in Seq(S)
  OBVIOUS
<1>1. CASE T = {}
  BY <1>1
<1>2. CASE T # {}
  <2>1. T \in SUBSET Nat
    BY <1>0
  <2>2. PICK m \in T : \A j \in T : m <= j
    BY <1>2, <2>1, Least
  <2>3. m \in 0..Len(ss) /\ ~\E g \in [1..m -> Seq(S)] : Joins(ss, m, g)
    OBVIOUS
  <2>4. CASE m = 0
    <3>1. 1..m = {}
      BY <2>4
    <3> DEFINE e == [i \in 1..m |-> ss[i]]
    <3>2. e = [i \in 1..m |-> e[i]]
      OBVIOUS
    <3>3. e \in [1..m -> Seq(S)]
      BY <3>1
    <3> HIDE DEF e
    <3> QED BY <2>3, <3>1, <3>2, <3>3 DEF Joins
  <2>5. CASE m # 0
    <3>1. m - 1 \in 0..Len(ss) /\ ~(m <= m - 1) /\ m \in 1..Len(ss)
      BY <1>0, <2>3, <2>5
    <3>2. PICK g \in [1..(m - 1) -> Seq(S)] : Joins(ss, m - 1, g)
      BY <2>2, <3>1
    <3>a. m - 1 \in Nat
      BY <3>1
    <3>b. \A i \in 1..(m - 1) : g[i] = IF i = 1 THEN ss[i] ELSE g[i - 1] \o ss[i]
      BY <3>2 DEF Joins
    <3> DEFINE v == IF m = 1 THEN ss[m] ELSE g[m - 1] \o ss[m]
               h == [i \in 1..m |-> IF i = m THEN v ELSE g[i]]
    <3>3. m = 1 \/ m - 1 \in 1..(m - 1)
      BY <3>1
    <3>4. v \in Seq(S)
      BY <1>0, <3>1, <3>3, ConcatProperties
    <3>5. \A i \in 1..m : i = m \/ i \in 1..(m - 1)
      BY <3>1
    <3> HIDE DEF v
    <3>6. h \in [1..m -> Seq(S)]
      BY <3>4, <3>5
    <3>7. ASSUME NEW i \in 1..m PROVE h[i] = IF i = 1 THEN ss[i] ELSE h[i - 1] \o ss[i]
      <4>1. CASE i = m
        <5>1. i = 1 \/ (i - 1 \in 1..m /\ i - 1 # m)
          BY <3>1, <4>1
        <5>2. i = 1 \/ h[i - 1] = g[m - 1]
          BY <4>1, <5>1
        <5> QED BY <4>1, <5>2 DEF v
      <4>2. CASE i # m
        <5>1. i \in 1..(m - 1) /\ h[i] = g[i]
          BY <3>5, <4>2
        <5>2. i = 1 \/ (i - 1 \in 1..m /\ i - 1 # m)
          BY <5>1, <3>1
        <5>3. i = 1 \/ h[i - 1] = g[i - 1]
          BY <5>2
        <5> QED BY <3>b, <5>1, <5>3
      <4> QED BY <4>1, <4>2
    <3>8. h = [i \in 1..m |-> h[i]]
      OBVIOUS
    <3> HIDE DEF h
    <3>9. Joins(ss, m, h)
      BY <3>7, <3>8 DEF Joins
    <3> QED BY <2>3, <3>6, <3>9
  <2> QED BY <2>4, <2>5
<1> QED
  BY <1>1, <1>2

LEMMA FlattenIs ==
  ASSUME NEW S, NEW ss \in Seq(Seq(S)), ss # <<>>, NEW g, Joins(ss, Len(ss), g)
  PROVE  FlattenSeq(ss) = g[Len(ss)]
<1> DEFINE f == CHOOSE h : h = [i \in 1..Len(ss) |-> IF i = 1 THEN ss[i] ELSE h[i - 1] \o ss[i]]
<1>1. Len(ss) \in Nat /\ Len(ss) # 0
  OBVIOUS
<1>2. FlattenSeq(ss) = f[Len(ss)]
  BY <1>1 DEF FlattenSeq
<1>3. g = [i \in 1..Len(ss) |-> IF i = 1 THEN ss[i] ELSE g[i - 1] \o ss[i]]
  BY Zenon DEF Joins
<1>4. f = [i \in 1..Len(ss) |-> IF i = 1 THEN ss[i] ELSE f[i - 1] \o ss[i]]
  BY <1>3
<1> HIDE DEF f
<1>5. Joins(ss, Len(ss), f)
  BY <1>4 DEF Joins
<1>6. f = g
  BY <1>1, <1>5, JoinsUnique
<1> QED
  BY <1>2, <1>6

LEMMA FlattenTypes ==
  ASSUME NEW S, NEW ss \in Seq(Seq(S)) PROVE FlattenSeq(ss) \in Seq(S)
<1>1. CASE ss = <<>>
  BY <1>1 DEF FlattenSeq
<1>2. CASE ss # <<>>
  <2>1. Len(ss) \in Nat /\ Len(ss) \in 0..Len(ss) /\ Len(ss) \in 1..Len(ss)
    BY <1>2
  <2>2. PICK g \in [1..Len(ss) -> Seq(S)] : Joins(ss, Len(ss), g)
    BY <2>1, JoinsExist
  <2> QED BY <1>2, <2>1, <2>2, FlattenIs
<1> QED BY <1>1, <1>2

\* One more sequence at the end.
LEMMA FlattenAppend ==
  ASSUME NEW S, NEW ss \in Seq(Seq(S)), NEW s \in Seq(S)
  PROVE  FlattenSeq(Append(ss, s)) = FlattenSeq(ss) \o s
<1> DEFINE n  == Len(ss)
           tt == Append(ss, s)
<1>1. /\ n \in Nat /\ tt \in Seq(Seq(S)) /\ Len(tt) = n + 1 /\ tt # <<>>
      /\ tt[n + 1] = s /\ \A i \in 1..n : tt[i] = ss[i]
  BY AppendProperties
<1> HIDE DEF n, tt
<1>2. n + 1 \in 0..Len(tt)
  BY <1>1
<1>3. PICK h \in [1..(n + 1) -> Seq(S)] : Joins(tt, n + 1, h)
  BY <1>1, <1>2, JoinsExist
<1>4. FlattenSeq(tt) = h[n + 1]
  BY <1>1, <1>3, FlattenIs
<1>a. n + 1 \in Nat /\ n + 1 \in 1..(n + 1)
  BY <1>1
<1>5. \A i \in 1..(n + 1) : h[i] = IF i = 1 THEN tt[i] ELSE h[i - 1] \o tt[i]
  BY <1>3 DEF Joins
<1>6. CASE n = 0
  <2>1. FlattenSeq(ss) = <<>>
    BY <1>6 DEF FlattenSeq, n
  <2>2. h[n + 1] = s
    BY <1>1, <1>5, <1>6
  <2> QED BY <1>4, <2>1, <2>2, ConcatEmptySeq DEF tt
<1>7. CASE n # 0
  <2> DEFINE g == [i \in 1..n |-> h[i]]
  <2>1. ASSUME NEW i \in 1..n PROVE g[i] = IF i = 1 THEN ss[i] ELSE g[i - 1] \o ss[i]
    <3>1. i \in 1..(n + 1) /\ (i = 1 \/ i - 1 \in 1..n)
      BY <1>1
    <3> QED BY <1>1, <1>5, <3>1
  <2>2. g = [i \in 1..n |-> g[i]]
    OBVIOUS
  <2>3. g[n] = h[n]
    BY <1>1, <1>7
  <2> HIDE DEF g
  <2>5. Joins(ss, n, g)
    BY <2>1, <2>2 DEF Joins
  <2>6. ss # <<>>
    BY <1>7 DEF n
  <2>7. FlattenSeq(ss) = h[n]
    BY <2>3, <2>5, <2>6, FlattenIs DEF n
  <2>8. h[n + 1] = h[n] \o s
    <3>1. n + 1 # 1 /\ (n + 1) - 1 = n
      BY <1>1, <1>7
    <3> QED BY <1>1, <1>5, <1>a, <3>1
  <2> QED BY <1>4, <2>7, <2>8 DEF tt
<1> QED BY <1>6, <1>7

\* One more sequence in front.
LEMMA FlattenFirst ==
  ASSUME NEW S, NEW ss \in Seq(Seq(S)), ss # <<>>
  PROVE  FlattenSeq(ss) = ss[1] \o FlattenSeq(Tail(ss))
<1> DEFINE tt == Tail(ss)
           n  == Len(tt)
<1>1. /\ n \in Nat /\ tt \in Seq(Seq(S)) /\ Len(ss) = n + 1
      /\ ss[1] \in Seq(S) /\ \A i \in 1..n : tt[i] = ss[i + 1]
  BY HeadTailProperties
<1> HIDE DEF tt, n
<1>2. CASE n = 0
  <2> DEFINE g == [i \in 1..1 |-> ss[1]]
  <2>1. g = [i \in 1..1 |-> g[i]] /\ g[1] = ss[1]
    OBVIOUS
  <2> HIDE DEF g
  <2>2. Joins(ss, Len(ss), g)
    BY <1>1, <1>2, <2>1 DEF Joins
  <2>3. FlattenSeq(ss) = ss[1]
    <3>1. FlattenSeq(ss) = g[Len(ss)]
      BY <2>2, FlattenIs
    <3>2. Len(ss) = 1
      BY <1>1, <1>2
    <3> QED BY <2>1, <3>1, <3>2
  <2>4. FlattenSeq(tt) = <<>>
    BY <1>1, <1>2 DEF FlattenSeq, n
  <2> QED BY <1>1, <2>3, <2>4, ConcatEmptySeq DEF tt
<1>3. CASE n # 0
  <2>1. n \in 0..Len(tt) /\ n = Len(tt) /\ tt # <<>>
    BY <1>1, <1>3 DEF n
  <2>2. PICK g \in [1..n -> Seq(S)] : Joins(tt, n, g)
    BY <1>1, <2>1, JoinsExist
  <2>3. FlattenSeq(tt) = g[n]
    BY <1>1, <2>1, <2>2, FlattenIs
  <2>4. \A i \in 1..n : g[i] = IF i = 1 THEN tt[i] ELSE g[i - 1] \o tt[i]
    BY <2>2 DEF Joins
  <2> DEFINE h == [i \in 1..(n + 1) |-> IF i = 1 THEN ss[1] ELSE ss[1] \o g[i - 1]]
  <2>5. ASSUME NEW i \in 1..(n + 1) PROVE h[i] = IF i = 1 THEN ss[i] ELSE h[i - 1] \o ss[i]
    <3>1. CASE i = 1
      BY <3>1
    <3>2. CASE i = 2
      <4>1. 1 \in 1..n /\ i - 1 = 1 /\ 1 \in 1..(n + 1) /\ i \in 1..(n + 1)
        BY <1>1, <1>3, <3>2
      <4>2. g[1] = tt[1] /\ tt[1] = ss[2]
        <5>1. g[1] = tt[1]
          BY <2>4, <4>1
        <5>2. tt[1] = ss[1 + 1]
          BY <1>1, <4>1
        <5> QED BY <5>1, <5>2
      <4>3. h[i] = ss[1] \o g[1] /\ h[1] = ss[1]
        BY <3>2, <4>1
      <4> QED BY <3>2, <4>1, <4>2, <4>3
    <3>3. CASE i # 1 /\ i # 2
      <4>1. /\ i - 1 \in 1..n /\ i - 1 # 1 /\ i - 2 \in 1..n /\ i - 1 \in 1..(n + 1)
            /\ (i - 1) - 1 = i - 2 /\ (i - 1) + 1 = i
        BY <1>1, <3>3
      <4>2. g[i - 1] = g[i - 2] \o ss[i]
        BY <1>1, <2>4, <4>1
      <4>3. h[i] = ss[1] \o g[i - 1] /\ h[i - 1] = ss[1] \o g[i - 2]
        BY <3>3, <4>1
      <4>4. g[i - 2] \in Seq(S) /\ ss[1] \in Seq(S) /\ ss[i] \in Seq(S)
        BY <1>1, <4>1
      <4> HIDE DEF h
      <4>5. ASSUME NEW x \in Seq(S), NEW y \in Seq(S), NEW z \in Seq(S)
            PROVE  (x \o y) \o z = x \o (y \o z)
        BY ConcatAssociative
      <4>6. (ss[1] \o g[i - 2]) \o ss[i] = ss[1] \o (g[i - 2] \o ss[i])
        BY <4>4, <4>5
      <4> QED BY <3>3, <4>2, <4>3, <4>6, Zenon
    <3> QED BY <3>1, <3>2, <3>3
  <2>6. h = [i \in 1..(n + 1) |-> h[i]]
    OBVIOUS
  <2>7. h[n + 1] = ss[1] \o g[n]
    <3>1. n + 1 \in 1..(n + 1) /\ n + 1 # 1 /\ (n + 1) - 1 = n
      BY <1>1, <1>3
    <3> QED BY <3>1
  <2> HIDE DEF h
  <2>9. Joins(ss, Len(ss), h)
    BY <1>1, <2>5, <2>6 DEF Joins
  <2>10. FlattenSeq(ss) = h[n + 1]
    BY <1>1, <2>9, FlattenIs
  <2> QED BY <2>3, <2>7, <2>10 DEF tt
<1> QED BY <1>2, <1>3

-----------------------------------------------------------------------------
\* Frames: the pieces of the messages of a log after the first so many.

FramesOf(log, from) == [i \in 1..(Len(log) - from) |-> Frame(log[from + i])]

LEMMA FramesOfTypes ==
  ASSUME NEW Msgs, \A m \in Msgs : m.len \in Nat,
         NEW log \in Seq(Msgs), NEW from \in 0..Len(log)
  PROVE  /\ FramesOf(log, from) \in Seq(Seq(Pieces(Msgs)))
         /\ Len(FramesOf(log, from)) = Len(log) - from
         /\ \A i \in 1..(Len(log) - from) : FramesOf(log, from)[i] = Frame(log[from + i])
         /\ Frames(log, from) = FlattenSeq(FramesOf(log, from))
         /\ Frames(log, from) \in Seq(Pieces(Msgs))
<1>1. Len(log) \in Nat /\ Len(log) - from \in Nat
  OBVIOUS
<1>2. ASSUME NEW i \in 1..(Len(log) - from) PROVE Frame(log[from + i]) \in Seq(Pieces(Msgs))
  <2>1. from + i \in 1..Len(log)
    BY <1>1
  <2>2. log[from + i] \in Msgs
    BY <2>1
  <2> QED BY <2>2, FramePieces
<1>3. FramesOf(log, from) \in Seq(Seq(Pieces(Msgs)))
  BY <1>1, <1>2 DEF FramesOf
<1>4. /\ Len(FramesOf(log, from)) = Len(log) - from
      /\ \A i \in 1..(Len(log) - from) : FramesOf(log, from)[i] = Frame(log[from + i])
  BY <1>1 DEF FramesOf
<1>5. Frames(log, from) = FlattenSeq(FramesOf(log, from))
  BY DEF Frames, FramesOf
<1> QED
  BY <1>3, <1>4, <1>5, FlattenTypes

\* All taken.
LEMMA FramesEnd ==
  ASSUME NEW Msgs, \A m \in Msgs : m.len \in Nat, NEW log \in Seq(Msgs)
  PROVE  Frames(log, Len(log)) = <<>>
<1>1. Len(log) \in 0..Len(log) /\ Len(log) - Len(log) = 0
  OBVIOUS
<1>2. /\ FramesOf(log, Len(log)) \in Seq(Seq(Pieces(Msgs)))
      /\ Len(FramesOf(log, Len(log))) = 0
  BY <1>1, FramesOfTypes
<1>3. FramesOf(log, Len(log)) = <<>>
  BY <1>2
<1> QED
  BY <1>1, <1>3, FramesOfTypes DEF FlattenSeq

\* One more message is written.
LEMMA FramesAppend ==
  ASSUME NEW Msgs, \A m \in Msgs : m.len \in Nat,
         NEW log \in Seq(Msgs), NEW from \in 0..Len(log), NEW m \in Msgs
  PROVE  Frames(Append(log, m), from) = Frames(log, from) \o Frame(m)
<1> DEFINE more == Append(log, m)
           n    == Len(log) - from
<1>1. /\ more \in Seq(Msgs) /\ Len(more) = Len(log) + 1 /\ more[Len(log) + 1] = m
      /\ \A i \in 1..Len(log) : more[i] = log[i]
  BY AppendProperties
<1>2. n \in Nat /\ Len(log) \in Nat /\ from \in Nat /\ from + n = Len(log)
  OBVIOUS
<1> HIDE DEF more, n
<1>3. from \in 0..Len(more) /\ Len(more) - from = n + 1
  BY <1>1, <1>2
<1> DEFINE fs == FramesOf(log, from)
           gs == FramesOf(more, from)
           P  == Pieces(Msgs)
<1>4. /\ fs \in Seq(Seq(P)) /\ Len(fs) = n
      /\ \A i \in 1..n : fs[i] = Frame(log[from + i])
      /\ Frames(log, from) = FlattenSeq(fs)
  BY FramesOfTypes DEF n
<1>5. /\ gs \in Seq(Seq(P)) /\ Len(gs) = n + 1
      /\ \A i \in 1..(n + 1) : gs[i] = Frame(more[from + i])
      /\ Frames(more, from) = FlattenSeq(gs)
  <2>1. /\ gs \in Seq(Seq(P)) /\ Len(gs) = Len(more) - from
        /\ \A i \in 1..(Len(more) - from) : gs[i] = Frame(more[from + i])
        /\ Frames(more, from) = FlattenSeq(gs)
    BY <1>1, <1>3, FramesOfTypes
  <2> QED BY <1>3, <2>1
<1>6. Frame(m) \in Seq(P)
  BY FramePieces
<1> HIDE DEF fs, gs, P
<1>7. /\ Append(fs, Frame(m)) \in Seq(Seq(P)) /\ Len(Append(fs, Frame(m))) = n + 1
      /\ \A i \in 1..n : Append(fs, Frame(m))[i] = fs[i]
      /\ Append(fs, Frame(m))[n + 1] = Frame(m)
  BY <1>4, <1>6, AppendProperties
<1>8. ASSUME NEW i \in 1..(n + 1) PROVE gs[i] = Append(fs, Frame(m))[i]
  <2>1. CASE i = n + 1
    <3>1. from + i = Len(log) + 1
      BY <1>2, <2>1
    <3> QED BY <1>1, <1>5, <1>7, <2>1, <3>1
  <2>2. CASE i # n + 1
    <3>1. i \in 1..n /\ from + i \in 1..Len(log)
      BY <1>2, <2>2
    <3>2. more[from + i] = log[from + i]
      BY <1>1, <3>1
    <3> QED BY <1>4, <1>5, <1>7, <3>1, <3>2
  <2> QED BY <2>1, <2>2
<1>9. gs = Append(fs, Frame(m))
  BY <1>5, <1>7, <1>8, SeqEqual
<1> QED
  BY <1>4, <1>5, <1>6, <1>9, FlattenAppend DEF more

\* The next message to take.
LEMMA FramesFirst ==
  ASSUME NEW Msgs, \A m \in Msgs : m.len \in Nat,
         NEW log \in Seq(Msgs), NEW from \in 0..Len(log), from < Len(log)
  PROVE  /\ log[from + 1] \in Msgs /\ from + 1 \in 0..Len(log)
         /\ Frames(log, from) = Frame(log[from + 1]) \o Frames(log, from + 1)
<1> DEFINE fs == FramesOf(log, from)
           gs == FramesOf(log, from + 1)
           P  == Pieces(Msgs)
           n  == Len(log) - (from + 1)
<1>1. n \in Nat /\ from + 1 \in 1..Len(log) /\ from + 1 \in 0..Len(log) /\ Len(log) - from = n + 1
  OBVIOUS
<1>2. /\ fs \in Seq(Seq(P)) /\ Len(fs) = Len(log) - from
      /\ \A i \in 1..(Len(log) - from) : fs[i] = Frame(log[from + i])
      /\ Frames(log, from) = FlattenSeq(fs)
  BY FramesOfTypes
<1>3. /\ gs \in Seq(Seq(P)) /\ Len(gs) = n
      /\ \A i \in 1..n : gs[i] = Frame(log[(from + 1) + i])
      /\ Frames(log, from + 1) = FlattenSeq(gs)
  BY <1>1, FramesOfTypes
<1> HIDE DEF fs, gs, P, n
<1>4. fs # <<>> /\ fs[1] = Frame(log[from + 1])
  BY <1>1, <1>2
<1>5. /\ Tail(fs) \in Seq(Seq(P)) /\ Len(Tail(fs)) = n
      /\ \A i \in 1..n : Tail(fs)[i] = fs[i + 1]
  <2>1. /\ Tail(fs) \in Seq(Seq(P)) /\ Len(Tail(fs)) = Len(fs) - 1
        /\ \A i \in 1..Len(Tail(fs)) : Tail(fs)[i] = fs[i + 1]
    BY <1>2, <1>4, HeadTailProperties
  <2>2. Len(fs) - 1 = n
    BY <1>1, <1>2
  <2> QED BY <2>1, <2>2
<1>6. ASSUME NEW i \in 1..n PROVE Tail(fs)[i] = gs[i]
  <2>1. i + 1 \in 1..(Len(log) - from) /\ from + (i + 1) = (from + 1) + i
    BY <1>1
  <2>2. fs[i + 1] = Frame(log[from + (i + 1)]) /\ gs[i] = Frame(log[(from + 1) + i])
    BY <1>2, <1>3, <2>1
  <2> QED BY <1>5, <2>1, <2>2
<1>7. Tail(fs) = gs
  BY <1>3, <1>5, <1>6, SeqEqual
<1>8. FlattenSeq(fs) = fs[1] \o FlattenSeq(Tail(fs))
  BY <1>2, <1>4, FlattenFirst
<1>9. log[from + 1] \in Msgs
  BY <1>1
<1>10. Frames(log, from) = Frame(log[from + 1]) \o Frames(log, from + 1)
  BY <1>2, <1>3, <1>4, <1>7, <1>8, Zenon
<1> QED
  BY <1>1, <1>9, <1>10

-----------------------------------------------------------------------------
\* Reading: what a ring buffer and its stream hold together.

\* A read moves pieces from the stream to the ring buffer.
LEMMA ReadMoves ==
  ASSUME NEW S, NEW rb \in Seq(S), NEW s \in Seq(S), NEW n \in ReadSizes(s)
  PROVE  (rb \o Read(s, n)) \o Unread(s, n) = rb \o s
<1>1. n \in 1..Len(s) /\ Len(s) \in Nat
  BY DEF ReadSizes
<1>2. Read(s, n) \in Seq(S) /\ Unread(s, n) \in Seq(S)
  BY CutPieces
<1>3. Read(s, n) \o Unread(s, n) = SubSeq(s, 1, Len(s))
  BY <1>1, ConcatAdjacentSubSeq DEF Read, Unread
<1>4. Read(s, n) \o Unread(s, n) = s
  BY <1>3, SubSeqFull
<1>5. (rb \o Read(s, n)) \o Unread(s, n) = rb \o (Read(s, n) \o Unread(s, n))
  BY <1>2, ConcatAssociative
<1> QED
  BY <1>4, <1>5

\* The frame of m comes first in a ring buffer and its stream, then come the rest.
InFront(m, rest, rb, s) == rb \o s = Frame(m) \o rest

\* What of the frame of m is in the ring buffer then.
LEMMA BeginsWith ==
  ASSUME NEW P, NEW m, NEW rest, NEW rb, NEW s, InFront(m, rest, rb, s),
         rb \in Seq(P), s \in Seq(P), rest \in Seq(P), Frame(m) \in Seq(P),
         m.len \in Nat, NEW i \in 1..Len(rb), i <= m.len + 1
  PROVE  rb[i] = [msg |-> m, part |-> i - 1]
<1> DEFINE f == Frame(m)
           a == rb \o s
<1>1. f \in Seq(P) /\ Len(f) = m.len + 1 /\ \A j \in 1..(m.len + 1) : f[j] = [msg |-> m, part |-> j - 1]
  BY DEF Frame
<1>2. rb \in Seq(P) /\ s \in Seq(P) /\ rest \in Seq(P) /\ a = f \o rest
  BY DEF InFront
<1>3. \A j \in 1..(Len(rb) + Len(s)) : a[j] = IF j <= Len(rb) THEN rb[j] ELSE s[j - Len(rb)]
  BY ConcatProperties
<1> HIDE DEF f, a
<1>4. \A j \in 1..(Len(f) + Len(rest)) :
        a[j] = IF j <= Len(f) THEN f[j] ELSE rest[j - Len(f)]
  <2>1. \A j \in 1..(Len(f) + Len(rest)) :
          (f \o rest)[j] = IF j <= Len(f) THEN f[j] ELSE rest[j - Len(f)]
    BY <1>1, <1>2, ConcatProperties
  <2> QED BY <1>2, <2>1
<1>5. Len(rb) \in Nat /\ Len(s) \in Nat /\ Len(rest) \in Nat /\ Len(f) \in Nat
  BY <1>1, <1>2
<1>6. /\ i \in 1..(Len(rb) + Len(s)) /\ i <= Len(rb)
      /\ i \in 1..(Len(f) + Len(rest)) /\ i <= Len(f) /\ i \in 1..(m.len + 1)
  BY <1>1, <1>5
<1>7. a[i] = rb[i] /\ a[i] = f[i]
  BY <1>3, <1>4, <1>6
<1> QED
  BY <1>1, <1>6, <1>7

\* If the frame of m is in front and getAvailablePackage finds a whole one, it
\* takes m and leaves what follows.
LEMMA TakesFirst ==
  ASSUME NEW P, NEW m, NEW rest, NEW rb, NEW s, InFront(m, rest, rb, s),
         rb \in Seq(P), s \in Seq(P), rest \in Seq(P), Frame(m) \in Seq(P),
         m.len \in Nat, Available(rb)
  PROVE  Package(rb) = m /\ Rest(rb) \o s = rest
<1> DEFINE k == m.len + 1
           f == Frame(m)
           a == rb \o s
<1>1. f \in Seq(P) /\ Len(f) = k /\ f[1].msg = m /\ k \in Nat /\ k >= 1 /\ m.len + 2 = k + 1
  BY DEF Frame
<1>2. rb # <<>> /\ Len(rb) \in Nat /\ Len(rb) >= 1 /\ rb[1] = Head(rb)
  BY DEF Available
<1>a. rb \in Seq(P) /\ s \in Seq(P) /\ rest \in Seq(P) /\ a = f \o rest
  BY DEF InFront
<1>3. /\ a \in Seq(P) /\ Len(a) = Len(rb) + Len(s)
      /\ \A i \in 1..(Len(rb) + Len(s)) : a[i] = IF i <= Len(rb) THEN rb[i] ELSE s[i - Len(rb)]
  BY ConcatProperties
<1> HIDE DEF k, f, a
<1>4. /\ Len(a) = k + Len(rest)
      /\ \A i \in 1..(k + Len(rest)) : a[i] = IF i <= k THEN f[i] ELSE rest[i - k]
  <2>1. /\ Len(f \o rest) = Len(f) + Len(rest)
        /\ \A i \in 1..(Len(f) + Len(rest)) :
             (f \o rest)[i] = IF i <= Len(f) THEN f[i] ELSE rest[i - Len(f)]
    BY <1>1, <1>a, ConcatProperties
  <2> QED BY <1>1, <1>a, <2>1
<1>5. Len(s) \in Nat /\ Len(rest) \in Nat
  BY <1>a
<1>6. a[1] = rb[1] /\ a[1] = f[1]
  <2>1. 1 \in 1..(Len(rb) + Len(s)) /\ 1 \in 1..(k + Len(rest)) /\ 1 <= k /\ 1 <= Len(rb)
    BY <1>1, <1>2, <1>5
  <2> QED BY <1>3, <1>4, <2>1
<1>7. Package(rb) = m
  BY <1>1, <1>2, <1>6 DEF Package
<1>8. Len(rb) >= k /\ Rest(rb) = SubSeq(rb, k + 1, Len(rb))
  <2>1. Head(rb).msg = m
    BY <1>7 DEF Package
  <2>2. Len(rb) >= m.len + 1
    BY <2>1 DEF Available
  <2>3. Rest(rb) = SubSeq(rb, m.len + 2, Len(rb))
    BY <2>1 DEF Rest
  <2> QED BY <1>1, <2>2, <2>3 DEF k
<1>9. /\ Rest(rb) \in Seq(P) /\ Len(Rest(rb)) = Len(rb) - k
      /\ \A i \in 1..(Len(rb) - k) : Rest(rb)[i] = rb[k + i]
  <2>1. \A i \in (k + 1)..Len(rb) : rb[i] \in P
    BY <1>1, <1>2, <1>a
  <2>2. /\ Rest(rb) \in Seq(P)
        /\ Len(Rest(rb)) = IF k + 1 <= Len(rb) THEN Len(rb) - (k + 1) + 1 ELSE 0
        /\ \A i \in 1..(Len(rb) - (k + 1) + 1) : Rest(rb)[i] = rb[(k + 1) + i - 1]
    BY <1>1, <1>2, <1>8, <2>1, SubSeqProperties
  <2> QED BY <1>1, <1>2, <1>8, <2>2
<1> DEFINE r == Rest(rb)
           b == r \o s
<1> HIDE DEF r
<1>10. /\ b \in Seq(P) /\ Len(b) = Len(rb) - k + Len(s)
       /\ \A i \in 1..(Len(rb) - k + Len(s)) :
            b[i] = IF i <= Len(rb) - k THEN Rest(rb)[i] ELSE s[i - (Len(rb) - k)]
  <2>1. r \in Seq(P) /\ Len(r) = Len(rb) - k
    BY <1>9 DEF r
  <2>2. /\ b \in Seq(P) /\ Len(b) = Len(r) + Len(s)
        /\ \A i \in 1..(Len(r) + Len(s)) : b[i] = IF i <= Len(r) THEN r[i] ELSE s[i - Len(r)]
    BY <1>a, <2>1, ConcatProperties
  <2> QED BY <2>1, <2>2 DEF r
<1> HIDE DEF b
<1>11. Len(b) = Len(rest)
  <2>1. Len(rb) + Len(s) = k + Len(rest)
    BY <1>3, <1>4
  <2> QED BY <1>1, <1>2, <1>5, <1>10, <2>1
<1>12. ASSUME NEW i \in 1..Len(rest) PROVE b[i] = rest[i]
  <2>1. /\ k + i \in 1..(k + Len(rest)) /\ ~(k + i <= k) /\ (k + i) - k = i
        /\ k + i \in 1..(Len(rb) + Len(s)) /\ i \in 1..(Len(rb) - k + Len(s))
    BY <1>1, <1>2, <1>3, <1>4, <1>5
  <2>2. a[k + i] = rest[i]
    BY <1>4, <2>1
  <2>3. CASE i <= Len(rb) - k
    <3>1. i \in 1..(Len(rb) - k) /\ k + i <= Len(rb)
      BY <1>1, <1>2, <2>3
    <3> QED BY <1>3, <1>9, <1>10, <2>1, <2>2, <2>3, <3>1
  <2>4. CASE ~(i <= Len(rb) - k)
    <3>1. ~(k + i <= Len(rb)) /\ (k + i) - Len(rb) = i - (Len(rb) - k)
      BY <1>1, <1>2, <2>4
    <3> QED BY <1>3, <1>10, <2>1, <2>2, <2>4, <3>1
  <2> QED BY <2>3, <2>4
<1>13. b = rest
  BY <1>a, <1>10, <1>11, <1>12, SeqEqual
<1> QED
  BY <1>7, <1>13 DEF b, r

\* A ring buffer and its stream hold the messages of a log after the first so many.
Holds(rb, s, log, from) == rb \o s = Frames(log, from)

\* After a read: the ring buffer and the stream still hold them, and a message
\* that can be taken now is the next one of the log.
NextInLine(rb, s, log, from) ==
  /\ Holds(rb, s, log, from) /\ Skipped(rb) = {}
  /\ Available(rb) =>
       /\ from < Len(log) /\ Package(rb) = log[from + 1] /\ Contents(rb) \subseteq {Package(rb)}
       /\ Rest(rb) \o s = Frames(log, from + 1)

\* An end that has taken the first from messages of a log, and holds the pieces
\* of the others, still does after a read; if it takes a message it is the next.
LEMMA TakesNext ==
  ASSUME NEW Msgs, \A m \in Msgs : m.len \in Nat,
         NEW log \in Seq(Msgs), NEW from \in 0..Len(log),
         NEW rb \in Seq(Pieces(Msgs)), NEW s \in Seq(Pieces(Msgs)), NEW n \in ReadSizes(s),
         Holds(rb, s, log, from)
  PROVE  NextInLine(rb \o Read(s, n), Unread(s, n), log, from)
<1> DEFINE all == rb \o Read(s, n)
<1>1. all \o Unread(s, n) = Frames(log, from)
  BY ReadMoves DEF Holds
<1>2. Read(s, n) \in Seq(Pieces(Msgs)) /\ Unread(s, n) \in Seq(Pieces(Msgs))
  BY CutPieces
<1>3. all \in Seq(Pieces(Msgs))
  BY <1>2, ConcatProperties
<1> HIDE DEF all
<1>4. CASE from = Len(log)
  <2>1. all \o Unread(s, n) = <<>>
    BY <1>1, <1>4, FramesEnd
  <2>2. all = <<>>
    BY <1>2, <1>3, <2>1, ConcatEqualIffEmpty
  <2> QED BY <1>1, <2>2 DEF all, Available, Skipped, NextInLine, Holds
<1>5. CASE from < Len(log)
  <2>2. /\ log[from + 1] \in Msgs /\ from + 1 \in 0..Len(log)
        /\ Frames(log, from) = Frame(log[from + 1]) \o Frames(log, from + 1)
    BY <1>5, FramesFirst
  <2>3. Frames(log, from + 1) \in Seq(Pieces(Msgs))
    BY <2>2, FramesOfTypes
  <2>4. all \o Unread(s, n) = Frame(log[from + 1]) \o Frames(log, from + 1)
    BY <1>1, <2>2
  <2> DEFINE m    == log[from + 1]
             rest == Frames(log, from + 1)
             u    == Unread(s, n)
             P    == Pieces(Msgs)
  <2>5. /\ m.len \in Nat /\ Frame(m) \in Seq(P)
        /\ rest \in Seq(P) /\ u \in Seq(P) /\ all \in Seq(P)
        /\ InFront(m, rest, all, u)
    BY <1>2, <1>3, <2>2, <2>3, <2>4, FramePieces DEF InFront
  <2>6. /\ Len(all) \in Nat /\ (all = <<>> \/ (1 \in 1..Len(all) /\ Head(all) = all[1]))
        /\ m.len \in Nat
    BY <1>3, <2>5
  <2> HIDE DEF m, rest, u, P
  <2>7. ASSUME NEW i \in 1..Len(all), i <= m.len + 1
        PROVE  all[i] = [msg |-> m, part |-> i - 1]
    BY <2>5, <2>7, BeginsWith
  <2>8. all = <<>> \/ (Head(all).msg = m /\ Head(all).part = 0)
    <3>1. all = <<>> \/ all[1] = [msg |-> m, part |-> 1 - 1]
      BY <2>6, <2>7
    <3> QED BY <2>6, <3>1
  <2>9. Skipped(all) = {}
    BY <2>8 DEF Skipped
  <2>10. ASSUME Available(all)
         PROVE  Package(all) = m /\ Rest(all) \o u = rest /\ Contents(all) \subseteq {m}
    <3>1. Package(all) = m /\ Rest(all) \o u = rest
      BY <2>5, <2>10, TakesFirst
    <3>2. Head(all).msg = m /\ Len(all) >= m.len + 1
      BY <2>8, <2>10 DEF Available
    <3>3. \A k \in 2..(m.len + 1) : k \in 1..Len(all) /\ k <= m.len + 1
      BY <2>6, <3>2
    <3>4. ASSUME NEW k \in 2..(m.len + 1) PROVE all[k].msg = m
      <4>1. k \in 1..Len(all) /\ k <= m.len + 1
        BY <3>3
      <4>2. all[k] = [msg |-> m, part |-> k - 1]
        BY <2>7, <4>1
      <4> QED BY <4>2
    <3> QED BY <3>1, <3>2, <3>4 DEF Contents
  <2> QED BY <1>1, <1>5, <2>9, <2>10 DEF all, m, rest, u, NextInLine, Holds
<1>6. from = Len(log) \/ from < Len(log)
  OBVIOUS
<1> QED
  BY <1>4, <1>5, <1>6

-----------------------------------------------------------------------------
\* InStep, inductively: what an end has taken is where the other's log begins,
\* and what it has not taken is in its ring buffer and its stream.

Follows(done, log) == Len(done) <= Len(log) /\ \A i \in 1..Len(done) : done[i] = log[i]

LogTypes ==
  /\ sent \in Seq(RequestMsgs) /\ handled \in Seq(RequestMsgs)
  /\ replied \in Seq(ReplyMsgs) /\ received \in Seq(ReplyMsgs)

RequestsInStep ==
  /\ Follows(handled, sent)
  /\ serverOpen => serverRb \o toServer = Frames(sent, Len(handled))

RepliesInStep ==
  ~dropped =>
    /\ Follows(received, replied)
    /\ clientOpen => clientRb \o toClient = Frames(replied, Len(received))

StepInv == LogTypes /\ RequestsInStep /\ RepliesInStep

LEMMA FollowsIsPrefix ==
  ASSUME NEW S, NEW log \in Seq(S), NEW done \in Seq(S)
  PROVE  IsPrefix(done, log) <=> Follows(done, log)
<1> DEFINE n == Len(done)
           a == SubSeq(done, 1, n)
           b == SubSeq(log, 1, n)
<1>1. n \in Nat /\ a = done
  BY SubSeqFull
<1>2. CASE n <= Len(log)
  <2>1. \A i \in 1..n : log[i] \in S
    BY <1>2
  <2>2. /\ b \in Seq(S) /\ Len(b) = n
        /\ \A i \in 1..n : b[i] = log[i]
    <3>1. /\ b \in Seq(S) /\ Len(b) = IF 1 <= n THEN n - 1 + 1 ELSE 0
          /\ \A i \in 1..(n - 1 + 1) : b[i] = log[1 + i - 1]
      BY <1>1, <2>1, SubSeqProperties
    <3> QED BY <1>1, <3>1
  <2> HIDE DEF a, b
  <2>3. done = b <=> \A i \in 1..n : done[i] = log[i]
    BY <2>2, SeqEqual
  <2> QED BY <1>1, <1>2, <2>3 DEF IsPrefix, Follows, a, b
<1>3. CASE ~(n <= Len(log))
  BY <1>3 DEF IsPrefix, Follows
<1> QED BY <1>2, <1>3

LEMMA InitStep == Init => StepInv
<1> SUFFICES ASSUME Init PROVE StepInv
  OBVIOUS
<1>1. /\ sent = <<>> /\ handled = <<>> /\ replied = <<>> /\ received = <<>>
      /\ serverRb = <<>> /\ toServer = <<>> /\ clientRb = <<>> /\ toClient = <<>>
  BY DEF Init, StreamInit, ClientInit, ServerInit
<1>2. Follows(<<>>, <<>>) /\ <<>> \o <<>> = <<>>
  BY DEF Follows
<1>3. Frames(<<>>, Len(<<>>)) = <<>>
  <2>1. <<>> \in Seq({}) /\ \A m \in {} : m.len \in Nat
    OBVIOUS
  <2> QED BY <2>1, FramesEnd
<1> QED
  BY <1>1, <1>2, <1>3 DEF StepInv, LogTypes, RequestsInStep, RepliesInStep

\* What the streams hold are pieces of messages of a length.
LEMMA StreamPieces ==
  ASSUME StreamsInv
  PROVE  /\ toServer \in Seq(Pieces(RequestMsgs)) /\ serverRb \in Seq(Pieces(RequestMsgs))
         /\ toClient \in Seq(Pieces(ReplyMsgs)) /\ clientRb \in Seq(Pieces(ReplyMsgs))
         /\ \A m \in RequestMsgs : m.len \in Nat
         /\ \A m \in ReplyMsgs : m.len \in Nat
<1>1. ASSUME NEW Msgs PROVE Seq(Pieces(Genuine(Msgs))) \subseteq Seq(Pieces(Msgs))
  <2>1. Pieces(Genuine(Msgs)) \subseteq Pieces(Msgs)
    BY DEF Pieces, Genuine
  <2> QED BY <2>1
<1> QED
  BY <1>1 DEF StreamsInv, RequestMsgs, ReplyMsgs

\* A message is written to a log, and its frame to the stream.
LEMMA WritesLog ==
  ASSUME NEW S, NEW log \in Seq(S), NEW done \in Seq(S), Follows(done, log), NEW m \in S
  PROVE  Append(log, m) \in Seq(S) /\ Follows(done, Append(log, m))
<1>1. /\ Append(log, m) \in Seq(S) /\ Len(Append(log, m)) = Len(log) + 1
      /\ \A i \in 1..Len(log) : Append(log, m)[i] = log[i]
  BY AppendProperties
<1>2. Len(done) \in 0..Len(log) /\ Len(log) \in Nat
  BY DEF Follows
<1> QED
  BY <1>1, <1>2 DEF Follows

LEMMA WritesFrame ==
  ASSUME NEW Msgs, \A q \in Msgs : q.len \in Nat,
         NEW log \in Seq(Msgs), NEW done \in Seq(Msgs), Follows(done, log), NEW m \in Msgs,
         NEW rb \in Seq(Pieces(Msgs)), NEW s \in Seq(Pieces(Msgs)),
         Holds(rb, s, log, Len(done))
  PROVE  Holds(rb, s \o Frame(m), Append(log, m), Len(done))
<1>1. Len(done) \in 0..Len(log)
  BY DEF Follows
<1>2. Frames(Append(log, m), Len(done)) = Frames(log, Len(done)) \o Frame(m)
  BY <1>1, FramesAppend
<1>3. Frame(m) \in Seq(Pieces(Msgs))
  BY FramePieces
<1> DEFINE fm == Frame(m)
<1>4. fm \in Seq(Pieces(Msgs))
  BY <1>3
<1> HIDE DEF fm
<1>5. (rb \o s) \o fm = rb \o (s \o fm)
  BY <1>4, ConcatAssociative
<1> QED
  BY <1>2, <1>5 DEF fm, Holds

\* The next message of a log is taken.
LEMMA TakesOne ==
  ASSUME NEW S, NEW log \in Seq(S), NEW done \in Seq(S), Follows(done, log),
         Len(done) < Len(log), NEW m, m = log[Len(done) + 1]
  PROVE  /\ m \in S /\ Append(done, m) \in Seq(S) /\ Follows(Append(done, m), log)
         /\ Len(Append(done, m)) = Len(done) + 1
<1>1. Len(done) \in Nat /\ Len(log) \in Nat /\ Len(done) + 1 \in 1..Len(log)
  OBVIOUS
<1>2. m \in S
  BY <1>1
<1>3. /\ Append(done, m) \in Seq(S) /\ Len(Append(done, m)) = Len(done) + 1
      /\ \A i \in 1..Len(done) : Append(done, m)[i] = done[i]
      /\ Append(done, m)[Len(done) + 1] = m
  BY <1>2, AppendProperties
<1>4. Follows(Append(done, m), log)
  BY <1>1, <1>3 DEF Follows
<1> QED
  BY <1>2, <1>3, <1>4

\* The message of a request is one, and its frame is what sendRequest writes.
LEMMA SendRequestStep ==
  ASSUME AnswerInv, StepInv, NEW c \in Calls, SendRequest(c), UNCHANGED serverVars
  PROVE  StepInv'
<1> DEFINE m == [id |-> GetNextReqId, call |-> c, request |-> RequestOf[c], len |-> 1]
<1>1. /\ UNCHANGED <<replied, received, clientRb, toClient, clientOpen, dropped>>
      /\ UNCHANGED <<serverRb, handled, serverOpen>>
  BY DEF SendRequest, serverVars
<1>2. \/ sent' = Append(sent, m) /\ toServer' = toServer \o Frame(m)
      \/ UNCHANGED <<sent, toServer>>
  BY DEF SendRequest
<1>3. m \in RequestMsgs
  <2>1. mCurReqId \in 0..MaxId /\ MaxId \in Nat
    BY IdsAssumption DEF AnswerInv, TableInv
  <2>2. GetNextReqId \in 0..MaxId
    BY <2>1 DEF GetNextReqId
  <2> QED BY <2>2 DEF RequestMsgs
<1>4. RepliesInStep'
  BY <1>1 DEF StepInv, RepliesInStep
<1> HIDE DEF m
<1>5. CASE sent' = Append(sent, m) /\ toServer' = toServer \o Frame(m)
  <2>1. /\ toServer \in Seq(Pieces(RequestMsgs)) /\ serverRb \in Seq(Pieces(RequestMsgs))
        /\ \A q \in RequestMsgs : q.len \in Nat
    BY StreamPieces DEF AnswerInv
  <2>2. /\ sent \in Seq(RequestMsgs) /\ handled \in Seq(RequestMsgs) /\ Follows(handled, sent)
    BY DEF StepInv, LogTypes, RequestsInStep
  <2>3. sent' \in Seq(RequestMsgs) /\ Follows(handled, sent')
    BY <1>3, <1>5, <2>2, WritesLog
  <2>4. Holds(serverRb, toServer, sent, Len(handled))
          => Holds(serverRb, toServer', sent', Len(handled))
    BY <1>3, <1>5, <2>1, <2>2, WritesFrame
  <2>5. RequestsInStep'
    BY <1>1, <2>3, <2>4 DEF StepInv, RequestsInStep, Holds
  <2>6. LogTypes'
    BY <1>1, <2>3 DEF StepInv, LogTypes
  <2> QED BY <1>4, <2>5, <2>6 DEF StepInv
<1>6. CASE UNCHANGED <<sent, toServer>>
  BY <1>1, <1>4, <1>6 DEF StepInv, LogTypes, RequestsInStep
<1> QED
  BY <1>2, <1>5, <1>6

\* A reply is taken, or its bytes stay where they were, or go to waste.  Until a
\* chunk is dropped it is the next one the server wrote, and its text is its own.
LEMMA ClientReadStep ==
  ASSUME AnswerInv, StepInv, ClientRead, UNCHANGED serverVars
  PROVE  /\ StepInv'
         /\ \/ /\ UNCHANGED <<received, mRequestList, timers, callbacks>>
               /\ UNCHANGED dropped \/ dropped' = TRUE
            \/ \E m, r \in Genuine(ReplyMsgs) :
                 /\ ParseClientData(m, r) /\ UNCHANGED dropped
                 /\ ~dropped => r = m /\ m \in ToSet(replied)
<1>1. /\ UNCHANGED <<serverRb, handled, replied, serverOpen, toServer, sent, clientOpen>>
      /\ clientOpen
  BY DEF ClientRead, serverVars
<1> DEFINE all(n) == clientRb \o Read(toClient, n)
<1>2. PICK n \in ReadSizes(toClient) :
        /\ toClient' = Unread(toClient, n)
        /\ \/ /\ Available(all(n)) /\ clientRb' = Rest(all(n))
              /\ \E r \in Contents(all(n)) : ParseClientData(Package(all(n)), r)
              /\ UNCHANGED dropped
           \/ /\ clientRb' \in {all(n)} \cup Skipped(all(n))
              /\ UNCHANGED <<dropped, received, mRequestList, timers, callbacks>>
           \/ /\ dropped' = TRUE
              /\ UNCHANGED <<received, mRequestList, timers, callbacks>>
  BY DEF ClientRead
<1> DEFINE rb == all(n)
           u  == Unread(toClient, n)
<1>3. /\ toClient \in Seq(Pieces(ReplyMsgs)) /\ clientRb \in Seq(Pieces(ReplyMsgs))
      /\ \A m \in ReplyMsgs : m.len \in Nat
  BY StreamPieces DEF AnswerInv
<1>4. /\ replied \in Seq(ReplyMsgs) /\ received \in Seq(ReplyMsgs)
      /\ ~dropped => Follows(received, replied) /\ Len(received) \in 0..Len(replied)
  BY DEF StepInv, LogTypes, RepliesInStep, Follows
<1>5. RequestsInStep'
  BY <1>1 DEF StepInv, RequestsInStep
<1>6. ASSUME ~dropped
      PROVE  NextInLine(rb, u, replied, Len(received))
  <2>1. Holds(clientRb, toClient, replied, Len(received))
    BY <1>1, <1>6 DEF StepInv, RepliesInStep, Holds
  <2> QED BY <1>3, <1>4, <1>6, <2>1, TakesNext
<1>7. ASSUME Available(rb)
      PROVE  Package(rb) \in Genuine(ReplyMsgs) /\ Contents(rb) \subseteq Genuine(ReplyMsgs)
  <2> DEFINE S == Pieces(Genuine(ReplyMsgs))
  <2>1. toClient \in Seq(S) /\ clientRb \in Seq(S)
    BY DEF AnswerInv, StreamsInv
  <2>2. Read(toClient, n) \in Seq(S)
    BY <2>1, CutPieces
  <2>3. rb \in Seq(S)
    BY <2>1, <2>2, ConcatProperties
  <2>4. \A m \in Genuine(ReplyMsgs) : m.len \in Nat
    BY DEF Genuine, ReplyMsgs
  <2> HIDE DEF rb
  <2> QED BY <1>7, <2>3, <2>4, TakenPieces
<1>8. ASSUME Available(rb), clientRb' = Rest(rb), UNCHANGED dropped,
             NEW r \in Contents(rb), ParseClientData(Package(rb), r)
      PROVE  /\ StepInv'
             /\ \E m, w \in Genuine(ReplyMsgs) :
                  /\ ParseClientData(m, w)
                  /\ ~dropped => w = m /\ m \in ToSet(replied)
  <2> DEFINE m == Package(rb)
  <2>1. ~dropped =>
          /\ Len(received) < Len(replied) /\ m = replied[Len(received) + 1] /\ r = m
          /\ clientRb' \o toClient' = Frames(replied, Len(received) + 1)
    BY <1>2, <1>6, <1>8 DEF NextInLine
  <2>2. received' = Append(received, m)
    BY <1>8 DEF ParseClientData
  <2>3. m \in Genuine(ReplyMsgs) /\ r \in Genuine(ReplyMsgs) /\ m \in ReplyMsgs
    BY <1>7, <1>8 DEF Genuine
  <2> HIDE DEF m
  <2>4. received' \in Seq(ReplyMsgs)
    BY <1>4, <2>2, <2>3, AppendProperties
  <2>5. ~dropped => Follows(received', replied) /\ Len(received') = Len(received) + 1
    BY <1>4, <2>1, <2>2, TakesOne
  <2>6. StepInv'
    BY <1>1, <1>5, <1>8, <2>1, <2>4, <2>5 DEF StepInv, LogTypes, RepliesInStep
  <2>7. ~dropped => m \in ToSet(replied)
    <3>1. ~dropped => Len(received) + 1 \in DOMAIN replied
      BY <1>4, <2>1
    <3> QED BY <2>1, <3>1 DEF ToSet
  <2> QED BY <1>8, <2>1, <2>3, <2>6, <2>7 DEF m
<1>9. CASE /\ clientRb' \in {rb} \cup Skipped(rb)
           /\ UNCHANGED <<dropped, received, mRequestList, timers, callbacks>>
  <2>1. ~dropped => clientRb' \o toClient' = Frames(replied, Len(received))
    BY <1>2, <1>6, <1>9 DEF NextInLine, Holds
  <2> QED BY <1>1, <1>4, <1>5, <1>9, <2>1 DEF StepInv, LogTypes, RepliesInStep
<1>10. CASE /\ dropped' = TRUE
            /\ UNCHANGED <<received, mRequestList, timers, callbacks>>
  BY <1>1, <1>4, <1>5, <1>10 DEF StepInv, LogTypes, RepliesInStep
<1> QED
  BY <1>2, <1>8, <1>9, <1>10

\* A request is taken and answered, or its bytes stay where they were, or the
\* connection is stopped.
LEMMA ServerReadHandles ==
  ASSUME AnswerInv, StepInv, ServerRead, UNCHANGED clientVars
  PROVE  /\ RequestsInStep' /\ handled' \in Seq(RequestMsgs)
         /\ \/ UNCHANGED <<handled, replied, toClient>>
            \/ \E m \in Genuine(RequestMsgs) : \E rb, u :
                 /\ Len(handled) < Len(sent) /\ m = sent[Len(handled) + 1]
                 /\ ParseServerData(m, rb, u)
<1>1. UNCHANGED sent /\ serverOpen
  BY DEF ServerRead, clientVars
<1> DEFINE all(n) == serverRb \o Read(toServer, n)
<1>2. PICK n \in ReadSizes(toServer) :
        \/ StopTaskClient /\ UNCHANGED <<handled, replied, toClient>>
        \/ /\ serverRb' = all(n) /\ toServer' = Unread(toServer, n)
           /\ UNCHANGED <<handled, replied, toClient, serverOpen>>
        \/ Available(all(n)) /\ ParseServerData(Package(all(n)), Rest(all(n)), Unread(toServer, n))
  BY DEF ServerRead
<1> DEFINE rb == all(n)
           u  == Unread(toServer, n)
<1>3. /\ toServer \in Seq(Pieces(RequestMsgs)) /\ serverRb \in Seq(Pieces(RequestMsgs))
      /\ \A m \in RequestMsgs : m.len \in Nat
  BY StreamPieces DEF AnswerInv
<1>4. /\ sent \in Seq(RequestMsgs) /\ handled \in Seq(RequestMsgs) /\ Follows(handled, sent)
      /\ Len(handled) \in 0..Len(sent)
  BY DEF StepInv, LogTypes, RequestsInStep, Follows
<1>5. Holds(serverRb, toServer, sent, Len(handled))
  BY <1>1 DEF StepInv, RequestsInStep, Holds
<1>6. NextInLine(rb, u, sent, Len(handled))
  BY <1>3, <1>4, <1>5, TakesNext
<1>7. Package(rb) \in Genuine(RequestMsgs) \/ ~Available(rb)
  <2> DEFINE S == Pieces(Genuine(RequestMsgs))
  <2>1. toServer \in Seq(S) /\ serverRb \in Seq(S)
    BY DEF AnswerInv, StreamsInv
  <2>2. Read(toServer, n) \in Seq(S)
    BY <2>1, CutPieces
  <2>3. rb \in Seq(S)
    BY <2>1, <2>2, ConcatProperties
  <2>4. \A m \in Genuine(RequestMsgs) : m.len \in Nat
    BY DEF Genuine, RequestMsgs
  <2> HIDE DEF rb
  <2> QED BY <2>3, <2>4, TakenPieces
<1> HIDE DEF rb, u
<1>8. CASE StopTaskClient /\ UNCHANGED <<handled, replied, toClient>>
  BY <1>1, <1>4, <1>8 DEF StopTaskClient, RequestsInStep
<1>9. CASE /\ serverRb' = rb /\ toServer' = u
           /\ UNCHANGED <<handled, replied, toClient, serverOpen>>
  BY <1>1, <1>4, <1>6, <1>9 DEF RequestsInStep, NextInLine, Holds
<1>10. CASE Available(rb) /\ ParseServerData(Package(rb), Rest(rb), u)
  <2> DEFINE m == Package(rb)
             left == Rest(rb)
  <2>1. Len(handled) < Len(sent) /\ m = sent[Len(handled) + 1]
    BY <1>6, <1>10 DEF NextInLine
  <2>2. left \o u = Frames(sent, Len(handled) + 1)
    BY <1>6, <1>10 DEF NextInLine
  <2>3. /\ handled' = Append(handled, m)
        /\ \/ serverOpen' = FALSE
           \/ serverRb' = left /\ toServer' = u
    BY <1>10 DEF ParseServerData, StopTaskClient
  <2> HIDE DEF m, left
  <2>4. /\ handled' \in Seq(RequestMsgs) /\ Follows(handled', sent)
        /\ Len(handled') = Len(handled) + 1
    BY <1>4, <2>1, <2>3, TakesOne
  <2>5. RequestsInStep'
    BY <1>1, <2>2, <2>3, <2>4 DEF RequestsInStep
  <2> QED BY <1>7, <1>10, <2>1, <2>4, <2>5 DEF m, left
<1> QED
  BY <1>2, <1>8, <1>9, <1>10 DEF rb, u

\* The answer the server gives, as it goes to the log and to the stream.
LEMMA AnswerMessage ==
  ASSUME NEW m \in Genuine(RequestMsgs), NEW rb, NEW u, ParseServerData(m, rb, u)
  PROVE  /\ handled' = Append(handled, m)
         /\ \/ \E reply \in ReplyMsgs :
                 /\ clientOpen /\ reply.call = m.call
                 /\ replied' = Append(replied, reply)
                 /\ toClient' = toClient \o Frame(reply)
            \/ UNCHANGED <<replied, toClient>>
<1>1. /\ m.id \in 0..MaxId /\ m.call \in Calls
      /\ m.request \in {RequestOf[c] : c \in Calls}
  BY DEF Genuine, RequestMsgs
<1>2. PICK code \in Codes(m.request) :
        LET reply == [id |-> m.id, call |-> m.call, code |-> code,
                      len |-> ReplyLen(m.request.type, code)] IN
        \/ clientOpen /\ replied' = Append(replied, reply) /\ toClient' = toClient \o Frame(reply)
        \/ UNCHANGED <<replied, toClient>>
  BY DEF ParseServerData
<1> DEFINE reply == [id |-> m.id, call |-> m.call, code |-> code,
                     len |-> ReplyLen(m.request.type, code)]
<1>3. code \in ErrorCodes
  BY <1>1, <1>2, CodesOf
<1>4. ReplyLen(m.request.type, code) \in Nat
  BY ListAssumption DEF ReplyLen
<1>5. reply \in ReplyMsgs /\ reply.call = m.call
  BY <1>1, <1>3, <1>4 DEF ReplyMsgs
<1>6. \/ clientOpen /\ replied' = Append(replied, reply) /\ toClient' = toClient \o Frame(reply)
      \/ UNCHANGED <<replied, toClient>>
  BY <1>2
<1>7. handled' = Append(handled, m)
  BY DEF ParseServerData
<1> HIDE DEF reply
<1> QED
  BY <1>5, <1>6, <1>7

LEMMA ServerReadStep ==
  ASSUME AnswerInv, StepInv, ServerRead, UNCHANGED clientVars
  PROVE  StepInv'
<1>1. UNCHANGED <<sent, received, dropped, clientRb, clientOpen>>
  BY DEF ServerRead, clientVars
<1>2. /\ RequestsInStep' /\ handled' \in Seq(RequestMsgs)
      /\ \/ UNCHANGED <<handled, replied, toClient>>
         \/ \E m \in Genuine(RequestMsgs) : \E rb, u : ParseServerData(m, rb, u)
  BY ServerReadHandles
<1>3. /\ replied \in Seq(ReplyMsgs) /\ received \in Seq(ReplyMsgs)
      /\ ~dropped => Follows(received, replied)
      /\ sent \in Seq(RequestMsgs)
  BY DEF StepInv, LogTypes, RepliesInStep
<1>4. CASE UNCHANGED <<replied, toClient>>
  BY <1>1, <1>2, <1>3, <1>4 DEF StepInv, LogTypes, RepliesInStep
<1>5. ASSUME NEW reply \in ReplyMsgs,
             replied' = Append(replied, reply), toClient' = toClient \o Frame(reply)
      PROVE  StepInv'
  <2>1. replied' \in Seq(ReplyMsgs) /\ (~dropped => Follows(received, replied'))
    BY <1>3, <1>5, WritesLog, AppendProperties
  <2>2. /\ toClient \in Seq(Pieces(ReplyMsgs)) /\ clientRb \in Seq(Pieces(ReplyMsgs))
        /\ \A m \in ReplyMsgs : m.len \in Nat
    BY StreamPieces DEF AnswerInv
  <2>3. ~dropped /\ Holds(clientRb, toClient, replied, Len(received))
          => Holds(clientRb, toClient', replied', Len(received))
    BY <1>3, <1>5, <2>2, WritesFrame
  <2> QED BY <1>1, <1>2, <1>3, <2>1, <2>3 DEF StepInv, LogTypes, RepliesInStep, Holds
<1> QED
  BY <1>2, <1>4, <1>5, AnswerMessage

\* The inductive step.
LEMMA NextStep == AnswerInv /\ StepInv /\ [Next]_vars => StepInv'
<1> SUFFICES ASSUME AnswerInv, StepInv, [Next]_vars PROVE StepInv'
  OBVIOUS
<1> USE DEF StepInv, LogTypes, RequestsInStep, RepliesInStep
<1>1. CASE UNCHANGED <<streamVars, serverVars, clientRb, dropped, sent, received>>
  BY <1>1 DEF streamVars, serverVars
<1>2. ASSUME NEW c \in Calls, SendRequest(c), UNCHANGED serverVars PROVE StepInv'
  BY <1>2, SendRequestStep
<1>3. ASSUME ClientRead, UNCHANGED serverVars PROVE StepInv'
  BY <1>3, ClientReadStep
<1>4. ASSUME ClientDestroy, UNCHANGED serverVars PROVE StepInv'
  BY <1>4 DEF ClientDestroy, serverVars
<1>5. ASSUME ServerRead, UNCHANGED clientVars PROVE StepInv'
  BY <1>5, ServerReadStep
<1>6. ASSUME ServerEof, UNCHANGED clientVars PROVE StepInv'
  BY <1>6 DEF ServerEof, StopTaskClient, clientVars
<1>7. ASSUME NEW c \in Calls, RequestTimeout(c), UNCHANGED serverVars PROVE StepInv'
  BY <1>1, <1>7 DEF RequestTimeout, streamVars, serverVars
<1>8. CASE UNCHANGED vars
  BY <1>1, <1>8 DEF vars, clientVars
<1> QED
  BY <1>2, <1>3, <1>4, <1>5, <1>6, <1>7, <1>8 DEF Next

LEMMA StepInvariance == Spec => [](AnswerInv /\ StepInv)
  BY InitAnswer, NextAnswer, InitStep, NextStep, PTL DEF Spec

\* However reads cut the streams, each end takes whole messages, in the order
\* they were written, none twice and none left out: the server always, the client
\* until a chunk does not fit its ring buffer.
THEOREM WholeAndInOrder == Spec => []InStep
<1>1. StepInv => InStep
  <2> SUFFICES ASSUME StepInv PROVE InStep
    OBVIOUS
  <2>1. IsPrefix(handled, sent)
    BY FollowsIsPrefix DEF StepInv, LogTypes, RequestsInStep
  <2>2. ~dropped => IsPrefix(received, replied)
    BY FollowsIsPrefix DEF StepInv, LogTypes, RepliesInStep
  <2> QED BY <2>1, <2>2 DEF StepInv, RequestsInStep, RepliesInStep, InStep
<1> QED
  BY <1>1, StepInvariance, PTL

-----------------------------------------------------------------------------
\* The promise of Rpc.  What the mapping needs of the histories: no call is
\* written twice, no call is answered twice or without having been handled, and
\* a callback was told a result or of the timeout; of its own call, until a chunk
\* is dropped.

CallsInv ==
  /\ \A i, j \in DOMAIN sent : sent[i].call = sent[j].call => i = j
  /\ \A i \in DOMAIN sent : reqId[sent[i].call] # NoId
  /\ \A m, w \in ToSet(replied) : m.call = w.call => m = w
  /\ \A m \in ToSet(replied) : \E h \in ToSet(handled) : h.call = m.call
  /\ \A c \in Calls : callbacks[c] # <<>> => callbacks[c][1].code \in ErrorCodes \cup {"TIMEOUT"}
  /\ ~dropped => \A c \in Calls : callbacks[c] # <<>> => callbacks[c][1].call = c

RpcInv == AnswerInv /\ StepInv /\ CallsInv

LEMMA ToSetAppend ==
  ASSUME NEW S, NEW s \in Seq(S), NEW e \in S
  PROVE  ToSet(Append(s, e)) = ToSet(s) \cup {e}
<1> DEFINE t == Append(s, e)
           n == Len(s)
<1>1. /\ t \in Seq(S) /\ Len(t) = n + 1 /\ n \in Nat
      /\ \A i \in 1..n : t[i] = s[i]
      /\ t[n + 1] = e
  BY AppendProperties
<1>2. DOMAIN s = 1..n
  OBVIOUS
<1> HIDE DEF t, n
<1>3. DOMAIN t = 1..(n + 1)
  BY <1>1
<1>4. ASSUME NEW x \in ToSet(t) PROVE x \in ToSet(s) \cup {e}
  <2>1. PICK i \in 1..(n + 1) : x = t[i]
    BY <1>3 DEF ToSet
  <2>2. i = n + 1 \/ i \in 1..n
    BY <1>1
  <2> QED BY <1>1, <1>2, <2>1, <2>2 DEF ToSet
<1>5. ASSUME NEW x \in ToSet(s) PROVE x \in ToSet(t)
  <2>1. PICK i \in 1..n : x = s[i]
    BY <1>2 DEF ToSet
  <2>2. i \in DOMAIN t /\ t[i] = x
    BY <1>1, <1>3, <2>1
  <2> QED BY <2>2 DEF ToSet
<1>6. e \in ToSet(t)
  <2>1. n + 1 \in DOMAIN t
    BY <1>1, <1>3
  <2> QED BY <1>1, <2>1 DEF ToSet
<1> QED
  BY <1>4, <1>5, <1>6 DEF t

\* A call that is handled is one nobody had handled, and it was made.
LEMMA HandledIsNew ==
  ASSUME RpcInv, Len(handled) < Len(sent), NEW m, m = sent[Len(handled) + 1]
  PROVE  /\ m \in RequestMsgs /\ reqId[m.call] # NoId
         /\ \A h \in ToSet(handled) : h.call # m.call
         /\ \A r \in ToSet(replied) : r.call # m.call
<1>1. /\ sent \in Seq(RequestMsgs) /\ handled \in Seq(RequestMsgs) /\ Follows(handled, sent)
  BY DEF RpcInv, StepInv, LogTypes, RequestsInStep
<1>2. Len(handled) \in Nat /\ Len(sent) \in Nat /\ Len(handled) + 1 \in DOMAIN sent
      /\ DOMAIN sent = 1..Len(sent) /\ DOMAIN handled = 1..Len(handled)
  BY <1>1
<1>3. m \in RequestMsgs /\ reqId[m.call] # NoId
  BY <1>1, <1>2 DEF RpcInv, CallsInv
<1>4. ASSUME NEW h \in ToSet(handled) PROVE h.call # m.call
  <2>1. PICK i \in 1..Len(handled) : h = handled[i]
    BY <1>2 DEF ToSet
  <2>2. h = sent[i] /\ i \in DOMAIN sent /\ i # Len(handled) + 1
    BY <1>1, <1>2, <2>1 DEF Follows
  <2> QED BY <1>2, <2>2 DEF RpcInv, CallsInv
<1> QED
  BY <1>3, <1>4 DEF RpcInv, CallsInv

\* What CallBack leaves behind.
LEMMA CallBackIs ==
  ASSUME TableInv, NEW c \in Waiting, NEW code, NEW call, CallBack(c, code, call)
  PROVE  \/ UNCHANGED callbacks
         \/ /\ callbacks'[c] # <<>>
            /\ callbacks'[c][1].code = code /\ callbacks'[c][1].call = call
            /\ \A d \in Calls : d # c => callbacks'[d] = callbacks[d]
<1>0. CASE c \in NoCallback
  BY <1>0 DEF CallBack
<1> SUFFICES ASSUME c \notin NoCallback
             PROVE  /\ callbacks'[c] # <<>>
                    /\ callbacks'[c][1].code = code /\ callbacks'[c][1].call = call
                    /\ \A d \in Calls : d # c => callbacks'[d] = callbacks[d]
  BY <1>0
<1> DEFINE res == [code |-> code, call |-> call]
<1>1. c \in Calls /\ callbacks[c] = <<>>
  BY DEF Waiting, ToSet, TableInv, CallbackOnce
<1>2. callbacks' = [callbacks EXCEPT ![c] = Append(callbacks[c], res)]
  BY DEF CallBack
<1>3. res.code = code /\ res.call = call
  OBVIOUS
<1> HIDE DEF res
<1>4. callbacks' = [callbacks EXCEPT ![c] = <<res>>]
  BY <1>1, <1>2, AppendToEmpty
<1>5. callbacks'[c] = <<res>> /\ \A d \in Calls : d # c => callbacks'[d] = callbacks[d]
  BY <1>1, <1>4 DEF TableInv
<1>6. <<res>> # <<>> /\ <<res>>[1] = res
  OBVIOUS
<1> QED
  BY <1>3, <1>5, <1>6

\* The reply ends the call whose reqId it carries, and no other.
LEMMA ReplyEnds ==
  ASSUME AnswerInv, NEW m \in Genuine(ReplyMsgs), NEW r, ParseClientData(m, r)
  PROVE  \/ UNCHANGED <<mRequestList, timers, callbacks>>
         \/ /\ m.call \in Waiting /\ Drop(m.call)
            /\ CallBack(m.call, r.code, r.call) \/ UNCHANGED callbacks
<1>1. m.call \in Calls /\ reqId[m.call] = m.id /\ m.id \in 0..MaxId
  BY DEF Genuine, ReplyMsgs
<1>2. ASSUME NEW i \in Matching(m) PROVE mRequestList[i] \in Waiting /\ mRequestList[i] = m.call
  <2>1. /\ mRequestList[i] \in Waiting /\ mRequestList[i] \in Calls
        /\ reqId[mRequestList[i]] = m.id
    BY DEF Matching, Waiting, ToSet, AnswerInv, TableInv
  <2>2. mRequestList[i] \in Made /\ m.call \in Made
    BY <1>1, <2>1, IdsAssumption DEF Made
  <2> QED BY <1>1, <2>1, <2>2 DEF AnswerInv, IdsInv
<1> QED
  BY <1>2 DEF ParseClientData

-----------------------------------------------------------------------------
LEMMA InitCalls == Init => CallsInv
<1> SUFFICES ASSUME Init PROVE CallsInv
  OBVIOUS
<1>1. sent = <<>> /\ replied = <<>> /\ \A c \in Calls : callbacks[c] = <<>>
  BY DEF Init, ClientInit, ServerInit
<1>2. DOMAIN sent = {} /\ ToSet(replied) = {}
  BY <1>1 DEF ToSet
<1> QED
  BY <1>1, <1>2 DEF CallsInv

\* A request that is written is the first of its call.
LEMMA SendRequestCalls ==
  ASSUME RpcInv, NEW c \in Calls, SendRequest(c), UNCHANGED serverVars
  PROVE  CallsInv'
<1> DEFINE m == [id |-> GetNextReqId, call |-> c, request |-> RequestOf[c], len |-> 1]
<1>1. /\ UNCHANGED <<callbacks, handled, replied, dropped>> /\ reqId[c] = NoId
      /\ reqId' = [reqId EXCEPT ![c] = GetNextReqId]
      /\ sent' = Append(sent, m) \/ UNCHANGED sent
  BY DEF SendRequest, serverVars
<1>2. /\ reqId \in [Calls -> 0..MaxId \cup {NoId}] /\ mCurReqId \in 0..MaxId
      /\ MaxId \in Nat /\ NoId \notin 0..MaxId /\ sent \in Seq(RequestMsgs)
  BY IdsAssumption DEF RpcInv, AnswerInv, TableInv, StepInv, LogTypes
<1>3. GetNextReqId \in 0..MaxId
  BY <1>2 DEF GetNextReqId
<1>4. reqId'[c] # NoId /\ \A d \in Calls : reqId[d] # NoId => reqId'[d] # NoId
  BY <1>1, <1>2, <1>3
<1>5. m \in RequestMsgs /\ m.call = c
  BY <1>3 DEF RequestMsgs
<1>6. DOMAIN sent = 1..Len(sent) /\ Len(sent) \in Nat
      /\ \A i \in DOMAIN sent : sent[i].call \in Calls /\ sent[i].call # c
  <2>1. DOMAIN sent = 1..Len(sent) /\ Len(sent) \in Nat
    BY <1>2
  <2>2. ASSUME NEW i \in DOMAIN sent PROVE sent[i].call \in Calls /\ sent[i].call # c
    <3>1. sent[i] \in RequestMsgs
      BY <1>2
    <3>2. reqId[sent[i].call] # NoId
      BY DEF RpcInv, CallsInv
    <3> QED BY <1>1, <3>1, <3>2 DEF RequestMsgs
  <2> QED BY <2>1, <2>2
<1> HIDE DEF m
<1>7. /\ \A i, j \in DOMAIN sent' : sent'[i].call = sent'[j].call => i = j
      /\ \A i \in DOMAIN sent' : reqId'[sent'[i].call] # NoId
  <2>1. CASE UNCHANGED sent
    BY <1>4, <1>6, <2>1 DEF RpcInv, CallsInv
  <2>2. CASE sent' = Append(sent, m)
    <3>1. /\ DOMAIN sent' = 1..(Len(sent) + 1) /\ sent'[Len(sent) + 1] = m
          /\ \A i \in 1..Len(sent) : sent'[i] = sent[i]
      BY <1>2, <1>5, <2>2, AppendProperties
    <3>2. \A i \in DOMAIN sent' : i = Len(sent) + 1 \/ i \in DOMAIN sent
      BY <1>6, <3>1
    <3> QED BY <1>4, <1>5, <1>6, <3>1, <3>2 DEF RpcInv, CallsInv
  <2> QED BY <1>1, <2>1, <2>2
<1> QED
  BY <1>1, <1>7 DEF RpcInv, CallsInv

\* What the callback of a call that ends is told.
LEMMA CallBackCalls ==
  ASSUME RpcInv, NEW c \in Waiting, NEW code \in ErrorCodes \cup {"TIMEOUT"}, NEW call,
         ~dropped => call = c,
         CallBack(c, code, call), UNCHANGED <<sent, reqId, handled, replied, dropped>>
  PROVE  CallsInv'
<1>1. \/ UNCHANGED callbacks
      \/ /\ callbacks'[c][1].code = code /\ callbacks'[c][1].call = call
         /\ \A d \in Calls : d # c => callbacks'[d] = callbacks[d]
  BY CallBackIs DEF RpcInv, AnswerInv
<1> QED
  BY <1>1 DEF RpcInv, CallsInv

\* A request that is handled is answered at most once.
LEMMA ServerReadCalls ==
  ASSUME RpcInv, ServerRead, UNCHANGED clientVars
  PROVE  CallsInv'
<1>1. UNCHANGED <<sent, reqId, callbacks, dropped>>
  BY DEF clientVars
<1>2. CASE UNCHANGED <<handled, replied>>
  BY <1>1, <1>2 DEF RpcInv, CallsInv
<1>3. ASSUME NEW m \in Genuine(RequestMsgs), NEW rb, NEW u,
             Len(handled) < Len(sent), m = sent[Len(handled) + 1], ParseServerData(m, rb, u)
      PROVE  CallsInv'
  <2>1. /\ handled \in Seq(RequestMsgs) /\ replied \in Seq(ReplyMsgs)
    BY DEF RpcInv, StepInv, LogTypes
  <2>2. /\ m \in RequestMsgs
        /\ \A h \in ToSet(handled) : h.call # m.call
        /\ \A r \in ToSet(replied) : r.call # m.call
    BY <1>3, HandledIsNew
  <2>3. handled' = Append(handled, m)
    BY <1>3, AnswerMessage
  <2>4. ToSet(handled') = ToSet(handled) \cup {m}
    BY <2>1, <2>2, <2>3, ToSetAppend
  <2>5. CASE UNCHANGED replied
    BY <1>1, <2>4, <2>5 DEF RpcInv, CallsInv
  <2>6. ASSUME NEW reply \in ReplyMsgs, reply.call = m.call, replied' = Append(replied, reply)
        PROVE  CallsInv'
    <3>1. ToSet(replied') = ToSet(replied) \cup {reply}
      BY <2>1, <2>6, ToSetAppend
    <3> QED BY <1>1, <2>2, <2>4, <2>6, <3>1 DEF RpcInv, CallsInv
  <2> QED BY <1>3, <2>5, <2>6, AnswerMessage
<1> QED
  BY <1>2, <1>3, ServerReadHandles DEF RpcInv

LEMMA NextCalls == RpcInv /\ [Next]_vars => CallsInv'
<1> SUFFICES ASSUME RpcInv, [Next]_vars PROVE CallsInv'
  OBVIOUS
<1>1. CASE /\ UNCHANGED <<sent, reqId, handled, replied, callbacks>>
           /\ UNCHANGED dropped \/ dropped' = TRUE
  BY <1>1 DEF RpcInv, CallsInv
<1>2. ASSUME NEW c \in Calls, SendRequest(c), UNCHANGED serverVars PROVE CallsInv'
  BY <1>2, SendRequestCalls
<1>3. ASSUME NEW c \in Calls, RequestTimeout(c), UNCHANGED serverVars PROVE CallsInv'
  <2>1. c \in Waiting /\ CallBack(c, "TIMEOUT", c)
    BY <1>3 DEF RequestTimeout, RpcInv, AnswerInv, TableInv, TimersOfTable
  <2>2. UNCHANGED <<sent, reqId, handled, replied, dropped>>
    BY <1>3 DEF RequestTimeout, serverVars
  <2> QED BY <2>1, <2>2, CallBackCalls
<1>4. ASSUME ClientRead, UNCHANGED serverVars PROVE CallsInv'
  <2>1. UNCHANGED <<sent, reqId, handled, replied>>
    BY <1>4 DEF ClientRead, serverVars
  <2>2. ASSUME NEW m \in Genuine(ReplyMsgs), NEW r \in Genuine(ReplyMsgs),
               ParseClientData(m, r), UNCHANGED dropped, ~dropped => r = m
        PROVE  CallsInv'
    <3>1. r.code \in ErrorCodes
      BY DEF Genuine, ReplyMsgs
    <3>2. UNCHANGED callbacks \/ (m.call \in Waiting /\ CallBack(m.call, r.code, r.call))
      BY <2>2, ReplyEnds DEF RpcInv
    <3> QED BY <1>1, <2>1, <2>2, <3>1, <3>2, CallBackCalls
  <2>3. \/ UNCHANGED callbacks /\ (UNCHANGED dropped \/ dropped' = TRUE)
        \/ \E m, r \in Genuine(ReplyMsgs) :
             ParseClientData(m, r) /\ UNCHANGED dropped /\ (~dropped => r = m)
    BY <1>4, ClientReadStep DEF RpcInv
  <2> QED BY <1>1, <2>1, <2>2, <2>3
<1>5. ASSUME ClientDestroy, UNCHANGED serverVars PROVE CallsInv'
  BY <1>1, <1>5 DEF ClientDestroy, serverVars
<1>6. ASSUME ServerRead, UNCHANGED clientVars PROVE CallsInv'
  BY <1>6, ServerReadCalls
<1>7. ASSUME ServerEof, UNCHANGED clientVars PROVE CallsInv'
  BY <1>1, <1>7 DEF ServerEof, clientVars
<1>8. CASE UNCHANGED vars
  BY <1>1, <1>8 DEF vars, clientVars, serverVars
<1> QED
  BY <1>2, <1>3, <1>4, <1>5, <1>6, <1>7, <1>8 DEF Next

LEMMA RpcInvariance == Spec => []RpcInv
<1>1. Init => RpcInv
  BY InitAnswer, InitStep, InitCalls DEF RpcInv
<1>2. RpcInv /\ [Next]_vars => RpcInv'
  BY NextAnswer, NextStep, NextCalls DEF RpcInv
<1> QED
  BY <1>1, <1>2, PTL DEF Spec

\* No two calls share a reqId, so a callback that is given an answer is given the
\* one to its own call, until a chunk is dropped.
THEOREM AnswersAreOwn == Spec => []OwnAnswer
<1>1. RpcInv => OwnAnswer
  <2> SUFFICES ASSUME RpcInv PROVE OwnAnswer
    OBVIOUS
  <2>1. \A c, d \in Calls : reqId[c] = reqId[d] /\ reqId[c] # NoId => c = d
    BY DEF RpcInv, AnswerInv, IdsInv, Made
  <2>2. ASSUME ~dropped, NEW c \in Calls, NEW i \in DOMAIN callbacks[c]
        PROVE  callbacks[c][i].call = c
    <3>1. callbacks[c] = <<>> \/ \E res : callbacks[c] = <<res>>
      BY DEF RpcInv, AnswerInv, TableInv, Once
    <3>2. callbacks[c] # <<>> /\ i = 1
      BY <3>1
    <3> QED BY <2>2, <3>2 DEF RpcInv, CallsInv
  <2> QED BY <2>1, <2>2 DEF OwnAnswer
<1> QED
  BY <1>1, RpcInvariance, PTL

-----------------------------------------------------------------------------
\* The mapping.  A call by call view of it: outcomes and answers change for one
\* call at a time, except when the client leaves.

outs == [c \in Calls |-> Outcome(c)]
srvs == [c \in Calls |-> Served(c)]

\* What a call's outcome says of the table and the histories.
LEMMA Outcomes ==
  ASSUME RpcInv, NEW c \in Calls
  PROVE  /\ Outcome(c) = "none" <=> reqId[c] = NoId
         /\ c \in Waiting => Outcome(c) = "pending"
<1>1. callbacks[c] # <<>> => callbacks[c][1].code \in ErrorCodes \cup {"TIMEOUT"}
  BY DEF RpcInv, CallsInv
<1>2. reqId[c] = NoId => c \notin Waiting /\ callbacks[c] = <<>>
  BY DEF RpcInv, AnswerInv, TableInv, Untouched
<1>3. c \in Waiting => callbacks[c] = <<>>
  BY DEF RpcInv, AnswerInv, TableInv, CallbackOnce
<1> QED
  BY <1>1, <1>2, <1>3 DEF Outcome, ErrorCodes

\* The server's word on a call, from the requests hs and the answers to it.
ServedBy(hs, answers, c) ==
  IF \A h \in hs : h.call # c THEN "no"
  ELSE IF answers = {} THEN "silent"
  ELSE (CHOOSE r \in answers : TRUE).code

LEMMA ServedIs ==
  ASSUME NEW c
  PROVE  /\ Served(c) = ServedBy(ToSet(handled), Replies(c), c)
         /\ Served(c)' = ServedBy(ToSet(handled'), Replies(c)', c)
BY DEF Served, ServedBy, ToSet

\* Of a call that is answered once, it is that answer.
LEMMA ServedAnswer ==
  ASSUME NEW hs, NEW r, NEW h \in hs, NEW c, h.call = c
  PROVE  ServedBy(hs, {r}, c) = r.code
<1>1. (CHOOSE w \in {r} : TRUE) = r
  OBVIOUS
<1> QED
  BY <1>1 DEF ServedBy

\* Nothing a caller or the server can see has changed.
LEMMA CallStutters ==
  ASSUME UNCHANGED <<mRequestList, callbacks, reqId, handled, replied, clientOpen, dropped>>
  PROVE  [Call!Next]_(Call!vars)
<1>1. outs' = outs /\ srvs' = srvs
  BY DEF outs, srvs, Outcome, Waiting, Served, Replies
<1> QED
  BY <1>1 DEF Call!vars, outs, srvs

\* Nor when a chunk is dropped, but that it is.
LEMMA DropIsDamage ==
  ASSUME UNCHANGED <<mRequestList, callbacks, reqId, handled, replied, clientOpen>>,
         dropped' = TRUE
  PROVE  Call!Damage
<1>1. outs' = outs /\ srvs' = srvs
  BY DEF outs, srvs, Outcome, Waiting, Served, Replies
<1> QED
  BY <1>1 DEF Call!Damage, outs, srvs

\* Only the outcome of one call changes.
LEMMA OutcomeOnly ==
  ASSUME NEW c \in Calls, NEW o, Outcome(c)' = o,
         \A d \in Calls : d # c => UNCHANGED Outcome(d),
         UNCHANGED <<handled, replied, clientOpen, dropped>>
  PROVE  outs' = [outs EXCEPT ![c] = o] /\ UNCHANGED <<srvs, clientOpen, ~dropped>>
<1>1. srvs' = srvs
  BY DEF srvs, Served, Replies
<1>2. outs' = [outs EXCEPT ![c] = o]
  BY DEF outs
<1> QED
  BY <1>1, <1>2

\* A request is made: it waits, or nobody will hear of it again.
LEMMA SendRequestRefines ==
  ASSUME RpcInv, NEW c \in Calls, SendRequest(c), UNCHANGED serverVars
  PROVE  Call!Call(c)
<1>1. /\ clientOpen /\ reqId[c] = NoId
      /\ UNCHANGED <<callbacks, handled, replied, clientOpen, dropped>>
      /\ reqId' = [reqId EXCEPT ![c] = GetNextReqId]
      /\ \/ mRequestList' = <<c>> \o mRequestList
         \/ UNCHANGED mRequestList
  BY DEF SendRequest, Register, serverVars
<1>2. /\ reqId \in [Calls -> 0..MaxId \cup {NoId}] /\ mRequestList \in Seq(Calls)
      /\ IsInjective(mRequestList) /\ c \notin Waiting /\ callbacks[c] = <<>>
      /\ mCurReqId \in 0..MaxId /\ MaxId \in Nat /\ NoId \notin 0..MaxId
  BY <1>1, IdsAssumption DEF RpcInv, AnswerInv, TableInv, TimersOfTable, Untouched
<1>3. GetNextReqId # NoId
  BY <1>2 DEF GetNextReqId
<1>4. Waiting' = Waiting \cup {c} \/ Waiting' = Waiting
  BY <1>1, <1>2, AddNode DEF Waiting
<1>5. Outcome(c) = "none"
  BY <1>1, Outcomes
<1>6. Outcome(c)' \in {"pending", "lost"}
  BY <1>1, <1>2, <1>3 DEF Outcome
<1>7. \A d \in Calls : d # c => UNCHANGED Outcome(d)
  BY <1>1, <1>2, <1>4 DEF Outcome
<1>8. outs' = [outs EXCEPT ![c] = Outcome(c)'] /\ UNCHANGED <<srvs, clientOpen, ~dropped>>
  BY <1>1, <1>7, OutcomeOnly
<1>9. outs[c] = "none"
  BY <1>5 DEF outs
<1> QED
  BY <1>1, <1>6, <1>8, <1>9 DEF Call!Call, outs, srvs

\* A node leaves the table with or without its callback having run.
LEMMA DropOutcome ==
  ASSUME RpcInv, NEW c \in Waiting, Drop(c), UNCHANGED reqId,
         UNCHANGED callbacks \/ \E code, call : CallBack(c, code, call)
  PROVE  /\ c \in Calls /\ Outcome(c) = "pending"
         /\ UNCHANGED callbacks => Outcome(c)' = "lost"
         /\ \A code, call : CallBack(c, code, call) => Outcome(c)' \in {code, "lost"}
         /\ \A d \in Calls : d # c => UNCHANGED Outcome(d)
<1>1. /\ c \in Calls /\ mRequestList \in Seq(Calls) /\ IsInjective(mRequestList)
      /\ callbacks[c] = <<>> /\ reqId[c] # NoId
  BY DEF RpcInv, AnswerInv, TableInv, TimersOfTable, CallbackOnce, Untouched, Waiting, ToSet
<1>2. Waiting' = Waiting \ {c}
  BY <1>1, RemoveNode DEF Waiting, Drop
<1>3. Outcome(c) = "pending"
  BY <1>1, Outcomes
<1>4. UNCHANGED callbacks => Outcome(c)' = "lost"
  BY <1>1, <1>2 DEF Outcome
<1>5. ASSUME NEW code, NEW call, CallBack(c, code, call)
      PROVE  /\ Outcome(c)' \in {code, "lost"}
             /\ \A d \in Calls : d # c => callbacks'[d] = callbacks[d]
  <2>1. \/ UNCHANGED callbacks
        \/ /\ callbacks'[c] # <<>> /\ callbacks'[c][1].code = code
           /\ \A d \in Calls : d # c => callbacks'[d] = callbacks[d]
    BY <1>5, CallBackIs DEF RpcInv, AnswerInv
  <2> QED BY <1>4, <2>1 DEF Outcome
<1>6. \A d \in Calls : d # c => callbacks'[d] = callbacks[d]
  BY <1>5
<1>7. \A d \in Calls : d # c => UNCHANGED Outcome(d)
  BY <1>2, <1>6 DEF Outcome
<1> QED
  BY <1>1, <1>3, <1>4, <1>5, <1>7

LEMMA RequestTimeoutRefines ==
  ASSUME RpcInv, NEW c \in Calls, RequestTimeout(c), UNCHANGED serverVars
  PROVE  Call!Timeout(c)
<1>1. /\ c \in Waiting /\ CallBack(c, "TIMEOUT", c) /\ Drop(c)
      /\ UNCHANGED <<reqId, handled, replied, clientOpen, dropped>>
  BY DEF RequestTimeout, RpcInv, AnswerInv, TableInv, TimersOfTable, serverVars, streamVars
<1>2. /\ Outcome(c) = "pending" /\ Outcome(c)' \in {"TIMEOUT", "lost"}
      /\ \A d \in Calls : d # c => UNCHANGED Outcome(d)
  BY <1>1, DropOutcome
<1>3. clientOpen
  BY <1>1 DEF RpcInv, AnswerInv, TableInv, TimersOfTable
<1>4. outs' = [outs EXCEPT ![c] = Outcome(c)'] /\ UNCHANGED <<srvs, clientOpen, ~dropped>>
  BY <1>1, <1>2, OutcomeOnly
<1>5. outs[c] = "pending"
  BY <1>2 DEF outs
<1> QED
  BY <1>2, <1>3, <1>4, <1>5 DEF Call!Timeout, outs, srvs

\* An answer that ends its call carries what the server said of it, until a chunk
\* is dropped.
LEMMA ClientReadRefines ==
  ASSUME RpcInv, ClientRead, UNCHANGED serverVars
  PROVE  [Call!Next]_(Call!vars)
<1>1. UNCHANGED <<reqId, handled, replied, clientOpen>> /\ clientOpen
  BY DEF ClientRead, serverVars
<1>2. CASE UNCHANGED <<mRequestList, callbacks, dropped>>
  BY <1>1, <1>2, CallStutters
<1>3. CASE UNCHANGED <<mRequestList, callbacks>> /\ dropped' = TRUE
  BY <1>1, <1>3, DropIsDamage DEF Call!Next
<1>4. ASSUME NEW m \in Genuine(ReplyMsgs), NEW r \in Genuine(ReplyMsgs),
             ~dropped => r = m /\ m \in ToSet(replied), UNCHANGED dropped,
             m.call \in Waiting, Drop(m.call),
             CallBack(m.call, r.code, r.call) \/ UNCHANGED callbacks
      PROVE  Call!Return(m.call)
  <2> DEFINE c == m.call
  <2>1. /\ c \in Calls /\ Outcome(c) = "pending"
        /\ Outcome(c)' \in {r.code, "lost"}
        /\ \A d \in Calls : d # c => UNCHANGED Outcome(d)
    BY <1>1, <1>4, DropOutcome
  <2>2. ~dropped => Served(c) = m.code /\ r.code = m.code
    <3> SUFFICES ASSUME ~dropped PROVE Served(c) = m.code
      BY <1>4
    <3>1. PICK h \in ToSet(handled) : h.call = c
      BY <1>4 DEF RpcInv, CallsInv
    <3>2. Replies(c) = {m}
      BY <1>4 DEF RpcInv, CallsInv, Replies
    <3> HIDE DEF c
    <3>3. ServedBy(ToSet(handled), {m}, c) = m.code
      BY <3>1, ServedAnswer
    <3> QED BY <3>2, <3>3, ServedIs
  <2>3. r.code \in {"SUCC", "NOT_FOUND", "PARSE", "MEM"}
    BY DEF Genuine, ReplyMsgs, ErrorCodes
  <2> HIDE DEF c
  <2>4. outs' = [outs EXCEPT ![c] = Outcome(c)'] /\ UNCHANGED <<srvs, clientOpen, ~dropped>>
    BY <1>1, <1>4, <2>1, OutcomeOnly
  <2>5. outs[c] = "pending" /\ (~dropped => srvs[c] = r.code)
    BY <2>1, <2>2 DEF outs, srvs
  <2>6. Call!Return(c)
    BY <1>1, <2>1, <2>3, <2>4, <2>5 DEF Call!Return, outs, srvs
  <2> QED BY <2>6 DEF c
<1>5. \/ /\ UNCHANGED <<mRequestList, callbacks>>
         /\ UNCHANGED dropped \/ dropped' = TRUE
      \/ \E m, r \in Genuine(ReplyMsgs) :
           /\ ParseClientData(m, r) /\ UNCHANGED dropped
           /\ ~dropped => r = m /\ m \in ToSet(replied)
  BY ClientReadStep DEF RpcInv
<1>6. ASSUME NEW m \in Genuine(ReplyMsgs), NEW r \in Genuine(ReplyMsgs),
             ParseClientData(m, r), UNCHANGED dropped,
             ~dropped => r = m /\ m \in ToSet(replied)
      PROVE  [Call!Next]_(Call!vars)
  <2>1. m.call \in Calls
    BY DEF Genuine, ReplyMsgs
  <2>2. UNCHANGED <<mRequestList, callbacks>> \/ Call!Return(m.call)
    BY <1>4, <1>6, ReplyEnds DEF RpcInv
  <2> QED BY <1>2, <1>6, <2>1, <2>2 DEF Call!Next
<1> QED
  BY <1>2, <1>3, <1>5, <1>6

LEMMA ClientDestroyRefines ==
  ASSUME RpcInv, ClientDestroy, UNCHANGED serverVars
  PROVE  Call!Leave
<1>1. /\ clientOpen /\ clientOpen' = FALSE /\ mRequestList' = <<>>
      /\ UNCHANGED <<reqId, callbacks, handled, replied, dropped>>
  BY DEF ClientDestroy, DropAll, serverVars
<1>2. Waiting' = {}
  BY <1>1 DEF Waiting, ToSet
<1>3. ASSUME NEW c \in Calls
      PROVE  Outcome(c)' = IF Outcome(c) = "pending" THEN "lost" ELSE Outcome(c)
  <2>1. callbacks[c] # <<>> => callbacks[c][1].code # "pending"
    BY DEF RpcInv, CallsInv, ErrorCodes
  <2>2. c \in Waiting => reqId[c] # NoId
    BY DEF RpcInv, AnswerInv, TableInv, Untouched
  <2> QED BY <1>1, <1>2, <2>1, <2>2 DEF Outcome
<1>4. outs' = [c \in Calls |-> IF outs[c] = "pending" THEN "lost" ELSE outs[c]]
  BY <1>3 DEF outs
<1>5. srvs' = srvs
  BY <1>1 DEF srvs, Served, Replies
<1> QED
  BY <1>1, <1>4, <1>5 DEF Call!Leave, outs, srvs

\* A request that is handled is served, with an answer or without.
LEMMA ServerReadRefines ==
  ASSUME RpcInv, ServerRead, UNCHANGED clientVars
  PROVE  [Call!Next]_(Call!vars)
<1>1. UNCHANGED <<mRequestList, callbacks, reqId, clientOpen, dropped>>
  BY DEF ServerRead, clientVars
<1>2. CASE UNCHANGED <<handled, replied>>
  BY <1>1, <1>2, CallStutters
<1>3. ASSUME NEW m \in Genuine(RequestMsgs), NEW rb, NEW u,
             Len(handled) < Len(sent), m = sent[Len(handled) + 1], ParseServerData(m, rb, u)
      PROVE  Call!Serve(m.call)
  <2> DEFINE c == m.call
             Results == {"SUCC", "NOT_FOUND", "PARSE", "MEM"}
  <2>1. /\ handled \in Seq(RequestMsgs) /\ replied \in Seq(ReplyMsgs)
    BY DEF RpcInv, StepInv, LogTypes
  <2>2. /\ m \in RequestMsgs /\ reqId[c] # NoId
        /\ \A h \in ToSet(handled) : h.call # c
        /\ \A r \in ToSet(replied) : r.call # c
    BY <1>3, HandledIsNew
  <2>3. c \in Calls
    BY <2>2 DEF RequestMsgs
  <2>4. ToSet(handled') = ToSet(handled) \cup {m}
    <3>1. handled' = Append(handled, m)
      BY <1>3, AnswerMessage
    <3> QED BY <2>1, <2>2, <3>1, ToSetAppend
  <2>5. Served(c) = "no"
    BY <2>2 DEF Served
  <2>6. Outcome(c) # "none"
    BY <2>2, <2>3, Outcomes
  <2>7. \/ UNCHANGED replied
        \/ \E reply \in ReplyMsgs :
             reply.call = c /\ ToSet(replied') = ToSet(replied) \cup {reply}
    <3>1. ASSUME NEW reply \in ReplyMsgs, replied' = Append(replied, reply)
          PROVE  ToSet(replied') = ToSet(replied) \cup {reply}
      BY <2>1, <3>1, ToSetAppend
    <3> QED BY <1>3, <3>1, AnswerMessage
  <2> HIDE DEF c
  <2>8. m.call = c
    BY DEF c
  <2>9. ASSUME NEW d \in Calls, d # c PROVE Served(d)' = Served(d)
    <3>1. Replies(d)' = Replies(d)
      BY <2>7, <2>9 DEF Replies
    <3>2. (\A h \in ToSet(handled') : h.call # d) <=> (\A h \in ToSet(handled) : h.call # d)
      BY <2>4, <2>8, <2>9
    <3>3. ServedBy(ToSet(handled'), Replies(d), d) = ServedBy(ToSet(handled), Replies(d), d)
      BY <3>2 DEF ServedBy
    <3> QED BY <3>1, <3>3, ServedIs
  <2>10. Served(c)' \in Results \cup {"silent"}
    <3>1. m \in ToSet(handled')
      BY <2>4
    <3>2. CASE UNCHANGED replied
      <4>1. Replies(c)' = {}
        BY <2>2, <3>2 DEF Replies, c
      <4>2. ServedBy(ToSet(handled'), {}, c) = "silent"
        BY <2>8, <3>1 DEF ServedBy
      <4> QED BY <4>1, <4>2, ServedIs
    <3>3. ASSUME NEW reply \in ReplyMsgs, reply.call = c,
                 ToSet(replied') = ToSet(replied) \cup {reply}
          PROVE  Served(c)' \in Results
      <4>1. Replies(c)' = {reply}
        BY <2>2, <3>3 DEF Replies, c
      <4>2. ServedBy(ToSet(handled'), {reply}, c) = reply.code
        BY <2>8, <3>1, ServedAnswer
      <4>3. reply.code \in Results
        BY DEF ReplyMsgs, ErrorCodes
      <4> QED BY <4>1, <4>2, <4>3, ServedIs
    <3> QED BY <2>7, <3>2, <3>3
  <2>11. srvs' = [srvs EXCEPT ![c] = Served(c)']
    BY <2>3, <2>9 DEF srvs
  <2>12. outs' = outs
    BY <1>1 DEF outs, Outcome, Waiting
  <2>13. outs[c] # "none" /\ srvs[c] = "no"
    BY <2>3, <2>5, <2>6 DEF outs, srvs
  <2>14. Call!Serve(c)
    BY <1>1, <2>10, <2>11, <2>12, <2>13 DEF Call!Serve, outs, srvs
  <2> QED BY <2>14 DEF c
<1>4. ASSUME NEW m \in Genuine(RequestMsgs), NEW rb, NEW u,
             Len(handled) < Len(sent), m = sent[Len(handled) + 1], ParseServerData(m, rb, u)
      PROVE  [Call!Next]_(Call!vars)
  <2>1. m.call \in Calls
    BY DEF Genuine, RequestMsgs
  <2> QED BY <1>3, <1>4, <2>1 DEF Call!Next
<1> QED
  BY <1>2, <1>4, ServerReadHandles DEF RpcInv

LEMMA InitRefines == Init => Call!Init
<1> SUFFICES ASSUME Init PROVE Call!Init
  OBVIOUS
<1>1. /\ mRequestList = <<>> /\ reqId = [c \in Calls |-> NoId] /\ clientOpen = TRUE /\ dropped = FALSE
      /\ callbacks = [c \in Calls |-> <<>>] /\ handled = <<>>
  BY DEF Init, StreamInit, ClientInit, ServerInit
<1>2. Waiting = {} /\ ToSet(handled) = {}
  BY <1>1 DEF Waiting, ToSet
<1>3. \A c \in Calls : Outcome(c) = "none" /\ Served(c) = "no"
  BY <1>1, <1>2 DEF Outcome, Served
<1> QED
  BY <1>1, <1>3 DEF Call!Init

LEMMA NextRefines == RpcInv /\ [Next]_vars => [Call!Next]_(Call!vars)
<1> SUFFICES ASSUME RpcInv, [Next]_vars PROVE [Call!Next]_(Call!vars)
  OBVIOUS
<1>1. ASSUME NEW c \in Calls, SendRequest(c) \/ RequestTimeout(c), UNCHANGED serverVars
      PROVE  [Call!Next]_(Call!vars)
  BY <1>1, SendRequestRefines, RequestTimeoutRefines DEF Call!Next
<1>2. ASSUME ClientRead, UNCHANGED serverVars PROVE [Call!Next]_(Call!vars)
  BY <1>2, ClientReadRefines
<1>3. ASSUME ClientDestroy, UNCHANGED serverVars PROVE [Call!Next]_(Call!vars)
  BY <1>3, ClientDestroyRefines DEF Call!Next
<1>4. ASSUME ServerRead, UNCHANGED clientVars PROVE [Call!Next]_(Call!vars)
  BY <1>4, ServerReadRefines
<1>5. ASSUME ServerEof, UNCHANGED clientVars PROVE [Call!Next]_(Call!vars)
  BY <1>5, CallStutters DEF ServerEof, clientVars
<1>6. CASE UNCHANGED vars
  BY <1>6, CallStutters DEF vars, streamVars, clientVars, serverVars
<1> QED
  BY <1>1, <1>2, <1>3, <1>4, <1>5, <1>6 DEF Next

\* Connection implements Rpc: whatever the chunks, timeouts, late answers and
\* closes, a request is handled at most once, its call ends at most once, and, until
\* a chunk is dropped, a result its callback is given is the one the server gave to
\* this very call.
THEOREM RpcImplemented == Spec => ImplementsRpc
<1>1. Init => Call!Init
  BY InitRefines
<1>2. RpcInv /\ [Next]_vars => [Call!Next]_(Call!vars)
  BY NextRefines
<1> QED
  BY <1>1, <1>2, RpcInvariance, PTL DEF Spec, ImplementsRpc, Call!Spec

-----------------------------------------------------------------------------
\* What Rpc is for, of the mapped variables.

LEMMA ToldTrueInit == Call!Init => Call!ToldTrue
  BY DEF Call!Init, Call!ToldTrue

\* A step of a call finds it unserved, or its outcome open, and touches no other.
LEMMA CallSteps ==
  ASSUME [Call!Next]_(Call!vars), NEW c \in Calls,
         ~dropped => (Outcome(c) \in ErrorCodes => Served(c) = Outcome(c))
  PROVE  /\ Outcome(c) \notin {"none", "pending"} => Outcome(c)' = Outcome(c)
         /\ Served(c) # "no" => Served(c)' = Served(c)
         /\ ~dropped' => (Outcome(c)' \in ErrorCodes => Served(c)' = Outcome(c)')
<1>0. ~dropped' => ~dropped
  BY DEF Call!Next, Call!vars, Call!Call, Call!Serve, Call!Return, Call!Timeout, Call!Leave,
         Call!Damage
<1>1. CASE UNCHANGED Call!vars \/ Call!Damage
  <2>1. outs' = outs /\ srvs' = srvs
    BY <1>1 DEF Call!vars, Call!Damage, outs, srvs
  <2>2. Outcome(c)' = Outcome(c) /\ Served(c)' = Served(c)
    BY <2>1 DEF outs, srvs
  <2> QED BY <1>0, <2>2
<1>2. ASSUME NEW d \in Calls, Call!Call(d) \/ Call!Timeout(d) PROVE
        /\ Outcome(c)' = Outcome(c) \/ (Outcome(c) \in {"none", "pending"} /\ Outcome(c)' \notin ErrorCodes)
        /\ Served(c)' = Served(c)
  <2>1. PICK o : o \notin ErrorCodes /\ outs' = [outs EXCEPT ![d] = o]
    BY <1>2 DEF Call!Call, Call!Timeout, outs, ErrorCodes
  <2>2. outs[d] \in {"none", "pending"} /\ srvs' = srvs
    BY <1>2 DEF Call!Call, Call!Timeout, outs, srvs
  <2> QED BY <2>1, <2>2 DEF outs, srvs
<1>3. ASSUME NEW d \in Calls, Call!Serve(d) PROVE
        /\ Outcome(c)' = Outcome(c) /\ (Served(c)' = Served(c) \/ (c = d /\ Served(c) = "no"))
  <2>1. PICK r : srvs' = [srvs EXCEPT ![d] = r]
    BY <1>3 DEF Call!Serve, srvs
  <2>2. srvs[d] = "no" /\ outs' = outs
    BY <1>3 DEF Call!Serve, outs, srvs
  <2> QED BY <2>1, <2>2 DEF outs, srvs
<1>4. ASSUME NEW d \in Calls, Call!Return(d) PROVE
        /\ Served(c)' = Served(c)
        /\ \/ Outcome(c)' = Outcome(c)
           \/ Outcome(c) = "pending" /\ (~dropped => Outcome(c)' \in {Served(c), "lost"})
  <2>1. PICK o : outs' = [outs EXCEPT ![d] = o] /\ (~dropped => o \in {srvs[d], "lost"})
    BY <1>4 DEF Call!Return, outs, srvs
  <2>2. outs[d] = "pending" /\ srvs' = srvs
    BY <1>4 DEF Call!Return, outs, srvs
  <2> QED BY <2>1, <2>2 DEF outs, srvs
<1>5. ASSUME Call!Leave PROVE
        /\ Served(c)' = Served(c)
        /\ Outcome(c)' = Outcome(c) \/ (Outcome(c) = "pending" /\ Outcome(c)' = "lost")
  <2>1. srvs' = srvs
    BY <1>5 DEF Call!Leave, srvs
  <2>2. outs' = [d \in Calls |-> IF outs[d] = "pending" THEN "lost" ELSE outs[d]]
    BY <1>5 DEF Call!Leave, outs
  <2>3. outs'[c] = IF outs[c] = "pending" THEN "lost" ELSE outs[c]
    BY <2>2
  <2> QED BY <2>1, <2>3 DEF outs, srvs
<1>6. "no" \notin ErrorCodes /\ "lost" \notin ErrorCodes
  BY DEF ErrorCodes
<1> QED
  BY <1>0, <1>1, <1>2, <1>3, <1>4, <1>5, <1>6 DEF Call!Next

LEMMA ToldTrueInv == RpcInv /\ Call!ToldTrue /\ [Next]_vars => Call!ToldTrue'
<1> SUFFICES ASSUME RpcInv, Call!ToldTrue, [Next]_vars PROVE Call!ToldTrue'
  OBVIOUS
<1>1. [Call!Next]_(Call!vars)
  BY NextRefines
<1>2. ~dropped => \A c \in Calls : Outcome(c) \in ErrorCodes => Served(c) = Outcome(c)
  BY DEF Call!ToldTrue, ErrorCodes
<1>3. ~dropped' => \A c \in Calls : Outcome(c)' \in ErrorCodes => Served(c)' = Outcome(c)'
  BY <1>1, <1>2, CallSteps
<1> QED
  BY <1>3 DEF Call!ToldTrue, ErrorCodes

\* What a callback is given is a timeout or what the server has answered to this
\* call, whichever answers are late and whichever calls have timed out - as long as
\* the client has dropped no chunk.
THEOREM CallersToldTrue == Spec => []Call!ToldTrue
<1>1. Init => Call!ToldTrue
  BY InitRefines, ToldTrueInit
<1> QED
  BY <1>1, ToldTrueInv, RpcInvariance, PTL DEF Spec

\* A call that has ended stays as it ended, and a request is answered in one way:
\* no late answer and no second handling changes either.
THEOREM CallsEndForGood == Spec => Call!EndsForGood
<1>1. RpcInv /\ Call!ToldTrue /\ [Next]_vars => [Call!Settled]_(Call!vars)
  <2> SUFFICES ASSUME RpcInv, Call!ToldTrue, [Next]_vars PROVE Call!Settled
    OBVIOUS
  <2>1. [Call!Next]_(Call!vars)
    BY NextRefines
  <2>2. ~dropped => \A c \in Calls : Outcome(c) \in ErrorCodes => Served(c) = Outcome(c)
    BY DEF Call!ToldTrue, ErrorCodes
  <2>3. \A c \in Calls :
          /\ Outcome(c) \notin {"none", "pending"} => Outcome(c)' = Outcome(c)
          /\ Served(c) # "no" => Served(c)' = Served(c)
    BY <2>1, <2>2, CallSteps
  <2> QED BY <2>3 DEF Call!Settled
<1> QED
  BY <1>1, CallersToldTrue, RpcInvariance, PTL DEF Spec, Call!EndsForGood
=============================================================================
