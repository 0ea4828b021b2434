-------------------------- MODULE IpcChannelProofs --------------------------
(***************************************************************************)
(* What holds of an IPC channel for every size of the pipe, any records    *)
(* and any buffers of the reader.                                          *)
(***************************************************************************)
EXTENDS IpcChannel, LeastElement, SequenceTheorems, TLAPS

-----------------------------------------------------------------------------
(* The concatenation of a sequence of sequences.                           *)

Associate(x, y, z) == (x \o y) \o z = x \o (y \o z)

LEMMA Associates ==
  ASSUME NEW S, NEW x \in Seq(S), NEW y \in Seq(S), NEW z \in Seq(S)
  PROVE  Associate(x, y, z)
  BY ConcatAssociative DEF Associate

\* f[i] is the concatenation of the first i members of s.
Flattens(s, f) ==
    f = [i \in 1..Len(s) |-> IF i = 1 THEN s[i] ELSE f[i - 1] \o s[i]]

LEMMA FlattenStep ==
  ASSUME NEW s, NEW n \in Nat, NEW f, NEW i \in 1..n,
         f = [j \in 1..n |-> IF j = 1 THEN s[j] ELSE f[j - 1] \o s[j]]
  PROVE  f[i] = IF i = 1 THEN s[i] ELSE f[i - 1] \o s[i]
  <1>1. PICK h : h = [j \in 1..n |-> IF j = 1 THEN s[j] ELSE f[j - 1] \o s[j]]
    OBVIOUS
  <1>2. f = h
    BY <1>1, Zenon
  <1>3. h[i] = IF i = 1 THEN s[i] ELSE f[i - 1] \o s[i]
    BY <1>1
  <1> QED BY <1>2, <1>3, Zenon

LEMMA FlattenExists ==
  ASSUME NEW C, NEW s \in Seq(Seq(C))
  PROVE  \E f : Flattens(s, f)
  <1> DEFINE Upto(n, f) == f = [i \in 1..n |-> IF i = 1 THEN s[i] ELSE f[i - 1] \o s[i]]
             N == {n \in Nat : \E f : Upto(n, f)}
  <1>1. 0 \in N
    <2>1. Upto(0, [i \in 1..0 |-> s[i]])
      OBVIOUS
    <2> QED BY <2>1
  <1>2. ASSUME NEW n \in Nat, n \in N
        PROVE  n + 1 \in N
    <2>1. PICK f : Upto(n, f)
      BY <1>2
    <2> DEFINE last == IF n = 0 THEN s[1] ELSE f[n] \o s[n + 1]
               g == [i \in 1..n + 1 |-> IF i <= n THEN f[i] ELSE last]
    <2>2. ASSUME NEW i \in 1..n + 1
          PROVE  g[i] = IF i = 1 THEN s[i] ELSE g[i - 1] \o s[i]
      <3>1. CASE i <= n
        <4>1. f[i] = IF i = 1 THEN s[i] ELSE f[i - 1] \o s[i]
          <5>1. i \in 1..n
            BY <3>1
          <5> QED BY <2>1, <5>1, FlattenStep, Zenon
        <4>2. g[i] = f[i] /\ (i # 1 => g[i - 1] = f[i - 1])
          BY <3>1
        <4> QED BY <4>1, <4>2
      <3>2. CASE i = n + 1
        <4>1. g[i] = last /\ (i # 1 => g[i - 1] = f[n] /\ n # 0)
          BY <3>2
        <4> QED BY <3>2, <4>1
      <3> QED BY <3>1, <3>2
    <2>3. Upto(n + 1, g)
      <3> DEFINE h == [i \in 1..n + 1 |-> IF i = 1 THEN s[i] ELSE g[i - 1] \o s[i]]
      <3>1. \A i \in 1..n + 1 : g[i] = h[i]
        BY <2>2
      <3>2. g = h
        BY <3>1
      <3> HIDE DEF g
      <3> QED BY <3>2, Zenon
    <2> HIDE DEF g, Upto
    <2> QED BY <2>3
  <1>3. Nat \subseteq N
    <2> HIDE DEF N
    <2> QED BY <1>1, <1>2, NatSetInduction
  <1>4. Len(s) \in N
    BY <1>3, LenProperties
  <1> QED BY <1>4 DEF Flattens

LEMMA FlattenDef ==
  ASSUME NEW C, NEW s \in Seq(Seq(C)), s # <<>>
  PROVE  \E f : Flattens(s, f) /\ FlattenSeq(s) = f[Len(s)]
  <1> DEFINE f == CHOOSE f : Flattens(s, f)
  <1>1. Flattens(s, f)
    BY FlattenExists
  <1>2. Len(s) # 0
    BY EmptySeq
  <1>3. FlattenSeq(s) = f[Len(s)]
    BY <1>2 DEF FlattenSeq, Flattens
  <1> QED BY <1>1, <1>3
LEMMA FlattensNext ==
  ASSUME NEW C, NEW s \in Seq(Seq(C)), NEW f, Flattens(s, f),
         NEW n \in Nat, n < Len(s)
  PROVE  f[n + 1] = IF n = 0 THEN s[1] ELSE f[n] \o s[n + 1]
  <1>1. n + 1 \in 1..Len(s) /\ Len(s) \in Nat
    BY LenProperties
  <1>2. f[n + 1] = IF n + 1 = 1 THEN s[n + 1] ELSE f[(n + 1) - 1] \o s[n + 1]
    BY <1>1, FlattenStep, Zenon DEF Flattens
  <1>3. (n + 1) - 1 = n /\ (n + 1 = 1 <=> n = 0)
    OBVIOUS
  <1>4. CASE n = 0
    BY <1>2, <1>4
  <1>5. CASE n # 0
    BY <1>2, <1>3, <1>5
  <1> QED BY <1>4, <1>5

LEMMA FlattensType ==
  ASSUME NEW C, NEW s \in Seq(Seq(C)), NEW f, Flattens(s, f)
  PROVE  \A i \in 1..Len(s) : f[i] \in Seq(C)
  <1> DEFINE N == {n \in Nat : n \in 1..Len(s) => f[n] \in Seq(C)}
  <1>1. 0 \in N
    OBVIOUS
  <1>2. ASSUME NEW n \in Nat, n \in N
        PROVE  n + 1 \in N
    <2>1. SUFFICES ASSUME n + 1 \in 1..Len(s)
                   PROVE  f[n + 1] \in Seq(C)
      OBVIOUS
    <2>2. f[n + 1] = IF n = 0 THEN s[1] ELSE f[n] \o s[n + 1]
      BY <2>1, FlattensNext, LenProperties
    <2>3. s[n + 1] \in Seq(C)
      BY <2>1, ElementOfSeq
    <2>4. CASE n = 0
      BY <2>2, <2>3, <2>4
    <2>5. CASE n # 0
      <3>1. n \in 1..Len(s)
        BY <2>1, <2>5, LenProperties
      <3>2. f[n] \in Seq(C) /\ f[n + 1] = f[n] \o s[n + 1]
        BY <1>2, <2>2, <2>5, <3>1
      <3> QED BY <2>3, <3>2, ConcatProperties
    <2> QED BY <2>4, <2>5
  <1>3. Nat \subseteq N
    <2> HIDE DEF N
    <2> QED BY <1>1, <1>2, NatSetInduction
  <1>4. Len(s) \in Nat
    BY LenProperties
  <1> QED BY <1>3, <1>4

LEMMA FlattensPrefix ==
  ASSUME NEW C, NEW s \in Seq(Seq(C)), NEW b \in Seq(C), NEW f, NEW g,
         Flattens(s, f), Flattens(Append(s, b), g)
  PROVE  \A i \in 1..Len(s) : f[i] = g[i]
  <1> DEFINE N == {n \in Nat : n \in 1..Len(s) => f[n] = g[n]}
  <1> DEFINE t == Append(s, b)
  <1>0. /\ t \in Seq(Seq(C)) /\ Len(s) \in Nat /\ Len(t) = Len(s) + 1
        /\ \A i \in 1..Len(s) : t[i] = s[i]
        /\ Flattens(t, g)
    BY AppendProperties, LenProperties
  <1> HIDE DEF t
  <1>1. 0 \in N
    OBVIOUS
  <1>2. ASSUME NEW n \in Nat, n \in N
        PROVE  n + 1 \in N
    <2>1. SUFFICES ASSUME n + 1 \in 1..Len(s)
                   PROVE  f[n + 1] = g[n + 1]
      OBVIOUS
    <2>2. f[n + 1] = IF n = 0 THEN s[1] ELSE f[n] \o s[n + 1]
      <3>1. n < Len(s)
        BY <1>0, <2>1
      <3> QED BY <3>1, FlattensNext, Zenon
    <2>3. g[n + 1] = IF n = 0 THEN t[1] ELSE g[n] \o t[n + 1]
      <3>1. n < Len(t)
        BY <1>0, <2>1
      <3> QED BY <1>0, <3>1, FlattensNext, Zenon
    <2>4. n # 0 => f[n] = g[n]
      BY <1>2, <2>1
    <2>5. s[n + 1] = t[n + 1] /\ s[1] = t[1]
      BY <1>0, <2>1
    <2> QED BY <2>2, <2>3, <2>4, <2>5
  <1>3. Nat \subseteq N
    <2> HIDE DEF N
    <2> QED BY <1>1, <1>2, NatSetInduction
  <1> QED BY <1>0, <1>3

\* What FlattenSeq of the community modules makes of no sequence, of one more at
\* the end, and of one more at the front.
LEMMA FlattenEmpty == FlattenSeq(<<>>) = <<>>
  BY DEF FlattenSeq

LEMMA FlattenType ==
  ASSUME NEW C, NEW s \in Seq(Seq(C))
  PROVE  FlattenSeq(s) \in Seq(C)
  <1>1. CASE s = <<>>
    <2>1. <<>> \in Seq(C)
      OBVIOUS
    <2> QED BY <1>1, <2>1, FlattenEmpty, Zenon
  <1>2. CASE s # <<>>
    <2>1. PICK f : Flattens(s, f) /\ FlattenSeq(s) = f[Len(s)]
      BY <1>2, FlattenDef
    <2>2. Len(s) \in 1..Len(s)
      BY <1>2, EmptySeq
    <2> QED BY <2>1, <2>2, FlattensType
  <1> QED BY <1>1, <1>2

LEMMA FlattenOne ==
  ASSUME NEW C, NEW b \in Seq(C)
  PROVE  FlattenSeq(<<b>>) = b
  <1>1. <<b>> \in Seq(Seq(C)) /\ <<b>> # <<>> /\ Len(<<b>>) = 1 /\ <<b>>[1] = b
    OBVIOUS
  <1>2. PICK f : Flattens(<<b>>, f) /\ FlattenSeq(<<b>>) = f[1]
    BY <1>1, FlattenDef
  <1>3. f[1] = b
    <2>1. f[1] = IF 1 = 1 THEN <<b>>[1] ELSE f[1 - 1] \o <<b>>[1]
      BY <1>1, <1>2, FlattenStep DEF Flattens
    <2> QED BY <1>1, <2>1
  <1> QED BY <1>2, <1>3

LEMMA FlattenAppend ==
  ASSUME NEW C, NEW s \in Seq(Seq(C)), NEW b \in Seq(C)
  PROVE  FlattenSeq(Append(s, b)) = FlattenSeq(s) \o b
  <1>1. CASE s = <<>>
    <2>1. Append(s, b) = <<b>>
      BY <1>1
    <2>2. <<>> \o b = b
      BY ConcatEmptySeq
    <2> QED BY <1>1, <2>1, <2>2, FlattenOne, FlattenEmpty
  <1>2. CASE s # <<>>
    <2>1. PICK f : Flattens(s, f) /\ FlattenSeq(s) = f[Len(s)]
      BY <1>2, FlattenDef
    <2>2. PICK t \in Seq(Seq(C)) : t = Append(s, b)
      BY AppendProperties
    <2>3. /\ t # <<>> /\ Len(t) = Len(s) + 1 /\ Len(s) \in Nat \ {0}
          /\ \A i \in 1..Len(s) : t[i] = s[i]
          /\ t[Len(s) + 1] = b
      BY <1>2, <2>2, AppendProperties, EmptySeq
    <2>4. PICK g : Flattens(t, g) /\ FlattenSeq(t) = g[Len(t)]
      BY <2>3, FlattenDef
    <2>5. \A i \in 1..Len(s) : f[i] = g[i]
      <3>1. Flattens(s, f) /\ Flattens(Append(s, b), g)
        BY <2>1, <2>2, <2>4, Zenon
      <3> QED BY <3>1, FlattensPrefix
    <2>6. g[Len(s) + 1] = IF Len(s) = 0 THEN t[1] ELSE g[Len(s)] \o t[Len(s) + 1]
      <3>1. Len(s) \in Nat /\ Len(s) < Len(t) /\ Flattens(t, g)
        BY <2>3, <2>4
      <3> QED BY <3>1, FlattensNext, Zenon
    <2>7. g[Len(t)] = g[Len(s)] \o b
      BY <2>3, <2>6
    <2>8. g[Len(s)] = f[Len(s)]
      BY <2>3, <2>5
    <2> QED BY <2>1, <2>2, <2>4, <2>7, <2>8
  <1> QED BY <1>1, <1>2

LEMMA FlattenHead ==
  ASSUME NEW C, NEW s \in Seq(Seq(C)), s # <<>>
  PROVE  FlattenSeq(s) = Head(s) \o FlattenSeq(Tail(s))
  <1>1. /\ Head(s) \in Seq(C) /\ Head(s) = s[1] /\ Tail(s) \in Seq(Seq(C))
        /\ Len(Tail(s)) = Len(s) - 1 /\ Len(s) \in Nat \ {0}
        /\ \A i \in 1..Len(Tail(s)) : Tail(s)[i] = s[i + 1]
    BY HeadTailProperties, EmptySeq
  <1>2. PICK f : Flattens(s, f) /\ FlattenSeq(s) = f[Len(s)]
    BY FlattenDef
  <1>3. PICK t \in Seq(Seq(C)) : t = Tail(s)
    BY <1>1
  <1>4. f[1] = s[1]
    <2>1. f[1] = IF 1 = 1 THEN s[1] ELSE f[1 - 1] \o s[1]
      BY <1>1, <1>2, FlattenStep DEF Flattens
    <2> QED BY <2>1
  <1>5. CASE t = <<>>
    <2>1. Len(s) = 1
      <3>1. Len(t) = 0
        BY <1>5
      <3> QED BY <1>1, <1>3, <3>1
    <2>2. s[1] \o <<>> = s[1]
      BY <1>1, ConcatEmptySeq
    <2> QED BY <1>1, <1>2, <1>3, <1>4, <1>5, <2>1, <2>2, FlattenEmpty
  <1>6. CASE t # <<>>
    <2>1. PICK g : Flattens(t, g) /\ FlattenSeq(t) = g[Len(t)]
      BY <1>6, FlattenDef
    <2> DEFINE N == {n \in Nat : n \in 1..Len(t) => f[n + 1] = s[1] \o g[n]}
    <2>2. 0 \in N
      OBVIOUS
    <2>3. ASSUME NEW n \in Nat, n \in N
          PROVE  n + 1 \in N
      <3>0. (n + 1) + 1 = n + 2 /\ n + 1 \in Nat
        OBVIOUS
      <3>1. SUFFICES ASSUME n + 1 \in 1..Len(t)
                     PROVE  f[n + 2] = s[1] \o g[n + 1]
        BY <3>0
      <3>2. Len(s) \in Nat /\ Len(t) \in Nat /\ n + 1 < Len(s) /\ n < Len(t)
        BY <1>1, <1>3, <3>1
      <3>3. f[n + 2] = f[n + 1] \o s[n + 2]
        <4>1. f[(n + 1) + 1] = IF n + 1 = 0 THEN s[1] ELSE f[n + 1] \o s[(n + 1) + 1]
          BY <1>2, <3>0, <3>2, FlattensNext
        <4>2. n + 1 # 0
          OBVIOUS
        <4> QED BY <3>0, <4>1, <4>2
      <3>4. g[n + 1] = IF n = 0 THEN t[1] ELSE g[n] \o t[n + 1]
        BY <2>1, <3>2, FlattensNext
      <3>5. t[n + 1] = s[n + 2] /\ t[n + 1] \in Seq(C)
        <4>1. t[n + 1] = s[(n + 1) + 1]
          BY <1>1, <1>3, <3>1
        <4>2. (n + 1) + 1 = n + 2
          OBVIOUS
        <4> QED BY <3>1, <4>1, <4>2, ElementOfSeq
      <3>6. f[n + 2] = f[n + 1] \o t[n + 1]
        BY <3>3, <3>5
      <3>7. CASE n = 0
        <4>1. g[1] = t[1] /\ f[2] = f[1] \o t[1]
          <5>1. 0 + 1 = 1 /\ 0 + 2 = 2
            OBVIOUS
          <5>2. g[0 + 1] = t[1]
            BY <3>4, <3>7
          <5>3. f[0 + 2] = f[0 + 1] \o t[0 + 1]
            BY <3>6, <3>7
          <5> QED BY <5>1, <5>2, <5>3
        <4>2. 0 + 1 = 1 /\ 0 + 2 = 2
          OBVIOUS
        <4>3. f[0 + 2] = s[1] \o g[0 + 1]
          BY <1>4, <4>1, <4>2
        <4> QED BY <3>7, <4>3
      <3>8. CASE n # 0
        <4>1. n \in 1..Len(t)
          BY <3>1, <3>2, <3>8
        <4>2. f[n + 1] = s[1] \o g[n]
          BY <2>3, <4>1
        <4>3. g[n + 1] = g[n] \o t[n + 1]
          BY <3>4, <3>8
        <4>4. g[n] \in Seq(C)
          BY <2>1, <4>1, FlattensType
        <4>5. (s[1] \o g[n]) \o t[n + 1] = s[1] \o (g[n] \o t[n + 1])
          <5>1. PICK x \in Seq(C), y \in Seq(C), z \in Seq(C) :
                       x = s[1] /\ y = g[n] /\ z = t[n + 1]
            BY <1>1, <3>5, <4>4
          <5>2. (x \o y) \o z = x \o (y \o z)
            <6>1. Associate(x, y, z)
              BY Associates
            <6> QED BY <6>1 DEF Associate
          <5> QED BY <5>1, <5>2, Zenon
        <4> QED BY <3>6, <4>2, <4>3, <4>5
      <3> QED BY <3>7, <3>8
    <2>4. Nat \subseteq N
      <3> HIDE DEF N
      <3> QED BY <2>2, <2>3, NatSetInduction
    <2>5. Len(t) \in 1..Len(t) /\ Len(t) + 1 = Len(s)
      <3>1. Len(t) \in Nat \ {0}
        BY <1>6, EmptySeq
      <3> QED BY <1>1, <1>3, <3>1
    <2>6. f[Len(t) + 1] = s[1] \o g[Len(t)]
      <3>1. Len(t) \in Nat
        BY <1>3, LenProperties
      <3>2. Len(t) \in N
        BY <2>4, <3>1, Zenon
      <3> QED BY <2>5, <3>2
    <2> QED BY <1>1, <1>2, <1>3, <2>1, <2>5, <2>6
  <1> QED BY <1>5, <1>6

-----------------------------------------------------------------------------
(* Sequences that lose their start.                                        *)

LEMMA OneOf ==
  ASSUME NEW S, NEW a \in S
  PROVE  <<a>> \in Seq(S) /\ Len(<<a>>) = 1 /\ <<a>>[1] = a
  OBVIOUS

LEMMA TwoOf ==
  ASSUME NEW S, NEW a \in S, NEW b \in S
  PROVE  <<a, b>> \in Seq(S) /\ Len(<<a, b>>) = 2 /\ <<a, b>>[1] = a /\ <<a, b>>[2] = b
  OBVIOUS

LEMMA PartOf ==
  ASSUME NEW S, NEW s \in Seq(S), NEW m \in Nat \ {0}, NEW n \in Int, n <= Len(s)
  PROVE  /\ SubSeq(s, m, n) \in Seq(S)
         /\ Len(SubSeq(s, m, n)) = IF m <= n THEN n - m + 1 ELSE 0
         /\ \A i \in 1..n - m + 1 : SubSeq(s, m, n)[i] = s[m + i - 1]
  <1>1. \A i \in m..n : s[i] \in S
    BY LenProperties, ElementOfSeq
  <1>2. m \in Int
    OBVIOUS
  <1> QED BY <1>1, <1>2, SubSeqProperties

LEMMA Parts ==
  ASSUME NEW S, NEW s \in Seq(S), NEW n \in 0..Len(s)
  PROVE  /\ SubSeq(s, 1, n) \in Seq(S) /\ Len(SubSeq(s, 1, n)) = n
         /\ SubSeq(s, n + 1, Len(s)) \in Seq(S)
         /\ Len(SubSeq(s, n + 1, Len(s))) = Len(s) - n
  <1>1. Len(s) \in Nat
    BY LenProperties
  <1>2. 1 \in Nat \ {0} /\ n + 1 \in Nat \ {0} /\ n \in Int /\ Len(s) \in Int
        /\ n <= Len(s) /\ Len(s) <= Len(s)
    BY <1>1
  <1>3. PICK t \in Seq(S) : t = SubSeq(s, 1, n) /\ Len(t) = IF 1 <= n THEN n - 1 + 1 ELSE 0
    <2>1. /\ SubSeq(s, 1, n) \in Seq(S)
          /\ Len(SubSeq(s, 1, n)) = IF 1 <= n THEN n - 1 + 1 ELSE 0
      BY <1>2, PartOf
    <2> QED BY <2>1, Zenon
  <1>4. PICK u \in Seq(S) : u = SubSeq(s, n + 1, Len(s))
               /\ Len(u) = IF n + 1 <= Len(s) THEN Len(s) - (n + 1) + 1 ELSE 0
    <2>1. /\ SubSeq(s, n + 1, Len(s)) \in Seq(S)
          /\ Len(SubSeq(s, n + 1, Len(s)))
               = IF n + 1 <= Len(s) THEN Len(s) - (n + 1) + 1 ELSE 0
      BY <1>2, PartOf
    <2> QED BY <2>1, Zenon
  <1>5. Len(t) = n
    BY <1>2, <1>3
  <1>6. Len(u) = Len(s) - n
    BY <1>1, <1>2, <1>4
  <1> QED BY <1>3, <1>4, <1>5, <1>6

LEMMA ConsTail ==
  ASSUME NEW S, NEW a \in S, NEW t \in Seq(S)
  PROVE  /\ <<a>> \o t \in Seq(S) /\ <<a>> \o t # <<>>
         /\ Head(<<a>> \o t) = a /\ Tail(<<a>> \o t) = t
         /\ Len(<<a>> \o t) = 1 + Len(t)
  <1>1. <<a>> \in Seq(S) /\ Len(<<a>>) = 1 /\ <<a>>[1] = a /\ Len(t) \in Nat
    BY LenProperties
  <1>2. PICK s \in Seq(S) : s = <<a>> \o t
    BY <1>1, ConcatProperties
  <1>3. /\ Len(s) = 1 + Len(t)
        /\ \A i \in 1..1 + Len(t) : s[i] = IF i <= 1 THEN a ELSE t[i - 1]
    BY <1>1, <1>2, ConcatProperties
  <1>4. s # <<>>
    BY <1>1, <1>3
  <1>5. Head(s) = a
    BY <1>1, <1>3, <1>4
  <1>6. /\ Tail(s) \in Seq(S) /\ Len(Tail(s)) = Len(s) - 1
        /\ \A i \in 1..Len(Tail(s)) : Tail(s)[i] = s[i + 1]
    BY <1>4, HeadTailProperties
  <1>7. Tail(s) = t
    <2>1. Len(Tail(s)) = Len(t)
      BY <1>1, <1>3, <1>6
    <2>2. \A i \in 1..Len(Tail(s)) : Tail(s)[i] = t[i]
      <3> TAKE i \in 1..Len(Tail(s))
      <3>1. i + 1 \in 1..1 + Len(t) /\ i + 1 > 1 /\ (i + 1) - 1 = i
        BY <1>1, <2>1
      <3> QED BY <1>3, <1>6, <3>1
    <2> QED BY <1>6, <2>1, <2>2, SeqEqual
  <1> QED BY <1>2, <1>3, <1>4, <1>5, <1>7

\* The start of s \o t is lost by s.
LEMMA DropConcat ==
  ASSUME NEW S, NEW s \in Seq(S), NEW t \in Seq(S), NEW n \in 0..Len(s)
  PROVE  SubSeq(s \o t, n + 1, Len(s \o t)) = SubSeq(s, n + 1, Len(s)) \o t
  <1>0. Len(s) \in Nat /\ Len(t) \in Nat /\ n \in Nat
    BY LenProperties
  <1>1. PICK u \in Seq(S) : u = s \o t
    BY ConcatProperties
  <1>2. /\ Len(u) = Len(s) + Len(t)
        /\ \A i \in 1..Len(s) + Len(t) : u[i] = IF i <= Len(s) THEN s[i] ELSE t[i - Len(s)]
    BY <1>1, ConcatProperties
  <1>3. PICK x \in Seq(S) : x = SubSeq(s, n + 1, Len(s))
    <2>1. n + 1 \in Nat \ {0} /\ Len(s) \in Int /\ Len(s) <= Len(s)
      BY <1>0
    <2> QED BY <2>1, PartOf
  <1>4. Len(x) = Len(s) - n /\ \A i \in 1..Len(s) - n : x[i] = s[n + i]
    BY <1>0, <1>3
  <1>5. PICK y \in Seq(S) : y = SubSeq(u, n + 1, Len(u))
    <2>1. n + 1 \in Nat \ {0} /\ Len(u) \in Int /\ Len(u) <= Len(u)
      BY <1>0, <1>2
    <2> QED BY <2>1, PartOf
  <1>6. Len(y) = Len(u) - n /\ \A i \in 1..Len(u) - n : y[i] = u[n + i]
    BY <1>0, <1>2, <1>5
  <1>7. PICK z \in Seq(S) : z = x \o t
    BY ConcatProperties
  <1>8. /\ Len(z) = Len(x) + Len(t)
        /\ \A i \in 1..Len(x) + Len(t) : z[i] = IF i <= Len(x) THEN x[i] ELSE t[i - Len(x)]
    BY <1>7, ConcatProperties
  <1>9. Len(y) = Len(z)
    BY <1>0, <1>2, <1>4, <1>6, <1>8
  <1>10. ASSUME NEW i \in 1..Len(y)
         PROVE  y[i] = z[i]
    <2>0. i \in Nat /\ i \in 1..Len(u) - n /\ n + i \in 1..Len(s) + Len(t)
          /\ i \in 1..Len(x) + Len(t)
      BY <1>0, <1>2, <1>4, <1>6
    <2>1. CASE i <= Len(x)
      <3>1. n + i <= Len(s) /\ i \in 1..Len(s) - n
        BY <1>0, <1>4, <2>0, <2>1
      <3> QED BY <1>2, <1>4, <1>6, <1>8, <2>0, <2>1, <3>1
    <2>2. CASE i > Len(x)
      <3>1. ~(n + i <= Len(s)) /\ ~(i <= Len(x)) /\ (n + i) - Len(s) = i - Len(x)
        BY <1>0, <1>4, <2>0, <2>2
      <3> QED BY <1>2, <1>6, <1>8, <2>0, <3>1
    <2> QED BY <1>0, <1>4, <2>0, <2>1, <2>2
  <1>11. y = z
    BY <1>9, <1>10, SeqEqual
  <1> QED BY <1>1, <1>3, <1>5, <1>7, <1>11

-----------------------------------------------------------------------------
(* Records, their blocks and streams of them.                              *)

LEMMA CharAssociative ==
  ASSUME NEW x \in Seq(Char), NEW y \in Seq(Char), NEW z \in Seq(Char)
  PROVE  Associate(x, y, z)
  BY Associates

LEMMA RecordIs ==
  ASSUME NEW r \in Record
  PROVE  /\ r \in Seq(Data) /\ r \in Seq(Char) /\ r # <<>>
         /\ Len(r) \in 1..MaxRecord /\ Len(r) \in Char /\ Len(r) \in Nat
  <1>1. PICK n \in 1..MaxRecord : r \in [1..n -> Data]
    BY DEF Record
  <1>2. n \in Nat /\ n >= 1
    BY <1>1, ChannelAssumption
  <1>3. r \in Seq(Data) /\ Len(r) = n
    BY <1>1, <1>2, SeqDef
  <1>4. r \in Seq(Char)
    BY <1>3, SeqMonotonic DEF Char
  <1> QED BY <1>1, <1>2, <1>3, <1>4 DEF Char

LEMMA RecordMade ==
  ASSUME NEW r \in Seq(Data), Len(r) \in 1..MaxRecord
  PROVE  r \in Record
  BY LenProperties DEF Record

LEMMA MagicIs == IPC_MAGIC \in Char /\ IPC_MAGIC \in Nat /\ Char \subseteq Nat
  BY ChannelAssumption DEF Char

LEMMA BlockIs ==
  ASSUME NEW r \in Record
  PROVE  /\ <<Len(r)>> \o r \in Seq(Char)
         /\ Block(r) = <<IPC_MAGIC>> \o (<<Len(r)>> \o r)
         /\ Block(r) \in Seq(Char) /\ Len(Block(r)) = 2 + Len(r)
  <1>1. PICK t \in Seq(Char) : t = <<Len(r)>> \o r /\ Len(t) = 1 + Len(r)
    BY RecordIs, ConsTail
  <1>2. PICK u \in Seq(Char) : u = <<IPC_MAGIC>> \o t /\ Len(u) = 1 + Len(t)
    BY <1>1, MagicIs, ConsTail
  <1>3. <<IPC_MAGIC>> \in Seq(Char) /\ <<Len(r)>> \in Seq(Char) /\ r \in Seq(Char)
    BY MagicIs, RecordIs
  <1>4. <<IPC_MAGIC, Len(r)>> = <<IPC_MAGIC>> \o <<Len(r)>>
    <2>1. PICK h \in Seq(Char) : h = <<IPC_MAGIC, Len(r)>> /\ Len(h) = 2
                               /\ h[1] = IPC_MAGIC /\ h[2] = Len(r)
      <3>1. PICK a \in Char, b \in Char : a = IPC_MAGIC /\ b = Len(r)
        BY MagicIs, RecordIs
      <3>2. <<a, b>> \in Seq(Char) /\ Len(<<a, b>>) = 2 /\ <<a, b>>[1] = a /\ <<a, b>>[2] = b
        BY TwoOf
      <3> QED BY <3>1, <3>2
    <2>2. PICK c \in Seq(Char) : c = <<Len(r)>>
      BY <1>3
    <2>3. PICK v \in Seq(Char) :
                 v = <<IPC_MAGIC>> \o c /\ v # <<>> /\ Head(v) = IPC_MAGIC
                 /\ Tail(v) = c /\ Len(v) = 1 + Len(c)
      BY MagicIs, ConsTail
    <2>4. Len(c) = 1 /\ c[1] = Len(r)
      BY <2>2
    <2>5. v[1] = IPC_MAGIC /\ v[2] = Len(r)
      <3>1. \A i \in 1..Len(Tail(v)) : Tail(v)[i] = v[i + 1]
        BY <2>3, HeadTailProperties
      <3>2. c[1] = v[1 + 1]
        BY <2>3, <2>4, <3>1
      <3> QED BY <2>3, <2>4, <3>2
    <2>6. \A i \in 1..Len(h) : h[i] = v[i]
      BY <2>1, <2>5
    <2>7. h = v
      BY <2>1, <2>3, <2>4, <2>6, SeqEqual
    <2> QED BY <2>1, <2>2, <2>3, <2>7
  <1>5. Block(r) = u
    <2>1. PICK x \in Seq(Char), y \in Seq(Char), z \in Seq(Char) :
                 x = <<IPC_MAGIC>> /\ y = <<Len(r)>> /\ z = r
      BY <1>3
    <2>2. (x \o y) \o z = x \o (y \o z)
      <3>1. Associate(x, y, z)
        BY CharAssociative
      <3> QED BY <3>1 DEF Associate
    <2> QED BY <1>1, <1>2, <1>4, <2>1, <2>2 DEF Block
  <1>6. Len(u) = 2 + Len(r)
    BY <1>1, <1>2, RecordIs
  <1> QED BY <1>1, <1>2, <1>5, <1>6

Blocks(q) == [i \in DOMAIN q |-> Block(q[i])]

LEMMA BlocksAre ==
  ASSUME NEW q \in Seq(Record)
  PROVE  /\ Blocks(q) \in Seq(Seq(Char)) /\ Len(Blocks(q)) = Len(q)
         /\ \A i \in 1..Len(q) : Blocks(q)[i] = Block(q[i])
  <1>1. Len(q) \in Nat /\ DOMAIN q = 1..Len(q)
    BY LenProperties
  <1>2. \A i \in 1..Len(q) : Block(q[i]) \in Seq(Char)
    BY ElementOfSeq, BlockIs
  <1>3. Blocks(q) \in [1..Len(q) -> Seq(Char)]
    BY <1>1, <1>2 DEF Blocks
  <1>4. Blocks(q) \in Seq(Seq(Char)) /\ Len(Blocks(q)) = Len(q)
    BY <1>1, <1>3, SeqDef
  <1> QED BY <1>1, <1>4 DEF Blocks

LEMMA BlocksAppend ==
  ASSUME NEW q \in Seq(Record), NEW r \in Record
  PROVE  Blocks(Append(q, r)) = Append(Blocks(q), Block(r))
  <1>1. PICK p \in Seq(Record) : p = Append(q, r)
    BY AppendProperties
  <1>2. PICK b \in Seq(Seq(Char)) :
          /\ b = Blocks(q) /\ Len(b) = Len(q) /\ \A i \in 1..Len(q) : b[i] = Block(q[i])
    BY BlocksAre
  <1>3. PICK c \in Seq(Seq(Char)) :
          /\ c = Blocks(p) /\ Len(c) = Len(p) /\ \A i \in 1..Len(p) : c[i] = Block(p[i])
    BY BlocksAre
  <1>4. PICK d \in Seq(Seq(Char)) : d = Append(b, Block(r))
    BY BlockIs, AppendProperties
  <1>5. /\ Len(d) = Len(b) + 1 /\ d[Len(b) + 1] = Block(r)
        /\ \A i \in 1..Len(b) : d[i] = b[i]
    BY <1>4, BlockIs, AppendProperties
  <1>6. /\ Len(p) = Len(q) + 1 /\ p[Len(q) + 1] = r
        /\ \A i \in 1..Len(q) : p[i] = q[i]
    BY <1>1, AppendProperties
  <1>7. Len(q) \in Nat
    BY LenProperties
  <1>8. ASSUME NEW i \in 1..Len(c)
        PROVE  c[i] = d[i]
    <2>1. CASE i \in 1..Len(q)
      <3>1. i \in 1..Len(p) /\ i \in 1..Len(b)
        BY <1>2, <1>3, <2>1
      <3> QED BY <1>2, <1>3, <1>5, <1>6, <2>1, <3>1
    <2>2. CASE i = Len(q) + 1
      BY <1>2, <1>3, <1>5, <1>6, <2>2
    <2> QED BY <1>3, <1>6, <1>7, <2>1, <2>2
  <1>9. c = d
    <2>1. Len(c) = Len(d)
      BY <1>2, <1>3, <1>5, <1>6
    <2> QED BY <1>8, <2>1, SeqEqual
  <1> QED BY <1>1, <1>2, <1>3, <1>4, <1>9

LEMMA BlocksTail ==
  ASSUME NEW q \in Seq(Record), q # <<>>
  PROVE  /\ Blocks(q) # <<>> /\ Head(Blocks(q)) = Block(Head(q))
         /\ Tail(Blocks(q)) = Blocks(Tail(q))
  <1>1. /\ Head(q) = q[1] /\ Tail(q) \in Seq(Record) /\ Len(q) \in Nat \ {0}
        /\ Len(Tail(q)) = Len(q) - 1
        /\ \A i \in 1..Len(Tail(q)) : Tail(q)[i] = q[i + 1]
    BY HeadTailProperties, EmptySeq
  <1>2. PICK p \in Seq(Record) : p = Tail(q)
    BY <1>1
  <1>3. PICK b \in Seq(Seq(Char)) :
          /\ b = Blocks(q) /\ Len(b) = Len(q) /\ \A i \in 1..Len(q) : b[i] = Block(q[i])
    BY BlocksAre
  <1>4. PICK c \in Seq(Seq(Char)) :
          /\ c = Blocks(p) /\ Len(c) = Len(p) /\ \A i \in 1..Len(p) : c[i] = Block(p[i])
    BY BlocksAre
  <1>5. b # <<>> /\ Head(b) = Block(Head(q))
    BY <1>1, <1>3
  <1>6. PICK d \in Seq(Seq(Char)) :
          /\ d = Tail(b) /\ Len(d) = Len(b) - 1 /\ \A i \in 1..Len(d) : d[i] = b[i + 1]
    BY <1>5, HeadTailProperties
  <1>7. ASSUME NEW i \in 1..Len(d)
        PROVE  d[i] = c[i]
    <2>1. i \in 1..Len(p) /\ i + 1 \in 1..Len(q)
      BY <1>1, <1>2, <1>3, <1>6
    <2>2. d[i] = b[i + 1] /\ p[i] = q[i + 1]
      BY <1>1, <1>2, <1>6, <2>1
    <2>3. b[i + 1] = Block(q[i + 1]) /\ c[i] = Block(p[i])
      BY <1>3, <1>4, <2>1
    <2> QED BY <2>2, <2>3
  <1>8. d = c
    <2>1. Len(d) = Len(c)
      BY <1>1, <1>2, <1>3, <1>4, <1>6
    <2> QED BY <1>7, <2>1, SeqEqual
  <1> QED BY <1>2, <1>3, <1>4, <1>5, <1>6, <1>8

LEMMA StreamIs == \A q : Stream(q) = FlattenSeq(Blocks(q))
  BY DEF Stream, Blocks

LEMMA StreamType ==
  ASSUME NEW q \in Seq(Record)
  PROVE  Stream(q) \in Seq(Char)
  BY StreamIs, BlocksAre, FlattenType

LEMMA StreamEmpty == Stream(<<>>) = <<>>
  <1>1. Blocks(<<>>) = <<>>
    BY DEF Blocks
  <1> QED BY <1>1, StreamIs, FlattenEmpty

LEMMA StreamAppend ==
  ASSUME NEW q \in Seq(Record), NEW r \in Record
  PROVE  Stream(Append(q, r)) = Stream(q) \o Block(r)
  <1>1. PICK b \in Seq(Seq(Char)), c \in Seq(Char) : b = Blocks(q) /\ c = Block(r)
    BY BlocksAre, BlockIs
  <1>2. FlattenSeq(Append(b, c)) = FlattenSeq(b) \o c
    BY FlattenAppend
  <1> QED BY <1>1, <1>2, StreamIs, BlocksAppend

LEMMA StreamHead ==
  ASSUME NEW q \in Seq(Record), q # <<>>
  PROVE  Stream(q) = Block(Head(q)) \o Stream(Tail(q))
  <1>1. PICK b \in Seq(Seq(Char)) : b = Blocks(q)
    BY BlocksAre
  <1>2. b # <<>> /\ Head(b) = Block(Head(q)) /\ Tail(b) = Blocks(Tail(q))
    BY <1>1, BlocksTail
  <1>3. FlattenSeq(b) = Head(b) \o FlattenSeq(Tail(b))
    BY <1>2, FlattenHead
  <1> QED BY <1>1, <1>2, <1>3, StreamIs

\* What is read of a stream: the magic number, the count, the record, the rest.
LEMMA StreamStart ==
  ASSUME NEW q \in Seq(Record), q # <<>>
  PROVE  LET r == Head(q)
             rest == r \o Stream(Tail(q))
         IN  /\ r \in Record /\ rest \in Seq(Char)
             /\ Stream(q) # <<>> /\ Head(Stream(q)) = IPC_MAGIC
             /\ Tail(Stream(q)) = <<Len(r)>> \o rest
             /\ Tail(Stream(q)) # <<>>
             /\ Head(Tail(Stream(q))) = Len(r) /\ Tail(Tail(Stream(q))) = rest
  <1>1. PICK r \in Record, p \in Seq(Record) : r = Head(q) /\ p = Tail(q)
    BY HeadTailProperties
  <1>2. PICK v \in Seq(Char) : v = Stream(p)
    BY StreamType
  <1>3. /\ r \in Seq(Char) /\ Len(r) \in Char /\ IPC_MAGIC \in Char
        /\ <<Len(r)>> \in Seq(Char) /\ <<IPC_MAGIC>> \in Seq(Char)
    BY RecordIs, MagicIs, OneOf
  <1>4. PICK rest \in Seq(Char) : rest = r \o v
    BY <1>3, ConcatProperties
  <1>5. PICK lr \in Seq(Char) : lr = <<Len(r)>> \o r
    BY BlockIs
  <1>6. PICK t \in Seq(Char) : t = <<Len(r)>> \o rest /\ t # <<>> /\ Head(t) = Len(r) /\ Tail(t) = rest
    BY <1>3, ConsTail
  <1>7. lr \o v = t
    <2>1. PICK x \in Seq(Char), y \in Seq(Char), z \in Seq(Char) :
                 x = <<Len(r)>> /\ y = r /\ z = v
      BY <1>3
    <2>2. (x \o y) \o z = x \o (y \o z)
      <3>1. Associate(x, y, z)
        BY CharAssociative
      <3> QED BY <3>1 DEF Associate
    <2>3. x \o y = lr /\ z = v
      BY <1>5, <2>1, Zenon
    <2>4. y \o z = rest
      BY <1>4, <2>1, Zenon
    <2>5. x \o rest = t
      BY <1>6, <2>1, Zenon
    <2> QED BY <2>2, <2>3, <2>4, <2>5, Zenon
  <1>8. PICK u \in Seq(Char) : u = <<IPC_MAGIC>> \o t /\ u # <<>> /\ Head(u) = IPC_MAGIC /\ Tail(u) = t
    BY <1>3, ConsTail
  <1>9. Block(r) \o v = u
    <2>1. PICK x \in Seq(Char) : x = <<IPC_MAGIC>>
      BY <1>3
    <2>2. (x \o lr) \o v = x \o (lr \o v)
      <3>1. Associate(x, lr, v)
        BY CharAssociative
      <3> QED BY <3>1 DEF Associate
    <2>3. Block(r) = x \o lr
      BY <1>5, <2>1, BlockIs
    <2> QED BY <1>7, <1>8, <2>1, <2>2, <2>3
  <1>10. Stream(q) = u
    BY <1>1, <1>2, <1>9, StreamHead
  <1> QED BY <1>1, <1>2, <1>4, <1>6, <1>8, <1>10

\* A stream is as long as its last block at least.
LEMMA StreamLong ==
  ASSUME NEW q \in Seq(Record), q # <<>>
  PROVE  /\ q[Len(q)] \in Record
         /\ Len(Stream(q)) >= Len(q[Len(q)]) + 2
  <1>1. PICK p \in Seq(Record), r \in Record : q = Append(p, r)
    BY SequenceEmptyOrAppend
  <1>2. q[Len(q)] = r
    BY <1>1, AppendProperties
  <1>3. PICK v \in Seq(Char), b \in Seq(Char) : v = Stream(p) /\ b = Block(r)
    BY StreamType, BlockIs
  <1>4. Len(v \o b) = Len(v) + Len(b) /\ Len(v) \in Nat /\ Len(b) = 2 + Len(r)
    <2>1. Len(v \o b) = Len(v) + Len(b)
      BY ConcatProperties
    <2>2. Len(v) \in Nat
      BY LenProperties
    <2>3. Len(Block(r)) = 2 + Len(r)
      BY BlockIs
    <2> QED BY <1>3, <2>1, <2>2, <2>3
  <1>5. Stream(q) = v \o b
    BY <1>1, <1>3, StreamAppend
  <1>6. Len(r) \in Nat
    BY RecordIs
  <1> QED BY <1>2, <1>4, <1>5, <1>6

LEMMA PartialRecord ==
  ASSUME NEW r \in Record \cup {<<>>}, NEW m \in Nat \ {0}, NEW n \in Int, n <= Len(r)
  PROVE  /\ SubSeq(r, m, n) \in Record \cup {<<>>} /\ SubSeq(r, m, n) \in Seq(Char)
         /\ Len(SubSeq(r, m, n)) = IF m <= n THEN n - m + 1 ELSE 0
  <1>1. r \in Seq(Data) /\ r \in Seq(Char) /\ Len(r) \in 0..MaxRecord
    <2>1. CASE r = <<>>
      <3>1. <<>> \in Seq(Data) /\ <<>> \in Seq(Char) /\ Len(<<>>) = 0
        OBVIOUS
      <3> QED BY <2>1, <3>1, ChannelAssumption
    <2>2. CASE r \in Record
      BY <2>2, RecordIs, ChannelAssumption
    <2> QED BY <2>1, <2>2
  <1>2. PICK t \in Seq(Data) : t = SubSeq(r, m, n) /\ Len(t) = IF m <= n THEN n - m + 1 ELSE 0
    <2>1. PICK s \in Seq(Data) : s = r
      BY <1>1
    <2>2. /\ SubSeq(s, m, n) \in Seq(Data)
          /\ Len(SubSeq(s, m, n)) = IF m <= n THEN n - m + 1 ELSE 0
      BY <2>1, PartOf
    <2> QED BY <2>1, <2>2
  <1>3. t \in Seq(Char)
    BY <1>2, SeqMonotonic DEF Char
  <1>4. CASE m <= n
    <2>1. Len(t) \in 1..MaxRecord
      BY <1>1, <1>2, <1>4, ChannelAssumption
    <2>2. t \in Record
      BY <2>1, RecordMade
    <2> QED BY <1>2, <1>3, <2>2
  <1>5. CASE ~(m <= n)
    <2>1. t = <<>>
      BY <1>2, <1>5, EmptySeq
    <2> QED BY <1>2, <1>3, <2>1
  <1> QED BY <1>4, <1>5

-----------------------------------------------------------------------------
(* The types.                                                              *)

Reader == [at : {"idle", "count", "mask", "data"}, limit : Limits \cup {0},
           left : Nat, skip : Nat, buf : Seq(Char), pending : BOOLEAN]

\* A read takes from the pipe what its buffer has room for, and has no data before
\* it knows how much there is.
ReaderOK(x) ==
    /\ x \in Reader
    /\ x.at # "idle" => x.limit \in Limits
    /\ x.at = "count" => x.buf = <<>>
    /\ Len(x.buf) + x.left <= x.limit

WriterOK(x) ==
    /\ x \in [at : {"idle", "count", "data", "dead"}, todo : Record \cup {<<>>}]
    /\ x.at \in {"count", "data"} <=> x.todo # <<>>

GotOK(x) ==
    /\ x \in [ok : BOOLEAN, data : Seq(Char)]
    /\ x.data = <<>> \/ \E n \in Limits : Len(x.data) <= n

TypeInv ==
    /\ pipe \in Seq(Char) /\ Len(pipe) <= PipeSize
    /\ WriterOK(writer)
    /\ ReaderOK(reader)
    /\ GotOK(got)
    /\ sent \in Seq(Record \cup {<<>>})
    /\ hist \in [torn : BOOLEAN, records : Nat, reads : Nat, interrupts : Nat]

LEMMA TypeInvTypes == TypeInv => TypeOK
  <1> SUFFICES ASSUME TypeInv PROVE TypeOK
    OBVIOUS
  <1>1. pipe \in Seq(Char) /\ Len(pipe) <= PipeSize /\ sent \in Seq(Record \cup {<<>>})
    BY DEF TypeInv
  <1>2. writer.at \in {"idle", "count", "data", "dead"} /\ writer.todo \in Record \cup {<<>>}
    BY DEF TypeInv, WriterOK
  <1>3. /\ reader.at \in {"idle", "count", "mask", "data"} /\ reader.limit \in Limits \cup {0}
        /\ reader.left \in Nat /\ reader.skip \in Nat /\ reader.buf \in Seq(Char)
        /\ reader.pending \in BOOLEAN
    BY DEF TypeInv, ReaderOK, Reader
  <1>4. /\ got.ok \in BOOLEAN /\ got.data \in Seq(Char)
        /\ got.data = <<>> \/ \E n \in Limits : Len(got.data) <= n
    BY DEF TypeInv, GotOK
  <1> QED BY <1>1, <1>2, <1>3, <1>4 DEF TypeOK

LEMMA WaitingOK == ReaderOK(Waiting)
  <1>1. <<>> \in Seq(Char) /\ Len(<<>>) = 0
    OBVIOUS
  <1> QED BY <1>1 DEF Waiting, ReaderOK, Reader

LEMMA PipeTail ==
  ASSUME pipe \in Seq(Char), Len(pipe) <= PipeSize, pipe # <<>>
  PROVE  /\ Head(pipe) \in Char /\ Head(pipe) \in Nat
         /\ Tail(pipe) \in Seq(Char) /\ Len(Tail(pipe)) <= PipeSize
  <1>1. Head(pipe) \in Char /\ Tail(pipe) \in Seq(Char) /\ Len(Tail(pipe)) = Len(pipe) - 1
    BY HeadTailProperties
  <1>2. Len(pipe) \in Nat /\ PipeSize \in Nat
    BY LenProperties, ChannelAssumption
  <1>3. Head(pipe) \in Nat
    BY <1>1, MagicIs
  <1> QED BY <1>1, <1>2, <1>3

LEMMA InitType == Init => TypeInv
  <1> SUFFICES ASSUME Init PROVE TypeInv
    OBVIOUS
  <1>1. /\ <<>> \in Seq(Char) /\ Len(<<>>) = 0 /\ <<>> \in Seq(Record \cup {<<>>})
    OBVIOUS
  <1>2. pipe \in Seq(Char) /\ Len(pipe) <= PipeSize /\ sent \in Seq(Record \cup {<<>>})
    BY <1>1, ChannelAssumption DEF Init
  <1>3. WriterOK(writer)
    BY DEF Init, WriterOK
  <1>4. ReaderOK(reader)
    BY WaitingOK DEF Init
  <1>5. GotOK(got)
    BY <1>1 DEF Init, GotOK
  <1>6. hist \in [torn : BOOLEAN, records : Nat, reads : Nat, interrupts : Nat]
    BY DEF Init
  <1> QED BY <1>2, <1>3, <1>4, <1>5, <1>6 DEF TypeInv

LEMMA WriteType ==
  ASSUME TypeInv, Write
  PROVE  TypeInv'
  <1>1. /\ pipe \in Seq(Char) /\ Len(pipe) <= PipeSize /\ Len(pipe) \in Nat
        /\ WriterOK(writer) /\ sent \in Seq(Record \cup {<<>>})
        /\ hist \in [torn : BOOLEAN, records : Nat, reads : Nat, interrupts : Nat]
    BY LenProperties DEF TypeInv
  <1>2. reader' = reader /\ got' = got
    BY DEF Write, WriteMagic, WriteCount, WriteData
  <1>3. ReaderOK(reader') /\ GotOK(got')
    BY <1>2 DEF TypeInv
  <1>4. ASSUME NEW c \in Char, Room > 0, pipe' = Append(pipe, c)
        PROVE  pipe' \in Seq(Char) /\ Len(pipe') <= PipeSize
    BY <1>1, <1>4, AppendProperties, ChannelAssumption DEF Room
  <1>5. CASE WriteMagic
    <2>1. pipe' \in Seq(Char) /\ Len(pipe') <= PipeSize
      BY <1>4, <1>5, MagicIs DEF WriteMagic
    <2>2. PICK r \in Record : writer' = [at |-> "count", todo |-> r] /\ sent' = Append(sent, r)
      BY <1>5 DEF WriteMagic
    <2>3. WriterOK(writer')
      BY <2>2, RecordIs DEF WriterOK
    <2>4. sent' \in Seq(Record \cup {<<>>})
      BY <1>1, <2>2, AppendProperties
    <2>5. hist' \in [torn : BOOLEAN, records : Nat, reads : Nat, interrupts : Nat]
      <3>1. hist' = [hist EXCEPT !.records = @ + 1] /\ hist.records + 1 \in Nat
        BY <1>1, <1>5 DEF WriteMagic
      <3> QED BY <1>1, <3>1
    <2> QED BY <1>3, <2>1, <2>3, <2>4, <2>5 DEF TypeInv
  <1>6. CASE WriteCount
    <2>1. writer.todo \in Record
      BY <1>1, <1>6 DEF WriteCount, WriterOK
    <2>2. pipe' \in Seq(Char) /\ Len(pipe') <= PipeSize
      BY <1>4, <1>6, <2>1, RecordIs DEF WriteCount
    <2>3. WriterOK(writer')
      BY <1>1, <1>6 DEF WriteCount, WriterOK
    <2>4. sent' = sent /\ hist' = hist
      BY <1>6 DEF WriteCount
    <2> QED BY <1>1, <1>3, <2>2, <2>3, <2>4 DEF TypeInv
  <1>7. CASE WriteData
    <2>1. PICK todo \in Record : todo = writer.todo
      BY <1>1, <1>7 DEF WriteData, WriterOK
    <2>2. PICK n \in Nat : n = Least(Room, Len(todo)) /\ n <= Len(todo) /\ n <= Room
      <3>1. Room \in Nat /\ Len(todo) \in Nat
        BY <1>1, <1>7, RecordIs, ChannelAssumption DEF Room, WriteData
      <3> QED BY <3>1 DEF Least
    <2>3. PICK rest \in Record \cup {<<>>} : rest = SubSeq(todo, n + 1, Len(todo))
      <3>1. n + 1 \in Nat \ {0} /\ Len(todo) \in Int /\ Len(todo) <= Len(todo)
        BY <2>2, RecordIs
      <3> QED BY <3>1, PartialRecord
    <2>4. PICK start \in Seq(Char) : start = SubSeq(todo, 1, n) /\ Len(start) = n
      <3>1. todo \in Seq(Char) /\ n \in 0..Len(todo)
        BY <2>2, RecordIs
      <3>2. SubSeq(todo, 1, n) \in Seq(Char) /\ Len(SubSeq(todo, 1, n)) = n
        BY <3>1, Parts
      <3> QED BY <3>2, Zenon
    <2>5. /\ pipe' = pipe \o start /\ sent' = sent /\ hist' = hist
          /\ writer' = [at |-> IF rest = <<>> THEN "idle" ELSE "data", todo |-> rest]
      BY <1>7, <2>1, <2>2, <2>3, <2>4 DEF WriteData
    <2>6. pipe' \in Seq(Char) /\ Len(pipe') <= PipeSize
      BY <1>1, <2>2, <2>4, <2>5, ConcatProperties, ChannelAssumption DEF Room
    <2>7. WriterOK(writer')
      BY <2>5 DEF WriterOK
    <2> QED BY <1>1, <1>3, <2>5, <2>6, <2>7 DEF TypeInv
  <1> QED BY <1>5, <1>6, <1>7 DEF Write

\* What is left of the records that were sent when the writer dies.
LEMMA CutType ==
  ASSUME NEW q \in Seq(Record \cup {<<>>}), NEW todo \in Record \cup {<<>>}, NEW at
  PROVE  [q EXCEPT ![Len(q)] = IF at = "count" THEN <<>>
                               ELSE SubSeq(@, 1, Len(@) - Len(todo))]
            \in Seq(Record \cup {<<>>})
  <1> DEFINE last == IF at = "count" THEN <<>>
                     ELSE SubSeq(q[Len(q)], 1, Len(q[Len(q)]) - Len(todo))
  <1>1. [q EXCEPT ![Len(q)] = IF at = "count" THEN <<>>
                              ELSE SubSeq(@, 1, Len(@) - Len(todo))]
          = [q EXCEPT ![Len(q)] = last]
    OBVIOUS
  <1>2. Len(q) \in Nat /\ DOMAIN q = 1..Len(q)
    BY LenProperties
  <1>3. CASE Len(q) = 0
    <2>1. [q EXCEPT ![Len(q)] = last] = q
      BY <1>2, <1>3
    <2> QED BY <1>1, <2>1
  <1>4. CASE Len(q) # 0
    <2>1. PICK r \in Record \cup {<<>>} : r = q[Len(q)]
      BY <1>2, <1>4, ElementOfSeq
    <2>2. Len(todo) \in Nat /\ Len(r) \in Nat
      BY RecordIs
    <2>3. 1 \in Nat \ {0} /\ Len(r) - Len(todo) \in Int /\ Len(r) - Len(todo) <= Len(r)
      BY <2>2
    <2>4. SubSeq(r, 1, Len(r) - Len(todo)) \in Record \cup {<<>>}
      BY <2>3, PartialRecord
    <2>5. PICK x \in Record \cup {<<>>} : x = last
      BY <2>1, <2>4
    <2>6. Len(q) \in 1..Len(q)
      BY <1>2, <1>4
    <2>7. [q EXCEPT ![Len(q)] = x] \in Seq(Record \cup {<<>>})
      BY <2>6, ExceptSeq
    <2> QED BY <1>1, <2>5, <2>7
  <1> QED BY <1>3, <1>4

LEMMA WriterDiesType ==
  ASSUME TypeInv, WriterDies
  PROVE  TypeInv'
  <1>1. writer.todo \in Record \cup {<<>>} /\ sent \in Seq(Record \cup {<<>>})
    BY DEF TypeInv, WriterOK
  <1>2. WriterOK(writer')
    BY DEF WriterDies, WriterOK
  <1>3. sent' \in Seq(Record \cup {<<>>})
    BY <1>1, CutType DEF WriterDies
  <1> QED BY <1>2, <1>3 DEF TypeInv, WriterDies

LEMMA FinishType ==
  ASSUME TypeInv, reader.at \in {"mask", "data"}, Finish(reader.buf)
  PROVE  ReaderOK(reader') /\ GotOK(got') /\ sent' \in Seq(Record \cup {<<>>})
  <1>1. /\ ReaderOK(reader) /\ GotOK(got) /\ sent \in Seq(Record \cup {<<>>})
        /\ reader.buf \in Seq(Char) /\ reader.limit \in Limits /\ reader.left \in Nat
        /\ Len(reader.buf) + reader.left <= reader.limit
    BY DEF TypeInv, ReaderOK, Reader
  <1>2. Len(reader.buf) <= reader.limit
    <2>1. PICK b \in Seq(Char) : b = reader.buf
      BY <1>1
    <2>2. Len(b) \in Nat /\ reader.limit \in Nat
      BY <1>1, LenProperties, ChannelAssumption
    <2> QED BY <1>1, <2>1, <2>2
  <1>3. GotOK([ok |-> TRUE, data |-> reader.buf])
    BY <1>1, <1>2 DEF GotOK
  <1>4. GotOK(got')
    BY <1>1, <1>3 DEF Finish
  <1>5. sent' \in Seq(Record \cup {<<>>})
    <2>1. sent' = IF sent = <<>> THEN <<>> ELSE Tail(sent)
      BY DEF Finish, Rest
    <2> QED BY <1>1, <2>1, HeadTailProperties
  <1> QED BY <1>4, <1>5, WaitingOK DEF Finish

LEMMA FailType ==
  ASSUME Fail
  PROVE  ReaderOK(reader') /\ GotOK(got')
  <1>1. <<>> \in Seq(Char)
    OBVIOUS
  <1> QED BY <1>1, WaitingOK DEF Fail, GotOK

LEMMA ReadType ==
  ASSUME TypeInv, Read
  PROVE  TypeInv'
  <1>1. /\ pipe \in Seq(Char) /\ Len(pipe) <= PipeSize /\ Len(pipe) \in Nat
        /\ WriterOK(writer) /\ ReaderOK(reader) /\ GotOK(got)
        /\ sent \in Seq(Record \cup {<<>>})
        /\ hist \in [torn : BOOLEAN, records : Nat, reads : Nat, interrupts : Nat]
    BY LenProperties DEF TypeInv
  <1>2. writer' = writer
    BY DEF Read, ReadMagic, ReadEnd, ReadCount, ReadCountFails, Mask, ReadData,
           Discard, ReadDone
  <1>3. WriterOK(writer')
    BY <1>1, <1>2
  <1>4. ASSUME pipe # <<>>, pipe' = Tail(pipe)
        PROVE  pipe' \in Seq(Char) /\ Len(pipe') <= PipeSize
    BY <1>1, <1>4, PipeTail
  <1>5. ASSUME hist' = [hist EXCEPT !.reads = @ + 1]
        PROVE  hist' \in [torn : BOOLEAN, records : Nat, reads : Nat, interrupts : Nat]
    <2>1. hist.reads + 1 \in Nat
      BY <1>1
    <2> QED BY <1>1, <1>5, <2>1
  <1>6. Rest \in Seq(Record \cup {<<>>})
    BY <1>1, HeadTailProperties DEF Rest
  <1>7. /\ reader \in Reader /\ reader.limit \in Nat /\ reader.left \in Nat
        /\ reader.skip \in Nat /\ reader.buf \in Seq(Char) /\ Len(reader.buf) \in Nat
        /\ (reader.at # "idle" => reader.limit \in Limits)
        /\ Len(reader.buf) + reader.left <= reader.limit
    <2>1. PICK b \in Seq(Char) : b = reader.buf
      BY <1>1 DEF ReaderOK, Reader
    <2>2. Len(b) \in Nat /\ Limits \cup {0} \subseteq Nat
      BY LenProperties, ChannelAssumption
    <2> QED BY <1>1, <2>1, <2>2 DEF ReaderOK, Reader
  <1>8. CASE ReadMagic
    <2>1. ReaderOK(reader') /\ GotOK(got')
      <3>1. CASE Head(pipe) = IPC_MAGIC
        <4>1. PICK n \in Limits : reader' = [Waiting EXCEPT !.at = "count", !.limit = n]
          BY <1>8, <3>1 DEF ReadMagic
        <4>2. Waiting \in Reader /\ Waiting.buf = <<>> /\ Waiting.left = 0
          BY WaitingOK DEF ReaderOK, Waiting
        <4>3. reader' \in Reader /\ reader'.at = "count" /\ reader'.limit = n
              /\ reader'.buf = Waiting.buf /\ reader'.left = Waiting.left
          BY <4>1, <4>2 DEF Reader
        <4>4. Len(<<>>) = 0 /\ n \in Nat
          BY ChannelAssumption
        <4>5. ReaderOK(reader')
          BY <4>2, <4>3, <4>4 DEF ReaderOK
        <4> QED BY <1>1, <1>8, <3>1, <4>5 DEF ReadMagic
      <3>2. CASE Head(pipe) # IPC_MAGIC
        BY <1>8, <3>2, FailType DEF ReadMagic
      <3> QED BY <3>1, <3>2
    <2>2. sent' = sent
      BY <1>8 DEF ReadMagic
    <2>3. pipe' \in Seq(Char) /\ Len(pipe') <= PipeSize
      BY <1>4, <1>8 DEF ReadMagic
    <2>4. hist' \in [torn : BOOLEAN, records : Nat, reads : Nat, interrupts : Nat]
      BY <1>5, <1>8 DEF ReadMagic
    <2> QED BY <1>1, <1>3, <2>1, <2>2, <2>3, <2>4 DEF TypeInv
  <1>9. CASE ReadEnd
    <2>1. GotOK(got')
      <3>1. <<>> \in Seq(Char)
        OBVIOUS
      <3> QED BY <1>9, <3>1 DEF ReadEnd, GotOK
    <2>2. hist' \in [torn : BOOLEAN, records : Nat, reads : Nat, interrupts : Nat]
      BY <1>5, <1>9 DEF ReadEnd
    <2> QED BY <1>1, <1>3, <1>9, <2>1, <2>2 DEF TypeInv, ReadEnd
  <1>10. CASE ReadCount
    <2>1. Head(pipe) \in Nat
      BY <1>1, <1>10, PipeTail DEF ReadCount
    <2>2. PICK n \in Nat : n = Least(Head(pipe), reader.limit)
                           /\ n <= Head(pipe) /\ n <= reader.limit
      BY <1>7, <2>1 DEF Least
    <2>3. PICK skip \in Nat : skip = Head(pipe) - n
      BY <2>1, <2>2
    <2>4. reader' = [reader EXCEPT !.at = "mask", !.left = n, !.skip = skip]
      BY <1>10, <2>2, <2>3 DEF ReadCount
    <2>5. reader' \in Reader /\ reader'.at = "mask" /\ reader'.left = n
          /\ reader'.limit = reader.limit /\ reader'.buf = reader.buf
      BY <1>7, <2>4 DEF Reader
    <2>6. reader.buf = <<>> /\ Len(reader.buf) = 0 /\ reader.limit \in Limits
      BY <1>1, <1>10 DEF ReadCount, ReaderOK
    <2>7. ReaderOK(reader')
      BY <1>7, <2>2, <2>5, <2>6 DEF ReaderOK
    <2>8. pipe' \in Seq(Char) /\ Len(pipe') <= PipeSize
      BY <1>4, <1>10 DEF ReadCount
    <2> QED BY <1>1, <1>3, <1>10, <2>7, <2>8 DEF TypeInv, ReadCount
  <1>11. CASE ReadCountFails
    <2>1. ReaderOK(reader') /\ GotOK(got')
      BY <1>11, FailType DEF ReadCountFails
    <2> QED BY <1>1, <1>3, <1>6, <1>11, <2>1 DEF TypeInv, ReadCountFails
  <1>12. CASE Mask
    <2>1. reader' = [reader EXCEPT !.at = "data"] /\ reader.at = "mask"
      BY <1>12 DEF Mask
    <2>2. reader' \in Reader /\ reader'.at = "data" /\ reader'.left = reader.left
          /\ reader'.limit = reader.limit /\ reader'.buf = reader.buf
      BY <1>7, <2>1 DEF Reader
    <2>3. ReaderOK(reader')
      BY <1>7, <2>1, <2>2 DEF ReaderOK
    <2> QED BY <1>1, <1>3, <1>12, <2>3 DEF TypeInv, Mask
  <1>13. CASE ReadData
    <2>1. PICK n \in Nat : n = Least(reader.left, Len(pipe))
                           /\ n <= reader.left /\ n <= Len(pipe)
      <3>1. Len(pipe) \in Nat /\ reader.left \in Nat
        BY <1>1, <1>7, LenProperties
      <3>2. /\ Least(reader.left, Len(pipe)) \in Nat
            /\ Least(reader.left, Len(pipe)) <= reader.left
            /\ Least(reader.left, Len(pipe)) <= Len(pipe)
        BY <3>1 DEF Least
      <3> QED BY <3>2, Zenon
    <2>2. PICK start \in Seq(Char) : start = SubSeq(pipe, 1, n) /\ Len(start) = n
      <3>1. n \in 0..Len(pipe)
        BY <1>1, <2>1, LenProperties
      <3>2. SubSeq(pipe, 1, n) \in Seq(Char) /\ Len(SubSeq(pipe, 1, n)) = n
        BY <1>1, <3>1, Parts
      <3> QED BY <3>2, Zenon
    <2>3. PICK buf \in Seq(Char) : buf = reader.buf \o start /\ Len(buf) = Len(reader.buf) + n
      <3>1. PICK old \in Seq(Char) : old = reader.buf
        BY <1>7
      <3>2. old \o start \in Seq(Char) /\ Len(old \o start) = Len(old) + Len(start)
        BY ConcatProperties
      <3> QED BY <2>2, <3>1, <3>2
    <2>4. PICK left \in Nat : left = reader.left - n
      BY <1>7, <2>1
    <2>5. reader' = [reader EXCEPT !.left = left, !.buf = buf] /\ reader.at = "data"
      BY <1>13, <2>1, <2>2, <2>3, <2>4 DEF ReadData
    <2>6. reader' \in Reader /\ reader'.at = "data" /\ reader'.left = left
          /\ reader'.limit = reader.limit /\ reader'.buf = buf
      BY <1>7, <2>5 DEF Reader
    <2>7. ReaderOK(reader')
      BY <1>7, <2>3, <2>4, <2>5, <2>6 DEF ReaderOK
    <2>8. pipe' = SubSeq(pipe, n + 1, Len(pipe))
      BY <1>13, <2>1 DEF ReadData
    <2>9. pipe' \in Seq(Char) /\ Len(pipe') <= PipeSize
      <3>1. n \in 0..Len(pipe)
        BY <2>1
      <3>2. pipe' \in Seq(Char) /\ Len(pipe') = Len(pipe) - n
        BY <1>1, <2>8, <3>1, Parts
      <3> QED BY <1>1, <2>1, <3>2, ChannelAssumption
    <2> QED BY <1>1, <1>3, <1>13, <2>7, <2>9 DEF TypeInv, ReadData
  <1>14. CASE Discard
    <2>1. PICK skip \in Nat : skip = reader.skip - 1
      BY <1>7, <1>14 DEF Discard
    <2>2. reader' = [reader EXCEPT !.skip = skip] /\ reader.at = "data"
      BY <1>14, <2>1 DEF Discard
    <2>3. reader' \in Reader /\ reader'.at = "data" /\ reader'.left = reader.left
          /\ reader'.limit = reader.limit /\ reader'.buf = reader.buf
      BY <1>7, <2>2 DEF Reader
    <2>4. ReaderOK(reader')
      BY <1>7, <2>2, <2>3 DEF ReaderOK
    <2>5. pipe' \in Seq(Char) /\ Len(pipe') <= PipeSize
      BY <1>4, <1>14 DEF Discard
    <2> QED BY <1>1, <1>3, <1>14, <2>4, <2>5 DEF TypeInv, Discard
  <1>15. CASE ReadDone
    <2>1. ReaderOK(reader') /\ GotOK(got') /\ sent' \in Seq(Record \cup {<<>>})
      BY <1>15, FinishType DEF ReadDone
    <2> QED BY <1>1, <1>3, <1>15, <2>1 DEF TypeInv, ReadDone
  <1> QED BY <1>8, <1>9, <1>10, <1>11, <1>12, <1>13, <1>14, <1>15 DEF Read

LEMMA InterruptType ==
  ASSUME TypeInv, Interrupt
  PROVE  TypeInv'
  <1>1. /\ ReaderOK(reader)
        /\ hist \in [torn : BOOLEAN, records : Nat, reads : Nat, interrupts : Nat]
    BY DEF TypeInv
  <1>2. ReaderOK(reader')
    <2>1. CASE reader.at = "data"
      <3>1. reader' = [reader EXCEPT !.pending = TRUE]
        BY <2>1 DEF Interrupt
      <3>2. reader' \in Reader /\ reader'.at = "data" /\ reader'.left = reader.left
            /\ reader'.limit = reader.limit /\ reader'.buf = reader.buf
        BY <1>1, <2>1, <3>1 DEF ReaderOK, Reader
      <3> QED BY <1>1, <2>1, <3>2 DEF ReaderOK
    <2>2. CASE reader.at # "data"
      BY <2>2, WaitingOK DEF Interrupt
    <2> QED BY <2>1, <2>2
  <1>3. hist' \in [torn : BOOLEAN, records : Nat, reads : Nat, interrupts : Nat]
    <2>1. PICK t \in BOOLEAN, n \in Nat :
                 t = (hist.torn \/ reader.at # "data") /\ n = hist.interrupts + 1
      <3>1. (hist.torn \/ reader.at # "data") \in BOOLEAN
        OBVIOUS
      <3>2. hist.interrupts + 1 \in Nat
        BY <1>1
      <3> QED BY <3>1, <3>2, Zenon
    <2>2. hist' = [hist EXCEPT !.torn = t, !.interrupts = n]
      BY <2>1 DEF Interrupt
    <2> QED BY <1>1, <2>2
  <1> QED BY <1>2, <1>3 DEF TypeInv, Interrupt

LEMMA NextType ==
  ASSUME TypeInv, [Next]_vars
  PROVE  TypeInv'
  <1>1. CASE Next
    BY <1>1, WriteType, WriterDiesType, ReadType, InterruptType DEF Next
  <1>2. CASE UNCHANGED vars
    BY <1>2 DEF vars, TypeInv
  <1> QED BY <1>1, <1>2

\* Every state of the channel is well typed, interrupts and the death of the
\* writer included: the pipe never holds more than it has room for, and no read
\* returns more than the buffer of its caller takes, even out of step with the
\* writer, when it may take data for a count (zardpr of zfiopr.c).
THEOREM TypeCorrect == Spec => []TypeOK
  <1>1. TypeInv /\ [Next]_vars => TypeInv'
    BY NextType
  <1> QED BY <1>1, InitType, TypeInvTypes, PTL DEF Spec

-----------------------------------------------------------------------------
(* The reader in step with the writer.                                     *)

\* The last k chars of the record r.
End(r, k) == SubSeq(r, Len(r) - k + 1, Len(r))

\* What the writer has not written yet of the record todo.
AheadOf(at, todo) == IF at = "count" THEN <<Len(todo)>> \o todo ELSE todo

\* What the reader x has still to read, if it reads the records q.
BehindOf(x, q) ==
    IF x.at = "idle" THEN Stream(q)
    ELSE IF x.at = "count" THEN Tail(Stream(q))
    ELSE End(Head(q), x.left + x.skip) \o Stream(Tail(q))

\* What the death of the writer leaves of the records q.
CutTo(at, todo, q) ==
    IF at = "idle" THEN q
    ELSE [q EXCEPT ![Len(q)] = IF at = "count" THEN <<>>
                               ELSE SubSeq(@, 1, Len(@) - Len(todo))]

\* The writer writes the last of the records q.
Writing(at, todo, q) ==
    /\ at \in {"idle", "count", "data"} /\ todo \in Record \cup {<<>>} /\ q \in Seq(Record)
    /\ at = "idle" <=> todo = <<>>
    /\ at # "idle" => q # <<>> /\ Len(todo) <= Len(q[Len(q)])
    /\ at = "count" => todo = q[Len(q)]

\* The reader x reads r: what is in its buffer is the start of r, and what it will
\* not read into its buffer it discards.
Takes(x, r) ==
    /\ Len(x.buf) + x.left + x.skip <= Len(r)
    /\ Len(x.buf) + x.left = Least(Len(r), x.limit)
    /\ x.buf = SubSeq(r, 1, Len(x.buf))
    /\ x.left > 0 => Len(x.buf) + x.left + x.skip = Len(r)

\* It reads the first of the records q.
Reading(x, q) ==
    /\ x.at # "idle" => q # <<>>
    /\ x.at \in {"mask", "data"} => Takes(x, Head(q))

\* Writer and reader agree on the records q, which are those that were sent; when the
\* writer has died the last one was to be longer.
Agree(at, todo, q) ==
    /\ Writing(at, todo, q)
    /\ Reading(reader, q)
    /\ pipe \o AheadOf(at, todo) = BehindOf(reader, q)
    /\ IF writer.at = "dead" THEN sent = CutTo(at, todo, q)
       ELSE at = writer.at /\ todo = writer.todo /\ sent = q

StepInv == ~hist.torn => \E at, todo, q : Agree(at, todo, q)

LEMMA EndIs ==
  ASSUME NEW S, NEW r \in Seq(S), NEW k \in 0..Len(r)
  PROVE  /\ End(r, k) \in Seq(S) /\ Len(End(r, k)) = k
         /\ \A i \in 1..k : End(r, k)[i] = r[(Len(r) - k) + i]
  <1>1. PICK m \in Nat : m = Len(r) - k /\ Len(r) \in Nat
    BY LenProperties
  <1>2. /\ SubSeq(r, m + 1, Len(r)) \in Seq(S)
        /\ Len(SubSeq(r, m + 1, Len(r))) = Len(r) - m
    BY <1>1, Parts
  <1>3. \A i \in 1..Len(r) - (m + 1) + 1 : SubSeq(r, m + 1, Len(r))[i] = r[(m + 1) + i - 1]
    BY <1>1, PartOf
  <1>4. End(r, k) = SubSeq(r, m + 1, Len(r))
    BY <1>1 DEF End
  <1>5. Len(r) - m = k
    BY <1>1
  <1>6. ASSUME NEW i \in 1..k
        PROVE  End(r, k)[i] = r[(Len(r) - k) + i]
    <2>1. i \in 1..Len(r) - (m + 1) + 1 /\ (m + 1) + i - 1 = (Len(r) - k) + i
      BY <1>1
    <2> QED BY <1>3, <1>4, <2>1
  <1> QED BY <1>2, <1>4, <1>5, <1>6

LEMMA EndDrop ==
  ASSUME NEW S, NEW r \in Seq(S), NEW k \in 0..Len(r), NEW n \in 0..k
  PROVE  SubSeq(End(r, k), n + 1, Len(End(r, k))) = End(r, k - n)
  <1>0. Len(r) \in Nat /\ k \in Nat /\ n \in Nat /\ k - n \in 0..Len(r)
    BY LenProperties
  <1>1. PICK e \in Seq(S) : /\ e = End(r, k) /\ Len(e) = k
                            /\ \A i \in 1..k : e[i] = r[(Len(r) - k) + i]
    BY EndIs
  <1>2. PICK d \in Seq(S) : /\ d = End(r, k - n) /\ Len(d) = k - n
                            /\ \A i \in 1..k - n : d[i] = r[(Len(r) - (k - n)) + i]
    <2>1. /\ End(r, k - n) \in Seq(S) /\ Len(End(r, k - n)) = k - n
          /\ \A i \in 1..k - n : End(r, k - n)[i] = r[(Len(r) - (k - n)) + i]
      BY <1>0, EndIs
    <2> QED BY <2>1, Zenon
  <1>3. PICK s \in Seq(S) : s = SubSeq(e, n + 1, Len(e)) /\ Len(s) = Len(e) - n
    <2>1. n \in 0..Len(e)
      BY <1>1
    <2> QED BY <2>1, Parts
  <1>4. \A i \in 1..Len(e) - (n + 1) + 1 : SubSeq(e, n + 1, Len(e))[i] = e[(n + 1) + i - 1]
    <2>1. n + 1 \in Nat \ {0} /\ Len(e) \in Int /\ Len(e) <= Len(e)
      BY <1>0, <1>1
    <2> QED BY <2>1, PartOf
  <1>5. ASSUME NEW i \in 1..Len(s)
        PROVE  s[i] = d[i]
    <2>1. /\ i \in 1..Len(e) - (n + 1) + 1 /\ (n + 1) + i - 1 = n + i
          /\ n + i \in 1..k /\ i \in 1..k - n
          /\ (Len(r) - k) + (n + i) = (Len(r) - (k - n)) + i
      BY <1>0, <1>1, <1>3
    <2>2. s[i] = e[n + i]
      BY <1>3, <1>4, <2>1
    <2>3. e[n + i] = r[(Len(r) - k) + (n + i)]
      BY <1>1, <2>1
    <2>4. d[i] = r[(Len(r) - (k - n)) + i]
      BY <1>2, <2>1
    <2> QED BY <2>1, <2>2, <2>3, <2>4
  <1>6. s = d
    <2>1. Len(s) = Len(d)
      BY <1>1, <1>2, <1>3
    <2> QED BY <1>5, <2>1, SeqEqual
  <1> QED BY <1>1, <1>2, <1>3, <1>6

LEMMA EndAll ==
  ASSUME NEW S, NEW r \in Seq(S)
  PROVE  End(r, Len(r)) = r
  <1>1. Len(r) \in Nat /\ Len(r) - Len(r) + 1 = 1
    BY LenProperties
  <1>2. SubSeq(r, 1, Len(r)) = r
    BY SubSeqFull
  <1> QED BY <1>1, <1>2 DEF End

LEMMA EndNone ==
  ASSUME NEW S, NEW r \in Seq(S)
  PROVE  End(r, 0) = <<>>
  <1>1. Len(r) \in Nat /\ 0 \in 0..Len(r)
    BY LenProperties
  <1>2. PICK e \in Seq(S) : e = End(r, 0) /\ Len(e) = 0
    BY <1>1, EndIs
  <1>3. e = <<>>
    BY <1>2, EmptySeq
  <1> QED BY <1>2, <1>3

\* The head of a concatenation whose first part is not empty.
LEMMA HeadConcat ==
  ASSUME NEW S, NEW s \in Seq(S), NEW t \in Seq(S), s # <<>>
  PROVE  Head(s \o t) = Head(s) /\ Tail(s \o t) = Tail(s) \o t /\ s \o t # <<>>
  <1>1. Len(s) \in Nat \ {0} /\ Len(t) \in Nat
    BY EmptySeq, LenProperties
  <1>2. PICK u \in Seq(S) : u = s \o t
    BY ConcatProperties
  <1>3. Len(u) = Len(s) + Len(t) /\ u[1] = s[1]
    <2>1. /\ Len(u) = Len(s) + Len(t)
          /\ \A i \in 1..Len(s) + Len(t) : u[i] = IF i <= Len(s) THEN s[i] ELSE t[i - Len(s)]
      BY <1>2, ConcatProperties
    <2>2. 1 \in 1..Len(s) + Len(t) /\ 1 <= Len(s)
      BY <1>1
    <2> QED BY <2>1, <2>2
  <1>4. u # <<>>
    BY <1>1, <1>3
  <1>5. Head(u) = u[1] /\ Head(s) = s[1]
    BY <1>4
  <1>6. Tail(u) = SubSeq(u, 2, Len(u)) /\ Tail(s) = SubSeq(s, 2, Len(s))
    BY <1>4, TailIsSubSeq
  <1>7. SubSeq(s \o t, 1 + 1, Len(s \o t)) = SubSeq(s, 1 + 1, Len(s)) \o t
    <2>1. 1 \in 0..Len(s)
      BY <1>1
    <2> QED BY <2>1, DropConcat
  <1>8. 1 + 1 = 2
    OBVIOUS
  <1> QED BY <1>2, <1>3, <1>4, <1>5, <1>6, <1>7, <1>8

\* The same, for the chars of the channel: named parts keep the terms small.
LEMMA CharConcat ==
  ASSUME NEW s \in Seq(Char), NEW t \in Seq(Char)
  PROVE  /\ s \o t \in Seq(Char) /\ Len(s \o t) = Len(s) + Len(t)
         /\ Len(s) \in Nat /\ Len(t) \in Nat
         /\ \A i \in 1..Len(s) + Len(t) :
               (s \o t)[i] = IF i <= Len(s) THEN s[i] ELSE t[i - Len(s)]
  BY ConcatProperties, LenProperties

LEMMA AheadType ==
  ASSUME NEW at, NEW todo \in Record \cup {<<>>}, at = "count" => todo # <<>>
  PROVE  /\ AheadOf(at, todo) \in Seq(Char) /\ todo \in Seq(Char)
         /\ Len(todo) \in Nat
         /\ Len(AheadOf(at, todo)) = IF at = "count" THEN 1 + Len(todo) ELSE Len(todo)
  <1>1. todo \in Seq(Char) /\ Len(todo) \in Nat
    <2>1. CASE todo = <<>>
      <3>1. <<>> \in Seq(Char) /\ Len(<<>>) = 0
        OBVIOUS
      <3> QED BY <2>1, <3>1
    <2>2. CASE todo \in Record
      BY <2>2, RecordIs
    <2> QED BY <2>1, <2>2
  <1>2. CASE at = "count"
    <2>1. todo \in Record /\ Len(todo) \in Char
      BY <1>2, RecordIs
    <2>2. <<Len(todo)>> \o todo \in Seq(Char) /\ Len(<<Len(todo)>> \o todo) = 1 + Len(todo)
      BY <1>1, <2>1, ConsTail
    <2> QED BY <1>1, <1>2, <2>2 DEF AheadOf
  <1>3. CASE at # "count"
    BY <1>1, <1>3 DEF AheadOf
  <1> QED BY <1>2, <1>3

\* What a reader in the middle of a record knows of it.
LEMMA TakesIs ==
  ASSUME NEW x \in Reader, NEW q \in Seq(Record), Reading(x, q), x.at \in {"mask", "data"}
  PROVE  /\ q # <<>> /\ Head(q) \in Record /\ Head(q) \in Seq(Char)
         /\ Takes(x, Head(q)) /\ x.left + x.skip \in 0..Len(Head(q))
         /\ Len(x.buf) \in Nat /\ Tail(q) \in Seq(Record)
  <1>1. q # <<>> /\ Takes(x, Head(q))
    BY DEF Reading
  <1>2. Head(q) \in Record /\ Tail(q) \in Seq(Record)
    BY <1>1, HeadTailProperties
  <1>3. x.buf \in Seq(Char) /\ x.left \in Nat /\ x.skip \in Nat
    BY DEF Reader
  <1>4. PICK b \in Seq(Char) : b = x.buf
    BY <1>3
  <1>5. Len(b) \in Nat
    BY LenProperties
  <1>6. Head(q) \in Seq(Char) /\ Len(Head(q)) \in Nat
    BY <1>2, RecordIs
  <1>7. Len(b) + x.left + x.skip <= Len(Head(q))
    BY <1>1, <1>4 DEF Takes
  <1> QED BY <1>1, <1>2, <1>3, <1>4, <1>5, <1>6, <1>7

LEMMA BehindType ==
  ASSUME NEW x \in Reader, NEW q \in Seq(Record), Reading(x, q)
  PROVE  BehindOf(x, q) \in Seq(Char)
  <1>1. CASE x.at = "idle"
    BY <1>1, StreamType DEF BehindOf
  <1>2. CASE x.at = "count"
    <2>1. q # <<>>
      BY <1>2 DEF Reading
    <2>2. PICK v \in Seq(Char) : v = Stream(q) /\ v # <<>>
      BY <2>1, StreamType, StreamStart
    <2>3. Tail(v) \in Seq(Char)
      BY <2>2, HeadTailProperties
    <2> QED BY <1>2, <2>2, <2>3 DEF BehindOf
  <1>3. CASE x.at \in {"mask", "data"}
    <2>1. /\ q # <<>> /\ Head(q) \in Seq(Char) /\ Tail(q) \in Seq(Record)
          /\ x.left + x.skip \in 0..Len(Head(q))
      BY <1>3, TakesIs
    <2>2. PICK e \in Seq(Char) : e = End(Head(q), x.left + x.skip)
      BY <2>1, EndIs
    <2>3. PICK v \in Seq(Char) : v = Stream(Tail(q))
      BY <2>1, StreamType
    <2>4. e \o v \in Seq(Char)
      BY CharConcat
    <2> QED BY <1>3, <2>2, <2>3, <2>4 DEF BehindOf
  <1> QED BY <1>1, <1>2, <1>3 DEF Reader

\* The reader has one more record to read.
LEMMA BehindAppend ==
  ASSUME NEW x \in Reader, NEW q \in Seq(Record), NEW r \in Record, Reading(x, q)
  PROVE  /\ BehindOf(x, Append(q, r)) = BehindOf(x, q) \o Block(r)
         /\ Reading(x, Append(q, r))
  <1>0. PICK p \in Seq(Record) : p = Append(q, r) /\ p # <<>>
    BY AppendProperties
  <1>1. PICK b \in Seq(Char), v \in Seq(Char) : b = Block(r) /\ v = Stream(q)
    BY BlockIs, StreamType
  <1>2. Stream(p) = v \o b
    BY <1>0, <1>1, StreamAppend
  <1>3. q # <<>> => Head(p) = Head(q) /\ Tail(p) = Append(Tail(q), r)
    BY <1>0, HeadTailAppend
  <1>4. Reading(x, p)
    BY <1>0, <1>3 DEF Reading
  <1>5. CASE x.at = "idle"
    BY <1>0, <1>1, <1>2, <1>4, <1>5 DEF BehindOf
  <1>6. CASE x.at = "count"
    <2>1. v # <<>>
      BY <1>1, <1>6, StreamStart DEF Reading
    <2>2. Tail(v \o b) = Tail(v) \o b
      BY <2>1, HeadConcat
    <2> QED BY <1>0, <1>1, <1>2, <1>4, <1>6, <2>2 DEF BehindOf
  <1>7. CASE x.at \in {"mask", "data"}
    <2>1. /\ q # <<>> /\ Head(q) \in Seq(Char) /\ Tail(q) \in Seq(Record)
          /\ x.left + x.skip \in 0..Len(Head(q))
      BY <1>7, TakesIs
    <2>2. PICK e \in Seq(Char) : e = End(Head(q), x.left + x.skip)
      BY <2>1, EndIs
    <2>3. PICK w \in Seq(Char) : w = Stream(Tail(q))
      BY <2>1, StreamType
    <2>4. Stream(Append(Tail(q), r)) = w \o b
      BY <1>1, <2>1, <2>3, StreamAppend
    <2>5. (e \o w) \o b = e \o (w \o b)
      <3>1. Associate(e, w, b)
        BY CharAssociative
      <3> QED BY <3>1 DEF Associate
    <2>6. BehindOf(x, p) = e \o (w \o b)
      BY <1>3, <1>7, <2>1, <2>2, <2>4 DEF BehindOf
    <2>7. BehindOf(x, q) = e \o w
      BY <1>7, <2>2, <2>3 DEF BehindOf
    <2> QED BY <1>0, <1>1, <1>4, <2>5, <2>6, <2>7
  <1> QED BY <1>5, <1>6, <1>7 DEF Reader

-----------------------------------------------------------------------------
(* The steps of the writer.                                                *)

\* The types of what the steps work on.
LEMMA AgreeTypes ==
  ASSUME TypeInv, NEW at, NEW todo, NEW q, Agree(at, todo, q)
  PROVE  /\ pipe \in Seq(Char) /\ reader \in Reader
         /\ todo \in Record \cup {<<>>} /\ q \in Seq(Record)
         /\ AheadOf(at, todo) \in Seq(Char)
         /\ BehindOf(reader, q) \in Seq(Char)
         /\ pipe \o AheadOf(at, todo) = BehindOf(reader, q)
         /\ Writing(at, todo, q) /\ Reading(reader, q)
  <1>1. pipe \in Seq(Char) /\ reader \in Reader
    BY DEF TypeInv, ReaderOK
  <1>2. /\ Writing(at, todo, q) /\ Reading(reader, q)
        /\ pipe \o AheadOf(at, todo) = BehindOf(reader, q)
    BY DEF Agree
  <1>3. todo \in Record \cup {<<>>} /\ q \in Seq(Record) /\ (at = "count" => todo # <<>>)
    BY <1>2 DEF Writing
  <1>4. AheadOf(at, todo) \in Seq(Char)
    BY <1>3, AheadType
  <1>5. BehindOf(reader, q) \in Seq(Char)
    BY <1>1, <1>2, <1>3, BehindType
  <1> QED BY <1>1, <1>2, <1>3, <1>4, <1>5

LEMMA AppendChar ==
  ASSUME NEW s \in Seq(Char), NEW c \in Char, NEW t \in Seq(Char)
  PROVE  Append(s, c) \o t = s \o (<<c>> \o t)
  <1>1. PICK u \in Seq(Char) : u = <<c>>
    BY OneOf
  <1>2. Append(s, c) = s \o u
    BY <1>1, AppendIsConcat
  <1>3. (s \o u) \o t = s \o (u \o t)
    <2>1. Associate(s, u, t)
      BY CharAssociative
    <2> QED BY <2>1 DEF Associate
  <1> QED BY <1>1, <1>2, <1>3

LEMMA WriteMagicStep ==
  ASSUME TypeInv, WriteMagic, NEW at, NEW todo, NEW q, Agree(at, todo, q)
  PROVE  \E x, y, z : Agree(x, y, z)'
  <1>1. PICK r \in Record : writer' = [at |-> "count", todo |-> r] /\ sent' = Append(sent, r)
    BY DEF WriteMagic
  <1>2. /\ writer.at = "idle" /\ pipe' = Append(pipe, IPC_MAGIC) /\ reader' = reader
        /\ at = "idle" /\ sent = q
    BY DEF WriteMagic, Agree
  <1>3. /\ pipe \in Seq(Char) /\ reader \in Reader /\ q \in Seq(Record)
        /\ Writing(at, todo, q) /\ Reading(reader, q)
        /\ pipe \o AheadOf(at, todo) = BehindOf(reader, q)
    BY AgreeTypes
  <1>4. PICK p \in Seq(Record) : p = Append(q, r) /\ p # <<>> /\ p[Len(p)] = r
    <2>1. PICK s \in Seq(Record) : s = q /\ Len(s) \in Nat
      BY <1>3, LenProperties
    <2>2. PICK p \in Seq(Record) : p = Append(s, r) /\ p # <<>>
                                  /\ Len(p) = Len(s) + 1 /\ p[Len(s) + 1] = r
      BY AppendProperties
    <2> QED BY <2>1, <2>2
  <1>5. pipe = BehindOf(reader, q)
    <2>1. AheadOf(at, todo) = <<>>
      BY <1>2, <1>3 DEF AheadOf, Writing
    <2> QED BY <1>3, <2>1, ConcatEmptySeq
  <1>6. BehindOf(reader, p) = pipe \o Block(r) /\ Reading(reader, p)
    BY <1>3, <1>4, <1>5, BehindAppend
  <1>7. PICK lr \in Seq(Char) : lr = <<Len(r)>> \o r /\ Block(r) = <<IPC_MAGIC>> \o lr
    BY BlockIs
  <1>8. Append(pipe, IPC_MAGIC) \o lr = pipe \o (<<IPC_MAGIC>> \o lr)
    BY <1>3, MagicIs, AppendChar
  <1>9. pipe' \o AheadOf("count", r) = BehindOf(reader', p)
    BY <1>2, <1>6, <1>7, <1>8 DEF AheadOf
  <1>10. Writing("count", r, p)
    BY <1>4, RecordIs DEF Writing
  <1>11. Agree("count", r, p)'
    BY <1>1, <1>2, <1>4, <1>6, <1>9, <1>10 DEF Agree
  <1> QED BY <1>11

LEMMA WriteCountStep ==
  ASSUME TypeInv, WriteCount, NEW at, NEW todo, NEW q, Agree(at, todo, q)
  PROVE  \E x, y, z : Agree(x, y, z)'
  <1>1. /\ writer.at = "count" /\ pipe' = Append(pipe, Len(writer.todo)) /\ reader' = reader
        /\ writer' = [writer EXCEPT !.at = "data"] /\ sent' = sent
        /\ at = "count" /\ todo = writer.todo /\ sent = q
    BY DEF WriteCount, Agree
  <1>2. /\ pipe \in Seq(Char) /\ q \in Seq(Record)
        /\ Writing(at, todo, q) /\ Reading(reader, q)
        /\ pipe \o AheadOf(at, todo) = BehindOf(reader, q)
    BY AgreeTypes
  <1>3. todo \in Record /\ Len(todo) \in Char /\ todo \in Seq(Char)
    BY <1>1, <1>2, RecordIs DEF Writing
  <1>4. pipe' \o AheadOf("data", todo) = BehindOf(reader', q)
    BY <1>1, <1>2, <1>3, AppendChar DEF AheadOf
  <1>5. Writing("data", todo, q)
    BY <1>1, <1>2 DEF Writing
  <1>6. writer'.at = "data" /\ writer'.todo = todo
    BY <1>1 DEF TypeInv, WriterOK
  <1>7. Agree("data", todo, q)'
    BY <1>1, <1>2, <1>4, <1>5, <1>6 DEF Agree
  <1> QED BY <1>7

LEMMA WriteDataStep ==
  ASSUME TypeInv, WriteData, NEW at, NEW todo, NEW q, Agree(at, todo, q)
  PROVE  \E x, y, z : Agree(x, y, z)'
  <1>1. /\ writer.at = "data" /\ reader' = reader /\ sent' = sent /\ Room > 0
        /\ at = "data" /\ todo = writer.todo /\ sent = q
    BY DEF WriteData, Agree
  <1>2. /\ pipe \in Seq(Char) /\ q \in Seq(Record)
        /\ Writing(at, todo, q) /\ Reading(reader, q)
        /\ pipe \o AheadOf(at, todo) = BehindOf(reader, q)
    BY AgreeTypes
  <1>3. todo \in Record /\ Len(todo) \in Nat \ {0} /\ todo \in Seq(Char)
        /\ q # <<>> /\ Len(todo) <= Len(q[Len(q)])
    BY <1>1, <1>2, RecordIs, ChannelAssumption DEF Writing
  <1>4. PICK n \in 0..Len(todo) : n = Least(Room, Len(todo))
    <2>1. Room \in Nat
      <3>1. Len(pipe) \in Nat /\ PipeSize \in Nat
        BY <1>2, LenProperties, ChannelAssumption
      <3> QED BY <1>1, <3>1 DEF Room
    <2> QED BY <1>3, <2>1 DEF Least
  <1>5. PICK start \in Seq(Char) : start = SubSeq(todo, 1, n)
    BY <1>3, Parts
  <1>6. PICK rest \in Seq(Char) :
               rest = SubSeq(todo, n + 1, Len(todo)) /\ Len(rest) = Len(todo) - n
    BY <1>3, Parts
  <1>7. rest \in Record \cup {<<>>}
    <2>1. n + 1 \in Nat \ {0} /\ Len(todo) \in Int /\ Len(todo) <= Len(todo)
      BY <1>3
    <2> QED BY <1>3, <1>6, <2>1, PartialRecord
  <1>8. start \o rest = todo
    <2>1. SubSeq(todo, 1, n) \o SubSeq(todo, n + 1, Len(todo)) = SubSeq(todo, 1, Len(todo))
      <3>1. 1 \in 1..Len(todo) + 1 /\ n \in (1 - 1)..Len(todo) /\ Len(todo) \in n..Len(todo)
        BY <1>3
      <3> QED BY <1>3, <3>1, ConcatAdjacentSubSeq
    <2>2. SubSeq(todo, 1, Len(todo)) = todo
      BY <1>3, SubSeqFull
    <2> QED BY <1>5, <1>6, <2>1, <2>2
  <1> DEFINE next == IF rest = <<>> THEN "idle" ELSE "data"
  <1>9. pipe' = pipe \o start /\ writer' = [at |-> next, todo |-> rest]
    BY <1>1, <1>4, <1>5, <1>6 DEF WriteData
  <1>10. pipe' \o AheadOf(next, rest) = BehindOf(reader', q)
    <2>1. AheadOf(next, rest) = rest /\ AheadOf(at, todo) = todo
      BY <1>1 DEF AheadOf
    <2>2. (pipe \o start) \o rest = pipe \o (start \o rest)
      <3>1. Associate(pipe, start, rest)
        BY <1>2, CharAssociative
      <3> QED BY <3>1 DEF Associate
    <2> QED BY <1>1, <1>2, <1>8, <1>9, <2>1, <2>2
  <1>11. Writing(next, rest, q)
    <2>1. Len(rest) <= Len(q[Len(q)])
      <3>1. q[Len(q)] \in Record
        BY <1>2, <1>3, StreamLong
      <3>2. Len(q[Len(q)]) \in Nat
        BY <3>1, RecordIs
      <3> QED BY <1>3, <1>4, <1>6, <3>2
    <2> QED BY <1>2, <1>3, <1>7, <2>1 DEF Writing
  <1>12. Agree(next, rest, q)'
    BY <1>1, <1>2, <1>9, <1>10, <1>11 DEF Agree
  <1> QED BY <1>12

LEMMA WriterDiesStep ==
  ASSUME TypeInv, WriterDies, NEW at, NEW todo, NEW q, Agree(at, todo, q)
  PROVE  Agree(at, todo, q)'
  <1>1. at = writer.at /\ todo = writer.todo /\ sent = q /\ writer'.at = "dead"
        /\ pipe' = pipe /\ reader' = reader
    BY DEF WriterDies, Agree
  <1>2. sent' = CutTo(at, todo, q)
    BY <1>1 DEF WriterDies, CutTo
  <1> QED BY <1>1, <1>2 DEF Agree

-----------------------------------------------------------------------------
(* The steps of the reader.                                                *)

\* A step of the reader that takes nothing away from the records that were sent.
LEMMA AgreeReads ==
  ASSUME NEW at, NEW todo, NEW q, Agree(at, todo, q),
         writer' = writer, sent' = sent, Reading(reader', q),
         pipe' \o AheadOf(at, todo) = BehindOf(reader', q)
  PROVE  Agree(at, todo, q)'
  BY DEF Agree

LEMMA ReadMagicStep ==
  ASSUME TypeInv, ReadMagic, NEW at, NEW todo, NEW q, Agree(at, todo, q)
  PROVE  Agree(at, todo, q)' /\ Head(pipe) = IPC_MAGIC
  <1>1. /\ reader.at = "idle" /\ pipe # <<>> /\ pipe' = Tail(pipe) /\ writer' = writer
    BY DEF ReadMagic
  <1>2. PICK a \in Seq(Char) : a = AheadOf(at, todo)
    BY AgreeTypes
  <1>3. /\ pipe \in Seq(Char) /\ q \in Seq(Record) /\ pipe \o a = Stream(q)
    BY <1>1, <1>2, AgreeTypes DEF BehindOf
  <1>4. /\ Head(pipe \o a) = Head(pipe) /\ Tail(pipe \o a) = Tail(pipe) \o a
        /\ pipe \o a # <<>>
    BY <1>1, <1>3, HeadConcat
  <1>5. q # <<>>
    BY <1>3, <1>4, StreamEmpty
  <1>6. Head(Stream(q)) = IPC_MAGIC
    BY <1>3, <1>5, StreamStart
  <1>7. Head(pipe) = IPC_MAGIC
    BY <1>3, <1>4, <1>6
  <1>8. PICK n \in Limits : reader' = [Waiting EXCEPT !.at = "count", !.limit = n]
    BY <1>7 DEF ReadMagic
  <1>9. reader'.at = "count" /\ sent' = sent
    BY <1>7, <1>8 DEF ReadMagic, Waiting
  <1>10. Reading(reader', q)
    BY <1>5, <1>9 DEF Reading
  <1>11. pipe' \o a = BehindOf(reader', q)
    BY <1>1, <1>3, <1>4, <1>9 DEF BehindOf
  <1> QED BY <1>1, <1>2, <1>7, <1>9, <1>10, <1>11, AgreeReads

LEMMA ReadCountStep ==
  ASSUME TypeInv, ReadCount, NEW at, NEW todo, NEW q, Agree(at, todo, q)
  PROVE  Agree(at, todo, q)'
  <1>1. /\ reader.at = "count" /\ pipe # <<>> /\ pipe' = Tail(pipe) /\ writer' = writer
        /\ sent' = sent
    BY DEF ReadCount
  <1>2. PICK a \in Seq(Char) : a = AheadOf(at, todo)
    BY AgreeTypes
  <1>3. /\ pipe \in Seq(Char) /\ q \in Seq(Record) /\ pipe \o a = Tail(Stream(q))
        /\ q # <<>> /\ reader \in Reader
    BY <1>1, <1>2, AgreeTypes DEF BehindOf, Reading
  <1>4. /\ Head(pipe \o a) = Head(pipe) /\ Tail(pipe \o a) = Tail(pipe) \o a
    BY <1>1, <1>3, HeadConcat
  <1>5. PICK r \in Record : r = Head(q)
    BY <1>3, HeadTailProperties
  <1>6. /\ Head(Tail(Stream(q))) = Len(r) /\ Tail(Tail(Stream(q))) = r \o Stream(Tail(q))
    BY <1>3, <1>5, StreamStart
  <1>7. Head(pipe) = Len(r) /\ Tail(pipe) \o a = r \o Stream(Tail(q))
    BY <1>3, <1>4, <1>6
  <1>8. reader.limit \in Nat /\ Len(r) \in Nat /\ r \in Seq(Char)
    <2>1. Limits \cup {0} \subseteq Nat /\ reader.limit \in Limits \cup {0}
      BY <1>3, ChannelAssumption DEF Reader
    <2> QED BY <2>1, RecordIs
  <1>9. PICK n \in Nat, m \in Nat : n = Least(Len(r), reader.limit) /\ m = Len(r) - n
    <2>1. PICK n \in Nat : n = Least(Len(r), reader.limit) /\ n <= Len(r)
      BY <1>8 DEF Least
    <2>2. Len(r) - n \in Nat
      BY <1>8, <2>1
    <2> QED BY <2>1, <2>2
  <1>10. reader' = [reader EXCEPT !.at = "mask", !.left = n, !.skip = m]
    BY <1>7, <1>9 DEF ReadCount
  <1>11. /\ reader'.at = "mask" /\ reader'.left = n /\ reader'.skip = m
         /\ reader'.limit = reader.limit /\ reader'.buf = reader.buf
    BY <1>3, <1>10 DEF Reader
  <1>12. reader.buf = <<>>
    BY <1>1 DEF TypeInv, ReaderOK
  <1>13. Takes(reader', r)
    <2>1. SubSeq(r, 1, 0) = <<>>
      <3>1. PICK z \in Seq(Char) : z = SubSeq(r, 1, 0) /\ Len(z) = 0
        <4>1. 0 \in 0..Len(r)
          BY <1>8
        <4>2. SubSeq(r, 1, 0) \in Seq(Char) /\ Len(SubSeq(r, 1, 0)) = 0
          BY <1>8, <4>1, Parts
        <4> QED BY <4>2, Zenon
      <3> QED BY <3>1, EmptySeq
    <2>2. Len(<<>>) = 0
      OBVIOUS
    <2> QED BY <1>8, <1>9, <1>11, <1>12, <2>1, <2>2 DEF Takes
  <1>14. Reading(reader', q)
    BY <1>3, <1>5, <1>13 DEF Reading
  <1>15. pipe' \o a = BehindOf(reader', q)
    <2>1. n + m = Len(r)
      BY <1>8, <1>9
    <2>2. End(r, Len(r)) = r
      BY <1>8, EndAll
    <2> QED BY <1>1, <1>5, <1>7, <1>11, <2>1, <2>2 DEF BehindOf
  <1> QED BY <1>1, <1>2, <1>14, <1>15, AgreeReads

LEMMA MaskStep ==
  ASSUME TypeInv, Mask, NEW at, NEW todo, NEW q, Agree(at, todo, q)
  PROVE  Agree(at, todo, q)'
  <1>1. /\ reader.at = "mask" /\ reader' = [reader EXCEPT !.at = "data"]
        /\ pipe' = pipe /\ writer' = writer /\ sent' = sent
    BY DEF Mask
  <1>2. reader \in Reader /\ Reading(reader, q) /\ pipe \o AheadOf(at, todo) = BehindOf(reader, q)
    BY AgreeTypes
  <1>3. /\ reader'.at = "data" /\ reader'.left = reader.left /\ reader'.skip = reader.skip
        /\ reader'.limit = reader.limit /\ reader'.buf = reader.buf
    BY <1>1, <1>2 DEF Reader
  <1>4. Reading(reader', q)
    BY <1>1, <1>2, <1>3 DEF Reading, Takes
  <1>5. pipe' \o AheadOf(at, todo) = BehindOf(reader', q)
    BY <1>1, <1>2, <1>3 DEF BehindOf
  <1> QED BY <1>1, <1>4, <1>5, AgreeReads

\* The pipe and what follows, when the reader is in the middle of a record: a is what
\* the writer has still to write, r the record, of which k chars are to be read, and v
\* what comes after it.
Middle(at, todo, q, a, r, v, k) ==
    /\ a \in Seq(Char) /\ v \in Seq(Char) /\ r \in Record /\ r \in Seq(Char)
    /\ Len(r) \in Nat /\ k \in Nat /\ k \in 0..Len(r)
    /\ a = AheadOf(at, todo) /\ r = Head(q) /\ v = Stream(Tail(q))
    /\ k = reader.left + reader.skip
    /\ Takes(reader, r)
    /\ pipe \o a = End(r, k) \o v

LEMMA InMiddle ==
  ASSUME TypeInv, NEW at, NEW todo, NEW q, Agree(at, todo, q), reader.at \in {"mask", "data"}
  PROVE  /\ pipe \in Seq(Char) /\ reader \in Reader /\ q \in Seq(Record) /\ q # <<>>
         /\ Tail(q) \in Seq(Record)
         /\ reader.limit \in Nat /\ reader.left \in Nat /\ reader.skip \in Nat
         /\ \E a \in Seq(Char), r \in Seq(Char), v \in Seq(Char), k \in Nat :
               Middle(at, todo, q, a, r, v, k)
  <1> DEFINE a == AheadOf(at, todo)
             r == Head(q)
             v == Stream(Tail(q))
             k == reader.left + reader.skip
  <1>1. /\ pipe \in Seq(Char) /\ reader \in Reader /\ q \in Seq(Record) /\ a \in Seq(Char)
        /\ Reading(reader, q) /\ pipe \o a = BehindOf(reader, q)
    BY AgreeTypes
  <1>2. /\ q # <<>> /\ r \in Record /\ r \in Seq(Char)
        /\ Takes(reader, r) /\ k \in 0..Len(r) /\ Tail(q) \in Seq(Record)
    BY <1>1, TakesIs
  <1>3. v \in Seq(Char)
    BY <1>2, StreamType
  <1>4. BehindOf(reader, q) = End(r, k) \o v
    BY DEF BehindOf
  <1>5. reader.limit \in Nat /\ reader.left \in Nat /\ reader.skip \in Nat /\ k \in Nat
    <2>1. Limits \cup {0} \subseteq Nat /\ reader.limit \in Limits \cup {0}
      BY <1>1, ChannelAssumption DEF Reader
    <2> QED BY <1>1, <2>1 DEF Reader
  <1>6. Len(r) \in Nat
    BY <1>2, RecordIs
  <1>7. /\ a = AheadOf(at, todo) /\ r = Head(q) /\ v = Stream(Tail(q))
        /\ k = reader.left + reader.skip
    OBVIOUS
  <1> HIDE DEF a, r, v, k
  <1>8. Middle(at, todo, q, a, r, v, k)
    BY <1>1, <1>2, <1>3, <1>4, <1>5, <1>6, <1>7 DEF Middle
  <1>9. /\ a \in Seq(Char) /\ r \in Seq(Char) /\ v \in Seq(Char) /\ k \in Nat
        /\ Middle(at, todo, q, a, r, v, k)
    BY <1>1, <1>2, <1>3, <1>5, <1>8
  <1>10. \E a1 \in Seq(Char), r1 \in Seq(Char), v1 \in Seq(Char), k1 \in Nat :
            Middle(at, todo, q, a1, r1, v1, k1)
    BY <1>9, Zenon
  <1> QED BY <1>1, <1>2, <1>5, <1>10

\* The chars p and then a are the last k chars of the record r and then v.
Follows(p, a, r, k, v) == p \o a = End(r, k) \o v

\* The reader takes the first n chars of the pipe.
LEMMA EndTaken ==
  ASSUME NEW p \in Seq(Char), NEW a \in Seq(Char), NEW r \in Seq(Char), NEW v \in Seq(Char),
         NEW k \in 0..Len(r), Follows(p, a, r, k, v),
         NEW n \in 0..k, n <= Len(p)
  PROVE  /\ Follows(SubSeq(p, n + 1, Len(p)), a, r, k - n, v)
         /\ \A i \in 1..n : p[i] = r[(Len(r) - k) + i]
  <1>1. PICK e \in Seq(Char) : /\ e = End(r, k) /\ Len(e) = k
                               /\ \A i \in 1..k : e[i] = r[(Len(r) - k) + i]
    BY EndIs
  <1>2. n \in 0..Len(p) /\ n \in 0..Len(e) /\ Len(p) \in Nat /\ Len(e) \in Nat
        /\ Len(a) \in Nat /\ Len(v) \in Nat
    BY <1>1, LenProperties
  <1>3. SubSeq(p \o a, n + 1, Len(p \o a)) = SubSeq(p, n + 1, Len(p)) \o a
    BY <1>2, DropConcat
  <1>4. SubSeq(e \o v, n + 1, Len(e \o v)) = SubSeq(e, n + 1, Len(e)) \o v
    BY <1>2, DropConcat
  <1>5. SubSeq(e, n + 1, Len(e)) = End(r, k - n)
    BY <1>1, EndDrop
  <1>6. p \o a = e \o v
    BY <1>1 DEF Follows
  <1>7. ASSUME NEW i \in 1..n
        PROVE  p[i] = r[(Len(r) - k) + i]
    <2>1. i \in 1..k /\ i \in 1..Len(p) + Len(a) /\ i <= Len(p)
          /\ i \in 1..Len(e) + Len(v) /\ i <= Len(e)
      BY <1>1, <1>2
    <2>2. (p \o a)[i] = p[i]
      BY <2>1, CharConcat
    <2>3. (e \o v)[i] = e[i]
      BY <2>1, CharConcat
    <2>4. e[i] = r[(Len(r) - k) + i]
      BY <1>1, <2>1
    <2> QED BY <1>6, <2>2, <2>3, <2>4
  <1>8. Follows(SubSeq(p, n + 1, Len(p)), a, r, k - n, v)
    BY <1>3, <1>4, <1>5, <1>6 DEF Follows
  <1> QED BY <1>7, <1>8

\* The buffer that is the start of the record still is with the chars that follow.
LEMMA StartGrows ==
  ASSUME NEW r \in Seq(Char), NEW b \in Seq(Char), b = SubSeq(r, 1, Len(b)),
         NEW s \in Seq(Char), Len(b) + Len(s) <= Len(r),
         \A i \in 1..Len(s) : s[i] = r[Len(b) + i]
  PROVE  b \o s = SubSeq(r, 1, Len(b \o s))
  <1>1. PICK t \in Seq(Char) : t = b \o s /\ Len(t) = Len(b) + Len(s)
    BY CharConcat
  <1>2. Len(b) \in Nat /\ Len(s) \in Nat /\ Len(r) \in Nat
    BY LenProperties
  <1>3. PICK n \in 0..Len(r) : n = Len(t)
    BY <1>1, <1>2
  <1>4. PICK u \in Seq(Char) : u = SubSeq(r, 1, n) /\ Len(u) = n
    <2>1. SubSeq(r, 1, n) \in Seq(Char) /\ Len(SubSeq(r, 1, n)) = n
      BY Parts
    <2> QED BY <2>1
  <1>5. \A i \in 1..n - 1 + 1 : SubSeq(r, 1, n)[i] = r[1 + i - 1]
    <2>1. 1 \in Nat \ {0} /\ n \in Int /\ n <= Len(r)
      BY <1>2
    <2> QED BY <2>1, PartOf
  <1>6. \A i \in 1..Len(b) - 1 + 1 : SubSeq(r, 1, Len(b))[i] = r[1 + i - 1]
    <2>1. 1 \in Nat \ {0} /\ Len(b) \in Int /\ Len(b) <= Len(r)
      BY <1>2
    <2> QED BY <2>1, PartOf
  <1>7. ASSUME NEW i \in 1..Len(t)
        PROVE  t[i] = u[i]
    <2>0. i \in Nat /\ i \in 1..n - 1 + 1 /\ 1 + i - 1 = i /\ i \in 1..Len(b) + Len(s)
      BY <1>1, <1>2, <1>3
    <2>1. u[i] = r[i]
      BY <1>4, <1>5, <2>0
    <2>2. t[i] = IF i <= Len(b) THEN b[i] ELSE s[i - Len(b)]
      BY <1>1, <2>0, CharConcat
    <2>3. CASE i <= Len(b)
      <3>1. i \in 1..Len(b) - 1 + 1
        BY <1>2, <2>0, <2>3
      <3> QED BY <1>6, <2>0, <2>1, <2>2, <2>3, <3>1
    <2>4. CASE ~(i <= Len(b))
      <3>1. i - Len(b) \in 1..Len(s) /\ Len(b) + (i - Len(b)) = i
        BY <1>2, <2>0, <2>4
      <3>2. s[i - Len(b)] = r[Len(b) + (i - Len(b))]
        BY <3>1
      <3> QED BY <2>1, <2>2, <2>4, <3>1, <3>2
    <2> QED BY <2>3, <2>4
  <1>8. t = u
    BY <1>3, <1>4, <1>7, SeqEqual
  <1> QED BY <1>1, <1>3, <1>4, <1>8

LEMMA ReadDataStep ==
  ASSUME TypeInv, ReadData, NEW at, NEW todo, NEW q, Agree(at, todo, q)
  PROVE  Agree(at, todo, q)'
  <1>1. /\ reader.at = "data" /\ reader.left > 0 /\ pipe # <<>> /\ writer' = writer
        /\ sent' = sent
    BY DEF ReadData
  <1>0. PICK a \in Seq(Char), r \in Seq(Char), v \in Seq(Char), k \in Nat :
               Middle(at, todo, q, a, r, v, k)
    <2>1. reader.at \in {"mask", "data"}
      BY <1>1
    <2> QED BY <2>1, InMiddle
  <1>2. /\ a \in Seq(Char) /\ v \in Seq(Char) /\ r \in Record /\ r \in Seq(Char)
        /\ Len(r) \in Nat /\ k \in Nat /\ k \in 0..Len(r)
        /\ a = AheadOf(at, todo) /\ r = Head(q) /\ v = Stream(Tail(q))
        /\ k = reader.left + reader.skip
        /\ Takes(reader, r)
        /\ pipe \o a = End(r, k) \o v
    BY <1>0 DEF Middle
  <1>3. /\ pipe \in Seq(Char) /\ reader \in Reader /\ q # <<>>
        /\ reader.limit \in Nat /\ reader.left \in Nat /\ reader.skip \in Nat
    <2>1. reader.at \in {"mask", "data"}
      BY <1>1
    <2> QED BY <2>1, InMiddle
  <1>4. PICK b \in Seq(Char) : b = reader.buf
    BY <1>3 DEF Reader
  <1>5. /\ reader.left \in Nat /\ reader.skip \in Nat /\ reader.limit \in Nat
        /\ Len(pipe) \in Nat /\ Len(b) \in Nat /\ Len(r) \in Nat
    BY <1>2, <1>3, LenProperties
  <1>6. PICK n \in Nat : n = Least(reader.left, Len(pipe)) /\ n <= reader.left /\ n <= Len(pipe)
    <2>1. /\ Least(reader.left, Len(pipe)) \in Nat
          /\ Least(reader.left, Len(pipe)) <= reader.left
          /\ Least(reader.left, Len(pipe)) <= Len(pipe)
      BY <1>5 DEF Least
    <2> QED BY <2>1, Zenon
  <1>7. PICK left \in Nat : left = reader.left - n
    BY <1>5, <1>6
  <1>8. PICK s \in Seq(Char) :
               /\ s = SubSeq(pipe, 1, n) /\ Len(s) = n
               /\ \A i \in 1..n : s[i] = pipe[i]
    <2>1. 1 \in Nat \ {0} /\ n \in Int /\ n <= Len(pipe)
      BY <1>6
    <2>2. PICK s \in Seq(Char) : s = SubSeq(pipe, 1, n) /\ Len(s) = n
      <3>1. n \in 0..Len(pipe)
        BY <1>5, <1>6
      <3>2. SubSeq(pipe, 1, n) \in Seq(Char) /\ Len(SubSeq(pipe, 1, n)) = n
        BY <1>3, <3>1, Parts
      <3> QED BY <3>2, Zenon
    <2>3. \A i \in 1..n - 1 + 1 : SubSeq(pipe, 1, n)[i] = pipe[1 + i - 1]
      BY <1>3, <2>1, PartOf
    <2>4. ASSUME NEW i \in 1..n
          PROVE  s[i] = pipe[i]
      <3>1. i \in 1..n - 1 + 1 /\ 1 + i - 1 = i
        BY <1>6
      <3> QED BY <2>2, <2>3, <3>1
    <2> QED BY <2>2, <2>4
  <1>9. PICK c \in Seq(Char) : c = b \o s /\ Len(c) = Len(b) + n
    <2>1. b \o s \in Seq(Char) /\ Len(b \o s) = Len(b) + Len(s)
      BY CharConcat
    <2> QED BY <1>8, <2>1
  <1>10. /\ reader' = [reader EXCEPT !.left = left, !.buf = c]
         /\ pipe' = SubSeq(pipe, n + 1, Len(pipe))
    BY <1>4, <1>6, <1>7, <1>8, <1>9 DEF ReadData
  <1>11. /\ reader'.at = "data" /\ reader'.left = left /\ reader'.skip = reader.skip
         /\ reader'.limit = reader.limit /\ reader'.buf = c
    BY <1>1, <1>3, <1>10 DEF Reader
  <1>12. Len(b) + k = Len(r) /\ Len(b) + reader.left = Least(Len(r), reader.limit)
         /\ b = SubSeq(r, 1, Len(b))
    <2>1. /\ Len(b) + reader.left = Least(Len(r), reader.limit)
          /\ b = SubSeq(r, 1, Len(b))
          /\ Len(b) + reader.left + reader.skip = Len(r)
      BY <1>1, <1>2, <1>4 DEF Takes
    <2>2. /\ Len(b) \in Nat /\ reader.left \in Nat /\ reader.skip \in Nat
          /\ k = reader.left + reader.skip
      BY <1>2, <1>3, <1>5
    <2>3. Len(b) + k = Len(r)
      BY <2>1, <2>2, SMTT(20)
    <2> QED BY <2>1, <2>3, Zenon
  <1>13. n \in 0..k /\ k - n = left + reader.skip /\ k \in Nat
    <2>1. k = reader.left + reader.skip /\ reader.left \in Nat /\ reader.skip \in Nat
      BY <1>2, <1>3
    <2> QED BY <1>6, <1>7, <2>1, SMTT(20)
  <1>14. /\ SubSeq(pipe, n + 1, Len(pipe)) \o a = End(r, k - n) \o v
         /\ \A i \in 1..n : pipe[i] = r[(Len(r) - k) + i]
    <2>1. PICK p \in Seq(Char) : p = pipe
      BY <1>3
    <2>2. k \in 0..Len(r) /\ Follows(p, a, r, k, v) /\ n \in 0..k /\ n <= Len(p)
      BY <1>2, <1>6, <1>13, <2>1 DEF Follows
    <2>3. /\ Follows(SubSeq(p, n + 1, Len(p)), a, r, k - n, v)
          /\ \A i \in 1..n : p[i] = r[(Len(r) - k) + i]
      BY <2>2, EndTaken, SMTT(20)
    <2>4. SubSeq(p, n + 1, Len(p)) \o a = End(r, k - n) \o v
      BY <2>3 DEF Follows
    <2> QED BY <2>1, <2>3, <2>4, Zenon
  <1>15. c = SubSeq(r, 1, Len(c))
    <2>1. \A i \in 1..Len(s) : s[i] = r[Len(b) + i]
      <3>1. Len(r) - k = Len(b)
        BY <1>5, <1>12, <1>13
      <3> QED BY <1>8, <1>14, <3>1
    <2>2. Len(b) + Len(s) <= Len(r)
      <3>1. Len(b) + n <= Len(b) + k
        BY <1>5, <1>13
      <3> QED BY <1>8, <1>12, <3>1
    <2>3. r \in Seq(Char) /\ b = SubSeq(r, 1, Len(b))
      BY <1>2, <1>12
    <2>4. b \o s = SubSeq(r, 1, Len(b \o s))
      BY <2>1, <2>2, <2>3, StartGrows
    <2> QED BY <1>9, <2>4
  <1>16. Takes(reader', r)
    <2>1. /\ Len(c) + left = Len(b) + reader.left
          /\ Len(c) + left + reader.skip = Len(r)
      <3>1. /\ (Len(b) + n) + left = Len(b) + reader.left
            /\ (Len(b) + n) + left + reader.skip = Len(b) + k
        <4>1. PICK x \in Nat, y \in Nat : x = reader.left /\ y = reader.skip
          BY <1>5
        <4>2. left = x - n /\ k = x + y
          BY <1>2, <1>7, <4>1
        <4>3. Len(b) \in Nat
          BY <1>5
        <4>4. (Len(b) + n) + left = Len(b) + x /\ (Len(b) + n) + left + y = Len(b) + k
          BY <4>2, <4>3
        <4> QED BY <4>1, <4>4
      <3> QED BY <1>9, <1>12, <3>1
    <2> QED BY <1>5, <1>11, <1>12, <1>15, <2>1 DEF Takes
  <1>17. Reading(reader', q)
    BY <1>2, <1>3, <1>16 DEF Reading
  <1>18. pipe' \o a = BehindOf(reader', q)
    BY <1>2, <1>10, <1>11, <1>13, <1>14 DEF BehindOf
  <1> QED BY <1>1, <1>2, <1>17, <1>18, AgreeReads

LEMMA DiscardStep ==
  ASSUME TypeInv, Discard, NEW at, NEW todo, NEW q, Agree(at, todo, q)
  PROVE  Agree(at, todo, q)'
  <1>1. /\ reader.at = "data" /\ reader.left = 0 /\ reader.skip > 0 /\ pipe # <<>>
        /\ writer' = writer /\ sent' = sent /\ pipe' = Tail(pipe)
    BY DEF Discard
  <1>0. PICK a \in Seq(Char), r \in Seq(Char), v \in Seq(Char), k \in Nat :
               Middle(at, todo, q, a, r, v, k)
    <2>1. reader.at \in {"mask", "data"}
      BY <1>1
    <2> QED BY <2>1, InMiddle
  <1>2. /\ a \in Seq(Char) /\ v \in Seq(Char) /\ r \in Record /\ r \in Seq(Char)
        /\ Len(r) \in Nat /\ k \in Nat /\ k \in 0..Len(r)
        /\ a = AheadOf(at, todo) /\ r = Head(q) /\ v = Stream(Tail(q))
        /\ k = reader.left + reader.skip
        /\ Takes(reader, r)
        /\ pipe \o a = End(r, k) \o v
    BY <1>0 DEF Middle
  <1>3. /\ pipe \in Seq(Char) /\ reader \in Reader /\ q # <<>>
        /\ reader.limit \in Nat /\ reader.left \in Nat /\ reader.skip \in Nat
    <2>1. reader.at \in {"mask", "data"}
      BY <1>1
    <2> QED BY <2>1, InMiddle
  <1>4. PICK b \in Seq(Char) : b = reader.buf
    BY <1>3 DEF Reader
  <1>5. /\ reader.left \in Nat /\ reader.skip \in Nat /\ k = reader.skip
        /\ Len(pipe) \in Nat \ {0} /\ Len(b) \in Nat /\ Len(r) \in Nat
    BY <1>1, <1>2, <1>3, LenProperties, EmptySeq
  <1>6. PICK skip \in Nat : skip = reader.skip - 1
    BY <1>1, <1>5
  <1>7. reader' = [reader EXCEPT !.skip = skip]
    BY <1>6 DEF Discard
  <1>8. /\ reader'.at = "data" /\ reader'.left = reader.left /\ reader'.skip = skip
        /\ reader'.limit = reader.limit /\ reader'.buf = reader.buf
    BY <1>1, <1>3, <1>7 DEF Reader
  <1>9. Takes(reader', r)
    <2>1. /\ Len(b) + reader.left + reader.skip <= Len(r)
          /\ Len(b) + reader.left = Least(Len(r), reader.limit)
          /\ b = SubSeq(r, 1, Len(b))
      BY <1>2, <1>4 DEF Takes
    <2>2. Len(b) + reader.left + skip <= Len(r) /\ ~(reader.left > 0)
      BY <1>1, <1>5, <1>6, <2>1, SMTT(20)
    <2> QED BY <1>4, <1>8, <2>1, <2>2 DEF Takes
  <1>10. Reading(reader', q)
    BY <1>2, <1>3, <1>9 DEF Reading
  <1>11. SubSeq(pipe, 1 + 1, Len(pipe)) \o a = End(r, k - 1) \o v
    <2>1. 1 \in 0..k /\ 1 <= Len(pipe)
      BY <1>1, <1>5
    <2>2. PICK p \in Seq(Char) : p = pipe
      BY <1>3
    <2>3. k \in 0..Len(r) /\ Follows(p, a, r, k, v) /\ 1 \in 0..k /\ 1 <= Len(p)
      BY <1>2, <2>1, <2>2 DEF Follows
    <2>4. Follows(SubSeq(p, 1 + 1, Len(p)), a, r, k - 1, v)
      BY <2>3, EndTaken
    <2> QED BY <2>2, <2>4 DEF Follows
  <1>12. Tail(pipe) = SubSeq(pipe, 1 + 1, Len(pipe))
    <2>1. 1 + 1 = 2
      OBVIOUS
    <2> QED BY <1>1, <1>3, <2>1, TailIsSubSeq
  <1>13. pipe' \o a = BehindOf(reader', q)
    <2>1. reader'.left + reader'.skip = k - 1
      BY <1>1, <1>5, <1>6, <1>8
    <2> QED BY <1>1, <1>2, <1>8, <1>11, <1>12, <2>1 DEF BehindOf
  <1> QED BY <1>1, <1>2, <1>10, <1>13, AgreeReads

-----------------------------------------------------------------------------
(* The end of a record and the end of the file.                            *)

\* What is left of the last record.
Kept(at, todo, r) == IF at = "count" THEN <<>> ELSE SubSeq(r, 1, Len(r) - Len(todo))

LEMMA CutIs ==
  ASSUME NEW q \in Seq(Record), q # <<>>, NEW at, NEW todo \in Record \cup {<<>>},
         at # "idle"
  PROVE  /\ CutTo(at, todo, q) \in Seq(Record \cup {<<>>})
         /\ Len(CutTo(at, todo, q)) = Len(q)
         /\ CutTo(at, todo, q)[Len(q)] = Kept(at, todo, q[Len(q)])
         /\ \A i \in 1..Len(q) - 1 : CutTo(at, todo, q)[i] = q[i]
         /\ Kept(at, todo, q[Len(q)]) \in Record \cup {<<>>}
  <1>1. PICK s \in Seq(Record \cup {<<>>}) : s = q
    <2>1. Seq(Record) \subseteq Seq(Record \cup {<<>>})
      BY SeqMonotonic
    <2> QED BY <2>1
  <1>2. Len(s) \in Nat \ {0}
    BY <1>1, EmptySeq
  <1>3. PICK r \in Record : r = q[Len(q)]
    BY StreamLong
  <1>4. PICK k \in Record \cup {<<>>} : k = Kept(at, todo, r)
    <2>1. Len(r) \in Nat /\ Len(todo) \in Nat
      BY RecordIs
    <2>2. 1 \in Nat \ {0} /\ Len(r) - Len(todo) \in Int /\ Len(r) - Len(todo) <= Len(r)
      BY <2>1
    <2>3. SubSeq(r, 1, Len(r) - Len(todo)) \in Record \cup {<<>>}
      BY <2>2, PartialRecord
    <2> QED BY <2>3 DEF Kept
  <1>5. CutTo(at, todo, q) = [s EXCEPT ![Len(s)] = k]
    BY <1>1, <1>3, <1>4 DEF CutTo, Kept
  <1>6. PICK c : c = [s EXCEPT ![Len(s)] = k]
    OBVIOUS
  <1>7. Len(s) \in 1..Len(s)
    BY <1>2
  <1>8. c \in Seq(Record \cup {<<>>}) /\ Len(c) = Len(s)
        /\ \A i \in 1..Len(s) : c[i] = IF i = Len(s) THEN k ELSE s[i]
    BY <1>6, <1>7, ExceptSeq
  <1>9. c[Len(s)] = k /\ \A i \in 1..Len(s) - 1 : c[i] = s[i]
    BY <1>2, <1>7, <1>8
  <1> QED BY <1>1, <1>3, <1>4, <1>5, <1>6, <1>8, <1>9

\* The first record is not the one that is cut, unless it is the last.
LEMMA CutTail ==
  ASSUME NEW q \in Seq(Record), q # <<>>, NEW at, NEW todo \in Record \cup {<<>>},
         at # "idle" => Tail(q) # <<>>
  PROVE  /\ CutTo(at, todo, q) # <<>> /\ Head(CutTo(at, todo, q)) = Head(q)
         /\ Tail(CutTo(at, todo, q)) = CutTo(at, todo, Tail(q))
  <1>1. CASE at = "idle"
    BY <1>1 DEF CutTo
  <1>2. CASE at # "idle"
    <2>1. PICK p \in Seq(Record) :
             /\ p = Tail(q) /\ p # <<>> /\ Len(p) = Len(q) - 1 /\ Head(q) = q[1]
             /\ \A i \in 1..Len(p) : p[i] = q[i + 1]
      <3>1. /\ Tail(q) \in Seq(Record) /\ Tail(q) # <<>> /\ Len(Tail(q)) = Len(q) - 1
            /\ Head(q) = q[1] /\ \A i \in 1..Len(Tail(q)) : Tail(q)[i] = q[i + 1]
        BY <1>2, HeadTailProperties
      <3> QED BY <3>1, Zenon
    <2>2. Len(p) \in Nat \ {0} /\ Len(q) = Len(p) + 1
      BY <2>1, EmptySeq
    <2>3. PICK c \in Seq(Record \cup {<<>>}) :
             /\ c = CutTo(at, todo, q) /\ Len(c) = Len(q)
             /\ c[Len(q)] = Kept(at, todo, q[Len(q)])
             /\ \A i \in 1..Len(q) - 1 : c[i] = q[i]
      <3>1. /\ CutTo(at, todo, q) \in Seq(Record \cup {<<>>})
            /\ Len(CutTo(at, todo, q)) = Len(q)
            /\ CutTo(at, todo, q)[Len(q)] = Kept(at, todo, q[Len(q)])
            /\ \A i \in 1..Len(q) - 1 : CutTo(at, todo, q)[i] = q[i]
        BY <1>2, CutIs
      <3> QED BY <3>1, Zenon
    <2>4. PICK d \in Seq(Record \cup {<<>>}) :
             /\ d = CutTo(at, todo, p) /\ Len(d) = Len(p)
             /\ d[Len(p)] = Kept(at, todo, p[Len(p)])
             /\ \A i \in 1..Len(p) - 1 : d[i] = p[i]
      <3>1. /\ CutTo(at, todo, p) \in Seq(Record \cup {<<>>})
            /\ Len(CutTo(at, todo, p)) = Len(p)
            /\ CutTo(at, todo, p)[Len(p)] = Kept(at, todo, p[Len(p)])
            /\ \A i \in 1..Len(p) - 1 : CutTo(at, todo, p)[i] = p[i]
        BY <1>2, <2>1, CutIs
      <3> QED BY <3>1, Zenon
    <2>5. c # <<>> /\ Head(c) = q[1]
      <3>1. Len(c) # 0 /\ 1 \in 1..Len(q) - 1
        BY <2>2, <2>3
      <3> QED BY <2>3, <3>1
    <2>6. PICK t \in Seq(Record \cup {<<>>}) :
             /\ t = Tail(c) /\ Len(t) = Len(c) - 1
             /\ \A i \in 1..Len(t) : t[i] = c[i + 1]
      <3>1. /\ Tail(c) \in Seq(Record \cup {<<>>}) /\ Len(Tail(c)) = Len(c) - 1
            /\ \A i \in 1..Len(Tail(c)) : Tail(c)[i] = c[i + 1]
        BY <2>5, HeadTailProperties
      <3> QED BY <3>1, Zenon
    <2>7. ASSUME NEW i \in 1..Len(t)
          PROVE  t[i] = d[i]
      <3>0. i \in 1..Len(p) /\ i + 1 \in 1..Len(q) /\ i \in Nat
        BY <2>2, <2>3, <2>6
      <3>1. CASE i = Len(p)
        <4>1. t[i] = c[Len(q)] /\ p[Len(p)] = q[Len(q)]
          BY <2>1, <2>2, <2>6, <3>0, <3>1
        <4> QED BY <2>3, <2>4, <3>1, <4>1
      <3>2. CASE i # Len(p)
        <4>1. i \in 1..Len(p) - 1 /\ i + 1 \in 1..Len(q) - 1
          BY <2>2, <3>0, <3>2
        <4>2. t[i] = c[i + 1] /\ p[i] = q[i + 1]
          BY <2>1, <2>6, <3>0
        <4>3. c[i + 1] = q[i + 1]
          BY <2>3, <4>1
        <4>4. d[i] = p[i]
          BY <2>4, <4>1
        <4> QED BY <4>2, <4>3, <4>4
      <3> QED BY <3>1, <3>2
    <2>8. t = d
      <3>1. Len(t) = Len(d)
        BY <2>2, <2>3, <2>4, <2>6
      <3> QED BY <2>7, <3>1, SeqEqual
    <2> QED BY <2>1, <2>3, <2>4, <2>5, <2>6, <2>8
  <1> QED BY <1>1, <1>2

\* A sequence with nothing behind its head.
LEMMA OnlyOne ==
  ASSUME NEW S, NEW s \in Seq(S), s # <<>>, Tail(s) = <<>>
  PROVE  Len(s) = 1 /\ s[1] = Head(s) /\ s = <<Head(s)>>
  <1>1. /\ Len(s) \in Nat \ {0} /\ Len(Tail(s)) = Len(s) - 1 /\ Head(s) = s[1]
        /\ Head(s) \in S
    BY HeadTailProperties, EmptySeq
  <1>2. Len(s) = 1
    BY <1>1
  <1>3. PICK t \in Seq(S) : t = <<Head(s)>> /\ Len(t) = 1 /\ t[1] = Head(s)
    BY <1>1, OneOf
  <1>4. \A i \in 1..Len(s) : s[i] = t[i]
    BY <1>1, <1>2, <1>3
  <1>5. s = t
    BY <1>2, <1>3, <1>4, SeqEqual
  <1> QED BY <1>1, <1>2, <1>3, <1>5

\* When nothing is left in the pipe and the writer is in the middle of a record, the
\* reader is not at the start of one.
LEMMA StreamNotAhead ==
  ASSUME NEW at, NEW todo, NEW q, Writing(at, todo, q)
  PROVE  /\ AheadOf(at, todo) = Stream(q) => q = <<>> /\ at = "idle"
         /\ \A p \in Seq(Record) :
               p # <<>> /\ q # <<>> /\ p[Len(p)] = q[Len(q)]
                  => Len(AheadOf(at, todo)) < Len(Stream(p))
  <1>1. /\ at \in {"idle", "count", "data"} /\ todo \in Record \cup {<<>>}
        /\ q \in Seq(Record)
        /\ (at = "idle" <=> todo = <<>>)
        /\ (at # "idle" => q # <<>> /\ Len(todo) <= Len(q[Len(q)]))
    BY DEF Writing
  <1>2. /\ Len(todo) \in Nat
        /\ Len(AheadOf(at, todo)) = IF at = "count" THEN 1 + Len(todo) ELSE Len(todo)
    BY <1>1, AheadType
  <1>3. ASSUME NEW p \in Seq(Record), p # <<>>, q # <<>>, p[Len(p)] = q[Len(q)]
        PROVE  Len(AheadOf(at, todo)) < Len(Stream(p))
    <2>1. /\ p[Len(p)] \in Record /\ Len(Stream(p)) >= Len(p[Len(p)]) + 2
      BY <1>3, StreamLong
    <2>2. PICK n \in Nat : n = Len(p[Len(p)])
      BY <2>1, RecordIs
    <2>3. PICK m \in Nat : m = Len(Stream(p))
      BY StreamType, LenProperties
    <2>4. Len(todo) <= n
      <3>1. CASE at = "idle"
        <4>1. Len(todo) = 0
          BY <1>1, <3>1
        <4> QED BY <2>2, <4>1
      <3>2. CASE at # "idle"
        BY <1>1, <1>3, <2>2, <3>2
      <3> QED BY <3>1, <3>2
    <2> QED BY <1>2, <2>1, <2>2, <2>3, <2>4
  <1>4. ASSUME AheadOf(at, todo) = Stream(q)
        PROVE  q = <<>> /\ at = "idle"
    <2>1. q = <<>>
      <3>1. SUFFICES ASSUME q # <<>> PROVE FALSE
        OBVIOUS
      <3>2. Len(AheadOf(at, todo)) < Len(Stream(q))
        BY <1>1, <1>3, <3>1
      <3>3. PICK m \in Nat : m = Len(Stream(q))
        BY <1>1, StreamType, LenProperties
      <3> QED BY <1>4, <3>2, <3>3
    <2> QED BY <1>1, <2>1
  <1> QED BY <1>3, <1>4

LEMMA TailLast ==
  ASSUME NEW S, NEW s \in Seq(S), s # <<>>, Tail(s) # <<>>
  PROVE  Tail(s)[Len(Tail(s))] = s[Len(s)]
  <1>1. PICK t \in Seq(S) : /\ t = Tail(s) /\ t # <<>> /\ Len(t) = Len(s) - 1
                            /\ \A i \in 1..Len(t) : t[i] = s[i + 1]
    <2>1. /\ Tail(s) \in Seq(S) /\ Tail(s) # <<>> /\ Len(Tail(s)) = Len(s) - 1
          /\ \A i \in 1..Len(Tail(s)) : Tail(s)[i] = s[i + 1]
      BY HeadTailProperties
    <2> QED BY <2>1, Zenon
  <1>2. Len(t) \in Nat \ {0} /\ Len(s) \in Nat
    BY <1>1, EmptySeq, LenProperties
  <1>3. Len(t) \in 1..Len(t) /\ Len(t) + 1 = Len(s)
    BY <1>1, <1>2
  <1>4. t[Len(t)] = s[Len(s)]
    BY <1>1, <1>3
  <1> QED BY <1>1, <1>4

\* What has been sent, by a writer that lives or not.
LEMMA SentIs ==
  ASSUME NEW at, NEW todo, NEW q, Agree(at, todo, q)
  PROVE  sent = IF writer.at = "dead" THEN CutTo(at, todo, q) ELSE q
  BY DEF Agree

\* At the end of a record the rest of the pipe is the records that follow it.
LEMMA RecordEnds ==
  ASSUME TypeInv, NEW at, NEW todo, NEW q, Agree(at, todo, q),
         reader.at = "data", reader.left = 0, reader.skip = 0
  PROVE  /\ q # <<>> /\ Tail(q) \in Seq(Record)
         /\ pipe \o AheadOf(at, todo) = Stream(Tail(q))
         /\ Writing(at, todo, Tail(q))
         /\ sent # <<>> /\ Head(sent) = Head(q)
         /\ Tail(sent) = IF writer.at = "dead" THEN CutTo(at, todo, Tail(q)) ELSE Tail(q)
  <1>0. PICK a \in Seq(Char), r \in Seq(Char), v \in Seq(Char), k \in Nat :
               Middle(at, todo, q, a, r, v, k)
    <2>1. reader.at \in {"mask", "data"}
      OBVIOUS
    <2> QED BY <2>1, InMiddle
  <1>1. /\ a = AheadOf(at, todo) /\ v = Stream(Tail(q)) /\ k = 0
        /\ pipe \o a = End(r, k) \o v
    BY <1>0 DEF Middle
  <1>2. /\ pipe \in Seq(Char) /\ q \in Seq(Record) /\ q # <<>> /\ Tail(q) \in Seq(Record)
    <2>1. reader.at \in {"mask", "data"}
      OBVIOUS
    <2> QED BY <2>1, InMiddle
  <1>3. pipe \o a = v
    <2>1. End(r, 0) = <<>>
      BY EndNone
    <2>2. <<>> \o v = v
      BY ConcatEmptySeq
    <2> QED BY <1>1, <2>1, <2>2
  <1>4. Writing(at, todo, q)
    BY AgreeTypes
  <1>5. /\ at \in {"idle", "count", "data"} /\ todo \in Record \cup {<<>>}
        /\ (at = "idle" <=> todo = <<>>)
        /\ (at # "idle" => q # <<>> /\ Len(todo) <= Len(q[Len(q)]))
        /\ (at = "count" => todo = q[Len(q)])
    BY <1>4 DEF Writing
  <1>6. at # "idle" => Tail(q) # <<>>
    <2>1. SUFFICES ASSUME at # "idle", Tail(q) = <<>> PROVE FALSE
      OBVIOUS
    <2>2. PICK p \in Seq(Char) : p = pipe
      BY <1>2
    <2>3. Len(p \o a) = 0
      <3>1. v = <<>> /\ Len(<<>>) = 0
        BY <1>1, <2>1, StreamEmpty
      <3>2. p \o a = v
        BY <1>3, <2>2
      <3> QED BY <3>1, <3>2
    <2>4. Len(p \o a) = Len(p) + Len(a) /\ Len(p) \in Nat /\ Len(a) \in Nat
      BY CharConcat
    <2>5. Len(a) = 0
      BY <2>3, <2>4
    <2>6. PICK t \in Nat \ {0} : t = Len(todo)
      <3>1. todo \in Record
        BY <1>5, <2>1
      <3>2. Len(todo) \in 1..MaxRecord /\ MaxRecord \in Nat
        BY <3>1, RecordIs, ChannelAssumption
      <3> QED BY <3>2
    <2>7. Len(a) = IF at = "count" THEN 1 + t ELSE t
      BY <1>1, <1>5, <2>6, AheadType
    <2>8. Len(a) = 1 + t \/ Len(a) = t
      BY <2>7
    <2> QED BY <2>5, <2>8
  <1>7. Writing(at, todo, Tail(q))
    <2>1. at # "idle" => Tail(q)[Len(Tail(q))] = q[Len(q)]
      BY <1>2, <1>6, TailLast
    <2> QED BY <1>2, <1>5, <1>6, <2>1 DEF Writing
  <1>8. /\ CutTo(at, todo, q) # <<>> /\ Head(CutTo(at, todo, q)) = Head(q)
        /\ Tail(CutTo(at, todo, q)) = CutTo(at, todo, Tail(q))
    BY <1>2, <1>5, <1>6, CutTail
  <1>9. sent = IF writer.at = "dead" THEN CutTo(at, todo, q) ELSE q
    BY SentIs
  <1> QED BY <1>1, <1>2, <1>3, <1>7, <1>8, <1>9

\* At the end of the file in the middle of a record, it is the last one, of which the
\* writer did not write what the reader misses.
LEMMA RecordCut ==
  ASSUME TypeInv, NEW at, NEW todo, NEW q, Agree(at, todo, q),
         reader.at = "data", AtEnd, ~(reader.left = 0 /\ reader.skip = 0)
  PROVE  /\ q # <<>> /\ Head(q) \in Record /\ Takes(reader, Head(q))
         /\ reader.left + reader.skip \in 1..Len(Head(q))
         /\ sent = <<SubSeq(Head(q), 1, Len(Head(q)) - (reader.left + reader.skip))>>
  <1>0. PICK a \in Seq(Char), r \in Seq(Char), v \in Seq(Char), k \in Nat :
               Middle(at, todo, q, a, r, v, k)
    <2>1. reader.at \in {"mask", "data"}
      OBVIOUS
    <2> QED BY <2>1, InMiddle
  <1>1. /\ a = AheadOf(at, todo) /\ v = Stream(Tail(q)) /\ k = reader.left + reader.skip
        /\ r = Head(q) /\ r \in Record /\ Takes(reader, r) /\ k \in 0..Len(r)
        /\ Len(r) \in Nat /\ pipe \o a = End(r, k) \o v
    BY <1>0 DEF Middle
  <1>2. /\ q \in Seq(Record) /\ q # <<>> /\ Tail(q) \in Seq(Record)
        /\ reader.left \in Nat /\ reader.skip \in Nat
    <2>1. reader.at \in {"mask", "data"}
      OBVIOUS
    <2> QED BY <2>1, InMiddle
  <1>3. k > 0
    BY <1>1, <1>2
  <1>4. PICK e \in Seq(Char) : e = End(r, k) /\ Len(e) = k
    <2>1. End(r, k) \in Seq(Char) /\ Len(End(r, k)) = k
      BY <1>1, EndIs
    <2> QED BY <2>1, Zenon
  <1>5. a = e \o v
    <2>1. <<>> \o a = a
      BY ConcatEmptySeq
    <2>2. pipe = <<>> /\ pipe \o a = End(r, k) \o v
      BY <1>1 DEF AtEnd
    <2> QED BY <1>4, <2>1, <2>2, Zenon
  <1>6. Len(a) = k + Len(v) /\ Len(v) \in Nat
    <2>1. Len(e \o v) = Len(e) + Len(v)
      BY CharConcat
    <2>2. Len(v) \in Nat
      BY LenProperties
    <2> QED BY <1>4, <1>5, <2>1, <2>2
  <1>7. Writing(at, todo, q)
    BY AgreeTypes
  <1>8. /\ at \in {"idle", "count", "data"} /\ todo \in Record \cup {<<>>}
        /\ (at = "idle" <=> todo = <<>>)
        /\ (at = "count" => todo = q[Len(q)])
    BY <1>7 DEF Writing
  <1>9. Len(todo) \in Nat /\ Len(a) = IF at = "count" THEN 1 + Len(todo) ELSE Len(todo)
    BY <1>1, <1>8, AheadType
  <1>10. Tail(q) = <<>>
    <2>1. SUFFICES ASSUME Tail(q) # <<>> PROVE FALSE
      OBVIOUS
    <2>2. Tail(q)[Len(Tail(q))] = q[Len(q)]
      BY <1>2, <2>1, TailLast
    <2>3. Len(a) < Len(v)
      BY <1>1, <1>2, <1>7, <2>1, <2>2, StreamNotAhead
    <2> QED BY <1>6, <2>3
  <1>11. Len(q) = 1 /\ q[1] = r /\ q = <<r>>
    BY <1>1, <1>2, <1>10, OnlyOne
  <1>12. Len(a) = k
    <2>1. v = <<>>
      BY <1>1, <1>10, StreamEmpty
    <2>2. Len(<<>>) = 0
      OBVIOUS
    <2> QED BY <1>6, <2>1, <2>2
  <1>13. at = "data" /\ Len(todo) = k
    <2>1. at # "idle"
      <3>1. SUFFICES ASSUME at = "idle" PROVE FALSE
        OBVIOUS
      <3>2. Len(todo) = 0
        BY <1>8, <3>1
      <3> QED BY <1>3, <1>9, <1>12, <3>1, <3>2
    <2>2. at # "count"
      <3>1. SUFFICES ASSUME at = "count" PROVE FALSE
        OBVIOUS
      <3>2. Len(todo) = Len(r)
        BY <1>8, <1>11, <3>1
      <3> QED BY <1>1, <1>9, <1>12, <3>1, <3>2
    <2> QED BY <1>8, <1>9, <1>12, <2>1, <2>2
  <1>14. sent = CutTo(at, todo, q)
    BY SentIs DEF AtEnd
  <1>15. sent = <<SubSeq(r, 1, Len(r) - k)>>
    <2>1. PICK c \in Seq(Record \cup {<<>>}), x \in Record \cup {<<>>} :
             /\ c = CutTo(at, todo, q) /\ Len(c) = 1 /\ c[1] = x
             /\ x = SubSeq(r, 1, Len(r) - k)
      <3>1. /\ CutTo(at, todo, q) \in Seq(Record \cup {<<>>})
            /\ Len(CutTo(at, todo, q)) = Len(q)
            /\ CutTo(at, todo, q)[Len(q)] = Kept(at, todo, q[Len(q)])
            /\ Kept(at, todo, q[Len(q)]) \in Record \cup {<<>>}
        BY <1>2, <1>8, <1>13, CutIs
      <3>2. Kept(at, todo, q[Len(q)]) = SubSeq(r, 1, Len(r) - k)
        BY <1>11, <1>13 DEF Kept
      <3> QED BY <1>11, <3>1, <3>2
    <2>2. PICK d \in Seq(Record \cup {<<>>}) : d = <<x>> /\ Len(d) = 1 /\ d[1] = x
      <3>1. <<x>> \in Seq(Record \cup {<<>>}) /\ Len(<<x>>) = 1 /\ <<x>>[1] = x
        BY OneOf
      <3> QED BY <3>1, Zenon
    <2>3. ASSUME NEW i \in 1..Len(c)
          PROVE  c[i] = d[i]
      <3>1. i = 1
        BY <2>1
      <3> QED BY <2>1, <2>2, <3>1
    <2>4. c = d
      BY <2>1, <2>2, <2>3, SeqEqual
    <2> QED BY <1>14, <2>1, <2>2, <2>4
  <1> QED BY <1>1, <1>2, <1>3, <1>15

\* At the end of the file behind a magic number there is nothing of the record.
LEMMA CountCut ==
  ASSUME TypeInv, NEW at, NEW todo, NEW q, Agree(at, todo, q), reader.at = "count", AtEnd
  PROVE  sent = << <<>> >>
  <1>1. /\ pipe = <<>> /\ q \in Seq(Record) /\ q # <<>> /\ Writing(at, todo, q)
        /\ pipe \o AheadOf(at, todo) = Tail(Stream(q))
    BY AgreeTypes DEF AtEnd, BehindOf, Reading
  <1>2. PICK a \in Seq(Char) : a = AheadOf(at, todo)
    BY AgreeTypes
  <1>3. a = Tail(Stream(q))
    <2>1. <<>> \o a = a
      BY ConcatEmptySeq
    <2> QED BY <1>1, <1>2, <2>1
  <1>4. PICK r \in Record, p \in Seq(Record) : r = Head(q) /\ p = Tail(q)
    BY <1>1, HeadTailProperties
  <1>5. PICK b \in Seq(Char), v \in Seq(Char), lr \in Nat :
               b = Block(r) /\ v = Stream(p) /\ lr = Len(r) /\ Len(b) = 2 + lr
    <2>1. Block(r) \in Seq(Char) /\ Len(Block(r)) = 2 + Len(r) /\ Len(r) \in Nat
          /\ Stream(p) \in Seq(Char)
      BY BlockIs, RecordIs, StreamType
    <2> QED BY <2>1, Zenon
  <1>6. PICK u \in Seq(Char) : u = Stream(q) /\ u = b \o v
    <2>1. Stream(q) \in Seq(Char) /\ Stream(q) = b \o v
      BY <1>1, <1>4, <1>5, StreamHead, StreamType
    <2> QED BY <2>1, Zenon
  <1>7. PICK lv \in Nat : lv = Len(v) /\ Len(u) = 2 + lr + lv
    <2>1. Len(b \o v) = Len(b) + Len(v) /\ Len(v) \in Nat
      BY CharConcat
    <2> QED BY <1>5, <1>6, <2>1
  <1>8. Len(a) = 1 + lr + lv
    <2>1. u # <<>>
      BY <1>5, <1>7
    <2>2. Len(Tail(u)) = Len(u) - 1
      BY <2>1, HeadTailProperties
    <2>3. (2 + lr + lv) - 1 = 1 + lr + lv
      OBVIOUS
    <2> QED BY <1>3, <1>6, <1>7, <2>2, <2>3
  <1>9. /\ at \in {"idle", "count", "data"} /\ todo \in Record \cup {<<>>}
        /\ (at = "idle" <=> todo = <<>>)
        /\ (at # "idle" => Len(todo) <= Len(q[Len(q)]))
    BY <1>1 DEF Writing
  <1>10. PICK lt \in Nat : lt = Len(todo) /\ Len(a) = IF at = "count" THEN 1 + lt ELSE lt
    <2>1. /\ Len(todo) \in Nat
          /\ Len(a) = IF at = "count" THEN 1 + Len(todo) ELSE Len(todo)
      BY <1>1, <1>2, AheadType DEF Writing
    <2> QED BY <2>1, Zenon
  <1>11. p = <<>>
    <2>1. SUFFICES ASSUME p # <<>> PROVE FALSE
      OBVIOUS
    <2>2. p[Len(p)] = q[Len(q)]
      BY <1>1, <1>4, <2>1, TailLast
    <2>3. Len(a) < Len(v)
      BY <1>1, <1>2, <1>5, <2>1, <2>2, StreamNotAhead
    <2> QED BY <1>5, <1>7, <1>8, <2>3
  <1>12. Len(q) = 1 /\ q[1] = r
    BY <1>1, <1>4, <1>11, OnlyOne
  <1>13. at = "count"
    <2>1. CASE at = "idle"
      <3>1. lt = 0 /\ Len(a) = lt
        BY <1>9, <1>10, <2>1
      <3> QED BY <1>8, <3>1
    <2>2. CASE at = "data"
      <3>1. lt <= lr /\ Len(a) = lt
        BY <1>5, <1>9, <1>10, <1>12, <2>2
      <3> QED BY <1>8, <3>1
    <2> QED BY <1>9, <2>1, <2>2
  <1>14. sent = CutTo(at, todo, q)
    BY SentIs DEF AtEnd
  <1>15. PICK c \in Seq(Record \cup {<<>>}) : c = CutTo(at, todo, q) /\ Len(c) = 1 /\ c[1] = <<>>
    <2>1. /\ CutTo(at, todo, q) \in Seq(Record \cup {<<>>})
          /\ Len(CutTo(at, todo, q)) = Len(q)
          /\ CutTo(at, todo, q)[Len(q)] = Kept(at, todo, q[Len(q)])
      BY <1>1, <1>9, <1>13, CutIs
    <2>2. Kept(at, todo, q[Len(q)]) = <<>>
      BY <1>13 DEF Kept
    <2> QED BY <1>12, <2>1, <2>2
  <1>16. PICK d \in Seq(Record \cup {<<>>}) : d = << <<>> >> /\ Len(d) = 1 /\ d[1] = <<>>
    <2>1. PICK x \in Record \cup {<<>>} : x = <<>>
      OBVIOUS
    <2>2. <<x>> \in Seq(Record \cup {<<>>}) /\ Len(<<x>>) = 1 /\ <<x>>[1] = x
      BY OneOf
    <2> QED BY <2>1, <2>2, Zenon
  <1>17. c = d
    <2>1. \A i \in 1..Len(c) : c[i] = d[i]
      BY <1>15, <1>16
    <2> QED BY <1>15, <1>16, <2>1, SeqEqual
  <1> QED BY <1>14, <1>15, <1>16, <1>17

\* At the end of the file between two records there is none left.
LEMMA AllRead ==
  ASSUME TypeInv, NEW at, NEW todo, NEW q, Agree(at, todo, q), reader.at = "idle", AtEnd
  PROVE  sent = <<>>
  <1>1. /\ pipe = <<>> /\ q \in Seq(Record) /\ Writing(at, todo, q)
        /\ pipe \o AheadOf(at, todo) = Stream(q)
    BY AgreeTypes DEF AtEnd, BehindOf
  <1>2. PICK a \in Seq(Char) : a = AheadOf(at, todo)
    BY AgreeTypes
  <1>3. a = Stream(q)
    <2>1. <<>> \o a = a
      BY ConcatEmptySeq
    <2> QED BY <1>1, <1>2, <2>1
  <1>4. q = <<>> /\ at = "idle"
    BY <1>1, <1>2, <1>3, StreamNotAhead
  <1>5. sent = CutTo(at, todo, q)
    BY SentIs DEF AtEnd
  <1> QED BY <1>4, <1>5 DEF CutTo

\* The reader waits at the end of the file.
LEMMA NothingLeft ==
  ASSUME AtEnd, pipe' = pipe, writer' = writer, reader' = Waiting, sent' = <<>>
  PROVE  Agree("idle", <<>>, <<>>)'
  <1>1. pipe' = <<>> /\ writer'.at = "dead" /\ reader'.at = "idle"
    BY DEF AtEnd, Waiting
  <1>2. Writing("idle", <<>>, <<>>)
    BY DEF Writing
  <1>3. Reading(reader', <<>>)
    BY <1>1 DEF Reading
  <1>4. pipe' \o AheadOf("idle", <<>>) = BehindOf(reader', <<>>)
    <2>1. <<>> \o <<>> = <<>>
      OBVIOUS
    <2> QED BY <1>1, <2>1, StreamEmpty DEF AheadOf, BehindOf
  <1>5. sent' = CutTo("idle", <<>>, <<>>)
    BY DEF CutTo
  <1> QED BY <1>1, <1>2, <1>3, <1>4, <1>5 DEF Agree

LEMMA ReadCountFailsStep ==
  ASSUME TypeInv, ReadCountFails, NEW at, NEW todo, NEW q, Agree(at, todo, q)
  PROVE  (\E x, y, z : Agree(x, y, z)') /\ sent = << <<>> >> /\ sent' = <<>>
  <1>1. /\ reader.at = "count" /\ AtEnd /\ pipe' = pipe /\ writer' = writer
        /\ reader' = Waiting /\ sent' = Rest
    BY DEF ReadCountFails, Fail
  <1>2. sent = << <<>> >>
    BY <1>1, CountCut
  <1>3. sent' = <<>>
    <2>1. << <<>> >> # <<>> /\ Tail(<< <<>> >>) = <<>>
      OBVIOUS
    <2> QED BY <1>1, <1>2, <2>1 DEF Rest
  <1>4. Agree("idle", <<>>, <<>>)'
    BY <1>1, <1>3, NothingLeft
  <1> QED BY <1>2, <1>3, <1>4

LEMMA ReadDoneStep ==
  ASSUME TypeInv, ReadDone, NEW at, NEW todo, NEW q, Agree(at, todo, q)
  PROVE  (\E x, y, z : Agree(x, y, z)') /\ sent # <<>> /\ sent' = Tail(sent)
  <1>1. /\ reader.at = "data" /\ pipe' = pipe /\ writer' = writer
        /\ (reader.left = 0 /\ reader.skip = 0) \/ AtEnd
        /\ reader' = Waiting /\ sent' = Rest
    BY DEF ReadDone, Finish
  <1>2. CASE reader.left = 0 /\ reader.skip = 0
    <2>1. /\ Tail(q) \in Seq(Record)
          /\ pipe \o AheadOf(at, todo) = Stream(Tail(q))
          /\ Writing(at, todo, Tail(q))
          /\ sent # <<>>
          /\ Tail(sent) = IF writer.at = "dead" THEN CutTo(at, todo, Tail(q)) ELSE Tail(q)
      BY <1>1, <1>2, RecordEnds
    <2>2. sent' = Tail(sent)
      BY <1>1, <2>1 DEF Rest
    <2>3. reader'.at = "idle"
      BY <1>1 DEF Waiting
    <2>4. Reading(reader', Tail(q))
      BY <2>3 DEF Reading
    <2>5. pipe' \o AheadOf(at, todo) = BehindOf(reader', Tail(q))
      BY <1>1, <2>1, <2>3 DEF BehindOf
    <2>6. writer.at # "dead" => at = writer.at /\ todo = writer.todo
      BY DEF Agree
    <2>7. PICK p : p = Tail(q)
      OBVIOUS
    <2>8. Agree(at, todo, p)'
      BY <1>1, <2>1, <2>2, <2>4, <2>5, <2>6, <2>7 DEF Agree
    <2> QED BY <2>1, <2>2, <2>8
  <1>3. CASE ~(reader.left = 0 /\ reader.skip = 0)
    <2>1. AtEnd
      BY <1>1, <1>3
    <2>2. PICK x : sent = <<x>>
      BY <1>1, <1>3, <2>1, RecordCut
    <2>3. sent # <<>> /\ Tail(sent) = <<>>
      BY <2>2
    <2>4. sent' = <<>>
      BY <1>1, <2>3 DEF Rest
    <2>5. Agree("idle", <<>>, <<>>)'
      BY <1>1, <2>1, <2>4, NothingLeft
    <2> QED BY <2>3, <2>4, <2>5
  <1> QED BY <1>2, <1>3

\* A step that changes nothing of what the channel agrees on.
LEMMA AgreeSame ==
  ASSUME NEW at, NEW todo, NEW q, Agree(at, todo, q),
         pipe' = pipe, writer' = writer, reader' = reader, sent' = sent
  PROVE  Agree(at, todo, q)'
  BY DEF Agree

LEMMA InterruptStep ==
  ASSUME TypeInv, Interrupt, ~hist'.torn, NEW at, NEW todo, NEW q, Agree(at, todo, q)
  PROVE  Agree(at, todo, q)'
  <1>1. hist' = [hist EXCEPT !.torn = @ \/ reader.at # "data", !.interrupts = @ + 1]
    BY DEF Interrupt
  <1>2. hist \in [torn : BOOLEAN, records : Nat, reads : Nat, interrupts : Nat]
    BY DEF TypeInv
  <1>3. reader.at = "data"
    <2>1. SUFFICES ASSUME reader.at # "data" PROVE FALSE
      OBVIOUS
    <2>2. hist' = [hist EXCEPT !.torn = TRUE, !.interrupts = @ + 1]
      BY <1>1, <2>1
    <2>3. hist'.torn = TRUE
      BY <1>2, <2>2
    <2> QED BY <2>3
  <1>4. /\ reader' = [reader EXCEPT !.pending = TRUE] /\ pipe' = pipe /\ writer' = writer
        /\ sent' = sent
    BY <1>3 DEF Interrupt
  <1>5. reader \in Reader /\ Reading(reader, q) /\ pipe \o AheadOf(at, todo) = BehindOf(reader, q)
    BY AgreeTypes
  <1>6. /\ reader'.at = "data" /\ reader'.left = reader.left /\ reader'.skip = reader.skip
        /\ reader'.limit = reader.limit /\ reader'.buf = reader.buf
    BY <1>3, <1>4, <1>5 DEF Reader
  <1>7. Reading(reader', q)
    BY <1>3, <1>5, <1>6 DEF Reading, Takes
  <1>8. pipe' \o AheadOf(at, todo) = BehindOf(reader', q)
    BY <1>3, <1>4, <1>5, <1>6 DEF BehindOf
  <1> QED BY <1>4, <1>7, <1>8, AgreeReads

-----------------------------------------------------------------------------
(* The invariant of a channel in step.                                     *)

LEMMA InitStep == Init => StepInv
  <1> SUFFICES ASSUME Init PROVE StepInv
    OBVIOUS
  <1>1. /\ pipe = <<>> /\ writer.at = "idle" /\ writer.todo = <<>> /\ reader.at = "idle"
        /\ sent = <<>>
    BY DEF Init, Waiting
  <1>2. Writing("idle", <<>>, <<>>)
    BY DEF Writing
  <1>3. Reading(reader, <<>>)
    BY <1>1 DEF Reading
  <1>4. pipe \o AheadOf("idle", <<>>) = BehindOf(reader, <<>>)
    <2>1. <<>> \o <<>> = <<>>
      OBVIOUS
    <2> QED BY <1>1, <2>1, StreamEmpty DEF AheadOf, BehindOf
  <1>5. Agree("idle", <<>>, <<>>)
    BY <1>1, <1>2, <1>3, <1>4 DEF Agree
  <1> QED BY <1>5 DEF StepInv

\* A channel out of step stays so.
LEMMA TornStays ==
  ASSUME TypeInv, [Next]_vars, ~hist'.torn
  PROVE  ~hist.torn
  <1>1. hist \in [torn : BOOLEAN, records : Nat, reads : Nat, interrupts : Nat]
    BY DEF TypeInv
  <1>2. SUFFICES ASSUME hist.torn PROVE FALSE
    OBVIOUS
  <1>3. CASE WriteMagic
    BY <1>1, <1>2, <1>3 DEF WriteMagic
  <1>4. CASE WriteCount \/ WriteData \/ WriterDies
    BY <1>2, <1>4 DEF WriteCount, WriteData, WriterDies
  <1>5. CASE ReadMagic \/ ReadEnd
    <2>1. hist' = [hist EXCEPT !.reads = @ + 1]
      BY <1>5 DEF ReadMagic, ReadEnd
    <2> QED BY <1>1, <1>2, <2>1
  <1>6. CASE ReadCount \/ ReadCountFails \/ Mask \/ ReadData \/ Discard \/ ReadDone
    BY <1>2, <1>6 DEF ReadCount, ReadCountFails, Mask, ReadData, Discard, ReadDone
  <1>7. CASE Interrupt
    <2>1. PICK t \in BOOLEAN : t = (hist.torn \/ reader.at # "data")
      OBVIOUS
    <2>2. hist' = [hist EXCEPT !.torn = t, !.interrupts = @ + 1]
      BY <1>7, <2>1 DEF Interrupt
    <2>3. hist'.torn = t
      BY <1>1, <2>2
    <2> QED BY <1>2, <2>1, <2>3, Zenon
  <1>8. CASE UNCHANGED vars
    BY <1>2, <1>8 DEF vars
  <1> QED BY <1>3, <1>4, <1>5, <1>6, <1>7, <1>8 DEF Next, Write, Read

LEMMA NextStep ==
  ASSUME TypeInv, StepInv, [Next]_vars
  PROVE  StepInv'
  <1>1. SUFFICES ASSUME ~hist'.torn
                 PROVE  \E x, y, z : Agree(x, y, z)'
    BY DEF StepInv
  <1>2. PICK at, todo, q : Agree(at, todo, q)
    BY <1>1, TornStays DEF StepInv
  <1>3. CASE WriteMagic
    BY <1>2, <1>3, WriteMagicStep
  <1>4. CASE WriteCount
    BY <1>2, <1>4, WriteCountStep
  <1>5. CASE WriteData
    BY <1>2, <1>5, WriteDataStep
  <1>6. CASE WriterDies
    BY <1>2, <1>6, WriterDiesStep
  <1>7. CASE ReadMagic
    BY <1>2, <1>7, ReadMagicStep
  <1>8. CASE ReadEnd
    <2>1. pipe' = pipe /\ writer' = writer /\ reader' = reader /\ sent' = sent
      BY <1>8 DEF ReadEnd
    <2> QED BY <1>2, <2>1, AgreeSame
  <1>9. CASE ReadCount
    BY <1>2, <1>9, ReadCountStep
  <1>10. CASE ReadCountFails
    BY <1>2, <1>10, ReadCountFailsStep
  <1>11. CASE Mask
    BY <1>2, <1>11, MaskStep
  <1>12. CASE ReadData
    BY <1>2, <1>12, ReadDataStep
  <1>13. CASE Discard
    BY <1>2, <1>13, DiscardStep
  <1>14. CASE ReadDone
    BY <1>2, <1>14, ReadDoneStep
  <1>15. CASE Interrupt
    BY <1>1, <1>2, <1>15, InterruptStep
  <1>16. CASE UNCHANGED vars
    <2>1. pipe' = pipe /\ writer' = writer /\ reader' = reader /\ sent' = sent
      BY <1>16 DEF vars
    <2> QED BY <1>2, <2>1, AgreeSame
  <1> QED BY <1>3, <1>4, <1>5, <1>6, <1>7, <1>8, <1>9, <1>10, <1>11, <1>12, <1>13, <1>14,
             <1>15, <1>16 DEF Next, Write, Read

LEMMA StepInvInStep == TypeInv /\ StepInv => InStep
  <1> SUFFICES ASSUME TypeInv, StepInv, ~hist.torn, writer.at # "dead"
               PROVE  pipe \o Ahead = Behind
    BY DEF InStep
  <1>1. PICK at, todo, q : Agree(at, todo, q)
    BY DEF StepInv
  <1>2. at = writer.at /\ todo = writer.todo /\ sent = q
    BY <1>1 DEF Agree
  <1>3. pipe \o AheadOf(at, todo) = BehindOf(reader, q) /\ reader \in Reader
    BY <1>1, AgreeTypes
  <1>4. Ahead = AheadOf(at, todo)
    BY <1>2 DEF Ahead, AheadOf
  <1>5. Behind = BehindOf(reader, q)
    <2>1. CASE reader.at = "idle"
      BY <1>2, <2>1 DEF Behind, BehindOf
    <2>2. CASE reader.at = "count"
      BY <1>2, <2>2 DEF Behind, BehindOf
    <2>3. CASE reader.at # "idle" /\ reader.at # "count"
      BY <1>2, <2>3 DEF Behind, BehindOf, End, Unread
    <2> QED BY <2>1, <2>2, <2>3
  <1> QED BY <1>3, <1>4, <1>5

\* As long as no interrupt comes between the halves of a header, what is in the pipe and
\* what a living writer has still to write is, char by char, what the reader has still to
\* read of the records that were sent: the count of a header is the length of what follows
\* it, a record cut to the buffer of the caller is discarded to its end, and a pipe of any
\* size is enough (zardpr and zawrpr of zfiopr.c).
THEOREM StaysInStep == Spec => []InStep
  <1>1. Init => TypeInv /\ StepInv
    BY InitType, InitStep
  <1>2. (TypeInv /\ StepInv) /\ [Next]_vars => (TypeInv /\ StepInv)'
    BY NextType, NextStep
  <1>3. TypeInv /\ StepInv => InStep
    BY StepInvInStep
  <1> QED BY <1>1, <1>2, <1>3, PTL DEF Spec

-----------------------------------------------------------------------------
(* The channel is a queue of records.                                      *)

LEMMA StartOfStart ==
  ASSUME NEW r \in Seq(Char), NEW m \in 0..Len(r), NEW n \in 0..m
  PROVE  SubSeq(SubSeq(r, 1, m), 1, n) = SubSeq(r, 1, n)
  <1>0. Len(r) \in Nat /\ m \in Nat /\ n \in Nat /\ m <= Len(r) /\ n <= Len(r) /\ n <= m
    BY LenProperties
  <1>1. PICK s \in Seq(Char) :
          s = SubSeq(r, 1, m) /\ Len(s) = m /\ \A i \in 1..m - 1 + 1 : s[i] = r[1 + i - 1]
    <2>1. SubSeq(r, 1, m) \in Seq(Char) /\ Len(SubSeq(r, 1, m)) = m
      BY Parts
    <2>2. 1 \in Nat \ {0} /\ m \in Int
      BY <1>0
    <2>3. \A i \in 1..m - 1 + 1 : SubSeq(r, 1, m)[i] = r[1 + i - 1]
      BY <1>0, <2>2, PartOf
    <2> QED BY <2>1, <2>3, Zenon
  <1>2. PICK t \in Seq(Char) :
          t = SubSeq(s, 1, n) /\ Len(t) = n /\ \A i \in 1..n - 1 + 1 : t[i] = s[1 + i - 1]
    <2>0. n \in 0..Len(s)
      BY <1>1
    <2>1. SubSeq(s, 1, n) \in Seq(Char) /\ Len(SubSeq(s, 1, n)) = n
      BY <2>0, Parts
    <2>2. 1 \in Nat \ {0} /\ n \in Int /\ n <= Len(s)
      BY <1>0, <1>1
    <2>3. \A i \in 1..n - 1 + 1 : SubSeq(s, 1, n)[i] = s[1 + i - 1]
      BY <2>2, PartOf
    <2> QED BY <2>1, <2>3, Zenon
  <1>3. PICK u \in Seq(Char) :
          u = SubSeq(r, 1, n) /\ Len(u) = n /\ \A i \in 1..n - 1 + 1 : u[i] = r[1 + i - 1]
    <2>0. n \in 0..Len(r)
      BY <1>0
    <2>1. SubSeq(r, 1, n) \in Seq(Char) /\ Len(SubSeq(r, 1, n)) = n
      BY <2>0, Parts
    <2>2. 1 \in Nat \ {0} /\ n \in Int
      BY <1>0
    <2>3. \A i \in 1..n - 1 + 1 : SubSeq(r, 1, n)[i] = r[1 + i - 1]
      BY <1>0, <2>2, PartOf
    <2> QED BY <2>1, <2>3, Zenon
  <1>4. ASSUME NEW i \in 1..Len(t)
        PROVE  t[i] = u[i]
    <2>1. i \in 1..n - 1 + 1 /\ i \in 1..m - 1 + 1 /\ 1 + i - 1 = i
      BY <1>0, <1>2
    <2>2. t[i] = s[i]
      BY <1>2, <2>1
    <2>3. s[i] = r[i]
      BY <1>1, <2>1
    <2>4. u[i] = r[i]
      BY <1>3, <2>1
    <2> QED BY <2>2, <2>3, <2>4
  <1>5. t = u
    BY <1>2, <1>3, <1>4, SeqEqual
  <1> QED BY <1>1, <1>2, <1>3, <1>5

\* What a read returns is the record at the front of the queue, whole or cut to the
\* buffer of the caller.
LEMMA ReadReturns ==
  ASSUME TypeInv, ReadDone, NEW at, NEW todo, NEW q, Agree(at, todo, q)
  PROVE  reader.buf = Queue!Cut(Head(sent), reader.limit) /\ reader.limit \in Limits
  <1>1. /\ reader.at = "data"
        /\ (reader.left = 0 /\ reader.skip = 0) \/ AtEnd
    BY DEF ReadDone
  <1>2. PICK b \in Seq(Char), left \in Nat, skip \in Nat, limit \in Nat :
          /\ b = reader.buf /\ left = reader.left /\ skip = reader.skip
          /\ limit = reader.limit /\ reader.limit \in Limits
    <2>1. reader \in Reader /\ reader.limit \in Limits
      BY <1>1 DEF TypeInv, ReaderOK
    <2>2. /\ reader.buf \in Seq(Char) /\ reader.left \in Nat /\ reader.skip \in Nat
          /\ reader.limit \in Nat
      BY <2>1, ChannelAssumption DEF Reader
    <2> QED BY <2>1, <2>2
  <1>3. PICK l \in Nat : l = Len(b)
    BY LenProperties
  <1>4. CASE reader.left = 0 /\ reader.skip = 0
    <2>1. Head(sent) = Head(q) /\ q # <<>>
      BY <1>1, <1>4, RecordEnds
    <2>2. PICK r \in Seq(Char) : r = Head(q) /\ Takes(reader, r)
      <3>1. Reading(reader, q) /\ q \in Seq(Record)
        BY AgreeTypes
      <3>2. Head(q) \in Record /\ Takes(reader, Head(q))
        BY <1>1, <2>1, <3>1, HeadTailProperties DEF Reading
      <3> QED BY <3>2, RecordIs
    <2>3. l + 0 = Least(Len(r), limit) /\ b = SubSeq(r, 1, l)
      BY <1>2, <1>3, <1>4, <2>2 DEF Takes
    <2>4. Least(Len(r), limit) = IF limit < Len(r) THEN limit ELSE Len(r)
      <3>1. Len(r) \in Nat
        BY LenProperties
      <3> QED BY <3>1 DEF Least
    <2>5. b = Queue!Cut(r, limit)
      BY <2>3, <2>4 DEF Queue!Cut
    <2> QED BY <1>2, <2>1, <2>2, <2>5
  <1>5. CASE ~(reader.left = 0 /\ reader.skip = 0)
    <2>1. /\ Head(q) \in Record /\ Takes(reader, Head(q))
          /\ reader.left + reader.skip \in 1..Len(Head(q))
          /\ sent = <<SubSeq(Head(q), 1, Len(Head(q)) - (reader.left + reader.skip))>>
      BY <1>1, <1>5, RecordCut
    <2>2. PICK r \in Seq(Char) : r = Head(q) /\ Len(r) \in Nat
      BY <2>1, RecordIs
    <2>3. PICK n \in Nat : n = Len(r)
      BY <2>2
    <2>4. /\ l + left + skip <= n /\ l + left = Least(n, limit) /\ b = SubSeq(r, 1, l)
          /\ (left > 0 => l + left + skip = n)
      BY <1>2, <1>3, <2>1, <2>2, <2>3 DEF Takes
    <2>5. PICK m \in 0..n : m = n - (left + skip)
      BY <1>2, <2>1, <2>2, <2>3
    <2>6. left + skip > 0
      BY <1>2, <2>1
    <2>7. l = (IF limit < m THEN limit ELSE m) /\ l <= m
      <3>1. CASE left > 0
        <4>1. l = m /\ l <= limit
          BY <2>4, <2>5, <3>1 DEF Least
        <4> QED BY <4>1
      <3>2. CASE left = 0
        <4>1. l < n /\ l = Least(n, limit) /\ l <= m
          BY <2>4, <2>5, <2>6, <3>2
        <4>2. l = limit
          BY <4>1 DEF Least
        <4> QED BY <4>1, <4>2
      <3> QED BY <3>1, <3>2
    <2>8. PICK h \in Seq(Char) : h = SubSeq(r, 1, m) /\ Len(h) = m
      <3>1. m \in 0..Len(r)
        BY <2>3
      <3>2. SubSeq(r, 1, m) \in Seq(Char) /\ Len(SubSeq(r, 1, m)) = m
        BY <3>1, Parts
      <3> QED BY <3>2, Zenon
    <2>9. SubSeq(h, 1, l) = SubSeq(r, 1, l)
      <3>1. m \in 0..Len(r) /\ l \in 0..m
        BY <2>3, <2>7
      <3> QED BY <2>8, <3>1, StartOfStart
    <2>10. Head(sent) = h
      <3>1. sent = <<SubSeq(r, 1, Len(r) - (reader.left + reader.skip))>>
        BY <2>1, <2>2, Zenon
      <3>2. Len(r) - (reader.left + reader.skip) = m
        BY <1>2, <2>3, <2>5, Zenon
      <3>3. sent = <<h>>
        BY <2>8, <3>1, <3>2, Zenon
      <3> QED BY <3>3
    <2>11. b = Queue!Cut(h, limit)
      <3>1. b = SubSeq(h, 1, l)
        BY <2>4, <2>9
      <3>2. l = IF limit < m THEN limit ELSE m
        BY <2>7
      <3> QED BY <2>8, <3>1, <3>2 DEF Queue!Cut
    <2> QED BY <1>2, <2>10, <2>11
  <1> QED BY <1>4, <1>5

\* What the death of the writer leaves of its last record.
LEMMA CutAppend ==
  ASSUME NEW q \in Seq(Record), q # <<>>, NEW at, NEW todo \in Record \cup {<<>>},
         Writing(at, todo, q), at # "idle"
  PROVE  LET last == q[Len(q)]
             rest == SubSeq(q, 1, Len(q) - 1)
         IN  \E n \in 0..Len(last) : CutTo(at, todo, q) = Append(rest, Queue!Cut(last, n))
  <1>1. PICK p \in Seq(Record), r \in Record : q = Append(p, r)
    BY SequenceEmptyOrAppend
  <1>2. /\ Len(p) \in Nat /\ Len(q) = Len(p) + 1 /\ q[Len(q)] = r
        /\ \A i \in 1..Len(p) : q[i] = p[i]
    BY <1>1, AppendProperties, LenProperties
  <1>3. SubSeq(q, 1, Len(q) - 1) = p
    <2>1. PICK f \in Seq(Record) : f = SubSeq(q, 1, Len(p)) /\ Len(f) = Len(p)
      <3>1. Len(p) \in 0..Len(q)
        BY <1>2
      <3>2. SubSeq(q, 1, Len(p)) \in Seq(Record) /\ Len(SubSeq(q, 1, Len(p))) = Len(p)
        BY <3>1, Parts
      <3> QED BY <3>2, Zenon
    <2>2. \A i \in 1..Len(p) - 1 + 1 : SubSeq(q, 1, Len(p))[i] = q[1 + i - 1]
      <3>1. 1 \in Nat \ {0} /\ Len(p) \in Int /\ Len(p) <= Len(q)
        BY <1>2
      <3> QED BY <3>1, PartOf
    <2>3. ASSUME NEW i \in 1..Len(f)
          PROVE  f[i] = p[i]
      <3>1. i \in 1..Len(p) - 1 + 1 /\ i \in 1..Len(p) /\ 1 + i - 1 = i
        BY <1>2, <2>1
      <3> QED BY <1>2, <2>1, <2>2, <3>1
    <2>4. f = p
      BY <2>1, <2>3, SeqEqual
    <2>5. Len(q) - 1 = Len(p)
      BY <1>2
    <2> QED BY <2>1, <2>4, <2>5
  <1>4. PICK k \in Record \cup {<<>>} : k = Kept(at, todo, r)
    BY <1>2, CutIs
  <1>5. CutTo(at, todo, q) = Append(p, k)
    <2>1. PICK c \in Seq(Record \cup {<<>>}) :
             /\ c = CutTo(at, todo, q) /\ Len(c) = Len(q) /\ c[Len(q)] = k
             /\ \A i \in 1..Len(q) - 1 : c[i] = q[i]
      <3>1. /\ CutTo(at, todo, q) \in Seq(Record \cup {<<>>})
            /\ Len(CutTo(at, todo, q)) = Len(q)
            /\ CutTo(at, todo, q)[Len(q)] = k
            /\ \A i \in 1..Len(q) - 1 : CutTo(at, todo, q)[i] = q[i]
        BY <1>2, <1>4, CutIs
      <3> QED BY <3>1, Zenon
    <2>2. PICK s \in Seq(Record \cup {<<>>}) : s = p
      <3>1. Seq(Record) \subseteq Seq(Record \cup {<<>>})
        BY SeqMonotonic
      <3> QED BY <3>1
    <2>3. PICK d \in Seq(Record \cup {<<>>}) :
             /\ d = Append(s, k) /\ Len(d) = Len(s) + 1 /\ d[Len(s) + 1] = k
             /\ \A i \in 1..Len(s) : d[i] = s[i]
      <3>1. /\ Append(s, k) \in Seq(Record \cup {<<>>}) /\ Len(Append(s, k)) = Len(s) + 1
            /\ Append(s, k)[Len(s) + 1] = k
            /\ \A i \in 1..Len(s) : Append(s, k)[i] = s[i]
        BY AppendProperties
      <3> QED BY <3>1, Zenon
    <2>4. ASSUME NEW i \in 1..Len(c)
          PROVE  c[i] = d[i]
      <3>1. CASE i = Len(q)
        BY <1>2, <2>1, <2>2, <2>3, <3>1
      <3>2. CASE i # Len(q)
        <4>1. i \in 1..Len(p) /\ i \in 1..Len(q) - 1
          BY <1>2, <2>1, <3>2
        <4> QED BY <1>2, <2>1, <2>2, <2>3, <4>1
      <3> QED BY <3>1, <3>2
    <2>5. c = d
      <3>1. Len(c) = Len(d)
        BY <1>2, <2>1, <2>2, <2>3
      <3> QED BY <2>4, <3>1, SeqEqual
    <2> QED BY <2>1, <2>2, <2>3, <2>5
  <1>6. \E n \in 0..Len(r) : k = Queue!Cut(r, n)
    <2>1. PICK l \in Nat, t \in Nat : l = Len(r) /\ t = Len(todo) /\ t <= l
      <3>1. Len(r) \in Nat /\ Len(todo) \in Nat /\ Len(todo) <= Len(r)
        BY <1>2, RecordIs, AheadType DEF Writing
      <3> QED BY <3>1
    <2>2. CASE at = "count"
      <3>1. PICK s \in Seq(Char) : s = SubSeq(r, 1, 0) /\ Len(s) = 0
        <4>1. 0 \in 0..Len(r) /\ r \in Seq(Char)
          BY <2>1, RecordIs
        <4>2. SubSeq(r, 1, 0) \in Seq(Char) /\ Len(SubSeq(r, 1, 0)) = 0
          BY <4>1, Parts
        <4> QED BY <4>2, Zenon
      <3>2. s = <<>>
        BY <3>1, EmptySeq
      <3>3. Queue!Cut(r, 0) = SubSeq(r, 1, 0)
        <4>1. (IF 0 < Len(r) THEN 0 ELSE Len(r)) = 0
          BY <2>1
        <4> QED BY <4>1 DEF Queue!Cut
      <3>4. 0 \in 0..Len(r)
        BY <2>1
      <3> QED BY <1>4, <2>2, <3>1, <3>2, <3>3, <3>4 DEF Kept
    <2>3. CASE at # "count"
      <3>1. PICK n \in 0..Len(r) : n = Len(r) - Len(todo)
        <4>1. l - t \in 0..l
          BY <2>1
        <4> QED BY <2>1, <4>1
      <3>2. Queue!Cut(r, n) = SubSeq(r, 1, n)
        <4>1. (IF n < Len(r) THEN n ELSE Len(r)) = n
          BY <2>1, <3>1
        <4> QED BY <4>1 DEF Queue!Cut
      <3> QED BY <1>4, <2>3, <3>1, <3>2 DEF Kept
    <2> QED BY <2>2, <2>3
  <1> QED BY <1>2, <1>3, <1>5, <1>6

LEMMA WriterDiesRefines ==
  ASSUME TypeInv, WriterDies, NEW at, NEW todo, NEW q, Agree(at, todo, q)
  PROVE  Queue!Die
  <1>1. /\ writer.at # "dead" /\ writer'.at = "dead" /\ got' = got
        /\ at = writer.at /\ todo = writer.todo /\ sent = q
    BY DEF WriterDies, Agree
  <1>2. sent' = CutTo(at, todo, q)
    BY <1>1 DEF WriterDies, CutTo
  <1>3. /\ q \in Seq(Record) /\ todo \in Record \cup {<<>>} /\ Writing(at, todo, q)
        /\ (at # "idle" => q # <<>>)
    BY AgreeTypes DEF Writing
  <1>4. CASE at = "idle"
    <2>1. sent' = sent
      BY <1>1, <1>2, <1>4 DEF CutTo
    <2> QED BY <1>1, <2>1 DEF Queue!Die
  <1>5. CASE at # "idle"
    <2>1. \E n \in 0..Len(q[Len(q)]) :
             CutTo(at, todo, q) = Append(SubSeq(q, 1, Len(q) - 1), Queue!Cut(q[Len(q)], n))
      BY <1>3, <1>5, CutAppend
    <2>2. \E n \in 0..Len(sent[Len(sent)]) :
             sent' = Append(SubSeq(sent, 1, Len(sent) - 1), Queue!Cut(sent[Len(sent)], n))
      BY <1>1, <1>2, <2>1
    <2>3. sent # <<>>
      BY <1>1, <1>3, <1>5
    <2> QED BY <1>1, <2>2, <2>3 DEF Queue!Die
  <1> QED BY <1>4, <1>5

LEMMA ReadDoneRefines ==
  ASSUME TypeInv, ReadDone, NEW at, NEW todo, NEW q, Agree(at, todo, q)
  PROVE  Queue!Next
  <1>1. sent # <<>> /\ sent' = Tail(sent)
    BY ReadDoneStep
  <1>2. /\ got' = IF reader.pending THEN got ELSE [ok |-> TRUE, data |-> reader.buf]
        /\ writer' = writer
    BY DEF ReadDone, Finish
  <1>3. (writer.at # "dead")' = (writer.at # "dead")
    BY <1>2
  <1>4. CASE reader.pending
    <2>1. Queue!Lose
      BY <1>1, <1>2, <1>3, <1>4 DEF Queue!Lose
    <2> QED BY <2>1 DEF Queue!Next
  <1>5. CASE ~reader.pending
    <2>1. PICK n \in Limits : n = reader.limit /\ reader.buf = Queue!Cut(Head(sent), n)
      BY ReadReturns
    <2>2. got' = [ok |-> TRUE, data |-> Queue!Cut(Head(sent), n)]
      BY <1>2, <1>5, <2>1
    <2>3. Queue!Receive(n)
      BY <1>1, <1>3, <2>2 DEF Queue!Receive
    <2> QED BY <2>3 DEF Queue!Next
  <1> QED BY <1>4, <1>5

\* Every step of a channel in step is one of the queue of records, or none.
LEMMA NextRefines ==
  ASSUME TypeInv, StepInv, [Next]_vars
  PROVE  [hist'.torn \/ Queue!Next]_<<sent, writer.at # "dead", got>>
  <1>1. SUFFICES ASSUME ~hist'.torn
                 PROVE  \/ Queue!Next
                        \/ /\ sent' = sent /\ got' = got
                           /\ (writer.at # "dead")' = (writer.at # "dead")
    OBVIOUS
  <1>2. PICK at, todo, q : Agree(at, todo, q)
    BY <1>1, TornStays DEF StepInv
  <1>3. CASE WriteMagic
    <2>1. PICK r \in Record : writer' = [at |-> "count", todo |-> r] /\ sent' = Append(sent, r)
      BY <1>3 DEF WriteMagic
    <2>2. got' = got /\ writer.at # "dead" /\ (writer.at # "dead")'
      BY <1>3, <2>1 DEF WriteMagic
    <2>3. Queue!Send(r)
      BY <2>1, <2>2 DEF Queue!Send
    <2> QED BY <2>3 DEF Queue!Next
  <1>4. CASE WriteCount
    <2>1. writer'.at = "data"
      BY <1>4 DEF WriteCount, TypeInv, WriterOK
    <2> QED BY <1>4, <2>1 DEF WriteCount
  <1>5. CASE WriteData
    <2>1. writer'.at # "dead" /\ sent' = sent /\ got' = got /\ writer.at # "dead"
      BY <1>5 DEF WriteData
    <2> QED BY <2>1
  <1>6. CASE WriterDies
    BY <1>2, <1>6, WriterDiesRefines DEF Queue!Next
  <1>7. CASE ReadMagic
    <2>1. Head(pipe) = IPC_MAGIC
      BY <1>2, <1>7, ReadMagicStep
    <2>2. got' = got /\ sent' = sent /\ writer' = writer
      BY <1>7, <2>1 DEF ReadMagic
    <2> QED BY <2>2
  <1>8. CASE ReadEnd
    <2>1. /\ reader.at = "idle" /\ AtEnd /\ sent' = sent /\ writer' = writer
          /\ got' = [ok |-> TRUE, data |-> <<>>]
      BY <1>8 DEF ReadEnd
    <2>2. sent = <<>>
      BY <1>2, <2>1, AllRead
    <2>3. ~(writer.at # "dead") /\ (writer.at # "dead")' = (writer.at # "dead")
      BY <2>1 DEF AtEnd
    <2>4. Queue!ReceiveEnd
      BY <2>1, <2>2, <2>3 DEF Queue!ReceiveEnd
    <2> QED BY <2>4 DEF Queue!Next
  <1>9. CASE ReadCountFails
    <2>1. /\ AtEnd /\ writer' = writer /\ got' = [ok |-> FALSE, data |-> <<>>]
      BY <1>9 DEF ReadCountFails, Fail
    <2>2. sent = << <<>> >> /\ sent' = <<>>
      BY <1>2, <1>9, ReadCountFailsStep
    <2>3. ~(writer.at # "dead") /\ (writer.at # "dead")' = (writer.at # "dead")
      BY <2>1 DEF AtEnd
    <2>4. Queue!ReceiveError
      BY <2>1, <2>2, <2>3 DEF Queue!ReceiveError
    <2> QED BY <2>4 DEF Queue!Next
  <1>10. CASE ReadCount \/ Mask \/ ReadData \/ Discard
    <2>1. sent' = sent /\ got' = got /\ writer' = writer
      BY <1>10 DEF ReadCount, Mask, ReadData, Discard
    <2> QED BY <2>1
  <1>11. CASE ReadDone
    BY <1>2, <1>11, ReadDoneRefines
  <1>12. CASE Interrupt
    <2>1. sent' = sent /\ got' = got /\ writer' = writer
      BY <1>12 DEF Interrupt
    <2> QED BY <2>1
  <1>13. CASE UNCHANGED vars
    BY <1>13 DEF vars
  <1> QED BY <1>3, <1>4, <1>5, <1>6, <1>7, <1>8, <1>9, <1>10, <1>11, <1>12, <1>13
          DEF Next, Write, Read

\* As long as no interrupt comes between the halves of a header the channel is a queue of
\* records: each read takes the first one, whole or cut to the buffer of its caller, a
\* writer that dies leaves at most the start of its last record, which is read before the
\* end of the file, an error is returned only for a header that was cut in two, and an
\* interrupt of a read costs the record it was reading and no other (zardpr and zawrpr of
\* zfiopr.c).
THEOREM Implementation == Spec => Records
  <1>1. Init => TypeInv /\ StepInv
    BY InitType, InitStep
  <1>2. (TypeInv /\ StepInv) /\ [Next]_vars => (TypeInv /\ StepInv)'
    BY NextType, NextStep
  <1>3. Init => Queue!Init
    BY DEF Init, Queue!Init
  <1>4. (TypeInv /\ StepInv) /\ [Next]_vars
           => [hist'.torn \/ Queue!Next]_<<sent, writer.at # "dead", got>>
    BY NextRefines
  <1> QED BY <1>1, <1>2, <1>3, <1>4, PTL DEF Spec, Records

=============================================================================
