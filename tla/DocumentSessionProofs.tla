------------------------- MODULE DocumentSessionProofs -------------------------
(***************************************************************************)
(* The incremental session, for any pieces, identities, formats, limits    *)
(* and policies.                                                           *)
(***************************************************************************)
EXTENDS DocumentSession, Integers, SequenceTheorems, FiniteSetTheorems,
        WellFoundedInduction, TLAPS

-----------------------------------------------------------------------------
(* Numbers and recursion *)

(***************************************************************************)
(* The natural numbers have no infinite descent: what holds of 0 and goes  *)
(* from each number to the next holds up to n.                             *)
(***************************************************************************)
Smaller == {p \in Nat \X Nat : p[1] < p[2]}

LEMMA NoDescent == IsWellFoundedOn(Smaller, Nat)
  BY NatLessThanWellFounded DEF OpToRel, Smaller

LEMMA LeastNumber ==
  ASSUME NEW S \in SUBSET Nat, S # {}
  PROVE  \E n \in S : \A m \in S : n <= m
  <1>1. PICK n \in S : \A m \in S : ~(<<m, n>> \in Smaller)
    BY NoDescent, WFMin
  <1>2. \A m \in S : ~(m < n)
    BY <1>1 DEF Smaller
  <1>3. QED BY <1>2

LEMMA Induction ==
  ASSUME NEW N \in Nat, NEW P, 0 \in P, \A n \in 1..N : n - 1 \in P => n \in P
  PROVE  \A n \in 0..N : n \in P
  <1> DEFINE S == {n \in 0..N : n \notin P}
  <1>1. SUFFICES ASSUME S # {} PROVE FALSE
    OBVIOUS
  <1>0. S \in SUBSET Nat
    OBVIOUS
  <1> HIDE DEF S
  <1>2. PICK n \in S : \A m \in S : n <= m
    BY <1>0, <1>1, LeastNumber
  <1> USE DEF S
  <1>3. n \in 1..N /\ n - 1 \in 0..N
    BY <1>2
  <1>4. n - 1 \in P
    BY <1>2, <1>3
  <1>5. QED BY <1>2, <1>3, <1>4

(***************************************************************************)
(* A function defined by recursion up to N exists when its steps stay in a *)
(* set V.                                                                  *)
(***************************************************************************)
IsRun(f, N, base, step) ==
    f[0] = base /\ \A n \in 1..N : f[n] = step[<<f[n - 1], n>>]

LEMMA Recursion ==
  ASSUME NEW N \in Nat, NEW V, NEW base \in V, NEW step \in [V \X (1..N) -> V]
  PROVE  \E f \in [0..N -> V] : IsRun(f, N, base, step)
  <1> DEFINE Upto(n, f) == f \in [0..n -> V] /\ f[0] = base
                           /\ \A m \in 1..n : f[m] = step[<<f[m - 1], m>>]
             P == {n \in 0..N : \E f \in [0..n -> V] : Upto(n, f)}
  <1>1. 0 \in P
    <2>1. [m \in 0..0 |-> base] \in [0..0 -> V] /\ Upto(0, [m \in 0..0 |-> base])
      OBVIOUS
    <2> HIDE DEF Upto
    <2>2. QED BY <2>1
  <1>2. ASSUME NEW n \in 1..N, n - 1 \in P PROVE n \in P
    <2>1. PICK f \in [0..(n - 1) -> V] : Upto(n - 1, f)
      BY <1>2
    <2> DEFINE g == [m \in 0..n |-> IF m = n THEN step[<<f[n - 1], n>>] ELSE f[m]]
    <2>2. f[n - 1] \in V /\ step[<<f[n - 1], n>>] \in V
      BY <2>1
    <2>3. g \in [0..n -> V] /\ g[0] = base
      BY <2>1, <2>2
    <2>4. ASSUME NEW m \in 1..n PROVE g[m] = step[<<g[m - 1], m>>]
      <3>1. CASE m = n
        <4>1. g[n] = step[<<f[n - 1], n>>] /\ g[n - 1] = f[n - 1]
          OBVIOUS
        <4>2. QED BY <3>1, <4>1
      <3>2. CASE m # n
        <4>1. m \in 1..(n - 1) /\ m - 1 \in 0..(n - 1)
          BY <3>2
        <4>2. f[m] = step[<<f[m - 1], m>>]
          BY <2>1, <4>1
        <4>3. g[m] = f[m] /\ g[m - 1] = f[m - 1]
          BY <3>2, <4>1
        <4>4. QED BY <4>2, <4>3
      <3>3. QED BY <3>1, <3>2
    <2> HIDE DEF g
    <2>5. Upto(n, g)
      BY <2>3, <2>4
    <2> HIDE DEF Upto
    <2>6. QED BY <2>3, <2>5
  <1>3. N \in P
    <2> HIDE DEF P
    <2>1. QED BY <1>1, <1>2, Induction
  <1>4. QED BY <1>3 DEF IsRun

-----------------------------------------------------------------------------
(* The parser *)

Kinds == {"formula", "paragraph"}
RawBlocks == [kind : Kinds, content : Seq(Pieces), start : Int, end : Int]

EndOf(bs, k) == IF k = 0 THEN 0 ELSE bs[k].end

(***************************************************************************)
(* Block b is what the parser makes of its span: a formula of its own or a *)
(* run of text.                                                            *)
(***************************************************************************)
Covers(b, s) ==
    /\ 0 <= b.start /\ b.start < b.end /\ b.end <= Len(s)
    /\ b.content = SubSeq(s, b.start + 1, b.end)
    /\ IF IsFormula(b) THEN b.end = b.start + 1 /\ IsFormula(s[b.end])
       ELSE \A i \in (b.start + 1)..b.end : ~IsFormula(s[i])

(***************************************************************************)
(* The blocks cover the source up to n without gaps, and texts that follow *)
(* one another are one block.                                              *)
(***************************************************************************)
Tiling(bs, s, n) ==
    /\ bs \in Seq(RawBlocks)
    /\ \A k \in 1..Len(bs) : Covers(bs[k], s) /\ bs[k].start = EndOf(bs, k - 1)
    /\ \A k \in 2..Len(bs) : IsFormula(bs[k]) \/ IsFormula(bs[k - 1])
    /\ EndOf(bs, Len(bs)) = n

LEMMA PieceKinds ==
  ASSUME NEW x \in Pieces
  PROVE  x.kind \in Kinds
  BY DEF Pieces, FormulaPieces, TextPieces, Kinds

LEMMA Extended ==
  ASSUME NEW b \in RawBlocks, NEW x \in Pieces, NEW n \in Int
  PROVE  /\ Longer(b, x, n) \in RawBlocks
         /\ Longer(b, x, n) = [kind |-> b.kind, content |-> Append(b.content, x),
                               start |-> b.start, end |-> n]
  <1>1. Append(b.content, x) \in Seq(Pieces)
    BY AppendProperties DEF RawBlocks
  <1> DEFINE d == [b EXCEPT !.content = Append(@, x)]
  <1>2. d = [kind |-> b.kind, content |-> Append(b.content, x), start |-> b.start, end |-> b.end]
    <2>1. b = [kind |-> b.kind, content |-> b.content, start |-> b.start, end |-> b.end]
      BY DEF RawBlocks
    <2> DEFINE y == Append(b.content, x)
    <2> HIDE DEF y
    <2>2. [b EXCEPT !.content = y] = [kind |-> b.kind, content |-> y, start |-> b.start, end |-> b.end]
      BY <2>1
    <2>3. QED BY <2>2 DEF y
  <1>3. Longer(b, x, n) = [d EXCEPT !.end = n]
    BY DEF Longer
  <1> HIDE DEF d
  <1>4. QED BY <1>1, <1>2, <1>3 DEF RawBlocks

LEMMA Part ==
  ASSUME NEW S, NEW s \in Seq(S), NEW m \in 1..(Len(s) + 1), NEW n \in (m - 1)..Len(s)
  PROVE  /\ SubSeq(s, m, n) \in Seq(S) /\ Len(SubSeq(s, m, n)) = n - m + 1
         /\ \A i \in 1..(n - m + 1) : SubSeq(s, m, n)[i] = s[m + i - 1]
  <1>1. m \in Int /\ n \in Int /\ \A i \in m..n : s[i] \in S
    BY LenProperties
  <1>2. /\ SubSeq(s, m, n) \in Seq(S)
        /\ Len(SubSeq(s, m, n)) = IF m <= n THEN n - m + 1 ELSE 0
        /\ \A i \in 1..(n - m + 1) : SubSeq(s, m, n)[i] = s[m + i - 1]
    <2>1. SubSeq(s, m, n) \in Seq(S)
      BY <1>1, SubSeqProperties
    <2>2. Len(SubSeq(s, m, n)) = IF m <= n THEN n - m + 1 ELSE 0
      BY <1>1, SubSeqProperties
    <2>3. \A i \in 1..(n - m + 1) : SubSeq(s, m, n)[i] = s[m + i - 1]
      BY <1>1, SubSeqProperties
    <2>4. QED BY <2>1, <2>2, <2>3
  <1>3. (IF m <= n THEN n - m + 1 ELSE 0) = n - m + 1
    BY LenProperties
  <1>4. QED BY <1>2, <1>3, Zenon

LEMMA WithPieceTiles ==
  ASSUME NEW s \in Seq(Pieces), NEW n \in 1..Len(s), NEW bs, Tiling(bs, s, n - 1)
  PROVE  Tiling(WithPiece(bs, s[n], n), s, n)
  <1> DEFINE x == s[n]
             m == Len(bs)
             cs == WithPiece(bs, x, n)
  <1>1. /\ x \in Pieces /\ x.kind \in Kinds /\ m \in Nat /\ bs \in Seq(RawBlocks)
        /\ n \in Int /\ n - 1 \in Nat /\ Len(s) \in Nat /\ EndOf(bs, m) = n - 1
    BY PieceKinds, LenProperties DEF Tiling
  <1>2. \A k \in 1..m : /\ bs[k] \in RawBlocks
                        /\ Covers(bs[k], s) /\ bs[k].start = EndOf(bs, k - 1)
                        /\ k > 1 => IsFormula(bs[k]) \/ IsFormula(bs[k - 1])
    BY <1>1 DEF Tiling
  <1>3. CASE GoesOn(bs, x)
    <2> DEFINE b == bs[m]
               c == [kind |-> b.kind, content |-> Append(b.content, x),
                     start |-> b.start, end |-> n]
    <2>1. m \in 1..m /\ ~IsFormula(x) /\ ~IsFormula(b)
      BY <1>1, <1>3, EmptySeq DEF GoesOn
    <2>2. b \in RawBlocks /\ c \in RawBlocks /\ Longer(b, x, n) = c
      BY <1>1, <1>2, <2>1, Extended
    <2>3. cs = [bs EXCEPT ![m] = c]
      <3>1. cs = [bs EXCEPT ![m] = Longer(b, x, n)]
        BY <1>3 DEF WithPiece
      <3>2. QED BY <2>2, <3>1
    <2> HIDE DEF b, c, cs
    <2>4. /\ cs \in Seq(RawBlocks) /\ Len(cs) = m /\ cs[m] = c
          /\ \A k \in 1..(m - 1) : cs[k] = bs[k]
      <3>1. m - 1 \in Nat /\ \A k \in 1..(m - 1) : k \in 1..m /\ k # m
        BY <1>1, <2>1
      <3>2. QED BY <1>1, <2>1, <2>2, <2>3, <3>1, ExceptSeq
    <2> USE DEF b, c
    <2>5. Covers(b, s) /\ b.end = n - 1 /\ b.start \in Int /\ b.content \in Seq(Pieces)
      BY <1>1, <1>2, <2>1, <2>2 DEF EndOf, RawBlocks
    <2>6. Covers(c, s)
      <3>1. SubSeq(s, b.start + 1, n) = Append(SubSeq(s, b.start + 1, n - 1), x)
        <4>1. b.start + 1 \in 1..Len(s) /\ n \in (b.start + 1)..Len(s)
          <5>1. 0 <= b.start /\ b.start < b.end
            BY <2>5 DEF Covers
          <5> HIDE DEF b
          <5>2. QED BY <1>1, <2>5, <5>1
        <4>2. SubSeq(s, b.start + 1, n) = SubSeq(s, b.start + 1, n - 1) \o <<x>>
          BY <4>1, SubSeqRecursiveSecond
        <4>3. SubSeq(s, b.start + 1, n - 1) \in Seq(Pieces)
          BY <2>5 DEF Covers
        <4>4. QED BY <1>1, <4>2, <4>3, AppendIsConcat
      <3>2. c.content = SubSeq(s, c.start + 1, c.end)
        BY <2>5, <3>1 DEF Covers
      <3>3. \A i \in (b.start + 1)..n : ~IsFormula(s[i])
        BY <1>1, <2>1, <2>5 DEF Covers
      <3>4. ~IsFormula(c) /\ 0 <= c.start /\ c.start < c.end /\ c.end <= Len(s)
        BY <1>1, <2>1, <2>5 DEF Covers, IsFormula
      <3>5. QED BY <3>2, <3>3, <3>4 DEF Covers
    <2>7. ASSUME NEW k \in 1..m PROVE Covers(cs[k], s) /\ cs[k].start = EndOf(cs, k - 1)
      <3>1. EndOf(cs, k - 1) = EndOf(bs, k - 1)
        BY <1>1, <2>4 DEF EndOf
      <3>2. CASE k = m
        <4>1. cs[k].start = bs[k].start
          BY <2>4, <3>2
        <4>2. QED BY <1>2, <2>1, <2>4, <2>6, <3>1, <3>2, <4>1
      <3>3. CASE k # m
        <4>1. k \in 1..(m - 1)
          BY <1>1, <3>3
        <4>2. QED BY <1>2, <2>4, <3>1, <4>1
      <3>4. QED BY <3>2, <3>3
    <2>8. ASSUME NEW k \in 2..m PROVE IsFormula(cs[k]) \/ IsFormula(cs[k - 1])
      <3>1. k \in 1..m /\ k - 1 \in 1..(m - 1) /\ (IsFormula(bs[k]) \/ IsFormula(bs[k - 1]))
        BY <1>1, <1>2
      <3>2. cs[k - 1] = bs[k - 1]
        BY <2>4, <3>1
      <3>3. IsFormula(cs[k]) <=> IsFormula(bs[k])
        BY <1>1, <2>4 DEF IsFormula
      <3>4. QED BY <3>1, <3>2, <3>3
    <2>9. EndOf(cs, m) = n
      BY <1>1, <2>1, <2>4 DEF EndOf
    <2>10. Tiling(cs, s, n)
      BY <2>4, <2>7, <2>8, <2>9 DEF Tiling
    <2>11. QED BY <2>10 DEF cs
  <1>4. CASE ~GoesOn(bs, x)
    <2> DEFINE c == [kind |-> x.kind, content |-> <<x>>, start |-> n - 1, end |-> n]
    <2>1. <<x>> \in Seq(Pieces) /\ c \in RawBlocks
      BY <1>1 DEF RawBlocks
    <2>2. cs = Append(bs, c)
      BY <1>4 DEF WithPiece
    <2>3. /\ cs \in Seq(RawBlocks) /\ Len(cs) = m + 1 /\ cs[m + 1] = c
          /\ \A k \in 1..m : cs[k] = bs[k]
      BY <1>1, <2>1, <2>2, AppendProperties
    <2>4. Covers(c, s)
      <3>1. SubSeq(s, n, n) = <<x>>
        <4>1. /\ SubSeq(s, n, n) \in Seq(Pieces) /\ Len(SubSeq(s, n, n)) = 1
              /\ SubSeq(s, n, n)[1] = x
          <5>1. n - n + 1 = 1 /\ n + 1 - 1 = n /\ n \in 1..(Len(s) + 1) /\ n \in (n - 1)..Len(s)
            BY <1>1
          <5>2. SubSeq(s, n, n) \in Seq(Pieces) /\ Len(SubSeq(s, n, n)) = n - n + 1
            BY <5>1, Part
          <5>3. \A i \in 1..(n - n + 1) : SubSeq(s, n, n)[i] = s[n + i - 1]
            BY <5>1, Part
          <5> DEFINE w == SubSeq(s, n, n)
          <5> HIDE DEF w
          <5>4. w[1] = s[n + 1 - 1]
            BY <5>1, <5>3 DEF w
          <5>5. w \in Seq(Pieces) /\ Len(w) = 1
            BY <5>1, <5>2 DEF w
          <5>6. w \in Seq(Pieces) /\ Len(w) = 1 /\ w[1] = x
            BY <5>1, <5>4, <5>5
          <5>7. QED BY <5>6 DEF w
        <4> DEFINE w == SubSeq(s, n, n)
                   v == <<x>>
        <4>2. /\ w \in Seq(Pieces) /\ v \in Seq(Pieces) /\ Len(w) = Len(v)
              /\ \A i \in 1..Len(w) : w[i] = v[i]
          BY <2>1, <4>1
        <4> HIDE DEF w, v
        <4>3. w = v
          BY <4>2, SeqEqual
        <4>4. QED BY <4>3 DEF w, v
      <3>2. c.content = SubSeq(s, c.start + 1, c.end)
        BY <1>1, <3>1
      <3>3. \A i \in (c.start + 1)..c.end : i = n
        BY <1>1
      <3>4. IsFormula(c) <=> IsFormula(x)
        BY DEF IsFormula
      <3>5. QED BY <1>1, <3>2, <3>3, <3>4 DEF Covers
    <2> HIDE DEF cs
    <2>5. ASSUME NEW k \in 1..(m + 1)
          PROVE  Covers(cs[k], s) /\ cs[k].start = EndOf(cs, k - 1)
      <3>1. CASE k \in 1..m
        <4>1. cs[k] = bs[k] /\ EndOf(cs, k - 1) = EndOf(bs, k - 1)
          BY <1>1, <2>3, <3>1 DEF EndOf
        <4>2. QED BY <1>2, <3>1, <4>1
      <3>2. CASE k = m + 1
        <4>1. EndOf(cs, m) = EndOf(bs, m)
          <5>1. m = 0 \/ m \in 1..m
            BY <1>1
          <5>2. QED BY <2>3, <5>1 DEF EndOf
        <4>2. k - 1 = m /\ cs[k] = c
          BY <1>1, <2>3, <3>2
        <4>3. QED BY <1>1, <2>4, <4>1, <4>2
      <3>3. QED BY <1>1, <3>1, <3>2
    <2>6. ASSUME NEW k \in 2..(m + 1) PROVE IsFormula(cs[k]) \/ IsFormula(cs[k - 1])
      <3>1. CASE k \in 2..m
        BY <1>1, <1>2, <2>3, <3>1
      <3>2. CASE k = m + 1
        <4>1. bs # <<>> /\ cs[k - 1] = bs[m] /\ cs[k] = c
          BY <1>1, <2>3, <3>2, EmptySeq
        <4>2. IsFormula(c) <=> IsFormula(x)
          BY DEF IsFormula
        <4>3. QED BY <1>4, <4>1, <4>2 DEF GoesOn
      <3>3. QED BY <1>1, <3>1, <3>2
    <2>7. EndOf(cs, m + 1) = n
      BY <1>1, <2>3 DEF EndOf
    <2>8. Tiling(cs, s, n)
      BY <2>3, <2>5, <2>6, <2>7 DEF Tiling
    <2>9. QED BY <2>8 DEF cs
  <1>5. QED BY <1>3, <1>4

(***************************************************************************)
(* A list of steps that keep what Tiling says is what the parser computes. *)
(***************************************************************************)
LEMMA ParserRuns ==
  ASSUME NEW s \in Seq(Pieces)
  PROVE  \E f \in [0..Len(s) -> Seq(RawBlocks)] :
            /\ f = [n \in 0..Len(s) |-> IF n = 0 THEN <<>> ELSE WithPiece(f[n - 1], s[n], n)]
            /\ \A n \in 0..Len(s) : Tiling(f[n], s, n)
  <1> DEFINE N == Len(s)
             V == {bs \in Seq(RawBlocks) : \E n \in 0..N : Tiling(bs, s, n)}
             move(bs, n) == IF Tiling(bs, s, n - 1) THEN WithPiece(bs, s[n], n) ELSE <<>>
             moved(p) == move(p[1], p[2])
             W == V \X (1..N)
             step == [p \in W |-> moved(p)]
  <1>1. N \in Nat
    BY LenProperties
  <1>2. Tiling(<<>>, s, 0)
    <2>1. <<>> \in Seq(RawBlocks) /\ Len(<<>>) = 0 /\ EndOf(<<>>, 0) = 0
      BY EmptySeq DEF EndOf
    <2>2. QED BY <2>1 DEF Tiling
  <1>3. <<>> \in V
    BY <1>1, <1>2, EmptySeq
  <1>4. ASSUME NEW bs \in V, NEW n \in 1..N PROVE move(bs, n) \in V
    <2>1. CASE Tiling(bs, s, n - 1)
      <3>1. Tiling(WithPiece(bs, s[n], n), s, n)
        BY <2>1, WithPieceTiles
      <3>2. WithPiece(bs, s[n], n) \in Seq(RawBlocks) /\ n \in 0..N
        BY <1>1, <3>1 DEF Tiling
      <3>3. QED BY <2>1, <3>1, <3>2
    <2>2. QED BY <1>3, <2>1
  <1> HIDE DEF V, move
  <1>5. \A bs \in V, n \in 1..N : <<bs, n>> \in W /\ moved(<<bs, n>>) = move(bs, n)
    OBVIOUS
  <1>6. \A p \in W : moved(p) \in V
    BY <1>4
  <1> HIDE DEF moved
  <1>7. step \in [V \X (1..N) -> V] /\ \A p \in W : step[p] = moved(p)
    <2> HIDE DEF W
    <2>1. step \in [W -> V] /\ \A p \in W : step[p] = moved(p)
      BY <1>6
    <2>2. QED BY <2>1 DEF W
  <1> HIDE DEF step, W, N
  <1>8. PICK f \in [0..N -> V] : f[0] = <<>> /\ \A n \in 1..N : f[n] = step[<<f[n - 1], n>>]
    <2>1. step \in [V \X (1..N) -> V]
      BY <1>7
    <2>2. \E f \in [0..N -> V] : IsRun(f, N, <<>>, step)
      BY <1>1, <1>3, <2>1, Recursion
    <2>3. QED BY <2>2 DEF IsRun
  <1>9. \A n \in 1..N : f[n] = move(f[n - 1], n)
    <2>1. \A n \in 1..N : n - 1 \in 0..N
      BY <1>1
    <2>2. QED BY <1>5, <1>7, <1>8, <2>1
  <1>10. \A n \in 0..N : Tiling(f[n], s, n)
    <2> DEFINE P == {n \in 0..N : Tiling(f[n], s, n)}
    <2>1. 0 \in P
      BY <1>1, <1>2, <1>8
    <2>2. ASSUME NEW n \in 1..N, n - 1 \in P PROVE n \in P
      <3>1. Tiling(f[n - 1], s, n - 1) /\ f[n] = WithPiece(f[n - 1], s[n], n)
        BY <1>9, <2>2 DEF move
      <3>2. n \in 0..N
        BY <1>1
      <3>3. QED BY <3>1, <3>2, WithPieceTiles DEF N
    <2> HIDE DEF P
    <2>3. \A n \in 0..N : n \in P
      BY <1>1, <2>1, <2>2, Induction
    <2>4. QED BY <2>3 DEF P
  <1>11. \A n \in 1..N : f[n] = WithPiece(f[n - 1], s[n], n)
    <2>1. \A n \in 1..N : n - 1 \in 0..N
      BY <1>1
    <2>2. QED BY <1>9, <1>10, <2>1 DEF move
  <1>12. f \in [0..N -> Seq(RawBlocks)]
    BY <1>8 DEF V
  <1>13. f = [n \in 0..N |-> IF n = 0 THEN <<>> ELSE WithPiece(f[n - 1], s[n], n)]
    <2>1. \A n \in 0..N : n = 0 \/ n \in 1..N
      BY <1>1
    <2>2. QED BY <1>8, <1>11, <1>12, <2>1
  <1>14. QED BY <1>10, <1>12, <1>13 DEF N

LEMMA ParsedTiles ==
  ASSUME NEW s \in Seq(Pieces)
  PROVE  Tiling(Parsed(s), s, Len(s))
  <1> DEFINE parsed[n \in 0..Len(s)] ==
               IF n = 0 THEN <<>> ELSE WithPiece(parsed[n - 1], s[n], n)
  <1>1. Parsed(s) = parsed[Len(s)]
    BY DEF Parsed
  <1>2. parsed = [n \in 0..Len(s) |-> IF n = 0 THEN <<>> ELSE WithPiece(parsed[n - 1], s[n], n)]
    BY ParserRuns
  <1> HIDE DEF parsed
  <1> DEFINE P == {n \in 0..Len(s) : Tiling(parsed[n], s, n)}
  <1>3. Len(s) \in Nat
    BY LenProperties
  <1>4. 0 \in P
    <2>1. PICK f \in [0..Len(s) -> Seq(RawBlocks)] :
            /\ f = [n \in 0..Len(s) |-> IF n = 0 THEN <<>> ELSE WithPiece(f[n - 1], s[n], n)]
            /\ \A n \in 0..Len(s) : Tiling(f[n], s, n)
      BY ParserRuns
    <2>2. 0 \in 0..Len(s)
      BY <1>3
    <2>3. f[0] = <<>>
      BY <2>1, <2>2
    <2>4. parsed[0] = <<>>
      BY <1>2, <2>2
    <2>5. QED BY <2>1, <2>2, <2>3, <2>4
  <1>5. ASSUME NEW n \in 1..Len(s), n - 1 \in P PROVE n \in P
    <2>1. n \in 0..Len(s) /\ n # 0
      BY <1>3
    <2>2. parsed[n] = WithPiece(parsed[n - 1], s[n], n)
      BY <1>2, <2>1
    <2>3. Tiling(parsed[n - 1], s, n - 1)
      BY <1>5
    <2>4. QED BY <2>1, <2>2, <2>3, WithPieceTiles
  <1> HIDE DEF P
  <1>6. \A n \in 0..Len(s) : n \in P
    BY <1>3, <1>4, <1>5, Induction
  <1>7. Len(s) \in P
    BY <1>3, <1>6
  <1>8. QED BY <1>1, <1>7 DEF P

(***************************************************************************)
(* The ends of the blocks of a tiling grow.                                *)
(***************************************************************************)
LEMMA TilingFacts ==
  ASSUME NEW s, NEW n, NEW bs, Tiling(bs, s, n)
  PROVE  /\ Len(bs) \in Nat /\ DOMAIN bs = 1..Len(bs)
         /\ \A k \in 1..Len(bs) : bs[k] \in RawBlocks
         /\ \A k \in 0..Len(bs) : EndOf(bs, k) \in Int
  <1>1. bs \in Seq(RawBlocks)
    BY DEF Tiling
  <1>2. Len(bs) \in Nat /\ DOMAIN bs = 1..Len(bs) /\ \A k \in 1..Len(bs) : bs[k] \in RawBlocks
    BY <1>1, LenProperties
  <1>3. QED BY <1>2 DEF EndOf, RawBlocks

LEMMA EndsGrow ==
  ASSUME NEW s, NEW n, NEW bs, Tiling(bs, s, n)
  PROVE  \A k \in 0..Len(bs) : k <= EndOf(bs, k)
                               /\ \A j \in 0..k : EndOf(bs, j) <= EndOf(bs, k)
  <1> DEFINE P == {k \in 0..Len(bs) : k <= EndOf(bs, k)
                                      /\ \A j \in 0..k : EndOf(bs, j) <= EndOf(bs, k)}
  <1>1. /\ Len(bs) \in Nat
        /\ \A k \in 0..Len(bs) : EndOf(bs, k) \in Int
    BY TilingFacts
  <1>2. 0 \in P
    BY <1>1 DEF EndOf
  <1>3. ASSUME NEW k \in 1..Len(bs), k - 1 \in P PROVE k \in P
    <2>1. EndOf(bs, k - 1) < EndOf(bs, k)
      BY DEF Tiling, Covers, EndOf
    <2>2. \A j \in 0..(k - 1) : EndOf(bs, j) <= EndOf(bs, k - 1)
      BY <1>3
    <2>3. k \in 0..Len(bs) /\ k - 1 \in 0..Len(bs) /\ k - 1 <= EndOf(bs, k - 1)
      BY <1>1, <1>3
    <2>4. k <= EndOf(bs, k)
      BY <1>1, <2>1, <2>3
    <2>5. ASSUME NEW j \in 0..k PROVE EndOf(bs, j) <= EndOf(bs, k)
      <3>1. j = k \/ j \in 0..(k - 1)
        OBVIOUS
      <3>2. j \in 0..Len(bs)
        BY <1>1
      <3>3. QED BY <1>1, <2>1, <2>2, <2>3, <3>1, <3>2
    <2>6. QED BY <2>3, <2>4, <2>5
  <1> HIDE DEF P
  <1>4. \A k \in 0..Len(bs) : k \in P
    BY <1>1, <1>2, <1>3, Induction
  <1>5. QED BY <1>4 DEF P

(***************************************************************************)
(* Two tilings of a source are one: a formula ends where it must, and a    *)
(* text goes on to the next formula.                                       *)
(***************************************************************************)
LEMMA NotLonger ==
  ASSUME NEW s \in Seq(Pieces), NEW n, NEW bs, Tiling(bs, s, n), NEW cs, Tiling(cs, s, n),
         NEW k \in 1..Len(bs), k <= Len(cs), bs[k].start = cs[k].start
  PROVE  bs[k].end <= cs[k].end
  <1>1. /\ Len(bs) \in Nat /\ Len(cs) \in Nat /\ k \in 1..Len(cs)
        /\ bs[k] \in RawBlocks /\ cs[k] \in RawBlocks
    BY TilingFacts
  <1>2. Covers(bs[k], s) /\ Covers(cs[k], s)
    BY <1>1 DEF Tiling
  <1>3. SUFFICES ASSUME cs[k].end < bs[k].end PROVE FALSE
    BY <1>1 DEF RawBlocks
  <1> DEFINE b == bs[k]
             c == cs[k]
  <1>4. b.start \in Int /\ b.end \in Int /\ c.end \in Int /\ b.start < c.end /\ c.start = b.start
    BY <1>1, <1>2 DEF RawBlocks, Covers
  <1>5. ~IsFormula(b) /\ \A i \in (b.start + 1)..b.end : ~IsFormula(s[i])
    <2>1. Covers(b, s)
      BY <1>2
    <2>2. c.end < b.end
      BY <1>3
    <2> HIDE DEF b, c
    <2>3. b.end # b.start + 1
      BY <1>4, <2>2
    <2>4. QED BY <2>1, <2>3 DEF Covers
  <1>6. ~IsFormula(c)
    <2>1. Covers(c, s)
      BY <1>2
    <2>2. c.end < b.end
      BY <1>3
    <2> HIDE DEF b, c
    <2>3. c.end \in (b.start + 1)..b.end
      BY <1>4, <2>2
    <2>4. ~IsFormula(s[c.end])
      BY <1>5, <2>3
    <2>5. QED BY <2>1, <2>4 DEF Covers
  <1>7. k < Len(cs)
    <2>1. EndOf(bs, Len(bs)) = n /\ EndOf(cs, Len(cs)) = n
      BY DEF Tiling
    <2>2. k \in 0..Len(bs) /\ Len(bs) \in 0..Len(bs) /\ k \in 0..Len(bs)
      BY <1>1
    <2>3. EndOf(bs, k) <= n
      BY <2>1, <2>2, EndsGrow
    <2>4. EndOf(bs, k) = b.end /\ EndOf(cs, k) = c.end
      BY <1>1 DEF EndOf
    <2>5. c.end # n
      BY <1>3, <1>4, <2>1, <2>2, <2>3, <2>4, TilingFacts
    <2>6. QED BY <1>1, <2>1, <2>4, <2>5
  <1> DEFINE d == cs[k + 1]
  <1>8. k + 1 \in 2..Len(cs) /\ k + 1 \in 1..Len(cs) /\ k + 1 - 1 = k
    BY <1>1, <1>7
  <1>9. Covers(d, s) /\ d.start = c.end /\ d \in RawBlocks
    BY <1>1, <1>8, TilingFacts DEF Tiling, EndOf
  <1>10. IsFormula(d) \/ IsFormula(c)
    BY <1>8 DEF Tiling
  <1>11. IsFormula(s[d.end]) /\ d.end = c.end + 1
    BY <1>6, <1>9, <1>10 DEF Covers
  <1>12. d.end \in (b.start + 1)..b.end
    BY <1>3, <1>4, <1>11
  <1>13. QED BY <1>5, <1>11, <1>12

LEMMA SameBlock ==
  ASSUME NEW s, NEW b \in RawBlocks, NEW c \in RawBlocks, Covers(b, s), Covers(c, s),
         b.start = c.start, b.end = c.end
  PROVE  b = c
  <1>1. b.content = c.content
    BY DEF Covers
  <1>2. b.start \in Int /\ b.end \in Int /\ b.start < b.end
    BY DEF Covers, RawBlocks
  <1>3. IsFormula(b) <=> IsFormula(c)
    <2>1. b.end \in (b.start + 1)..b.end
      BY <1>2
    <2>2. QED BY <1>2, <2>1 DEF Covers
  <1>4. b.kind = c.kind
    BY <1>3 DEF IsFormula, RawBlocks, Kinds
  <1>5. /\ b = [kind |-> b.kind, content |-> b.content, start |-> b.start, end |-> b.end]
        /\ c = [kind |-> c.kind, content |-> c.content, start |-> c.start, end |-> c.end]
    BY DEF RawBlocks
  <1>6. QED BY <1>1, <1>4, <1>5

LEMMA TilingUnique ==
  ASSUME NEW s \in Seq(Pieces), NEW n, NEW bs, Tiling(bs, s, n), NEW cs, Tiling(cs, s, n)
  PROVE  bs = cs
  <1> DEFINE P == {k \in 0..Len(bs) : k <= Len(cs) /\ \A j \in 1..k : bs[j] = cs[j]}
  <1>1. /\ Len(bs) \in Nat /\ Len(cs) \in Nat
        /\ \A k \in 0..Len(bs) : EndOf(bs, k) \in Int
        /\ \A k \in 0..Len(cs) : EndOf(cs, k) \in Int
    BY TilingFacts
  <1>2. EndOf(bs, Len(bs)) = n /\ EndOf(cs, Len(cs)) = n
    BY DEF Tiling
  <1>3. 0 \in P
    BY <1>1
  <1>4. ASSUME NEW k \in 1..Len(bs), k - 1 \in P PROVE k \in P
    <2>1. k - 1 \in 0..Len(cs) /\ k - 1 \in 0..Len(bs) /\ k \in 0..Len(bs)
          /\ \A j \in 1..(k - 1) : bs[j] = cs[j]
      BY <1>1, <1>4
    <2>2. EndOf(bs, k - 1) = EndOf(cs, k - 1)
      BY <2>1 DEF EndOf
    <2>3. /\ Covers(bs[k], s) /\ bs[k].start = EndOf(bs, k - 1) /\ EndOf(bs, k) = bs[k].end
          /\ bs[k] \in RawBlocks
      BY TilingFacts DEF Tiling, EndOf
    <2>4. EndOf(bs, k - 1) < EndOf(bs, k)
      BY <2>3 DEF Covers
    <2>5. EndOf(bs, k) <= n
      <3>1. Len(bs) \in 0..Len(bs) /\ k \in 0..Len(bs)
        BY <1>1
      <3>2. QED BY <1>2, <3>1, EndsGrow
    <2>6. k - 1 # Len(cs)
      BY <1>1, <1>2, <2>1, <2>2, <2>4, <2>5
    <2>7. k <= Len(cs) /\ k \in 1..Len(cs)
      <3>1. k \in Nat /\ 1 <= k /\ k - 1 <= Len(cs) /\ k - 1 # Len(cs) /\ Len(cs) \in Nat
        BY <1>1, <2>1, <2>6
      <3>2. QED BY <3>1
    <2>8. /\ Covers(cs[k], s) /\ cs[k].start = EndOf(cs, k - 1) /\ cs[k] \in RawBlocks
      <3>1. cs[k] \in RawBlocks
        BY <2>7, TilingFacts
      <3>2. QED BY <2>7, <3>1 DEF Tiling
    <2>9. bs[k].end <= cs[k].end /\ cs[k].end <= bs[k].end
      <3>1. bs[k].start = cs[k].start
        BY <2>2, <2>3, <2>8
      <3>2. bs[k].end <= cs[k].end
        BY <2>7, <3>1, NotLonger
      <3>3. k <= Len(bs)
        BY <1>1
      <3>4. cs[k].end <= bs[k].end
        BY <2>7, <3>1, <3>3, NotLonger
      <3>5. QED BY <3>2, <3>4
    <2>10. bs[k].end = cs[k].end
      BY <2>3, <2>8, <2>9 DEF RawBlocks
    <2>11. bs[k] = cs[k]
      BY <2>2, <2>3, <2>8, <2>10, SameBlock
    <2>12. \A j \in 1..k : j = k \/ j \in 1..(k - 1)
      OBVIOUS
    <2>13. QED BY <2>1, <2>7, <2>11, <2>12
  <1> HIDE DEF P
  <1>5. \A k \in 0..Len(bs) : k \in P
    BY <1>1, <1>3, <1>4, Induction
  <1>6. Len(bs) <= Len(cs) /\ \A j \in 1..Len(bs) : bs[j] = cs[j]
    <2>1. Len(bs) \in P
      BY <1>1, <1>5
    <2>2. QED BY <2>1 DEF P
  <1>7. Len(bs) = Len(cs)
    <2>1. SUFFICES ASSUME Len(bs) < Len(cs) PROVE FALSE
      BY <1>1, <1>6
    <2> DEFINE k == Len(bs) + 1
    <2>2. k \in 1..Len(cs) /\ k - 1 = Len(bs)
      BY <1>1, <2>1
    <2>3. EndOf(cs, k - 1) = n
      BY <1>1, <1>2, <1>6, <2>2 DEF EndOf
    <2>4. EndOf(cs, k - 1) < EndOf(cs, k)
      BY <2>2 DEF Tiling, Covers, EndOf
    <2>5. EndOf(cs, k) <= EndOf(cs, Len(cs))
      BY <1>1, <2>2, EndsGrow
    <2>6. k \in 0..Len(cs) /\ k - 1 \in 0..Len(cs)
      BY <1>1, <2>2
    <2>7. QED BY <1>1, <1>2, <2>3, <2>4, <2>5, <2>6
  <1>8. bs \in Seq(RawBlocks) /\ cs \in Seq(RawBlocks)
    BY DEF Tiling
  <1>9. QED BY <1>6, <1>7, <1>8, SeqEqual

-----------------------------------------------------------------------------
(* Splices *)

LEMMA BoundedSeqs ==
  ASSUME NEW S, NEW n \in Nat, NEW x \in BoundedSeq(S, n)
  PROVE  x \in Seq(S) /\ Len(x) \in 0..n
  <1>1. PICK m \in 0..n : x \in [1..m -> S]
    BY DEF BoundedSeq, SeqOf
  <1>2. m \in Nat /\ x \in Seq(S) /\ Len(x) = m
    BY <1>1
  <1>3. QED BY <1>2

\* t is s with what lies between from and to replaced by new.
IsSplice(t, s, from, to, new) ==
  /\ t \in Seq(Pieces) /\ Len(t) = from + Len(new) + (Len(s) - to)
  /\ \A i \in 1..from : t[i] = s[i]
  /\ \A i \in 1..Len(new) : t[from + i] = new[i]
  /\ \A i \in (to + 1)..Len(s) : t[from + Len(new) + (i - to)] = s[i]

LEMMA SpliceIs ==
  ASSUME NEW s \in Seq(Pieces), NEW new \in Seq(Pieces),
         NEW from \in 0..Len(s), NEW to \in from..Len(s)
  PROVE  IsSplice(Spliced(s, from, to, new), s, from, to, new)
  <1> DEFINE u == SubSeq(s, 1, from)
             w == SubSeq(s, to + 1, Len(s))
             l == Len(s)
             m == Len(new)
  <1>1. l \in Nat /\ m \in Nat /\ from \in Nat /\ to \in Nat /\ from <= to /\ to <= l
    BY LenProperties
  <1>2. u \in Seq(Pieces) /\ Len(u) = from /\ \A i \in 1..from : u[i] = s[i]
    <2>1. 1 \in 1..(Len(s) + 1) /\ from \in (1 - 1)..Len(s)
      BY <1>1
    <2>2. u \in Seq(Pieces) /\ Len(u) = from - 1 + 1
      BY <2>1, Part
    <2>3. \A i \in 1..(from - 1 + 1) : u[i] = s[1 + i - 1]
      BY <2>1, Part
    <2> HIDE DEF u
    <2>4. \A i \in 1..from : i \in 1..(from - 1 + 1) /\ 1 + i - 1 = i
      BY <1>1
    <2>5. QED BY <1>1, <2>2, <2>3, <2>4
  <1>3. w \in Seq(Pieces) /\ Len(w) = l - to /\ \A i \in 1..(l - to) : w[i] = s[to + i]
    <2>1. to + 1 \in 1..(Len(s) + 1) /\ Len(s) \in ((to + 1) - 1)..Len(s)
      BY <1>1
    <2>2. w \in Seq(Pieces) /\ Len(w) = Len(s) - (to + 1) + 1
      BY <2>1, Part
    <2>3. \A i \in 1..(Len(s) - (to + 1) + 1) : w[i] = s[(to + 1) + i - 1]
      BY <2>1, Part
    <2> HIDE DEF w
    <2>4. \A i \in 1..(l - to) : i \in 1..(Len(s) - (to + 1) + 1) /\ (to + 1) + i - 1 = to + i
      BY <1>1
    <2>5. QED BY <1>1, <2>2, <2>3, <2>4
  <1> DEFINE v == u \o new
             x == v \o w
  <1>4. Spliced(s, from, to, new) = x
    BY DEF Spliced
  <1> HIDE DEF u, w
  <1>5. v \in Seq(Pieces) /\ Len(v) = from + m
        /\ \A i \in 1..(from + m) : v[i] = IF i <= from THEN u[i] ELSE new[i - from]
    BY <1>2, ConcatProperties
  <1> HIDE DEF v
  <1>6. x \in Seq(Pieces) /\ Len(x) = Len(v) + Len(w)
        /\ \A i \in 1..(Len(v) + Len(w)) : x[i] = IF i <= Len(v) THEN v[i] ELSE w[i - Len(v)]
    BY <1>3, <1>5, ConcatProperties
  <1> HIDE DEF x, l, m
  <1>7. \A i \in 1..from : x[i] = s[i]
    BY <1>1, <1>2, <1>3, <1>5, <1>6
  <1>8. ASSUME NEW i \in 1..m PROVE x[from + i] = new[i]
    <2> DEFINE q == from + i
    <2>1. /\ q \in 1..(from + m) /\ q \in 1..(Len(v) + Len(w)) /\ q <= Len(v)
          /\ ~(q <= from) /\ q - from = i
      BY <1>1, <1>3, <1>5
    <2> HIDE DEF q
    <2>2. x[q] = v[q] /\ v[q] = new[i]
      BY <1>5, <1>6, <2>1
    <2>3. QED BY <2>2 DEF q
  <1>9. ASSUME NEW i \in (to + 1)..l PROVE x[from + m + (i - to)] = s[i]
    <2>1. i - to \in 1..(l - to) /\ to + (i - to) = i
      BY <1>1
    <2> DEFINE q == from + m + (i - to)
    <2>2. q \in 1..(Len(v) + Len(w)) /\ ~(q <= Len(v)) /\ q - Len(v) = i - to
      BY <1>1, <1>3, <1>5, <2>1
    <2> HIDE DEF q
    <2>3. x[q] = w[i - to]
      BY <1>6, <2>2
    <2>4. x[q] = s[i]
      BY <1>3, <2>1, <2>3
    <2>5. QED BY <2>4 DEF q
  <1>10. Len(x) = from + m + (l - to)
    BY <1>1, <1>3, <1>5, <1>6
  <1>11. IsSplice(x, s, from, to, new)
    BY <1>6, <1>7, <1>8, <1>9, <1>10 DEF IsSplice, l, m
  <1>12. QED BY <1>4, <1>11

LEMMA Splices ==
  ASSUME NEW s \in Seq(Pieces), NEW new \in Seq(Pieces),
         NEW from \in 0..Len(s), NEW to \in from..Len(s)
  PROVE  /\ Spliced(s, from, to, new) \in Seq(Pieces)
         /\ Len(Spliced(s, from, to, new)) = from + Len(new) + (Len(s) - to)
         /\ \A i \in 1..from : Spliced(s, from, to, new)[i] = s[i]
         /\ \A i \in 1..Len(new) : Spliced(s, from, to, new)[from + i] = new[i]
         /\ \A i \in (to + 1)..Len(s) :
              Spliced(s, from, to, new)[from + Len(new) + (i - to)] = s[i]
  BY SpliceIs DEF IsSplice

LEMMA SpliceSize ==
  ASSUME NEW s \in Seq(Pieces), NEW new \in Seq(Pieces),
         NEW from \in 0..Len(s), NEW to \in from..Len(s)
  PROVE  /\ Spliced(s, from, to, new) \in Seq(Pieces)
         /\ Len(Spliced(s, from, to, new)) = from + Len(new) + (Len(s) - to)
  <1>1. Spliced(s, from, to, new) \in Seq(Pieces)
    BY Splices
  <1>2. Len(Spliced(s, from, to, new)) = from + Len(new) + (Len(s) - to)
    BY Splices
  <1>3. QED BY <1>1, <1>2

-----------------------------------------------------------------------------
(* The document *)

AnyIds == Nat \cup Externals
DocBlocks == [id : AnyIds, kind : Kinds, content : Seq(Pieces), start : Nat, end : Nat]

DocBlock(i, kind, content, start, end) ==
  [id |-> i, kind |-> kind, content |-> content, start |-> start, end |-> end]

\* Where an edit moves a position behind it.
Moved(x, from, to, n) == Minus(x + n, to - from)

LEMMA AdjustedIs ==
  ASSUME NEW b \in DocBlocks, NEW from \in Nat, NEW to \in Nat, from <= to, NEW n \in Nat
  PROVE  Adjusted(b, from, to, n) =
           DocBlock(b.id, b.kind, b.content,
             IF b.end > from /\ b.start >= to THEN Moved(b.start, from, to, n) ELSE b.start,
             IF b.end > from THEN Moved(b.end, from, to, n) ELSE b.end)
  <1> DEFINE p == Moved(b.start, from, to, n)
             q == Moved(b.end, from, to, n)
  <1>1. b = [id |-> b.id, kind |-> b.kind, content |-> b.content,
             start |-> b.start, end |-> b.end]
    BY DEF DocBlocks
  <1>2. b.start \in Nat /\ b.end \in Nat
    BY DEF DocBlocks
  <1>3. Adjusted(b, from, to, n) =
          IF b.end <= from THEN b
          ELSE IF b.start >= to THEN [b EXCEPT !.start = p, !.end = q]
          ELSE [b EXCEPT !.end = q]
    BY DEF Adjusted, Moved
  <1> DEFINE d == [b EXCEPT !.start = p]
  <1>4. [b EXCEPT !.start = p, !.end = q] = [d EXCEPT !.end = q]
    OBVIOUS
  <1> HIDE DEF p, q
  <1>5. d = [id |-> b.id, kind |-> b.kind, content |-> b.content, start |-> p, end |-> b.end]
    BY <1>1
  <1> HIDE DEF d
  <1>6. [d EXCEPT !.end = q] =
          [id |-> b.id, kind |-> b.kind, content |-> b.content, start |-> p, end |-> q]
    BY <1>5
  <1>7. [b EXCEPT !.end = q] =
          [id |-> b.id, kind |-> b.kind, content |-> b.content, start |-> b.start, end |-> q]
    BY <1>1
  <1>8. CASE b.end <= from
    BY <1>1, <1>2, <1>3, <1>8 DEF DocBlock
  <1>9. CASE ~(b.end <= from) /\ b.start >= to
    BY <1>2, <1>3, <1>4, <1>6, <1>9 DEF DocBlock, p, q
  <1>10. CASE ~(b.end <= from) /\ ~(b.start >= to)
    BY <1>2, <1>3, <1>7, <1>10 DEF DocBlock, p, q
  <1>11. QED BY <1>8, <1>9, <1>10

LEMMA AdjustedType ==
  ASSUME NEW b \in DocBlocks, NEW from \in Nat, NEW to \in Nat, from <= to, NEW n \in Nat
  PROVE  /\ Adjusted(b, from, to, n) \in DocBlocks
         /\ Adjusted(b, from, to, n).id = b.id
         /\ Adjusted(b, from, to, n).kind = b.kind
         /\ Adjusted(b, from, to, n).content = b.content
  <1>1. b.start \in Nat /\ b.end \in Nat
    BY DEF DocBlocks
  <1>2. Moved(b.start, from, to, n) \in Nat /\ Moved(b.end, from, to, n) \in Nat
    BY <1>1 DEF Moved, Minus
  <1> DEFINE p == IF b.end > from /\ b.start >= to THEN Moved(b.start, from, to, n) ELSE b.start
             q == IF b.end > from THEN Moved(b.end, from, to, n) ELSE b.end
  <1>3. p \in Nat /\ q \in Nat
    BY <1>1, <1>2
  <1> HIDE DEF p, q
  <1>4. Adjusted(b, from, to, n) = DocBlock(b.id, b.kind, b.content, p, q)
    BY AdjustedIs DEF p, q
  <1>5. QED BY <1>3, <1>4 DEF DocBlock, DocBlocks

\* The blocks lie one behind the other in a source of n pieces.
InOrder(bs, n) ==
  \A k \in 1..Len(bs) :
     /\ bs[k].start <= bs[k].end /\ bs[k].end <= n
     /\ \A j \in 1..(k - 1) : bs[j].end <= bs[k].start

\* Where an edit of block k in place, to a text of n pieces, leaves block j.
NewStart(bs, k, n, j) ==
  IF j > k /\ bs[j].end > bs[k].start THEN bs[j].start + n - (bs[k].end - bs[k].start)
  ELSE bs[j].start

NewEnd(bs, k, n, j) ==
  IF (j > k \/ j = k) /\ bs[j].end > bs[k].start
  THEN bs[j].end + n - (bs[k].end - bs[k].start)
  ELSE bs[j].end

Edited(bs, k, new) ==
  [j \in 1..Len(bs) |->
     DocBlock(bs[j].id, bs[j].kind, IF j = k THEN new ELSE bs[j].content,
              NewStart(bs, k, Len(new), j), NewEnd(bs, k, Len(new), j))]

LEMMA NewSpans ==
  ASSUME NEW bs \in Seq(DocBlocks), NEW L \in Nat, InOrder(bs, L),
         NEW k \in 1..Len(bs), NEW j \in 1..Len(bs), NEW n \in Nat
  PROVE  LET from == bs[k].start
             to == bs[k].end
             b == bs[j]
         IN  /\ NewStart(bs, k, n, j) \in Nat /\ NewEnd(bs, k, n, j) \in Nat
             /\ NewStart(bs, k, n, j) = IF b.end > from /\ b.start >= to
                                        THEN Moved(b.start, from, to, n) ELSE b.start
             /\ NewEnd(bs, k, n, j) = IF b.end > from THEN Moved(b.end, from, to, n) ELSE b.end
  <1> DEFINE from == bs[k].start
             to == bs[k].end
             p == bs[j].start
             q == bs[j].end
  <1>1. from \in Nat /\ to \in Nat /\ p \in Nat /\ q \in Nat
    <2>1. bs[j] \in DocBlocks /\ bs[k] \in DocBlocks
      BY ElementOfSeq
    <2>2. QED BY <2>1 DEF DocBlocks
  <1>2. k \in Nat /\ j \in Nat /\ from <= to /\ p <= q
    BY LenProperties DEF InOrder
  <1>3. j < k => q <= from
    <2>1. j < k => j \in 1..(k - 1)
      BY <1>2
    <2>2. QED BY <2>1 DEF InOrder
  <1>4. j > k => to <= p
    <2>1. j > k => k \in 1..(j - 1)
      BY <1>2
    <2>2. QED BY <2>1 DEF InOrder
  <1>5. j = k => p = from /\ q = to
    OBVIOUS
  <1> DEFINE x == NewStart(bs, k, n, j)
             y == NewEnd(bs, k, n, j)
             Goal == /\ x \in Nat /\ y \in Nat
                     /\ x = IF q > from /\ p >= to THEN Moved(p, from, to, n) ELSE p
                     /\ y = IF q > from THEN Moved(q, from, to, n) ELSE q
  <1>6. /\ x = IF j > k /\ q > from THEN p + n - (to - from) ELSE p
        /\ y = IF (j > k \/ j = k) /\ q > from THEN q + n - (to - from) ELSE q
    BY DEF NewStart, NewEnd
  <1> HIDE DEF x, y
  <1>7. SUFFICES Goal
    BY DEF x, y
  <1> HIDE DEF p, q, from, to
  <1>8. /\ Moved(p, from, to, n) = IF p + n < to - from THEN 0 ELSE p + n - (to - from)
        /\ Moved(q, from, to, n) = IF q + n < to - from THEN 0 ELSE q + n - (to - from)
    BY <1>1 DEF Moved, Minus
  <1>9. j < k \/ j = k \/ j > k
    BY <1>2
  <1>10. CASE j < k
    <2>1. q <= from
      BY <1>3, <1>10
    <2>2. x = p /\ y = q
      BY <1>1, <1>2, <1>6, <1>10
    <2>3. QED BY <1>1, <2>1, <2>2
  <1>11. CASE j = k
    BY <1>1, <1>2, <1>5, <1>6, <1>8, <1>11
  <1>12. CASE j > k
    <2>1. to <= p
      BY <1>4, <1>12
    <2>2. /\ x = IF q > from THEN p + n - (to - from) ELSE p
          /\ y = IF q > from THEN q + n - (to - from) ELSE q
      BY <1>2, <1>6, <1>12
    <2>3. QED BY <1>1, <1>2, <1>8, <2>1, <2>2
  <1>13. QED BY <1>9, <1>10, <1>11, <1>12

LEMMA EditedType ==
  ASSUME NEW bs \in Seq(DocBlocks), NEW L \in Nat, InOrder(bs, L),
         NEW k \in 1..Len(bs), NEW new \in Seq(Pieces)
  PROVE  Edited(bs, k, new) \in Seq(DocBlocks) /\ Len(Edited(bs, k, new)) = Len(bs)
  <1>1. Len(bs) \in Nat /\ Len(new) \in Nat
    BY LenProperties
  <1>2. ASSUME NEW j \in 1..Len(bs)
        PROVE  DocBlock(bs[j].id, bs[j].kind, IF j = k THEN new ELSE bs[j].content,
                 NewStart(bs, k, Len(new), j), NewEnd(bs, k, Len(new), j)) \in DocBlocks
    <2>1. bs[j] \in DocBlocks
      BY ElementOfSeq
    <2>2. NewStart(bs, k, Len(new), j) \in Nat /\ NewEnd(bs, k, Len(new), j) \in Nat
      BY <1>1, NewSpans
    <2>3. QED BY <2>1, <2>2 DEF DocBlocks, DocBlock
  <1>3. Edited(bs, k, new) \in [1..Len(bs) -> DocBlocks]
    BY <1>2 DEF Edited
  <1>4. QED BY <1>1, <1>3

LEMMA InPlaceIs ==
  ASSUME blocks \in Seq(DocBlocks), NEW L \in Nat, InOrder(blocks, L),
         NEW k \in 1..Len(blocks), NEW new \in Seq(Pieces)
  PROVE  [AllAdjusted(blocks[k].start, blocks[k].end, Len(new)) EXCEPT ![k].content = new]
           = Edited(blocks, k, new)
  <1> DEFINE from == blocks[k].start
             to == blocks[k].end
             n == Len(new)
             f == AllAdjusted(from, to, n)
             e == [f[k] EXCEPT !.content = new]
             es == Edited(blocks, k, new)
  <1>1. n \in Nat /\ DOMAIN blocks = 1..Len(blocks) /\ Len(blocks) \in Nat
    BY LenProperties
  <1>2. \A j \in 1..Len(blocks) : blocks[j] \in DocBlocks
    BY ElementOfSeq
  <1>3. from \in Nat /\ to \in Nat /\ from <= to
    BY <1>2 DEF DocBlocks, InOrder
  <1>4. DOMAIN f = 1..Len(blocks)
        /\ \A j \in 1..Len(blocks) : f[j] = Adjusted(blocks[j], from, to, n)
    BY <1>1 DEF AllAdjusted
  <1>5. [f EXCEPT ![k].content = new] = [f EXCEPT ![k] = e]
    OBVIOUS
  <1> DEFINE put(j) == DocBlock(blocks[j].id, blocks[j].kind, blocks[j].content,
                                NewStart(blocks, k, n, j), NewEnd(blocks, k, n, j))
  <1>6. ASSUME NEW j \in 1..Len(blocks) PROVE f[j] = put(j)
    <2> DEFINE b == blocks[j]
               p == IF b.end > from /\ b.start >= to THEN Moved(b.start, from, to, n) ELSE b.start
               q == IF b.end > from THEN Moved(b.end, from, to, n) ELSE b.end
    <2>1. f[j] = DocBlock(b.id, b.kind, b.content, p, q)
      BY <1>1, <1>2, <1>3, <1>4, AdjustedIs
    <2>2. NewStart(blocks, k, n, j) = p
      BY <1>1, NewSpans
    <2>3. NewEnd(blocks, k, n, j) = q
      BY <1>1, NewSpans
    <2> HIDE DEF p, q
    <2>4. QED BY <2>1, <2>2, <2>3
  <1>7. e = DocBlock(blocks[k].id, blocks[k].kind, new,
                     NewStart(blocks, k, n, k), NewEnd(blocks, k, n, k))
    <2>1. f[k] = put(k)
      BY <1>6
    <2> DEFINE x == NewStart(blocks, k, n, k)
               y == NewEnd(blocks, k, n, k)
               b == blocks[k]
    <2> HIDE DEF x, y, b, f, n
    <2>2. f[k] = [id |-> b.id, kind |-> b.kind, content |-> b.content, start |-> x, end |-> y]
      BY <2>1 DEF DocBlock, x, y, b
    <2>3. e = [id |-> b.id, kind |-> b.kind, content |-> new, start |-> x, end |-> y]
      BY <2>2
    <2>4. QED BY <2>3 DEF DocBlock, x, y, b
  <1> HIDE DEF e
  <1> DEFINE g == [f EXCEPT ![k] = e]
  <1>8. DOMAIN g = 1..Len(blocks)
        /\ \A j \in 1..Len(blocks) : g[j] = IF j = k THEN e ELSE f[j]
    BY <1>4
  <1>9. g = [j \in 1..Len(blocks) |-> IF j = k THEN e ELSE f[j]]
    BY <1>4
  <1>10. \A j \in 1..Len(blocks) : (IF j = k THEN e ELSE f[j]) =
           DocBlock(blocks[j].id, blocks[j].kind, IF j = k THEN new ELSE blocks[j].content,
                    NewStart(blocks, k, n, j), NewEnd(blocks, k, n, j))
    BY <1>6, <1>7
  <1> HIDE DEF f, g
  <1>11. g = es
    BY <1>9, <1>10 DEF Edited
  <1>12. QED BY <1>5, <1>11 DEF g, f

LEMMA EditedInOrder ==
  ASSUME NEW bs \in Seq(DocBlocks), NEW L \in Nat, InOrder(bs, L),
         NEW k \in 1..Len(bs), NEW new \in Seq(Pieces)
  PROVE  InOrder(Edited(bs, k, new), bs[k].start + Len(new) + (L - bs[k].end))
  <1> DEFINE n == Len(new)
             from == bs[k].start
             to == bs[k].end
             es == Edited(bs, k, new)
  <1>1. n \in Nat /\ Len(bs) \in Nat /\ Len(es) = Len(bs)
    BY LenProperties, EditedType
  <1>2. ASSUME NEW j \in 1..Len(bs)
        PROVE  /\ bs[j].start \in Nat /\ bs[j].end \in Nat /\ j \in Nat /\ k \in Nat
               /\ bs[j].start <= bs[j].end /\ bs[j].end <= L
               /\ j < k => bs[j].end <= from
               /\ j > k => to <= bs[j].start
    <2>1. bs[j] \in DocBlocks
      BY ElementOfSeq
    <2>2. j < k => j \in 1..(k - 1)
      BY <1>1
    <2>3. j > k => k \in 1..(j - 1)
      BY <1>1
    <2>4. bs[j].start <= bs[j].end /\ bs[j].end <= L
      BY DEF InOrder
    <2>5. j < k => bs[j].end <= from
      BY <2>2 DEF InOrder
    <2>6. j > k => to <= bs[j].start
      BY <2>3 DEF InOrder
    <2>7. bs[j].start \in Nat /\ bs[j].end \in Nat
      BY <2>1 DEF DocBlocks
    <2>8. QED BY <1>1, <2>4, <2>5, <2>6, <2>7
  <1>3. from \in Nat /\ to \in Nat /\ from <= to /\ to <= L
    BY <1>2
  <1>4. \A j \in 1..Len(bs) : es[j].start = NewStart(bs, k, n, j) /\ es[j].end = NewEnd(bs, k, n, j)
    BY DEF Edited, DocBlock
  <1>5. ASSUME NEW j \in 1..Len(bs)
        PROVE  /\ es[j].start = IF j > k /\ bs[j].end > from THEN bs[j].start + n - (to - from)
                                ELSE bs[j].start
               /\ es[j].end = IF (j > k \/ j = k) /\ bs[j].end > from
                              THEN bs[j].end + n - (to - from) ELSE bs[j].end
    BY <1>4 DEF NewStart, NewEnd
  <1> HIDE DEF es, n, from, to
  <1>6. ASSUME NEW j \in 1..Len(bs)
        PROVE  es[j].start <= es[j].end /\ es[j].end <= from + n + (L - to)
    <2>1. j < k \/ j = k \/ j > k
      BY <1>2
    <2>2. j = k => bs[j].start = from /\ bs[j].end = to
      BY DEF from, to
    <2>3. CASE j < k
      BY <1>1, <1>2, <1>3, <1>5, <2>3
    <2>4. CASE j = k
      BY <1>1, <1>2, <1>3, <1>5, <2>2, <2>4
    <2>5. CASE j > k
      <3>1. CASE bs[j].end > from
        <4>1. /\ es[j].start = bs[j].start + n - (to - from)
              /\ es[j].end = bs[j].end + n - (to - from)
          BY <1>5, <2>5, <3>1
        <4>2. QED BY <1>1, <1>2, <1>3, <4>1
      <3>2. CASE ~(bs[j].end > from)
        <4>1. es[j].start = bs[j].start /\ es[j].end = bs[j].end
          BY <1>5, <3>2
        <4>2. QED BY <1>1, <1>2, <1>3, <3>2, <4>1
      <3>3. QED BY <3>1, <3>2
    <2>6. QED BY <2>1, <2>3, <2>4, <2>5
  <1>7. ASSUME NEW j \in 1..Len(bs), NEW i \in 1..(j - 1) PROVE es[i].end <= es[j].start
    <2>1. i \in 1..Len(bs) /\ i < j
      BY <1>1
    <2>2. bs[i].end <= bs[j].start
      BY DEF InOrder
    <2>3. j = k => bs[j].start = from /\ bs[j].end = to
      BY DEF from, to
    <2>4. i = k => bs[i].start = from /\ bs[i].end = to
      BY DEF from, to
    <2>5. CASE j < k \/ j = k
      <3>1. i < k /\ i \in Nat
        BY <1>2, <2>1, <2>5
      <3>2. es[j].start = bs[j].start /\ es[i].end = bs[i].end
        BY <1>2, <1>5, <2>1, <2>5, <3>1
      <3>3. QED BY <2>2, <3>2
    <2>6. CASE j > k
      <3>1. bs[i].end \in Nat /\ bs[j].start \in Nat /\ bs[j].end \in Nat
            /\ bs[j].start <= bs[j].end /\ to <= bs[j].start /\ i \in Nat /\ k \in Nat
        BY <1>2, <2>1, <2>6
      <3>2. CASE bs[j].end > from
        <4>1. es[j].start = bs[j].start + n - (to - from)
          BY <1>5, <2>6, <3>2
        <4>2. CASE i < k
          <5>1. es[i].end = bs[i].end /\ bs[i].end <= from
            BY <1>2, <1>5, <2>1, <3>1, <4>2
          <5>2. QED BY <1>1, <1>3, <3>1, <4>1, <5>1
        <4>3. CASE i = k \/ i > k
          <5>1. es[i].end = IF bs[i].end > from THEN bs[i].end + n - (to - from) ELSE bs[i].end
            BY <1>5, <2>1, <4>3
          <5>2. QED BY <1>1, <1>3, <2>2, <3>1, <4>1, <5>1
        <4>4. QED BY <3>1, <4>2, <4>3
      <3>3. CASE ~(bs[j].end > from)
        <4>1. es[j].start = bs[j].start
          BY <1>5, <3>3
        <4>2. bs[i].end <= from
          BY <1>3, <2>2, <3>1, <3>3
        <4>3. es[i].end = bs[i].end
          BY <1>3, <1>5, <2>1, <3>1, <4>2
        <4>4. QED BY <2>2, <4>1, <4>3
      <3>4. QED BY <3>2, <3>3
    <2>7. QED BY <1>2, <2>5, <2>6
  <1>8. InOrder(es, from + n + (L - to))
    BY <1>1, <1>6, <1>7 DEF InOrder
  <1>9. QED BY <1>8 DEF es, n, from, to

\* An edit in place leaves an empty block empty, and the others as long as they were.
LEMMA EditedLengths ==
  ASSUME NEW bs \in Seq(DocBlocks), NEW L \in Nat, InOrder(bs, L),
         NEW k \in 1..Len(bs), NEW new \in Seq(Pieces),
         \A j \in 1..Len(bs) : Edited(bs, k, new)[j].start < Edited(bs, k, new)[j].end
  PROVE  Len(new) # 0 /\ \A j \in 1..Len(bs) : bs[j].start < bs[j].end
  <1> DEFINE n == Len(new)
             from == bs[k].start
             to == bs[k].end
             es == Edited(bs, k, new)
  <1>1. n \in Nat /\ Len(bs) \in Nat
    BY LenProperties
  <1>2. ASSUME NEW j \in 1..Len(bs)
        PROVE  /\ es[j].start = IF j > k /\ bs[j].end > from THEN bs[j].start + n - (to - from)
                                ELSE bs[j].start
               /\ es[j].end = IF (j > k \/ j = k) /\ bs[j].end > from
                              THEN bs[j].end + n - (to - from) ELSE bs[j].end
    BY DEF NewStart, NewEnd, Edited, DocBlock
  <1>3. ASSUME NEW j \in 1..Len(bs)
        PROVE  bs[j].start \in Nat /\ bs[j].end \in Nat /\ j \in Nat /\ k \in Nat
               /\ es[j].start < es[j].end
    <2>1. bs[j] \in DocBlocks
      BY ElementOfSeq
    <2>2. es[j].start < es[j].end
      OBVIOUS
    <2>3. bs[j].start \in Nat /\ bs[j].end \in Nat
      BY <2>1 DEF DocBlocks
    <2>4. j \in Nat /\ k \in Nat
      BY <1>1
    <2> HIDE DEF es
    <2>5. QED BY <2>2, <2>3, <2>4
  <1>4. from \in Nat /\ to \in Nat /\ from <= to
    BY <1>3 DEF InOrder
  <1>5. bs[k].start = from /\ bs[k].end = to
    OBVIOUS
  <1> HIDE DEF es, n, from, to
  <1>6. /\ es[k].start = from /\ es[k].start < es[k].end
        /\ es[k].end = IF to > from THEN to + n - (to - from) ELSE to
    <2>1. k > k <=> FALSE
      BY <1>3
    <2>2. QED BY <1>2, <1>3, <1>5, <2>1
  <1>7. n # 0 /\ from < to
    BY <1>1, <1>4, <1>6
  <1>8. ASSUME NEW j \in 1..Len(bs) PROVE bs[j].start < bs[j].end
    <2>1. j < k \/ j = k \/ j > k
      BY <1>3
    <2>2. CASE j < k
      BY <1>2, <1>3, <2>2
    <2>3. CASE j = k
      BY <1>7, <2>3 DEF from, to
    <2>4. CASE j > k
      BY <1>1, <1>2, <1>3, <1>4, <2>4
    <2>5. QED BY <2>1, <2>2, <2>3, <2>4
  <1>9. QED BY <1>7, <1>8 DEF n

LEMMA AnonymousIs ==
  ASSUME NEW bs \in Seq(DocBlocks)
  PROVE  /\ Anonymous(bs) \in Seq(RawBlocks) /\ Len(Anonymous(bs)) = Len(bs)
         /\ \A k \in 1..Len(bs) :
              /\ Anonymous(bs)[k].kind = bs[k].kind
              /\ Anonymous(bs)[k].content = bs[k].content
              /\ Anonymous(bs)[k].start = bs[k].start
              /\ Anonymous(bs)[k].end = bs[k].end
  <1>1. Len(bs) \in Nat /\ DOMAIN bs = 1..Len(bs)
    BY LenProperties
  <1> DEFINE raw(b) == [kind |-> b.kind, content |-> b.content, start |-> b.start, end |-> b.end]
  <1>2. ASSUME NEW k \in 1..Len(bs) PROVE raw(bs[k]) \in RawBlocks
    <2>1. bs[k] \in DocBlocks
      BY ElementOfSeq
    <2>2. QED BY <2>1 DEF DocBlocks, RawBlocks
  <1>3. Anonymous(bs) = [k \in 1..Len(bs) |-> raw(bs[k])]
    BY <1>1 DEF Anonymous
  <1>4. Anonymous(bs) \in [1..Len(bs) -> RawBlocks]
    BY <1>2, <1>3
  <1>5. Anonymous(bs) \in Seq(RawBlocks) /\ Len(Anonymous(bs)) = Len(bs)
    BY <1>1, <1>4
  <1>6. QED BY <1>3, <1>5

\* What s has from m to n, t has from p on.
Same(s, m, n, t, p) == \A i \in 1..(n - m + 1) : s[m + i - 1] = t[p + i - 1]

LEMMA SameSub ==
  ASSUME NEW s \in Seq(Pieces), NEW t \in Seq(Pieces),
         NEW m \in 1..(Len(s) + 1), NEW n \in (m - 1)..Len(s),
         NEW p \in 1..(Len(t) + 1), NEW q \in (p - 1)..Len(t), q - p = n - m,
         Same(s, m, n, t, p)
  PROVE  SubSeq(s, m, n) = SubSeq(t, p, q)
  <1> DEFINE u == SubSeq(s, m, n)
             v == SubSeq(t, p, q)
  <1>1. Len(s) \in Nat /\ Len(t) \in Nat
    BY LenProperties
  <1>2. u \in Seq(Pieces) /\ Len(u) = n - m + 1
    BY Part
  <1>3. \A i \in 1..(n - m + 1) : u[i] = s[m + i - 1]
    BY Part
  <1>4. v \in Seq(Pieces) /\ Len(v) = q - p + 1
    BY Part
  <1>5. \A i \in 1..(q - p + 1) : v[i] = t[p + i - 1]
    BY Part
  <1>6. q - p + 1 = n - m + 1
    BY <1>1
  <1> HIDE DEF u, v
  <1>7. Len(u) = Len(v) /\ \A i \in 1..Len(u) : u[i] = v[i]
    BY <1>2, <1>3, <1>4, <1>5, <1>6 DEF Same
  <1>8. u = v
    BY <1>2, <1>4, <1>7, SeqEqual
  <1>9. QED BY <1>8 DEF u, v

\* A block whose span is copied e pieces further on covers the copy.
LEMMA CopyCovers ==
  ASSUME NEW s \in Seq(Pieces), NEW t \in Seq(Pieces), NEW e \in Int,
         NEW b \in RawBlocks, Covers(b, s), NEW c \in RawBlocks,
         c.kind = b.kind, c.content = b.content,
         c.start = b.start + e, c.end = b.end + e, 0 <= c.start, c.end <= Len(t),
         \A i \in (b.start + 1)..b.end : t[i + e] = s[i]
  PROVE  Covers(c, t)
  <1> DEFINE x == b.start
             y == b.end
  <1>1. x \in Int /\ y \in Int /\ 0 <= x /\ x < y /\ y <= Len(s)
    BY DEF RawBlocks, Covers
  <1>2. Len(s) \in Nat /\ Len(t) \in Nat
    BY LenProperties
  <1>3. c.start = x + e /\ c.end = y + e
    OBVIOUS
  <1>4. b.content = SubSeq(s, x + 1, y)
    BY DEF Covers
  <1>5. \A i \in (x + 1)..y : t[i + e] = s[i]
    OBVIOUS
  <1>6. IF IsFormula(b) THEN y = x + 1 /\ IsFormula(s[y]) ELSE \A i \in (x + 1)..y : ~IsFormula(s[i])
    BY DEF Covers
  <1>7. IsFormula(c) <=> IsFormula(b)
    BY DEF IsFormula
  <1> HIDE DEF x, y
  <1>8. SubSeq(s, x + 1, y) = SubSeq(t, x + e + 1, y + e)
    <2> DEFINE m == x + 1
               p == x + e + 1
               q == y + e
    <2>0. 0 <= x + e /\ y + e <= Len(t)
      BY <1>3
    <2>1. m \in 1..(Len(s) + 1) /\ y \in (m - 1)..Len(s)
      BY <1>1, <1>2
    <2>2. p \in 1..(Len(t) + 1) /\ q \in (p - 1)..Len(t)
      BY <1>1, <1>2, <2>0
    <2>3. q - p = y - m
      BY <1>1
    <2>4. ASSUME NEW i \in 1..(y - m + 1)
          PROVE  s[m + i - 1] = t[p + i - 1]
      <3> DEFINE j == m + i - 1
      <3>1. j \in (x + 1)..y /\ p + i - 1 = j + e
        BY <1>1
      <3> HIDE DEF j
      <3>2. t[j + e] = s[j]
        BY <1>5, <3>1
      <3>3. QED BY <3>1, <3>2 DEF j
    <2> HIDE DEF m, p, q
    <2>5. Same(s, m, y, t, p)
      BY <2>4 DEF Same
    <2>6. SubSeq(s, m, y) = SubSeq(t, p, q)
      BY <2>1, <2>2, <2>3, <2>5, SameSub
    <2>7. QED BY <2>6 DEF m, p, q
  <1>9. CASE IsFormula(b)
    <2>1. y \in (x + 1)..y /\ y = x + 1
      BY <1>1, <1>6, <1>9
    <2>2. IsFormula(t[y + e])
      BY <1>5, <1>6, <1>9, <2>1
    <2>3. c.end = c.start + 1
      BY <1>1, <1>3, <2>1
    <2>4. c.content = SubSeq(t, c.start + 1, c.end)
      BY <1>3, <1>4, <1>8
    <2>5. c.start < c.end /\ c.start \in Int
      BY <1>1, <1>3
    <2>6. QED BY <1>3, <1>7, <1>9, <2>2, <2>3, <2>4, <2>5 DEF Covers
  <1>10. CASE ~IsFormula(b)
    <2>1. ASSUME NEW i \in (c.start + 1)..c.end PROVE ~IsFormula(t[i])
      <3>1. i - e \in (x + 1)..y /\ (i - e) + e = i
        BY <1>1, <1>3
      <3>2. t[(i - e) + e] = s[i - e] /\ ~IsFormula(s[i - e])
        BY <1>5, <1>6, <1>10, <3>1
      <3>3. QED BY <3>1, <3>2
    <2>2. c.content = SubSeq(t, c.start + 1, c.end)
      BY <1>3, <1>4, <1>8
    <2>3. c.start < c.end
      BY <1>1, <1>3
    <2>4. QED BY <1>7, <1>10, <2>1, <2>2, <2>3 DEF Covers
  <1>11. QED BY <1>9, <1>10

\* Where blocks that are not empty are after an edit of block k in place.
LEMMA EditedSpans ==
  ASSUME NEW bs \in Seq(DocBlocks), NEW L \in Nat, InOrder(bs, L),
         NEW k \in 1..Len(bs), NEW new \in Seq(Pieces),
         \A j \in 1..Len(bs) : bs[j].start < bs[j].end
  PROVE  \A j \in 1..Len(bs) :
           LET e == Len(new) - (bs[k].end - bs[k].start)
           IN  /\ Edited(bs, k, new)[j].start = IF j > k THEN bs[j].start + e ELSE bs[j].start
               /\ Edited(bs, k, new)[j].end = IF j >= k THEN bs[j].end + e ELSE bs[j].end
               /\ j < k => bs[j].end <= bs[k].start
               /\ j > k => bs[k].end <= bs[j].start
  <1> DEFINE n == Len(new)
             from == bs[k].start
             to == bs[k].end
             es == Edited(bs, k, new)
  <1>1. n \in Nat /\ Len(bs) \in Nat
    BY LenProperties
  <1>2. \A j \in 1..Len(bs) : bs[j].start \in Nat /\ bs[j].end \in Nat
    <2>1. \A j \in 1..Len(bs) : bs[j] \in DocBlocks
      BY ElementOfSeq
    <2>2. QED BY <2>1 DEF DocBlocks
  <1>3. SUFFICES ASSUME NEW j \in 1..Len(bs)
        PROVE  /\ es[j].start = IF j > k THEN bs[j].start + (n - (to - from)) ELSE bs[j].start
               /\ es[j].end = IF j >= k THEN bs[j].end + (n - (to - from)) ELSE bs[j].end
               /\ j < k => bs[j].end <= from
               /\ j > k => to <= bs[j].start
    OBVIOUS
  <1> DEFINE p == bs[j].start
             q == bs[j].end
  <1>4. /\ from \in Nat /\ to \in Nat /\ p \in Nat /\ q \in Nat /\ p < q /\ from < to
        /\ j \in Nat /\ k \in Nat
    BY <1>1, <1>2
  <1>5. j < k => q <= from
    <2>1. j < k => j \in 1..(k - 1)
      BY <1>4
    <2>2. QED BY <2>1 DEF InOrder
  <1>6. j > k => to <= p
    <2>1. j > k => k \in 1..(j - 1)
      BY <1>4
    <2>2. QED BY <2>1 DEF InOrder
  <1>7. j = k => q = to
    OBVIOUS
  <1>8. /\ es[j].start = IF j > k /\ q > from THEN p + n - (to - from) ELSE p
        /\ es[j].end = IF (j > k \/ j = k) /\ q > from THEN q + n - (to - from) ELSE q
    BY DEF Edited, DocBlock, NewStart, NewEnd
  <1> HIDE DEF es, n, from, to, p, q
  <1>9. j > k => q > from
    BY <1>4, <1>6
  <1>10. j = k => q > from
    BY <1>4, <1>7
  <1>11. es[j].start = IF j > k THEN p + (n - (to - from)) ELSE p
    BY <1>1, <1>4, <1>8, <1>9
  <1>12. es[j].end = IF j >= k THEN q + (n - (to - from)) ELSE q
    BY <1>1, <1>4, <1>8, <1>9, <1>10
  <1>13. QED BY <1>5, <1>6, <1>11, <1>12 DEF p, q

(***************************************************************************)
(* What an edit in place puts there for block k is what the parser makes   *)
(* of it, and the other blocks still are what it makes of theirs.          *)
(***************************************************************************)
Fits(b, new) ==
  /\ Len(new) # 0
  /\ IF IsFormula(b) THEN Len(new) = 1 /\ IsFormula(new[1])
     ELSE \A i \in 1..Len(new) : ~IsFormula(new[i])

LEMMA NewCovers ==
  ASSUME NEW s \in Seq(Pieces), NEW from \in 0..Len(s), NEW to \in from..Len(s),
         NEW new \in Seq(Pieces), NEW c \in RawBlocks, Fits(c, new),
         c.content = new, c.start = from, c.end = from + Len(new)
  PROVE  Covers(c, Spliced(s, from, to, new))
  <1> DEFINE t == Spliced(s, from, to, new)
             n == Len(new)
             w == SubSeq(t, from + 1, from + n)
  <1>1. n \in Nat /\ from \in Nat /\ to \in Nat /\ to <= Len(s) /\ Len(s) \in Nat /\ n # 0
    BY LenProperties DEF Fits
  <1>2. t \in Seq(Pieces) /\ Len(t) = from + n + (Len(s) - to)
    BY Splices
  <1>3. \A i \in 1..n : t[from + i] = new[i]
    BY Splices
  <1> HIDE DEF t, n
  <1>4. from + 1 \in 1..(Len(t) + 1) /\ from + n \in ((from + 1) - 1)..Len(t)
    BY <1>1, <1>2
  <1>5. w \in Seq(Pieces) /\ Len(w) = (from + n) - (from + 1) + 1
    BY <1>2, <1>4, Part
  <1>6. \A i \in 1..((from + n) - (from + 1) + 1) : w[i] = t[(from + 1) + i - 1]
    BY <1>2, <1>4, Part
  <1> HIDE DEF w
  <1>7. \A i \in 1..n : w[i] = new[i]
    <2>1. \A i \in 1..n : i \in 1..((from + n) - (from + 1) + 1) /\ (from + 1) + i - 1 = from + i
      BY <1>1
    <2>2. QED BY <1>3, <1>6, <2>1
  <1>8. w = new
    <2>1. Len(w) = n
      BY <1>1, <1>5
    <2>2. QED BY <1>5, <1>7, <2>1, SeqEqual DEF n
  <1>9. ASSUME NEW i \in (from + 1)..(from + n) PROVE t[i] = new[i - from] /\ i - from \in 1..n
    <2>1. i - from \in 1..n /\ from + (i - from) = i
      BY <1>1
    <2>2. QED BY <1>3, <2>1
  <1>10. c.end = from + n
    BY DEF n
  <1>11. c.content = SubSeq(t, c.start + 1, c.end)
    BY <1>8, <1>10 DEF w
  <1>12. 0 <= c.start /\ c.start < c.end /\ c.end <= Len(t)
    BY <1>1, <1>2, <1>10
  <1>13. CASE IsFormula(c)
    <2>1. n = 1 /\ IsFormula(new[1])
      BY <1>13 DEF Fits, n
    <2>2. from + n \in (from + 1)..(from + n) /\ (from + n) - from = 1
      BY <1>1, <2>1
    <2>3. t[from + n] = new[1]
      BY <1>9, <2>2
    <2>4. IsFormula(t[c.end]) /\ c.end = c.start + 1
      BY <1>10, <2>1, <2>3
    <2>5. QED BY <1>11, <1>12, <1>13, <2>4 DEF Covers, t
  <1>14. CASE ~IsFormula(c)
    <2>1. \A i \in 1..n : ~IsFormula(new[i])
      BY <1>14 DEF Fits, n
    <2>2. \A i \in (from + 1)..(from + n) : ~IsFormula(t[i])
      BY <1>9, <2>1
    <2>3. QED BY <1>10, <1>11, <1>12, <1>14, <2>2 DEF Covers, t
  <1>15. QED BY <1>13, <1>14

LEMMA EditedCovers ==
  ASSUME NEW s \in Seq(Pieces), NEW bs \in Seq(DocBlocks), InOrder(bs, Len(s)),
         \A j \in 1..Len(bs) : bs[j].start < bs[j].end,
         \A j \in 1..Len(bs) : Covers(Anonymous(bs)[j], s),
         NEW k \in 1..Len(bs), NEW new \in Seq(Pieces), Fits(bs[k], new),
         NEW j \in 1..Len(bs)
  PROVE  Covers(Anonymous(Edited(bs, k, new))[j], Spliced(s, bs[k].start, bs[k].end, new))
  <1> DEFINE from == bs[k].start
             to == bs[k].end
             n == Len(new)
             L == Len(s)
             es == Edited(bs, k, new)
             t == Spliced(s, from, to, new)
             b == Anonymous(bs)[j]
             c == Anonymous(es)[j]
             e == n - (to - from)
  <1>1. n \in Nat /\ L \in Nat /\ Len(bs) \in Nat /\ j \in Nat /\ k \in Nat
    BY LenProperties
  <1>2. from \in Nat /\ to \in Nat /\ from < to /\ to <= L
    <2>1. bs[k] \in DocBlocks
      BY ElementOfSeq
    <2>2. to <= L
      BY DEF InOrder
    <2>3. QED BY <2>1, <2>2 DEF DocBlocks
  <1>3. from \in 0..Len(s) /\ to \in from..Len(s)
    BY <1>1, <1>2
  <1>4. es \in Seq(DocBlocks) /\ Len(es) = Len(bs)
    BY <1>1, EditedType
  <1>5. /\ b \in RawBlocks /\ b.kind = bs[j].kind /\ b.content = bs[j].content
        /\ b.start = bs[j].start /\ b.end = bs[j].end
    <2>1. Anonymous(bs) \in Seq(RawBlocks) /\ Len(Anonymous(bs)) = Len(bs)
      BY AnonymousIs
    <2>2. b \in RawBlocks
      BY <2>1, ElementOfSeq
    <2>3. QED BY <2>2, AnonymousIs
  <1>6. /\ c \in RawBlocks /\ c.kind = es[j].kind /\ c.content = es[j].content
        /\ c.start = es[j].start /\ c.end = es[j].end
    <2> HIDE DEF es
    <2>1. Anonymous(es) \in Seq(RawBlocks) /\ Len(Anonymous(es)) = Len(es)
      BY <1>4, AnonymousIs
    <2>2. c \in RawBlocks
      BY <1>4, <2>1, ElementOfSeq
    <2>3. QED BY <1>4, <2>2, AnonymousIs
  <1>7. es[j].kind = bs[j].kind /\ es[j].content = IF j = k THEN new ELSE bs[j].content
    BY DEF Edited, DocBlock
  <1>8. /\ es[j].start = IF j > k THEN bs[j].start + e ELSE bs[j].start
        /\ es[j].end = IF j >= k THEN bs[j].end + e ELSE bs[j].end
        /\ j < k => bs[j].end <= from
        /\ j > k => to <= bs[j].start
    BY <1>1, EditedSpans
  <1>9. t \in Seq(Pieces) /\ Len(t) = from + n + (L - to)
    <2> HIDE DEF from, to
    <2>1. t \in Seq(Pieces)
      BY <1>3, Splices
    <2>2. Len(t) = from + n + (L - to)
      BY <1>3, Splices
    <2>3. QED BY <2>1, <2>2
  <1>10. /\ \A i \in 1..from : t[i] = s[i]
         /\ \A i \in (to + 1)..L : t[from + n + (i - to)] = s[i]
    <2> HIDE DEF from, to
    <2>1. \A i \in 1..from : t[i] = s[i]
      BY <1>3, Splices
    <2>2. \A i \in (to + 1)..L : t[from + n + (i - to)] = s[i]
      BY <1>3, Splices
    <2>3. QED BY <2>1, <2>2
  <1>11. Covers(b, s)
    OBVIOUS
  <1>12. 0 <= b.start /\ b.start < b.end /\ b.end <= L /\ b.start \in Int /\ b.end \in Int
    BY <1>5, <1>11 DEF Covers, RawBlocks
  <1>13. CASE j = k
    <2>1. Fits(c, new)
      BY <1>6, <1>7, <1>13 DEF Fits, IsFormula
    <2>2. c.content = new /\ c.start = from
      BY <1>1, <1>6, <1>7, <1>8, <1>13
    <2>3. bs[j].end = to
      BY <1>13
    <2> HIDE DEF es, t, b, c, from, to, n
    <2>4. c.end = from + n
      BY <1>1, <1>2, <1>6, <1>8, <1>13, <2>3
    <2>5. Covers(c, Spliced(s, from, to, new))
      BY <1>3, <1>6, <2>1, <2>2, <2>4, NewCovers DEF n
    <2>6. QED BY <2>5 DEF c, es, from, to
  <1>14. CASE j < k
    <2> DEFINE z == 0
    <2>0. z \in Int /\ z = 0
      OBVIOUS
    <2> HIDE DEF es, t, b, c, from, to, n, L, e, z
    <2>1. c.kind = b.kind /\ c.content = b.content
      BY <1>1, <1>5, <1>6, <1>7, <1>14
    <2>2. c.start = b.start + z /\ c.end = b.end + z /\ b.end <= from
      BY <2>0, <1>1, <1>5, <1>6, <1>8, <1>12, <1>14
    <2>3. 0 <= c.start /\ c.end <= Len(t)
      BY <1>1, <1>2, <1>9, <1>12, <2>0, <2>2
    <2>4. \A i \in (b.start + 1)..b.end : t[i + z] = s[i]
      BY <1>2, <2>0, <1>10, <1>12, <2>2
    <2>5. Covers(c, t)
      BY <1>5, <1>6, <1>9, <1>11, <2>0, <2>1, <2>2, <2>3, <2>4, CopyCovers
    <2>6. QED BY <2>5 DEF c, es, t, from, to
  <1>15. CASE j > k
    <2> HIDE DEF es, t, b, c, from, to, n, L
    <2>1. c.kind = b.kind /\ c.content = b.content
      BY <1>1, <1>5, <1>6, <1>7, <1>15
    <2>2. c.start = b.start + e /\ c.end = b.end + e /\ to <= b.start
      BY <1>1, <1>5, <1>6, <1>8, <1>12, <1>15
    <2>3. 0 <= c.start /\ c.end <= Len(t)
      <3>1. c.start = b.start + (n - (to - from)) /\ c.end = b.end + (n - (to - from))
        BY <2>2
      <3>2. 0 <= c.start
        BY <1>1, <1>2, <1>12, <2>2, <3>1
      <3>3. c.end <= from + n + (L - to)
        BY <1>1, <1>2, <1>12, <3>1
      <3>4. QED BY <1>9, <3>2, <3>3
    <2>4. ASSUME NEW i \in (b.start + 1)..b.end PROVE t[i + e] = s[i]
      <3>1. i \in (to + 1)..L /\ i + e = from + n + (i - to)
        BY <1>1, <1>2, <1>12, <2>2
      <3>2. t[from + n + (i - to)] = s[i]
        BY <1>10, <3>1
      <3> HIDE DEF e
      <3>3. QED BY <3>1, <3>2
    <2>5. e \in Int
      BY <1>1, <1>2
    <2> HIDE DEF e
    <2>6. Covers(c, t)
      BY <1>5, <1>6, <1>9, <1>11, <2>1, <2>2, <2>3, <2>4, <2>5, CopyCovers
    <2>7. QED BY <2>6 DEF c, es, t, from, to
  <1>16. QED BY <1>1, <1>13, <1>14, <1>15

LEMMA EditedTiles ==
  ASSUME NEW s \in Seq(Pieces), NEW bs \in Seq(DocBlocks), InOrder(bs, Len(s)),
         \A j \in 1..Len(bs) : bs[j].start < bs[j].end,
         Tiling(Anonymous(bs), s, Len(s)),
         NEW k \in 1..Len(bs), NEW new \in Seq(Pieces), Fits(bs[k], new)
  PROVE  LET t == Spliced(s, bs[k].start, bs[k].end, new)
         IN  t \in Seq(Pieces) /\ Tiling(Anonymous(Edited(bs, k, new)), t, Len(t))
  <1> DEFINE from == bs[k].start
             to == bs[k].end
             n == Len(new)
             L == Len(s)
             es == Edited(bs, k, new)
             t == Spliced(s, from, to, new)
             a == Anonymous(bs)
             c == Anonymous(es)
             e == n - (to - from)
             N == Len(bs)
  <1>1. n \in Nat /\ L \in Nat /\ N \in Nat /\ k \in Nat
    BY LenProperties
  <1>2. from \in Nat /\ to \in Nat /\ from < to /\ to <= L
    <2>1. bs[k] \in DocBlocks
      BY ElementOfSeq
    <2>2. to <= L
      BY DEF InOrder
    <2>3. QED BY <2>1, <2>2 DEF DocBlocks
  <1>3. from \in 0..Len(s) /\ to \in from..Len(s)
    BY <1>1, <1>2
  <1>4. t \in Seq(Pieces) /\ Len(t) = from + n + (L - to)
    <2> HIDE DEF from, to
    <2>1. t \in Seq(Pieces)
      BY <1>3, Splices
    <2>2. Len(t) = from + n + (L - to)
      BY <1>3, Splices
    <2>3. QED BY <2>1, <2>2
  <1>5. es \in Seq(DocBlocks) /\ Len(es) = N
    BY <1>1, EditedType
  <1>6. a \in Seq(RawBlocks) /\ Len(a) = N
    BY AnonymousIs
  <1>7. c \in Seq(RawBlocks) /\ Len(c) = N
    BY <1>5, AnonymousIs
  <1>8. \A j \in 1..N : Covers(a[j], s) /\ a[j].start = EndOf(a, j - 1)
    BY <1>6 DEF Tiling
  <1>9. \A j \in 1..N : Covers(c[j], t)
    BY <1>8, EditedCovers
  <1>10. \A j \in 1..N : /\ a[j].start = bs[j].start /\ a[j].end = bs[j].end /\ a[j].kind = bs[j].kind
    BY AnonymousIs
  <1>11. \A j \in 1..N : /\ c[j].start = es[j].start /\ c[j].end = es[j].end /\ c[j].kind = es[j].kind
    BY <1>5, AnonymousIs
  <1>12. \A j \in 1..N : es[j].kind = bs[j].kind
    BY DEF Edited, DocBlock
  <1>13. \A j \in 1..N : /\ es[j].start = IF j > k THEN bs[j].start + e ELSE bs[j].start
                         /\ es[j].end = IF j >= k THEN bs[j].end + e ELSE bs[j].end
    BY <1>1, EditedSpans
  <1>14. \A j \in 1..N : bs[j].start \in Nat /\ bs[j].end \in Nat
    <2>1. \A j \in 1..N : bs[j] \in DocBlocks
      BY ElementOfSeq
    <2>2. QED BY <2>1 DEF DocBlocks
  <1>15. \A j \in 2..N : IsFormula(a[j]) \/ IsFormula(a[j - 1])
    BY <1>6 DEF Tiling
  <1>16. EndOf(a, N) = L
    BY <1>6 DEF Tiling
  <1>17. e \in Int /\ N >= k /\ N \in 1..N
    BY <1>1, <1>2
  <1> HIDE DEF es, t, a, c, e, N
  <1>18. ASSUME NEW j \in 1..N PROVE c[j].start = EndOf(c, j - 1)
    <2>1. CASE j = 1
      <3>1. a[j].start = 0 /\ ~(j > k)
        BY <1>1, <1>8, <2>1 DEF EndOf
      <3>2. c[j].start = 0
        BY <1>10, <1>11, <1>13, <3>1
      <3>3. QED BY <2>1, <3>2 DEF EndOf
    <2>2. CASE j # 1
      <3> DEFINE i == j - 1
      <3>1. i \in 1..N /\ i # 0 /\ (i >= k <=> j > k)
        BY <1>1, <2>2 DEF N
      <3> HIDE DEF i
      <3>2. a[j].start = a[i].end
        BY <1>8, <3>1 DEF EndOf, i
      <3>3. c[j].start = IF j > k THEN bs[j].start + e ELSE bs[j].start
        BY <1>11, <1>13
      <3>4. c[i].end = IF i >= k THEN bs[i].end + e ELSE bs[i].end
        BY <1>11, <1>13, <3>1
      <3>5. bs[j].start = bs[i].end
        BY <1>10, <3>1, <3>2
      <3>6. c[j].start = c[i].end
        BY <3>1, <3>3, <3>4, <3>5
      <3>7. QED BY <3>1, <3>6 DEF EndOf, i
    <2>3. QED BY <2>1, <2>2
  <1>19. ASSUME NEW j \in 2..N PROVE IsFormula(c[j]) \/ IsFormula(c[j - 1])
    <2> DEFINE i == j - 1
    <2>1. j \in 1..N /\ i \in 1..N
      BY <1>1 DEF N
    <2>2. IsFormula(a[j]) \/ IsFormula(a[i])
      BY <1>15
    <2> HIDE DEF i
    <2>3. c[j].kind = a[j].kind /\ c[i].kind = a[i].kind
      BY <1>10, <1>11, <1>12, <2>1
    <2>4. IsFormula(c[j]) \/ IsFormula(c[i])
      BY <2>2, <2>3 DEF IsFormula
    <2>5. QED BY <2>4 DEF i
  <1>20. EndOf(c, N) = Len(t)
    <2>1. N # 0
      BY <1>1, <1>17
    <2>2. bs[N].end = L
      BY <1>10, <1>16, <1>17, <2>1 DEF EndOf
    <2>3. c[N].end = bs[N].end + e
      BY <1>11, <1>13, <1>17
    <2>4. L + e = from + n + (L - to)
      BY <1>1, <1>2 DEF e
    <2>5. QED BY <1>4, <2>1, <2>2, <2>3, <2>4 DEF EndOf
  <1>21. Tiling(c, t, Len(t))
    BY <1>7, <1>9, <1>18, <1>19, <1>20 DEF Tiling
  <1>22. QED BY <1>4, <1>21 DEF c, t, es

(***************************************************************************)
(* The document made of a parse and identities for its blocks.             *)
(***************************************************************************)
\* A formula is one piece, and a paragraph has no formulas in it.
Sensible(b) ==
  IF IsFormula(b) THEN Len(b.content) = 1 /\ IsFormula(b.content[1])
  ELSE \A i \in 1..Len(b.content) : ~IsFormula(b.content[i])

Named(s, ids) == [k \in DOMAIN Parsed(s) |-> Identified(Parsed(s)[k], ids[k])]

LEMMA CoveringIsSensible ==
  ASSUME NEW s \in Seq(Pieces), NEW b \in RawBlocks, Covers(b, s)
  PROVE  Sensible(b)
  <1> DEFINE x == b.start
             y == b.end
             w == SubSeq(s, x + 1, y)
  <1>1. x \in Int /\ y \in Int /\ 0 <= x /\ x < y /\ y <= Len(s) /\ Len(s) \in Nat
    BY LenProperties DEF RawBlocks, Covers
  <1>2. b.content = w
    BY DEF Covers
  <1>3. IF IsFormula(b) THEN y = x + 1 /\ IsFormula(s[y]) ELSE \A i \in (x + 1)..y : ~IsFormula(s[i])
    BY DEF Covers
  <1> HIDE DEF x, y
  <1>4. x + 1 \in 1..(Len(s) + 1) /\ y \in ((x + 1) - 1)..Len(s)
    BY <1>1
  <1>5. Len(w) = y - (x + 1) + 1
    BY <1>4, Part
  <1>6. \A i \in 1..(y - (x + 1) + 1) : w[i] = s[(x + 1) + i - 1]
    BY <1>4, Part
  <1> HIDE DEF w
  <1>7. \A i \in 1..(y - x) : w[i] = s[x + i]
    <2>1. \A i \in 1..(y - x) : i \in 1..(y - (x + 1) + 1) /\ (x + 1) + i - 1 = x + i
      BY <1>1
    <2>2. QED BY <1>6, <2>1
  <1>8. Len(w) = y - x
    BY <1>1, <1>5
  <1>9. CASE IsFormula(b)
    <2>1. y = x + 1 /\ IsFormula(s[y]) /\ 1 \in 1..(y - x)
      BY <1>1, <1>3, <1>9
    <2>2. w[1] = s[x + 1]
      BY <1>7, <2>1
    <2>3. Len(w) = 1 /\ IsFormula(w[1])
      BY <1>1, <1>8, <2>1, <2>2
    <2>4. QED BY <1>2, <1>9, <2>3 DEF Sensible
  <1>10. CASE ~IsFormula(b)
    <2>1. ASSUME NEW i \in 1..(y - x) PROVE ~IsFormula(w[i])
      <3> DEFINE j == x + i
      <3>1. j \in (x + 1)..y
        BY <1>1
      <3>2. w[i] = s[j]
        BY <1>7
      <3> HIDE DEF j
      <3>3. QED BY <1>3, <1>10, <3>1, <3>2
    <2>2. QED BY <1>2, <1>8, <1>10, <2>1 DEF Sensible
  <1>11. QED BY <1>9, <1>10

LEMMA ParsedLength ==
  ASSUME NEW s \in Seq(Pieces)
  PROVE  /\ Parsed(s) \in Seq(RawBlocks) /\ DOMAIN Parsed(s) = 1..Len(Parsed(s))
         /\ Len(Parsed(s)) \in 0..Len(s)
  <1> DEFINE bs == Parsed(s)
  <1>1. Tiling(bs, s, Len(s)) /\ Len(s) \in Nat
    BY ParsedTiles, LenProperties
  <1> HIDE DEF bs
  <1>2. Len(bs) \in Nat /\ DOMAIN bs = 1..Len(bs) /\ EndOf(bs, Len(bs)) = Len(s)
    BY <1>1, TilingFacts DEF Tiling
  <1>3. Len(bs) <= EndOf(bs, Len(bs))
    BY <1>1, <1>2, EndsGrow
  <1>4. bs \in Seq(RawBlocks)
    BY <1>1 DEF Tiling
  <1>5. QED BY <1>1, <1>2, <1>3, <1>4 DEF bs

LEMMA NamedIs ==
  ASSUME NEW s \in Seq(Pieces), NEW ids, \A k \in DOMAIN Parsed(s) : ids[k] \in AnyIds
  PROVE  /\ Named(s, ids) \in Seq(DocBlocks) /\ Len(Named(s, ids)) = Len(Parsed(s))
         /\ \A k \in 1..Len(Parsed(s)) :
              /\ Named(s, ids)[k].id = ids[k]
              /\ Named(s, ids)[k].kind = Parsed(s)[k].kind
              /\ Named(s, ids)[k].content = Parsed(s)[k].content
              /\ Named(s, ids)[k].start = Parsed(s)[k].start
              /\ Named(s, ids)[k].end = Parsed(s)[k].end
              /\ Sensible(Named(s, ids)[k])
  <1> DEFINE bs == Parsed(s)
             ds == Named(s, ids)
  <1>1. bs \in Seq(RawBlocks) /\ DOMAIN bs = 1..Len(bs) /\ Len(bs) \in Nat
    BY ParsedLength, LenProperties
  <1>2. Tiling(bs, s, Len(s))
    BY ParsedTiles
  <1>3. ds = [k \in 1..Len(bs) |-> Identified(bs[k], ids[k])]
    BY <1>1 DEF Named
  <1>4. \A k \in 1..Len(bs) : ids[k] \in AnyIds
    BY <1>1
  <1> HIDE DEF bs, ds
  <1>5. ASSUME NEW k \in 1..Len(bs)
        PROVE  bs[k] \in RawBlocks /\ Covers(bs[k], s)
    BY <1>2, TilingFacts DEF Tiling
  <1>6. ASSUME NEW k \in 1..Len(bs)
        PROVE  Identified(bs[k], ids[k]) \in DocBlocks
    <2>1. bs[k].start \in Nat /\ bs[k].end \in Nat
      BY <1>5 DEF Covers, RawBlocks
    <2>2. QED BY <1>4, <1>5, <2>1 DEF Identified, DocBlocks, RawBlocks
  <1>7. ds \in [1..Len(bs) -> DocBlocks]
    BY <1>3, <1>6
  <1>8. ds \in Seq(DocBlocks) /\ Len(ds) = Len(bs)
    BY <1>1, <1>7
  <1>9. ASSUME NEW k \in 1..Len(bs)
        PROVE  /\ ds[k].id = ids[k] /\ ds[k].kind = bs[k].kind /\ ds[k].content = bs[k].content
               /\ ds[k].start = bs[k].start /\ ds[k].end = bs[k].end
    BY <1>3 DEF Identified
  <1>10. ASSUME NEW k \in 1..Len(bs) PROVE Sensible(ds[k])
    <2>1. Sensible(bs[k])
      BY <1>5, CoveringIsSensible
    <2>2. QED BY <1>9, <2>1 DEF Sensible, IsFormula
  <1>11. QED BY <1>8, <1>9, <1>10 DEF bs, ds

LEMMA NamedTiles ==
  ASSUME NEW s \in Seq(Pieces), NEW ids, \A k \in DOMAIN Parsed(s) : ids[k] \in AnyIds
  PROVE  Anonymous(Named(s, ids)) = Parsed(s) /\ InOrder(Named(s, ids), Len(s))
  <1> DEFINE bs == Parsed(s)
             ds == Named(s, ids)
             as == Anonymous(ds)
             N == Len(bs)
  <1>1. bs \in Seq(RawBlocks) /\ DOMAIN bs = 1..N /\ N \in Nat
    BY ParsedLength, LenProperties
  <1>2. Tiling(bs, s, Len(s))
    BY ParsedTiles
  <1>3. ds \in Seq(DocBlocks) /\ Len(ds) = N
    BY NamedIs
  <1>4. \A k \in 1..N : /\ ds[k].kind = bs[k].kind /\ ds[k].content = bs[k].content
                        /\ ds[k].start = bs[k].start /\ ds[k].end = bs[k].end
    BY NamedIs
  <1> HIDE DEF ds
  <1>5. as \in Seq(RawBlocks) /\ Len(as) = N
    BY <1>3, AnonymousIs
  <1>6. \A k \in 1..N : /\ as[k].kind = ds[k].kind /\ as[k].content = ds[k].content
                        /\ as[k].start = ds[k].start /\ as[k].end = ds[k].end
    BY <1>3, AnonymousIs
  <1> HIDE DEF as, bs
  <1>7. ASSUME NEW k \in 1..N PROVE as[k] = bs[k]
    <2>1. as[k] \in RawBlocks /\ bs[k] \in RawBlocks
      BY <1>1, <1>5, ElementOfSeq
    <2>2. /\ as[k].kind = bs[k].kind /\ as[k].content = bs[k].content
          /\ as[k].start = bs[k].start /\ as[k].end = bs[k].end
      BY <1>4, <1>6
    <2>3. /\ as[k] = [kind |-> as[k].kind, content |-> as[k].content,
                      start |-> as[k].start, end |-> as[k].end]
          /\ bs[k] = [kind |-> bs[k].kind, content |-> bs[k].content,
                      start |-> bs[k].start, end |-> bs[k].end]
      BY <2>1 DEF RawBlocks
    <2>4. QED BY <2>2, <2>3
  <1>8. as = bs
    BY <1>1, <1>5, <1>7, SeqEqual
  <1>9. ASSUME NEW k \in 1..N
        PROVE  /\ ds[k].start <= ds[k].end /\ ds[k].end <= Len(s)
               /\ \A j \in 1..(k - 1) : ds[j].end <= ds[k].start
    <2>1. Covers(bs[k], s) /\ bs[k].start = EndOf(bs, k - 1) /\ bs[k] \in RawBlocks
      BY <1>2, TilingFacts DEF Tiling
    <2>2. bs[k].start <= bs[k].end /\ bs[k].end <= Len(s)
      BY <2>1 DEF Covers, RawBlocks
    <2>3. ASSUME NEW j \in 1..(k - 1) PROVE ds[j].end <= ds[k].start
      <3>1. j \in 1..N /\ j \in 0..(k - 1) /\ k - 1 \in 0..N /\ j # 0
        BY <1>1
      <3>2. EndOf(bs, j) <= EndOf(bs, k - 1)
        BY <1>2, <3>1, EndsGrow DEF N
      <3>3. EndOf(bs, j) = bs[j].end
        BY <3>1 DEF EndOf
      <3>4. bs[j].end <= bs[k].start
        BY <2>1, <3>2, <3>3
      <3>5. QED BY <1>4, <3>1, <3>4
    <2>4. QED BY <1>4, <2>2, <2>3
  <1>10. InOrder(ds, Len(s))
    BY <1>3, <1>9 DEF InOrder
  <1>11. QED BY <1>8, <1>10 DEF as, bs, ds

-----------------------------------------------------------------------------
(* Matching *)

LEMMA BestIsOne ==
  ASSUME NEW N \in Nat, NEW C \in SUBSET (1..N), C # {}, NEW score \in [C -> Int]
  PROVE  BestOf(score) \in C
  <1> DEFINE Best(i, n) == /\ i \in C /\ i <= n
                           /\ \A j \in C : j <= n => score[i] > score[j]
                                                     \/ (score[i] = score[j] /\ i >= j)
             P == {n \in 0..N : (\A j \in C : j > n) \/ \E i \in C : Best(i, n)}
  <1>1. 0 \in P
    OBVIOUS
  <1>2. ASSUME NEW n \in 1..N, n - 1 \in P PROVE n \in P
    <2>0. n \in 0..N
      OBVIOUS
    <2>1. CASE n \notin C
      <3>1. \A j \in C : j <= n => j <= n - 1
        BY <2>1
      <3>2. CASE \A j \in C : j > n - 1
        <4>1. \A j \in C : j > n
          BY <3>1, <3>2
        <4>2. QED BY <2>0, <4>1
      <3>3. CASE \E i \in C : Best(i, n - 1)
        <4>1. PICK i \in C : Best(i, n - 1)
          BY <3>3
        <4>2. Best(i, n)
          BY <3>1, <4>1
        <4> HIDE DEF Best
        <4>3. QED BY <2>0, <4>2
      <3>4. QED BY <1>2, <3>2, <3>3
    <2>2. CASE n \in C
      <3>0. \A j \in C : j <= n => j = n \/ j <= n - 1
        OBVIOUS
      <3>1. CASE \A j \in C : j > n - 1
        <4>1. \A j \in C : j <= n => j = n
          BY <3>0, <3>1
        <4>2. Best(n, n)
          BY <2>2, <4>1
        <4> HIDE DEF Best
        <4>3. QED BY <2>0, <2>2, <4>2
      <3>2. CASE \E i \in C : Best(i, n - 1)
        <4>1. PICK i \in C : Best(i, n - 1)
          BY <3>2
        <4>2. CASE score[n] >= score[i]
          <5>1. ASSUME NEW j \in C, j <= n
                PROVE  score[n] > score[j] \/ (score[n] = score[j] /\ n >= j)
            <6>1. score[i] \in Int /\ score[j] \in Int /\ score[n] \in Int
              BY <2>2
            <6>2. j = n \/ score[i] >= score[j]
              BY <3>0, <4>1, <5>1, <6>1
            <6>3. QED BY <4>2, <5>1, <6>1, <6>2
          <5>2. Best(n, n)
            BY <2>2, <5>1
          <5> HIDE DEF Best
          <5>3. QED BY <2>0, <2>2, <5>2
        <4>3. CASE ~(score[n] >= score[i])
          <5>1. score[i] > score[n]
            BY <2>2, <4>3
          <5>2. Best(i, n)
            BY <3>0, <4>1, <5>1
          <5> HIDE DEF Best
          <5>3. QED BY <2>0, <5>2
        <4>4. QED BY <4>2, <4>3
      <3>3. QED BY <1>2, <3>1, <3>2
    <2>3. QED BY <2>1, <2>2
  <1> HIDE DEF P
  <1>3. N \in P
    BY <1>1, <1>2, Induction
  <1>4. ~(\A j \in C : j > N)
    <2>1. PICK j \in C : j \in 1..N
      OBVIOUS
    <2>2. ~(j > N)
      BY <2>1
    <2>3. QED BY <2>2
  <1>5. PICK i \in C : Best(i, N)
    BY <1>3, <1>4 DEF P
  <1>6. \A j \in C : score[i] > score[j] \/ (score[i] = score[j] /\ i >= j)
    BY <1>5
  <1>7. DOMAIN score = C
    OBVIOUS
  <1>8. BestOf(score) = CHOOSE x \in C :
          \A j \in C : score[x] > score[j] \/ (score[x] = score[j] /\ x >= j)
    BY <1>7 DEF BestOf
  <1>9. QED BY <1>6, <1>8

LEMMA ScoreType ==
  ASSUME NEW old \in Seq(DocBlocks), NEW new \in Seq(RawBlocks),
         NEW i \in 1..Len(old), NEW k \in 1..Len(new)
  PROVE  Score(old, new, i, k) \in Int
  <1>1. old[i].start \in Int /\ new[k].start \in Int
    <2>1. old[i] \in DocBlocks /\ new[k] \in RawBlocks
      BY ElementOfSeq
    <2>2. old[i].start \in Nat
      BY <2>1 DEF DocBlocks
    <2>3. new[k].start \in Int
      BY <2>1 DEF RawBlocks
    <2>4. QED BY <2>2, <2>3
  <1> DEFINE x == old[i].start
             y == new[k].start
             a == Hash(old[i]) = Hash(new[k])
             b == Beside(old, i - 1) = Beside(new, k - 1)
             c == Beside(old, i + 1) = Beside(new, k + 1)
             d == Overlap(old[i], new[k])
  <1>2. Score(old, new, i, k) =
             (IF a THEN 10000 ELSE 0) + (IF b THEN 300 ELSE 0) + (IF c THEN 300 ELSE 0)
           + (IF d THEN 3000 ELSE 0) + (2000 - (IF x < y THEN y - x ELSE x - y))
    BY DEF Score
  <1> HIDE DEF x, y, a, b, c, d
  <1>3. x \in Int /\ y \in Int
    BY <1>1 DEF x, y
  <1>4. (IF x < y THEN y - x ELSE x - y) \in Int
    BY <1>3
  <1>5. QED BY <1>2, <1>4

\* A block goes on one of its candidates if they are acceptable.
LEMMA ChoiceAmong ==
  ASSUME NEW old \in Seq(DocBlocks), NEW new \in Seq(RawBlocks), NEW k \in 1..Len(new), NEW taken
  PROVE  /\ Choice(old, new, taken, k) # 0 =>
              /\ Choice(old, new, taken, k) \in Candidates(old, new, taken, k)
              /\ Accepts(old[Choice(old, new, taken, k)], new[k])
         /\ (/\ Candidates(old, new, taken, k) # {}
             /\ \A i \in Candidates(old, new, taken, k) : Accepts(old[i], new[k])) =>
              Choice(old, new, taken, k) \in Candidates(old, new, taken, k)
  <1> DEFINE C == Candidates(old, new, taken, k)
             score == [i \in C |-> Score(old, new, i, k)]
             best == BestOf(score)
  <1>1. Len(old) \in Nat /\ DOMAIN old = 1..Len(old)
    BY LenProperties
  <1>2. C \in SUBSET (1..Len(old))
    BY <1>1 DEF Candidates
  <1> HIDE DEF C
  <1>3. score \in [C -> Int]
    BY <1>2, ScoreType
  <1>4. C # {} => best \in C
    <2> HIDE DEF score
    <2>1. QED BY <1>1, <1>2, <1>3, BestIsOne
  <1>5. Choice(old, new, taken, k) = IF C # {} /\ Accepts(old[best], new[k]) THEN best ELSE 0
    BY DEF Choice, C
  <1> HIDE DEF best
  <1>6. QED BY <1>4, <1>5 DEF C

LEMMA ChoiceIs ==
  ASSUME NEW old \in Seq(DocBlocks), NEW new \in Seq(RawBlocks), NEW k \in 1..Len(new), NEW taken
  PROVE  \/ Choice(old, new, taken, k) = 0
         \/ /\ Choice(old, new, taken, k) \in 1..Len(old)
            /\ Choice(old, new, taken, k) \notin Range(taken)
            /\ old[Choice(old, new, taken, k)].kind = new[k].kind
  <1>1. DOMAIN old = 1..Len(old)
    BY LenProperties
  <1>2. \A i \in Candidates(old, new, taken, k) :
          i \in 1..Len(old) /\ i \notin Range(taken) /\ old[i].kind = new[k].kind
    BY <1>1 DEF Candidates
  <1>3. Choice(old, new, taken, k) # 0 =>
          Choice(old, new, taken, k) \in Candidates(old, new, taken, k)
    BY ChoiceAmong
  <1>4. QED BY <1>2, <1>3

\* An old block of the same content and kind, if one is left.
LEMMA ExactChoice ==
  ASSUME NEW old \in Seq(DocBlocks), NEW new \in Seq(RawBlocks), NEW k \in 1..Len(new), NEW taken,
         NEW i \in 1..Len(old), i \notin Range(taken),
         old[i].kind = new[k].kind, Hash(old[i]) = Hash(new[k])
  PROVE  /\ Choice(old, new, taken, k) \in 1..Len(old)
         /\ Hash(old[Choice(old, new, taken, k)]) = Hash(new[k])
  <1> DEFINE C == Candidates(old, new, taken, k)
             same == {j \in DOMAIN old \ Range(taken) : old[j].kind = new[k].kind}
             exact == {j \in same : Hash(old[j]) = Hash(new[k])}
  <1>1. DOMAIN old = 1..Len(old)
    BY LenProperties
  <1>2. i \in exact /\ C = exact
    <2>1. i \in exact
      BY <1>1
    <2>2. QED BY <2>1 DEF Candidates
  <1>3. \A j \in exact : j \in 1..Len(old) /\ Hash(old[j]) = Hash(new[k])
    BY <1>1
  <1> HIDE DEF exact
  <1>4. \A j \in C : Accepts(old[j], new[k])
    BY <1>2, <1>3 DEF Accepts
  <1>5. Choice(old, new, taken, k) \in C
    <2>1. C # {}
      BY <1>2
    <2>2. QED BY <1>4, <2>1, ChoiceAmong
  <1>6. QED BY <1>2, <1>3, <1>5

(***************************************************************************)
(* The first n blocks of a parse go on different old blocks of their kind, *)
(* or on none.                                                             *)
(***************************************************************************)
Matches(old, new, f, n) ==
  /\ f \in Seq(0..Len(old)) /\ Len(f) = n
  /\ \A k \in 1..n : f[k] # 0 => /\ old[f[k]].kind = new[k].kind
                                 /\ \A j \in 1..(k - 1) : f[j] # f[k]

(***************************************************************************)
(* Each of them goes on an old block of its content and kind as long as    *)
(* one is left, and on one of another content only if they overlap.        *)
(***************************************************************************)
IsLeft(old, f, k, i) == i \in 1..Len(old) /\ \A j \in 1..(k - 1) : f[j] # i

IsSame(b, c) == b.kind = c.kind /\ Hash(b) = Hash(c)

Chooses(old, new, f, k) ==
  /\ (\E i : IsLeft(old, f, k, i) /\ IsSame(old[i], new[k])) =>
       f[k] \in 1..Len(old) /\ Hash(old[f[k]]) = Hash(new[k])
  /\ f[k] # 0 => Accepts(old[f[k]], new[k])

AllChoose(old, new, f) == \A k \in 1..Len(new) : Chooses(old, new, f, k)

LEMMA ChoiceMatches ==
  ASSUME NEW old \in Seq(DocBlocks), NEW new \in Seq(RawBlocks), NEW n \in 1..Len(new),
         NEW f, Matches(old, new, f, n - 1)
  PROVE  Matches(old, new, Append(f, Choice(old, new, f, n)), n)
  <1> DEFINE x == Choice(old, new, f, n)
             g == Append(f, x)
  <1>1. Len(old) \in Nat /\ Len(new) \in Nat /\ f \in Seq(0..Len(old)) /\ Len(f) = n - 1
    BY LenProperties DEF Matches
  <1>2. x = 0 \/ (x \in 1..Len(old) /\ x \notin Range(f) /\ old[x].kind = new[n].kind)
    BY ChoiceIs
  <1>3. x \in 0..Len(old)
    BY <1>1, <1>2
  <1> HIDE DEF x
  <1>4. g \in Seq(0..Len(old)) /\ Len(g) = n /\ \A k \in 1..(n - 1) : g[k] = f[k]
    BY <1>1, <1>3, AppendProperties
  <1>5. g[n] = x
    <2>1. g[Len(f) + 1] = x
      BY <1>1, <1>3, AppendProperties
    <2>2. QED BY <1>1, <2>1
  <1>6. \A k \in 1..(n - 1) : f[k] \in Range(f)
    <2>1. DOMAIN f = 1..(n - 1)
      BY <1>1
    <2>2. QED BY <2>1 DEF Range
  <1> HIDE DEF g
  <1>7. ASSUME NEW k \in 1..n, g[k] # 0
        PROVE  old[g[k]].kind = new[k].kind /\ \A j \in 1..(k - 1) : g[j] # g[k]
    <2>1. CASE k = n
      <3>1. x # 0 /\ x \notin Range(f) /\ old[x].kind = new[n].kind
        BY <1>2, <1>5, <1>7, <2>1
      <3>2. \A j \in 1..(n - 1) : g[j] # x
        BY <1>4, <1>6, <3>1
      <3>3. QED BY <1>5, <2>1, <3>1, <3>2
    <2>2. CASE k # n
      <3>1. k \in 1..(n - 1) /\ \A j \in 1..(k - 1) : j \in 1..(n - 1)
        BY <2>2
      <3>2. g[k] = f[k] /\ \A j \in 1..(k - 1) : g[j] = f[j]
        BY <1>4, <3>1
      <3>3. old[f[k]].kind = new[k].kind /\ \A j \in 1..(k - 1) : f[j] # f[k]
        BY <1>7, <3>1, <3>2 DEF Matches
      <3>4. QED BY <3>2, <3>3
    <2>3. QED BY <2>1, <2>2
  <1>8. Matches(old, new, g, n)
    BY <1>4, <1>7 DEF Matches
  <1>9. QED BY <1>8 DEF g, x

LEMMA ChoiceChooses ==
  ASSUME NEW old \in Seq(DocBlocks), NEW new \in Seq(RawBlocks), NEW n \in 1..Len(new),
         NEW f, Matches(old, new, f, n - 1), \A k \in 1..(n - 1) : Chooses(old, new, f, k)
  PROVE  \A k \in 1..n : Chooses(old, new, Append(f, Choice(old, new, f, n)), k)
  <1> DEFINE x == Choice(old, new, f, n)
             g == Append(f, x)
  <1>1. Len(old) \in Nat /\ Len(new) \in Nat /\ f \in Seq(0..Len(old)) /\ Len(f) = n - 1
    BY LenProperties DEF Matches
  <1>2. x \in 0..Len(old) /\ (x # 0 => Accepts(old[x], new[n]))
    <2>1. x = 0 \/ x \in 1..Len(old)
      BY ChoiceIs
    <2>2. x # 0 => Accepts(old[x], new[n])
      BY ChoiceAmong
    <2>3. QED BY <1>1, <2>1, <2>2
  <1>3. DOMAIN f = 1..(n - 1)
    BY <1>1
  <1>4. ASSUME NEW i \in 1..Len(old), \A j \in 1..(n - 1) : f[j] # i, IsSame(old[i], new[n])
        PROVE  x \in 1..Len(old) /\ Hash(old[x]) = Hash(new[n])
    <2>1. i \notin Range(f)
      BY <1>3, <1>4 DEF Range
    <2>2. old[i].kind = new[n].kind /\ Hash(old[i]) = Hash(new[n])
      BY <1>4 DEF IsSame
    <2>3. QED BY <2>1, <2>2, ExactChoice
  <1> HIDE DEF x
  <1>5. \A k \in 1..(n - 1) : g[k] = f[k]
    BY <1>1, <1>2, AppendProperties
  <1>6. g[n] = x
    <2>1. g[Len(f) + 1] = x
      BY <1>1, <1>2, AppendProperties
    <2>2. QED BY <1>1, <2>1
  <1> HIDE DEF g
  <1>7. Chooses(old, new, g, n)
    BY <1>2, <1>4, <1>5, <1>6 DEF Chooses, IsLeft
  <1>8. ASSUME NEW k \in 1..(n - 1) PROVE Chooses(old, new, g, k)
    <2>1. g[k] = f[k] /\ \A j \in 1..(k - 1) : g[j] = f[j]
      <3>1. \A j \in 1..(k - 1) : j \in 1..(n - 1)
        OBVIOUS
      <3>2. QED BY <1>5, <3>1
    <2>2. Chooses(old, new, f, k)
      BY <1>4
    <2>3. QED BY <2>1, <2>2 DEF Chooses, IsLeft
  <1>9. \A k \in 1..n : k = n \/ k \in 1..(n - 1)
    OBVIOUS
  <1>10. QED BY <1>7, <1>8, <1>9 DEF g, x

LEMMA MatchRuns ==
  ASSUME NEW old \in Seq(DocBlocks), NEW new \in Seq(RawBlocks)
  PROVE  \E f : f = [k \in 0..Len(new) |->
                      IF k = 0 THEN <<>> ELSE Append(f[k - 1], Choice(old, new, f[k - 1], k))]
  <1> DEFINE N == Len(new)
             V == Seq(0..Len(old))
             move(t, n) == Append(t, Choice(old, new, t, n))
             moved(p) == move(p[1], p[2])
             W == V \X (1..N)
             step == [p \in W |-> moved(p)]
  <1>1. N \in Nat /\ Len(old) \in Nat
    BY LenProperties
  <1>2. <<>> \in V
    BY EmptySeq
  <1>3. ASSUME NEW t \in V, NEW n \in 1..N PROVE move(t, n) \in V
    <2>1. Choice(old, new, t, n) \in 0..Len(old)
      BY <1>1, ChoiceIs
    <2>2. QED BY <2>1, AppendProperties
  <1> HIDE DEF V, move
  <1>4. \A t \in V, n \in 1..N : <<t, n>> \in W /\ moved(<<t, n>>) = move(t, n)
    OBVIOUS
  <1>5. \A p \in W : moved(p) \in V
    BY <1>3
  <1> HIDE DEF moved
  <1>6. step \in [V \X (1..N) -> V] /\ \A p \in W : step[p] = moved(p)
    <2> HIDE DEF W
    <2>1. step \in [W -> V] /\ \A p \in W : step[p] = moved(p)
      BY <1>5
    <2>2. QED BY <2>1 DEF W
  <1> HIDE DEF step, W, N
  <1>7. PICK f \in [0..N -> V] : f[0] = <<>> /\ \A n \in 1..N : f[n] = step[<<f[n - 1], n>>]
    <2>1. step \in [V \X (1..N) -> V]
      BY <1>6
    <2>2. \E f \in [0..N -> V] : IsRun(f, N, <<>>, step)
      BY <1>1, <1>2, <2>1, Recursion
    <2>3. QED BY <2>2 DEF IsRun
  <1>8. \A n \in 1..N : f[n] = move(f[n - 1], n)
    <2>1. \A n \in 1..N : n - 1 \in 0..N
      BY <1>1
    <2>2. QED BY <1>4, <1>6, <1>7, <2>1
  <1>9. f = [n \in 0..N |-> IF n = 0 THEN <<>> ELSE move(f[n - 1], n)]
    <2>1. \A n \in 0..N : n = 0 \/ n \in 1..N
      BY <1>1
    <2>2. QED BY <1>7, <1>8, <2>1
  <1>10. QED BY <1>9 DEF N, move

LEMMA MatchedIs ==
  ASSUME NEW old \in Seq(DocBlocks), NEW new \in Seq(RawBlocks)
  PROVE  /\ Matches(old, new, Matched(old, new), Len(new))
         /\ AllChoose(old, new, Matched(old, new))
  <1> DEFINE matched[k \in 0..Len(new)] ==
               IF k = 0 THEN <<>>
               ELSE Append(matched[k - 1], Choice(old, new, matched[k - 1], k))
  <1>1. Matched(old, new) = matched[Len(new)]
    BY DEF Matched
  <1>2. matched = [k \in 0..Len(new) |->
                     IF k = 0 THEN <<>>
                     ELSE Append(matched[k - 1], Choice(old, new, matched[k - 1], k))]
    BY MatchRuns
  <1> HIDE DEF matched
  <1> DEFINE P == {n \in 0..Len(new) : /\ Matches(old, new, matched[n], n)
                                       /\ \A k \in 1..n : Chooses(old, new, matched[n], k)}
  <1>3. Len(new) \in Nat
    BY LenProperties
  <1>4. 0 \in P
    <2>1. 0 \in 0..Len(new)
      BY <1>3
    <2>2. matched[0] = <<>>
      BY <1>2, <2>1
    <2>3. Matches(old, new, <<>>, 0)
      BY EmptySeq DEF Matches
    <2>4. QED BY <2>1, <2>2, <2>3
  <1>5. ASSUME NEW n \in 1..Len(new), n - 1 \in P PROVE n \in P
    <2>1. n \in 0..Len(new) /\ n # 0
      BY <1>3
    <2>2. matched[n] = Append(matched[n - 1], Choice(old, new, matched[n - 1], n))
      BY <1>2, <2>1
    <2>3. /\ Matches(old, new, matched[n - 1], n - 1)
          /\ \A k \in 1..(n - 1) : Chooses(old, new, matched[n - 1], k)
      BY <1>5
    <2>4. Matches(old, new, matched[n], n)
      BY <2>2, <2>3, ChoiceMatches
    <2>5. \A k \in 1..n : Chooses(old, new, matched[n], k)
      BY <2>2, <2>3, ChoiceChooses
    <2>6. QED BY <2>1, <2>4, <2>5
  <1> HIDE DEF P
  <1>6. Len(new) \in P
    <2>1. \A n \in 0..Len(new) : n \in P
      BY <1>3, <1>4, <1>5, Induction
    <2>2. QED BY <1>3, <2>1
  <1>7. QED BY <1>1, <1>6 DEF P, AllChoose

-----------------------------------------------------------------------------
(* Fresh identities *)

Unmatched(f, n) == {j \in 1..n : f[j] = 0}

LEMMA UnmatchedCount ==
  ASSUME NEW f, NEW n \in Nat
  PROVE  /\ IsFiniteSet(Unmatched(f, n)) /\ Cardinality(Unmatched(f, n)) \in Nat
         /\ \A m \in 0..n : /\ Cardinality(Unmatched(f, m)) \in Nat
                            /\ Cardinality(Unmatched(f, m)) <= Cardinality(Unmatched(f, n))
                            /\ f[n] = 0 /\ m < n
                                 => Cardinality(Unmatched(f, m)) < Cardinality(Unmatched(f, n))
  <1> DEFINE U == Unmatched(f, n)
  <1>1. IsFiniteSet(U)
    <2>1. IsFiniteSet(1..n)
      BY FS_Interval
    <2>2. U \subseteq 1..n
      BY DEF Unmatched
    <2>3. QED BY <2>1, <2>2, FS_Subset
  <1>2. Cardinality(U) \in Nat
    BY <1>1, FS_CardinalityType
  <1>3. ASSUME NEW m \in 0..n
        PROVE  /\ Cardinality(Unmatched(f, m)) \in Nat
               /\ Cardinality(Unmatched(f, m)) <= Cardinality(U)
               /\ f[n] = 0 /\ m < n => Cardinality(Unmatched(f, m)) < Cardinality(U)
    <2> DEFINE M == Unmatched(f, m)
    <2>1. M \subseteq U
      BY DEF Unmatched
    <2>2. f[n] = 0 /\ m < n => n \in U /\ n \notin M
      BY DEF Unmatched
    <2> HIDE DEF U, M
    <2>3. IsFiniteSet(M) /\ Cardinality(M) <= Cardinality(U)
          /\ (Cardinality(M) = Cardinality(U) => M = U)
      BY <1>1, <2>1, FS_Subset
    <2>4. Cardinality(M) \in Nat
      BY <2>3, FS_CardinalityType
    <2>5. f[n] = 0 /\ m < n => Cardinality(M) < Cardinality(U)
      BY <1>2, <2>2, <2>3, <2>4
    <2>6. QED BY <2>3, <2>4, <2>5 DEF M
  <1>4. QED BY <1>1, <1>2, <1>3

\* The identity of block k of a new parse.
NewId(old, f, k) == IF f[k] = 0 THEN Allocated(f, k) ELSE old[f[k]].id

GivenOut(bs, m) ==
  /\ \A k \in 1..Len(bs) : bs[k].id \in (1..m) \cup Externals
  /\ \A j, k \in 1..Len(bs) : bs[j].id = bs[k].id => j = k

LEMMA AllocatedIs ==
  ASSUME bound \in Nat, NEW f, NEW n \in Nat, NEW k \in 1..n, f[k] = 0
  PROVE  /\ Allocated(f, k) \in Nat /\ Allocated(f, k) > bound
         /\ Allocated(f, k) <= bound + Cardinality(Unmatched(f, n))
         /\ \A j \in 1..(k - 1) : f[j] = 0 => Allocated(f, j) < Allocated(f, k)
  <1> DEFINE u(i) == Cardinality(Unmatched(f, i))
  <1>1. k \in Nat /\ k \in 0..n /\ 0 \in 0..k /\ 0 < k
    OBVIOUS
  <1>2. u(n) \in Nat /\ u(k) \in Nat /\ u(k) <= u(n)
    <2>1. u(n) \in Nat
      BY UnmatchedCount
    <2>2. u(k) \in Nat
      BY <1>1, UnmatchedCount
    <2>3. u(k) <= u(n)
      BY <1>1, UnmatchedCount
    <2>4. QED BY <2>1, <2>2, <2>3
  <1>3. \A m \in 0..k : m < k => u(m) \in Nat /\ u(m) < u(k)
    <2>1. \A m \in 0..k : m < k => u(m) < u(k)
      BY <1>1, UnmatchedCount
    <2>2. \A m \in 0..k : u(m) \in Nat
      BY <1>1, UnmatchedCount
    <2>3. QED BY <2>1, <2>2
  <1>4. \A i \in 1..k : Allocated(f, i) = bound + u(i)
    BY DEF Allocated, Unmatched
  <1> HIDE DEF u
  <1>5. k \in 1..k /\ Allocated(f, k) = bound + u(k)
    BY <1>1, <1>4
  <1>6. u(0) \in Nat /\ u(0) < u(k)
    BY <1>1, <1>3
  <1>7. Allocated(f, k) \in Nat /\ Allocated(f, k) > bound
    BY <1>2, <1>5, <1>6
  <1>8. Allocated(f, k) <= bound + u(n)
    BY <1>2, <1>5
  <1>9. ASSUME NEW j \in 1..(k - 1) PROVE Allocated(f, j) < Allocated(f, k)
    <2>1. j \in 1..k /\ j \in 0..k /\ j < k
      BY <1>1
    <2>2. u(j) \in Nat /\ u(j) < u(k)
      BY <1>3, <2>1
    <2>3. Allocated(f, j) = bound + u(j)
      BY <1>4, <2>1
    <2>4. QED BY <1>2, <1>5, <2>2, <2>3
  <1>10. QED BY <1>7, <1>8, <1>9 DEF u

Apart(old, f, n) == \A j, k \in 1..n : NewId(old, f, j) = NewId(old, f, k) => j = k

LEMMA NewIds ==
  ASSUME bound \in Nat, NEW old \in Seq(DocBlocks), GivenOut(old, bound),
         NEW new, NEW n \in Nat, NEW f, Matches(old, new, f, n)
  PROVE  /\ \A k \in 1..n :
              /\ f[k] \in 0..Len(old)
              /\ NewId(old, f, k) \in (1..(bound + Cardinality(Unmatched(f, n)))) \cup Externals
              /\ f[k] = 0 => NewId(old, f, k) \in Nat /\ NewId(old, f, k) > bound
              /\ f[k] # 0 => NewId(old, f, k) \in (1..bound) \cup Externals
         /\ Apart(old, f, n)
  <1> DEFINE c == Cardinality(Unmatched(f, n))
  <1>1. c \in Nat
    BY UnmatchedCount
  <1>2. Len(old) \in Nat /\ \A k \in 1..n : f[k] \in 0..Len(old)
    <2>1. Len(old) \in Nat /\ f \in Seq(0..Len(old)) /\ Len(f) = n
      BY LenProperties DEF Matches
    <2>2. QED BY <2>1, ElementOfSeq
  <1> HIDE DEF c
  <1>3. ASSUME NEW k \in 1..n, f[k] = 0
        PROVE  NewId(old, f, k) \in Nat /\ NewId(old, f, k) > bound /\ NewId(old, f, k) <= bound + c
    <2>1. NewId(old, f, k) = Allocated(f, k)
      BY <1>3 DEF NewId
    <2>2. Allocated(f, k) \in Nat /\ Allocated(f, k) > bound /\ Allocated(f, k) <= bound + c
      BY <1>3, AllocatedIs DEF c
    <2>3. QED BY <2>1, <2>2
  <1>4. ASSUME NEW k \in 1..n, f[k] # 0
        PROVE  NewId(old, f, k) = old[f[k]].id /\ NewId(old, f, k) \in (1..bound) \cup Externals
    <2>1. f[k] \in 1..Len(old)
      BY <1>2, <1>4
    <2>2. QED BY <1>4, <2>1 DEF NewId, GivenOut
  <1>5. ASSUME NEW k \in 1..n PROVE NewId(old, f, k) \in (1..(bound + c)) \cup Externals
    <2>1. CASE f[k] = 0
      BY <1>1, <1>3, <2>1
    <2>2. CASE f[k] # 0
      BY <1>1, <1>4, <2>2
    <2>3. QED BY <2>1, <2>2
  <1>6. ASSUME NEW j \in 1..n, NEW k \in 1..n, NewId(old, f, j) = NewId(old, f, k), j < k
        PROVE  FALSE
    <2>1. CASE f[j] = 0 /\ f[k] = 0
      <3>1. j \in 1..(k - 1)
        BY <1>6
      <3>2. Allocated(f, j) < Allocated(f, k) /\ Allocated(f, k) \in Nat
        BY <2>1, <3>1, AllocatedIs
      <3>3. Allocated(f, j) = Allocated(f, k)
        BY <1>6, <2>1 DEF NewId
      <3>4. QED BY <3>2, <3>3
    <2>2. CASE f[j] = 0 /\ f[k] # 0
      BY <1>3, <1>4, <1>6, <2>2, ExternalsApart
    <2>3. CASE f[j] # 0 /\ f[k] = 0
      BY <1>3, <1>4, <1>6, <2>3, ExternalsApart
    <2>4. CASE f[j] # 0 /\ f[k] # 0
      <3>1. old[f[j]].id = old[f[k]].id
        BY <1>4, <1>6, <2>4
      <3>2. f[j] \in 1..Len(old) /\ f[k] \in 1..Len(old)
        BY <1>2, <2>4
      <3>3. f[j] = f[k]
        BY <3>1, <3>2 DEF GivenOut
      <3>4. j \in 1..(k - 1)
        BY <1>6
      <3>5. QED BY <2>4, <3>3, <3>4 DEF Matches
    <2>5. QED BY <2>1, <2>2, <2>3, <2>4
  <1>7. ASSUME NEW j \in 1..n, NEW k \in 1..n, NewId(old, f, j) = NewId(old, f, k)
        PROVE  j = k
    <2>1. j < k \/ k < j \/ j = k
      OBVIOUS
    <2>2. QED BY <1>6, <1>7, <2>1
  <1>8. QED BY <1>2, <1>3, <1>4, <1>5, <1>7 DEF c, Apart

-----------------------------------------------------------------------------
(* The invariant of the document *)

Rebuilt(bs, s) ==
  (\A k \in 1..Len(bs) : bs[k].start < bs[k].end) => Tiling(Anonymous(bs), s, Len(s))

Document(bs, s, m) ==
  /\ s \in Seq(Pieces) /\ Len(s) <= MaxLength
  /\ bs \in Seq(DocBlocks)
  /\ \A k \in 1..Len(bs) : Sensible(bs[k])
  /\ InOrder(bs, Len(s))
  /\ m \in Nat /\ GivenOut(bs, m)
  /\ Rebuilt(bs, s)

LEMMA ParsedDocument ==
  ASSUME NEW s \in Seq(Pieces), Len(s) <= MaxLength, NEW m \in Nat, NEW ids,
         \A k \in DOMAIN Parsed(s) : ids[k] \in (1..m) \cup Externals,
         \A j, k \in DOMAIN Parsed(s) : ids[j] = ids[k] => j = k
  PROVE  Document(Named(s, ids), s, m)
  <1> DEFINE bs == Parsed(s)
             ds == Named(s, ids)
  <1>1. DOMAIN bs = 1..Len(bs)
    BY ParsedLength
  <1>2. \A k \in DOMAIN bs : ids[k] \in AnyIds
    BY DEF AnyIds
  <1>3. /\ ds \in Seq(DocBlocks) /\ Len(ds) = Len(bs)
        /\ \A k \in 1..Len(bs) : ds[k].id = ids[k] /\ Sensible(ds[k])
    <2>1. ds \in Seq(DocBlocks) /\ Len(ds) = Len(bs)
      BY <1>2, NamedIs
    <2>2. \A k \in 1..Len(bs) : ds[k].id = ids[k] /\ Sensible(ds[k])
      BY <1>2, NamedIs
    <2>3. QED BY <2>1, <2>2
  <1>4. Anonymous(ds) = bs /\ InOrder(ds, Len(s))
    BY <1>2, NamedTiles
  <1>5. Tiling(bs, s, Len(s))
    BY ParsedTiles
  <1> HIDE DEF ds, bs
  <1>6. GivenOut(ds, m)
    BY <1>1, <1>3 DEF GivenOut, bs
  <1>7. Document(ds, s, m)
    BY <1>3, <1>4, <1>5, <1>6 DEF Document, Rebuilt
  <1>8. QED BY <1>7 DEF ds

DocOK == Document(blocks, source, bound)

LEMMA DocFacts ==
  ASSUME DocOK
  PROVE  /\ source \in Seq(Pieces) /\ Len(source) \in Nat /\ Len(source) <= MaxLength
         /\ blocks \in Seq(DocBlocks) /\ Len(blocks) \in Nat /\ DOMAIN blocks = 1..Len(blocks)
         /\ bound \in Nat /\ GivenOut(blocks, bound) /\ InOrder(blocks, Len(source))
         /\ \A k \in 1..Len(blocks) :
              /\ blocks[k] \in DocBlocks /\ Sensible(blocks[k])
              /\ blocks[k].start \in 0..Len(source)
              /\ blocks[k].end \in blocks[k].start..Len(source)
  <1>1. /\ source \in Seq(Pieces) /\ Len(source) \in Nat /\ Len(source) <= MaxLength
        /\ blocks \in Seq(DocBlocks) /\ Len(blocks) \in Nat /\ DOMAIN blocks = 1..Len(blocks)
        /\ bound \in Nat /\ GivenOut(blocks, bound) /\ InOrder(blocks, Len(source))
    BY LenProperties DEF DocOK, Document
  <1>2. ASSUME NEW k \in 1..Len(blocks)
        PROVE  /\ blocks[k] \in DocBlocks /\ Sensible(blocks[k])
               /\ blocks[k].start \in 0..Len(source)
               /\ blocks[k].end \in blocks[k].start..Len(source)
    <2>1. blocks[k] \in DocBlocks
      BY <1>1, ElementOfSeq
    <2>2. Sensible(blocks[k])
      BY DEF DocOK, Document
    <2>3. blocks[k].start <= blocks[k].end /\ blocks[k].end <= Len(source)
      BY <1>1 DEF InOrder
    <2>4. blocks[k].start \in Nat /\ blocks[k].end \in Nat
      BY <2>1 DEF DocBlocks
    <2>5. QED BY <1>1, <2>1, <2>2, <2>3, <2>4
  <1>3. QED BY <1>1, <1>2

LEMMA InitDocument == Init => DocOK
  <1>1. MaxOpened \in Nat /\ MaxLength \in Nat /\ MaxOpened <= MaxLength /\ 1 <= MaxLength
    BY BoundsCount, OpenedFit
  <1>2. ASSUME NEW s \in BoundedSeq(Pieces, MaxOpened), FromLatex(s)
        PROVE  DocOK
    <2> DEFINE ids == [k \in DOMAIN s |-> k]
               m == Len(Parsed(s))
    <2>1. s \in Seq(Pieces) /\ Len(s) \in Nat /\ Len(s) <= MaxLength /\ DOMAIN s = 1..Len(s)
      <3>1. s \in Seq(Pieces) /\ Len(s) \in 0..MaxOpened
        BY <1>1, BoundedSeqs
      <3>2. QED BY <1>1, <3>1
    <2>2. m \in 0..Len(s) /\ DOMAIN Parsed(s) = 1..m
      BY <2>1, ParsedLength
    <2>3. source = s /\ blocks = Named(s, ids) /\ bound = Len(blocks)
      BY <1>2 DEF FromLatex, Opened, Named
    <2>4. \A k \in DOMAIN Parsed(s) : ids[k] = k
      BY <2>1, <2>2
    <2> HIDE DEF ids, m
    <2>5. \A k \in DOMAIN Parsed(s) : ids[k] \in AnyIds
      BY <2>1, <2>2, <2>4 DEF AnyIds
    <2>6. Len(Named(s, ids)) = m
      BY <2>1, <2>5, NamedIs DEF m
    <2>7. \A k \in DOMAIN Parsed(s) : ids[k] \in (1..m) \cup Externals
      BY <2>2, <2>4
    <2>8. \A j, k \in DOMAIN Parsed(s) : ids[j] = ids[k] => j = k
      BY <2>4
    <2>9. m \in Nat
      BY <2>1, <2>2
    <2>10. Document(Named(s, ids), s, m)
      BY <2>1, <2>7, <2>8, <2>9, ParsedDocument
    <2>11. QED BY <2>3, <2>6, <2>10 DEF DocOK
  <1>3. ASSUME NEW piece \in FormulaPieces, NEW external \in Externals, FromFormula(piece, external)
        PROVE  DocOK
    <2> DEFINE s == <<piece>>
               ids == <<external>>
               m == Len(Parsed(s))
    <2>1. s \in Seq(Pieces) /\ Len(s) = 1 /\ Len(s) <= MaxLength
      <3>1. piece \in Pieces
        BY DEF Pieces
      <3>2. QED BY <1>1, <3>1
    <2>2. ids[1] = external
      OBVIOUS
    <2>3. source = s /\ blocks = Named(s, ids) /\ bound = Len(blocks)
      BY <1>3 DEF FromFormula, Opened, Named
    <2> HIDE DEF s, ids
    <2>4. m \in 0..1 /\ DOMAIN Parsed(s) = 1..m
      BY <2>1, ParsedLength
    <2> HIDE DEF m
    <2>5. \A k \in DOMAIN Parsed(s) : k = 1
      BY <2>4
    <2>6. \A k \in DOMAIN Parsed(s) : ids[k] \in AnyIds
      BY <2>2, <2>5 DEF AnyIds
    <2>7. Len(Named(s, ids)) = m
      BY <2>1, <2>6, NamedIs DEF m
    <2>8. \A k \in DOMAIN Parsed(s) : ids[k] \in (1..m) \cup Externals
      BY <2>2, <2>5
    <2>9. \A j, k \in DOMAIN Parsed(s) : ids[j] = ids[k] => j = k
      BY <2>5
    <2>10. m \in Nat
      BY <2>4
    <2>11. Document(Named(s, ids), s, m)
      BY <2>1, <2>8, <2>9, <2>10, ParsedDocument
    <2>12. QED BY <2>3, <2>7, <2>11 DEF DocOK
  <1>4. QED BY <1>2, <1>3 DEF Init

(***************************************************************************)
(* A bound identity changes nothing else.                                  *)
(***************************************************************************)
LEMMA Rebound ==
  ASSUME NEW bs \in Seq(DocBlocks), NEW k \in 1..Len(bs), NEW e \in AnyIds
  PROVE  /\ [bs EXCEPT ![k].id = e] \in Seq(DocBlocks)
         /\ Len([bs EXCEPT ![k].id = e]) = Len(bs)
         /\ \A j \in 1..Len(bs) :
              /\ [bs EXCEPT ![k].id = e][j].id = (IF j = k THEN e ELSE bs[j].id)
              /\ [bs EXCEPT ![k].id = e][j].kind = bs[j].kind
              /\ [bs EXCEPT ![k].id = e][j].content = bs[j].content
              /\ [bs EXCEPT ![k].id = e][j].start = bs[j].start
              /\ [bs EXCEPT ![k].id = e][j].end = bs[j].end
  <1> DEFINE c == [bs[k] EXCEPT !.id = e]
             cs == [bs EXCEPT ![k] = c]
  <1>1. [bs EXCEPT ![k].id = e] = cs
    OBVIOUS
  <1>2. Len(bs) \in Nat /\ DOMAIN bs = 1..Len(bs) /\ bs[k] \in DocBlocks
    BY LenProperties, ElementOfSeq
  <1>3. c \in DocBlocks /\ c.id = e /\ c.kind = bs[k].kind /\ c.content = bs[k].content
        /\ c.start = bs[k].start /\ c.end = bs[k].end
    BY <1>2 DEF DocBlocks
  <1> HIDE DEF c
  <1>4. cs \in Seq(DocBlocks) /\ Len(cs) = Len(bs)
        /\ \A j \in 1..Len(bs) : cs[j] = IF j = k THEN c ELSE bs[j]
    BY <1>2, <1>3, ExceptSeq
  <1> HIDE DEF cs
  <1>5. ASSUME NEW j \in 1..Len(bs)
        PROVE  /\ cs[j].id = (IF j = k THEN e ELSE bs[j].id) /\ cs[j].kind = bs[j].kind
               /\ cs[j].content = bs[j].content
               /\ cs[j].start = bs[j].start /\ cs[j].end = bs[j].end
    BY <1>3, <1>4
  <1>6. QED BY <1>1, <1>4, <1>5

LEMMA SameAnonymous ==
  ASSUME NEW bs \in Seq(DocBlocks), NEW cs \in Seq(DocBlocks), Len(cs) = Len(bs),
         \A j \in 1..Len(bs) : /\ cs[j].kind = bs[j].kind /\ cs[j].content = bs[j].content
                               /\ cs[j].start = bs[j].start /\ cs[j].end = bs[j].end
  PROVE  Anonymous(cs) = Anonymous(bs)
  <1>1. DOMAIN bs = 1..Len(bs) /\ DOMAIN cs = 1..Len(bs)
    BY LenProperties
  <1>2. QED BY <1>1 DEF Anonymous

LEMMA BindDocument ==
  ASSUME DocOK, NEW k \in DOMAIN blocks, NEW external \in Externals, Bind(k, external)
  PROVE  DocOK'
  <1>1. k \in 1..Len(blocks) /\ blocks \in Seq(DocBlocks) /\ GivenOut(blocks, bound)
        /\ bound \in Nat /\ DOMAIN blocks = 1..Len(blocks) /\ InOrder(blocks, Len(source))
    BY DocFacts
  <1>2. blocks' = [blocks EXCEPT ![k].id = external] /\ external \notin Ids(blocks)
        /\ source' = source /\ bound' = bound
    BY DEF Bind
  <1>3. external \in AnyIds
    BY DEF AnyIds
  <1>4. blocks' \in Seq(DocBlocks) /\ Len(blocks') = Len(blocks)
    BY <1>1, <1>2, <1>3, Rebound
  <1>5. \A j \in 1..Len(blocks) :
          /\ blocks'[j].id = (IF j = k THEN external ELSE blocks[j].id)
          /\ blocks'[j].kind = blocks[j].kind /\ blocks'[j].content = blocks[j].content
          /\ blocks'[j].start = blocks[j].start /\ blocks'[j].end = blocks[j].end
    BY <1>1, <1>2, <1>3, Rebound
  <1>6. Anonymous(blocks') = Anonymous(blocks)
    BY <1>1, <1>4, <1>5, SameAnonymous
  <1>7. InOrder(blocks', Len(source'))
    <2>1. ASSUME NEW i \in 1..Len(blocks)
          PROVE  /\ blocks'[i].start <= blocks'[i].end /\ blocks'[i].end <= Len(source)
                 /\ \A j \in 1..(i - 1) : blocks'[j].end <= blocks'[i].start
      <3>1. /\ blocks[i].start <= blocks[i].end /\ blocks[i].end <= Len(source)
            /\ \A j \in 1..(i - 1) : blocks[j].end <= blocks[i].start
        BY <1>1 DEF InOrder
      <3>2. \A j \in 1..(i - 1) : j \in 1..Len(blocks)
        BY <1>1, LenProperties
      <3>3. QED BY <1>5, <3>1, <3>2
    <2>2. QED BY <1>2, <1>4, <2>1 DEF InOrder
  <1>8. \A j \in 1..Len(blocks) : Sensible(blocks'[j])
    <2>1. \A j \in 1..Len(blocks) : Sensible(blocks[j])
      BY DocFacts
    <2>2. QED BY <1>5, <2>1 DEF Sensible, IsFormula
  <1>9. GivenOut(blocks', bound')
    <2>1. \A j \in 1..Len(blocks) : blocks[j].id # external
      BY <1>1, <1>2 DEF Ids
    <2>2. QED BY <1>1, <1>2, <1>4, <1>5, <2>1 DEF GivenOut
  <1>10. Rebuilt(blocks', source')
    <2>1. Rebuilt(blocks, source)
      BY DEF DocOK, Document
    <2>2. QED BY <1>2, <1>4, <1>5, <1>6, <2>1 DEF Rebuilt
  <1>11. QED BY <1>1, <1>2, <1>4, <1>7, <1>8, <1>9, <1>10 DEF DocOK, Document

-----------------------------------------------------------------------------
(* Edits of the document *)

\* The formulas of bs whose identities are not among ids are in cs with the same body.
Kept(bs, cs, ids) ==
  \A b \in Formulas(bs) :
     b.id \notin ids => \E c \in Formulas(cs) : c.id = b.id /\ c.content[1].body = b.content[1].body

\* An edit with the identities it dirties: these and those of the new document are of
\* the old one or fresh.
Editing(ids) ==
  /\ Dirties(ids)
  /\ Kept(blocks, blocks', ids) /\ Kept(blocks', blocks, ids)
  /\ \A i \in ids : i \in Ids(blocks) \/ (i \in Nat /\ i > bound)
  /\ \A i \in Ids(blocks') : i \in Ids(blocks) \/ (i \in Nat /\ i > bound)
  /\ bound <= bound'

Edits == DocOK' /\ \E ids \in SUBSET AnyIds : Editing(ids)

LEMMA FormulasAre ==
  ASSUME NEW S, NEW bs \in Seq(S)
  PROVE  /\ \A k \in 1..Len(bs) : IsFormula(bs[k]) => bs[k] \in Formulas(bs)
         /\ \A b \in Formulas(bs) : \E k \in 1..Len(bs) : b = bs[k] /\ IsFormula(bs[k])
  <1>1. DOMAIN bs = 1..Len(bs)
    BY LenProperties
  <1>2. QED BY <1>1 DEF Formulas, Range

\* The text that may be put in place of a block's own.
Suits(b, new) ==
  IF IsFormula(b) THEN Len(new) = 1 /\ IsFormula(new[1])
  ELSE \A i \in 1..Len(new) : ~IsFormula(new[i])

LEMMA InPlaceDocument ==
  ASSUME DocOK, NEW k \in 1..Len(blocks), NEW new \in Seq(Pieces), Suits(blocks[k], new),
         EditsInPlace(k, blocks[k].start, blocks[k].end, new)
  PROVE  Edits
  <1> DEFINE from == blocks[k].start
             to == blocks[k].end
             es == Edited(blocks, k, new)
  <1>1. /\ source \in Seq(Pieces) /\ Len(source) \in Nat
        /\ blocks \in Seq(DocBlocks) /\ Len(blocks) \in Nat
        /\ bound \in Nat /\ GivenOut(blocks, bound) /\ InOrder(blocks, Len(source))
        /\ \A j \in 1..Len(blocks) : blocks[j] \in DocBlocks /\ Sensible(blocks[j])
        /\ from \in 0..Len(source) /\ to \in from..Len(source)
    BY DocFacts
  <1>2. /\ source' = Spliced(source, from, to, new) /\ Len(source') <= MaxLength
        /\ bound' = bound /\ Dirties({blocks[k].id})
        /\ blocks' = [AllAdjusted(from, to, Len(new)) EXCEPT ![k].content = new]
    BY DEF EditsInPlace
  <1>3. blocks' = es
    BY <1>1, <1>2, InPlaceIs
  <1>4. es \in Seq(DocBlocks) /\ Len(es) = Len(blocks)
    BY <1>1, EditedType
  <1>5. \A j \in 1..Len(blocks) :
          /\ es[j].id = blocks[j].id /\ es[j].kind = blocks[j].kind
          /\ es[j].content = IF j = k THEN new ELSE blocks[j].content
    BY DEF Edited, DocBlock
  <1>6. source' \in Seq(Pieces) /\ Len(source') = from + Len(new) + (Len(source) - to)
    <2> HIDE DEF from, to
    <2>1. source' \in Seq(Pieces)
      BY <1>1, <1>2, Splices
    <2>2. Len(source') = from + Len(new) + (Len(source) - to)
      BY <1>1, <1>2, Splices
    <2>3. QED BY <2>1, <2>2
  <1>7. InOrder(es, Len(source'))
    BY <1>1, <1>6, EditedInOrder
  <1>8. ASSUME \A j \in 1..Len(es) : es[j].start < es[j].end
        PROVE  Tiling(Anonymous(es), source', Len(source'))
    <2>1. \A j \in 1..Len(blocks) : Edited(blocks, k, new)[j].start < Edited(blocks, k, new)[j].end
      BY <1>4, <1>8
    <2>2. Len(new) # 0 /\ \A j \in 1..Len(blocks) : blocks[j].start < blocks[j].end
      BY <1>1, <2>1, EditedLengths
    <2>3. Tiling(Anonymous(blocks), source, Len(source))
      BY <2>2 DEF DocOK, Document, Rebuilt
    <2>4. Fits(blocks[k], new)
      BY <2>2 DEF Fits, Suits
    <2>5. Tiling(Anonymous(Edited(blocks, k, new)), Spliced(source, blocks[k].start, blocks[k].end, new),
                 Len(Spliced(source, blocks[k].start, blocks[k].end, new)))
      BY <1>1, <2>2, <2>3, <2>4, EditedTiles
    <2>6. QED BY <1>2, <2>5
  <1> HIDE DEF es, from, to
  <1>9. \A j \in 1..Len(es) : Sensible(es[j])
    <2>1. ASSUME NEW j \in 1..Len(blocks), j = k PROVE Sensible(es[j])
      <3>1. IsFormula(es[j]) <=> IsFormula(blocks[k])
        BY <1>5, <2>1 DEF IsFormula
      <3>2. es[j].content = new
        BY <1>5, <2>1
      <3>3. QED BY <3>1, <3>2 DEF Sensible, Suits
    <2>2. ASSUME NEW j \in 1..Len(blocks), j # k PROVE Sensible(es[j])
      <3>1. IsFormula(es[j]) <=> IsFormula(blocks[j])
        BY <1>5 DEF IsFormula
      <3>2. es[j].content = blocks[j].content /\ Sensible(blocks[j])
        BY <1>1, <1>5, <2>2
      <3>3. QED BY <3>1, <3>2 DEF Sensible
    <2>3. QED BY <1>4, <2>1, <2>2
  <1>10. GivenOut(es, bound)
    BY <1>1, <1>4, <1>5 DEF GivenOut
  <1>11. DocOK'
    BY <1>1, <1>2, <1>3, <1>4, <1>6, <1>7, <1>8, <1>9, <1>10 DEF DocOK, Document, Rebuilt
  <1> DEFINE ids == {blocks[k].id}
  <1>12. Kept(blocks, es, ids)
    <2>1. ASSUME NEW b \in Formulas(blocks), b.id \notin ids
          PROVE  \E c \in Formulas(es) : c.id = b.id /\ c.content[1].body = b.content[1].body
      <3>1. PICK j \in 1..Len(blocks) : b = blocks[j] /\ IsFormula(blocks[j])
        BY <1>1, FormulasAre
      <3>2. j # k
        BY <2>1, <3>1
      <3>3. es[j].id = b.id /\ es[j].content = b.content /\ IsFormula(es[j])
        BY <1>5, <3>1, <3>2 DEF IsFormula
      <3>4. es[j] \in Formulas(es)
        BY <1>4, <3>3, FormulasAre
      <3>5. QED BY <3>3, <3>4
    <2>2. QED BY <2>1 DEF Kept
  <1>13. Kept(es, blocks, ids)
    <2>1. ASSUME NEW b \in Formulas(es), b.id \notin ids
          PROVE  \E c \in Formulas(blocks) : c.id = b.id /\ c.content[1].body = b.content[1].body
      <3>1. PICK j \in 1..Len(blocks) : b = es[j] /\ IsFormula(es[j])
        BY <1>4, FormulasAre
      <3>2. j # k
        BY <1>5, <2>1, <3>1
      <3>3. blocks[j].id = b.id /\ blocks[j].content = b.content /\ IsFormula(blocks[j])
        BY <1>5, <3>1, <3>2 DEF IsFormula
      <3>4. blocks[j] \in Formulas(blocks)
        BY <1>1, <3>3, FormulasAre
      <3>5. QED BY <3>3, <3>4
    <2>2. QED BY <2>1 DEF Kept
  <1>14. blocks[k].id \in Ids(blocks)
    BY <1>1, LenProperties DEF Ids
  <1>15. ids \in SUBSET AnyIds
    BY <1>1 DEF DocBlocks
  <1>16. Editing(ids)
    <2>1. bound <= bound'
      BY <1>1, <1>2
    <2>2. ASSUME NEW i \in Ids(es) PROVE i \in Ids(blocks)
      <3>1. PICK j \in 1..Len(blocks) : i = es[j].id
        BY <1>4, <2>2, LenProperties DEF Ids
      <3>2. QED BY <1>1, <1>5, <3>1, LenProperties DEF Ids
    <2>3. QED BY <1>2, <1>3, <1>12, <1>13, <1>14, <2>1, <2>2 DEF Editing
  <1> HIDE DEF ids
  <1>17. QED BY <1>11, <1>15, <1>16 DEF Edits

\* The old document of a reconciliation: the present one, its spans apart.
Outdated(old) ==
  /\ old \in Seq(DocBlocks) /\ Len(old) = Len(blocks)
  /\ \A k \in 1..Len(blocks) : /\ old[k].id = blocks[k].id /\ old[k].kind = blocks[k].kind
                               /\ old[k].content = blocks[k].content

LEMMA AdjustedOutdated ==
  ASSUME DocOK, NEW from \in Nat, NEW to \in Nat, from <= to, NEW n \in Nat
  PROVE  Outdated(AllAdjusted(from, to, n))
  <1> DEFINE old == AllAdjusted(from, to, n)
  <1>1. /\ blocks \in Seq(DocBlocks) /\ Len(blocks) \in Nat /\ DOMAIN blocks = 1..Len(blocks)
        /\ \A k \in 1..Len(blocks) : blocks[k] \in DocBlocks
    BY DocFacts
  <1>2. old = [k \in 1..Len(blocks) |-> Adjusted(blocks[k], from, to, n)]
    BY <1>1 DEF AllAdjusted
  <1> HIDE DEF old
  <1>3. ASSUME NEW k \in 1..Len(blocks)
        PROVE  /\ Adjusted(blocks[k], from, to, n) \in DocBlocks
               /\ Adjusted(blocks[k], from, to, n).id = blocks[k].id
               /\ Adjusted(blocks[k], from, to, n).kind = blocks[k].kind
               /\ Adjusted(blocks[k], from, to, n).content = blocks[k].content
    <2> DEFINE b == blocks[k]
    <2>1. b \in DocBlocks
      BY <1>1
    <2> HIDE DEF b
    <2>2. /\ Adjusted(b, from, to, n) \in DocBlocks /\ Adjusted(b, from, to, n).id = b.id
          /\ Adjusted(b, from, to, n).kind = b.kind /\ Adjusted(b, from, to, n).content = b.content
      BY <2>1, AdjustedType
    <2>3. QED BY <2>2 DEF b
  <1>4. old \in [1..Len(blocks) -> DocBlocks]
    BY <1>2, <1>3
  <1>5. old \in Seq(DocBlocks) /\ Len(old) = Len(blocks)
    BY <1>1, <1>4
  <1>6. QED BY <1>2, <1>3, <1>5 DEF Outdated, old

LEMMA SameBody ==
  ASSUME NEW b, NEW c, b.content \in Seq(Pieces), c.content \in Seq(Pieces),
         Len(b.content) = 1, Len(c.content) = 1, Hash(b) = Hash(c)
  PROVE  b.content[1].body = c.content[1].body
  <1>1. DOMAIN b.content = 1..1 /\ DOMAIN c.content = 1..1
    BY LenProperties
  <1>2. Hash(b)[1] = b.content[1].body /\ Hash(c)[1] = c.content[1].body
    BY <1>1 DEF Hash
  <1>3. QED BY <1>2

LEMMA ReconciledDocument ==
  ASSUME DocOK, NEW old, Outdated(old), NEW s \in Seq(Pieces), Len(s) <= MaxLength, source' = s,
         NEW f, f = Matched(old, Parsed(s)), Reconciled(old, Parsed(s), f)
  PROVE  Edits
  <1> DEFINE new == Parsed(s)
             N == Len(new)
             ids == [k \in DOMAIN new |-> NewId(old, f, k)]
             m == bound + Cardinality(Unmatched(f, N))
             ds == Named(s, ids)
             changed == {k \in DOMAIN new : f[k] = 0 \/ Hash(old[f[k]]) # Hash(new[k])}
             gone == {old[i].id : i \in DOMAIN old \ Range(f)}
             dirty == gone \cup {ids[k] : k \in changed}
  <1>1. /\ blocks \in Seq(DocBlocks) /\ Len(blocks) \in Nat /\ DOMAIN blocks = 1..Len(blocks)
        /\ bound \in Nat /\ GivenOut(blocks, bound)
        /\ \A j \in 1..Len(blocks) : blocks[j] \in DocBlocks /\ Sensible(blocks[j])
    BY DocFacts
  <1>2. new \in Seq(RawBlocks) /\ DOMAIN new = 1..N /\ N \in Nat
    BY ParsedLength, LenProperties
  <1>3. /\ old \in Seq(DocBlocks) /\ Len(old) = Len(blocks) /\ DOMAIN old = 1..Len(blocks)
        /\ \A k \in 1..Len(blocks) : /\ old[k].id = blocks[k].id /\ old[k].kind = blocks[k].kind
                                     /\ old[k].content = blocks[k].content
    BY LenProperties DEF Outdated
  <1>4. blocks' = ds /\ bound' = m /\ Dirties(dirty)
    <2>1. blocks' = ds
      BY DEF Reconciled, Named, NewId
    <2>2. bound' = m
      BY <1>2 DEF Reconciled, Unmatched
    <2>3. Dirties(dirty)
      BY DEF Reconciled, NewId
    <2>4. QED BY <2>1, <2>2, <2>3
  <1>5. Matches(old, new, f, N)
    BY <1>2, <1>3, MatchedIs
  <1>6. GivenOut(old, bound)
    BY <1>1, <1>3 DEF GivenOut
  <1>7. m \in Nat /\ bound <= m
    <2>1. Cardinality(Unmatched(f, N)) \in Nat
      BY <1>2, UnmatchedCount
    <2>2. QED BY <1>1, <2>1
  <1>8. \A k \in 1..N : ids[k] = NewId(old, f, k)
    BY <1>2
  <1>9. \A k \in 1..N : /\ f[k] \in 0..Len(blocks)
                        /\ ids[k] \in (1..m) \cup Externals
                        /\ f[k] = 0 => ids[k] \in Nat /\ ids[k] > bound
    <2> HIDE DEF ids, new, N
    <2>1. \A k \in 1..N : f[k] \in 0..Len(old)
      BY <1>1, <1>2, <1>3, <1>5, <1>6, NewIds
    <2>2. \A k \in 1..N : NewId(old, f, k) \in (1..m) \cup Externals
      BY <1>1, <1>2, <1>3, <1>5, <1>6, NewIds
    <2>3. \A k \in 1..N : f[k] = 0 => NewId(old, f, k) \in Nat /\ NewId(old, f, k) > bound
      BY <1>1, <1>2, <1>3, <1>5, <1>6, NewIds
    <2> HIDE DEF m
    <2>4. QED BY <1>3, <1>8, <2>1, <2>2, <2>3
  <1>10. \A j, k \in 1..N : ids[j] = ids[k] => j = k
    <2> HIDE DEF ids, new, N
    <2>1. Apart(old, f, N)
      BY <1>1, <1>2, <1>3, <1>5, <1>6, NewIds
    <2>2. QED BY <1>8, <2>1 DEF Apart
  <1> HIDE DEF ids, m
  <1>11. Document(ds, s, m)
    <2>1. \A k \in DOMAIN Parsed(s) : ids[k] \in (1..m) \cup Externals
      BY <1>2, <1>9
    <2>2. \A j, k \in DOMAIN Parsed(s) : ids[j] = ids[k] => j = k
      BY <1>2, <1>10
    <2>3. QED BY <1>7, <2>1, <2>2, ParsedDocument
  <1>12. /\ ds \in Seq(DocBlocks) /\ Len(ds) = N
         /\ \A k \in 1..N : /\ ds[k].id = ids[k] /\ ds[k].kind = new[k].kind
                            /\ ds[k].content = new[k].content
                            /\ Sensible(ds[k]) /\ ds[k] \in DocBlocks
    <2>0. \A k \in DOMAIN Parsed(s) : ids[k] \in AnyIds
      BY <1>2, <1>7, <1>9 DEF AnyIds
    <2>1. ds \in Seq(DocBlocks) /\ Len(ds) = N
      BY <2>0, NamedIs
    <2>2. \A k \in 1..N : /\ ds[k].id = ids[k] /\ ds[k].kind = new[k].kind
                          /\ ds[k].content = new[k].content /\ Sensible(ds[k])
      BY <2>0, NamedIs
    <2> HIDE DEF ds, new
    <2>3. \A k \in 1..N : ds[k] \in DocBlocks
      BY <2>1, ElementOfSeq
    <2>4. QED BY <2>1, <2>2, <2>3
  <1> HIDE DEF ds, new, N
  <1>13. DOMAIN f = 1..N
    BY <1>5, LenProperties DEF Matches
  <1>14. DocOK'
    BY <1>4, <1>11 DEF DocOK
  \* A formula that goes on an old one unchanged has its body.
  <1>15. ASSUME NEW k \in 1..N, f[k] # 0, k \notin changed
         PROVE  /\ f[k] \in 1..Len(blocks) /\ ds[k].id = blocks[f[k]].id
                /\ IsFormula(ds[k]) <=> IsFormula(blocks[f[k]])
                /\ IsFormula(ds[k]) => ds[k].content[1].body = blocks[f[k]].content[1].body
    <2> DEFINE i == f[k]
    <2>1. i \in 1..Len(blocks)
      BY <1>9, <1>15
    <2>2. ids[k] = old[i].id
      BY <1>8, <1>15 DEF NewId
    <2>3. old[i].kind = new[k].kind
      BY <1>5, <1>15 DEF Matches
    <2>4. Hash(old[i]) = Hash(new[k])
      BY <1>2, <1>15
    <2> HIDE DEF i, changed
    <2>5. ds[k].id = blocks[i].id
      BY <1>3, <1>12, <2>1, <2>2
    <2>6. IsFormula(ds[k]) <=> IsFormula(blocks[i])
      BY <1>3, <1>12, <2>1, <2>3 DEF IsFormula
    <2>7. ASSUME IsFormula(ds[k]) PROVE ds[k].content[1].body = blocks[i].content[1].body
      <3>1. Hash(ds[k]) = Hash(blocks[i])
        BY <1>3, <1>12, <2>1, <2>4 DEF Hash
      <3>2. Len(ds[k].content) = 1 /\ Len(blocks[i].content) = 1
        BY <1>1, <1>12, <2>1, <2>6, <2>7 DEF Sensible
      <3>3. ds[k].content \in Seq(Pieces) /\ blocks[i].content \in Seq(Pieces)
        BY <1>1, <1>12, <2>1 DEF DocBlocks
      <3>4. QED BY <3>1, <3>2, <3>3, SameBody
    <2>8. QED BY <2>1, <2>5, <2>6, <2>7 DEF i
  <1>16. Kept(blocks, ds, dirty)
    <2>1. ASSUME NEW b \in Formulas(blocks), b.id \notin dirty
          PROVE  \E c \in Formulas(ds) : c.id = b.id /\ c.content[1].body = b.content[1].body
      <3>1. PICK i \in 1..Len(blocks) : b = blocks[i] /\ IsFormula(blocks[i])
        BY <1>1, FormulasAre
      <3>2. i \in Range(f)
        BY <1>3, <2>1, <3>1
      <3>3. PICK k \in 1..N : f[k] = i
        BY <1>13, <3>2 DEF Range
      <3>4. f[k] # 0 /\ ids[k] = b.id
        BY <1>3, <1>8, <3>1, <3>3 DEF NewId
      <3>5. k \notin changed
        BY <2>1, <3>4
      <3>6. /\ ds[k].id = b.id /\ IsFormula(ds[k])
            /\ ds[k].content[1].body = b.content[1].body
        <4> HIDE DEF changed
        <4>1. QED BY <1>15, <3>1, <3>3, <3>4, <3>5
      <3>7. ds[k] \in Formulas(ds)
        BY <1>12, <3>6, FormulasAre
      <3>8. QED BY <3>6, <3>7
    <2>2. QED BY <2>1 DEF Kept
  <1>17. Kept(ds, blocks, dirty)
    <2>1. ASSUME NEW c \in Formulas(ds), c.id \notin dirty
          PROVE  \E b \in Formulas(blocks) : b.id = c.id /\ b.content[1].body = c.content[1].body
      <3>1. PICK k \in 1..N : c = ds[k] /\ IsFormula(ds[k])
        BY <1>12, FormulasAre
      <3>2. k \notin changed
        BY <1>12, <2>1, <3>1
      <3>3. f[k] # 0
        BY <1>2, <3>2
      <3> HIDE DEF changed
      <3>4. /\ f[k] \in 1..Len(blocks) /\ blocks[f[k]].id = c.id /\ IsFormula(blocks[f[k]])
            /\ blocks[f[k]].content[1].body = c.content[1].body
        BY <1>15, <3>1, <3>2, <3>3
      <3>5. blocks[f[k]] \in Formulas(blocks)
        BY <1>1, <3>4, FormulasAre
      <3>6. QED BY <3>4, <3>5
    <2>2. QED BY <2>1 DEF Kept
  <1>18. ASSUME NEW d \in dirty PROVE d \in AnyIds /\ (d \in Ids(blocks) \/ (d \in Nat /\ d > bound))
    <2>1. \A i \in 1..Len(blocks) : old[i].id \in Ids(blocks) /\ old[i].id \in AnyIds
      <3>1. \A i \in 1..Len(blocks) : blocks[i].id \in Ids(blocks) /\ blocks[i].id \in AnyIds
        BY <1>1 DEF Ids, DocBlocks
      <3>2. QED BY <1>3, <3>1
    <2>2. CASE d \in gone
      BY <1>3, <2>1, <2>2
    <2>3. CASE d \notin gone
      <3>1. PICK k \in 1..N : d = ids[k]
        BY <1>2, <2>3
      <3>2. CASE f[k] = 0
        BY <1>9, <3>1, <3>2 DEF AnyIds
      <3>3. CASE f[k] # 0
        <4>1. f[k] \in 1..Len(blocks) /\ d = old[f[k]].id
          BY <1>8, <1>9, <3>1, <3>3 DEF NewId
        <4>2. QED BY <2>1, <4>1
      <3>4. QED BY <3>2, <3>3
    <2>4. QED BY <2>2, <2>3
  <1> HIDE DEF dirty
  <1>19. Editing(dirty)
    <2>1. ASSUME NEW d \in Ids(ds) PROVE d \in Ids(blocks) \/ (d \in Nat /\ d > bound)
      <3>1. PICK k \in 1..N : d = ids[k]
        BY <1>12, <2>1, LenProperties DEF Ids
      <3>2. CASE f[k] = 0
        BY <1>9, <3>1, <3>2
      <3>3. CASE f[k] # 0
        <4>1. f[k] \in 1..Len(blocks) /\ d = old[f[k]].id
          BY <1>8, <1>9, <3>1, <3>3 DEF NewId
        <4>2. QED BY <1>1, <1>3, <4>1 DEF Ids
      <3>4. QED BY <3>2, <3>3
    <2>2. QED BY <1>4, <1>7, <1>16, <1>17, <1>18, <2>1 DEF Editing
  <1>20. QED BY <1>14, <1>18, <1>19 DEF Edits

LEMMA ReconcilesEdits ==
  ASSUME DocOK, NEW old, Outdated(old), NEW s \in Seq(Pieces), Len(s) <= MaxLength,
         Reconciles(old, s)
  PROVE  Edits
  <1>1. source' = s /\ Reconciled(old, Parsed(s), Matched(old, Parsed(s)))
    BY DEF Reconciles
  <1> DEFINE f == Matched(old, Parsed(s))
  <1>2. f = Matched(old, Parsed(s)) /\ Reconciled(old, Parsed(s), f)
    BY <1>1
  <1> HIDE DEF f
  <1>3. QED BY <1>1, <1>2, ReconciledDocument

LEMMA RangeEdits ==
  ASSUME DocOK, NEW from \in 0..Len(source), NEW to \in from..Len(source),
         NEW new \in Seq(Pieces), ReplaceSourceRange(from, to, new)
  PROVE  Edits
  <1> DEFINE s == Spliced(source, from, to, new)
             old == AllAdjusted(from, to, Len(new))
  <1>1. source \in Seq(Pieces) /\ Len(source) \in Nat /\ Len(new) \in Nat
    BY DocFacts, LenProperties
  <1>2. from \in Nat /\ to \in Nat /\ from <= to
    BY <1>1
  <1>3. s \in Seq(Pieces)
    BY <1>1, Splices
  <1>4. Outdated(old)
    BY <1>1, <1>2, AdjustedOutdated
  <1>5. Len(s) <= MaxLength /\ Reconciles(old, s)
    BY DEF ReplaceSourceRange
  <1> HIDE DEF s, old
  <1>6. QED BY <1>3, <1>4, <1>5, ReconcilesEdits

LEMMA PresentOutdated == ASSUME DocOK PROVE Outdated(blocks)
  <1>1. blocks \in Seq(DocBlocks)
    BY DocFacts
  <1>2. QED BY <1>1 DEF Outdated

\* Where the text of block k goes when the text itself has been cut out.
PutAt(k, after) ==
  IF after >= blocks[k].end THEN after - (blocks[k].end - blocks[k].start) ELSE after

LEMMA MoveTo ==
  ASSUME DocOK, NEW k \in DOMAIN blocks,
         NEW after \in {0} \cup {blocks[j].end : j \in DOMAIN blocks \ {k}}
  PROVE  /\ blocks[k].start \in 0..Len(source)
         /\ blocks[k].end \in blocks[k].start..Len(source)
         /\ PutAt(k, after) \in 0..(Len(source) - (blocks[k].end - blocks[k].start))
  <1> DEFINE x == blocks[k].start
             y == blocks[k].end
             l == Len(source)
             at == PutAt(k, after)
  <1>1. /\ l \in Nat /\ k \in 1..Len(blocks) /\ Len(blocks) \in Nat
        /\ DOMAIN blocks = 1..Len(blocks) /\ InOrder(blocks, l)
        /\ \A j \in 1..Len(blocks) : /\ blocks[j].start \in 0..l
                                     /\ blocks[j].end \in blocks[j].start..l
    BY DocFacts
  <1>2. x \in 0..l /\ y \in x..l /\ x \in Nat /\ y \in Nat
    <2>1. x \in 0..l /\ y \in x..l
      BY <1>1
    <2> HIDE DEF x, y
    <2>2. QED BY <1>1, <2>1
  <1>3. at = IF after >= y THEN after - (y - x) ELSE after
    BY DEF PutAt
  <1>4. after = 0 \/ (after \in Nat /\ (after <= x \/ (y <= after /\ after <= l)))
    <2>1. SUFFICES ASSUME after # 0
          PROVE  after \in Nat /\ (after <= x \/ (y <= after /\ after <= l))
      OBVIOUS
    <2>2. PICK j \in 1..Len(blocks) : j # k /\ after = blocks[j].end
      BY <1>1, <2>1
    <2> DEFINE p == blocks[j].start
    <2>3. p \in 0..l /\ after \in p..l
      BY <1>1, <2>2
    <2>4. CASE j < k
      <3>1. j \in 1..(k - 1)
        BY <2>4
      <3>2. after <= x
        BY <1>1, <2>2, <3>1 DEF InOrder
      <3> HIDE DEF p, x
      <3>3. QED BY <1>1, <2>3, <3>2
    <2>5. CASE j > k
      <3>1. k \in 1..(j - 1)
        BY <1>1, <2>5
      <3>2. y <= p
        BY <1>1, <2>2, <3>1 DEF InOrder
      <3> HIDE DEF p, x, y
      <3>3. QED BY <1>1, <1>2, <2>3, <3>2
    <2>6. QED BY <1>1, <2>2, <2>4, <2>5
  <1> HIDE DEF x, y, at, l
  <1>5. at \in 0..(l - (y - x))
    BY <1>1, <1>2, <1>3, <1>4
  <1>6. QED BY <1>2, <1>5 DEF x, y, at, l

LEMMA MoveEdits ==
  ASSUME DocOK, NEW k \in DOMAIN blocks,
         NEW after \in {0} \cup {blocks[j].end : j \in DOMAIN blocks \ {k}}, MoveBlock(k, after)
  PROVE  Edits
  <1> DEFINE x == blocks[k].start
             y == blocks[k].end
             l == Len(source)
             cut == SubSeq(source, x + 1, y)
             rest == Spliced(source, x, y, <<>>)
             at == IF after >= y THEN after - (y - x) ELSE after
             s == Spliced(rest, at, at, cut)
  <1>1. /\ source \in Seq(Pieces) /\ l \in Nat /\ l <= MaxLength
        /\ x \in 0..l /\ y \in x..l
    BY DocFacts, MoveTo
  <1>2. x \in Nat /\ y \in Nat
    <2> HIDE DEF x, y
    <2>1. QED BY <1>1
  <1>3. Reconciles(blocks, s)
    BY DEF MoveBlock
  <1>4. at \in 0..(l - (y - x))
    <2>1. at = PutAt(k, after)
      BY DEF PutAt
    <2>2. QED BY <2>1, MoveTo
  <1> HIDE DEF x, y
  <1>5. cut \in Seq(Pieces) /\ Len(cut) = y - x
    <2>1. x + 1 \in 1..(Len(source) + 1) /\ y \in ((x + 1) - 1)..Len(source)
      BY <1>1, <1>2
    <2>2. cut \in Seq(Pieces) /\ Len(cut) = y - (x + 1) + 1
      BY <1>1, <2>1, Part
    <2>3. y - (x + 1) + 1 = y - x
      BY <1>2
    <2>4. QED BY <2>2, <2>3
  <1>6. rest \in Seq(Pieces) /\ Len(rest) = l - (y - x)
    <2> DEFINE none == <<>>
    <2>1. none \in Seq(Pieces) /\ Len(none) = 0
      OBVIOUS
    <2> HIDE DEF none
    <2>2. Spliced(source, x, y, none) \in Seq(Pieces)
      BY <1>1, <1>2, <2>1, SpliceSize
    <2>3. Len(Spliced(source, x, y, none)) = x + Len(none) + (Len(source) - y)
      BY <1>1, <1>2, <2>1, SpliceSize
    <2>4. x + Len(none) + (Len(source) - y) = l - (y - x)
      BY <1>1, <1>2, <2>1
    <2>5. QED BY <2>2, <2>3, <2>4 DEF none
  <1>7. at \in 0..(l - (y - x)) /\ l - (y - x) \in Nat
    <2> HIDE DEF at
    <2>1. QED BY <1>1, <1>2, <1>4
  <1> HIDE DEF at, cut, rest
  <1>8. at \in 0..Len(rest) /\ at \in at..Len(rest)
    BY <1>6, <1>7
  <1>9. s \in Seq(Pieces)
    BY <1>5, <1>6, <1>8, SpliceSize
  <1>10. Len(s) = at + Len(cut) + (Len(rest) - at)
    BY <1>5, <1>6, <1>8, SpliceSize
  <1>11. Len(s) = l
    BY <1>1, <1>2, <1>5, <1>6, <1>7, <1>10
  <1> HIDE DEF s
  <1>12. QED BY <1>1, <1>3, <1>9, <1>11, PresentOutdated, ReconcilesEdits

LEMMA StructuralEdits ==
  ASSUME DocOK, Structural
  PROVE  Edits
  <1>1. /\ source \in Seq(Pieces) /\ Len(source) \in Nat /\ Len(source) <= MaxLength
        /\ DOMAIN blocks = 1..Len(blocks)
        /\ \A k \in 1..Len(blocks) : /\ blocks[k].start \in 0..Len(source)
                                     /\ blocks[k].end \in blocks[k].start..Len(source)
    BY DocFacts
  <1>2. ASSUME NEW from \in Positions, NEW to \in from..Len(source), NEW new \in Replacements,
               ReplaceSourceRange(from, to, new)
        PROVE  Edits
    <2>1. new \in Seq(Pieces)
      BY BoundsCount, BoundedSeqs DEF Replacements
    <2>2. QED BY <1>2, <2>1, RangeEdits DEF Positions
  <1>3. ASSUME NEW after \in {0} \cup {b.end : b \in Range(blocks)}, NEW piece \in Pieces,
               InsertBlock(after, piece)
        PROVE  Edits
    <2>1. after \in 0..Len(source)
      <3>1. SUFFICES ASSUME after # 0 PROVE after \in 0..Len(source)
        BY <1>1
      <3>2. PICK k \in 1..Len(blocks) : after = blocks[k].end
        BY <1>1, <3>1 DEF Range
      <3> DEFINE p == blocks[k].start
      <3>3. p \in 0..Len(source) /\ after \in p..Len(source)
        BY <1>1, <3>2
      <3> HIDE DEF p
      <3>4. QED BY <1>1, <3>3
    <2>2. after \in after..Len(source) /\ <<piece>> \in Seq(Pieces)
      BY <1>1, <2>1
    <2>3. ReplaceSourceRange(after, after, <<piece>>)
      BY <1>3 DEF InsertBlock
    <2>4. QED BY <2>1, <2>2, <2>3, RangeEdits
  <1>4. ASSUME NEW k \in DOMAIN blocks, DeleteBlock(k)
        PROVE  Edits
    <2>1. ReplaceSourceRange(blocks[k].start, blocks[k].end, <<>>)
      BY <1>4 DEF DeleteBlock
    <2> DEFINE none == <<>>
               x == blocks[k].start
               y == blocks[k].end
    <2>2. none \in Seq(Pieces) /\ ReplaceSourceRange(x, y, none)
      BY <2>1
    <2>3. x \in 0..Len(source) /\ y \in x..Len(source)
      BY <1>1
    <2> HIDE DEF none, x, y
    <2>4. QED BY <2>2, <2>3, RangeEdits
  <1>5. ASSUME NEW k \in DOMAIN blocks,
               NEW after \in {0} \cup {blocks[j].end : j \in DOMAIN blocks \ {k}},
               MoveBlock(k, after)
        PROVE  Edits
    BY <1>5, MoveEdits
  <1>6. ASSUME ReconcileFull
        PROVE  Edits
    BY <1>1, <1>6, PresentOutdated, ReconcilesEdits DEF ReconcileFull
  <1>7. QED BY <1>2, <1>3, <1>4, <1>5, <1>6 DEF Structural

\* An edit in place gives one of the blocks a text that suits it.
EditsText(k, new) ==
  Suits(blocks[k], new) /\ EditsInPlace(k, blocks[k].start, blocks[k].end, new)

LEMMA LocalIs ==
  ASSUME DocOK, Local
  PROVE  \E k \in 1..Len(blocks), new \in Seq(Pieces) : EditsText(k, new)
  <1>1. /\ DOMAIN blocks = 1..Len(blocks)
        /\ \A k \in 1..Len(blocks) : blocks[k] \in DocBlocks /\ Sensible(blocks[k])
    BY DocFacts
  <1>2. ASSUME NEW k \in DOMAIN blocks, NEW body \in Bodies, NEW spacing \in Spacings,
               EditFormula(k, [body |-> body, spacing |-> spacing])
        PROVE  \E new \in Seq(Pieces) : EditsText(k, new)
    <2> DEFINE b == blocks[k]
               old == b.content[1]
               piece == [old EXCEPT !.body = body, !.spacing = spacing]
               new == <<piece>>
    <2>1. IsFormula(b) /\ EditsInPlace(k, b.start, b.end, new)
      BY <1>2 DEF EditFormula
    <2>2. old \in FormulaPieces
      <3>1. Len(b.content) = 1 /\ b.content \in Seq(Pieces) /\ IsFormula(old)
        BY <1>1, <2>1 DEF Sensible, DocBlocks
      <3>2. old \in Pieces
        BY <3>1, ElementOfSeq
      <3>3. QED BY <3>1, <3>2 DEF Pieces, TextPieces, IsFormula
    <2> HIDE DEF old
    <2>3. piece \in FormulaPieces
      <3> DEFINE mid == [old EXCEPT !.body = body]
      <3>1. mid \in FormulaPieces
        BY <2>2 DEF FormulaPieces
      <3>2. piece = [mid EXCEPT !.spacing = spacing]
        OBVIOUS
      <3> HIDE DEF mid
      <3>3. QED BY <3>1, <3>2 DEF FormulaPieces
    <2> HIDE DEF piece
    <2>4. new \in Seq(Pieces) /\ Len(new) = 1 /\ IsFormula(new[1])
      BY <2>3 DEF Pieces, FormulaPieces, IsFormula
    <2>5. Suits(b, new)
      BY <2>1, <2>4 DEF Suits
    <2> HIDE DEF new
    <2>6. QED BY <2>1, <2>4, <2>5 DEF EditsText
  <1>3. ASSUME NEW k \in DOMAIN blocks, NEW text \in ParagraphTexts, EditParagraph(k, text)
        PROVE  \E new \in Seq(Pieces) : EditsText(k, new)
    <2> DEFINE b == blocks[k]
    <2>1. ~IsFormula(b) /\ EditsInPlace(k, b.start, b.end, text)
      BY <1>3 DEF EditParagraph
    <2>2. text \in Seq(TextPieces)
      BY BoundedSeqs DEF ParagraphTexts
    <2>3. text \in Seq(Pieces)
      BY <2>2 DEF Pieces
    <2>4. ASSUME NEW i \in 1..Len(text) PROVE ~IsFormula(text[i])
      <3>1. text[i] \in TextPieces
        BY <2>2, ElementOfSeq
      <3>2. QED BY <3>1 DEF TextPieces, IsFormula
    <2>5. Suits(b, text)
      BY <2>1, <2>4 DEF Suits
    <2>6. QED BY <2>1, <2>3, <2>5 DEF EditsText
  <1>4. QED BY <1>1, <1>2, <1>3 DEF Local

LEMMA LocalEdits ==
  ASSUME DocOK, Local
  PROVE  Edits
  BY LocalIs, InPlaceDocument DEF EditsText

LEMMA DocumentInvariance ==
  ASSUME DocOK, [Next]_vars
  PROVE  DocOK'
  <1>1. CASE \E k \in DOMAIN blocks, external \in Externals : Bind(k, external)
    BY <1>1, BindDocument
  <1>2. CASE Structural
    BY <1>2, StructuralEdits DEF Edits
  <1>3. CASE Local
    BY <1>3, LocalEdits DEF Edits
  <1>4. CASE Outputs
    <2>1. UNCHANGED <<source, blocks, bound>>
      BY <1>4 DEF Outputs, Recall, Derive
    <2>2. QED BY <2>1 DEF DocOK
  <1>5. CASE \E revisions \in Retentions : SetPolicy(revisions)
    <2>1. UNCHANGED <<source, blocks, bound>>
      BY <1>5 DEF SetPolicy
    <2>2. QED BY <2>1 DEF DocOK
  <1>6. CASE UNCHANGED vars
    <2>1. UNCHANGED <<source, blocks, bound>>
      BY <1>6 DEF vars
    <2>2. QED BY <2>1 DEF DocOK
  <1>7. QED BY <1>1, <1>2, <1>3, <1>4, <1>5, <1>6 DEF Next

LEMMA DocumentKept == Spec => []DocOK
  <1>1. Init => DocOK
    BY InitDocument
  <1>2. DocOK /\ [Next]_vars => DocOK'
    BY DocumentInvariance
  <1>3. QED BY <1>1, <1>2, PTL DEF Spec

(***************************************************************************)
(* Whatever is edited where and in whatever order, by an edit in place or  *)
(* by a new parse, the document is what a parse of the whole source would  *)
(* make of it, unless a paragraph has been emptied in place.               *)
(***************************************************************************)
THEOREM RebuildsHold == Spec => []LocalEditsAreRebuilds
  <1>1. DocOK => LocalEditsAreRebuilds
    <2>1. SUFFICES ASSUME DocOK, \A b \in Range(blocks) : b.start < b.end
          PROVE  Anonymous(blocks) = Parsed(source)
      BY DEF LocalEditsAreRebuilds
    <2>2. source \in Seq(Pieces) /\ DOMAIN blocks = 1..Len(blocks)
      BY <2>1, DocFacts
    <2>3. \A k \in 1..Len(blocks) : blocks[k].start < blocks[k].end
      BY <2>1, <2>2 DEF Range
    <2>4. Tiling(Anonymous(blocks), source, Len(source))
      BY <2>1, <2>3 DEF DocOK, Document, Rebuilt
    <2>5. Tiling(Parsed(source), source, Len(source))
      BY <2>2, ParsedTiles
    <2>6. QED BY <2>2, <2>4, <2>5, TilingUnique
  <1>2. QED BY <1>1, DocumentKept, PTL

-----------------------------------------------------------------------------
(* Lineages *)

Lin(graph, edges, latest, stale) ==
  [graph |-> graph, edges |-> edges, latest |-> latest, stale |-> stale]

IsLineage(l) == l = Lin(l.graph, l.edges, l.latest, l.stale)

From(l, new) == {e \in l.latest \X new : Replaces(e[1], e[2]) \/ IsOrigin(e[1], e[2])}
Others(l, new) == {p \in l.latest : \A a \in new : ~Replaces(p, a)}
Stay(l, r, kept) == {a \in DOMAIN l.graph : a \in l.latest \/ a.revision >= Minus(r, kept)}
Origins(l, ids) == {a \in l.latest : a.node \in ids /\ IsSource(a)}

LEMMA LineageParts ==
  ASSUME NEW g, NEW e, NEW t, NEW s
  PROVE  /\ IsLineage(Lin(g, e, t, s))
         /\ Lin(g, e, t, s).graph = g /\ Lin(g, e, t, s).edges = e
         /\ Lin(g, e, t, s).latest = t /\ Lin(g, e, t, s).stale = s
  BY DEF Lin, IsLineage

LEMMA WithArtifactsIs ==
  ASSUME NEW l, IsLineage(l), NEW made
  PROVE  WithArtifacts(l, made) =
           Lin(Over(made, l.graph), l.edges \cup From(l, DOMAIN made),
               Others(l, DOMAIN made) \cup DOMAIN made, l.stale)
  <1> DEFINE g == Over(made, l.graph)
             e == l.edges \cup From(l, DOMAIN made)
             t == Others(l, DOMAIN made) \cup DOMAIN made
             d1 == [l EXCEPT !.graph = g]
             d2 == [d1 EXCEPT !.edges = e]
             d3 == [d2 EXCEPT !.latest = t]
  <1>1. WithArtifacts(l, made) = [l EXCEPT !.graph = g, !.edges = e, !.latest = t]
    BY DEF WithArtifacts, From, Others
  <1>2. [l EXCEPT !.graph = g, !.edges = e, !.latest = t] = d3
    OBVIOUS
  <1> HIDE DEF g, e, t
  <1>3. d1 = Lin(g, l.edges, l.latest, l.stale)
    BY DEF IsLineage, Lin
  <1> HIDE DEF d1
  <1>4. d2 = Lin(g, e, l.latest, l.stale)
    BY <1>3 DEF Lin
  <1> HIDE DEF d2
  <1>5. d3 = Lin(g, e, t, l.stale)
    BY <1>4 DEF Lin
  <1> HIDE DEF d3
  <1>6. QED BY <1>1, <1>2, <1>5 DEF g, e, t

LEMMA CompactedIs ==
  ASSUME NEW l, IsLineage(l), NEW r, NEW kept
  PROVE  Compacted(l, r, kept) =
           Lin(Restrict(l.graph, Stay(l, r, kept)),
               l.edges \cap (Stay(l, r, kept) \X Stay(l, r, kept)),
               l.latest, l.stale \cap Stay(l, r, kept))
  <1> DEFINE g == Restrict(l.graph, Stay(l, r, kept))
             e == l.edges \cap (Stay(l, r, kept) \X Stay(l, r, kept))
             s == l.stale \cap Stay(l, r, kept)
             d1 == [l EXCEPT !.graph = g]
             d2 == [d1 EXCEPT !.edges = e]
             d3 == [d2 EXCEPT !.stale = s]
  <1>1. Compacted(l, r, kept) = [l EXCEPT !.graph = g, !.edges = e, !.stale = s]
    BY DEF Compacted, Stay
  <1>2. [l EXCEPT !.graph = g, !.edges = e, !.stale = s] = d3
    OBVIOUS
  <1> HIDE DEF g, e, s
  <1>3. d1 = Lin(g, l.edges, l.latest, l.stale)
    BY DEF IsLineage, Lin
  <1> HIDE DEF d1
  <1>4. d2 = Lin(g, e, l.latest, l.stale)
    BY <1>3 DEF Lin
  <1> HIDE DEF d2
  <1>5. d3 = Lin(g, e, l.latest, s)
    BY <1>4 DEF Lin
  <1> HIDE DEF d3
  <1>6. QED BY <1>1, <1>2, <1>5 DEF g, e, s

LEMMA InvalidatedIs ==
  ASSUME NEW l, IsLineage(l), NEW ids
  PROVE  Invalidated(l, ids) =
           Lin(l.graph, l.edges, {a \in l.latest : a.node \in ids => IsSource(a)},
               l.stale \cup Descendants(l.edges, Origins(l, ids)))
  <1> DEFINE t == {a \in l.latest : a.node \in ids => IsSource(a)}
             s == l.stale \cup Descendants(l.edges, Origins(l, ids))
             d1 == [l EXCEPT !.stale = s]
             d2 == [d1 EXCEPT !.latest = t]
  <1>1. Invalidated(l, ids) = [l EXCEPT !.stale = s, !.latest = t]
    BY DEF Invalidated, Origins
  <1>2. [l EXCEPT !.stale = s, !.latest = t] = d2
    OBVIOUS
  <1> HIDE DEF s, t
  <1>3. d1 = Lin(l.graph, l.edges, l.latest, s)
    BY DEF IsLineage, Lin
  <1> HIDE DEF d1
  <1>4. d2 = Lin(l.graph, l.edges, t, s)
    BY <1>3 DEF Lin
  <1> HIDE DEF d2
  <1>5. QED BY <1>1, <1>2, <1>4 DEF s, t

LEMMA OverIs ==
  ASSUME NEW made, NEW graph
  PROVE  /\ DOMAIN Over(made, graph) = DOMAIN made \cup DOMAIN graph
         /\ \A a \in DOMAIN made : Over(made, graph)[a] = made[a]
         /\ \A a \in DOMAIN graph : a \notin DOMAIN made => Over(made, graph)[a] = graph[a]
  BY DEF Over

LEMMA RestrictIs ==
  ASSUME NEW graph, NEW S \in SUBSET DOMAIN graph
  PROVE  /\ DOMAIN Restrict(graph, S) = S
         /\ \A a \in S : Restrict(graph, S)[a] = graph[a]
  BY DEF Restrict

(***************************************************************************)
(* Descendants: they start with the successors, and stay in what is closed *)
(* under edges.                                                            *)
(***************************************************************************)
Reachable(edges, from) ==
  \E f : f = [n \in 0..Cardinality(edges) |->
               IF n = 0 THEN After(edges, from) ELSE f[n - 1] \cup After(edges, f[n - 1])]

LEMMA DescendantRuns ==
  ASSUME NEW edges, IsFiniteSet(edges), NEW from
  PROVE  Reachable(edges, from)
  <1> DEFINE N == Cardinality(edges)
             all == {e[2] : e \in edges}
             V == SUBSET all
             base == After(edges, from)
             move(t) == t \cup After(edges, t)
             moved(p) == move(p[1])
             W == V \X (1..N)
             step == [p \in W |-> moved(p)]
  <1>0. N \in Nat
    BY FS_CardinalityType
  <1>1. base \in V /\ \A t \in V : move(t) \in V
    BY DEF After
  <1> HIDE DEF V, move, base, N
  <1>2. \A t \in V, n \in 1..N : <<t, n>> \in W /\ moved(<<t, n>>) = move(t)
    OBVIOUS
  <1>3. \A p \in W : moved(p) \in V
    BY <1>1
  <1> HIDE DEF moved
  <1>4. step \in [V \X (1..N) -> V] /\ \A p \in W : step[p] = moved(p)
    <2> HIDE DEF W
    <2>1. step \in [W -> V] /\ \A p \in W : step[p] = moved(p)
      BY <1>3
    <2>2. QED BY <2>1 DEF W
  <1> HIDE DEF step, W
  <1>5. PICK f \in [0..N -> V] : f[0] = base /\ \A n \in 1..N : f[n] = step[<<f[n - 1], n>>]
    <2>1. step \in [V \X (1..N) -> V]
      BY <1>4
    <2>2. \E f \in [0..N -> V] : IsRun(f, N, base, step)
      BY <1>0, <1>1, <2>1, Recursion
    <2>3. QED BY <2>2 DEF IsRun
  <1>6. \A n \in 1..N : f[n] = move(f[n - 1])
    <2>1. \A n \in 1..N : n - 1 \in 0..N
      BY <1>0
    <2>2. QED BY <1>2, <1>4, <1>5, <2>1
  <1>7. f = [n \in 0..N |-> IF n = 0 THEN base ELSE move(f[n - 1])]
    <2>1. \A n \in 0..N : n = 0 \/ n \in 1..N
      BY <1>0
    <2>2. QED BY <1>5, <1>6, <2>1
  <1>8. QED BY <1>7 DEF base, move, N, Reachable

LEMMA DescendantsBetween ==
  ASSUME NEW edges, IsFiniteSet(edges), NEW from, NEW Y,
         \A e \in edges : e[1] \in from \cup Y => e[2] \in Y
  PROVE  After(edges, from) \subseteq Descendants(edges, from) /\ Descendants(edges, from) \subseteq Y
  <1> DEFINE N == Cardinality(edges)
             base == After(edges, from)
             move(t) == t \cup After(edges, t)
             reached[n \in 0..N] == IF n = 0 THEN base ELSE move(reached[n - 1])
  <1>1. N \in Nat
    BY FS_CardinalityType
  <1>2. Descendants(edges, from) = reached[N]
    BY DEF Descendants
  <1>3. reached = [n \in 0..N |-> IF n = 0 THEN base ELSE move(reached[n - 1])]
    <2>1. \E f : f = [n \in 0..N |-> IF n = 0 THEN base ELSE move(f[n - 1])]
      <3>1. Reachable(edges, from)
        BY DescendantRuns
      <3>2. QED BY <3>1 DEF Reachable
    <2> HIDE DEF N, base, move
    <2>2. QED BY <2>1
  <1> HIDE DEF reached
  <1> DEFINE P == {n \in 0..N : After(edges, from) \subseteq reached[n] /\ reached[n] \subseteq Y}
  <1>4. After(edges, from) \subseteq Y /\ \A t \in SUBSET Y : After(edges, t) \subseteq Y
    BY DEF After
  <1>5. 0 \in P
    <2>1. 0 \in 0..N
      BY <1>1
    <2>2. reached[0] = After(edges, from)
      BY <1>3, <2>1
    <2>3. QED BY <1>4, <2>1, <2>2
  <1>6. ASSUME NEW n \in 1..N, n - 1 \in P PROVE n \in P
    <2>1. n \in 0..N /\ n # 0
      BY <1>1
    <2>2. reached[n] = reached[n - 1] \cup After(edges, reached[n - 1])
      BY <1>3, <2>1
    <2>3. After(edges, from) \subseteq reached[n - 1] /\ reached[n - 1] \subseteq Y
      BY <1>6
    <2>4. After(edges, reached[n - 1]) \subseteq Y
      BY <1>4, <2>3
    <2>5. QED BY <2>1, <2>2, <2>3, <2>4
  <1> HIDE DEF P, N, base, move
  <1>7. \A n \in 0..N : n \in P
    BY <1>1, <1>5, <1>6, Induction
  <1>8. N \in P
    BY <1>1, <1>7
  <1>9. QED BY <1>2, <1>8 DEF P

-----------------------------------------------------------------------------
(* The invariant of the lineage *)

ArtifactsOf(ids, r) == [node : ids, form : Formats \cup {"source"}, revision : 0..r]

Typed(l, ids, r) ==
  /\ IsLineage(l)
  /\ DOMAIN l.graph \subseteq ArtifactsOf(ids, r)
  /\ l.latest \subseteq DOMAIN l.graph /\ IsFiniteSet(l.latest)
  /\ l.edges \subseteq (DOMAIN l.graph) \X (DOMAIN l.graph) /\ IsFiniteSet(l.edges)
  /\ \A a, b \in l.latest : Replaces(a, b) => a = b

\* What is stale was made before the present revision.
StaleBefore(l, r) == \A a \in l.stale : a.revision \in Nat /\ a.revision < r

CurrentIn(bs, id, content) ==
  \E b \in Formulas(bs) : b.id = id /\ b.content[1].body = content[1].body

HasOrigin(l, a) == \E s \in l.latest : s.node = a.node /\ IsSource(s) /\ <<s, a>> \in l.edges

\* An output that is not stale is of the present formula and comes from the latest
\* source of its node, and there is a latest output of its kind: the source is what an
\* edit starts from to mark it, and the latest output keeps Bind away.
Unmarked(l, a) == a \in DOMAIN l.graph /\ a \notin l.stale /\ ~IsSource(a)

Fresh(l, bs) ==
  \A a \in DOMAIN l.graph :
     Unmarked(l, a) => /\ CurrentIn(bs, a.node, l.graph[a]) /\ HasOrigin(l, a)
                       /\ \E p \in l.latest : Replaces(p, a)

SourceOf(l, b) ==
  \E s \in l.latest : s.node = b.id /\ IsSource(s) /\ l.graph[s][1].body = b.content[1].body

Covered(l, bs) == \A b \in Formulas(bs) : SourceOf(l, b)

LEMMA ReplacesIs ==
  ASSUME NEW a, NEW b
  PROVE  /\ Replaces(a, b) <=> a.node = b.node /\ a.form = b.form
         /\ Replaces(a, b) => (IsSource(a) <=> IsSource(b))
  BY DEF Replaces, IsSource

(***************************************************************************)
(* Compaction keeps it, as it keeps the latest artifacts.                  *)
(***************************************************************************)
LEMMA CompactedSound ==
  ASSUME NEW l, NEW ids, NEW r, NEW r2, NEW kept, Typed(l, ids, r)
  PROVE  LET c == Compacted(l, r2, kept)
         IN  /\ Typed(c, ids, r)
             /\ StaleBefore(l, r) => StaleBefore(c, r)
             /\ \A bs : Fresh(l, bs) => Fresh(c, bs)
             /\ \A bs : Covered(l, bs) => Covered(c, bs)
  <1> DEFINE c == Compacted(l, r2, kept)
             S == Stay(l, r2, kept)
  <1>1. IsLineage(l) /\ l.latest \subseteq DOMAIN l.graph
    BY DEF Typed
  <1>2. S \subseteq DOMAIN l.graph /\ l.latest \subseteq S
    BY <1>1 DEF Stay
  <1>3. c = Lin(Restrict(l.graph, S), l.edges \cap (S \X S), l.latest, l.stale \cap S)
    BY <1>1, CompactedIs
  <1> HIDE DEF c, S
  <1>4. /\ IsLineage(c) /\ c.graph = Restrict(l.graph, S) /\ c.edges = l.edges \cap (S \X S)
        /\ c.latest = l.latest /\ c.stale = l.stale \cap S
    BY <1>3, LineageParts
  <1>5. DOMAIN c.graph = S /\ \A a \in S : c.graph[a] = l.graph[a]
    BY <1>2, <1>4, RestrictIs
  <1>6. Typed(c, ids, r)
    <2>1. IsFiniteSet(c.edges)
      <3>1. IsFiniteSet(l.edges) /\ c.edges \subseteq l.edges
        BY <1>4 DEF Typed
      <3>2. QED BY <3>1, FS_Subset
    <2>2. c.edges \subseteq (DOMAIN c.graph) \X (DOMAIN c.graph)
      BY <1>4, <1>5
    <2>3. QED BY <1>2, <1>4, <1>5, <2>1, <2>2 DEF Typed
  <1>7. StaleBefore(l, r) => StaleBefore(c, r)
    BY <1>4 DEF StaleBefore
  <1>8. ASSUME NEW bs, Fresh(l, bs) PROVE Fresh(c, bs)
    <2>1. ASSUME NEW a \in DOMAIN c.graph, Unmarked(c, a)
          PROVE  /\ CurrentIn(bs, a.node, c.graph[a]) /\ HasOrigin(c, a)
                 /\ \E p \in c.latest : Replaces(p, a)
      <3>1. a \in S /\ a \in DOMAIN l.graph /\ Unmarked(l, a) /\ c.graph[a] = l.graph[a]
        BY <1>2, <1>4, <1>5, <2>1 DEF Unmarked
      <3>2. CurrentIn(bs, a.node, l.graph[a]) /\ HasOrigin(l, a) /\ \E p \in l.latest : Replaces(p, a)
        BY <1>8, <3>1 DEF Fresh
      <3>3. PICK s \in l.latest : s.node = a.node /\ IsSource(s) /\ <<s, a>> \in l.edges
        BY <3>2 DEF HasOrigin
      <3>4. <<s, a>> \in c.edges
        BY <1>2, <1>4, <3>1, <3>3
      <3>5. HasOrigin(c, a)
        BY <1>4, <3>3, <3>4 DEF HasOrigin
      <3>6. QED BY <1>4, <3>1, <3>2, <3>5
    <2>2. QED BY <2>1 DEF Fresh
  <1>9. ASSUME NEW bs, Covered(l, bs) PROVE Covered(c, bs)
    <2>1. ASSUME NEW b \in Formulas(bs) PROVE SourceOf(c, b)
      <3>1. SourceOf(l, b)
        BY <1>9 DEF Covered
      <3>2. PICK s \in l.latest : s.node = b.id /\ IsSource(s)
                                  /\ l.graph[s][1].body = b.content[1].body
        BY <3>1 DEF SourceOf
      <3>3. s \in c.latest /\ c.graph[s] = l.graph[s]
        BY <1>2, <1>4, <1>5
      <3>4. QED BY <3>2, <3>3 DEF SourceOf
    <2>2. QED BY <2>1 DEF Covered
  <1>10. QED BY <1>6, <1>7, <1>8, <1>9 DEF c

(***************************************************************************)
(* New artifacts, one of a kind.                                           *)
(***************************************************************************)
LEMMA WithTyped ==
  ASSUME NEW l, NEW ids, NEW r, Typed(l, ids, r), NEW made,
         DOMAIN made \subseteq ArtifactsOf(ids, r), IsFiniteSet(DOMAIN made),
         \A a, b \in DOMAIN made : Replaces(a, b) => a = b
  PROVE  LET w == WithArtifacts(l, made)
         IN  /\ Typed(w, ids, r) /\ w.stale = l.stale
             /\ w.latest = Others(l, DOMAIN made) \cup DOMAIN made
             /\ w.edges = l.edges \cup From(l, DOMAIN made)
             /\ DOMAIN w.graph = DOMAIN made \cup DOMAIN l.graph
             /\ \A a \in DOMAIN made : w.graph[a] = made[a]
             /\ \A a \in DOMAIN l.graph : a \notin DOMAIN made => w.graph[a] = l.graph[a]
  <1> DEFINE w == WithArtifacts(l, made)
             new == DOMAIN made
             from == From(l, new)
             others == Others(l, new)
  <1>1. /\ IsLineage(l) /\ l.latest \subseteq DOMAIN l.graph /\ IsFiniteSet(l.latest)
        /\ DOMAIN l.graph \subseteq ArtifactsOf(ids, r)
        /\ l.edges \subseteq (DOMAIN l.graph) \X (DOMAIN l.graph) /\ IsFiniteSet(l.edges)
        /\ \A a, b \in l.latest : Replaces(a, b) => a = b
    BY DEF Typed
  <1>2. w = Lin(Over(made, l.graph), l.edges \cup from, others \cup new, l.stale)
    BY <1>1, WithArtifactsIs
  <1> HIDE DEF w
  <1>3. /\ IsLineage(w) /\ w.graph = Over(made, l.graph) /\ w.edges = l.edges \cup from
        /\ w.latest = others \cup new /\ w.stale = l.stale
    BY <1>2, LineageParts
  <1>4. /\ DOMAIN w.graph = new \cup DOMAIN l.graph
        /\ \A a \in new : w.graph[a] = made[a]
        /\ \A a \in DOMAIN l.graph : a \notin new => w.graph[a] = l.graph[a]
    <2> DEFINE old == l.graph
               g == Over(made, old)
    <2> HIDE DEF old, g
    <2>1. w.graph = g
      BY <1>3 DEF old, g
    <2>2. /\ DOMAIN g = DOMAIN made \cup DOMAIN old
          /\ \A a \in DOMAIN made : g[a] = made[a]
          /\ \A a \in DOMAIN old : a \notin DOMAIN made => g[a] = old[a]
      BY OverIs DEF g
    <2>3. QED BY <2>1, <2>2 DEF old
  <1>5. others \subseteq l.latest /\ from \subseteq l.latest \X new
    BY DEF Others, From
  <1>6. IsFiniteSet(w.latest)
    <2> HIDE DEF others, new
    <2>1. IsFiniteSet(others) /\ IsFiniteSet(new)
      BY <1>1, <1>5, FS_Subset DEF new
    <2>2. QED BY <1>3, <2>1, FS_Union
  <1>7. IsFiniteSet(w.edges)
    <2> HIDE DEF from, new
    <2>1. IsFiniteSet(l.latest \X new)
      BY <1>1, FS_Product DEF new
    <2>2. IsFiniteSet(from)
      BY <1>5, <2>1, FS_Subset
    <2>3. IsFiniteSet(l.edges)
      BY <1>1
    <2>4. IsFiniteSet(l.edges \cup from)
      BY <2>2, <2>3, FS_Union
    <2>5. QED BY <1>3, <2>4 DEF from, new
  <1>8. w.edges \subseteq (DOMAIN w.graph) \X (DOMAIN w.graph)
    <2> HIDE DEF from, new
    <2>1. QED BY <1>1, <1>3, <1>4, <1>5
  <1>9. ASSUME NEW a \in w.latest, NEW b \in w.latest, Replaces(a, b) PROVE a = b
    <2>1. CASE a \in others /\ b \in others
      BY <1>1, <1>5, <1>9, <2>1
    <2>2. CASE a \in new /\ b \in new
      BY <1>9, <2>2
    <2>3. CASE a \in others /\ b \in new
      BY <1>9, <2>3 DEF Others
    <2>4. CASE a \in new /\ b \in others
      BY <1>9, <2>4 DEF Others, Replaces
    <2>5. QED BY <1>3, <1>9, <2>1, <2>2, <2>3, <2>4
  <1> HIDE DEF others, from, new
  <1>10. Typed(w, ids, r)
    <2>1. DOMAIN w.graph \subseteq ArtifactsOf(ids, r)
      BY <1>1, <1>4 DEF new
    <2>2. w.latest \subseteq DOMAIN w.graph
      BY <1>1, <1>3, <1>4, <1>5
    <2>3. QED BY <1>3, <1>6, <1>7, <1>8, <1>9, <2>1, <2>2 DEF Typed
  <1>11. QED BY <1>3, <1>4, <1>10 DEF w, new, from, others

\* What is the latest of a kind stays so unless it is replaced.
LEMMA LatestStays ==
  ASSUME NEW l, NEW new, NEW p \in l.latest, \A a \in new : ~Replaces(p, a)
  PROVE  p \in Others(l, new)
  BY DEF Others

(***************************************************************************)
(* The sources of an edit or of a binding: the outputs of their nodes are  *)
(* stale, and a formula has a new source or the one it had.                *)
(***************************************************************************)
LEMMA SourcesSound ==
  ASSUME NEW l, NEW ids, NEW r, Typed(l, ids, r), NEW made, NEW bs,
         DOMAIN made \subseteq ArtifactsOf(ids, r), IsFiniteSet(DOMAIN made),
         \A a, b \in DOMAIN made : Replaces(a, b) => a = b,
         \A m \in DOMAIN made : IsSource(m),
         \A a \in DOMAIN l.graph : Unmarked(l, a) => \A m \in DOMAIN made : m.node # a.node,
         Fresh(l, bs),
         \A b \in Formulas(bs) :
            \/ \E m \in DOMAIN made : m.node = b.id /\ made[m][1].body = b.content[1].body
            \/ SourceOf(l, b) /\ \A m \in DOMAIN made : m.node # b.id
  PROVE  Fresh(WithArtifacts(l, made), bs) /\ Covered(WithArtifacts(l, made), bs)
  <1> DEFINE w == WithArtifacts(l, made)
             new == DOMAIN made
  <1>1. /\ w.stale = l.stale /\ w.latest = Others(l, new) \cup new
        /\ w.edges = l.edges \cup From(l, new) /\ DOMAIN w.graph = new \cup DOMAIN l.graph
        /\ \A a \in new : w.graph[a] = made[a]
        /\ \A a \in DOMAIN l.graph : a \notin new => w.graph[a] = l.graph[a]
    BY WithTyped
  <1>2. l.latest \subseteq DOMAIN l.graph
    BY DEF Typed
  <1> HIDE DEF w
  <1>3. ASSUME NEW p \in l.latest, \A m \in new : m.node # p.node
        PROVE  p \in w.latest /\ w.graph[p] = l.graph[p]
    <2>1. \A m \in new : ~Replaces(p, m)
      BY <1>3, ReplacesIs
    <2>2. p \in Others(l, new)
      BY <2>1, LatestStays
    <2>3. p \notin new
      BY <1>3
    <2>4. p \in DOMAIN l.graph
      BY <1>2
    <2>5. QED BY <1>1, <2>2, <2>3, <2>4
  <1>4. ASSUME NEW a \in DOMAIN w.graph, Unmarked(w, a)
        PROVE  /\ CurrentIn(bs, a.node, w.graph[a]) /\ HasOrigin(w, a)
               /\ \E p \in w.latest : Replaces(p, a)
    <2>1. a \notin new
      BY <1>4 DEF Unmarked
    <2>2. a \in DOMAIN l.graph /\ Unmarked(l, a) /\ w.graph[a] = l.graph[a]
      BY <1>1, <1>4, <2>1 DEF Unmarked
    <2>3. /\ CurrentIn(bs, a.node, l.graph[a]) /\ HasOrigin(l, a)
          /\ \E p \in l.latest : Replaces(p, a)
      BY <2>2 DEF Fresh
    <2>4. \A m \in new : m.node # a.node
      BY <2>2
    <2>5. PICK s \in l.latest : s.node = a.node /\ IsSource(s) /\ <<s, a>> \in l.edges
      BY <2>3 DEF HasOrigin
    <2>6. s \in w.latest /\ <<s, a>> \in w.edges
      BY <1>1, <1>3, <2>4, <2>5
    <2>7. HasOrigin(w, a)
      BY <2>5, <2>6 DEF HasOrigin
    <2>8. PICK p \in l.latest : Replaces(p, a)
      BY <2>3
    <2>9. p.node = a.node
      BY <2>8, ReplacesIs
    <2>10. p \in w.latest
      BY <1>3, <2>4, <2>9
    <2>11. QED BY <2>2, <2>3, <2>7, <2>8, <2>10
  <1>5. ASSUME NEW b \in Formulas(bs) PROVE SourceOf(w, b)
    <2>1. CASE \E m \in new : m.node = b.id /\ made[m][1].body = b.content[1].body
      <3>1. PICK m \in new : m.node = b.id /\ made[m][1].body = b.content[1].body
        BY <2>1
      <3>2. m \in w.latest /\ IsSource(m) /\ w.graph[m] = made[m]
        BY <1>1
      <3>3. QED BY <3>1, <3>2 DEF SourceOf
    <2>2. CASE SourceOf(l, b) /\ \A m \in new : m.node # b.id
      <3>1. PICK s \in l.latest : s.node = b.id /\ IsSource(s)
                                  /\ l.graph[s][1].body = b.content[1].body
        BY <2>2 DEF SourceOf
      <3>2. s \in w.latest /\ w.graph[s] = l.graph[s]
        BY <1>3, <2>2, <3>1
      <3>3. QED BY <3>1, <3>2 DEF SourceOf
    <2>3. QED BY <2>1, <2>2
  <1>6. Fresh(w, bs)
    BY <1>4 DEF Fresh
  <1>7. Covered(w, bs)
    BY <1>5 DEF Covered
  <1>8. QED BY <1>6, <1>7 DEF w

Single(made, m, content) == DOMAIN made = {m} /\ made[m] = content

(***************************************************************************)
(* A new output of a formula of the document.                              *)
(***************************************************************************)
LEMMA DerivedSound ==
  ASSUME NEW l, NEW ids, NEW r, Typed(l, ids, r), NEW bs, Fresh(l, bs), Covered(l, bs),
         NEW m \in ArtifactsOf(ids, r), ~IsSource(m),
         NEW b \in Formulas(bs), m.node = b.id,
         NEW made, Single(made, m, b.content)
  PROVE  Fresh(WithArtifacts(l, made), bs) /\ Covered(WithArtifacts(l, made), bs)
  <1> DEFINE w == WithArtifacts(l, made)
  <1>0. DOMAIN made = {m} /\ made[m] = b.content
    BY DEF Single
  <1>1. /\ w.stale = l.stale /\ w.latest = Others(l, {m}) \cup {m}
        /\ w.edges = l.edges \cup From(l, {m}) /\ DOMAIN w.graph = {m} \cup DOMAIN l.graph
        /\ w.graph[m] = b.content
        /\ \A a \in DOMAIN l.graph : a # m => w.graph[a] = l.graph[a]
    <2>1. IsFiniteSet(DOMAIN made)
      BY <1>0, FS_Singleton
    <2>2. DOMAIN made \subseteq ArtifactsOf(ids, r)
      BY <1>0
    <2>3. \A a, c \in DOMAIN made : Replaces(a, c) => a = c
      BY <1>0
    <2>4. /\ w.stale = l.stale /\ w.latest = Others(l, DOMAIN made) \cup DOMAIN made
          /\ w.edges = l.edges \cup From(l, DOMAIN made)
          /\ DOMAIN w.graph = DOMAIN made \cup DOMAIN l.graph
          /\ \A a \in DOMAIN made : w.graph[a] = made[a]
          /\ \A a \in DOMAIN l.graph : a \notin DOMAIN made => w.graph[a] = l.graph[a]
      BY <2>1, <2>2, <2>3, WithTyped
    <2> HIDE DEF w
    <2>5. QED BY <1>0, <2>4
  <1>2. l.latest \subseteq DOMAIN l.graph
    BY DEF Typed
  <1> HIDE DEF w
  <1>3. ASSUME NEW s \in l.latest, IsSource(s) PROVE s \in w.latest /\ w.graph[s] = l.graph[s]
    <2>1. ~Replaces(s, m)
      BY <1>3, ReplacesIs
    <2>2. s \in Others(l, {m})
      BY <2>1, LatestStays
    <2>3. s # m
      BY <1>3
    <2>4. QED BY <1>1, <1>2, <2>2, <2>3
  <1>4. ASSUME NEW a \in DOMAIN w.graph, Unmarked(w, a)
        PROVE  /\ CurrentIn(bs, a.node, w.graph[a]) /\ HasOrigin(w, a)
               /\ \E p \in w.latest : Replaces(p, a)
    <2>1. CASE a = m
      <3>1. CurrentIn(bs, a.node, w.graph[a])
        BY <1>1, <2>1 DEF CurrentIn
      <3>2. SourceOf(l, b)
        BY DEF Covered
      <3>3. PICK s \in l.latest : s.node = b.id /\ IsSource(s)
        BY <3>2 DEF SourceOf
      <3>4. <<s, m>> \in From(l, {m})
        BY <3>3 DEF From, IsOrigin
      <3>5. s \in w.latest /\ <<s, m>> \in w.edges
        BY <1>1, <1>3, <3>3, <3>4
      <3>6. HasOrigin(w, a)
        BY <2>1, <3>3, <3>5 DEF HasOrigin
      <3>7. m \in w.latest /\ Replaces(m, a)
        BY <1>1, <2>1 DEF Replaces
      <3>8. QED BY <3>1, <3>6, <3>7
    <2>2. CASE a # m
      <3>1. a \in DOMAIN l.graph /\ Unmarked(l, a) /\ w.graph[a] = l.graph[a]
        BY <1>1, <1>4, <2>2 DEF Unmarked
      <3>2. /\ CurrentIn(bs, a.node, l.graph[a]) /\ HasOrigin(l, a)
            /\ \E p \in l.latest : Replaces(p, a)
        BY <3>1 DEF Fresh
      <3>3. PICK s \in l.latest : s.node = a.node /\ IsSource(s) /\ <<s, a>> \in l.edges
        BY <3>2 DEF HasOrigin
      <3>4. s \in w.latest /\ <<s, a>> \in w.edges
        BY <1>1, <1>3, <3>3
      <3>5. HasOrigin(w, a)
        BY <3>3, <3>4 DEF HasOrigin
      <3>6. PICK p \in l.latest : Replaces(p, a)
        BY <3>2
      <3>7. CASE Replaces(p, m)
        <4>1. Replaces(m, a)
          BY <3>6, <3>7 DEF Replaces
        <4>2. QED BY <1>1, <3>1, <3>2, <3>5, <4>1
      <3>8. CASE ~Replaces(p, m)
        <4>1. p \in Others(l, {m})
          BY <3>8, LatestStays
        <4>2. QED BY <1>1, <3>1, <3>2, <3>5, <3>6, <4>1
      <3>9. QED BY <3>7, <3>8
    <2>3. QED BY <2>1, <2>2
  <1>5. ASSUME NEW c \in Formulas(bs) PROVE SourceOf(w, c)
    <2>1. SourceOf(l, c)
      BY DEF Covered
    <2>2. PICK s \in l.latest : s.node = c.id /\ IsSource(s)
                                /\ l.graph[s][1].body = c.content[1].body
      BY <2>1 DEF SourceOf
    <2>3. s \in w.latest /\ w.graph[s] = l.graph[s]
      BY <1>3, <2>2
    <2>4. QED BY <2>2, <2>3 DEF SourceOf
  <1>6. Fresh(w, bs)
    BY <1>4 DEF Fresh
  <1>7. Covered(w, bs)
    BY <1>5 DEF Covered
  <1>8. QED BY <1>6, <1>7 DEF w

(***************************************************************************)
(* More edges, between artifacts that are there.                           *)
(***************************************************************************)
LEMMA LinkedSound ==
  ASSUME NEW l, NEW ids, NEW r, Typed(l, ids, r), NEW bs, Fresh(l, bs), Covered(l, bs),
         StaleBefore(l, r), NEW E \in SUBSET ((DOMAIN l.graph) \X (DOMAIN l.graph)), IsFiniteSet(E)
  PROVE  LET c == [l EXCEPT !.edges = @ \cup E]
         IN  Typed(c, ids, r) /\ Fresh(c, bs) /\ Covered(c, bs) /\ StaleBefore(c, r)
  <1> DEFINE c == [l EXCEPT !.edges = @ \cup E]
  <1>0. IsLineage(l) /\ IsFiniteSet(l.edges)
    BY DEF Typed
  <1>1. c = Lin(l.graph, l.edges \cup E, l.latest, l.stale)
    BY <1>0 DEF IsLineage, Lin
  <1> HIDE DEF c
  <1>2. /\ IsLineage(c) /\ c.graph = l.graph /\ c.edges = l.edges \cup E
        /\ c.latest = l.latest /\ c.stale = l.stale
    BY <1>1, LineageParts
  <1>3. Typed(c, ids, r)
    <2>1. IsFiniteSet(l.edges \cup E)
      BY <1>0, FS_Union
    <2>2. QED BY <1>2, <2>1 DEF Typed
  <1>4. Fresh(c, bs)
    BY <1>2 DEF Fresh, Unmarked, HasOrigin
  <1>5. Covered(c, bs)
    BY <1>2 DEF Covered, SourceOf
  <1>6. StaleBefore(c, r)
    BY <1>2 DEF StaleBefore
  <1>7. QED BY <1>3, <1>4, <1>5, <1>6 DEF c

-----------------------------------------------------------------------------
(* The sources of the formulas of a document *)

SourcesOf(F, r) ==
  [a \in {Sourced(b.id, r) : b \in F} |-> (CHOOSE b \in F : b.id = a.node).content]

LEMMA FormulasApart ==
  ASSUME NEW bs, NEW s, NEW m, Document(bs, s, m)
  PROVE  /\ IsFiniteSet(Formulas(bs))
         /\ \A b \in Formulas(bs) : b.id \in (1..m) \cup Externals
         /\ \A b, c \in Formulas(bs) : b.id = c.id => b = c
  <1>1. bs \in Seq(DocBlocks) /\ GivenOut(bs, m) /\ Len(bs) \in Nat /\ DOMAIN bs = 1..Len(bs)
    BY LenProperties DEF Document
  <1>2. \A b \in Formulas(bs) : \E k \in 1..Len(bs) : b = bs[k] /\ IsFormula(bs[k])
    BY <1>1, FormulasAre
  <1>3. IsFiniteSet(Formulas(bs))
    <2> DEFINE h == [k \in 1..Len(bs) |-> bs[k]]
    <2>1. h \in Surjection(1..Len(bs), Range(bs))
      BY <1>1 DEF Surjection, Range
    <2>2. IsFiniteSet(1..Len(bs))
      BY <1>1, FS_Interval
    <2> HIDE DEF h
    <2>3. IsFiniteSet(Range(bs))
      BY <2>1, <2>2, FS_Surjection
    <2>4. Formulas(bs) \subseteq Range(bs)
      BY DEF Formulas
    <2>5. QED BY <2>3, <2>4, FS_Subset
  <1>4. QED BY <1>1, <1>2, <1>3 DEF GivenOut

\* One source for each formula of F.
SourcesFor(made, F, ids, r) ==
  /\ DOMAIN made \subseteq ArtifactsOf(ids, r) /\ IsFiniteSet(DOMAIN made)
  /\ \A a, b \in DOMAIN made : Replaces(a, b) => a = b
  /\ \A a \in DOMAIN made : IsSource(a) /\ a.revision = r /\ \E b \in F : a.node = b.id
  /\ \A b \in F : \E a \in DOMAIN made : a.node = b.id /\ made[a] = b.content

LEMMA SourcesAre ==
  ASSUME NEW F, IsFiniteSet(F), \A b, c \in F : b.id = c.id => b = c,
         NEW r \in Nat, NEW ids, \A b \in F : b.id \in ids
  PROVE  SourcesFor(SourcesOf(F, r), F, ids, r)
  <1> DEFINE made == SourcesOf(F, r)
             D == {Sourced(b.id, r) : b \in F}
             chosen(a) == CHOOSE b \in F : b.id = a.node
  <1>1. made = [a \in D |-> chosen(a).content]
    BY DEF SourcesOf
  <1>2. DOMAIN made = D
    BY <1>1
  <1> HIDE DEF made
  <1>3. IsFiniteSet(D)
    <2> DEFINE h == [b \in F |-> Sourced(b.id, r)]
    <2>1. h \in Surjection(F, D)
      BY DEF Surjection
    <2> HIDE DEF h, D
    <2>2. QED BY <2>1, FS_Surjection
  <1>4. \A b \in F : /\ Sourced(b.id, r) \in ArtifactsOf(ids, r) /\ Sourced(b.id, r).node = b.id
                     /\ IsSource(Sourced(b.id, r)) /\ Sourced(b.id, r).revision = r
    BY DEF Sourced, ArtifactsOf, IsSource
  <1>5. \A a, b \in D : Replaces(a, b) => a = b
    BY DEF Replaces, Sourced
  <1>6. \A b \in F : \E a \in D : a.node = b.id /\ made[a] = b.content
    <2>1. ASSUME NEW b \in F PROVE \E a \in D : a.node = b.id /\ made[a] = b.content
      <3> DEFINE a == Sourced(b.id, r)
      <3>1. a \in D /\ a.node = b.id
        BY <1>4
      <3> HIDE DEF a, D
      <3>2. chosen(a) = b
        BY <3>1
      <3> HIDE DEF chosen
      <3>3. made[a] = b.content
        BY <1>1, <3>1, <3>2
      <3>4. QED BY <3>1, <3>3
    <2>2. QED BY <2>1
  <1> HIDE DEF chosen
  <1>7. \A a \in D : IsSource(a) /\ a.revision = r /\ \E b \in F : a.node = b.id
    BY <1>4
  <1>8. D \subseteq ArtifactsOf(ids, r)
    BY <1>4
  <1> HIDE DEF D
  <1>9. QED BY <1>2, <1>3, <1>5, <1>6, <1>7, <1>8 DEF made, SourcesFor

(***************************************************************************)
(* More revisions and more identities.                                     *)
(***************************************************************************)
LEMMA TypedGrows ==
  ASSUME NEW l, NEW ids, NEW r \in Nat, Typed(l, ids, r), NEW more, ids \subseteq more,
         NEW q \in Nat, r <= q
  PROVE  Typed(l, more, q)
  <1>1. 0..r \subseteq 0..q
    OBVIOUS
  <1>2. ArtifactsOf(ids, r) \subseteq ArtifactsOf(more, q)
    BY <1>1 DEF ArtifactsOf
  <1>3. QED BY <1>2 DEF Typed

-----------------------------------------------------------------------------
(* What the session keeps of its lineage *)

LineageOK ==
  /\ revision \in 0..MaxRevision /\ retained \in Retentions \cup {MaxRevision}
  /\ Typed(lineage, Identities, revision)
  /\ StaleBefore(lineage, revision)
  /\ Fresh(lineage, blocks)
  /\ Covered(lineage, blocks)

LEMMA InitLineage ==
  ASSUME DocOK, NEW s, NEW ids, Opened(s, ids)
  PROVE  LineageOK
  <1> DEFINE F == Formulas(blocks)
             made == SourcesOf(F, 0)
  <1>1. /\ IsFiniteSet(F) /\ \A b \in F : b.id \in Identities
        /\ \A b, c \in F : b.id = c.id => b = c
    BY FormulasApart DEF DocOK, Identities
  <1>2. lineage = WithArtifacts(NoLineage, made) /\ revision = 0 /\ retained = MaxRevision
    BY DEF Opened, SourcesOf
  <1>3. IsLineage(NoLineage) /\ DOMAIN NoLineage.graph = {} /\ NoLineage.edges = {}
        /\ NoLineage.latest = {} /\ NoLineage.stale = {}
    BY DEF IsLineage, Lin, NoLineage
  <1>4. Typed(NoLineage, Identities, 0)
    BY <1>3, FS_EmptySet DEF Typed
  <1>5. Fresh(NoLineage, blocks)
    BY <1>3 DEF Fresh
  <1> HIDE DEF F
  <1>6. /\ DOMAIN made \subseteq ArtifactsOf(Identities, 0) /\ IsFiniteSet(DOMAIN made)
        /\ \A a, b \in DOMAIN made : Replaces(a, b) => a = b
        /\ \A a \in DOMAIN made : IsSource(a)
        /\ \A b \in F : \E a \in DOMAIN made : a.node = b.id /\ made[a] = b.content
    <2>1. SourcesFor(made, F, Identities, 0)
      BY <1>1, SourcesAre
    <2> HIDE DEF made
    <2>2. QED BY <2>1 DEF SourcesFor
  <1> HIDE DEF made
  <1>7. Typed(lineage, Identities, 0) /\ lineage.stale = {}
    <2>1. Typed(WithArtifacts(NoLineage, made), Identities, 0)
          /\ WithArtifacts(NoLineage, made).stale = NoLineage.stale
      BY <1>4, <1>6, WithTyped
    <2>2. QED BY <1>2, <1>3, <2>1
  <1>8. Fresh(lineage, blocks) /\ Covered(lineage, blocks)
    <2>1. \A b \in Formulas(blocks) :
             \/ \E m \in DOMAIN made : m.node = b.id /\ made[m][1].body = b.content[1].body
             \/ SourceOf(NoLineage, b) /\ \A m \in DOMAIN made : m.node # b.id
      BY <1>6 DEF F
    <2>2. \A a \in DOMAIN NoLineage.graph :
             Unmarked(NoLineage, a) => \A m \in DOMAIN made : m.node # a.node
      BY <1>3
    <2>3. Fresh(WithArtifacts(NoLineage, made), blocks)
          /\ Covered(WithArtifacts(NoLineage, made), blocks)
      BY <1>4, <1>5, <1>6, <2>1, <2>2, SourcesSound
    <2>4. QED BY <1>2, <2>3
  <1>9. revision \in 0..MaxRevision /\ retained \in Retentions \cup {MaxRevision}
    BY <1>2, BoundsCount
  <1>10. StaleBefore(lineage, revision)
    BY <1>7 DEF StaleBefore
  <1>11. QED BY <1>2, <1>7, <1>8, <1>9, <1>10 DEF LineageOK

LEMMA KeptCurrent ==
  ASSUME NEW bs, NEW cs, NEW ids, Kept(bs, cs, ids), NEW i, i \notin ids, NEW content,
         CurrentIn(bs, i, content)
  PROVE  CurrentIn(cs, i, content)
  <1>1. PICK b \in Formulas(bs) : b.id = i /\ b.content[1].body = content[1].body
    BY DEF CurrentIn
  <1>2. PICK c \in Formulas(cs) : c.id = b.id /\ c.content[1].body = b.content[1].body
    BY <1>1 DEF Kept
  <1>3. QED BY <1>1, <1>2 DEF CurrentIn

\* A binding keeps all formulas but the one that is bound.
LEMMA BindKeeps ==
  ASSUME DocOK, NEW k \in DOMAIN blocks, NEW external \in Externals, Bind(k, external)
  PROVE  /\ Kept(blocks, blocks', {blocks[k].id}) /\ Kept(blocks', blocks, {external})
         /\ \A b \in Formulas(blocks) : b.id # external
         /\ \A b \in Formulas(blocks') : b.id # blocks[k].id
         /\ \A b \in Formulas(blocks') :
              b.id = external => IsFormula(blocks[k]) /\ b.content = blocks[k].content
  <1>1. k \in 1..Len(blocks) /\ blocks \in Seq(DocBlocks) /\ GivenOut(blocks, bound)
        /\ DOMAIN blocks = 1..Len(blocks)
    BY DocFacts
  <1>2. blocks' = [blocks EXCEPT ![k].id = external] /\ external \notin Ids(blocks)
    BY DEF Bind
  <1>3. external \in AnyIds
    BY DEF AnyIds
  <1>4. blocks' \in Seq(DocBlocks) /\ Len(blocks') = Len(blocks)
    BY <1>1, <1>2, <1>3, Rebound
  <1>5. \A j \in 1..Len(blocks) :
          /\ blocks'[j].id = (IF j = k THEN external ELSE blocks[j].id)
          /\ blocks'[j].content = blocks[j].content
          /\ IsFormula(blocks'[j]) <=> IsFormula(blocks[j])
    <2>1. \A j \in 1..Len(blocks) :
          /\ blocks'[j].id = (IF j = k THEN external ELSE blocks[j].id)
          /\ blocks'[j].content = blocks[j].content /\ blocks'[j].kind = blocks[j].kind
      BY <1>1, <1>2, <1>3, Rebound
    <2>2. QED BY <2>1 DEF IsFormula
  <1>6. \A j \in 1..Len(blocks) : blocks[j].id # external
    BY <1>1, <1>2 DEF Ids
  <1>7. \A j \in 1..Len(blocks) : blocks[j].id = blocks[k].id => j = k
    BY <1>1 DEF GivenOut
  <1>8. Kept(blocks, blocks', {blocks[k].id})
    <2>1. ASSUME NEW b \in Formulas(blocks), b.id # blocks[k].id
          PROVE  \E c \in Formulas(blocks') :
                    c.id = b.id /\ c.content[1].body = b.content[1].body
      <3>1. PICK j \in 1..Len(blocks) : b = blocks[j] /\ IsFormula(blocks[j])
        BY <1>1, FormulasAre
      <3>2. blocks'[j].id = b.id /\ blocks'[j].content = b.content /\ IsFormula(blocks'[j])
        BY <1>5, <2>1, <3>1
      <3>3. blocks'[j] \in Formulas(blocks')
        BY <1>4, <3>2, FormulasAre
      <3>4. QED BY <3>2, <3>3
    <2>2. QED BY <2>1 DEF Kept
  <1>9. ASSUME NEW b \in Formulas(blocks')
        PROVE  /\ b.id = external => IsFormula(blocks[k]) /\ b.content = blocks[k].content
               /\ b.id # external => \E c \in Formulas(blocks) :
                                        c.id = b.id /\ c.content[1].body = b.content[1].body
               /\ b.id # blocks[k].id
    <2>1. PICK j \in 1..Len(blocks) : b = blocks'[j] /\ IsFormula(blocks'[j])
      BY <1>4, FormulasAre
    <2>2. CASE j = k
      <3>1. b.id = external /\ b.content = blocks[k].content /\ IsFormula(blocks[k])
        BY <1>5, <2>1, <2>2
      <3>2. QED BY <1>1, <1>6, <3>1
    <2>3. CASE j # k
      <3>1. b.id = blocks[j].id /\ b.content = blocks[j].content /\ IsFormula(blocks[j])
        BY <1>5, <2>1, <2>3
      <3>2. blocks[j] \in Formulas(blocks)
        BY <1>1, <3>1, FormulasAre
      <3>3. b.id # external /\ b.id # blocks[k].id
        BY <1>6, <1>7, <2>3, <3>1
      <3>4. QED BY <3>1, <3>2, <3>3
    <2>4. QED BY <2>2, <2>3
  <1>10. Kept(blocks', blocks, {external})
    BY <1>9 DEF Kept
  <1>11. \A b \in Formulas(blocks) : b.id # external
    BY <1>1, <1>6, FormulasAre
  <1>12. QED BY <1>8, <1>9, <1>10, <1>11

LEMMA BindLineage ==
  ASSUME DocOK, LineageOK, NEW k \in DOMAIN blocks, NEW external \in Externals, Bind(k, external)
  PROVE  LineageOK'
  <1> DEFINE id == blocks[k].id
             previous == {a \in lineage.latest : a.node = id}
             m == Sourced(external, 0)
             content == IF IsFormula(blocks[k]) THEN blocks[k].content ELSE <<>>
             l == [lineage EXCEPT !.latest = @ \ previous]
             made == [a \in {m} |-> content]
             w == WithArtifacts(l, made)
             c == Compacted(w, 0, retained)
             E == previous \X {m}
  <1>1. /\ revision = 0 /\ revision' = 0 /\ bound' = bound /\ retained' = retained
        /\ \A a \in previous : IsSource(a)
        /\ lineage' = [c EXCEPT !.edges = @ \cup E]
    BY DEF Bind
  <1>2. /\ Typed(lineage, Identities, 0) /\ StaleBefore(lineage, 0)
        /\ Fresh(lineage, blocks) /\ Covered(lineage, blocks)
        /\ retained \in Retentions \cup {MaxRevision} /\ 0 \in 0..MaxRevision
    BY <1>1 DEF LineageOK
  <1>3. /\ IsLineage(lineage) /\ lineage.latest \subseteq DOMAIN lineage.graph
        /\ IsFiniteSet(lineage.latest)
        /\ DOMAIN lineage.graph \subseteq ArtifactsOf(Identities, 0)
    BY <1>2 DEF Typed
  <1>4. l = Lin(lineage.graph, lineage.edges, lineage.latest \ previous, lineage.stale)
    <2> HIDE DEF previous
    <2>1. QED BY <1>3 DEF IsLineage, Lin
  <1> HIDE DEF l
  <1>5. /\ IsLineage(l) /\ l.graph = lineage.graph /\ l.edges = lineage.edges
        /\ l.latest = lineage.latest \ previous /\ l.stale = lineage.stale
    BY <1>4, LineageParts
  <1>6. Typed(l, Identities, 0)
    <2>1. l.latest \subseteq lineage.latest
      BY <1>5
    <2>2. IsFiniteSet(l.latest)
      BY <1>3, <2>1, FS_Subset
    <2> HIDE DEF previous
    <2>3. QED BY <1>2, <1>5, <2>1, <2>2 DEF Typed
  <1>7. /\ Kept(blocks, blocks', {id}) /\ Kept(blocks', blocks, {external})
        /\ \A b \in Formulas(blocks) : b.id # external
        /\ \A b \in Formulas(blocks') : b.id # id
        /\ \A b \in Formulas(blocks') :
             b.id = external => IsFormula(blocks[k]) /\ b.content = blocks[k].content
    BY BindKeeps
  <1>8. ASSUME NEW a \in DOMAIN l.graph, Unmarked(l, a)
        PROVE  /\ a.node # external
               /\ CurrentIn(blocks', a.node, l.graph[a]) /\ HasOrigin(l, a)
               /\ \E p \in l.latest : Replaces(p, a)
    <2>1. Unmarked(lineage, a) /\ a \in DOMAIN lineage.graph
      BY <1>5, <1>8 DEF Unmarked
    <2>2. /\ CurrentIn(blocks, a.node, lineage.graph[a]) /\ HasOrigin(lineage, a)
          /\ \E p \in lineage.latest : Replaces(p, a)
      BY <1>2, <2>1 DEF Fresh
    <2>3. PICK p \in lineage.latest : Replaces(p, a)
      BY <2>2
    <2>4. p.node = a.node /\ ~IsSource(p)
      BY <2>1, <2>3, ReplacesIs DEF Unmarked
    <2>5. a.node # id
      BY <1>1, <2>4
    <2>6. a.node # external
      BY <1>7, <2>2 DEF CurrentIn
    <2>7. CurrentIn(blocks', a.node, lineage.graph[a])
      BY <1>7, <2>2, <2>5, KeptCurrent
    <2>8. PICK s \in lineage.latest : s.node = a.node /\ IsSource(s) /\ <<s, a>> \in lineage.edges
      BY <2>2 DEF HasOrigin
    <2>9. s \in l.latest /\ p \in l.latest
      BY <1>5, <2>4, <2>5, <2>8
    <2>10. HasOrigin(l, a)
      BY <1>5, <2>8, <2>9 DEF HasOrigin
    <2>11. QED BY <1>5, <2>3, <2>6, <2>7, <2>9, <2>10
  <1>9. Fresh(l, blocks')
    BY <1>8 DEF Fresh
  <1>10. DOMAIN made = {m} /\ made[m] = content
    OBVIOUS
  <1>11. /\ m.node = external /\ IsSource(m) /\ m.revision = 0
         /\ m \in ArtifactsOf(Identities, 0)
    BY DEF Sourced, IsSource, ArtifactsOf, Identities
  <1>12. ASSUME NEW b \in Formulas(blocks')
         PROVE  \/ m.node = b.id /\ made[m][1].body = b.content[1].body
                \/ SourceOf(l, b) /\ m.node # b.id
    <2>1. CASE b.id = external
      BY <1>7, <1>10, <1>11, <2>1
    <2>2. CASE b.id # external
      <3>1. PICK d \in Formulas(blocks) : d.id = b.id /\ d.content[1].body = b.content[1].body
        BY <1>7, <2>2 DEF Kept
      <3>2. SourceOf(lineage, d)
        BY <1>2 DEF Covered
      <3>3. PICK s \in lineage.latest : s.node = d.id /\ IsSource(s)
                                        /\ lineage.graph[s][1].body = d.content[1].body
        BY <3>2 DEF SourceOf
      <3>4. s \in l.latest
        BY <1>5, <1>7, <3>1, <3>3
      <3>5. SourceOf(l, b)
        BY <1>5, <3>1, <3>3, <3>4 DEF SourceOf
      <3>6. QED BY <1>11, <2>2, <3>5
    <2>3. QED BY <2>1, <2>2
  <1> HIDE DEF m, made
  <1>13. IsFiniteSet(DOMAIN made)
    BY <1>10, FS_Singleton
  <1>14. /\ Typed(w, Identities, 0) /\ w.stale = l.stale
         /\ DOMAIN w.graph = DOMAIN made \cup DOMAIN l.graph
    BY <1>6, <1>10, <1>11, <1>13, WithTyped
  <1>15. Fresh(w, blocks') /\ Covered(w, blocks')
    <2>1. \A b \in Formulas(blocks') :
            \/ \E a \in DOMAIN made : a.node = b.id /\ made[a][1].body = b.content[1].body
            \/ SourceOf(l, b) /\ \A a \in DOMAIN made : a.node # b.id
      BY <1>10, <1>12
    <2>2. \A a \in DOMAIN l.graph : Unmarked(l, a) => \A n \in DOMAIN made : n.node # a.node
      BY <1>8, <1>10, <1>11
    <2>3. /\ DOMAIN made \subseteq ArtifactsOf(Identities, 0)
          /\ \A a, b \in DOMAIN made : Replaces(a, b) => a = b
          /\ \A a \in DOMAIN made : IsSource(a)
      BY <1>10, <1>11
    <2>4. QED BY <1>6, <1>9, <1>13, <2>1, <2>2, <2>3, SourcesSound
  <1>16. StaleBefore(w, 0)
    BY <1>2, <1>5, <1>14 DEF StaleBefore
  <1> HIDE DEF w
  <1>17. Typed(c, Identities, 0) /\ StaleBefore(c, 0) /\ Fresh(c, blocks') /\ Covered(c, blocks')
    BY <1>14, <1>15, <1>16, CompactedSound
  <1>18. DOMAIN c.graph = DOMAIN w.graph
    <2>1. retained \in Nat
      BY <1>2, BoundsCount
    <2>2. Minus(0, retained) = 0
      BY <2>1 DEF Minus
    <2>3. IsLineage(w) /\ DOMAIN w.graph \subseteq ArtifactsOf(Identities, 0)
      BY <1>14 DEF Typed
    <2>4. Stay(w, 0, retained) = DOMAIN w.graph
      <3>1. \A a \in DOMAIN w.graph : a.revision >= 0
        BY <2>3 DEF ArtifactsOf
      <3>2. QED BY <2>2, <3>1 DEF Stay
    <2> DEFINE S == Stay(w, 0, retained)
    <2>5. c = Lin(Restrict(w.graph, S), w.edges \cap (S \X S), w.latest, w.stale \cap S)
      BY <2>3, CompactedIs
    <2> HIDE DEF c, S
    <2>6. c.graph = Restrict(w.graph, S)
      BY <2>5, LineageParts
    <2>7. S = DOMAIN w.graph
      BY <2>4 DEF S
    <2>8. QED BY <2>6, <2>7, RestrictIs
  <1> HIDE DEF c
  <1>19. E \in SUBSET ((DOMAIN c.graph) \X (DOMAIN c.graph)) /\ IsFiniteSet(E)
    <2>1. previous \subseteq DOMAIN c.graph /\ m \in DOMAIN c.graph
      BY <1>3, <1>5, <1>10, <1>14, <1>18
    <2>2. IsFiniteSet(previous) /\ IsFiniteSet({m})
      BY <1>3, FS_Subset, FS_Singleton
    <2> HIDE DEF previous
    <2>3. IsFiniteSet(E)
      BY <2>2, FS_Product
    <2>4. QED BY <2>1, <2>3
  <1> HIDE DEF E
  <1>20. Typed(lineage', Identities, 0) /\ Fresh(lineage', blocks') /\ Covered(lineage', blocks')
         /\ StaleBefore(lineage', 0)
    BY <1>1, <1>17, <1>19, LinkedSound
  <1>21. Identities' = Identities
    BY <1>1 DEF Identities
  <1>22. QED BY <1>1, <1>2, <1>20, <1>21 DEF LineageOK

(***************************************************************************)
(* What an edit marks: the outputs of the nodes it dirties all come from   *)
(* their latest sources, so that none of them stays unmarked.              *)
(***************************************************************************)
LEMMA InvalidatedSound ==
  ASSUME NEW l, NEW given, NEW r \in Nat, Typed(l, given, r), StaleBefore(l, r), NEW bs,
         Fresh(l, bs), Covered(l, bs), NEW cs, NEW ids, Kept(bs, cs, ids), Kept(cs, bs, ids)
  PROVE  LET i == Invalidated(l, ids)
         IN  /\ Typed(i, given, r) /\ StaleBefore(i, r + 1) /\ Fresh(i, cs)
             /\ \A a \in DOMAIN i.graph : Unmarked(i, a) => a.node \notin ids
             /\ \A b \in Formulas(cs) : b.id \notin ids => SourceOf(i, b)
  <1> DEFINE i == Invalidated(l, ids)
             from == Origins(l, ids)
             D == Descendants(l.edges, from)
             t == {a \in l.latest : a.node \in ids => IsSource(a)}
  <1>1. /\ IsLineage(l) /\ l.latest \subseteq DOMAIN l.graph /\ IsFiniteSet(l.latest)
        /\ DOMAIN l.graph \subseteq ArtifactsOf(given, r)
        /\ l.edges \subseteq (DOMAIN l.graph) \X (DOMAIN l.graph) /\ IsFiniteSet(l.edges)
        /\ \A a, b \in l.latest : Replaces(a, b) => a = b
    BY DEF Typed
  <1>2. i = Lin(l.graph, l.edges, t, l.stale \cup D)
    BY <1>1, InvalidatedIs
  <1> HIDE DEF i
  <1>3. /\ IsLineage(i) /\ i.graph = l.graph /\ i.edges = l.edges
        /\ i.latest = t /\ i.stale = l.stale \cup D
    BY <1>2, LineageParts
  <1>4. After(l.edges, from) \subseteq D /\ D \subseteq DOMAIN l.graph
    <2>1. \A e \in l.edges : e[1] \in from \cup DOMAIN l.graph => e[2] \in DOMAIN l.graph
      BY <1>1
    <2> HIDE DEF from
    <2>2. QED BY <1>1, <2>1, DescendantsBetween
  <1> HIDE DEF D
  <1>5. Typed(i, given, r)
    <2>1. t \subseteq l.latest
      OBVIOUS
    <2> HIDE DEF t
    <2>2. IsFiniteSet(t)
      BY <1>1, <2>1, FS_Subset
    <2>3. QED BY <1>1, <1>3, <2>1, <2>2 DEF Typed
  <1>6. StaleBefore(i, r + 1)
    <2>1. ASSUME NEW a \in i.stale PROVE a.revision \in Nat /\ a.revision < r + 1
      <3>1. CASE a \in l.stale
        BY <3>1 DEF StaleBefore
      <3>2. CASE a \in D
        <4>1. a.revision \in 0..r
          BY <1>1, <1>4, <3>2 DEF ArtifactsOf
        <4>2. QED BY <4>1
      <3>3. QED BY <1>3, <3>1, <3>2
    <2>2. QED BY <2>1 DEF StaleBefore
  <1>7. ASSUME NEW a \in DOMAIN i.graph, Unmarked(i, a)
        PROVE  /\ a.node \notin ids
               /\ CurrentIn(cs, a.node, i.graph[a]) /\ HasOrigin(i, a)
               /\ \E p \in i.latest : Replaces(p, a)
    <2>1. Unmarked(l, a) /\ a \in DOMAIN l.graph /\ a \notin D
      BY <1>3, <1>7 DEF Unmarked
    <2>2. /\ CurrentIn(bs, a.node, l.graph[a]) /\ HasOrigin(l, a)
          /\ \E p \in l.latest : Replaces(p, a)
      BY <2>1 DEF Fresh
    <2>3. PICK s \in l.latest : s.node = a.node /\ IsSource(s) /\ <<s, a>> \in l.edges
      BY <2>2 DEF HasOrigin
    <2>4. ASSUME a.node \in ids PROVE FALSE
      <3>1. s \in from
        BY <2>3, <2>4 DEF Origins
      <3>2. a \in After(l.edges, from)
        BY <2>3, <3>1 DEF After
      <3>3. QED BY <1>4, <2>1, <3>2
    <2>5. s \in i.latest
      BY <1>3, <2>3
    <2>6. HasOrigin(i, a)
      BY <1>3, <2>3, <2>5 DEF HasOrigin
    <2>7. PICK p \in l.latest : Replaces(p, a)
      BY <2>2
    <2>8. p.node \notin ids
      BY <2>4, <2>7, ReplacesIs
    <2>9. p \in i.latest
      BY <1>3, <2>8
    <2>10. CurrentIn(cs, a.node, l.graph[a])
      BY <2>2, <2>4, KeptCurrent
    <2>11. QED BY <1>3, <2>4, <2>6, <2>7, <2>9, <2>10
  <1>8. Fresh(i, cs)
    BY <1>7 DEF Fresh
  <1>9. ASSUME NEW b \in Formulas(cs), b.id \notin ids PROVE SourceOf(i, b)
    <2>1. PICK d \in Formulas(bs) : d.id = b.id /\ d.content[1].body = b.content[1].body
      BY <1>9 DEF Kept
    <2>2. SourceOf(l, d)
      BY DEF Covered
    <2>3. PICK s \in l.latest : s.node = d.id /\ IsSource(s)
                                /\ l.graph[s][1].body = d.content[1].body
      BY <2>2 DEF SourceOf
    <2>4. s \in i.latest
      BY <1>3, <2>3
    <2>5. QED BY <1>3, <2>1, <2>3, <2>4 DEF SourceOf
  <1>10. QED BY <1>5, <1>6, <1>7, <1>8, <1>9 DEF i

LEMMA EditLineage ==
  ASSUME DocOK, DocOK', LineageOK, NEW ids, Editing(ids), revision < MaxRevision
  PROVE  LineageOK'
  <1> DEFINE F == {b \in Formulas(blocks') : b.id \in ids}
             q == revision + 1
             given == Identities'
             l == Invalidated(lineage, ids)
             made == SourcesOf(F, q)
  <1>1. /\ revision' = q /\ retained' = retained /\ bound <= bound'
        /\ lineage' = WithSources(l, q, F)
        /\ Kept(blocks, blocks', ids) /\ Kept(blocks', blocks, ids)
    BY DEF Editing, Dirties
  <1>2. /\ Typed(lineage, Identities, revision) /\ StaleBefore(lineage, revision)
        /\ Fresh(lineage, blocks) /\ Covered(lineage, blocks)
        /\ retained \in Retentions \cup {MaxRevision} /\ revision \in 0..MaxRevision
    BY DEF LineageOK
  <1>3. MaxRevision \in Nat /\ revision \in Nat /\ q \in Nat /\ q \in 0..MaxRevision
    BY <1>2, BoundsCount
  <1>4. /\ IsFiniteSet(F) /\ \A b \in F : b.id \in given
        /\ \A b, c \in F : b.id = c.id => b = c
    <2>1. Document(blocks', source', bound')
      BY DEF DocOK
    <2>2. /\ IsFiniteSet(Formulas(blocks'))
          /\ \A b \in Formulas(blocks') : b.id \in (1..bound') \cup Externals
          /\ \A b, c \in Formulas(blocks') : b.id = c.id => b = c
      BY <2>1, FormulasApart
    <2>3. IsFiniteSet(F)
      BY <2>2, FS_Subset
    <2>4. QED BY <2>2, <2>3 DEF Identities
  <1>5. Identities \subseteq given
    <2>1. bound \in Nat /\ bound' \in Nat
      BY DEF DocOK, Document
    <2>2. 1..bound \subseteq 1..bound'
      BY <1>1, <2>1
    <2>3. QED BY <2>2 DEF Identities
  <1>6. /\ Typed(l, Identities, revision) /\ StaleBefore(l, q) /\ Fresh(l, blocks')
        /\ \A a \in DOMAIN l.graph : Unmarked(l, a) => a.node \notin ids
        /\ \A b \in Formulas(blocks') : b.id \notin ids => SourceOf(l, b)
    BY <1>1, <1>2, <1>3, InvalidatedSound
  <1> HIDE DEF l, given
  <1>7. Typed(l, given, q)
    BY <1>3, <1>5, <1>6, TypedGrows
  <1>8. SourcesFor(made, F, given, q)
    <2> HIDE DEF F, q
    <2>1. QED BY <1>3, <1>4, SourcesAre
  <1>9. CASE F = {}
    <2>1. lineage' = l
      BY <1>1, <1>9 DEF WithSources
    <2>2. Covered(l, blocks')
      BY <1>6, <1>9 DEF Covered
    <2>3. QED BY <1>1, <1>2, <1>3, <1>6, <1>7, <2>1, <2>2 DEF LineageOK, given
  <1>10. CASE F # {}
    <2> DEFINE w == WithArtifacts(l, made)
               c == Compacted(w, q, retained)
    <2>1. lineage' = c
      <3> HIDE DEF F, q
      <3>1. QED BY <1>1, <1>10 DEF WithSources, SourcesOf
    <2>2. \A b \in Formulas(blocks') :
            \/ \E m \in DOMAIN made : m.node = b.id /\ made[m][1].body = b.content[1].body
            \/ SourceOf(l, b) /\ \A m \in DOMAIN made : m.node # b.id
      <3> HIDE DEF made
      <3>1. \A m \in DOMAIN made : m.node \in ids
        BY <1>8 DEF SourcesFor
      <3>2. \A b \in F : \E m \in DOMAIN made : m.node = b.id /\ made[m] = b.content
        BY <1>8 DEF SourcesFor
      <3>3. QED BY <1>6, <3>1, <3>2
    <2>3. \A a \in DOMAIN l.graph : Unmarked(l, a) => \A m \in DOMAIN made : m.node # a.node
      <3> HIDE DEF made
      <3>1. \A m \in DOMAIN made : m.node \in ids
        BY <1>8 DEF SourcesFor
      <3>2. QED BY <1>6, <3>1
    <2>4. /\ DOMAIN made \subseteq ArtifactsOf(given, q) /\ IsFiniteSet(DOMAIN made)
          /\ \A a, b \in DOMAIN made : Replaces(a, b) => a = b
          /\ \A a \in DOMAIN made : IsSource(a)
      <3> HIDE DEF made
      <3>1. QED BY <1>8 DEF SourcesFor
    <2> HIDE DEF made, F, q
    <2>5. Typed(w, given, q) /\ w.stale = l.stale
      BY <1>7, <2>4, WithTyped
    <2>6. Fresh(w, blocks') /\ Covered(w, blocks')
      BY <1>6, <1>7, <2>2, <2>3, <2>4, SourcesSound
    <2>7. StaleBefore(w, q)
      BY <1>6, <2>5 DEF StaleBefore
    <2> HIDE DEF w
    <2>8. Typed(c, given, q) /\ StaleBefore(c, q) /\ Fresh(c, blocks') /\ Covered(c, blocks')
      BY <2>5, <2>6, <2>7, CompactedSound
    <2> HIDE DEF c
    <2>9. QED BY <1>1, <1>2, <1>3, <2>1, <2>8 DEF LineageOK, given
  <1>11. QED BY <1>9, <1>10

LEMMA DeriveLineage ==
  ASSUME DocOK, LineageOK, NEW k \in DOMAIN blocks, NEW format \in Formats, Derive(k, format)
  PROVE  LineageOK'
  <1> DEFINE b == blocks[k]
             m == Derived(b.id, format, revision)
             made == [a \in {m} |-> b.content]
             w == WithArtifacts(lineage, made)
             c == Compacted(w, revision, retained)
  <1>1. /\ IsFormula(b) /\ lineage' = c
        /\ UNCHANGED <<blocks, bound, revision, retained>>
    BY DEF Derive
  <1>2. /\ Typed(lineage, Identities, revision) /\ StaleBefore(lineage, revision)
        /\ Fresh(lineage, blocks) /\ Covered(lineage, blocks)
        /\ retained \in Retentions \cup {MaxRevision} /\ revision \in 0..MaxRevision
    BY DEF LineageOK
  <1>3. b \in Formulas(blocks)
    BY <1>1 DEF Formulas, Range
  <1>4. b.id \in Identities
    BY <1>3, FormulasApart DEF DocOK, Identities
  <1>5. /\ m \in ArtifactsOf(Identities, revision) /\ m.node = b.id /\ ~IsSource(m)
    BY <1>2, <1>4, BoundsCount, SourceIsNoFormat DEF Derived, ArtifactsOf, IsSource
  <1>6. DOMAIN made = {m} /\ Single(made, m, b.content)
    BY DEF Single
  <1> HIDE DEF m, made
  <1>7. Fresh(w, blocks) /\ Covered(w, blocks)
    <2> HIDE DEF b
    <2>1. QED BY <1>2, <1>3, <1>5, <1>6, DerivedSound
  <1>8. Typed(w, Identities, revision) /\ w.stale = lineage.stale
    <2>1. IsFiniteSet(DOMAIN made)
      BY <1>6, FS_Singleton
    <2>2. DOMAIN made \subseteq ArtifactsOf(Identities, revision)
          /\ \A a, d \in DOMAIN made : Replaces(a, d) => a = d
      BY <1>5, <1>6
    <2>3. QED BY <1>2, <2>1, <2>2, WithTyped
  <1>9. StaleBefore(w, revision)
    BY <1>2, <1>8 DEF StaleBefore
  <1> HIDE DEF w
  <1>10. Typed(c, Identities, revision) /\ StaleBefore(c, revision)
         /\ Fresh(c, blocks) /\ Covered(c, blocks)
    BY <1>7, <1>8, <1>9, CompactedSound
  <1> HIDE DEF c
  <1>11. Identities' = Identities
    BY <1>1 DEF Identities
  <1>12. QED BY <1>1, <1>2, <1>10, <1>11 DEF LineageOK

LEMMA PolicyLineage ==
  ASSUME LineageOK, NEW revisions \in Retentions, SetPolicy(revisions)
  PROVE  LineageOK'
  <1> DEFINE c == Compacted(lineage, revision, revisions)
  <1>1. retained' = revisions /\ lineage' = c /\ UNCHANGED <<blocks, bound, revision>>
    BY DEF SetPolicy
  <1>2. /\ Typed(lineage, Identities, revision) /\ StaleBefore(lineage, revision)
        /\ Fresh(lineage, blocks) /\ Covered(lineage, blocks) /\ revision \in 0..MaxRevision
    BY DEF LineageOK
  <1>3. Typed(c, Identities, revision) /\ StaleBefore(c, revision)
        /\ Fresh(c, blocks) /\ Covered(c, blocks)
    BY <1>2, CompactedSound
  <1> HIDE DEF c
  <1>4. Identities' = Identities
    BY <1>1 DEF Identities
  <1>5. QED BY <1>1, <1>2, <1>3, <1>4 DEF LineageOK

LEMMA EditsBelow ==
  ASSUME Structural \/ Local
  PROVE  revision < MaxRevision
  BY DEF Structural, Local, ReplaceSourceRange, InsertBlock, DeleteBlock, MoveBlock, ReconcileFull,
         EditFormula, EditParagraph, EditsInPlace

LEMMA LineageInvariance ==
  ASSUME DocOK, LineageOK, [Next]_vars
  PROVE  LineageOK'
  <1>1. CASE \E k \in DOMAIN blocks, external \in Externals : Bind(k, external)
    BY <1>1, BindLineage
  <1>2. CASE Structural \/ Local
    <2>1. Edits /\ revision < MaxRevision
      BY <1>2, StructuralEdits, LocalEdits, EditsBelow
    <2>2. DocOK' /\ \E ids \in SUBSET AnyIds : Editing(ids)
      BY <2>1 DEF Edits
    <2>3. QED BY <2>1, <2>2, EditLineage
  <1>3. CASE Outputs
    <2>1. PICK k \in DOMAIN blocks, format \in Formats : Recall(k, format) \/ Derive(k, format)
      BY <1>3 DEF Outputs
    <2>2. CASE Recall(k, format)
      BY <2>2 DEF Recall, LineageOK, Identities
    <2>3. CASE Derive(k, format)
      BY <2>3, DeriveLineage
    <2>4. QED BY <2>1, <2>2, <2>3
  <1>4. CASE \E revisions \in Retentions : SetPolicy(revisions)
    BY <1>4, PolicyLineage
  <1>5. CASE UNCHANGED vars
    BY <1>5 DEF vars, LineageOK, Identities
  <1>6. QED BY <1>1, <1>2, <1>3, <1>4, <1>5 DEF Next

-----------------------------------------------------------------------------
(* The caches *)

\* Entries of formulas of a document, made of the content they have there.
Serving(bs) ==
  {e \in [node : AnyIds, latex : [body : Bodies, spacing : Spacings],
          format : Formats, output : FormulaPieces] : CurrentIn(bs, e.node, <<e.output>>)}

CachesOK ==
  /\ caches \in [Classes -> Seq(Serving(blocks))]
  /\ \A c \in Classes : Len(caches[c]) <= CacheSize
  /\ \A x \in mapped : CurrentIn(blocks, x.node, <<x.output>>)

WithoutRuns(s, ids) ==
  \E f : f = [n \in 0..Len(s) |->
               IF n = 0 THEN <<>>
               ELSE IF s[n].node \in ids THEN f[n - 1] ELSE Append(f[n - 1], s[n])]

LEMMA WithoutIsRun ==
  ASSUME NEW S, NEW s \in Seq(S), NEW ids
  PROVE  WithoutRuns(s, ids)
  <1> DEFINE N == Len(s)
             V == Seq(S)
             move(t, n) == IF s[n].node \in ids THEN t ELSE Append(t, s[n])
             moved(p) == move(p[1], p[2])
             W == V \X (1..N)
             step == [p \in W |-> moved(p)]
  <1>1. N \in Nat
    BY LenProperties
  <1>2. <<>> \in V
    BY EmptySeq
  <1>3. \A t \in V, n \in 1..N : move(t, n) \in V
    <2>1. \A n \in 1..N : s[n] \in S
      BY ElementOfSeq
    <2>2. QED BY <2>1
  <1> HIDE DEF V, move, N
  <1>4. \A t \in V, n \in 1..N : <<t, n>> \in W /\ moved(<<t, n>>) = move(t, n)
    OBVIOUS
  <1>5. \A p \in W : moved(p) \in V
    BY <1>3
  <1> HIDE DEF moved
  <1>6. step \in [V \X (1..N) -> V] /\ \A p \in W : step[p] = moved(p)
    <2> HIDE DEF W
    <2>1. step \in [W -> V] /\ \A p \in W : step[p] = moved(p)
      BY <1>5
    <2>2. QED BY <2>1 DEF W
  <1> HIDE DEF step, W
  <1>7. PICK f \in [0..N -> V] : f[0] = <<>> /\ \A n \in 1..N : f[n] = step[<<f[n - 1], n>>]
    <2>1. \E f \in [0..N -> V] : IsRun(f, N, <<>>, step)
      BY <1>1, <1>2, <1>6, Recursion
    <2>2. QED BY <2>1 DEF IsRun
  <1>8. \A n \in 1..N : f[n] = move(f[n - 1], n)
    <2>1. \A n \in 1..N : n - 1 \in 0..N
      BY <1>1
    <2>2. QED BY <1>4, <1>6, <1>7, <2>1
  <1>9. f = [n \in 0..N |-> IF n = 0 THEN <<>> ELSE move(f[n - 1], n)]
    <2>1. \A n \in 0..N : n = 0 \/ n \in 1..N
      BY <1>1
    <2>2. QED BY <1>7, <1>8, <2>1
  <1>10. QED BY <1>9 DEF move, N, WithoutRuns

(***************************************************************************)
(* What is left of a cache without some nodes.                             *)
(***************************************************************************)
LEMMA WithoutIs ==
  ASSUME NEW S, NEW s \in Seq(S), NEW ids, NEW T, \A e \in S : e.node \notin ids => e \in T
  PROVE  Without(s, ids) \in Seq(T) /\ Len(Without(s, ids)) <= Len(s)
  <1> DEFINE N == Len(s)
             move(t, n) == IF s[n].node \in ids THEN t ELSE Append(t, s[n])
             kept[n \in 0..N] == IF n = 0 THEN <<>> ELSE move(kept[n - 1], n)
  <1>1. N \in Nat /\ \A n \in 1..N : s[n] \in S
    BY LenProperties, ElementOfSeq
  <1>2. Without(s, ids) = kept[N]
    BY DEF Without
  <1>3. kept = [n \in 0..N |-> IF n = 0 THEN <<>> ELSE move(kept[n - 1], n)]
    <2>1. WithoutRuns(s, ids)
      BY WithoutIsRun
    <2>2. \E f : f = [n \in 0..N |-> IF n = 0 THEN <<>> ELSE move(f[n - 1], n)]
      BY <2>1 DEF WithoutRuns
    <2> HIDE DEF N, move
    <2>3. QED BY <2>2
  <1> HIDE DEF kept
  <1> DEFINE P == {n \in 0..N : kept[n] \in Seq(T) /\ Len(kept[n]) <= n}
  <1>4. 0 \in P
    <2>1. 0 \in 0..N
      BY <1>1
    <2>2. kept[0] = <<>>
      BY <1>3, <2>1
    <2> DEFINE t == kept[0]
    <2>3. t \in Seq(T) /\ Len(t) = 0
      BY <2>2, EmptySeq
    <2> HIDE DEF t
    <2>4. Len(t) <= 0
      BY <2>3
    <2>5. QED BY <2>1, <2>3, <2>4 DEF t
  <1>5. ASSUME NEW n \in 1..N, n - 1 \in P PROVE n \in P
    <2>1. n \in 0..N /\ n # 0 /\ n \in Nat
      BY <1>1
    <2>2. kept[n] = move(kept[n - 1], n)
      BY <1>3, <2>1
    <2> DEFINE t == kept[n - 1]
    <2>3. t \in Seq(T) /\ Len(t) <= n - 1 /\ Len(t) \in Nat
      BY <1>5, LenProperties
    <2> HIDE DEF t
    <2>4. CASE s[n].node \in ids
      <3>1. kept[n] = t
        BY <2>2, <2>4 DEF t
      <3>2. QED BY <2>1, <2>3, <3>1
    <2>5. CASE s[n].node \notin ids
      <3>1. kept[n] = Append(t, s[n])
        BY <2>2, <2>5 DEF t
      <3>2. s[n] \in T
        BY <1>1, <2>5
      <3>3. Append(t, s[n]) \in Seq(T) /\ Len(Append(t, s[n])) = Len(t) + 1
        BY <2>3, <3>2
      <3>4. Len(Append(t, s[n])) <= n
        BY <2>1, <2>3, <3>3
      <3>5. QED BY <2>1, <3>1, <3>3, <3>4
    <2>6. QED BY <2>4, <2>5
  <1> HIDE DEF P
  <1>6. \A n \in 0..N : n \in P
    BY <1>1, <1>4, <1>5, Induction
  <1>7. N \in P
    BY <1>1, <1>6
  <1>8. QED BY <1>2, <1>7 DEF P

(***************************************************************************)
(* What is used moves to the end, what is new is put there.                *)
(***************************************************************************)
LEMMA Recalled ==
  ASSUME NEW S, NEW s \in Seq(S), NEW i \in 1..Len(s)
  PROVE  Append(RemoveAt(s, i), s[i]) \in Seq(S) /\ Len(Append(RemoveAt(s, i), s[i])) = Len(s)
  <1> DEFINE u == SubSeq(s, 1, i - 1)
             w == SubSeq(s, i + 1, Len(s))
             v == u \o w
  <1>1. Len(s) \in Nat /\ i \in Nat /\ s[i] \in S
    BY LenProperties, ElementOfSeq
  <1>2. u \in Seq(S) /\ Len(u) = i - 1
    <2>1. 1 \in 1..(Len(s) + 1) /\ i - 1 \in (1 - 1)..Len(s)
      BY <1>1
    <2>2. u \in Seq(S) /\ Len(u) = (i - 1) - 1 + 1
      BY <2>1, Part
    <2> HIDE DEF u
    <2>3. QED BY <1>1, <2>2
  <1>3. w \in Seq(S) /\ Len(w) = Len(s) - i
    <2>1. i + 1 \in 1..(Len(s) + 1) /\ Len(s) \in ((i + 1) - 1)..Len(s)
      BY <1>1
    <2>2. w \in Seq(S) /\ Len(w) = Len(s) - (i + 1) + 1
      BY <2>1, Part
    <2> HIDE DEF w
    <2>3. QED BY <1>1, <2>2
  <1>4. RemoveAt(s, i) = v
    BY DEF RemoveAt
  <1> HIDE DEF u, w
  <1>5. v \in Seq(S) /\ Len(v) = Len(u) + Len(w)
    BY <1>2, <1>3, ConcatProperties
  <1> HIDE DEF v
  <1>6. Append(v, s[i]) \in Seq(S) /\ Len(Append(v, s[i])) = Len(v) + 1
    BY <1>1, <1>5
  <1>7. QED BY <1>1, <1>2, <1>3, <1>4, <1>5, <1>6

LEMMA InsertedIs ==
  ASSUME NEW S, NEW s \in Seq(S), Len(s) <= CacheSize, NEW e \in S, NEW t \in Inserted(s, e)
  PROVE  t \in Seq(S) /\ Len(t) <= CacheSize
  <1> DEFINE a == Append(s, e)
  <1>1. CASE t = s
    BY <1>1
  <1>2. CASE t # s
    <2>1. t \in Suffixes(a) /\ Len(t) \in 1..CacheSize
      BY <1>2 DEF Inserted
    <2>2. a \in Seq(S) /\ Len(a) \in Nat
      BY LenProperties
    <2> HIDE DEF a
    <2>3. CASE t = <<>>
      BY <2>1, <2>3, EmptySeq, BoundsCount
    <2>4. CASE t # <<>>
      <3>1. PICK i \in 1..Len(a) : t = SubSeq(a, i, Len(a))
        BY <2>1, <2>4 DEF Suffixes
      <3>2. i \in 1..(Len(a) + 1) /\ Len(a) \in (i - 1)..Len(a)
        BY <2>2
      <3>3. SubSeq(a, i, Len(a)) \in Seq(S)
        BY <2>2, <3>2, Part
      <3>4. QED BY <2>1, <3>1, <3>3, BoundsCount
    <2>5. QED BY <2>3, <2>4
  <1>3. QED BY <1>1, <1>2

LEMMA EntryServes ==
  ASSUME DocOK, NEW b \in Formulas(blocks), NEW format \in Formats
  PROVE  /\ Entry(b, format) \in Serving(blocks)
         /\ CurrentIn(blocks, b.id, <<b.content[1]>>)
  <1>1. b \in DocBlocks /\ Sensible(b) /\ IsFormula(b)
    BY DocFacts, FormulasAre
  <1> DEFINE x == b.content[1]
  <1>2. x \in FormulaPieces
    <2>1. Len(b.content) = 1 /\ b.content \in Seq(Pieces) /\ IsFormula(x)
      BY <1>1 DEF Sensible, DocBlocks
    <2>2. x \in Pieces
      BY <2>1, ElementOfSeq
    <2>3. QED BY <2>1, <2>2 DEF Pieces, TextPieces, IsFormula
  <1> HIDE DEF x
  <1>3. CurrentIn(blocks, b.id, <<x>>)
    BY DEF CurrentIn, x
  <1>4. Entry(b, format) = [node |-> b.id, latex |-> [body |-> x.body, spacing |-> x.spacing],
                            format |-> format, output |-> x]
    BY DEF Entry, Latex, x
  <1>5. x.body \in Bodies /\ x.spacing \in Spacings /\ b.id \in AnyIds
    BY <1>1, <1>2 DEF FormulaPieces, DocBlocks
  <1>6. Entry(b, format) \in Serving(blocks)
    BY <1>2, <1>3, <1>4, <1>5 DEF Serving
  <1>7. QED BY <1>3, <1>6 DEF x

LEMMA InitCaches ==
  ASSUME NEW s, NEW ids, Opened(s, ids)
  PROVE  CachesOK
  <1>1. caches = [c \in Classes |-> <<>>] /\ mapped = {}
    BY DEF Opened
  <1> DEFINE S == Serving(blocks)
  <1>2. <<>> \in Seq(S) /\ Len(<<>>) = 0 /\ CacheSize \in Nat
    BY EmptySeq, BoundsCount
  <1> HIDE DEF S
  <1>3. caches \in [Classes -> Seq(S)] /\ \A c \in Classes : caches[c] = <<>>
    BY <1>1, <1>2
  <1>4. \A c \in Classes : Len(caches[c]) <= CacheSize
    BY <1>2, <1>3
  <1>5. QED BY <1>1, <1>3, <1>4 DEF CachesOK, S

(***************************************************************************)
(* An edit and a binding take the outputs of their nodes out.              *)
(***************************************************************************)
LEMMA CachesWithout ==
  ASSUME CachesOK, NEW ids, Kept(blocks, blocks', ids),
         caches' = [c \in Classes |-> Without(caches[c], ids)],
         mapped' = {x \in mapped : x.node \notin ids}
  PROVE  CachesOK'
  <1> DEFINE S == Serving(blocks)
             T == Serving(blocks')
  <1>1. \A e \in S : e.node \notin ids => e \in T
    <2>1. ASSUME NEW e \in S, e.node \notin ids PROVE e \in T
      <3>1. CurrentIn(blocks, e.node, <<e.output>>)
        BY DEF Serving
      <3>2. CurrentIn(blocks', e.node, <<e.output>>)
        BY <2>1, <3>1, KeptCurrent
      <3>3. QED BY <3>2 DEF Serving
    <2>2. QED BY <2>1
  <1>2. caches \in [Classes -> Seq(S)] /\ \A c \in Classes : Len(caches[c]) <= CacheSize
    BY DEF CachesOK
  <1> HIDE DEF S, T
  <1>3. ASSUME NEW c \in Classes PROVE caches'[c] \in Seq(T) /\ Len(caches'[c]) <= CacheSize
    <2> DEFINE s == caches[c]
    <2>1. s \in Seq(S) /\ Len(s) <= CacheSize
      BY <1>2
    <2>2. caches'[c] = Without(s, ids)
      OBVIOUS
    <2> HIDE DEF s
    <2>3. Without(s, ids) \in Seq(T) /\ Len(Without(s, ids)) <= Len(s)
      BY <1>1, <2>1, WithoutIs
    <2>4. Len(s) \in Nat /\ Len(Without(s, ids)) \in Nat /\ CacheSize \in Nat
      BY <2>1, <2>3, LenProperties, BoundsCount
    <2>5. QED BY <2>1, <2>2, <2>3, <2>4
  <1>4. caches' \in [Classes -> Seq(T)]
    BY <1>3
  <1>5. ASSUME NEW x \in mapped' PROVE CurrentIn(blocks', x.node, <<x.output>>)
    <2>1. x \in mapped /\ x.node \notin ids
      OBVIOUS
    <2>2. CurrentIn(blocks, x.node, <<x.output>>)
      BY <2>1 DEF CachesOK
    <2>3. QED BY <2>1, <2>2, KeptCurrent
  <1>6. QED BY <1>3, <1>4, <1>5 DEF CachesOK, T

LEMMA RecallCaches ==
  ASSUME CachesOK, NEW k, NEW format, Recall(k, format)
  PROVE  CachesOK'
  <1> DEFINE S == Serving(blocks)
             f == Class(format)
  <1>1. f \in Classes
    BY DEF Class, Classes
  <1>2. PICK i \in Places(blocks[k], format) :
           caches' = [caches EXCEPT ![f] = Append(RemoveAt(@, i), @[i])]
    BY DEF Recall
  <1>3. caches \in [Classes -> Seq(S)] /\ \A c \in Classes : Len(caches[c]) <= CacheSize
    BY DEF CachesOK
  <1>4. i \in DOMAIN caches[f]
    BY DEF Places
  <1> HIDE DEF S, f
  <1> DEFINE s == caches[f]
             t == Append(RemoveAt(s, i), s[i])
  <1>5. s \in Seq(S) /\ i \in 1..Len(s) /\ Len(s) <= CacheSize
    <2>1. s \in Seq(S) /\ Len(s) <= CacheSize
      BY <1>1, <1>3
    <2>2. QED BY <1>4, <2>1, LenProperties
  <1>6. caches' = [caches EXCEPT ![f] = t]
    BY <1>2
  <1> HIDE DEF s
  <1>7. t \in Seq(S) /\ Len(t) = Len(s)
    BY <1>5, Recalled
  <1> HIDE DEF t
  <1>8. caches' \in [Classes -> Seq(S)] /\ \A c \in Classes : Len(caches'[c]) <= CacheSize
    BY <1>3, <1>5, <1>6, <1>7
  <1>9. blocks' = blocks /\ mapped' = mapped
    BY DEF Recall
  <1>10. QED BY <1>8, <1>9 DEF CachesOK, S

LEMMA DeriveCaches ==
  ASSUME DocOK, CachesOK, NEW k \in DOMAIN blocks, NEW format \in Formats, Derive(k, format)
  PROVE  CachesOK'
  <1> DEFINE S == Serving(blocks)
             f == Class(format)
             b == blocks[k]
             e == Entry(b, format)
  <1>1. f \in Classes /\ IsFormula(b) /\ blocks' = blocks
    BY DEF Class, Classes, Derive
  <1>2. PICK t \in Inserted(caches[f], e) : caches' = [caches EXCEPT ![f] = t]
    BY DEF Derive
  <1>3. caches \in [Classes -> Seq(S)] /\ \A c \in Classes : Len(caches[c]) <= CacheSize
    BY DEF CachesOK
  <1>4. b \in Formulas(blocks)
    BY <1>1 DEF Formulas, Range
  <1>5. e \in S /\ CurrentIn(blocks, b.id, <<b.content[1]>>)
    BY <1>4, EntryServes
  <1>6. mapped' \subseteq mapped \cup {[node |-> b.id, output |-> b.content[1]]}
    BY DEF Derive
  <1> HIDE DEF S, f, e, b
  <1> DEFINE s == caches[f]
  <1>7. s \in Seq(S) /\ Len(s) <= CacheSize
    BY <1>1, <1>3
  <1>8. t \in Inserted(s, e)
    BY <1>2
  <1> HIDE DEF s
  <1>9. t \in Seq(S) /\ Len(t) <= CacheSize
    BY <1>5, <1>7, <1>8, InsertedIs
  <1>10. caches' \in [Classes -> Seq(S)] /\ \A c \in Classes : Len(caches'[c]) <= CacheSize
    BY <1>2, <1>3, <1>9
  <1>11. ASSUME NEW x \in mapped' PROVE CurrentIn(blocks, x.node, <<x.output>>)
    <2>1. CASE x \in mapped
      BY <2>1 DEF CachesOK
    <2>2. CASE x = [node |-> b.id, output |-> b.content[1]]
      <3>1. x.node = b.id /\ x.output = b.content[1]
        BY <2>2
      <3>2. QED BY <1>5, <3>1
    <2>3. QED BY <1>6, <2>1, <2>2
  <1>12. QED BY <1>1, <1>10, <1>11 DEF CachesOK, S

LEMMA CachesInvariance ==
  ASSUME DocOK, CachesOK, [Next]_vars
  PROVE  CachesOK'
  <1>1. ASSUME NEW k \in DOMAIN blocks, NEW external \in Externals, Bind(k, external)
        PROVE  CachesOK'
    <2> DEFINE ids == {blocks[k].id}
    <2>1. Kept(blocks, blocks', ids)
      BY <1>1, BindKeeps
    <2>2. /\ caches' = [c \in Classes |-> Without(caches[c], ids)]
          /\ mapped' = {x \in mapped : x.node \notin ids}
      BY <1>1 DEF Bind
    <2> HIDE DEF ids
    <2>3. QED BY <2>1, <2>2, CachesWithout
  <1>2. CASE Structural \/ Local
    <2>1. Edits
      BY <1>2, StructuralEdits, LocalEdits
    <2>2. PICK ids \in SUBSET AnyIds : Editing(ids)
      BY <2>1 DEF Edits
    <2>3. /\ Kept(blocks, blocks', ids)
          /\ caches' = [c \in Classes |-> Without(caches[c], ids)]
          /\ mapped' = {x \in mapped : x.node \notin ids}
      BY <2>2 DEF Editing, Dirties
    <2>4. QED BY <2>3, CachesWithout
  <1>3. CASE Outputs
    BY <1>3, RecallCaches, DeriveCaches DEF Outputs
  <1>4. CASE \E revisions \in Retentions : SetPolicy(revisions)
    <2>1. blocks' = blocks /\ caches' = caches /\ mapped' = mapped
      BY <1>4 DEF SetPolicy, outputs
    <2>2. QED BY <2>1 DEF CachesOK
  <1>5. CASE UNCHANGED vars
    <2>1. blocks' = blocks /\ caches' = caches /\ mapped' = mapped
      BY <1>5 DEF vars, outputs
    <2>2. QED BY <2>1 DEF CachesOK
  <1>6. QED BY <1>1, <1>2, <1>3, <1>4, <1>5 DEF Next

-----------------------------------------------------------------------------
(* Theorems *)

SessionOK == DocOK /\ LineageOK /\ CachesOK

LEMMA SessionKept == Spec => []SessionOK
  <1>1. Init => SessionOK
    <2>1. ASSUME Init PROVE \E s, ids : Opened(s, ids)
      BY <2>1 DEF Init, FromLatex, FromFormula
    <2>2. QED BY <2>1, InitDocument, InitLineage, InitCaches DEF SessionOK
  <1>2. SessionOK /\ [Next]_vars => SessionOK'
    BY DocumentInvariance, LineageInvariance, CachesInvariance DEF SessionOK
  <1>3. QED BY <1>1, <1>2, PTL DEF Spec

(***************************************************************************)
(* What a cache serves, what is shown and what the lineage does not mark   *)
(* stale was made of the formula that bears its identity, for any          *)
(* interleaving of edits, bindings, outputs and changes of the policy.     *)
(***************************************************************************)
THEOREM OutputsHold == Spec => []OutputsAreCurrent
  <1>1. SessionOK => OutputsAreCurrent
    <2>1. SUFFICES ASSUME SessionOK PROVE OutputsAreCurrent
      OBVIOUS
    <2>2. \A i, content : CurrentIn(blocks, i, content) => CurrentFormula(i, content)
      BY DEF CurrentIn, CurrentFormula
    <2>3. ASSUME NEW c \in Classes, NEW e \in Range(caches[c])
          PROVE  CurrentFormula(e.node, <<e.output>>)
      <3>1. caches[c] \in Seq(Serving(blocks))
        BY <2>1 DEF SessionOK, CachesOK
      <3>2. DOMAIN caches[c] = 1..Len(caches[c])
        BY <3>1, LenProperties
      <3>3. PICK i \in 1..Len(caches[c]) : e = caches[c][i]
        BY <3>2 DEF Range
      <3>4. e \in Serving(blocks)
        BY <3>1, <3>3, ElementOfSeq
      <3>5. QED BY <2>2, <3>4 DEF Serving
    <2>4. \A x \in mapped : CurrentFormula(x.node, <<x.output>>)
      BY <2>1, <2>2 DEF SessionOK, CachesOK
    <2>5. ASSUME NEW a \in DOMAIN lineage.graph \ lineage.stale, ~IsSource(a)
          PROVE  CurrentFormula(a.node, lineage.graph[a])
      <3>1. Fresh(lineage, blocks)
        BY <2>1 DEF SessionOK, LineageOK
      <3>2. Unmarked(lineage, a)
        BY <2>5 DEF Unmarked
      <3>3. CurrentIn(blocks, a.node, lineage.graph[a])
        BY <3>1, <3>2 DEF Fresh
      <3>4. QED BY <2>2, <3>3
    <2>6. QED BY <2>3, <2>4, <2>5 DEF OutputsAreCurrent
  <1>2. QED BY <1>1, SessionKept, PTL

\* An identity a document bears is a number up to the bound or a host's.
LEMMA IdsOf ==
  ASSUME NEW bs, NEW s, NEW m, Document(bs, s, m)
  PROVE  /\ Ids(bs) \subseteq (1..m) \cup Externals
         /\ Cardinality(Ids(bs)) = Len(bs)
  <1>1. GivenOut(bs, m) /\ Len(bs) \in Nat /\ DOMAIN bs = 1..Len(bs)
    BY LenProperties DEF Document
  <1>2. Ids(bs) \subseteq (1..m) \cup Externals
    BY <1>1 DEF Ids, GivenOut
  <1> DEFINE h == [k \in 1..Len(bs) |-> bs[k].id]
  <1>3. h \in Bijection(1..Len(bs), Ids(bs))
    <2>1. h \in [1..Len(bs) -> Ids(bs)] /\ \A i \in Ids(bs) : \E k \in 1..Len(bs) : h[k] = i
      BY <1>1 DEF Ids
    <2>2. \A j, k \in 1..Len(bs) : h[j] = h[k] => j = k
      BY <1>1 DEF GivenOut
    <2> DEFINE N == 1..Len(bs)
               K == Ids(bs)
    <2>3. h \in [N -> K] /\ (\A i \in K : \E k \in N : h[k] = i)
          /\ \A j, k \in N : h[j] = h[k] => j = k
      BY <2>1, <2>2
    <2> HIDE DEF h, N, K
    <2>4. h \in Injection(N, K) /\ h \in Surjection(N, K)
      BY <2>3 DEF Injection, Surjection, IsInjective
    <2>5. QED BY <2>4 DEF Bijection, N, K
  <1> HIDE DEF h
  <1>4. IsFiniteSet(1..Len(bs)) /\ Cardinality(1..Len(bs)) = Len(bs)
    <2>1. Cardinality(1..Len(bs)) = IF 1 > Len(bs) THEN 0 ELSE Len(bs) - 1 + 1
      BY <1>1, FS_Interval
    <2>2. QED BY <1>1, <2>1, FS_Interval
  <1>5. ExistsBijection(1..Len(bs), Ids(bs))
    BY <1>3 DEF ExistsBijection
  <1>6. Cardinality(Ids(bs)) = Cardinality(1..Len(bs))
    BY <1>4, <1>5, FS_Bijection
  <1>7. QED BY <1>2, <1>4, <1>6

LEMMA LatestCount ==
  ASSUME NEW l, NEW ids, NEW r, Typed(l, ids, r)
  PROVE  Cardinality({<<a.node, a.form>> : a \in l.latest}) = Cardinality(l.latest)
  <1> DEFINE K == {<<a.node, a.form>> : a \in l.latest}
             h == [a \in l.latest |-> <<a.node, a.form>>]
  <1>1. IsFiniteSet(l.latest) /\ \A a, b \in l.latest : Replaces(a, b) => a = b
    BY DEF Typed
  <1>2. h \in Bijection(l.latest, K)
    <2>1. h \in [l.latest -> K] /\ \A x \in K : \E a \in l.latest : h[a] = x
      OBVIOUS
    <2>2. \A a, b \in l.latest : h[a] = h[b] => a = b
      BY <1>1 DEF Replaces
    <2> DEFINE L == l.latest
    <2>3. h \in [L -> K] /\ (\A x \in K : \E a \in L : h[a] = x)
          /\ \A a, b \in L : h[a] = h[b] => a = b
      BY <2>1, <2>2
    <2> HIDE DEF h, K, L
    <2>4. h \in Injection(L, K) /\ h \in Surjection(L, K)
      BY <2>3 DEF Injection, Surjection, IsInjective
    <2>5. QED BY <2>4 DEF Bijection, L
  <1> HIDE DEF h, K
  <1>3. ExistsBijection(l.latest, K)
    BY <1>2 DEF ExistsBijection
  <1>4. Cardinality(K) = Cardinality(l.latest)
    BY <1>1, <1>3, FS_Bijection
  <1>5. QED BY <1>4 DEF K

(***************************************************************************)
(* Types: identities are distinct and given out, the latest artifacts are  *)
(* in the graph and one of a kind, caches stay within their size.          *)
(***************************************************************************)
THEOREM Types == Spec => []TypeOK
  <1>1. SessionOK => TypeOK
    <2>1. SUFFICES ASSUME SessionOK PROVE TypeOK
      OBVIOUS
    <2>2. DocOK /\ LineageOK /\ CachesOK
      BY <2>1 DEF SessionOK
    <2>3. Range(source) \subseteq Pieces /\ Len(source) <= MaxLength
      <3>1. source \in Seq(Pieces) /\ Len(source) <= MaxLength
        BY <2>2, DocFacts
      <3>2. QED BY <3>1, LenProperties, ElementOfSeq DEF Range
    <2>4. ASSUME NEW b \in Range(blocks)
          PROVE  /\ Range(b.content) \subseteq Pieces
                 /\ b.start <= b.end /\ b.end <= Len(source)
                 /\ IsFormula(b) => Len(b.content) = 1 /\ IsFormula(b.content[1])
      <3>1. PICK k \in 1..Len(blocks) : b = blocks[k]
        BY <2>2, DocFacts DEF Range
      <3>2. b \in DocBlocks /\ Sensible(b)
        BY <2>2, <3>1, DocFacts
      <3>3. b.start \in 0..Len(source) /\ b.end \in b.start..Len(source) /\ Len(source) \in Nat
        BY <2>2, <3>1, DocFacts
      <3>4. b.content \in Seq(Pieces)
        BY <3>2 DEF DocBlocks
      <3>5. Range(b.content) \subseteq Pieces
        BY <3>4, LenProperties, ElementOfSeq DEF Range
      <3>6. b.start <= b.end /\ b.end <= Len(source)
        BY <3>3
      <3>7. QED BY <3>2, <3>5, <3>6 DEF Sensible
    <2>5. Ids(blocks) \subseteq Identities /\ Cardinality(Ids(blocks)) = Len(blocks)
      BY <2>2, IdsOf DEF DocOK, Identities
    <2>6. /\ revision \in 0..MaxRevision /\ retained \in Retentions \cup {MaxRevision}
          /\ Typed(lineage, Identities, revision)
      BY <2>2 DEF LineageOK
    <2>7. \A c \in Classes : Len(caches[c]) <= CacheSize
      BY <2>2 DEF CachesOK
    <2>8. DOMAIN lineage.graph \subseteq Artifacts /\ lineage.latest \subseteq DOMAIN lineage.graph
      BY <2>6 DEF Typed, ArtifactsOf, Artifacts
    <2>9. Cardinality({<<a.node, a.form>> : a \in lineage.latest}) = Cardinality(lineage.latest)
      BY <2>6, LatestCount
    <2>10. QED BY <2>3, <2>4, <2>5, <2>6, <2>7, <2>8, <2>9 DEF TypeOK
  <1>2. QED BY <1>1, SessionKept, PTL

-----------------------------------------------------------------------------
(* The latest outputs *)

\* An edge leads to an artifact of the same node, or comes from a node that is gone.
Inward(l, ids) == \A e \in l.edges : e[1].node = e[2].node \/ e[1].node \notin ids

LatestUnmarked(l) == \A a \in l.latest : IsSource(a) \/ a \notin l.stale

LatestOK == Inward(lineage, Ids(blocks)) /\ LatestUnmarked(lineage)

LEMMA StaysLineage ==
  ASSUME NEW l, IsLineage(l), NEW made, NEW ids
  PROVE  /\ IsLineage(WithArtifacts(l, made)) /\ IsLineage(Invalidated(l, ids))
         /\ Invalidated(l, ids).edges = l.edges
  <1> DEFINE w == WithArtifacts(l, made)
             i == Invalidated(l, ids)
  <1>1. \E g, e, t, s : w = Lin(g, e, t, s)
    BY WithArtifactsIs
  <1>2. \E g, t, s : i = Lin(g, l.edges, t, s)
    BY InvalidatedIs
  <1> HIDE DEF w, i
  <1>3. IsLineage(w)
    BY <1>1, LineageParts
  <1>4. IsLineage(i) /\ i.edges = l.edges
    BY <1>2, LineageParts
  <1>5. QED BY <1>3, <1>4 DEF w, i

LEMMA CompactedLineage ==
  ASSUME NEW l, IsLineage(l), NEW r, NEW kept
  PROVE  IsLineage(Compacted(l, r, kept))
  <1> DEFINE c == Compacted(l, r, kept)
             S == Stay(l, r, kept)
  <1>1. c = Lin(Restrict(l.graph, S), l.edges \cap (S \X S), l.latest, l.stale \cap S)
    BY CompactedIs
  <1> HIDE DEF c, S
  <1>2. IsLineage(c)
    BY <1>1, LineageParts
  <1>3. QED BY <1>2 DEF c

LEMMA WithInward ==
  ASSUME NEW l, IsLineage(l), NEW ids, Inward(l, ids), LatestUnmarked(l), NEW made,
         \A a \in DOMAIN made : IsSource(a) \/ a \notin l.stale
  PROVE  Inward(WithArtifacts(l, made), ids) /\ LatestUnmarked(WithArtifacts(l, made))
  <1> DEFINE w == WithArtifacts(l, made)
             new == DOMAIN made
  <1>1. w = Lin(Over(made, l.graph), l.edges \cup From(l, new), Others(l, new) \cup new, l.stale)
    BY WithArtifactsIs
  <1> HIDE DEF w
  <1>2. w.edges = l.edges \cup From(l, new) /\ w.latest = Others(l, new) \cup new
        /\ w.stale = l.stale
    BY <1>1, LineageParts
  <1>3. \A e \in From(l, new) : e[1].node = e[2].node
    BY DEF From, Replaces, IsOrigin
  <1>4. Inward(w, ids)
    BY <1>2, <1>3 DEF Inward
  <1>5. LatestUnmarked(w)
    BY <1>2 DEF LatestUnmarked, Others
  <1>6. QED BY <1>4, <1>5 DEF w

LEMMA CompactedInward ==
  ASSUME NEW l, IsLineage(l), NEW ids, Inward(l, ids), LatestUnmarked(l), NEW r, NEW kept
  PROVE  Inward(Compacted(l, r, kept), ids) /\ LatestUnmarked(Compacted(l, r, kept))
  <1> DEFINE c == Compacted(l, r, kept)
             S == Stay(l, r, kept)
  <1>1. c = Lin(Restrict(l.graph, S), l.edges \cap (S \X S), l.latest, l.stale \cap S)
    BY CompactedIs
  <1> HIDE DEF c, S
  <1>2. c.edges = l.edges \cap (S \X S) /\ c.latest = l.latest /\ c.stale = l.stale \cap S
    BY <1>1, LineageParts
  <1>3. Inward(c, ids)
    BY <1>2 DEF Inward
  <1>4. LatestUnmarked(c)
    BY <1>2 DEF LatestUnmarked
  <1>5. QED BY <1>3, <1>4 DEF c

(***************************************************************************)
(* What is marked belongs to the nodes of an edit, and of these no output  *)
(* stays the latest.                                                       *)
(***************************************************************************)
LEMMA InvalidatedInward ==
  ASSUME NEW l, NEW given, NEW r, Typed(l, given, r), NEW ids, Inward(l, ids), LatestUnmarked(l),
         NEW dirty, \A a \in DOMAIN l.graph : a.node \in dirty => a.node \in ids
  PROVE  Inward(Invalidated(l, dirty), ids) /\ LatestUnmarked(Invalidated(l, dirty))
  <1> DEFINE i == Invalidated(l, dirty)
             from == Origins(l, dirty)
             D == Descendants(l.edges, from)
             t == {a \in l.latest : a.node \in dirty => IsSource(a)}
             Y == {a \in DOMAIN l.graph : a.node \in dirty}
  <1>1. /\ IsLineage(l) /\ l.latest \subseteq DOMAIN l.graph
        /\ l.edges \subseteq (DOMAIN l.graph) \X (DOMAIN l.graph) /\ IsFiniteSet(l.edges)
    BY DEF Typed
  <1>2. i = Lin(l.graph, l.edges, t, l.stale \cup D)
    BY <1>1, InvalidatedIs
  <1> HIDE DEF i
  <1>3. i.edges = l.edges /\ i.latest = t /\ i.stale = l.stale \cup D
    BY <1>2, LineageParts
  <1>4. D \subseteq Y
    <2>1. ASSUME NEW e \in l.edges, e[1] \in from \cup Y PROVE e[2] \in Y
      <3>1. e[1] \in DOMAIN l.graph /\ e[2] \in DOMAIN l.graph
        BY <1>1
      <3>2. e[1].node \in dirty
        BY <2>1 DEF Origins
      <3>3. e[1].node \in ids
        BY <3>1, <3>2
      <3>4. e[2].node = e[1].node
        BY <3>3 DEF Inward
      <3>5. QED BY <3>1, <3>2, <3>4
    <2>2. \A e \in l.edges : e[1] \in from \cup Y => e[2] \in Y
      BY <2>1
    <2> HIDE DEF from, Y
    <2>3. QED BY <1>1, <2>2, DescendantsBetween
  <1> HIDE DEF D
  <1>5. LatestUnmarked(i)
    BY <1>3, <1>4 DEF LatestUnmarked
  <1>6. Inward(i, ids)
    BY <1>3 DEF Inward
  <1>7. QED BY <1>5, <1>6 DEF i

LEMMA EditLatest ==
  ASSUME DocOK, LineageOK, LatestOK, NEW dirty, Editing(dirty)
  PROVE  LatestOK'
  <1> DEFINE F == {b \in Formulas(blocks') : b.id \in dirty}
             l == Invalidated(lineage, dirty)
             made == SourcesOf(F, revision')
             w == WithArtifacts(l, made)
  <1>1. /\ lineage' = WithSources(l, revision', F)
        /\ \A i \in dirty : i \in Ids(blocks) \/ (i \in Nat /\ i > bound)
        /\ \A i \in Ids(blocks') : i \in Ids(blocks) \/ (i \in Nat /\ i > bound)
    BY DEF Editing, Dirties
  <1>2. /\ Typed(lineage, Identities, revision) /\ Inward(lineage, Ids(blocks))
        /\ LatestUnmarked(lineage)
    BY DEF LineageOK, LatestOK
  <1>3. ASSUME NEW a \in DOMAIN lineage.graph PROVE ~(a.node \in Nat /\ a.node > bound)
    <2>1. a.node \in (1..bound) \cup Externals
      BY <1>2 DEF Typed, ArtifactsOf, Identities
    <2>2. bound \in Nat
      BY DocFacts
    <2>3. QED BY <2>1, <2>2, ExternalsApart
  <1>4. Inward(lineage, Ids(blocks'))
    <2>1. lineage.edges \subseteq (DOMAIN lineage.graph) \X (DOMAIN lineage.graph)
      BY <1>2 DEF Typed
    <2>2. ASSUME NEW e \in lineage.edges
          PROVE  e[1].node = e[2].node \/ e[1].node \notin Ids(blocks')
      <3>1. e[1] \in DOMAIN lineage.graph
        BY <2>1
      <3>2. e[1].node = e[2].node \/ e[1].node \notin Ids(blocks)
        BY <1>2 DEF Inward
      <3>3. QED BY <1>1, <1>3, <3>1, <3>2
    <2>3. QED BY <2>2 DEF Inward
  <1>5. IsLineage(l)
    <2>1. IsLineage(lineage)
      BY <1>2 DEF Typed
    <2>2. QED BY <2>1, StaysLineage
  <1>6. \A a \in DOMAIN lineage.graph : a.node \in dirty => a.node \in Ids(blocks)
    BY <1>1, <1>3
  <1>7. LatestUnmarked(l)
    BY <1>2, <1>6, InvalidatedInward
  <1>8. l.edges = lineage.edges
    <2>1. IsLineage(lineage)
      BY <1>2 DEF Typed
    <2>2. QED BY <2>1, StaysLineage
  <1> HIDE DEF l
  <1>9. Inward(l, Ids(blocks'))
    BY <1>4, <1>8 DEF Inward
  <1>10. CASE F = {}
    <2>1. lineage' = l
      BY <1>1, <1>10 DEF WithSources
    <2>2. QED BY <1>7, <1>9, <2>1 DEF LatestOK
  <1>11. CASE F # {}
    <2>1. lineage' = Compacted(w, revision', retained)
      <3> HIDE DEF F
      <3>1. QED BY <1>1, <1>11 DEF WithSources, SourcesOf
    <2>2. \A a \in DOMAIN made : IsSource(a)
      BY DEF SourcesOf, Sourced, IsSource
    <2> HIDE DEF made, F
    <2>3. Inward(w, Ids(blocks')) /\ LatestUnmarked(w)
      BY <1>5, <1>7, <1>9, <2>2, WithInward
    <2>4. IsLineage(w)
      BY <1>5, StaysLineage
    <2> HIDE DEF w
    <2>5. Inward(lineage', Ids(blocks')) /\ LatestUnmarked(lineage')
      BY <2>1, <2>3, <2>4, CompactedInward
    <2>6. QED BY <2>5 DEF LatestOK
  <1>12. QED BY <1>10, <1>11

LEMMA DeriveLatest ==
  ASSUME LineageOK, LatestOK, NEW k, NEW format, Derive(k, format)
  PROVE  LatestOK'
  <1> DEFINE b == blocks[k]
             m == Derived(b.id, format, revision)
             made == [a \in {m} |-> b.content]
             w == WithArtifacts(lineage, made)
  <1>1. lineage' = Compacted(w, revision, retained) /\ blocks' = blocks
    BY DEF Derive
  <1>2. m.revision = revision
    BY DEF Derived
  <1>3. m \notin lineage.stale
    BY <1>2 DEF LineageOK, StaleBefore
  <1>4. \A a \in DOMAIN made : a \notin lineage.stale
    BY <1>3
  <1>5. IsLineage(lineage) /\ Inward(lineage, Ids(blocks)) /\ LatestUnmarked(lineage)
    BY DEF LineageOK, Typed, LatestOK
  <1> HIDE DEF made
  <1>6. Inward(w, Ids(blocks)) /\ LatestUnmarked(w)
    BY <1>4, <1>5, WithInward
  <1>7. IsLineage(w)
    BY <1>5, StaysLineage
  <1> HIDE DEF w
  <1>8. Inward(lineage', Ids(blocks)) /\ LatestUnmarked(lineage')
    BY <1>1, <1>6, <1>7, CompactedInward
  <1>9. QED BY <1>1, <1>8 DEF LatestOK

\* A host binds an identity that no artifact bears yet.
BindsOnce ==
  \A k \in DOMAIN blocks, external \in Externals :
     Bind(k, external) => \A a \in DOMAIN lineage.graph : a.node # external

LEMMA BindLatest ==
  ASSUME DocOK, LineageOK, LatestOK, BindsOnce,
         NEW k \in DOMAIN blocks, NEW external \in Externals, Bind(k, external)
  PROVE  LatestOK'
  <1> DEFINE id == blocks[k].id
             previous == {a \in lineage.latest : a.node = id}
             m == Sourced(external, 0)
             content == IF IsFormula(blocks[k]) THEN blocks[k].content ELSE <<>>
             l == [lineage EXCEPT !.latest = @ \ previous]
             made == [a \in {m} |-> content]
             w == WithArtifacts(l, made)
             c == Compacted(w, 0, retained)
             E == previous \X {m}
  <1>1. /\ lineage' = [c EXCEPT !.edges = @ \cup E]
        /\ \A a \in DOMAIN lineage.graph : a.node # external
    BY DEF Bind, BindsOnce
  <1>2. /\ Typed(lineage, Identities, revision) /\ Inward(lineage, Ids(blocks))
        /\ LatestUnmarked(lineage)
    BY DEF LineageOK, LatestOK
  <1>3. IsLineage(lineage) /\ lineage.edges \subseteq (DOMAIN lineage.graph) \X (DOMAIN lineage.graph)
    BY <1>2 DEF Typed
  <1>4. Ids(blocks') \subseteq Ids(blocks) \cup {external} /\ id \notin Ids(blocks')
    <2>1. k \in 1..Len(blocks) /\ blocks \in Seq(DocBlocks) /\ GivenOut(blocks, bound)
          /\ DOMAIN blocks = 1..Len(blocks)
      BY DocFacts
    <2>2. blocks' = [blocks EXCEPT ![k].id = external] /\ external \notin Ids(blocks)
      BY DEF Bind
    <2>3. external \in AnyIds
      BY DEF AnyIds
    <2>4. blocks' \in Seq(DocBlocks) /\ Len(blocks') = Len(blocks)
      BY <2>1, <2>2, <2>3, Rebound
    <2>5. \A j \in 1..Len(blocks) : blocks'[j].id = (IF j = k THEN external ELSE blocks[j].id)
      BY <2>1, <2>2, <2>3, Rebound
    <2>6. id # external /\ \A j \in 1..Len(blocks) : blocks[j].id = id => j = k
      BY <2>1, <2>2 DEF Ids, GivenOut
    <2>7. DOMAIN blocks' = 1..Len(blocks)
      BY <2>4, LenProperties
    <2>8. QED BY <2>1, <2>5, <2>6, <2>7 DEF Ids
  <1>5. l = Lin(lineage.graph, lineage.edges, lineage.latest \ previous, lineage.stale)
    <2> HIDE DEF previous
    <2>1. QED BY <1>3 DEF IsLineage, Lin
  <1> HIDE DEF l
  <1>6. /\ IsLineage(l) /\ l.edges = lineage.edges
        /\ l.latest = lineage.latest \ previous /\ l.stale = lineage.stale
    BY <1>5, LineageParts
  <1>7. Inward(l, Ids(blocks'))
    <2>1. ASSUME NEW e \in lineage.edges
          PROVE  e[1].node = e[2].node \/ e[1].node \notin Ids(blocks')
      <3>1. e[1] \in DOMAIN lineage.graph
        BY <1>3
      <3>2. e[1].node = e[2].node \/ e[1].node \notin Ids(blocks)
        BY <1>2 DEF Inward
      <3>3. QED BY <1>1, <1>4, <3>1, <3>2
    <2>2. QED BY <1>6, <2>1 DEF Inward
  <1>8. LatestUnmarked(l)
    BY <1>2, <1>6 DEF LatestUnmarked
  <1>9. \A a \in DOMAIN made : IsSource(a)
    BY DEF Sourced, IsSource
  <1>10. \A e \in E : e[1].node = id
    OBVIOUS
  <1> HIDE DEF made, E
  <1>11. Inward(w, Ids(blocks')) /\ LatestUnmarked(w) /\ IsLineage(w)
    <2>1. Inward(w, Ids(blocks')) /\ LatestUnmarked(w)
      BY <1>6, <1>7, <1>8, <1>9, WithInward
    <2>2. QED BY <1>6, <2>1, StaysLineage
  <1> HIDE DEF w
  <1>12. Inward(c, Ids(blocks')) /\ LatestUnmarked(c) /\ IsLineage(c)
    <2>1. Inward(c, Ids(blocks')) /\ LatestUnmarked(c)
      BY <1>11, CompactedInward
    <2>2. QED BY <1>11, <2>1, CompactedLineage
  <1> HIDE DEF c
  <1>13. /\ lineage'.edges = c.edges \cup E /\ lineage'.latest = c.latest
         /\ lineage'.stale = c.stale
    BY <1>1, <1>12 DEF IsLineage, Lin
  <1>14. Inward(lineage', Ids(blocks'))
    BY <1>4, <1>10, <1>12, <1>13 DEF Inward
  <1>15. LatestUnmarked(lineage')
    BY <1>12, <1>13 DEF LatestUnmarked
  <1>16. QED BY <1>14, <1>15 DEF LatestOK

LEMMA LatestInvariance ==
  ASSUME DocOK, LineageOK, LatestOK, [Next]_vars, [BindsOnce]_vars
  PROVE  LatestOK'
  <1>0. CASE UNCHANGED vars
    BY <1>0 DEF vars, LatestOK
  <1>1. CASE \E k \in DOMAIN blocks, external \in Externals : Bind(k, external)
    <2>1. CASE BindsOnce
      BY <1>1, <2>1, BindLatest
    <2>2. QED BY <1>0, <2>1
  <1>2. CASE Structural \/ Local
    <2>1. Edits
      BY <1>2, StructuralEdits, LocalEdits
    <2>2. QED BY <2>1, EditLatest DEF Edits
  <1>3. CASE Outputs
    <2>1. PICK k \in DOMAIN blocks, format \in Formats : Recall(k, format) \/ Derive(k, format)
      BY <1>3 DEF Outputs
    <2>2. CASE Recall(k, format)
      BY <2>2 DEF Recall, LatestOK
    <2>3. CASE Derive(k, format)
      BY <2>3, DeriveLatest
    <2>4. QED BY <2>1, <2>2, <2>3
  <1>4. ASSUME NEW revisions \in Retentions, SetPolicy(revisions)
        PROVE  LatestOK'
    <2>1. lineage' = Compacted(lineage, revision, revisions) /\ blocks' = blocks
      BY <1>4 DEF SetPolicy
    <2>2. IsLineage(lineage) /\ Inward(lineage, Ids(blocks)) /\ LatestUnmarked(lineage)
      BY DEF LineageOK, Typed, LatestOK
    <2>3. Inward(lineage', Ids(blocks)) /\ LatestUnmarked(lineage')
      BY <2>1, <2>2, CompactedInward
    <2>4. QED BY <2>1, <2>3 DEF LatestOK
  <1>5. QED BY <1>0, <1>1, <1>2, <1>3, <1>4 DEF Next

LEMMA InitLatest ==
  ASSUME NEW s, NEW ids, Opened(s, ids)
  PROVE  LatestOK
  <1> DEFINE made == SourcesOf(Formulas(blocks), 0)
  <1>1. lineage = WithArtifacts(NoLineage, made)
    BY DEF Opened, SourcesOf
  <1>2. IsLineage(NoLineage) /\ NoLineage.edges = {} /\ NoLineage.latest = {} /\ NoLineage.stale = {}
    BY DEF IsLineage, Lin, NoLineage
  <1>3. Inward(NoLineage, Ids(blocks)) /\ LatestUnmarked(NoLineage)
    BY <1>2 DEF Inward, LatestUnmarked
  <1> HIDE DEF made
  <1>4. Inward(lineage, Ids(blocks)) /\ LatestUnmarked(lineage)
    BY <1>1, <1>2, <1>3, WithInward
  <1>5. QED BY <1>4 DEF LatestOK

LEMMA LatestIs ==
  ASSUME SessionOK, LatestOK
  PROVE  LatestComeFromLatest
  <1>1. /\ Fresh(lineage, blocks) /\ Covered(lineage, blocks)
        /\ lineage.latest \subseteq DOMAIN lineage.graph
    BY DEF SessionOK, LineageOK, Typed
  <1>2. ASSUME NEW a \in lineage.latest, ~IsSource(a)
        PROVE  /\ a \in DOMAIN lineage.graph \ lineage.stale
               /\ \E s \in lineage.latest : LatestSource(a.node, s) /\ <<s, a>> \in lineage.edges
    <2>1. a \in DOMAIN lineage.graph /\ a \notin lineage.stale
      BY <1>1, <1>2 DEF LatestOK, LatestUnmarked
    <2>2. HasOrigin(lineage, a)
      BY <1>1, <1>2, <2>1 DEF Fresh, Unmarked
    <2>3. QED BY <1>1, <2>1, <2>2 DEF HasOrigin, LatestSource
  <1>3. ASSUME NEW b \in Formulas(blocks)
        PROVE  \E s \in lineage.latest :
                  LatestSource(b.id, s) /\ CurrentFormula(b.id, lineage.graph[s])
    <2>1. PICK s \in lineage.latest : s.node = b.id /\ IsSource(s)
                                      /\ lineage.graph[s][1].body = b.content[1].body
      BY <1>1 DEF Covered, SourceOf
    <2>2. LatestSource(b.id, s)
      BY <1>1, <2>1 DEF LatestSource
    <2>3. CurrentFormula(b.id, lineage.graph[s])
      BY <2>1 DEF CurrentFormula
    <2>4. QED BY <2>2, <2>3
  <1>4. QED BY <1>2, <1>3 DEF LatestComeFromLatest

(***************************************************************************)
(* The latest output of a formula is not marked stale and comes from the   *)
(* latest source, which is of its present content, as long as no host      *)
(* binds an identity that has been bound before.                           *)
(***************************************************************************)
THEOREM LatestHold == Spec /\ [][BindsOnce]_vars => []LatestComeFromLatest
  <1>1. Init => LatestOK
    <2>1. ASSUME Init PROVE \E s, ids : Opened(s, ids)
      BY <2>1 DEF Init, FromLatex, FromFormula
    <2>2. QED BY <2>1, InitLatest
  <1>2. SessionOK /\ LatestOK /\ [Next]_vars /\ [BindsOnce]_vars => LatestOK'
    BY LatestInvariance DEF SessionOK
  <1>3. SessionOK /\ LatestOK => LatestComeFromLatest
    BY LatestIs
  <1>4. QED BY <1>1, <1>2, <1>3, SessionKept, PTL DEF Spec

-----------------------------------------------------------------------------
(* Where the formulas are *)

\* A formula block is one piece of the source, where its span says.
IsPlaced(b, s) ==
  IsFormula(b) => /\ b.end \in 1..Len(s) /\ b.start = b.end - 1
                  /\ b.content = <<s[b.end]>> /\ IsFormula(s[b.end])

HasBlock(bs, i) == \E k \in 1..Len(bs) : IsFormula(bs[k]) /\ bs[k].end = i

(***************************************************************************)
(* The formula blocks are the formulas of the source, also after a         *)
(* paragraph was emptied in place and the blocks are not a tiling.         *)
(***************************************************************************)
Placed(bs, s) ==
  /\ \A k \in 1..Len(bs) : IsPlaced(bs[k], s)
  /\ \A i \in 1..Len(s) : IsFormula(s[i]) => HasBlock(bs, i)
  /\ \A j, k \in 1..Len(bs) : IsFormula(bs[j]) /\ IsFormula(bs[k]) /\ bs[j].end = bs[k].end => j = k

LEMMA TilingPlaced ==
  ASSUME NEW s \in Seq(Pieces), NEW bs, Tiling(bs, s, Len(s))
  PROVE  Placed(bs, s)
  <1> DEFINE N == Len(bs)
             L == Len(s)
  <1>1. /\ N \in Nat /\ L \in Nat
        /\ \A k \in 1..N : bs[k] \in RawBlocks /\ bs[k].start \in Int /\ bs[k].end \in Int
        /\ \A k \in 0..N : EndOf(bs, k) \in Int
    <2>1. \A k \in 1..N : bs[k] \in RawBlocks
      BY TilingFacts
    <2>2. QED BY <2>1, TilingFacts, LenProperties DEF RawBlocks
  <1>2. \A k \in 1..N : /\ Covers(bs[k], s) /\ bs[k].start = EndOf(bs, k - 1)
                        /\ EndOf(bs, k) = bs[k].end
    <2>1. \A k \in 1..N : EndOf(bs, k) = bs[k].end
      BY <1>1 DEF EndOf
    <2>2. QED BY <2>1 DEF Tiling
  <1>3. ASSUME NEW k \in 1..N PROVE IsPlaced(bs[k], s)
    <2>1. SUFFICES ASSUME IsFormula(bs[k])
          PROVE  /\ bs[k].end \in 1..L /\ bs[k].start = bs[k].end - 1
                 /\ bs[k].content = <<s[bs[k].end]>> /\ IsFormula(s[bs[k].end])
      BY DEF IsPlaced
    <2> DEFINE x == bs[k].start
               y == bs[k].end
               w == SubSeq(s, x + 1, y)
    <2>2. 0 <= x /\ x < y /\ y <= L /\ bs[k].content = w /\ y = x + 1 /\ IsFormula(s[y])
      BY <1>2, <2>1 DEF Covers
    <2>3. x \in Int /\ y \in Int
      BY <1>1
    <2> HIDE DEF x, y
    <2>4. L \in Nat /\ 0 <= x /\ y <= L /\ y = x + 1
      BY <1>1, <2>2
    <2>5. y \in 1..L /\ x = y - 1 /\ x + 1 \in 1..(L + 1) /\ y \in ((x + 1) - 1)..L
      BY <2>3, <2>4
    <2>6. w \in Seq(Pieces) /\ Len(w) = y - (x + 1) + 1
      BY <2>5, Part
    <2>7. \A i \in 1..(y - (x + 1) + 1) : w[i] = s[(x + 1) + i - 1]
      BY <2>5, Part
    <2> HIDE DEF w
    <2>8. y - (x + 1) + 1 = 1 /\ 1 \in 1..(y - (x + 1) + 1) /\ (x + 1) + 1 - 1 = y
      BY <2>3, <2>4
    <2>9. w[1] = s[y]
      BY <2>7, <2>8
    <2>10. w \in Seq(Pieces) /\ Len(w) = 1
      BY <2>6, <2>8
    <2>11. w = <<s[y]>>
      BY <2>9, <2>10
    <2>12. QED BY <2>2, <2>5, <2>11 DEF x, y
  <1>4. ASSUME NEW i \in 1..L, IsFormula(s[i]) PROVE HasBlock(bs, i)
    <2> DEFINE P == {n \in 0..N : i <= EndOf(bs, n) =>
                       \E k \in 1..n : bs[k].start < i /\ i <= bs[k].end}
    <2>1. 0 \in P
      BY <1>1 DEF EndOf
    <2>2. ASSUME NEW n \in 1..N, n - 1 \in P PROVE n \in P
      <3>1. CASE i <= EndOf(bs, n - 1)
        <4>1. PICK k \in 1..(n - 1) : bs[k].start < i /\ i <= bs[k].end
          BY <2>2, <3>1
        <4>2. k \in 1..n /\ n \in 0..N
          BY <1>1
        <4>3. QED BY <4>1, <4>2
      <3>2. CASE ~(i <= EndOf(bs, n - 1))
        <4>1. n - 1 \in 0..N /\ n \in 0..N /\ n \in 1..n
          BY <1>1
        <4>2. bs[n].start < i
          BY <1>1, <1>2, <3>2, <4>1
        <4>3. i <= EndOf(bs, n) => i <= bs[n].end
          BY <1>2
        <4>4. QED BY <4>1, <4>2, <4>3
      <3>3. QED BY <3>1, <3>2
    <2> HIDE DEF P
    <2>3. N \in P
      <3>1. \A n \in 0..N : n \in P
        BY <1>1, <2>1, <2>2, Induction
      <3>2. QED BY <1>1, <3>1
    <2>4. i <= EndOf(bs, N)
      BY <1>1 DEF Tiling
    <2>5. PICK k \in 1..N : bs[k].start < i /\ i <= bs[k].end
      BY <2>3, <2>4 DEF P
    <2>6. IsFormula(bs[k])
      <3>1. SUFFICES ASSUME ~IsFormula(bs[k]) PROVE FALSE
        OBVIOUS
      <3>2. \A m \in (bs[k].start + 1)..bs[k].end : ~IsFormula(s[m])
        BY <1>2, <3>1 DEF Covers
      <3>3. i \in (bs[k].start + 1)..bs[k].end
        BY <1>1, <2>5
      <3>4. QED BY <1>4, <3>2, <3>3
    <2>7. bs[k].end = i
      BY <1>1, <1>3, <2>5, <2>6 DEF IsPlaced
    <2>8. QED BY <2>6, <2>7 DEF HasBlock
  <1>5. ASSUME NEW j \in 1..N, NEW k \in 1..N, j < k PROVE bs[j].end < bs[k].end
    <2>1. k - 1 \in 0..N /\ j \in 0..(k - 1) /\ j \in 0..N
      BY <1>1, <1>5
    <2>2. EndOf(bs, j) <= EndOf(bs, k - 1)
      BY <2>1, EndsGrow
    <2>3. bs[k].start < bs[k].end
      BY <1>2 DEF Covers
    <2>4. QED BY <1>1, <1>2, <2>1, <2>2, <2>3
  <1>6. \A j, k \in 1..N : bs[j].end = bs[k].end => j = k
    BY <1>1, <1>5
  <1>7. QED BY <1>3, <1>4, <1>6 DEF Placed

LEMMA ParsedPlaced ==
  ASSUME NEW s \in Seq(Pieces)
  PROVE  Placed(Parsed(s), s)
  BY ParsedTiles, TilingPlaced

\* Identities do not matter.
LEMMA SamePlaced ==
  ASSUME NEW bs, NEW cs, NEW s, Placed(bs, s), Len(cs) = Len(bs),
         \A k \in 1..Len(bs) : /\ cs[k].kind = bs[k].kind /\ cs[k].content = bs[k].content
                               /\ cs[k].start = bs[k].start /\ cs[k].end = bs[k].end
  PROVE  Placed(cs, s)
  <1>1. \A k \in 1..Len(bs) : IsFormula(cs[k]) <=> IsFormula(bs[k])
    BY DEF IsFormula
  <1>2. \A k \in 1..Len(bs) : IsPlaced(cs[k], s)
    BY <1>1 DEF IsPlaced, Placed
  <1>3. \A i \in 1..Len(s) : IsFormula(s[i]) => HasBlock(cs, i)
    <2>1. ASSUME NEW i \in 1..Len(s), IsFormula(s[i]) PROVE HasBlock(cs, i)
      <3>1. PICK k \in 1..Len(bs) : IsFormula(bs[k]) /\ bs[k].end = i
        BY <2>1 DEF Placed, HasBlock
      <3>2. QED BY <1>1, <3>1 DEF HasBlock
    <2>2. QED BY <2>1
  <1>4. \A j, k \in 1..Len(bs) :
          IsFormula(cs[j]) /\ IsFormula(cs[k]) /\ cs[j].end = cs[k].end => j = k
    BY <1>1 DEF Placed
  <1>5. QED BY <1>2, <1>3, <1>4 DEF Placed

LEMMA NamedPlaced ==
  ASSUME NEW s \in Seq(Pieces), NEW ids
  PROVE  Placed(Named(s, ids), s)
  <1> DEFINE bs == Parsed(s)
             cs == Named(s, ids)
  <1>1. Placed(bs, s) /\ DOMAIN bs = 1..Len(bs) /\ Len(bs) \in Nat
    BY ParsedPlaced, ParsedLength, LenProperties
  <1>2. cs = [k \in 1..Len(bs) |-> Identified(bs[k], ids[k])]
    BY <1>1 DEF Named
  <1> HIDE DEF bs, cs
  <1>3. Len(cs) = Len(bs)
    BY <1>1, <1>2
  <1>4. \A k \in 1..Len(bs) : /\ cs[k].kind = bs[k].kind /\ cs[k].content = bs[k].content
                              /\ cs[k].start = bs[k].start /\ cs[k].end = bs[k].end
    BY <1>2 DEF Identified
  <1>5. Placed(cs, s)
    BY <1>1, <1>3, <1>4, SamePlaced
  <1>6. QED BY <1>5 DEF cs

\* Where an edit in place leaves a formula.
LEMMA FormulaMoves ==
  ASSUME NEW s \in Seq(Pieces), NEW bs \in Seq(DocBlocks), InOrder(bs, Len(s)), Placed(bs, s),
         NEW k \in 1..Len(bs), NEW new \in Seq(Pieces), Suits(bs[k], new),
         NEW j \in 1..Len(bs), IsFormula(bs[j])
  PROVE  LET from == bs[k].start
             to == bs[k].end
             y == bs[j].end
         IN  /\ j < k => /\ y <= from
                         /\ Edited(bs, k, new)[j].start = y - 1 /\ Edited(bs, k, new)[j].end = y
             /\ j = k => /\ from = to - 1 /\ Len(new) = 1
                         /\ Edited(bs, k, new)[j].start = from /\ Edited(bs, k, new)[j].end = to
             /\ j > k => /\ to < y
                         /\ Edited(bs, k, new)[j].start = from + Len(new) + (y - to) - 1
                         /\ Edited(bs, k, new)[j].end = from + Len(new) + (y - to)
  <1> DEFINE from == bs[k].start
             to == bs[k].end
             x == bs[j].start
             y == bs[j].end
             n == Len(new)
             p == Edited(bs, k, new)[j].start
             q == Edited(bs, k, new)[j].end
  <1>1. n \in Nat /\ Len(bs) \in Nat /\ j \in Nat /\ k \in Nat
    BY LenProperties
  <1>2. from \in Nat /\ to \in Nat /\ x \in Nat /\ y \in Nat
    <2>1. bs[j] \in DocBlocks /\ bs[k] \in DocBlocks
      BY ElementOfSeq
    <2>2. QED BY <2>1 DEF DocBlocks
  <1>3. from <= to /\ x = y - 1 /\ y >= 1
    <2>1. from <= to
      BY DEF InOrder
    <2>2. y \in 1..Len(s) /\ x = y - 1
      BY DEF Placed, IsPlaced
    <2>3. QED BY <1>2, <2>1, <2>2
  <1>4. j < k => y <= from
    <2>1. j < k => j \in 1..(k - 1)
      BY <1>1
    <2>2. QED BY <2>1 DEF InOrder
  <1>5. j > k => to <= x
    <2>1. j > k => k \in 1..(j - 1)
      BY <1>1
    <2>2. QED BY <2>1 DEF InOrder
  <1>6. j = k => x = from /\ y = to /\ n = 1
    BY DEF Suits
  <1>7. /\ p = IF j > k /\ y > from THEN x + n - (to - from) ELSE x
        /\ q = IF (j > k \/ j = k) /\ y > from THEN y + n - (to - from) ELSE y
    BY DEF Edited, DocBlock, NewStart, NewEnd
  <1> HIDE DEF p, q, n, from, to, x, y
  <1>8. j < k => y <= from /\ p = y - 1 /\ q = y
    BY <1>1, <1>2, <1>3, <1>4, <1>7
  <1>9. j = k => from = to - 1 /\ n = 1 /\ p = from /\ q = to
    BY <1>1, <1>2, <1>3, <1>6, <1>7
  <1>10. j > k => to < y /\ p = from + n + (y - to) - 1 /\ q = from + n + (y - to)
    BY <1>1, <1>2, <1>3, <1>5, <1>7
  <1>11. QED BY <1>8, <1>9, <1>10 DEF p, q, n, from, to, y

LEMMA EditedFormulas ==
  ASSUME NEW s \in Seq(Pieces), NEW bs \in Seq(DocBlocks), InOrder(bs, Len(s)), Placed(bs, s),
         NEW k \in 1..Len(bs), NEW new \in Seq(Pieces), Suits(bs[k], new),
         NEW j \in 1..Len(bs), NEW t, IsSplice(t, s, bs[k].start, bs[k].end, new)
  PROVE  IsPlaced(Edited(bs, k, new)[j], t)
  <1> DEFINE from == bs[k].start
             to == bs[k].end
             y == bs[j].end
             n == Len(new)
             L == Len(s)
             c == Edited(bs, k, new)[j]
  <1>1. n \in Nat /\ L \in Nat /\ Len(bs) \in Nat /\ j \in Nat /\ k \in Nat
    BY LenProperties
  <1>2. from \in Nat /\ to \in Nat /\ from <= to /\ to <= L
    <2>1. bs[k] \in DocBlocks
      BY ElementOfSeq
    <2>2. QED BY <2>1 DEF DocBlocks, InOrder
  <1>3. c.kind = bs[j].kind /\ c.content = IF j = k THEN new ELSE bs[j].content
    BY DEF Edited, DocBlock
  <1>4. SUFFICES ASSUME IsFormula(bs[j]) PROVE IsPlaced(c, t)
    BY <1>3 DEF IsPlaced, IsFormula
  <1>5. y \in 1..L /\ bs[j].content = <<s[y]>> /\ IsFormula(s[y])
    BY <1>4 DEF Placed, IsPlaced
  <1>6. /\ j < k => y <= from /\ c.start = y - 1 /\ c.end = y
        /\ j = k => from = to - 1 /\ n = 1 /\ c.start = from /\ c.end = to
        /\ j > k => to < y /\ c.start = from + n + (y - to) - 1 /\ c.end = from + n + (y - to)
    BY <1>4, FormulaMoves
  <1>7. j = k => Len(new) = 1 /\ IsFormula(new[1])
    BY <1>4 DEF Suits
  <1>8. IsSplice(t, s, from, to, new)
    OBVIOUS
  <1> HIDE DEF from, to, y, c
  <1>9. Len(t) = from + n + (L - to)
    BY <1>8 DEF IsSplice
  <1>10. \A i \in 1..from : t[i] = s[i]
    BY <1>8 DEF IsSplice
  <1>11. \A i \in 1..n : t[from + i] = new[i]
    BY <1>8 DEF IsSplice
  <1>12. \A i \in (to + 1)..L : t[from + n + (i - to)] = s[i]
    BY <1>8 DEF IsSplice
  <1>13. CASE j < k
    <2>1. y \in 1..from /\ c.end = y /\ c.start = y - 1 /\ y \in 1..Len(t)
      BY <1>1, <1>2, <1>5, <1>6, <1>9, <1>13
    <2>2. t[y] = s[y]
      BY <1>10, <2>1
    <2>3. c.content = <<s[y]>>
      BY <1>1, <1>3, <1>5, <1>13
    <2>4. QED BY <1>5, <2>1, <2>2, <2>3 DEF IsPlaced
  <1>14. CASE j = k
    <2>0. from = to - 1 /\ n = 1 /\ c.start = from /\ c.end = to
      BY <1>6, <1>14
    <2>1. /\ 1 \in 1..n /\ c.end = from + 1 /\ c.start = (from + 1) - 1
          /\ from + 1 \in 1..Len(t)
      <3>1. Len(t) = from + 1 + (L - to)
        BY <1>9, <2>0
      <3> HIDE DEF n, L
      <3>2. c.end = from + 1 /\ c.start = (from + 1) - 1 /\ 1 \in 1..n
        BY <1>2, <2>0
      <3>3. from + 1 \in 1..Len(t)
        BY <1>1, <1>2, <2>0, <3>1
      <3>4. QED BY <3>2, <3>3
    <2>2. t[from + 1] = new[1]
      BY <1>11, <2>1
    <2>3. c.content = new
      BY <1>3, <1>14
    <2>4. new = <<new[1]>>
      BY <1>7, <1>14
    <2>5. c.content = <<t[c.end]>> /\ IsFormula(t[c.end])
      BY <1>7, <1>14, <2>1, <2>2, <2>3, <2>4
    <2>6. c.end \in 1..Len(t) /\ c.start = c.end - 1
      BY <2>1
    <2>7. QED BY <2>5, <2>6 DEF IsPlaced
  <1>15. CASE j > k
    <2> DEFINE z == from + n + (y - to)
    <2>1. y \in (to + 1)..L /\ c.end = z /\ c.start = z - 1 /\ z \in 1..Len(t)
      BY <1>1, <1>2, <1>5, <1>6, <1>9, <1>15
    <2>2. t[z] = s[y]
      BY <1>12, <2>1
    <2>3. c.content = <<s[y]>>
      BY <1>1, <1>3, <1>5, <1>15
    <2> HIDE DEF z
    <2>4. QED BY <1>5, <2>1, <2>2, <2>3 DEF IsPlaced
  <1>16. j < k \/ j = k \/ j > k
    BY <1>1
  <1>17. QED BY <1>13, <1>14, <1>15, <1>16 DEF c

LEMMA EditedHasBlocks ==
  ASSUME NEW s \in Seq(Pieces), NEW bs \in Seq(DocBlocks), InOrder(bs, Len(s)), Placed(bs, s),
         NEW k \in 1..Len(bs), NEW new \in Seq(Pieces), Suits(bs[k], new),
         NEW t, IsSplice(t, s, bs[k].start, bs[k].end, new),
         NEW i \in 1..Len(t), IsFormula(t[i])
  PROVE  HasBlock(Edited(bs, k, new), i)
  <1> DEFINE from == bs[k].start
             to == bs[k].end
             n == Len(new)
             L == Len(s)
             es == Edited(bs, k, new)
  <1>1. n \in Nat /\ L \in Nat /\ Len(bs) \in Nat /\ k \in Nat
    BY LenProperties
  <1>2. from \in Nat /\ to \in Nat /\ from <= to /\ to <= L
    <2>1. bs[k] \in DocBlocks
      BY ElementOfSeq
    <2>2. QED BY <2>1 DEF DocBlocks, InOrder
  <1>3. /\ Len(es) = Len(bs)
        /\ \A j \in 1..Len(bs) : IsFormula(es[j]) <=> IsFormula(bs[j])
    <2>1. Len(es) = Len(bs)
      BY LenProperties, EditedType
    <2>2. \A j \in 1..Len(bs) : es[j].kind = bs[j].kind
      BY DEF Edited, DocBlock
    <2>3. QED BY <2>1, <2>2 DEF IsFormula
  <1>4. \A j \in 1..Len(bs) : IsFormula(bs[j]) =>
          /\ j < k => bs[j].end <= from /\ es[j].end = bs[j].end
          /\ j = k => from = to - 1 /\ es[j].end = to
          /\ j > k => to < bs[j].end /\ es[j].end = from + n + (bs[j].end - to)
    BY FormulaMoves
  <1>5. \A m \in 1..L : IsFormula(s[m]) => \E j \in 1..Len(bs) : IsFormula(bs[j]) /\ bs[j].end = m
    BY DEF Placed, HasBlock
  <1>6. IsSplice(t, s, from, to, new)
    OBVIOUS
  <1>7. Suits(bs[k], new) /\ k \in 1..Len(bs) /\ bs[k].end = to
    OBVIOUS
  <1>8. i \in 1..Len(t) /\ IsFormula(t[i])
    OBVIOUS
  <1>0. SUFFICES HasBlock(es, i)
    OBVIOUS
  <1> HIDE DEF from, to, es
  <1>9. Len(t) = from + n + (L - to)
    BY <1>6 DEF IsSplice
  <1>10. \A m \in 1..from : t[m] = s[m]
    BY <1>6 DEF IsSplice
  <1>11. \A m \in 1..n : t[from + m] = new[m]
    BY <1>6 DEF IsSplice
  <1>12. \A m \in (to + 1)..L : t[from + n + (m - to)] = s[m]
    BY <1>6 DEF IsSplice
  <1>13. CASE i <= from
    <2>1. i \in 1..from /\ i \in 1..L
      BY <1>1, <1>2, <1>8, <1>13
    <2>2. PICK j \in 1..Len(bs) : IsFormula(bs[j]) /\ bs[j].end = i
      BY <1>5, <1>8, <1>10, <2>1
    <2>3. j < k
      BY <1>1, <1>2, <1>4, <1>7, <1>13, <2>2
    <2>4. QED BY <1>3, <1>4, <2>2, <2>3 DEF HasBlock
  <1>14. CASE from < i /\ i <= from + n
    <2> DEFINE m == i - from
    <2>1. m \in 1..n /\ from + m = i
      BY <1>1, <1>2, <1>8, <1>14
    <2> HIDE DEF m
    <2>2. IsFormula(new[m])
      BY <1>8, <1>11, <2>1
    <2>3. IsFormula(bs[k]) /\ n = 1
      BY <1>7, <2>1, <2>2 DEF Suits
    <2>4. es[k].end = i
      BY <1>1, <1>2, <1>4, <1>7, <2>1, <2>3
    <2>5. QED BY <1>3, <1>7, <2>3, <2>4 DEF HasBlock
  <1>15. CASE i > from + n
    <2> DEFINE m == to + (i - (from + n))
    <2>1. m \in (to + 1)..L /\ m \in 1..L /\ from + n + (m - to) = i
      BY <1>1, <1>2, <1>8, <1>9, <1>15
    <2> HIDE DEF m
    <2>2. PICK j \in 1..Len(bs) : IsFormula(bs[j]) /\ bs[j].end = m
      BY <1>5, <1>8, <1>12, <2>1
    <2>3. j > k
      BY <1>1, <1>2, <1>4, <1>7, <2>1, <2>2
    <2>4. es[j].end = i
      BY <1>4, <2>1, <2>2, <2>3
    <2>5. QED BY <1>3, <2>2, <2>4 DEF HasBlock
  <1>16. i <= from \/ (from < i /\ i <= from + n) \/ i > from + n
    BY <1>1, <1>2, <1>8
  <1>17. QED BY <1>13, <1>14, <1>15, <1>16

\* Blocks in their order end at different places.
LEMMA EndsApart ==
  ASSUME NEW n, NEW bs \in Seq(DocBlocks), InOrder(bs, n), NEW s,
         \A k \in 1..Len(bs) : IsPlaced(bs[k], s)
  PROVE  \A j, k \in 1..Len(bs) :
           IsFormula(bs[j]) /\ IsFormula(bs[k]) /\ bs[j].end = bs[k].end => j = k
  <1>1. Len(bs) \in Nat /\ \A k \in 1..Len(bs) : bs[k].end \in Nat
    <2>1. \A k \in 1..Len(bs) : bs[k] \in DocBlocks
      BY ElementOfSeq
    <2>2. QED BY <2>1, LenProperties DEF DocBlocks
  <1>2. ASSUME NEW j \in 1..Len(bs), NEW k \in 1..Len(bs), IsFormula(bs[k]), j < k
        PROVE  bs[j].end # bs[k].end
    <2>1. j \in 1..(k - 1)
      BY <1>1, <1>2
    <2>2. bs[j].end <= bs[k].start
      BY <2>1 DEF InOrder
    <2>3. bs[k].start = bs[k].end - 1
      BY <1>2 DEF IsPlaced
    <2>4. QED BY <1>1, <2>2, <2>3
  <1>3. QED BY <1>1, <1>2

LEMMA EditedPlaced ==
  ASSUME NEW s \in Seq(Pieces), NEW bs \in Seq(DocBlocks), InOrder(bs, Len(s)), Placed(bs, s),
         NEW k \in 1..Len(bs), NEW new \in Seq(Pieces), Suits(bs[k], new),
         NEW t, IsSplice(t, s, bs[k].start, bs[k].end, new)
  PROVE  Placed(Edited(bs, k, new), t)
  <1> DEFINE es == Edited(bs, k, new)
  <1>1. Len(s) \in Nat
    BY LenProperties
  <1>2. es \in Seq(DocBlocks) /\ Len(es) = Len(bs)
    BY <1>1, EditedType
  <1>3. InOrder(es, bs[k].start + Len(new) + (Len(s) - bs[k].end))
    BY <1>1, EditedInOrder
  <1>4. \A j \in 1..Len(bs) : IsPlaced(es[j], t)
    BY EditedFormulas
  <1>5. \A i \in 1..Len(t) : IsFormula(t[i]) => HasBlock(es, i)
    BY EditedHasBlocks
  <1> HIDE DEF es
  <1>6. \A i, j \in 1..Len(es) :
          IsFormula(es[i]) /\ IsFormula(es[j]) /\ es[i].end = es[j].end => i = j
    BY <1>2, <1>3, <1>4, EndsApart
  <1>7. Placed(es, t)
    BY <1>2, <1>4, <1>5, <1>6 DEF Placed
  <1>8. QED BY <1>7 DEF es

PlacedOK == Placed(blocks, source)

LEMMA InitPlaced ==
  ASSUME Init
  PROVE  PlacedOK
  <1>1. DocOK
    BY InitDocument
  <1>2. source \in Seq(Pieces)
    BY <1>1, DocFacts
  <1>3. \E ids : blocks = Named(source, ids)
    <2>1. \E s, ids : Opened(s, ids)
      BY DEF Init, FromLatex, FromFormula
    <2>2. PICK s, ids : Opened(s, ids)
      BY <2>1
    <2>3. source = s /\ blocks = [k \in DOMAIN Parsed(s) |-> Identified(Parsed(s)[k], ids[k])]
      BY <2>2 DEF Opened
    <2>4. blocks = Named(s, ids)
      BY <2>3 DEF Named
    <2>5. QED BY <2>3, <2>4
  <1>4. QED BY <1>2, <1>3, NamedPlaced DEF PlacedOK

\* A new parse names the blocks that it finds.
LEMMA StructuralNames ==
  ASSUME Structural
  PROVE  \E ids : blocks' = Named(source', ids)
  <1>1. \E old, s : Reconciles(old, s)
    <2>1. CASE \E from \in Positions : \E to \in from..Len(source), new \in Replacements :
                 ReplaceSourceRange(from, to, new)
      BY <2>1 DEF ReplaceSourceRange
    <2>2. CASE \E after \in {0} \cup {b.end : b \in Range(blocks)}, piece \in Pieces :
                 InsertBlock(after, piece)
      BY <2>2 DEF InsertBlock, ReplaceSourceRange
    <2>3. CASE \E k \in DOMAIN blocks : DeleteBlock(k)
      BY <2>3 DEF DeleteBlock, ReplaceSourceRange
    <2>4. CASE \E k \in DOMAIN blocks :
                 \E after \in {0} \cup {blocks[j].end : j \in DOMAIN blocks \ {k}} : MoveBlock(k, after)
      BY <2>4 DEF MoveBlock
    <2>5. CASE ReconcileFull
      BY <2>5 DEF ReconcileFull
    <2>6. QED BY <2>1, <2>2, <2>3, <2>4, <2>5 DEF Structural
  <1>2. PICK old, s : Reconciles(old, s)
    BY <1>1
  <1>3. source' = s /\ \E f : Reconciled(old, Parsed(s), f)
    BY <1>2 DEF Reconciles
  <1>4. QED BY <1>3 DEF Reconciled, Named

LEMMA PlacedInvariance ==
  ASSUME DocOK, PlacedOK, [Next]_vars
  PROVE  PlacedOK'
  <1>1. DocOK'
    BY DocumentInvariance
  <1>2. /\ source' \in Seq(Pieces) /\ source \in Seq(Pieces) /\ Len(source) \in Nat
        /\ blocks \in Seq(DocBlocks) /\ InOrder(blocks, Len(source))
        /\ DOMAIN blocks = 1..Len(blocks)
        /\ \A k \in 1..Len(blocks) : /\ blocks[k].start \in 0..Len(source)
                                     /\ blocks[k].end \in blocks[k].start..Len(source)
    <2>1. source' \in Seq(Pieces)
      BY <1>1 DEF DocOK, Document
    <2>2. QED BY <2>1, DocFacts
  <1>3. CASE \E k \in DOMAIN blocks, external \in Externals : Bind(k, external)
    <2>1. PICK k \in 1..Len(blocks), external \in Externals : Bind(k, external)
      BY <1>2, <1>3
    <2>2. blocks' = [blocks EXCEPT ![k].id = external] /\ source' = source /\ external \in AnyIds
      BY <2>1 DEF Bind, AnyIds
    <2> DEFINE cs == [blocks EXCEPT ![k].id = external]
    <2>3. Len(cs) = Len(blocks)
      BY <1>2, <2>2, Rebound
    <2>4. \A j \in 1..Len(blocks) :
            /\ cs[j].kind = blocks[j].kind /\ cs[j].content = blocks[j].content
            /\ cs[j].start = blocks[j].start /\ cs[j].end = blocks[j].end
      BY <1>2, <2>2, Rebound
    <2> HIDE DEF cs
    <2>5. Placed(cs, source)
      BY <2>3, <2>4, SamePlaced DEF PlacedOK
    <2>6. QED BY <2>2, <2>5 DEF PlacedOK, cs
  <1>4. CASE Structural
    BY <1>2, <1>4, StructuralNames, NamedPlaced DEF PlacedOK
  <1>5. CASE Local
    <2>1. PICK k \in 1..Len(blocks), new \in Seq(Pieces) : EditsText(k, new)
      BY <1>5, LocalIs
    <2> DEFINE x == blocks[k].start
               y == blocks[k].end
    <2>2. /\ Suits(blocks[k], new) /\ source' = Spliced(source, x, y, new)
          /\ blocks' = [AllAdjusted(x, y, Len(new)) EXCEPT ![k].content = new]
      BY <2>1 DEF EditsText, EditsInPlace
    <2>3. blocks' = Edited(blocks, k, new)
      BY <1>2, <2>2, InPlaceIs
    <2>4. x \in 0..Len(source) /\ y \in x..Len(source)
      BY <1>2
    <2> HIDE DEF x, y
    <2>5. IsSplice(source', source, x, y, new)
      BY <1>2, <2>2, <2>4, SpliceIs
    <2>6. IsSplice(source', source, blocks[k].start, blocks[k].end, new)
      BY <2>5 DEF x, y
    <2>7. Placed(Edited(blocks, k, new), source')
      BY <1>2, <2>2, <2>6, EditedPlaced DEF PlacedOK
    <2>8. QED BY <2>3, <2>7 DEF PlacedOK
  <1>6. CASE Outputs
    <2>1. UNCHANGED <<source, blocks>>
      BY <1>6 DEF Outputs, Recall, Derive
    <2>2. QED BY <2>1 DEF PlacedOK
  <1>7. CASE \E revisions \in Retentions : SetPolicy(revisions)
    <2>1. UNCHANGED <<source, blocks>>
      BY <1>7 DEF SetPolicy
    <2>2. QED BY <2>1 DEF PlacedOK
  <1>8. CASE UNCHANGED vars
    <2>1. UNCHANGED <<source, blocks>>
      BY <1>8 DEF vars
    <2>2. QED BY <2>1 DEF PlacedOK
  <1>9. QED BY <1>3, <1>4, <1>5, <1>6, <1>7, <1>8 DEF Next

LEMMA PlacedKept == Spec => []PlacedOK
  <1>1. Init => PlacedOK
    BY InitPlaced
  <1>2. DocOK /\ PlacedOK /\ [Next]_vars => PlacedOK'
    BY PlacedInvariance
  <1>3. QED BY <1>1, <1>2, DocumentKept, PTL DEF Spec

-----------------------------------------------------------------------------
(* What becomes of a formula that is the only one of its content *)

Alone(bs, i) ==
  /\ i \in 1..Len(bs) /\ IsFormula(bs[i])
  /\ \A j \in 1..Len(bs) : IsFormula(bs[j]) /\ Hash(bs[j]) = Hash(bs[i]) => j = i

LEMMA OnlyAlone ==
  ASSUME NEW bs \in Seq(DocBlocks), NEW m, GivenOut(bs, m), NEW b \in Formulas(bs), Only(bs, b)
  PROVE  \E i \in 1..Len(bs) : b = bs[i] /\ Alone(bs, i)
  <1>1. PICK i \in 1..Len(bs) : b = bs[i] /\ IsFormula(bs[i])
    BY FormulasAre
  <1>2. ASSUME NEW j \in 1..Len(bs), IsFormula(bs[j]), Hash(bs[j]) = Hash(bs[i])
        PROVE  j = i
    <2>1. bs[j] \in Formulas(bs)
      BY <1>2, FormulasAre
    <2>2. bs[j] = bs[i]
      BY <1>1, <1>2, <2>1 DEF Only
    <2>3. QED BY <2>2 DEF GivenOut
  <1>3. QED BY <1>1, <1>2 DEF Alone

\* Blocks of the same kind, formula or text.
LEMMA SameKind ==
  ASSUME NEW b, NEW c, b.kind = c.kind
  PROVE  IsFormula(b) <=> IsFormula(c)
  BY DEF IsFormula

\* No formula but block k overlaps with b.
StandsApart(b, bs, k) ==
  \A j \in 1..Len(bs) : IsFormula(bs[j]) /\ j # k => ~Overlap(b, bs[j])

(***************************************************************************)
(* The new block of the content of a formula that is alone goes on that    *)
(* formula, unless another new formula overlaps with it.                   *)
(***************************************************************************)
LEMMA AloneGoesOn ==
  ASSUME NEW old \in Seq(DocBlocks), NEW new \in Seq(RawBlocks), NEW f,
         Matches(old, new, f, Len(new)), AllChoose(old, new, f),
         NEW i, Alone(old, i), NEW k, Alone(new, k), Hash(old[i]) = Hash(new[k]),
         StandsApart(old[i], new, k)
  PROVE  f[k] = i
  <1>1. /\ i \in 1..Len(old) /\ k \in 1..Len(new)
        /\ old[i].kind = "formula" /\ new[k].kind = "formula"
    BY DEF Alone, IsFormula
  <1>2. k \in Nat /\ \A j \in 1..(k - 1) : j \in 1..Len(new) /\ j # k
    BY <1>1, LenProperties
  <1>3. CASE \A j \in 1..(k - 1) : f[j] # i
    <2>1. IsLeft(old, f, k, i) /\ IsSame(old[i], new[k])
      BY <1>1, <1>3 DEF IsLeft, IsSame
    <2>2. f[k] \in 1..Len(old) /\ Hash(old[f[k]]) = Hash(new[k])
      BY <1>1, <2>1 DEF AllChoose, Chooses
    <2>3. f[k] # 0
      BY <2>2
    <2>4. IsFormula(old[f[k]])
      BY <1>1, <2>3 DEF Matches, IsFormula
    <2>5. QED BY <2>2, <2>4 DEF Alone
  <1>4. CASE \E j \in 1..(k - 1) : f[j] = i
    <2>1. PICK j \in 1..(k - 1) : f[j] = i
      BY <1>4
    <2>2. j \in 1..Len(new) /\ j # k /\ i # 0
      BY <1>1, <1>2
    <2>3. IsFormula(new[j])
      BY <1>1, <2>1, <2>2 DEF Matches, IsFormula
    <2>4. Accepts(old[i], new[j])
      BY <2>1, <2>2 DEF AllChoose, Chooses
    <2>5. Hash(new[j]) # Hash(new[k])
      BY <2>2, <2>3 DEF Alone
    <2>6. ~Overlap(old[i], new[j])
      BY <2>2, <2>3 DEF StandsApart
    <2>7. QED BY <2>4, <2>5, <2>6 DEF Accepts
  <1>5. QED BY <1>3, <1>4

\* Formulas in the same place of a source are of the same content.
LEMMA SamePlace ==
  ASSUME NEW b, NEW c, NEW s \in Seq(Pieces), IsFormula(b), IsFormula(c),
         IsPlaced(b, s), IsPlaced(c, s), Overlap(b, c)
  PROVE  b.end = c.end /\ Hash(b) = Hash(c)
  <1>1. /\ b.end \in 1..Len(s) /\ b.start = b.end - 1 /\ b.content = <<s[b.end]>>
        /\ c.end \in 1..Len(s) /\ c.start = c.end - 1 /\ c.content = <<s[c.end]>>
    BY DEF IsPlaced
  <1> DEFINE x == b.end
             y == c.end
  <1>2. x \in Int /\ y \in Int /\ x - 1 < y /\ y - 1 < x
    BY <1>1 DEF Overlap
  <1> HIDE DEF x, y
  <1>3. x = y
    BY <1>2
  <1>4. b.end = c.end /\ b.content = c.content
    BY <1>1, <1>3 DEF x, y
  <1>5. QED BY <1>4 DEF Hash

\* A formula that is where it was is not overlapped by others.
LEMMA PlacedStandsApart ==
  ASSUME NEW s \in Seq(Pieces), NEW new, Placed(new, s), NEW k, Alone(new, k),
         NEW b, IsFormula(b), IsPlaced(b, s), Hash(b) = Hash(new[k])
  PROVE  StandsApart(b, new, k)
  <1>1. SUFFICES ASSUME NEW j \in 1..Len(new), IsFormula(new[j]), Overlap(b, new[j])
        PROVE  j = k
    BY DEF StandsApart
  <1>2. IsPlaced(new[j], s)
    BY DEF Placed
  <1>3. Hash(b) = Hash(new[j])
    BY <1>1, <1>2, SamePlace
  <1>4. QED BY <1>1, <1>3 DEF Alone

\* There is no room for more among E.
LEMMA NoRoom ==
  ASSUME NEW E, IsFiniteSet(E), NEW n, n \notin E, NEW f, NEW g,
         \A x \in E \cup {n} : \E j \in E : f[j] = g[x],
         \A x, y \in E \cup {n} : g[x] = g[y] => x = y
  PROVE  FALSE
  <1> DEFINE D == E \cup {n}
             r == [x \in D |-> CHOOSE j \in E : f[j] = g[x]]
  <1>1. IsFiniteSet(D) /\ Cardinality(D) = Cardinality(E) + 1 /\ Cardinality(E) \in Nat
    BY FS_AddElement, FS_CardinalityType
  <1>2. \A x \in D : r[x] \in E /\ f[r[x]] = g[x]
    OBVIOUS
  <1>3. r \in [D -> E]
    BY <1>2
  <1> HIDE DEF r, D
  <1>4. \E x, y \in D : x # y /\ r[x] = r[y]
    <2>1. Cardinality(E) < Cardinality(D)
      BY <1>1
    <2>2. QED BY <1>1, <1>3, <2>1, FS_PigeonHole
  <1>5. PICK x \in D, y \in D : x # y /\ r[x] = r[y]
    BY <1>4
  <1>6. g[x] = g[y]
    BY <1>2, <1>5
  <1>7. QED BY <1>5, <1>6 DEF D

\* As many formulas of every content are in old as in new.
IsIndex(g, old, new) ==
  /\ \A j \in 1..Len(new) : IsFormula(new[j]) => g[j] \in 1..Len(old) /\ IsSame(old[g[j]], new[j])
  /\ \A j, k \in 1..Len(new) : IsFormula(new[j]) /\ IsFormula(new[k]) /\ g[j] = g[k] => j = k

GoesOnSame(old, new, f, k) ==
  IsFormula(new[k]) => f[k] \in 1..Len(old) /\ Hash(old[f[k]]) = Hash(new[k])

LEMMA OneIsLeft ==
  ASSUME NEW old \in Seq(DocBlocks), NEW new \in Seq(RawBlocks), NEW f,
         Matches(old, new, f, Len(new)), NEW g, IsIndex(g, old, new),
         NEW n \in 1..Len(new), IsFormula(new[n]),
         \A j \in 1..(n - 1) : GoesOnSame(old, new, f, j)
  PROVE  \E i : IsLeft(old, f, n, i) /\ IsSame(old[i], new[n])
  <1> DEFINE E == {j \in 1..(n - 1) : IsSame(new[j], new[n])}
  <1>1. Len(new) \in Nat /\ n \in Nat /\ \A j \in 1..(n - 1) : j \in 1..Len(new) /\ j # n
    BY LenProperties
  <1>2. SUFFICES ASSUME \A i \in 1..Len(old) : IsSame(old[i], new[n]) =>
                          \E j \in 1..(n - 1) : f[j] = i
        PROVE  FALSE
    BY DEF IsLeft
  <1>3. IsFiniteSet(E) /\ n \notin E
    <2>1. E \in SUBSET (1..(n - 1)) /\ n \notin E
      BY <1>1
    <2> HIDE DEF E
    <2>2. 1 \in Int /\ n - 1 \in Int
      BY <1>1
    <2>3. IsFiniteSet(1..(n - 1))
      BY <2>2, FS_Interval
    <2>4. IsFiniteSet(E)
      BY <2>1, <2>3, FS_Subset
    <2>5. QED BY <2>1, <2>4
  <1>4. \A x \in E \cup {n} : x \in 1..Len(new) /\ IsFormula(new[x]) /\ IsSame(new[x], new[n])
    BY <1>1 DEF IsSame, IsFormula
  <1>5. ASSUME NEW x \in E \cup {n} PROVE \E j \in E : f[j] = g[x]
    <2>1. x \in 1..Len(new) /\ IsFormula(new[x]) /\ IsSame(new[x], new[n])
      BY <1>4
    <2>2. g[x] \in 1..Len(old) /\ IsSame(old[g[x]], new[x])
      BY <2>1 DEF IsIndex
    <2>3. IsSame(old[g[x]], new[n])
      BY <2>1, <2>2 DEF IsSame
    <2>4. PICK j \in 1..(n - 1) : f[j] = g[x]
      BY <1>2, <2>2, <2>3
    <2>5. f[j] # 0 /\ j \in 1..Len(new)
      BY <1>1, <2>2, <2>4
    <2>6. old[f[j]].kind = new[j].kind
      BY <2>5 DEF Matches
    <2>7. new[j].kind = new[n].kind
      BY <2>3, <2>4, <2>6 DEF IsSame
    <2>8. Hash(old[f[j]]) = Hash(new[j])
      BY <2>7 DEF GoesOnSame, IsFormula
    <2>9. IsSame(new[j], new[n])
      BY <2>3, <2>4, <2>7, <2>8 DEF IsSame
    <2>10. QED BY <2>4, <2>9
  <1>6. \A x, y \in E \cup {n} : g[x] = g[y] => x = y
    BY <1>4 DEF IsIndex
  <1> HIDE DEF E
  <1>7. QED BY <1>3, <1>5, <1>6, NoRoom

\* Then every formula goes on one of its content.
LEMMA AllGoOnSame ==
  ASSUME NEW old \in Seq(DocBlocks), NEW new \in Seq(RawBlocks), NEW f,
         Matches(old, new, f, Len(new)), AllChoose(old, new, f),
         NEW g, IsIndex(g, old, new)
  PROVE  \A k \in 1..Len(new) : GoesOnSame(old, new, f, k)
  <1> DEFINE N == Len(new)
             P == {n \in 0..N : \A k \in 1..n : GoesOnSame(old, new, f, k)}
  <1>1. N \in Nat
    BY LenProperties
  <1>2. 0 \in P
    BY <1>1
  <1>3. ASSUME NEW n \in 1..N, n - 1 \in P PROVE n \in P
    <2>1. \A k \in 1..(n - 1) : GoesOnSame(old, new, f, k)
      BY <1>3
    <2>2. GoesOnSame(old, new, f, n)
      <3>1. SUFFICES ASSUME IsFormula(new[n])
            PROVE  f[n] \in 1..Len(old) /\ Hash(old[f[n]]) = Hash(new[n])
        BY DEF GoesOnSame
      <3>2. \E i : IsLeft(old, f, n, i) /\ IsSame(old[i], new[n])
        BY <2>1, <3>1, OneIsLeft
      <3>3. QED BY <3>2 DEF AllChoose, Chooses
    <2>3. n \in 0..N /\ \A k \in 1..n : k = n \/ k \in 1..(n - 1)
      BY <1>1
    <2>4. QED BY <2>1, <2>2, <2>3
  <1> HIDE DEF P
  <1>4. \A n \in 0..N : n \in P
    BY <1>1, <1>2, <1>3, Induction
  <1>5. N \in P
    BY <1>1, <1>4
  <1>6. QED BY <1>5 DEF P

\* A formula out of the range stays where its text goes.
LEMMA OutsideIsPlaced ==
  ASSUME NEW s \in Seq(Pieces), NEW b \in DocBlocks, IsFormula(b), IsPlaced(b, s),
         NEW from \in 0..Len(s), NEW to \in from..Len(s), NEW new \in Seq(Pieces),
         NEW t, IsSplice(t, s, from, to, new), ~(from < b.end /\ b.start < to)
  PROVE  IsPlaced(Adjusted(b, from, to, Len(new)), t)
  <1> DEFINE n == Len(new)
             L == Len(s)
             c == Adjusted(b, from, to, n)
             x == b.start
             y == b.end
             p == IF y > from /\ x >= to THEN Moved(x, from, to, n) ELSE x
             q == IF y > from THEN Moved(y, from, to, n) ELSE y
  <1>1. L \in Nat /\ n \in Nat
    BY LenProperties
  <1>2. from \in Nat /\ to \in Nat /\ from <= to /\ to <= L
    BY <1>1
  <1>3. y \in 1..L /\ x = y - 1 /\ b.content = <<s[y]>> /\ IsFormula(s[y])
    BY DEF IsPlaced
  <1>4. c = DocBlock(b.id, b.kind, b.content, p, q)
    BY <1>1, <1>2, AdjustedIs
  <1> HIDE DEF c, p, q
  <1>5. c.kind = b.kind /\ c.content = b.content /\ c.start = p /\ c.end = q
    BY <1>4 DEF DocBlock
  <1>6. Len(t) = from + n + (L - to)
    BY DEF IsSplice
  <1>7. \A i \in 1..from : t[i] = s[i]
    BY DEF IsSplice
  <1>8. \A i \in (to + 1)..L : t[from + n + (i - to)] = s[i]
    BY DEF IsSplice
  <1>9. ~(from < y /\ x < to)
    OBVIOUS
  <1> HIDE DEF n, L, x, y
  <1>10. q \in 1..Len(t) /\ p = q - 1 /\ t[q] = s[y]
    <2>1. CASE y <= from
      <3>1. p = x /\ q = y
        BY <1>1, <1>2, <1>3, <2>1 DEF p, q
      <3>2. y \in 1..from /\ y \in 1..Len(t)
        BY <1>1, <1>2, <1>3, <1>6, <2>1
      <3>3. QED BY <1>3, <1>7, <3>1, <3>2
    <2>2. CASE y > from
      <3>1. x >= to /\ x \in Nat /\ y \in Nat
        BY <1>1, <1>2, <1>3, <1>9, <2>2
      <3>2. p = Moved(x, from, to, n) /\ q = Moved(y, from, to, n)
        BY <2>2, <3>1 DEF p, q
      <3> HIDE DEF p, q
      <3>7. ASSUME NEW a \in Nat, a >= to
            PROVE  Moved(a, from, to, n) = a + n - (to - from)
        <4>1. ~(a + n < to - from)
          BY <1>1, <1>2, <3>7
        <4>2. QED BY <1>1, <1>2, <3>7, <4>1 DEF Moved, Minus
      <3>8. y >= to
        BY <1>2, <1>3, <3>1
      <3>3. p = x + n - (to - from) /\ q = y + n - (to - from)
        BY <3>1, <3>2, <3>7, <3>8
      <3>4. p = q - 1 /\ q = from + n + (y - to) /\ y \in (to + 1)..L
        BY <1>1, <1>2, <1>3, <3>1, <3>3
      <3>5. q \in 1..Len(t)
        BY <1>1, <1>2, <1>6, <3>4
      <3>6. QED BY <1>8, <3>4, <3>5
    <2>3. QED BY <1>1, <1>2, <1>3, <2>1, <2>2
  <1>11. c.content = <<t[q]>> /\ IsFormula(t[q])
    BY <1>3, <1>5, <1>10
  <1>12. IsPlaced(c, t)
    BY <1>5, <1>10, <1>11 DEF IsPlaced
  <1>13. QED BY <1>12 DEF c, n

\* The one formula of its content is where its content is.
LEMMA AloneIsAt ==
  ASSUME NEW s \in Seq(Pieces), NEW bs, Placed(bs, s), NEW i, Alone(bs, i),
         NEW e \in 1..Len(s), IsFormula(s[e]), NEW b, b.content = <<s[e]>>, Hash(b) = Hash(bs[i])
  PROVE  bs[i].end = e
  <1>1. PICK j \in 1..Len(bs) : IsFormula(bs[j]) /\ bs[j].end = e
    BY DEF Placed, HasBlock
  <1>2. bs[j].content = b.content
    BY <1>1 DEF Placed, IsPlaced
  <1>3. Hash(bs[j]) = Hash(bs[i])
    BY <1>2 DEF Hash
  <1>4. QED BY <1>1, <1>3 DEF Alone

\* A formula in a range that a single piece, or none, replaces: the content it is alone
\* with can only be that piece.
LEMMA CoveredIsReplaced ==
  ASSUME NEW s \in Seq(Pieces), NEW bs, Placed(bs, s), NEW i, Alone(bs, i),
         NEW from \in 0..Len(s), NEW to \in from..Len(s), NEW new \in Seq(Pieces), Len(new) <= 1,
         NEW t, IsSplice(t, s, from, to, new), from < bs[i].end, bs[i].start < to,
         NEW cs, Placed(cs, t), NEW k \in 1..Len(cs), IsFormula(cs[k]), Hash(bs[i]) = Hash(cs[k])
  PROVE  Len(new) = 1 /\ cs[k].end = from + 1
  <1> DEFINE n == Len(new)
             L == Len(s)
             e == cs[k].end
  <1>1. L \in Nat /\ n \in Nat /\ n <= 1
    BY LenProperties
  <1>2. from \in Nat /\ to \in Nat /\ from <= to /\ to <= L
    BY <1>1
  <1>3. e \in 1..Len(t) /\ cs[k].content = <<t[e]>> /\ IsFormula(t[e])
    BY DEF Placed, IsPlaced
  <1>4. /\ t \in Seq(Pieces) /\ Len(t) = from + n + (L - to)
        /\ \A j \in 1..from : t[j] = s[j]
        /\ \A j \in (to + 1)..L : t[from + n + (j - to)] = s[j]
    BY DEF IsSplice
  <1>5. bs[i].end \in 1..L /\ bs[i].start = bs[i].end - 1
    BY DEF Alone, Placed, IsPlaced
  <1>6. from < bs[i].end /\ bs[i].start < to
    OBVIOUS
  <1> HIDE DEF n, L
  <1>7. ASSUME NEW m \in 1..L, t[e] = s[m] PROVE bs[i].end = m
    <2>1. m \in 1..Len(s)
      BY DEF L
    <2>2. IsFormula(s[m]) /\ cs[k].content = <<s[m]>>
      BY <1>3, <1>7
    <2>3. QED BY <2>1, <2>2, AloneIsAt
  <1> HIDE DEF e
  <1>8. CASE e <= from
    <2>1. e \in 1..from /\ e \in 1..L
      BY <1>2, <1>3, <1>8, <1>1
    <2>2. bs[i].end = e
      BY <1>4, <1>7, <2>1
    <2>3. QED BY <1>2, <1>3, <1>6, <1>8, <2>2
  <1>9. CASE e > from + n
    <2> DEFINE m == to + (e - (from + n))
    <2>1. m \in (to + 1)..L /\ m \in 1..L /\ from + n + (m - to) = e /\ m > to
      <3>1. e \in Nat /\ e <= from + n + (L - to)
        BY <1>1, <1>2, <1>3, <1>4
      <3>2. QED BY <1>1, <1>2, <1>9, <3>1
    <2> HIDE DEF m
    <2>2. bs[i].end = m
      BY <1>4, <1>7, <2>1
    <2>3. QED BY <1>2, <1>5, <1>6, <2>1, <2>2
  <1>10. CASE from < e /\ e <= from + n
    <2>1. n = 1 /\ e = from + 1
      <3>1. e \in Int
        BY <1>3
      <3>2. QED BY <1>1, <1>2, <1>10, <3>1
    <2>2. QED BY <2>1 DEF n, e
  <1>11. e <= from \/ e > from + n \/ (from < e /\ e <= from + n)
    BY <1>1, <1>2, <1>3
  <1>12. QED BY <1>8, <1>9, <1>10, <1>11

\* Then no other formula overlaps with what is left of its span.
LEMMA CoveredStandsApart ==
  ASSUME NEW s \in Seq(Pieces), NEW bs, Placed(bs, s), NEW i, Alone(bs, i), bs[i] \in DocBlocks,
         NEW from \in 0..Len(s), NEW to \in from..Len(s), NEW new \in Seq(Pieces), Len(new) <= 1,
         NEW t, IsSplice(t, s, from, to, new), from < bs[i].end, bs[i].start < to,
         NEW cs, Placed(cs, t), NEW k \in 1..Len(cs), IsFormula(cs[k]), Hash(bs[i]) = Hash(cs[k])
  PROVE  StandsApart(Adjusted(bs[i], from, to, Len(new)), cs, k)
  <1> DEFINE n == Len(new)
             L == Len(s)
             b == bs[i]
             x == b.start
             y == b.end
             q == Moved(y, from, to, n)
             c == Adjusted(b, from, to, n)
  <1>1. n = 1 /\ cs[k].end = from + 1
    BY CoveredIsReplaced
  <1>2. L \in Nat
    BY LenProperties
  <1>3. from \in Nat /\ to \in Nat /\ from <= to /\ to <= L
    BY <1>2
  <1>4. y \in 1..L /\ x = y - 1 /\ from < y /\ x < to
    BY DEF Alone, Placed, IsPlaced
  <1>5. c = DocBlock(b.id, b.kind, b.content,
                     IF y > from /\ x >= to THEN Moved(x, from, to, n) ELSE x,
                     IF y > from THEN q ELSE y)
    BY <1>1, <1>3, AdjustedIs
  <1> HIDE DEF x, y, c, q, n, L, b
  <1>6. c.start = x /\ c.end = q
    <2>1. y > from /\ ~(x >= to)
      BY <1>3, <1>4
    <2>2. QED BY <1>5, <2>1 DEF DocBlock
  <1>7. q \in Nat /\ q <= from + 1
    BY <1>1, <1>2, <1>3, <1>4 DEF q, Moved, Minus
  <1>8. SUFFICES ASSUME NEW j \in 1..Len(cs), IsFormula(cs[j]), Overlap(c, cs[j])
        PROVE  j = k
    BY DEF StandsApart, c, n, b
  <1>9. cs[j].end \in Nat /\ cs[j].start = cs[j].end - 1
    BY <1>8 DEF Placed, IsPlaced
  <1>10. x < cs[j].end /\ cs[j].start < q
    BY <1>6, <1>8 DEF Overlap
  <1>11. cs[j].end = from + 1
    BY <1>2, <1>3, <1>4, <1>7, <1>9, <1>10
  <1>12. QED BY <1>1, <1>8, <1>11 DEF Placed

\* The old block that a formula goes on if both are alone with their content.
KeepsAlone(old, new, f) ==
  \A i, k : Alone(old, i) /\ Alone(new, k) /\ Hash(old[i]) = Hash(new[k]) => f[k] = i

LEMMA OutdatedAlone ==
  ASSUME DocOK, NEW old, Outdated(old), NEW i
  PROVE  /\ Alone(blocks, i) <=> Alone(old, i)
         /\ i \in 1..Len(blocks) => Hash(old[i]) = Hash(blocks[i])
  <1>1. \A j \in 1..Len(blocks) : Hash(old[j]) = Hash(blocks[j])
    BY DEF Outdated, Hash
  <1>2. \A j \in 1..Len(blocks) : IsFormula(old[j]) <=> IsFormula(blocks[j])
    BY DEF Outdated, IsFormula
  <1>3. Len(old) = Len(blocks)
    BY DEF Outdated
  <1>4. QED BY <1>1, <1>2, <1>3 DEF Alone

LEMMA FullKeeps ==
  ASSUME DocOK, PlacedOK
  PROVE  KeepsAlone(blocks, Parsed(source), Matched(blocks, Parsed(source)))
  <1> DEFINE new == Parsed(source)
             f == Matched(blocks, new)
  <1>1. source \in Seq(Pieces) /\ blocks \in Seq(DocBlocks)
    BY DocFacts
  <1>2. new \in Seq(RawBlocks) /\ Placed(new, source)
    BY <1>1, ParsedLength, ParsedPlaced
  <1> HIDE DEF new
  <1>3. Matches(blocks, new, f, Len(new)) /\ AllChoose(blocks, new, f)
    BY <1>1, <1>2, MatchedIs
  <1> HIDE DEF f
  <1>4. ASSUME NEW i, NEW k, Alone(blocks, i), Alone(new, k), Hash(blocks[i]) = Hash(new[k])
        PROVE  f[k] = i
    <2>1. IsFormula(blocks[i]) /\ IsPlaced(blocks[i], source)
      BY <1>4 DEF Alone, PlacedOK, Placed
    <2>2. StandsApart(blocks[i], new, k)
      BY <1>1, <1>2, <1>4, <2>1, PlacedStandsApart
    <2>3. QED BY <1>1, <1>2, <1>3, <1>4, <2>2, AloneGoesOn
  <1>5. QED BY <1>4 DEF KeepsAlone, f, new

\* An edit of a range, for formulas out of it and for those a single piece replaces.
LEMMA RangeKeeps ==
  ASSUME DocOK, PlacedOK, NEW from \in 0..Len(source), NEW to \in from..Len(source),
         NEW new \in Seq(Pieces), NEW t, IsSplice(t, source, from, to, new),
         NEW old, old = AllAdjusted(from, to, Len(new)),
         NEW i, Alone(old, i), NEW k, Alone(Parsed(t), k), Hash(old[i]) = Hash(Parsed(t)[k]),
         ~(from < blocks[i].end /\ blocks[i].start < to /\ Len(new) > 1)
  PROVE  Matched(old, Parsed(t))[k] = i
  <1> DEFINE cs == Parsed(t)
             f == Matched(old, cs)
             n == Len(new)
             b == blocks[i]
  <1>1. /\ source \in Seq(Pieces) /\ blocks \in Seq(DocBlocks) /\ DOMAIN blocks = 1..Len(blocks)
        /\ from \in Nat /\ to \in Nat /\ from <= to /\ n \in Nat
    <2>1. Len(source) \in Nat
      BY DocFacts
    <2>2. QED BY <2>1, DocFacts, LenProperties
  <1>2. t \in Seq(Pieces)
    BY DEF IsSplice
  <1>3. cs \in Seq(RawBlocks) /\ Placed(cs, t)
    BY <1>2, ParsedLength, ParsedPlaced
  <1>4. Alone(cs, k) /\ Hash(old[i]) = Hash(cs[k])
    OBVIOUS
  <1> HIDE DEF cs, n
  <1>5. Outdated(old)
    BY <1>1, AdjustedOutdated DEF n
  <1>6. old \in Seq(DocBlocks)
    BY <1>5 DEF Outdated
  <1>7. Matches(old, cs, f, Len(cs)) /\ AllChoose(old, cs, f)
    BY <1>3, <1>6, MatchedIs
  <1> HIDE DEF f
  <1>8. Alone(blocks, i)
    BY <1>5, OutdatedAlone
  <1>9. i \in 1..Len(blocks) /\ IsFormula(b) /\ IsPlaced(b, source)
    BY <1>8 DEF Alone, PlacedOK, Placed
  <1>10. b \in DocBlocks
    BY <1>1, <1>9, ElementOfSeq
  <1>11. old[i] = Adjusted(b, from, to, n) /\ Hash(old[i]) = Hash(b)
    <2>1. old[i] = Adjusted(b, from, to, n)
      BY <1>1, <1>9 DEF AllAdjusted, n
    <2>2. QED BY <1>5, <1>9, <2>1, OutdatedAlone
  <1>12. ~(from < b.end /\ b.start < to /\ n > 1)
    BY DEF n
  <1> HIDE DEF b
  <1>13. StandsApart(old[i], cs, k)
    <2>1. CASE ~(from < b.end /\ b.start < to)
      <3>1. IsPlaced(Adjusted(b, from, to, n), t)
        BY <1>1, <1>9, <1>10, <2>1, OutsideIsPlaced DEF n
      <3>2. IsPlaced(old[i], t) /\ IsFormula(old[i])
        BY <1>11, <3>1 DEF Alone
      <3>3. QED BY <1>2, <1>3, <1>4, <3>2, PlacedStandsApart
    <2>2. CASE from < b.end /\ b.start < to
      <3>1. n <= 1
        BY <1>1, <1>12, <2>2
      <3>2. /\ Placed(blocks, source) /\ k \in 1..Len(cs) /\ IsFormula(cs[k])
            /\ Hash(b) = Hash(cs[k])
        BY <1>4, <1>11 DEF Alone, PlacedOK
      <3>3. StandsApart(Adjusted(blocks[i], from, to, Len(new)), cs, k)
        BY <1>1, <1>3, <1>8, <1>10, <2>2, <3>1, <3>2, CoveredStandsApart DEF n, b
      <3>4. QED BY <1>11, <3>3 DEF n, b
    <2>3. QED BY <2>1, <2>2
  <1>14. f[k] = i
    BY <1>3, <1>4, <1>6, <1>7, <1>13, AloneGoesOn
  <1>15. QED BY <1>14 DEF f, cs

\* If as many formulas of every content were there before.
LEMMA IndexKeeps ==
  ASSUME NEW old \in Seq(DocBlocks), NEW new \in Seq(RawBlocks), NEW g, IsIndex(g, old, new)
  PROVE  KeepsAlone(old, new, Matched(old, new))
  <1> DEFINE f == Matched(old, new)
  <1>1. Matches(old, new, f, Len(new)) /\ AllChoose(old, new, f)
    BY MatchedIs
  <1> HIDE DEF f
  <1>2. \A k \in 1..Len(new) : GoesOnSame(old, new, f, k)
    BY <1>1, AllGoOnSame
  <1>3. ASSUME NEW i, NEW k, Alone(old, i), Alone(new, k), Hash(old[i]) = Hash(new[k])
        PROVE  f[k] = i
    <2>1. k \in 1..Len(new) /\ IsFormula(new[k])
      BY <1>3 DEF Alone
    <2>2. f[k] \in 1..Len(old) /\ Hash(old[f[k]]) = Hash(new[k])
      BY <1>2, <2>1 DEF GoesOnSame
    <2>3. f[k] # 0
      BY <2>2
    <2>4. IsFormula(old[f[k]])
      BY <1>1, <2>1, <2>3 DEF Matches, IsFormula
    <2>5. QED BY <1>3, <2>2, <2>4 DEF Alone
  <1>4. QED BY <1>3 DEF KeepsAlone, f

\* The pieces of t are pieces of s, each of them at most once.
IsShuffle(p, t, s) ==
  /\ \A e \in 1..Len(t) : p[e] \in 1..Len(s) /\ t[e] = s[p[e]]
  /\ \A d, e \in 1..Len(t) : p[d] = p[e] => d = e

LEMMA ShuffleIndex ==
  ASSUME NEW s \in Seq(Pieces), NEW t \in Seq(Pieces), NEW p, IsShuffle(p, t, s),
         NEW bs, Placed(bs, s), NEW cs, Placed(cs, t)
  PROVE  \E g : IsIndex(g, bs, cs)
  <1> DEFINE At(i, e) == i \in 1..Len(bs) /\ IsFormula(bs[i]) /\ bs[i].end = e
             g == [j \in 1..Len(cs) |-> CHOOSE i : At(i, p[cs[j].end])]
  <1>1. ASSUME NEW j \in 1..Len(cs), IsFormula(cs[j])
        PROVE  cs[j].end \in 1..Len(t) /\ At(g[j], p[cs[j].end]) /\ IsSame(bs[g[j]], cs[j])
    <2> DEFINE e == cs[j].end
               i == g[j]
    <2>1. e \in 1..Len(t) /\ cs[j].content = <<t[e]>> /\ IsFormula(t[e])
      BY <1>1 DEF Placed, IsPlaced
    <2>2. p[e] \in 1..Len(s) /\ t[e] = s[p[e]]
      BY <2>1 DEF IsShuffle
    <2>3. \E m : At(m, p[e])
      BY <2>1, <2>2 DEF Placed, HasBlock
    <2>4. At(i, p[e])
      <3> HIDE DEF At
      <3>1. QED BY <2>3
    <2> HIDE DEF e, g, i
    <2>5. bs[i].content = <<s[p[e]]>>
      BY <2>4 DEF Placed, IsPlaced
    <2>6. bs[i].content = cs[j].content
      BY <2>1, <2>2, <2>5
    <2>7. bs[i].kind = cs[j].kind
      BY <1>1, <2>4 DEF IsFormula
    <2>8. IsSame(bs[i], cs[j])
      BY <2>6, <2>7 DEF IsSame, Hash
    <2>9. QED BY <2>1, <2>4, <2>8 DEF e, i
  <1> HIDE DEF g
  <1>2. ASSUME NEW j \in 1..Len(cs), NEW k \in 1..Len(cs), IsFormula(cs[j]), IsFormula(cs[k]),
               g[j] = g[k]
        PROVE  j = k
    <2>1. p[cs[j].end] = p[cs[k].end] /\ cs[j].end \in 1..Len(t) /\ cs[k].end \in 1..Len(t)
      BY <1>1, <1>2
    <2>2. cs[j].end = cs[k].end
      BY <2>1 DEF IsShuffle
    <2>3. QED BY <1>2, <2>2 DEF Placed
  <1>3. IsIndex(g, bs, cs)
    BY <1>1, <1>2 DEF IsIndex
  <1>4. QED BY <1>3

\* A text that is cut out and put somewhere else shuffles the source.
LEMMA MoveShuffles ==
  ASSUME NEW s \in Seq(Pieces), NEW x \in 0..Len(s), NEW y \in x..Len(s),
         NEW rest, IsSplice(rest, s, x, y, <<>>),
         NEW at \in 0..Len(rest), NEW t, IsSplice(t, rest, at, at, SubSeq(s, x + 1, y))
  PROVE  \E p : IsShuffle(p, t, s)
  <1> DEFINE cut == SubSeq(s, x + 1, y)
             L == Len(s)
             R == Len(rest)
             N == Len(t)
             m == y - x
             q(i) == IF i <= x THEN i ELSE i + m
             p == [e \in 1..N |-> IF e <= at THEN q(e) ELSE IF e <= at + m THEN x + (e - at)
                                  ELSE q(e - m)]
  <1>1. L \in Nat /\ x \in Nat /\ y \in Nat /\ x <= y /\ y <= L /\ m \in Nat
    <2>1. L \in Nat
      BY LenProperties
    <2>2. QED BY <2>1
  <1>2. Len(cut) = m /\ \A i \in 1..m : cut[i] = s[x + i]
    <2>1. x + 1 \in 1..(Len(s) + 1) /\ y \in ((x + 1) - 1)..Len(s)
      BY <1>1
    <2>2. cut \in Seq(Pieces) /\ Len(cut) = y - (x + 1) + 1
      BY <1>1, <2>1, Part
    <2>3. \A i \in 1..(y - (x + 1) + 1) : cut[i] = s[(x + 1) + i - 1]
      BY <1>1, <2>1, Part
    <2> HIDE DEF cut
    <2>4. y - (x + 1) + 1 = m /\ \A i \in 1..m : (x + 1) + i - 1 = x + i
      BY <1>1
    <2>5. QED BY <2>2, <2>3, <2>4
  <1>3. R = L - m /\ \A i \in 1..R : rest[i] = s[q(i)]
    <2> DEFINE none == <<>>
    <2>1. Len(none) = 0
      OBVIOUS
    <2>2. Len(rest) = x + Len(none) + (Len(s) - y)
      BY DEF IsSplice
    <2>3. \A i \in 1..x : rest[i] = s[i]
      BY DEF IsSplice
    <2>4. \A i \in (y + 1)..Len(s) : rest[x + Len(none) + (i - y)] = s[i]
      BY DEF IsSplice
    <2> HIDE DEF none
    <2>5. R = L - m
      BY <1>1, <2>1, <2>2
    <2>6. ASSUME NEW i \in 1..R PROVE rest[i] = s[q(i)]
      <3>1. CASE i <= x
        <4>1. i \in 1..x
          BY <1>1, <3>1
        <4>2. QED BY <2>3, <3>1, <4>1
      <3>2. CASE ~(i <= x)
        <4>1. i + m \in (y + 1)..L /\ x + Len(none) + ((i + m) - y) = i
          BY <1>1, <2>1, <2>5, <3>2
        <4>2. rest[x + Len(none) + ((i + m) - y)] = s[i + m]
          BY <2>4, <4>1
        <4>3. QED BY <3>2, <4>1, <4>2
      <3>3. QED BY <3>1, <3>2
    <2>7. QED BY <2>5, <2>6
  <1>4. /\ Len(t) = at + m + (R - at)
        /\ \A i \in 1..at : t[i] = rest[i]
        /\ \A i \in 1..m : t[at + i] = cut[i]
        /\ \A i \in (at + 1)..R : t[at + m + (i - at)] = rest[i]
    <2> HIDE DEF cut
    <2>1. IsSplice(t, rest, at, at, cut)
      BY DEF cut
    <2>2. QED BY <1>2, <2>1 DEF IsSplice
  <1> HIDE DEF cut, R, L, m
  <1>5. R \in Nat /\ at \in Nat /\ at <= R /\ R = L - m /\ x + m <= L /\ N = R + m /\ x <= R
        /\ m \in Nat /\ L \in Nat
    <2>1. R = L - m /\ m = y - x /\ m \in Nat
      BY <1>1, <1>3 DEF m
    <2>2. at \in 0..R
      BY DEF R
    <2>3. N = at + m + (R - at)
      BY <1>4
    <2> HIDE DEF N
    <2>4. QED BY <1>1, <2>1, <2>2, <2>3
  <1> HIDE DEF N
  <1>6. ASSUME NEW e \in 1..N PROVE p[e] \in 1..L /\ t[e] = s[p[e]]
    <2>1. CASE e <= at
      <3>1. e \in 1..at /\ e \in 1..R /\ p[e] = q(e)
        BY <1>5, <2>1
      <3>2. t[e] = s[q(e)]
        BY <1>3, <1>4, <3>1
      <3>3. q(e) \in 1..L
        BY <1>1, <1>5, <3>1
      <3>4. QED BY <3>1, <3>2, <3>3
    <2>2. CASE ~(e <= at) /\ e <= at + m
      <3> DEFINE i == e - at
      <3>1. i \in 1..m /\ at + i = e
        BY <1>5, <2>2
      <3>2. p[e] = x + i
        BY <2>2
      <3> HIDE DEF i, p
      <3>3. t[e] = s[x + i]
        BY <1>2, <1>4, <3>1
      <3>4. x + i \in 1..L
        BY <1>1, <1>5, <3>1
      <3>5. QED BY <3>2, <3>3, <3>4
    <2>3. CASE ~(e <= at) /\ ~(e <= at + m)
      <3> DEFINE i == e - m
      <3>1. i \in (at + 1)..R /\ i \in 1..R /\ at + m + (i - at) = e
        BY <1>5, <2>3
      <3>2. p[e] = q(i)
        BY <2>3
      <3> HIDE DEF i, p
      <3>3. t[e] = s[q(i)]
        BY <1>3, <1>4, <3>1
      <3>4. q(i) \in 1..L
        BY <1>1, <1>5, <3>1
      <3>5. QED BY <3>2, <3>3, <3>4
    <2>4. QED BY <2>1, <2>2, <2>3
  <1>7. ASSUME NEW d \in 1..N, NEW e \in 1..N, p[d] = p[e] PROVE d = e
    <2>1. /\ d \in Int /\ e \in Int /\ x \in Int /\ m \in Int /\ at \in Int /\ 0 <= m
      BY <1>1, <1>5
    <2>2. (IF d <= at THEN q(d) ELSE IF d <= at + m THEN x + (d - at) ELSE q(d - m))
            = (IF e <= at THEN q(e) ELSE IF e <= at + m THEN x + (e - at) ELSE q(e - m))
      BY <1>7
    <2> HIDE DEF p
    <2>3. QED BY <2>1, <2>2
  <1> HIDE DEF p
  <1>8. IsShuffle(p, t, s)
    BY <1>6, <1>7 DEF IsShuffle, L, N
  <1>9. QED BY <1>8

LEMMA MoveKeeps ==
  ASSUME DocOK, PlacedOK, NEW k \in DOMAIN blocks,
         NEW after \in {0} \cup {blocks[j].end : j \in DOMAIN blocks \ {k}}, MoveBlock(k, after)
  PROVE  \E t \in Seq(Pieces) :
            Reconciles(blocks, t) /\ KeepsAlone(blocks, Parsed(t), Matched(blocks, Parsed(t)))
  <1> DEFINE x == blocks[k].start
             y == blocks[k].end
             at == PutAt(k, after)
             cut == SubSeq(source, x + 1, y)
             none == <<>>
             rest == Spliced(source, x, y, none)
             t == Spliced(rest, at, at, cut)
  <1>1. /\ source \in Seq(Pieces) /\ blocks \in Seq(DocBlocks) /\ Len(source) \in Nat
        /\ x \in 0..Len(source) /\ y \in x..Len(source) /\ at \in 0..(Len(source) - (y - x))
    BY DocFacts, MoveTo
  <1>2. Reconciles(blocks, t)
    BY DEF MoveBlock, PutAt
  <1>3. none \in Seq(Pieces) /\ Len(none) = 0
    OBVIOUS
  <1> HIDE DEF none, x, y, at
  <1>4. IsSplice(rest, source, x, y, none)
    BY <1>1, <1>3, SpliceIs
  <1> HIDE DEF rest
  <1>5. rest \in Seq(Pieces) /\ at \in 0..Len(rest) /\ at \in at..Len(rest)
    <2>1. rest \in Seq(Pieces) /\ Len(rest) = x + Len(none) + (Len(source) - y)
      BY <1>4 DEF IsSplice
    <2>2. x \in Nat /\ y \in Nat
      BY <1>1
    <2>3. at \in 0..Len(rest)
      BY <1>1, <1>3, <2>1, <2>2
    <2>4. QED BY <2>1, <2>3
  <1>6. cut \in Seq(Pieces)
    <2>1. x + 1 \in 1..(Len(source) + 1) /\ y \in ((x + 1) - 1)..Len(source)
      BY <1>1
    <2>2. QED BY <1>1, <2>1, Part
  <1> HIDE DEF cut
  <1>7. IsSplice(t, rest, at, at, cut)
    BY <1>5, <1>6, SpliceIs
  <1> HIDE DEF t
  <1>8. t \in Seq(Pieces)
    BY <1>7 DEF IsSplice
  <1>9. PICK p : IsShuffle(p, t, source)
    <2>1. IsSplice(rest, source, x, y, <<>>) /\ IsSplice(t, rest, at, at, SubSeq(source, x + 1, y))
      BY <1>4, <1>7 DEF none, cut
    <2>2. QED BY <1>1, <1>5, <2>1, MoveShuffles
  <1>10. Parsed(t) \in Seq(RawBlocks) /\ Placed(Parsed(t), t)
    BY <1>8, ParsedLength, ParsedPlaced
  <1>11. PICK g : IsIndex(g, blocks, Parsed(t))
    BY <1>1, <1>8, <1>9, <1>10, ShuffleIndex DEF PlacedOK
  <1>12. KeepsAlone(blocks, Parsed(t), Matched(blocks, Parsed(t)))
    BY <1>1, <1>10, <1>11, IndexKeeps
  <1>13. QED BY <1>2, <1>8, <1>12

\* A formula alone with its content before and after a step.
IsUnique(b, c) ==
  /\ b \in Formulas(blocks) /\ c \in Formulas(blocks') /\ Hash(b) = Hash(c)
  /\ Only(blocks, b) /\ Only(blocks', c)

\* By a new parse it keeps its identity if the new block goes on the old one.
KeptIfMatched(old, t, b, c) ==
  \E i, k : /\ b = blocks[i] /\ Alone(old, i) /\ Alone(Parsed(t), k)
            /\ Hash(old[i]) = Hash(Parsed(t)[k])
            /\ Matched(old, Parsed(t))[k] = i => b.id = c.id

LEMMA UniqueGoesOn ==
  ASSUME DocOK, DocOK', NEW old, Outdated(old), NEW t \in Seq(Pieces), Reconciles(old, t),
         NEW b, NEW c, IsUnique(b, c)
  PROVE  KeptIfMatched(old, t, b, c)
  <1> DEFINE new == Parsed(t)
             f == Matched(old, new)
             ids == [k \in DOMAIN new |-> NewId(old, f, k)]
  <1>1. /\ blocks \in Seq(DocBlocks) /\ GivenOut(blocks, bound)
        /\ blocks' \in Seq(DocBlocks) /\ GivenOut(blocks', bound')
    <2>1. blocks' \in Seq(DocBlocks) /\ GivenOut(blocks', bound')
      BY DEF DocOK, Document
    <2>2. QED BY <2>1, DocFacts
  <1>2. PICK i \in 1..Len(blocks) : b = blocks[i] /\ Alone(blocks, i)
    BY <1>1, OnlyAlone DEF IsUnique
  <1>3. PICK k \in 1..Len(blocks') : c = blocks'[k] /\ Alone(blocks', k)
    <2>1. \E k \in 1..Len(blocks') : c = blocks'[k] /\ Alone(blocks', k)
      BY <1>1, OnlyAlone DEF IsUnique
    <2>2. QED BY <2>1
  <1>4. new \in Seq(RawBlocks) /\ DOMAIN new = 1..Len(new)
    BY ParsedLength
  <1>5. blocks' = [j \in DOMAIN new |-> Identified(new[j], NewId(old, f, j))]
    BY DEF Reconciles, Reconciled, NewId
  <1> HIDE DEF new, f
  <1>6. Len(blocks') = Len(new)
    <2>1. DOMAIN blocks' = 1..Len(new) /\ Len(new) \in Nat
      BY <1>4, <1>5, LenProperties
    <2>2. DOMAIN blocks' = 1..Len(blocks') /\ Len(blocks') \in Nat
      BY <1>1, LenProperties
    <2>3. QED BY <2>1, <2>2
  <1>7. \A j \in 1..Len(new) :
          /\ blocks'[j].kind = new[j].kind /\ blocks'[j].content = new[j].content
          /\ blocks'[j].id = NewId(old, f, j)
    BY <1>4, <1>5 DEF Identified
  <1>8. \A j \in 1..Len(new) : /\ IsFormula(blocks'[j]) <=> IsFormula(new[j])
                               /\ Hash(blocks'[j]) = Hash(new[j])
    BY <1>7 DEF IsFormula, Hash
  <1>9. Alone(new, k)
    BY <1>3, <1>6, <1>8 DEF Alone
  <1>10. Alone(old, i) /\ Hash(old[i]) = Hash(b)
    BY <1>2, OutdatedAlone
  <1>11. Hash(old[i]) = Hash(new[k])
    BY <1>3, <1>6, <1>8, <1>10 DEF IsUnique
  <1>12. ASSUME f[k] = i PROVE b.id = c.id
    <2>1. i # 0 /\ k \in 1..Len(new)
      BY <1>2, <1>3, <1>6
    <2>2. c.id = NewId(old, f, k)
      BY <1>3, <1>7, <2>1
    <2>3. NewId(old, f, k) = old[i].id
      BY <1>12, <2>1 DEF NewId
    <2>4. old[i].id = blocks[i].id
      BY <1>2 DEF Outdated
    <2>5. QED BY <1>2, <2>2, <2>3, <2>4
  <1>13. QED BY <1>2, <1>9, <1>10, <1>11, <1>12 DEF KeptIfMatched, f, new

LEMMA RangeIdentity ==
  ASSUME DocOK, DocOK', PlacedOK, NEW from \in 0..Len(source), NEW to \in from..Len(source),
         NEW new \in Seq(Pieces), ReplaceSourceRange(from, to, new),
         NEW b, NEW c, IsUnique(b, c), b.id # c.id
  PROVE  from < b.end /\ b.start < to /\ Len(new) > 1
  <1> DEFINE t == Spliced(source, from, to, new)
             old == AllAdjusted(from, to, Len(new))
  <1>1. source \in Seq(Pieces) /\ from \in Nat /\ to \in Nat /\ from <= to /\ Len(new) \in Nat
    <2>1. Len(source) \in Nat
      BY DocFacts
    <2>2. QED BY <2>1, DocFacts, LenProperties
  <1>2. Reconciles(old, t)
    BY DEF ReplaceSourceRange
  <1>3. IsSplice(t, source, from, to, new)
    BY <1>1, SpliceIs
  <1>4. Outdated(old)
    BY <1>1, AdjustedOutdated
  <1>5. old = AllAdjusted(from, to, Len(new))
    OBVIOUS
  <1> HIDE DEF t, old
  <1>6. t \in Seq(Pieces)
    BY <1>3 DEF IsSplice
  <1>7. PICK i, k : /\ b = blocks[i] /\ Alone(old, i) /\ Alone(Parsed(t), k)
                    /\ Hash(old[i]) = Hash(Parsed(t)[k])
                    /\ Matched(old, Parsed(t))[k] = i => b.id = c.id
    <2>1. KeptIfMatched(old, t, b, c)
      BY <1>2, <1>4, <1>6, UniqueGoesOn
    <2>2. QED BY <2>1 DEF KeptIfMatched
  <1>8. SUFFICES ASSUME ~(from < blocks[i].end /\ blocks[i].start < to /\ Len(new) > 1)
        PROVE  FALSE
    BY <1>7
  <1>9. Matched(old, Parsed(t))[k] = i
    BY <1>3, <1>5, <1>7, <1>8, RangeKeeps
  <1>10. QED BY <1>7, <1>9

\* An edit that keeps every formula that is alone on its old block.
LEMMA KeepsIdentity ==
  ASSUME DocOK, DocOK', NEW t \in Seq(Pieces), Reconciles(blocks, t),
         KeepsAlone(blocks, Parsed(t), Matched(blocks, Parsed(t))),
         NEW b, NEW c, IsUnique(b, c)
  PROVE  b.id = c.id
  <1>1. PICK i, k : /\ b = blocks[i] /\ Alone(blocks, i) /\ Alone(Parsed(t), k)
                    /\ Hash(blocks[i]) = Hash(Parsed(t)[k])
                    /\ Matched(blocks, Parsed(t))[k] = i => b.id = c.id
    <2>1. KeptIfMatched(blocks, t, b, c)
      BY PresentOutdated, UniqueGoesOn
    <2>2. QED BY <2>1 DEF KeptIfMatched
  <1>2. QED BY <1>1 DEF KeepsAlone

\* An edit in place changes one block, which keeps its identity.
LEMMA LocalIdentity ==
  ASSUME DocOK, DocOK', NEW k \in 1..Len(blocks), NEW new \in Seq(Pieces), EditsText(k, new),
         NEW b, NEW c, IsUnique(b, c)
  PROVE  b.id = c.id
  <1> DEFINE es == Edited(blocks, k, new)
  <1>1. /\ blocks \in Seq(DocBlocks) /\ GivenOut(blocks, bound) /\ Len(source) \in Nat
        /\ InOrder(blocks, Len(source))
        /\ blocks' \in Seq(DocBlocks) /\ GivenOut(blocks', bound')
    <2>1. blocks' \in Seq(DocBlocks) /\ GivenOut(blocks', bound')
      BY DEF DocOK, Document
    <2>2. QED BY <2>1, DocFacts
  <1>2. blocks' = es
    <2>1. blocks' = [AllAdjusted(blocks[k].start, blocks[k].end, Len(new)) EXCEPT ![k].content = new]
      BY DEF EditsText, EditsInPlace
    <2>2. QED BY <1>1, <2>1, InPlaceIs
  <1>3. es \in Seq(DocBlocks) /\ Len(es) = Len(blocks)
    BY <1>1, EditedType
  <1>4. \A j \in 1..Len(blocks) :
          /\ es[j].id = blocks[j].id /\ es[j].kind = blocks[j].kind
          /\ j # k => es[j].content = blocks[j].content
    BY DEF Edited, DocBlock
  <1> HIDE DEF es
  <1>5. PICK i \in 1..Len(blocks) : b = blocks[i] /\ Alone(blocks, i)
    BY <1>1, OnlyAlone DEF IsUnique
  <1>6. PICK j \in 1..Len(es) : c = es[j] /\ Alone(es, j)
    <2>1. \E j \in 1..Len(blocks') : c = blocks'[j] /\ Alone(blocks', j)
      BY <1>1, OnlyAlone DEF IsUnique
    <2>2. QED BY <1>2, <2>1
  <1>7. Hash(blocks[i]) = Hash(es[j])
    BY <1>5, <1>6 DEF IsUnique
  <1>8. CASE j # k
    <2>1. IsFormula(blocks[j]) /\ Hash(blocks[j]) = Hash(blocks[i])
      BY <1>3, <1>4, <1>6, <1>7, <1>8 DEF Alone, IsFormula, Hash
    <2>2. j = i
      BY <1>3, <1>5, <2>1 DEF Alone
    <2>3. QED BY <1>4, <1>5, <1>6, <2>2
  <1>9. CASE j = k /\ i # k
    <2>1. IsFormula(es[i]) /\ Hash(es[i]) = Hash(es[j])
      BY <1>4, <1>5, <1>7, <1>9 DEF Alone, IsFormula, Hash
    <2>2. i = j
      BY <1>3, <1>6, <2>1 DEF Alone
    <2>3. QED BY <1>9, <2>2
  <1>10. CASE j = k /\ i = k
    BY <1>4, <1>5, <1>6, <1>10
  <1>11. QED BY <1>8, <1>9, <1>10

\* A range that covers the formula is replaced by several pieces.
Scattered(b) ==
  \E from \in Positions : \E to \in from..Len(source), new \in Replacements :
     /\ from < b.end /\ b.start < to /\ Len(new) > 1
     /\ ReplaceSourceRange(from, to, new)

LEMMA StructuralIdentity ==
  ASSUME DocOK, DocOK', PlacedOK, Structural, NEW b, NEW c, IsUnique(b, c), b.id # c.id
  PROVE  Scattered(b)
  <1>1. /\ source \in Seq(Pieces) /\ Len(source) \in Nat /\ DOMAIN blocks = 1..Len(blocks)
        /\ \A k \in 1..Len(blocks) : /\ blocks[k].start \in 0..Len(source)
                                     /\ blocks[k].end \in blocks[k].start..Len(source)
    BY DocFacts
  <1>2. ASSUME NEW from \in Positions, NEW to \in from..Len(source), NEW new \in Replacements,
               ReplaceSourceRange(from, to, new)
        PROVE  Scattered(b)
    <2>1. new \in Seq(Pieces)
      BY BoundsCount, BoundedSeqs DEF Replacements
    <2>2. from < b.end /\ b.start < to /\ Len(new) > 1
      BY <1>2, <2>1, RangeIdentity DEF Positions
    <2>3. QED BY <1>2, <2>2 DEF Scattered
  <1>3. ASSUME NEW after \in {0} \cup {d.end : d \in Range(blocks)}, NEW piece \in Pieces,
               InsertBlock(after, piece)
        PROVE  FALSE
    <2> DEFINE new == <<piece>>
    <2>1. after \in 0..Len(source)
      <3>1. SUFFICES ASSUME after # 0 PROVE after \in 0..Len(source)
        BY <1>1
      <3>2. PICK k \in 1..Len(blocks) : after = blocks[k].end
        BY <1>1, <3>1 DEF Range
      <3> DEFINE p == blocks[k].start
      <3>3. p \in 0..Len(source) /\ after \in p..Len(source)
        BY <1>1, <3>2
      <3> HIDE DEF p
      <3>4. QED BY <1>1, <3>3
    <2>2. after \in after..Len(source) /\ new \in Seq(Pieces) /\ Len(new) = 1
      BY <1>1, <2>1
    <2>3. ReplaceSourceRange(after, after, new)
      BY <1>3 DEF InsertBlock
    <2> HIDE DEF new
    <2>4. Len(new) > 1
      BY <2>1, <2>2, <2>3, RangeIdentity
    <2>5. QED BY <2>2, <2>4
  <1>4. ASSUME NEW k \in DOMAIN blocks, DeleteBlock(k)
        PROVE  FALSE
    <2> DEFINE none == <<>>
               x == blocks[k].start
               y == blocks[k].end
    <2>1. none \in Seq(Pieces) /\ Len(none) = 0 /\ ReplaceSourceRange(x, y, none)
      BY <1>4 DEF DeleteBlock
    <2>2. x \in 0..Len(source) /\ y \in x..Len(source)
      BY <1>1
    <2> HIDE DEF none, x, y
    <2>3. Len(none) > 1
      BY <2>1, <2>2, RangeIdentity
    <2>4. QED BY <2>1, <2>3
  <1>5. ASSUME NEW k \in DOMAIN blocks,
               NEW after \in {0} \cup {blocks[j].end : j \in DOMAIN blocks \ {k}},
               MoveBlock(k, after)
        PROVE  FALSE
    <2>1. PICK t \in Seq(Pieces) :
            Reconciles(blocks, t) /\ KeepsAlone(blocks, Parsed(t), Matched(blocks, Parsed(t)))
      BY <1>5, MoveKeeps
    <2>2. QED BY <2>1, KeepsIdentity
  <1>6. ASSUME ReconcileFull
        PROVE  FALSE
    <2>1. Reconciles(blocks, source)
      BY <1>6 DEF ReconcileFull
    <2>2. QED BY <1>1, <2>1, FullKeeps, KeepsIdentity
  <1>7. QED BY <1>2, <1>3, <1>4, <1>5, <1>6 DEF Structural

(***************************************************************************)
(* A formula that is the only one of its content before and after an edit  *)
(* keeps its identity, whatever was edited, moved or taken out around it   *)
(* and whatever the scores of the other blocks: a new block takes an old   *)
(* one of another content only if they overlap, and no other formula       *)
(* overlaps with the span of this one.  Only a range that covers it and is *)
(* replaced by several pieces can give its identity to another formula.    *)
(***************************************************************************)
THEOREM IdentitiesKept == Spec => UniqueKeepIdentity
  <1>1. DocOK /\ PlacedOK /\ [Next]_vars =>
          [revision' # revision =>
             \A b \in Formulas(blocks), c \in Formulas(blocks') :
                Hash(b) = Hash(c) /\ Only(blocks, b) /\ Only(blocks', c) /\ b.id # c.id =>
                  \E from \in Positions : \E to \in from..Len(source), new \in Replacements :
                     /\ from < b.end /\ b.start < to /\ Len(new) > 1
                     /\ ReplaceSourceRange(from, to, new)]_vars
    <2>1. SUFFICES ASSUME DocOK, PlacedOK, [Next]_vars, revision' # revision,
                          NEW b, NEW c, IsUnique(b, c), b.id # c.id
          PROVE  Scattered(b)
      BY DEF IsUnique, Scattered
    <2>2. DocOK'
      BY <2>1, DocumentInvariance
    <2>3. Structural \/ Local
      BY <2>1 DEF Next, Bind, Outputs, Recall, Derive, SetPolicy, vars
    <2>4. CASE Structural
      BY <2>1, <2>2, <2>4, StructuralIdentity
    <2>5. CASE Local
      <3>1. PICK k \in 1..Len(blocks), new \in Seq(Pieces) : EditsText(k, new)
        BY <2>1, <2>5, LocalIs
      <3>2. QED BY <2>1, <2>2, <3>1, LocalIdentity
    <2>6. QED BY <2>3, <2>4, <2>5
  <1>2. QED BY <1>1, DocumentKept, PlacedKept, PTL DEF Spec, UniqueKeepIdentity
=============================================================================
