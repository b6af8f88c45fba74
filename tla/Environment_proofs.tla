------------------------- MODULE Environment_proofs -------------------------
(***************************************************************************)
(* Theorems about Environment for any keys, values and numbers of rows:    *)
(* what the editor shows and what a process gets is what was saved.  What  *)
(* Escape and Unescape do to a value of any length is proved character by  *)
(* character, by the least length at which it would not hold.              *)
(***************************************************************************)
EXTENDS Environment, FiniteSetTheorems, SequenceTheorems, WellFoundedInduction, TLAPS

-----------------------------------------------------------------------------
(* Least numbers                                                           *)

LEMMA LeastOf ==
  ASSUME NEW S \in SUBSET Nat, S # {}
  PROVE  \E n \in S : \A m \in S : n <= m
<1>1. IsWellFoundedOn(OpToRel(<, Nat), Nat)
  BY NatLessThanWellFounded
<1>2. PICK n \in S : \A m \in S : <<m, n>> \notin OpToRel(<, Nat)
  BY <1>1, WFMin
<1>3. \A m \in S : ~(m < n)
  BY <1>2 DEF OpToRel
<1> QED BY <1>3

-----------------------------------------------------------------------------
(* FlattenSeq                                                              *)

\* f[i] is the concatenation of the first i sequences of s, up to the n-th.
FlattensTo(s, n, f) == f = [i \in 1..n |-> IF i = 1 THEN s[i] ELSE f[i - 1] \o s[i]]
Flattens(s, f) == FlattensTo(s, Len(s), f)

LEMMA FlattensType ==
  ASSUME NEW T, NEW s \in Seq(Seq(T)), NEW f, Flattens(s, f)
  PROVE  \A i \in 1..Len(s) : f[i] \in Seq(T)
<1> DEFINE Bad == {i \in 1..Len(s) : f[i] \notin Seq(T)}
<1>1. SUFFICES ASSUME Bad # {} PROVE FALSE
  OBVIOUS
<1>2. PICK i \in Bad : \A j \in Bad : i <= j
  <2>1. Bad \in SUBSET Nat
    OBVIOUS
  <2> HIDE DEF Bad
  <2> QED BY <1>1, <2>1, LeastOf
<1>3. f[i] = IF i = 1 THEN s[i] ELSE f[i - 1] \o s[i]
  BY DEF Flattens, FlattensTo
<1>4. CASE i = 1
  BY <1>3, <1>4
<1>5. CASE i # 1
  <2>1. i - 1 \in 1..Len(s) /\ i - 1 < i
    BY <1>5
  <2>2. f[i - 1] \in Seq(T)
    BY <1>2, <2>1
  <2>3. s[i] \in Seq(T)
    OBVIOUS
  <2>4. f[i] = f[i - 1] \o s[i]
    BY <1>3, <1>5
  <2>5. f[i - 1] \o s[i] \in Seq(T)
    BY <2>2, <2>3, ConcatProperties
  <2> QED BY <2>4, <2>5
<1> QED BY <1>4, <1>5

LEMMA FlattensOnce ==
  ASSUME NEW s, Len(s) \in Nat, NEW f, Flattens(s, f), NEW g, Flattens(s, g)
  PROVE  f = g
<1> DEFINE Bad == {i \in 1..Len(s) : f[i] # g[i]}
<1>1. Bad = {}
  <2>1. SUFFICES ASSUME Bad # {} PROVE FALSE
    OBVIOUS
  <2>2. PICK i \in Bad : \A j \in Bad : i <= j
    <3>1. Bad \in SUBSET Nat
      OBVIOUS
    <3> HIDE DEF Bad
    <3> QED BY <2>1, <3>1, LeastOf
  <2>3. /\ f[i] = IF i = 1 THEN s[i] ELSE f[i - 1] \o s[i]
        /\ g[i] = IF i = 1 THEN s[i] ELSE g[i - 1] \o s[i]
    BY DEF Flattens, FlattensTo
  <2>4. i # 1 => i - 1 \in 1..Len(s) /\ i - 1 < i
    OBVIOUS
  <2>5. i # 1 => f[i - 1] = g[i - 1]
    BY <2>2, <2>4
  <2> QED BY <2>3, <2>5
<1>2. f = [i \in 1..Len(s) |-> f[i]] /\ g = [i \in 1..Len(s) |-> g[i]]
  BY DEF Flattens, FlattensTo
<1>3. \A i \in 1..Len(s) : f[i] = g[i]
  BY <1>1
<1> QED BY <1>2, <1>3

LEMMA FlattensExists ==
  ASSUME NEW s, Len(s) \in Nat
  PROVE  \E f : Flattens(s, f)
<1> DEFINE Bad == {n \in 0..Len(s) : ~\E f : FlattensTo(s, n, f)}
<1>1. SUFFICES ASSUME Bad # {} PROVE FALSE
  BY DEF Flattens
<1>2. PICK n \in Bad : \A m \in Bad : n <= m
  <2>1. Bad \in SUBSET Nat
    OBVIOUS
  <2> HIDE DEF Bad
  <2> QED BY <1>1, <2>1, LeastOf
<1>3. CASE n = 0
  <2>1. FlattensTo(s, 0, [i \in 1..0 |-> 0])
    <3>1. \A i \in 1..0 : FALSE
      OBVIOUS
    <3> QED BY <3>1 DEF FlattensTo
  <2> QED BY <1>3, <2>1
<1>4. CASE n # 0
  <2>1. n - 1 \in 0..Len(s) /\ n - 1 < n /\ n \in Nat
    BY <1>4
  <2>2. n - 1 \notin Bad
    <3> HIDE DEF Bad
    <3>1. n - 1 \in Nat /\ n \in Nat /\ ~(n <= n - 1)
      BY <2>1
    <3> QED BY <1>2, <3>1
  <2>3. PICK g : FlattensTo(s, n - 1, g)
    BY <2>1, <2>2
  <2> DEFINE f == [i \in 1..n |-> IF i = 1 THEN s[i] ELSE g[i - 1] \o s[i]]
  <2>4. \A i \in 1..(n - 1) : f[i] = g[i]
    <3> TAKE i \in 1..(n - 1)
    <3>1. i \in 1..n
      BY <2>1
    <3>2. f[i] = IF i = 1 THEN s[i] ELSE g[i - 1] \o s[i]
      BY <3>1
    <3>3. g[i] = IF i = 1 THEN s[i] ELSE g[i - 1] \o s[i]
      BY <2>3 DEF FlattensTo
    <3> QED BY <3>2, <3>3
  <2>5. FlattensTo(s, n, f)
    <3>1. \A i \in 1..n : i # 1 => i - 1 \in 1..(n - 1)
      BY <2>1
    <3>2. \A i \in 1..n : f[i] = IF i = 1 THEN s[i] ELSE g[i - 1] \o s[i]
      OBVIOUS
    <3>3. f = [i \in 1..n |-> f[i]]
      OBVIOUS
    <3> HIDE DEF f
    <3>4. \A i \in 1..n : f[i] = IF i = 1 THEN s[i] ELSE f[i - 1] \o s[i]
      BY <2>4, <3>1, <3>2
    <3> QED BY <3>3, <3>4 DEF FlattensTo
  <2> QED BY <2>5
<1> QED BY <1>3, <1>4

LEMMA FlattenIs ==
  ASSUME NEW s, Len(s) \in Nat, Len(s) # 0, NEW f, Flattens(s, f)
  PROVE  FlattenSeq(s) = f[Len(s)]
<1> DEFINE g == CHOOSE h : h = [i \in 1..Len(s) |-> IF i = 1 THEN s[i] ELSE h[i - 1] \o s[i]]
<1>1. FlattenSeq(s) = g[Len(s)]
  BY DEF FlattenSeq
<1>2. Flattens(s, g)
  BY DEF Flattens, FlattensTo
<1> QED BY <1>1, <1>2, FlattensOnce

LEMMA FlattenEmpty == FlattenSeq(<<>>) = <<>>
BY DEF FlattenSeq

LEMMA FlattenAppend ==
  ASSUME NEW T, NEW s \in Seq(Seq(T)), NEW x \in Seq(T)
  PROVE  /\ FlattenSeq(s) \in Seq(T)
         /\ FlattenSeq(Append(s, x)) = FlattenSeq(s) \o x
<1> DEFINE t == Append(s, x)
           k == Len(s)
<1>1. k \in Nat /\ t \in Seq(Seq(T)) /\ Len(t) = k + 1 /\ t[k + 1] = x /\ \A i \in 1..k : t[i] = s[i]
  OBVIOUS
<1>2. PICK f : Flattens(s, f)
  <2>1. Len(s) \in Nat
    BY <1>1
  <2> QED BY <2>1, FlattensExists
<1>3. PICK g : Flattens(t, g)
  <2>1. Len(t) \in Nat
    BY <1>1
  <2> HIDE DEF t
  <2> QED BY <2>1, FlattensExists
<1> HIDE DEF t
<1>4. FlattenSeq(t) = g[k + 1]
  BY <1>1, <1>3, FlattenIs
<1>5. CASE k = 0
  <2>1. s = <<>> /\ FlattenSeq(s) = <<>>
    BY <1>5, FlattenEmpty
  <2>2. g[1] = x
    BY <1>1, <1>3, <1>5 DEF Flattens, FlattensTo
  <2>3. <<>> \o x = x /\ <<>> \in Seq(T) /\ 0 + 1 = 1
    OBVIOUS
  <2> QED BY <1>4, <1>5, <2>1, <2>2, <2>3 DEF t
<1>6. CASE k # 0
  <2>1. FlattenSeq(s) = f[k] /\ f[k] \in Seq(T)
    BY <1>1, <1>2, <1>6, FlattenIs, FlattensType
  <2> DEFINE h == [i \in 1..k |-> g[i]]
  <2>2. Flattens(s, h)
    <3>1. \A i \in 1..k : g[i] = IF i = 1 THEN s[i] ELSE g[i - 1] \o s[i]
      <4> TAKE i \in 1..k
      <4>1. i \in 1..Len(t) /\ t[i] = s[i]
        BY <1>1
      <4> QED BY <1>3, <4>1 DEF Flattens, FlattensTo
    <3>2. \A i \in 1..k : i # 1 => h[i - 1] = g[i - 1]
      BY <1>1
    <3>3. \A i \in 1..k : h[i] = IF i = 1 THEN s[i] ELSE h[i - 1] \o s[i]
      BY <3>1, <3>2
    <3>4. h = [i \in 1..k |-> h[i]]
      OBVIOUS
    <3> HIDE DEF h
    <3> QED BY <3>3, <3>4 DEF Flattens, FlattensTo
  <2>3. g[k] = f[k]
    <3>1. h[k] = g[k]
      BY <1>1, <1>6
    <3> HIDE DEF h
    <3> QED BY <1>1, <1>2, <2>2, <3>1, FlattensOnce
  <2>4. g[k + 1] = g[k] \o x
    <3>1. k + 1 \in 1..Len(t) /\ k + 1 # 1 /\ (k + 1) - 1 = k
      BY <1>1, <1>6
    <3> QED BY <1>1, <1>3, <3>1 DEF Flattens, FlattensTo
  <2> QED BY <1>4, <2>1, <2>3, <2>4 DEF t
<1> QED BY <1>5, <1>6

-----------------------------------------------------------------------------
(* Replaced                                                                *)

PairAt(v, c, n) ==
  /\ n \in 1..(Len(v) - 1) /\ v[n] = "bs" /\ v[n + 1] = c
  /\ c = "bs" => Before(v, n) % 2 = 0
PieceAt(v, c, by, n) ==
  IF PairAt(v, c, n) THEN <<by>> ELSE IF PairAt(v, c, n - 1) THEN <<>> ELSE <<v[n]>>
Pieces(v, c, by) == [n \in DOMAIN v |-> PieceAt(v, c, by, n)]

LEMMA ReplacedIs ==
  ASSUME NEW v, NEW c, NEW by
  PROVE  Replaced(v, c, by) = FlattenSeq(Pieces(v, c, by))
BY DEF Replaced, Pieces, PieceAt, PairAt

LEMMA PiecesType ==
  ASSUME NEW T, NEW v \in Seq(T), NEW c, NEW by \in T
  PROVE  /\ Pieces(v, c, by) \in Seq(Seq(T)) /\ Len(Pieces(v, c, by)) = Len(v)
         /\ DOMAIN Pieces(v, c, by) = 1..Len(v)
         /\ \A n \in 1..Len(v) : Pieces(v, c, by)[n] = PieceAt(v, c, by, n)
<1> DEFINE p == Pieces(v, c, by)
<1>1. Len(v) \in Nat /\ DOMAIN v = 1..Len(v)
  OBVIOUS
<1>2. p = [n \in 1..Len(v) |-> PieceAt(v, c, by, n)]
  BY <1>1 DEF Pieces
<1>3. \A n \in 1..Len(v) : PieceAt(v, c, by, n) \in Seq(T)
  BY DEF PieceAt
<1> HIDE DEF p
<1> QED BY <1>1, <1>2, <1>3 DEF p

\* A character that ends no pair stands for itself.
LEMMA ReplacedPlain ==
  ASSUME NEW T, NEW w \in Seq(T), NEW x \in T, NEW c, c # "bs", NEW by \in T,
         w # <<>> => ~(w[Len(w)] = "bs" /\ x = c)
  PROVE  /\ Replaced(w, c, by) \in Seq(T)
         /\ Replaced(Append(w, x), c, by) = Append(Replaced(w, c, by), x)
<1> DEFINE v == Append(w, x)
           k == Len(w)
<1>1. k \in Nat /\ v \in Seq(T) /\ Len(v) = k + 1 /\ v[k + 1] = x /\ \A n \in 1..k : v[n] = w[n]
  OBVIOUS
<1>2. k # 0 => ~(w[k] = "bs" /\ x = c)
  OBVIOUS
<1> HIDE DEF v
<1>3. \A n \in 1..k : PairAt(v, c, n) <=> PairAt(w, c, n)
  <2> TAKE n \in 1..k
  <2>1. CASE n = k
    BY <1>1, <1>2, <2>1 DEF PairAt
  <2>2. CASE n # k
    <3>1. n \in 1..(k - 1) /\ n \in 1..(Len(v) - 1) /\ n + 1 \in 1..k
      BY <1>1, <2>2
    <3>2. v[n] = w[n] /\ v[n + 1] = w[n + 1]
      BY <1>1, <3>1
    <3> QED BY <3>1, <3>2 DEF PairAt
  <2> QED BY <2>1, <2>2
<1>4. \A n \in 1..k : PieceAt(v, c, by, n) = PieceAt(w, c, by, n)
  <2> TAKE n \in 1..k
  <2>1. PairAt(v, c, n - 1) <=> PairAt(w, c, n - 1)
    <3>1. CASE n = 1
      BY <3>1 DEF PairAt
    <3>2. CASE n # 1
      <4>1. n - 1 \in 1..k
        BY <1>1, <3>2
      <4> QED BY <1>3, <4>1
    <3> QED BY <3>1, <3>2
  <2> QED BY <1>1, <1>3, <2>1 DEF PieceAt
<1>5. PieceAt(v, c, by, k + 1) = <<x>>
  <2>1. ~PairAt(v, c, k + 1)
    BY <1>1 DEF PairAt
  <2>2. ~PairAt(v, c, (k + 1) - 1)
    <3>1. (k + 1) - 1 = k
      BY <1>1
    <3>2. ~PairAt(w, c, k)
      BY <1>1 DEF PairAt
    <3>3. k # 0 => ~PairAt(v, c, k)
      BY <1>1, <1>3, <3>2
    <3>4. ~PairAt(v, c, 0)
      BY DEF PairAt
    <3> QED BY <3>1, <3>3, <3>4
  <2> QED BY <1>1, <2>1, <2>2 DEF PieceAt
<1> DEFINE p == Pieces(w, c, by)
           q == Pieces(v, c, by)
<1>6. /\ p \in Seq(Seq(T)) /\ Len(p) = k /\ \A n \in 1..k : p[n] = PieceAt(w, c, by, n)
      /\ q \in Seq(Seq(T)) /\ Len(q) = k + 1 /\ \A n \in 1..(k + 1) : q[n] = PieceAt(v, c, by, n)
  BY <1>1, PiecesType
<1> HIDE DEF p, q
<1>7. q = Append(p, <<x>>)
  <2>1. \A n \in 1..k : q[n] = p[n]
    BY <1>1, <1>4, <1>6
  <2>2. q[k + 1] = <<x>>
    BY <1>1, <1>5, <1>6
  <2> QED BY <1>1, <1>6, <2>1, <2>2
<1>8. /\ FlattenSeq(p) \in Seq(T) /\ FlattenSeq(q) = FlattenSeq(p) \o <<x>>
  <2>1. <<x>> \in Seq(T)
    OBVIOUS
  <2> QED BY <1>6, <1>7, <2>1, FlattenAppend
<1>9. Replaced(w, c, by) = FlattenSeq(p) /\ Replaced(v, c, by) = FlattenSeq(q)
  BY ReplacedIs DEF p, q
<1>10. FlattenSeq(p) \o <<x>> = Append(FlattenSeq(p), x)
  BY <1>8
<1> QED BY <1>8, <1>9, <1>10 DEF v

\* A pair is replaced by what it stands for.
LEMMA ReplacedPair ==
  ASSUME NEW T, NEW w \in Seq(T), NEW c \in T, c # "bs", "bs" \in T, NEW by \in T
  PROVE  /\ Replaced(w, c, by) \in Seq(T)
         /\ Replaced(Append(Append(w, "bs"), c), c, by) = Append(Replaced(w, c, by), by)
<1> DEFINE v == Append(Append(w, "bs"), c)
           k == Len(w)
<1>1. /\ k \in Nat /\ v \in Seq(T) /\ Len(v) = k + 2 /\ v[k + 1] = "bs" /\ v[k + 2] = c
      /\ \A n \in 1..k : v[n] = w[n]
  OBVIOUS
<1> HIDE DEF v
<1>2. \A n \in 1..k : PairAt(v, c, n) <=> PairAt(w, c, n)
  <2> TAKE n \in 1..k
  <2>1. CASE n = k
    BY <1>1, <2>1 DEF PairAt
  <2>2. CASE n # k
    <3>1. n \in 1..(k - 1) /\ n \in 1..(Len(v) - 1) /\ n + 1 \in 1..k
      BY <1>1, <2>2
    <3>2. v[n] = w[n] /\ v[n + 1] = w[n + 1]
      BY <1>1, <3>1
    <3> QED BY <3>1, <3>2 DEF PairAt
  <2> QED BY <2>1, <2>2
<1>3. \A n \in 1..k : PieceAt(v, c, by, n) = PieceAt(w, c, by, n)
  <2> TAKE n \in 1..k
  <2>1. PairAt(v, c, n - 1) <=> PairAt(w, c, n - 1)
    <3>1. CASE n = 1
      BY <3>1 DEF PairAt
    <3>2. CASE n # 1
      <4>1. n - 1 \in 1..k
        BY <1>1, <3>2
      <4> QED BY <1>2, <4>1
    <3> QED BY <3>1, <3>2
  <2> QED BY <1>1, <1>2, <2>1 DEF PieceAt
<1>4. PairAt(v, c, k + 1)
  <2>1. k + 1 \in 1..(Len(v) - 1) /\ (k + 1) + 1 = k + 2
    BY <1>1
  <2> QED BY <1>1, <2>1 DEF PairAt
<1>5. ~PairAt(v, c, k + 2) /\ (k + 2) - 1 = k + 1
  BY <1>1 DEF PairAt
<1>6. PieceAt(v, c, by, k + 1) = <<by>> /\ PieceAt(v, c, by, k + 2) = <<>>
  BY <1>4, <1>5 DEF PieceAt
<1> DEFINE p == Pieces(w, c, by)
           q == Pieces(v, c, by)
<1>7. /\ p \in Seq(Seq(T)) /\ Len(p) = k /\ \A n \in 1..k : p[n] = PieceAt(w, c, by, n)
      /\ q \in Seq(Seq(T)) /\ Len(q) = k + 2 /\ \A n \in 1..(k + 2) : q[n] = PieceAt(v, c, by, n)
  <2>1. /\ q \in Seq(Seq(T)) /\ Len(q) = Len(v) /\ \A n \in 1..Len(v) : q[n] = PieceAt(v, c, by, n)
    BY <1>1, PiecesType
  <2>2. p \in Seq(Seq(T)) /\ Len(p) = k /\ \A n \in 1..k : p[n] = PieceAt(w, c, by, n)
    BY PiecesType
  <2> HIDE DEF p, q
  <2> QED BY <1>1, <2>1, <2>2
<1> HIDE DEF p, q
<1>8. q = Append(Append(p, <<by>>), <<>>)
  <2>0. k + 1 \in 1..(k + 2) /\ k + 2 \in 1..(k + 2) /\ \A n \in 1..k : n \in 1..(k + 2)
    BY <1>1
  <2>1. \A n \in 1..k : q[n] = p[n]
    BY <1>3, <1>7, <2>0
  <2>2. q[k + 1] = <<by>> /\ q[k + 2] = <<>>
    BY <1>6, <1>7, <2>0
  <2>3. <<by>> \in Seq(T) /\ <<>> \in Seq(T)
    OBVIOUS
  <2> DEFINE u == Append(Append(p, <<by>>), <<>>)
  <2>4. /\ u \in Seq(Seq(T)) /\ Len(u) = k + 2 /\ u[k + 1] = <<by>> /\ u[k + 2] = <<>>
        /\ \A n \in 1..k : u[n] = p[n]
    BY <1>7, <2>3
  <2> HIDE DEF u
  <2>5. \A n \in 1..(k + 2) : n \in 1..k \/ n = k + 1 \/ n = k + 2
    BY <1>1
  <2>6. \A n \in 1..(k + 2) : q[n] = u[n]
    BY <2>1, <2>2, <2>4, <2>5
  <2>7. q = u
    BY <1>7, <2>4, <2>6
  <2> QED BY <2>7 DEF u
<1>9. Append(p, <<by>>) \in Seq(Seq(T)) /\ <<by>> \in Seq(T) /\ <<>> \in Seq(T)
  BY <1>7
<1>10. /\ FlattenSeq(p) \in Seq(T) /\ FlattenSeq(Append(p, <<by>>)) = FlattenSeq(p) \o <<by>>
  BY <1>7, <1>9, FlattenAppend
<1>11. FlattenSeq(q) = FlattenSeq(Append(p, <<by>>)) \o <<>>
  BY <1>8, <1>9, FlattenAppend
<1>12. (FlattenSeq(p) \o <<by>>) \o <<>> = Append(FlattenSeq(p), by)
  BY <1>10
<1>13. Replaced(w, c, by) = FlattenSeq(p) /\ Replaced(v, c, by) = FlattenSeq(q)
  BY ReplacedIs DEF p, q
<1> QED BY <1>10, <1>11, <1>12, <1>13 DEF v

-----------------------------------------------------------------------------
(* Escape and Unescape                                                     *)

\* A value is read from its first characters on.
LEMMA CharByChar ==
  ASSUME NEW T, NEW v \in Seq(T)
  PROVE  /\ SubSeq(v, 1, 0) = <<>> /\ SubSeq(v, 1, Len(v)) = v /\ Len(v) \in Nat
         /\ \A n \in 1..Len(v) : /\ SubSeq(v, 1, n - 1) \in Seq(T) /\ v[n] \in T
                                 /\ SubSeq(v, 1, n) = Append(SubSeq(v, 1, n - 1), v[n])
<1>1. SubSeq(v, 1, 0) = <<>> /\ SubSeq(v, 1, Len(v)) = v /\ Len(v) \in Nat
  OBVIOUS
<1>2. ASSUME NEW n \in 1..Len(v)
      PROVE  /\ SubSeq(v, 1, n - 1) \in Seq(T) /\ v[n] \in T
             /\ SubSeq(v, 1, n) = Append(SubSeq(v, 1, n - 1), v[n])
  <2>1. n - 1 \in 0..Len(v) /\ n \in Nat
    OBVIOUS
  <2>2. v[n] \in T
    OBVIOUS
  <2> DEFINE a == SubSeq(v, 1, n)
             b == SubSeq(v, 1, n - 1)
  <2>3. a \in Seq(T) /\ Len(a) = n /\ \A i \in 1..n : a[i] = v[i]
    OBVIOUS
  <2>4. b \in Seq(T) /\ Len(b) = n - 1 /\ \A i \in 1..(n - 1) : b[i] = v[i]
    BY <2>1
  <2> HIDE DEF a, b
  <2>5. a = Append(b, v[n])
    BY <2>1, <2>2, <2>3, <2>4
  <2> QED BY <2>2, <2>4, <2>5 DEF a, b
<1> QED BY <1>1, <1>2

\* What stands between the quotes, and what the first replacement leaves of it.
Quoted(v) == FlattenSeq([n \in DOMAIN v |-> Escaped(v[n])])
HalfRead(c) == IF c = "dq" THEN <<"bs", "dq">> ELSE <<c>>
Half(v) == FlattenSeq([n \in DOMAIN v |-> HalfRead(v[n])])
Singles(v) == FlattenSeq([n \in DOMAIN v |-> <<v[n]>>])

LEMMA EscapedType ==
  ASSUME NEW T, {"bs", "dq", "n"} \subseteq T, NEW c \in T
  PROVE  /\ Escaped(c) \in Seq(T) /\ HalfRead(c) \in Seq(T) /\ <<c>> \in Seq(T)
         /\ c = "dq" => Escaped(c) = <<"bs", "dq">> /\ HalfRead(c) = <<"bs", "dq">>
         /\ c = "nl" => Escaped(c) = <<"bs", "n">> /\ HalfRead(c) = <<"nl">>
         /\ c \notin {"bs", "dq", "nl"} => Escaped(c) = <<c>> /\ HalfRead(c) = <<c>>
<1>1. CASE c = "bs"
  BY <1>1 DEF Escaped, HalfRead
<1>2. CASE c = "dq"
  BY <1>2 DEF Escaped, HalfRead
<1>3. CASE c = "nl"
  BY <1>3 DEF Escaped, HalfRead
<1>4. CASE c \notin {"bs", "dq", "nl"}
  BY <1>4 DEF Escaped, HalfRead
<1> QED BY <1>1, <1>2, <1>3, <1>4

\* Each of them grows by what stands for one character.
LEMMA QuotedAppend ==
  ASSUME NEW T, {"bs", "dq", "n"} \subseteq T, NEW u \in Seq(T), NEW c \in T
  PROVE  /\ Quoted(u) \in Seq(T) /\ Quoted(Append(u, c)) = Quoted(u) \o Escaped(c)
         /\ Half(u) \in Seq(T) /\ Half(Append(u, c)) = Half(u) \o HalfRead(c)
         /\ Singles(u) \in Seq(T) /\ Singles(Append(u, c)) = Singles(u) \o <<c>>
<1> DEFINE v == Append(u, c)
           k == Len(u)
<1>1. k \in Nat /\ DOMAIN u = 1..k /\ DOMAIN v = 1..(k + 1) /\ v[k + 1] = c /\ \A n \in 1..k : v[n] = u[n]
  OBVIOUS
<1>2. /\ \A n \in 1..k : u[n] \in T
      /\ \A x \in T : Escaped(x) \in Seq(T) /\ HalfRead(x) \in Seq(T)
  BY EscapedType
<1>9. \A n \in 1..(k + 1) : v[n] \in T
  OBVIOUS
<1> HIDE DEF v
<1>3. ASSUME NEW p, NEW q, NEW x \in Seq(T), p \in [1..k -> Seq(T)], q \in [1..(k + 1) -> Seq(T)],
             \A n \in 1..k : q[n] = p[n], q[k + 1] = x
      PROVE  FlattenSeq(p) \in Seq(T) /\ FlattenSeq(q) = FlattenSeq(p) \o x
  <2>1. p \in Seq(Seq(T)) /\ Len(p) = k
    BY <1>1, <1>3
  <2>2. q \in Seq(Seq(T)) /\ Len(q) = k + 1
    BY <1>1, <1>3
  <2>3. q = Append(p, x)
    BY <1>1, <1>3, <2>1, <2>2
  <2> QED BY <2>1, <2>3, FlattenAppend
<1>4. Quoted(u) \in Seq(T) /\ Quoted(v) = Quoted(u) \o Escaped(c)
  <2> DEFINE p == [n \in DOMAIN u |-> Escaped(u[n])]
             q == [n \in DOMAIN v |-> Escaped(v[n])]
  <2>1. p \in [1..k -> Seq(T)] /\ q \in [1..(k + 1) -> Seq(T)] /\ Escaped(c) \in Seq(T)
    BY <1>1, <1>2, <1>9
  <2>2. (\A n \in 1..k : q[n] = p[n]) /\ q[k + 1] = Escaped(c)
    BY <1>1
  <2> HIDE DEF p, q
  <2>3. FlattenSeq(p) \in Seq(T) /\ FlattenSeq(q) = FlattenSeq(p) \o Escaped(c)
    BY <1>3, <2>1, <2>2
  <2> QED BY <2>3 DEF Quoted, p, q
<1>5. Half(u) \in Seq(T) /\ Half(v) = Half(u) \o HalfRead(c)
  <2> DEFINE p == [n \in DOMAIN u |-> HalfRead(u[n])]
             q == [n \in DOMAIN v |-> HalfRead(v[n])]
  <2>1. p \in [1..k -> Seq(T)] /\ q \in [1..(k + 1) -> Seq(T)] /\ HalfRead(c) \in Seq(T)
    BY <1>1, <1>2, <1>9
  <2>2. (\A n \in 1..k : q[n] = p[n]) /\ q[k + 1] = HalfRead(c)
    BY <1>1
  <2> HIDE DEF p, q
  <2>3. FlattenSeq(p) \in Seq(T) /\ FlattenSeq(q) = FlattenSeq(p) \o HalfRead(c)
    BY <1>3, <2>1, <2>2
  <2> QED BY <2>3 DEF Half, p, q
<1>6. Singles(u) \in Seq(T) /\ Singles(v) = Singles(u) \o <<c>>
  <2> DEFINE p == [n \in DOMAIN u |-> <<u[n]>>]
             q == [n \in DOMAIN v |-> <<v[n]>>]
  <2>1. p \in [1..k -> Seq(T)] /\ q \in [1..(k + 1) -> Seq(T)] /\ <<c>> \in Seq(T)
    BY <1>1, <1>2, <1>9
  <2>2. (\A n \in 1..k : q[n] = p[n]) /\ q[k + 1] = <<c>>
    BY <1>1
  <2> HIDE DEF p, q
  <2>3. FlattenSeq(p) \in Seq(T) /\ FlattenSeq(q) = FlattenSeq(p) \o <<c>>
    BY <1>3, <2>1, <2>2
  <2> QED BY <2>3 DEF Singles, p, q
<1> QED BY <1>4, <1>5, <1>6 DEF v

\* A quoted value is read back, in the three replacements of unescapeValue; a line feed
\* and a quote end with the character that was escaped, so that the next one is read anew.
EndsNoPair(w) == w # <<>> => w[Len(w)] # "bs"
ReadBack(v) ==
  /\ Replaced(Quoted(v), "n", "nl") = Half(v) /\ Replaced(Half(v), "dq", "dq") = v
  /\ EndsNoPair(Quoted(v)) /\ EndsNoPair(Half(v)) /\ Singles(v) = v

LEMMA ReadBackNothing == ReadBack(<<>>)
<1>1. Quoted(<<>>) = <<>> /\ Half(<<>>) = <<>> /\ Singles(<<>>) = <<>>
  BY FlattenEmpty DEF Quoted, Half, Singles
<1>2. ASSUME NEW c, NEW by PROVE Replaced(<<>>, c, by) = <<>>
  <2>1. Pieces(<<>>, c, by) = <<>>
    BY DEF Pieces
  <2> QED BY <2>1, FlattenEmpty, ReplacedIs
<1> QED BY <1>1, <1>2 DEF ReadBack, EndsNoPair

LEMMA ReadBackAppend ==
  ASSUME NEW T, {"bs", "dq", "n", "nl"} \subseteq T, NEW u \in Seq(T), NEW c \in T \ {"bs"},
         ReadBack(u)
  PROVE  ReadBack(Append(u, c))
<1> DEFINE e == Quoted(u)
           h == Half(u)
<1>1. /\ e \in Seq(T) /\ h \in Seq(T) /\ Singles(u) \in Seq(T)
      /\ Quoted(Append(u, c)) = e \o Escaped(c) /\ Half(Append(u, c)) = h \o HalfRead(c)
      /\ Singles(Append(u, c)) = Append(u, c)
  <2>1. Singles(u) \o <<c>> = Append(u, c)
    BY DEF ReadBack
  <2>2. {"bs", "dq", "n"} \subseteq T /\ c \in T
    OBVIOUS
  <2> HIDE DEF e, h
  <2>3. /\ Quoted(u) \in Seq(T) /\ Quoted(Append(u, c)) = Quoted(u) \o Escaped(c)
        /\ Half(u) \in Seq(T) /\ Half(Append(u, c)) = Half(u) \o HalfRead(c)
        /\ Singles(u) \in Seq(T) /\ Singles(Append(u, c)) = Singles(u) \o <<c>>
    BY <2>2, QuotedAppend
  <2> QED BY <2>1, <2>3 DEF e, h
<1>2. /\ Replaced(e, "n", "nl") = h /\ Replaced(h, "dq", "dq") = u
      /\ EndsNoPair(e) /\ EndsNoPair(h)
  BY DEF ReadBack
<1> HIDE DEF e, h
<1>3. ASSUME NEW w \in Seq(T), NEW x \in T, x # "bs" PROVE EndsNoPair(Append(w, x))
  BY <1>3 DEF EndsNoPair
<1>4. \A w \in Seq(T), x, y \in T : w \o <<x, y>> = Append(Append(w, x), y)
  OBVIOUS
<1>5. \A w \in Seq(T), x \in T : w \o <<x>> = Append(w, x) /\ Append(w, x) \in Seq(T)
  OBVIOUS
<1>10. ASSUME NEW w \in Seq(T), NEW x \in T, x = "n" => EndsNoPair(w)
       PROVE  Replaced(Append(w, x), "n", "nl") = Append(Replaced(w, "n", "nl"), x)
  <2>1. "n" # "bs" /\ "nl" \in T /\ (w # <<>> => ~(w[Len(w)] = "bs" /\ x = "n"))
    BY <1>10 DEF EndsNoPair
  <2> QED BY <2>1, ReplacedPlain
<1>11. ASSUME NEW w \in Seq(T), NEW x \in T, x = "dq" => EndsNoPair(w)
       PROVE  Replaced(Append(w, x), "dq", "dq") = Append(Replaced(w, "dq", "dq"), x)
  <2>1. "dq" # "bs" /\ "dq" \in T /\ (w # <<>> => ~(w[Len(w)] = "bs" /\ x = "dq"))
    BY <1>11 DEF EndsNoPair
  <2> QED BY <2>1, ReplacedPlain
<1>12. ASSUME NEW w \in Seq(T)
       PROVE  /\ Replaced(Append(Append(w, "bs"), "n"), "n", "nl") = Append(Replaced(w, "n", "nl"), "nl")
              /\ Replaced(Append(Append(w, "bs"), "dq"), "dq", "dq") = Append(Replaced(w, "dq", "dq"), "dq")
  <2>1. ASSUME NEW x \in T, x # "bs", NEW y \in T
        PROVE  Replaced(Append(Append(w, "bs"), x), x, y) = Append(Replaced(w, x, y), y)
    <3>1. "bs" \in T
      OBVIOUS
    <3> QED BY <2>1, <3>1, ReplacedPair
  <2>2. "n" # "bs" /\ "dq" # "bs" /\ "n" \in T /\ "nl" \in T /\ "dq" \in T
    OBVIOUS
  <2> QED BY <2>1, <2>2
<1>13. "bs" \in T /\ "dq" \in T /\ "n" \in T /\ "nl" \in T /\ c \in T
  OBVIOUS
<1>6. CASE c = "dq"
  <2>1. Escaped(c) = <<"bs", "dq">> /\ HalfRead(c) = <<"bs", "dq">>
    BY <1>6, EscapedType
  <2>2. Quoted(Append(u, c)) = Append(Append(e, "bs"), "dq") /\ Half(Append(u, c)) = Append(Append(h, "bs"), "dq")
    BY <1>1, <1>4, <2>1
  <2>3. Replaced(Append(e, "bs"), "n", "nl") = Append(h, "bs")
    BY <1>1, <1>2, <1>10, <1>13
  <2>4. Replaced(Append(Append(e, "bs"), "dq"), "n", "nl") = Append(Append(h, "bs"), "dq")
    <3>1. Append(e, "bs") \in Seq(T) /\ "dq" # "n"
      BY <1>1, <1>5, <1>13
    <3> QED BY <1>10, <1>13, <2>3, <3>1
  <2>5. Replaced(Append(Append(h, "bs"), "dq"), "dq", "dq") = Append(u, c)
    BY <1>1, <1>2, <1>6, <1>12
  <2>6. EndsNoPair(Append(Append(e, "bs"), "dq")) /\ EndsNoPair(Append(Append(h, "bs"), "dq"))
    BY <1>1, <1>3, <1>5
  <2> QED BY <1>1, <2>2, <2>4, <2>5, <2>6 DEF ReadBack
<1>7. CASE c = "nl"
  <2>1. Escaped(c) = <<"bs", "n">> /\ HalfRead(c) = <<"nl">>
    BY <1>7, EscapedType
  <2>2. Quoted(Append(u, c)) = Append(Append(e, "bs"), "n") /\ Half(Append(u, c)) = Append(h, "nl")
    BY <1>1, <1>4, <1>5, <2>1
  <2>3. Replaced(Append(Append(e, "bs"), "n"), "n", "nl") = Append(h, "nl")
    BY <1>1, <1>2, <1>12
  <2>4. Replaced(Append(h, "nl"), "dq", "dq") = Append(u, c)
    BY <1>1, <1>2, <1>7, <1>11, <1>13
  <2>5. EndsNoPair(Append(Append(e, "bs"), "n")) /\ EndsNoPair(Append(h, "nl"))
    BY <1>1, <1>3, <1>5
  <2> QED BY <1>1, <2>2, <2>3, <2>4, <2>5 DEF ReadBack
<1>8. CASE c \notin {"bs", "dq", "nl"}
  <2>1. Escaped(c) = <<c>> /\ HalfRead(c) = <<c>>
    BY <1>8, EscapedType
  <2>2. Quoted(Append(u, c)) = Append(e, c) /\ Half(Append(u, c)) = Append(h, c)
    BY <1>1, <1>5, <2>1
  <2>3. Replaced(Append(e, c), "n", "nl") = Append(h, c)
    BY <1>1, <1>2, <1>10, <1>13
  <2>4. Replaced(Append(h, c), "dq", "dq") = Append(u, c)
    BY <1>1, <1>2, <1>11, <1>13
  <2>5. EndsNoPair(Append(e, c)) /\ EndsNoPair(Append(h, c))
    BY <1>1, <1>3
  <2> QED BY <1>1, <2>2, <2>3, <2>4, <2>5 DEF ReadBack
<1> QED BY <1>6, <1>7, <1>8

LEMMA ReadBackAll ==
  ASSUME NEW T, {"bs", "dq", "n", "nl"} \subseteq T, NEW v \in Seq(T \ {"bs"})
  PROVE  ReadBack(v) /\ Quoted(v) \in Seq(T)
<1>1. v \in Seq(T)
  OBVIOUS
<1>0. /\ SubSeq(v, 1, 0) = <<>> /\ SubSeq(v, 1, Len(v)) = v /\ Len(v) \in Nat
      /\ \A n \in 1..Len(v) : /\ SubSeq(v, 1, n - 1) \in Seq(T) /\ v[n] \in T
                              /\ SubSeq(v, 1, n) = Append(SubSeq(v, 1, n - 1), v[n])
  BY <1>1, CharByChar
<1> DEFINE Bad == {n \in 0..Len(v) : ~ReadBack(SubSeq(v, 1, n))}
<1>2. Bad = {}
  <2>1. SUFFICES ASSUME Bad # {} PROVE FALSE
    OBVIOUS
  <2>2. PICK n \in Bad : \A m \in Bad : n <= m
    <3>1. Bad \in SUBSET Nat
      OBVIOUS
    <3> HIDE DEF Bad
    <3> QED BY <2>1, <3>1, LeastOf
  <2>3. n \in 0..Len(v) /\ ~ReadBack(SubSeq(v, 1, n))
    OBVIOUS
  <2>4. n # 0
    BY <1>0, <2>3, ReadBackNothing
  <2>5. n \in 1..Len(v) /\ n - 1 \in 0..Len(v) /\ ~(n <= n - 1)
    BY <1>0, <2>3, <2>4
  <2>6. ReadBack(SubSeq(v, 1, n - 1))
    <3>1. n - 1 \notin Bad
      <4> HIDE DEF Bad
      <4> QED BY <2>2, <2>5
    <3> QED BY <2>5, <3>1
  <2> HIDE DEF Bad
  <2>7. SubSeq(v, 1, n - 1) \in Seq(T) /\ SubSeq(v, 1, n) = Append(SubSeq(v, 1, n - 1), v[n])
    BY <1>0, <2>5
  <2>8. v[n] \in T \ {"bs"}
    BY <2>5
  <2> QED BY <2>3, <2>6, <2>7, <2>8, ReadBackAppend
<1>3. Len(v) \in 0..Len(v) /\ SubSeq(v, 1, Len(v)) = v
  BY <1>0
<1>4. ReadBack(v)
  BY <1>2, <1>3
<1>5. Quoted(v) \in Seq(T)
  <2>1. "bs" \in T
    OBVIOUS
  <2> QED BY <1>1, <2>1, QuotedAppend
<1> QED BY <1>4, <1>5

\* Reading what was written: a value without a backslash, of any length and with any
\* quotes and line feeds, is the value again (escapeValue, unescapeValue).
THEOREM RoundTrip ==
  ASSUME NEW T, {"bs", "dq", "n", "nl"} \subseteq T, NEW v \in Seq(T), NoBackslash(v)
  PROVE  Unescape(Escape(v)) = v
<1>1. v \in Seq(T \ {"bs"})
  BY DEF NoBackslash, ToSet
<1>2. ReadBack(v) /\ Quoted(v) \in Seq(T)
  BY <1>1, ReadBackAll
<1>3. CASE v # <<>> /\ ToSet(v) \cap Special = {}
  <2>1. Escape(v) = v
    BY <1>3 DEF Escape
  <2>2. v[1] # "dq"
    <3>1. v[1] \in ToSet(v)
      BY <1>3 DEF ToSet
    <3> QED BY <1>3, <3>1 DEF Special
  <2> QED BY <2>1, <2>2 DEF Unescape
<1>4. CASE ~(v # <<>> /\ ToSet(v) \cap Special = {})
  <2> DEFINE q == Quoted(v)
             w == <<"dq">> \o q \o <<"dq">>
  <2>1. Escape(v) = w
    BY <1>4 DEF Escape, Quoted
  <2>2. Replaced(v, "bs", "bs") = v
    <3>1. Pieces(v, "bs", "bs") = [n \in DOMAIN v |-> <<v[n]>>]
      <4>1. \A n \in Int : ~PairAt(v, "bs", n)
        <5>1. \A n \in 1..Len(v) : v[n] # "bs"
          BY <1>1
        <5> QED BY <5>1 DEF PairAt
      <4>2. \A n \in DOMAIN v : PieceAt(v, "bs", "bs", n) = <<v[n]>>
        BY <4>1 DEF PieceAt
      <4> QED BY <4>2 DEF Pieces
    <3> QED BY <1>2, <3>1, ReplacedIs DEF ReadBack, Singles
  <2> HIDE DEF q
  <2>3. q \in Seq(T) /\ Replaced(q, "n", "nl") = Half(v) /\ Replaced(Half(v), "dq", "dq") = v
    BY <1>2 DEF ReadBack, q
  <2>4. /\ w # <<>> /\ w[1] = "dq" /\ w[Len(w)] = "dq" /\ SubSeq(w, 2, Len(w) - 1) = q
    <3>1. w \in Seq(T) /\ Len(w) = Len(q) + 2 /\ w[1] = "dq" /\ w[Len(w)] = "dq" /\ Len(q) \in Nat
      BY <2>3
    <3>2. \A n \in 1..Len(q) : w[n + 1] = q[n]
      BY <2>3
    <3> HIDE DEF w
    <3>3. SubSeq(w, 2, Len(w) - 1) = q
      BY <2>3, <3>1, <3>2
    <3> QED BY <3>1, <3>3
  <2> HIDE DEF w
  <2> QED BY <2>1, <2>2, <2>3, <2>4 DEF Unescape
<1> QED BY <1>3, <1>4

-----------------------------------------------------------------------------
(* Types of values                                                         *)

LEMMA Chars == {"bs", "dq", "n", "nl"} \subseteq Char
BY DEF Char

LEMMA ReplacedType ==
  ASSUME NEW T, NEW v \in Seq(T), NEW c, NEW by \in T
  PROVE  Replaced(v, c, by) \in Seq(T)
<1>1. Pieces(v, c, by) \in Seq(Seq(T)) /\ <<>> \in Seq(T)
  BY PiecesType
<1>2. FlattenSeq(Pieces(v, c, by)) \in Seq(T)
  BY <1>1, FlattenAppend
<1> QED BY <1>2, ReplacedIs

LEMMA UnescapeType ==
  ASSUME NEW w \in Seq(Char)
  PROVE  Unescape(w) \in Seq(Char)
<1>1. CASE w # <<>> /\ w[1] = "dq" /\ w[Len(w)] = "dq"
  <2> DEFINE inner == SubSeq(w, 2, Len(w) - 1)
             one == Replaced(inner, "n", "nl")
             two == Replaced(one, "dq", "dq")
  <2>1. inner \in Seq(Char)
    OBVIOUS
  <2>2. "nl" \in Char /\ "dq" \in Char /\ "bs" \in Char
    BY Chars
  <2> HIDE DEF inner
  <2>3. one \in Seq(Char)
    BY <2>1, <2>2, ReplacedType
  <2> HIDE DEF one
  <2>4. two \in Seq(Char)
    BY <2>2, <2>3, ReplacedType
  <2> HIDE DEF two
  <2>5. Replaced(two, "bs", "bs") \in Seq(Char)
    BY <2>2, <2>4, ReplacedType
  <2>6. Unescape(w) = Replaced(two, "bs", "bs")
    BY <1>1 DEF Unescape, two, one, inner
  <2> QED BY <2>5, <2>6
<1>2. CASE ~(w # <<>> /\ w[1] = "dq" /\ w[Len(w)] = "dq")
  BY <1>2 DEF Unescape
<1> QED BY <1>1, <1>2

LEMMA EscapeType ==
  ASSUME NEW v \in Seq(Char)
  PROVE  Escape(v) \in Seq(Char)
<1>1. Quoted(v) \in Seq(Char) /\ "dq" \in Char
  <2>1. {"bs", "dq", "n"} \subseteq Char /\ "n" \in Char
    BY Chars
  <2>2. Quoted(v) \in Seq(Char)
    BY <2>1, QuotedAppend
  <2> QED BY <2>1, <2>2
<1>2. <<"dq">> \o Quoted(v) \o <<"dq">> \in Seq(Char)
  BY <1>1
<1> QED BY <1>2 DEF Escape, Quoted

\* A value that was written once or twice is the value.
LEMMA ReadsBack ==
  ASSUME NEW v \in Seq(Char), NoBackslash(v)
  PROVE  Unescape(Escape(v)) = v
BY Chars, RoundTrip

-----------------------------------------------------------------------------
(* The last one with a key                                                 *)

IsLastAt(s, P, k, n) == n \in P /\ s[n].key = k /\ \A m \in P : s[m].key = k => m <= n

LEMMA LastExists ==
  ASSUME NEW s, NEW L \in Nat, NEW P \in SUBSET (1..L), NEW k, NEW i \in P, s[i].key = k
  PROVE  IsLastAt(s, P, k, LastAt(s, P, k))
<1> DEFINE S == {L - n : n \in {m \in P : s[m].key = k}}
<1>1. S \in SUBSET Nat /\ S # {}
  <2>1. L - i \in S
    OBVIOUS
  <2>2. \A n \in P : L - n \in Nat
    OBVIOUS
  <2> QED BY <2>1, <2>2
<1>2. PICK d \in S : \A e \in S : d <= e
  <2> HIDE DEF S
  <2> QED BY <1>1, LeastOf
<1>3. PICK n \in P : s[n].key = k /\ d = L - n
  OBVIOUS
<1>4. ASSUME NEW m \in P, s[m].key = k PROVE m <= n
  <2>1. L - m \in S
    BY <1>4
  <2>2. L - n <= L - m
    BY <1>2, <1>3, <2>1
  <2>3. m \in Nat /\ n \in Nat
    OBVIOUS
  <2> QED BY <2>2, <2>3
<1>5. \E j \in P : s[j].key = k /\ \A m \in P : s[m].key = k => m <= j
  BY <1>3, <1>4
<1> QED BY <1>5 DEF LastAt, IsLastAt

LEMMA LastIsOne ==
  ASSUME NEW s, NEW L \in Nat, NEW P \in SUBSET (1..L), NEW k, NEW n, IsLastAt(s, P, k, n)
  PROVE  LastAt(s, P, k) = n
<1>1. n \in P /\ s[n].key = k
  BY DEF IsLastAt
<1> DEFINE last == LastAt(s, P, k)
<1>3. IsLastAt(s, P, k, last)
  BY <1>1, LastExists
<1> HIDE DEF last
<1>4. last \in P /\ s[last].key = k
  BY <1>3 DEF IsLastAt
<1>2. last <= n /\ n <= last /\ n \in Nat /\ last \in Nat
  BY <1>1, <1>3, <1>4 DEF IsLastAt
<1>5. last = n
  BY <1>2
<1> QED BY <1>5 DEF last


-----------------------------------------------------------------------------
(* The text of a list of rows                                              *)

RowType == [key : EnvKey \cup {DraftKey, NoKey}, value : Seq(Char)]
WrittenLine == [key : EnvKey \cup {DraftKey}, value : Seq(Char)]

\* The text t of rows r has a line for every row with a key, in their order.
KeptIn(r, t) ==
  /\ t \in Seq(WrittenLine) /\ Len(t) <= Len(r)
  /\ \A k \in EnvKey :
       /\ \A m \in 1..Len(t) : t[m].key = k => \E n \in 1..Len(r) : r[n].key = k
       /\ \A n : IsLastAt(r, 1..Len(r), k, n) =>
                 \E m : IsLastAt(t, 1..Len(t), k, m) /\ t[m].value = Escape(r[n].value)
Kept(r) == KeptIn(r, RowsToDotenvText(r))

LEMMA LinesType ==
  ASSUME NEW row \in RowType
  PROVE  /\ row.key = NoKey => LinesOf(row) = <<>>
         /\ row.key # NoKey => \E line \in WrittenLine :
              LinesOf(row) = <<line>> /\ line.key = row.key /\ line.value = Escape(row.value)
         /\ LinesOf(row) \in Seq(WrittenLine)
<1>1. row.value \in Seq(Char) /\ row.key \in EnvKey \cup {DraftKey, NoKey}
  BY DEF RowType
<1>2. Escape(row.value) \in Seq(Char)
  BY <1>1, EscapeType
<1>3. CASE row.key = NoKey
  <2>1. LinesOf(row) = <<>>
    BY <1>3 DEF LinesOf
  <2> QED BY <1>3, <2>1
<1>4. CASE row.key # NoKey
  <2> DEFINE line == [key |-> row.key, value |-> Escape(row.value)]
  <2>1. LinesOf(row) = <<line>>
    BY <1>4 DEF LinesOf
  <2>2. line \in WrittenLine
    BY <1>1, <1>2, <1>4 DEF WrittenLine
  <2>3. line.key = row.key /\ line.value = Escape(row.value)
    OBVIOUS
  <2> HIDE DEF line
  <2>4. <<line>> \in Seq(WrittenLine)
    BY <2>2
  <2> QED BY <1>4, <2>1, <2>2, <2>3, <2>4
<1> QED BY <1>3, <1>4

LEMMA TextAppend ==
  ASSUME NEW r \in Seq(RowType), NEW row \in RowType
  PROVE  RowsToDotenvText(Append(r, row)) = RowsToDotenvText(r) \o LinesOf(row)
<1> DEFINE pieces == [n \in DOMAIN r |-> LinesOf(r[n])]
           more == [n \in DOMAIN Append(r, row) |-> LinesOf(Append(r, row)[n])]
<1>1. pieces \in Seq(Seq(WrittenLine))
  <2>1. \A n \in 1..Len(r) : LinesOf(r[n]) \in Seq(WrittenLine)
    <3> TAKE n \in 1..Len(r)
    <3>1. r[n] \in RowType
      OBVIOUS
    <3> QED BY <3>1, LinesType
  <2> QED BY <2>1
<1>2. more = Append(pieces, LinesOf(row))
  OBVIOUS
<1>3. LinesOf(row) \in Seq(WrittenLine)
  BY LinesType
<1> HIDE DEF pieces, more
<1>4. FlattenSeq(more) = FlattenSeq(pieces) \o LinesOf(row)
  BY <1>1, <1>2, <1>3, FlattenAppend
<1> QED BY <1>4 DEF RowsToDotenvText, pieces, more

LEMMA KeptNothing == Kept(<<>>)
<1>1. RowsToDotenvText(<<>>) = <<>>
  <2>1. [n \in DOMAIN <<>> |-> LinesOf(<<>>[n])] = <<>>
    OBVIOUS
  <2> QED BY <2>1, FlattenEmpty DEF RowsToDotenvText
<1>2. KeptIn(<<>>, <<>>)
  BY DEF KeptIn, IsLastAt
<1> QED BY <1>1, <1>2 DEF Kept

\* The last one with a key, of a sequence with one more at its end.
LEMMA LastBefore ==
  ASSUME NEW T, NEW r \in Seq(T), NEW e \in T, NEW k, e.key # k, NEW n
  PROVE  IsLastAt(Append(r, e), 1..Len(Append(r, e)), k, n) <=> IsLastAt(r, 1..Len(r), k, n)
<1> DEFINE s == Append(r, e)
<1>1. /\ Len(s) = Len(r) + 1 /\ Len(r) \in Nat /\ s[Len(r) + 1] = e
      /\ \A m \in 1..Len(r) : s[m] = r[m] /\ m \in 1..Len(s)
      /\ \A m \in 1..Len(s) : m = Len(r) + 1 \/ m \in 1..Len(r)
  OBVIOUS
<1> HIDE DEF s
<1>2. ASSUME IsLastAt(s, 1..Len(s), k, n) PROVE IsLastAt(r, 1..Len(r), k, n)
  <2>1. n \in 1..Len(s) /\ s[n].key = k /\ \A m \in 1..Len(s) : s[m].key = k => m <= n
    BY <1>2 DEF IsLastAt
  <2>2. n \in 1..Len(r)
    BY <1>1, <2>1
  <2> QED BY <1>1, <2>1, <2>2 DEF IsLastAt
<1>3. ASSUME IsLastAt(r, 1..Len(r), k, n) PROVE IsLastAt(s, 1..Len(s), k, n)
  <2>1. n \in 1..Len(r) /\ r[n].key = k /\ \A m \in 1..Len(r) : r[m].key = k => m <= n
    BY <1>3 DEF IsLastAt
  <2>2. n \in 1..Len(s) /\ s[n].key = k
    BY <1>1, <2>1
  <2>3. ASSUME NEW m \in 1..Len(s), s[m].key = k PROVE m <= n
    <3>1. m # Len(r) + 1
      BY <1>1, <2>3
    <3>2. m \in 1..Len(r) /\ r[m].key = k
      BY <1>1, <2>3, <3>1
    <3> QED BY <2>1, <3>2
  <2> QED BY <2>2, <2>3 DEF IsLastAt
<1> QED BY <1>2, <1>3 DEF s

LEMMA LastThere ==
  ASSUME NEW T, NEW r \in Seq(T), NEW e \in T
  PROVE  /\ IsLastAt(Append(r, e), 1..Len(Append(r, e)), e.key, Len(r) + 1)
         /\ Append(r, e)[Len(r) + 1] = e
BY DEF IsLastAt

LEMMA LastIsUnique ==
  ASSUME NEW s, NEW L \in Nat, NEW k, NEW n, NEW m, IsLastAt(s, 1..L, k, n), IsLastAt(s, 1..L, k, m)
  PROVE  n = m
<1>1. n \in 1..L /\ m \in 1..L /\ n <= m /\ m <= n
  BY DEF IsLastAt
<1> QED BY <1>1

LEMMA KeptAppend ==
  ASSUME NEW r \in Seq(RowType), NEW row \in RowType, Kept(r)
  PROVE  Kept(Append(r, row))
<1> DEFINE s == Append(r, row)
           t == RowsToDotenvText(r)
           u == RowsToDotenvText(s)
<1>1. /\ s \in Seq(RowType) /\ Len(s) = Len(r) + 1 /\ Len(r) \in Nat /\ s[Len(r) + 1] = row
      /\ \A n \in 1..Len(r) : s[n] = r[n] /\ n \in 1..Len(s)
  OBVIOUS
<1>2. KeptIn(r, t)
  BY DEF Kept
<1>3. u = t \o LinesOf(row)
  BY TextAppend
<1>4. row.key \in EnvKey \cup {DraftKey, NoKey}
  BY DEF RowType
<1> HIDE DEF t, u
<1>5. t \in Seq(WrittenLine) /\ Len(t) <= Len(r) /\ Len(t) \in Nat
  BY <1>2 DEF KeptIn
<1>6. /\ \A k \in EnvKey, m \in 1..Len(t) : t[m].key = k => \E n \in 1..Len(s) : s[n].key = k
      /\ \A k \in EnvKey, n \in 1..Len(r) : IsLastAt(r, 1..Len(r), k, n) =>
           \E m : IsLastAt(t, 1..Len(t), k, m) /\ t[m].value = Escape(s[n].value)
  <2> HIDE DEF s
  <2>1. ASSUME NEW k \in EnvKey, NEW m \in 1..Len(t), t[m].key = k PROVE \E n \in 1..Len(s) : s[n].key = k
    <3>1. PICK n \in 1..Len(r) : r[n].key = k
      BY <1>2, <2>1 DEF KeptIn
    <3> QED BY <1>1, <3>1
  <2>2. ASSUME NEW k \in EnvKey, NEW n \in 1..Len(r), IsLastAt(r, 1..Len(r), k, n)
        PROVE  \E m : IsLastAt(t, 1..Len(t), k, m) /\ t[m].value = Escape(s[n].value)
    BY <1>1, <1>2, <2>2 DEF KeptIn
  <2> QED BY <2>1, <2>2
<1>7. CASE row.key = NoKey
  <2>1. u = t
    <3>1. LinesOf(row) = <<>>
      BY <1>7, LinesType
    <3> QED BY <1>3, <1>5, <3>1
  <2>2. ASSUME NEW k \in EnvKey, NEW n, IsLastAt(s, 1..Len(s), k, n)
        PROVE  \E m : IsLastAt(t, 1..Len(t), k, m) /\ t[m].value = Escape(s[n].value)
    <3>1. row.key # k
      BY <1>7, EnvironmentAssumption
    <3>2. IsLastAt(r, 1..Len(r), k, n)
      BY <2>2, <3>1, LastBefore
    <3>3. n \in 1..Len(r)
      BY <3>2 DEF IsLastAt
    <3> QED BY <1>6, <3>2, <3>3
  <2>3. Len(t) <= Len(s)
    BY <1>1, <1>5
  <2> HIDE DEF s
  <2>4. KeptIn(s, u)
    BY <1>5, <1>6, <2>1, <2>2, <2>3 DEF KeptIn
  <2> QED BY <2>4 DEF Kept, u, s
<1>8. CASE row.key # NoKey
  <2>1. PICK line \in WrittenLine : LinesOf(row) = <<line>> /\ line.key = row.key /\ line.value = Escape(row.value)
    BY <1>8, LinesType
  <2>2. u = Append(t, line)
    BY <1>3, <1>5, <2>1
  <2>3. /\ u \in Seq(WrittenLine) /\ Len(u) = Len(t) + 1 /\ u[Len(t) + 1] = line
        /\ \A m \in 1..Len(t) : u[m] = t[m]
        /\ \A m \in 1..Len(u) : m = Len(t) + 1 \/ m \in 1..Len(t)
    BY <1>5, <2>2
  <2>4. ASSUME NEW k \in EnvKey, NEW m \in 1..Len(u), u[m].key = k PROVE \E n \in 1..Len(s) : s[n].key = k
    <3>1. CASE m = Len(t) + 1
      <4>1. s[Len(r) + 1].key = k /\ Len(r) + 1 \in 1..Len(s)
        BY <1>1, <2>1, <2>3, <2>4, <3>1
      <4> HIDE DEF s
      <4> QED BY <4>1
    <3>2. CASE m \in 1..Len(t)
      <4>1. t[m].key = k
        BY <2>3, <2>4, <3>2
      <4> HIDE DEF s
      <4> QED BY <1>6, <3>2, <4>1
    <3> HIDE DEF s
    <3> QED BY <2>3, <3>1, <3>2
  <2>5. ASSUME NEW k \in EnvKey, NEW n, IsLastAt(s, 1..Len(s), k, n)
        PROVE  \E m : IsLastAt(u, 1..Len(u), k, m) /\ u[m].value = Escape(s[n].value)
    <3>1. CASE row.key = k
      <4>1. IsLastAt(s, 1..Len(s), k, Len(r) + 1)
        BY <3>1, LastThere
      <4>2. IsLastAt(u, 1..Len(u), k, Len(t) + 1)
        BY <1>5, <2>1, <2>2, <3>1, LastThere
      <4> HIDE DEF s
      <4>3. n = Len(r) + 1
        <5>1. Len(s) \in Nat
          BY <1>1
        <5> QED BY <2>5, <4>1, <5>1, LastIsUnique
      <4>4. u[Len(t) + 1].value = Escape(s[n].value)
        BY <1>1, <2>1, <2>3, <4>3
      <4> QED BY <4>2, <4>4
    <3>2. CASE row.key # k
      <4>1. IsLastAt(r, 1..Len(r), k, n)
        BY <2>5, <3>2, LastBefore
      <4>2. n \in 1..Len(r)
        BY <4>1 DEF IsLastAt
      <4>3. PICK m : IsLastAt(t, 1..Len(t), k, m) /\ t[m].value = Escape(s[n].value)
        BY <1>6, <4>1, <4>2
      <4>4. IsLastAt(u, 1..Len(u), k, m)
        BY <1>5, <2>1, <2>2, <3>2, <4>3, LastBefore
      <4>5. m \in 1..Len(t)
        BY <4>3 DEF IsLastAt
      <4> HIDE DEF s
      <4> QED BY <2>3, <4>3, <4>4, <4>5
    <3> QED BY <3>1, <3>2
  <2>6. Len(u) <= Len(s)
    BY <1>1, <1>5, <2>3
  <2> HIDE DEF s
  <2>7. KeptIn(s, u)
    BY <2>3, <2>4, <2>5, <2>6 DEF KeptIn
  <2> QED BY <2>7 DEF Kept, u, s
<1> QED BY <1>7, <1>8

LEMMA KeptAll ==
  ASSUME NEW r \in Seq(RowType)
  PROVE  Kept(r)
<1>0. /\ SubSeq(r, 1, 0) = <<>> /\ SubSeq(r, 1, Len(r)) = r /\ Len(r) \in Nat
      /\ \A n \in 1..Len(r) : /\ SubSeq(r, 1, n - 1) \in Seq(RowType) /\ r[n] \in RowType
                              /\ SubSeq(r, 1, n) = Append(SubSeq(r, 1, n - 1), r[n])
  BY CharByChar
<1> DEFINE Bad == {n \in 0..Len(r) : ~Kept(SubSeq(r, 1, n))}
<1>1. Bad = {}
  <2>1. SUFFICES ASSUME Bad # {} PROVE FALSE
    OBVIOUS
  <2>2. PICK n \in Bad : \A m \in Bad : n <= m
    <3>1. Bad \in SUBSET Nat
      OBVIOUS
    <3> HIDE DEF Bad
    <3> QED BY <2>1, <3>1, LeastOf
  <2>3. n \in 0..Len(r) /\ ~Kept(SubSeq(r, 1, n))
    OBVIOUS
  <2>4. n # 0
    BY <1>0, <2>3, KeptNothing
  <2>5. n \in 1..Len(r) /\ n - 1 \in 0..Len(r) /\ ~(n <= n - 1)
    BY <1>0, <2>3, <2>4
  <2>6. Kept(SubSeq(r, 1, n - 1))
    <3>1. n - 1 \notin Bad
      <4> HIDE DEF Bad
      <4> QED BY <2>2, <2>5
    <3> QED BY <2>5, <3>1
  <2> HIDE DEF Bad
  <2>7. SubSeq(r, 1, n - 1) \in Seq(RowType) /\ SubSeq(r, 1, n) = Append(SubSeq(r, 1, n - 1), r[n])
    BY <1>0, <2>5
  <2>8. r[n] \in RowType
    BY <1>0, <2>5
  <2> QED BY <2>3, <2>6, <2>7, <2>8, KeptAppend
<1>2. Len(r) \in 0..Len(r) /\ SubSeq(r, 1, Len(r)) = r
  BY <1>0
<1> QED BY <1>1, <1>2


-----------------------------------------------------------------------------
(* The maps of rows and texts                                              *)

LineType == [key : EnvKey \cup {DraftKey}, value : Seq(Char) \cup {NoEquals}]
IsMap(m) ==
  /\ DOMAIN m \subseteq EnvKey /\ m \in [DOMAIN m -> Seq(Char)]
  /\ IsFiniteSet(DOMAIN m) /\ Cardinality(DOMAIN m) <= RowLimit
NoEqualsApart(t) ==
  \A m, n \in DOMAIN t : m # n /\ t[m].value = NoEquals => t[m].key # t[n].key

LEMMA NoEqualsIsNoValue == NoEquals \notin Seq(Char)
<1>1. SUFFICES ASSUME NoEquals \in Seq(Char) PROVE FALSE
  OBVIOUS
<1>2. Len(NoEquals) = 1 /\ NoEquals[1] = "no ="
  BY DEF NoEquals
<1>3. \A v \in Seq(Char) : Len(v) = 1 => v[1] \in Char
  OBVIOUS
<1>4. NoEquals[1] \in Char
  BY <1>1, <1>2, <1>3
<1> QED BY <1>2, <1>4 DEF Char

LEMMA KeysFinite ==
  ASSUME NEW s, NEW L \in Nat, NEW P \in SUBSET (1..L)
  PROVE  IsFiniteSet(KeysAt(s, P)) /\ Cardinality(KeysAt(s, P)) <= L /\ Cardinality(KeysAt(s, P)) \in Nat
<1> DEFINE Q == {n \in P : s[n].key \in EnvKey}
           f == [n \in Q |-> s[n].key]
<1>1. IsFiniteSet(1..L) /\ Cardinality(1..L) = L
  <2>1. 1 \in Int /\ L \in Int
    OBVIOUS
  <2>2. IsFiniteSet(1..L) /\ Cardinality(1..L) = IF 1 > L THEN 0 ELSE L - 1 + 1
    BY <2>1, FS_Interval
  <2>3. (IF 1 > L THEN 0 ELSE L - 1 + 1) = L
    OBVIOUS
  <2> QED BY <2>2, <2>3
<1>2. Q \in SUBSET (1..L)
  OBVIOUS
<1>3. f \in Surjection(Q, KeysAt(s, P))
  BY DEF Surjection, KeysAt
<1> HIDE DEF Q, f
<1>4. IsFiniteSet(Q) /\ Cardinality(Q) <= Cardinality(1..L)
  BY <1>1, <1>2, FS_Subset
<1>5. IsFiniteSet(KeysAt(s, P)) /\ Cardinality(KeysAt(s, P)) <= Cardinality(Q)
  BY <1>3, <1>4, FS_Surjection
<1>6. Cardinality(Q) \in Nat /\ Cardinality(KeysAt(s, P)) \in Nat
  BY <1>4, <1>5, FS_CardinalityType
<1>7. Cardinality(Q) <= L
  BY <1>1, <1>4
<1> QED BY <1>5, <1>6, <1>7

\* What a map of rows says of a key.
LEMMA MapOfRows ==
  ASSUME NEW r \in Seq(RowType)
  PROVE  /\ DOMAIN RowsToEnvVars(r) = KeysAt(r, 1..Len(r))
         /\ DOMAIN RowsToEnvVars(r) = {k \in EnvKey : \E n \in 1..Len(r) : r[n].key = k}
         /\ \A k \in DOMAIN RowsToEnvVars(r) : \A n :
              IsLastAt(r, 1..Len(r), k, n) => RowsToEnvVars(r)[k] = r[n].value
         /\ \A k \in DOMAIN RowsToEnvVars(r) : \E n : IsLastAt(r, 1..Len(r), k, n)
<1>1. DOMAIN r = 1..Len(r) /\ Len(r) \in Nat
  OBVIOUS
<1>2. RowsToEnvVars(r) = [k \in KeysAt(r, 1..Len(r)) |-> r[LastAt(r, 1..Len(r), k)].value]
  BY <1>1 DEF RowsToEnvVars
<1>3. KeysAt(r, 1..Len(r)) = {k \in EnvKey : \E n \in 1..Len(r) : r[n].key = k}
  BY DEF KeysAt
<1>4. ASSUME NEW k \in KeysAt(r, 1..Len(r)), NEW n, IsLastAt(r, 1..Len(r), k, n)
      PROVE  RowsToEnvVars(r)[k] = r[n].value
  <2>1. LastAt(r, 1..Len(r), k) = n
    BY <1>1, <1>4, LastIsOne
  <2> QED BY <1>2, <2>1
<1>5. ASSUME NEW k \in KeysAt(r, 1..Len(r))
      PROVE  \E n : IsLastAt(r, 1..Len(r), k, n)
  <2>1. PICK i \in 1..Len(r) : r[i].key = k
    BY <1>3
  <2>2. IsLastAt(r, 1..Len(r), k, LastAt(r, 1..Len(r), k))
    BY <1>1, <2>1, LastExists
  <2> QED BY <2>2
<1> QED BY <1>2, <1>3, <1>4, <1>5

LEMMA MapOfRowsType ==
  ASSUME NEW r \in Seq(RowType), Len(r) <= RowLimit
  PROVE  IsMap(RowsToEnvVars(r))
<1> DEFINE m == RowsToEnvVars(r)
<1>1. /\ DOMAIN m = KeysAt(r, 1..Len(r)) /\ DOMAIN m \subseteq EnvKey
      /\ m = [k \in DOMAIN m |-> m[k]]
  BY MapOfRows DEF RowsToEnvVars
<1>2. ASSUME NEW k \in DOMAIN m PROVE m[k] \in Seq(Char)
  <2>1. PICK n : IsLastAt(r, 1..Len(r), k, n)
    BY <1>2, MapOfRows
  <2>2. m[k] = r[n].value
    BY <1>2, <2>1, MapOfRows
  <2>4. n \in 1..Len(r)
    BY <2>1 DEF IsLastAt
  <2>3. r[n] \in RowType
    BY <2>4
  <2> QED BY <2>2, <2>3 DEF RowType
<1> HIDE DEF m
<1>3. m \in [DOMAIN m -> Seq(Char)]
  BY <1>1, <1>2
<1>4. IsFiniteSet(DOMAIN m) /\ Cardinality(DOMAIN m) <= RowLimit
  <2>1. Len(r) \in Nat /\ RowLimit \in Nat
    BY EnvironmentAssumption
  <2>2. IsFiniteSet(DOMAIN m) /\ Cardinality(DOMAIN m) <= Len(r) /\ Cardinality(DOMAIN m) \in Nat
    BY <1>1, <2>1, KeysFinite
  <2> QED BY <2>1, <2>2
<1> QED BY <1>1, <1>3, <1>4 DEF IsMap, m

\* What a text says of a key.
ValuedAt(t) == {n \in 1..Len(t) : t[n].value # NoEquals}

LEMMA MapOfText ==
  ASSUME NEW t \in Seq(LineType)
  PROVE  /\ DOMAIN ParseDotenv(t) = KeysAt(t, ValuedAt(t))
         /\ DOMAIN ParseDotenv(t) = {k \in EnvKey : \E n \in ValuedAt(t) : t[n].key = k}
         /\ \A k \in DOMAIN ParseDotenv(t) : \A n :
              IsLastAt(t, ValuedAt(t), k, n) => ParseDotenv(t)[k] = Unescape(t[n].value)
         /\ \A k \in DOMAIN ParseDotenv(t) : \E n : IsLastAt(t, ValuedAt(t), k, n)
<1>1. DOMAIN t = 1..Len(t) /\ Len(t) \in Nat
  OBVIOUS
<1>2. ParseDotenv(t) = [k \in KeysAt(t, ValuedAt(t)) |-> Unescape(t[LastAt(t, ValuedAt(t), k)].value)]
  BY <1>1 DEF ParseDotenv, ValuedAt
<1>3. KeysAt(t, ValuedAt(t)) = {k \in EnvKey : \E n \in ValuedAt(t) : t[n].key = k}
  BY DEF KeysAt
<1>6. ValuedAt(t) \in SUBSET (1..Len(t))
  BY DEF ValuedAt
<1>4. ASSUME NEW k \in KeysAt(t, ValuedAt(t)), NEW n, IsLastAt(t, ValuedAt(t), k, n)
      PROVE  ParseDotenv(t)[k] = Unescape(t[n].value)
  <2>1. LastAt(t, ValuedAt(t), k) = n
    BY <1>1, <1>4, <1>6, LastIsOne
  <2> QED BY <1>2, <2>1
<1>5. ASSUME NEW k \in KeysAt(t, ValuedAt(t))
      PROVE  \E n : IsLastAt(t, ValuedAt(t), k, n)
  <2>1. PICK i \in ValuedAt(t) : t[i].key = k
    BY <1>3
  <2>2. IsLastAt(t, ValuedAt(t), k, LastAt(t, ValuedAt(t), k))
    BY <1>1, <1>6, <2>1, LastExists
  <2> QED BY <2>2
<1> QED BY <1>2, <1>3, <1>4, <1>5

LEMMA MapOfTextType ==
  ASSUME NEW t \in Seq(LineType), Len(t) <= RowLimit
  PROVE  IsMap(ParseDotenv(t))
<1> DEFINE m == ParseDotenv(t)
<1>1. /\ DOMAIN m = KeysAt(t, ValuedAt(t)) /\ DOMAIN m \subseteq EnvKey
      /\ m = [k \in DOMAIN m |-> m[k]]
  BY MapOfText DEF ParseDotenv
<1>2. ASSUME NEW k \in DOMAIN m PROVE m[k] \in Seq(Char)
  <2>1. PICK n : IsLastAt(t, ValuedAt(t), k, n)
    BY <1>2, MapOfText
  <2>2. m[k] = Unescape(t[n].value)
    BY <1>2, <2>1, MapOfText
  <2>5. n \in 1..Len(t) /\ t[n].value # NoEquals
    BY <2>1 DEF IsLastAt, ValuedAt
  <2>3. t[n] \in LineType
    BY <2>5
  <2>4. t[n].value \in Seq(Char)
    BY <2>5, <2>3 DEF LineType
  <2> QED BY <2>2, <2>4, UnescapeType
<1> HIDE DEF m
<1>3. m \in [DOMAIN m -> Seq(Char)]
  BY <1>1, <1>2
<1>4. IsFiniteSet(DOMAIN m) /\ Cardinality(DOMAIN m) <= RowLimit
  <2>1. Len(t) \in Nat /\ RowLimit \in Nat /\ ValuedAt(t) \in SUBSET (1..Len(t))
    BY EnvironmentAssumption DEF ValuedAt
  <2>2. IsFiniteSet(DOMAIN m) /\ Cardinality(DOMAIN m) <= Len(t) /\ Cardinality(DOMAIN m) \in Nat
    BY <1>1, <2>1, KeysFinite
  <2> QED BY <2>1, <2>2
<1> QED BY <1>1, <1>3, <1>4 DEF IsMap, m


-----------------------------------------------------------------------------
(* From rows to a text, from a text to rows, from a map to rows            *)

LEMMA TextOfRows ==
  ASSUME NEW r \in Seq(RowType)
  PROVE  /\ RowsToDotenvText(r) \in Seq(LineType) /\ Len(RowsToDotenvText(r)) <= Len(r)
         /\ NoEqualsApart(RowsToDotenvText(r))
         /\ DOMAIN ParseDotenv(RowsToDotenvText(r)) = DOMAIN RowsToEnvVars(r)
         /\ \A k \in DOMAIN RowsToEnvVars(r) :
              ParseDotenv(RowsToDotenvText(r))[k] = Unescape(Escape(RowsToEnvVars(r)[k]))
<1> DEFINE t == RowsToDotenvText(r)
<1>1. KeptIn(r, t)
  BY KeptAll DEF Kept
<1> HIDE DEF t
<1>2. t \in Seq(WrittenLine) /\ Len(t) <= Len(r) /\ Len(t) \in Nat
  BY <1>1 DEF KeptIn
<1>3. t \in Seq(LineType) /\ \A n \in 1..Len(t) : t[n].value # NoEquals
  <2>1. ASSUME NEW n \in 1..Len(t) PROVE t[n] \in LineType /\ t[n].value # NoEquals
    <3>1. t[n] \in WrittenLine
      BY <1>2
    <3> QED BY <3>1, NoEqualsIsNoValue DEF WrittenLine, LineType
  <2>2. t = [n \in 1..Len(t) |-> t[n]]
    BY <1>2
  <2> QED BY <1>2, <2>1, <2>2
<1>4. NoEqualsApart(t)
  <2>1. DOMAIN t = 1..Len(t)
    BY <1>2
  <2> QED BY <1>3, <2>1 DEF NoEqualsApart
<1>5. ValuedAt(t) = 1..Len(t)
  BY <1>3 DEF ValuedAt
<1>6. ASSUME NEW k \in DOMAIN ParseDotenv(t) PROVE k \in DOMAIN RowsToEnvVars(r)
  <2>1. k \in EnvKey /\ \E m \in 1..Len(t) : t[m].key = k
    <3>1. DOMAIN ParseDotenv(t) = {j \in EnvKey : \E n \in ValuedAt(t) : t[n].key = j}
      BY <1>3, MapOfText
    <3> QED BY <1>5, <1>6, <3>1
  <2>2. \E n \in 1..Len(r) : r[n].key = k
    BY <1>1, <2>1 DEF KeptIn
  <2> QED BY <2>1, <2>2, MapOfRows
<1>7. ASSUME NEW k \in DOMAIN RowsToEnvVars(r)
      PROVE  k \in DOMAIN ParseDotenv(t) /\ ParseDotenv(t)[k] = Unescape(Escape(RowsToEnvVars(r)[k]))
  <2>1. k \in EnvKey
    BY <1>7, MapOfRows
  <2>2. PICK n : IsLastAt(r, 1..Len(r), k, n)
    BY <1>7, MapOfRows
  <2>3. PICK m : IsLastAt(t, 1..Len(t), k, m) /\ t[m].value = Escape(r[n].value)
    BY <1>1, <2>1, <2>2 DEF KeptIn
  <2>4. m \in ValuedAt(t) /\ t[m].key = k /\ IsLastAt(t, ValuedAt(t), k, m)
    BY <1>5, <2>3 DEF IsLastAt
  <2>5. k \in DOMAIN ParseDotenv(t)
    BY <1>3, <2>1, <2>4, MapOfText
  <2>6. ParseDotenv(t)[k] = Unescape(t[m].value)
    BY <1>3, <2>4, <2>5, MapOfText
  <2>7. RowsToEnvVars(r)[k] = r[n].value
    BY <1>7, <2>2, MapOfRows
  <2> QED BY <2>3, <2>5, <2>6, <2>7
<1>8. DOMAIN ParseDotenv(t) = DOMAIN RowsToEnvVars(r)
  BY <1>6, <1>7
<1> QED BY <1>2, <1>3, <1>4, <1>7, <1>8 DEF t

LEMMA NoRowsFit ==
  ASSUME NEW r \in Seq(RowType)
  PROVE  /\ OrNoRows(r) \in Seq(RowType) /\ RowsToEnvVars(OrNoRows(r)) = RowsToEnvVars(r)
         /\ Len(OrNoRows(r)) = IF Len(r) = 0 THEN 1 ELSE Len(r)
         /\ NoRows \in Seq(RowType)
<1>1. NoRows \in Seq(RowType) /\ Len(NoRows) = 1 /\ NoRows[1].key = NoKey
  <2>1. [key |-> NoKey, value |-> <<>>] \in RowType
    BY DEF RowType
  <2> QED BY <2>1 DEF NoRows
<1>2. CASE r = <<>>
  <2>1. OrNoRows(r) = NoRows /\ Len(r) = 0
    BY <1>2 DEF OrNoRows
  <2>2. KeysAt(NoRows, DOMAIN NoRows) = {}
    <3>1. DOMAIN NoRows = 1..1
      BY <1>1
    <3> QED BY <1>1, <3>1, EnvironmentAssumption DEF KeysAt
  <2>3. KeysAt(r, DOMAIN r) = {}
    BY <1>2 DEF KeysAt
  <2>4. RowsToEnvVars(NoRows) = RowsToEnvVars(r)
    BY <2>2, <2>3 DEF RowsToEnvVars
  <2> QED BY <1>1, <2>1, <2>4
<1>3. CASE r # <<>>
  BY <1>1, <1>3 DEF OrNoRows
<1> QED BY <1>2, <1>3

\* The rows of a text, before the empty one that stands for none.
ReadRow(line) == [key |-> line.key, value |-> IF line.value = NoEquals THEN <<>> ELSE Unescape(line.value)]

LEMMA RowsOfText ==
  ASSUME NEW t \in Seq(LineType), NoEqualsApart(t)
  PROVE  /\ DotenvTextToRows(t) \in Seq(RowType)
         /\ Len(DotenvTextToRows(t)) = IF Len(t) = 0 THEN 1 ELSE Len(t)
         /\ \A k \in DOMAIN ParseDotenv(t) :
              /\ k \in DOMAIN RowsToEnvVars(DotenvTextToRows(t))
              /\ RowsToEnvVars(DotenvTextToRows(t))[k] = ParseDotenv(t)[k]
         /\ \A k \in DOMAIN RowsToEnvVars(DotenvTextToRows(t)) \ DOMAIN ParseDotenv(t) :
              RowsToEnvVars(DotenvTextToRows(t))[k] = <<>>
<1> DEFINE r == [n \in DOMAIN t |-> ReadRow(t[n])]
<1>1. DOMAIN t = 1..Len(t) /\ Len(t) \in Nat
  OBVIOUS
<1>2. ASSUME NEW n \in 1..Len(t)
      PROVE  /\ ReadRow(t[n]) \in RowType /\ ReadRow(t[n]).key = t[n].key
             /\ t[n].value # NoEquals => ReadRow(t[n]).value = Unescape(t[n].value)
             /\ t[n].value = NoEquals => ReadRow(t[n]).value = <<>>
  <2>1. t[n] \in LineType
    OBVIOUS
  <2>2. CASE t[n].value = NoEquals
    BY <2>1, <2>2 DEF LineType, RowType, ReadRow
  <2>3. CASE t[n].value # NoEquals
    <3>1. t[n].value \in Seq(Char) /\ t[n].key \in EnvKey \cup {DraftKey}
      BY <2>1, <2>3 DEF LineType
    <3>2. Unescape(t[n].value) \in Seq(Char)
      BY <3>1, UnescapeType
    <3> QED BY <2>3, <3>1, <3>2 DEF RowType, ReadRow
  <2> QED BY <2>2, <2>3
<1>3. r \in Seq(RowType) /\ Len(r) = Len(t) /\ \A n \in 1..Len(t) : r[n] = ReadRow(t[n])
  BY <1>1, <1>2
<1>4. DotenvTextToRows(t) = OrNoRows(r)
  BY DEF DotenvTextToRows, ReadRow
<1> HIDE DEF r
<1>5. /\ OrNoRows(r) \in Seq(RowType) /\ RowsToEnvVars(OrNoRows(r)) = RowsToEnvVars(r)
      /\ Len(OrNoRows(r)) = IF Len(t) = 0 THEN 1 ELSE Len(t)
  BY <1>3, NoRowsFit
<1>6. ASSUME NEW k \in DOMAIN ParseDotenv(t)
      PROVE  k \in DOMAIN RowsToEnvVars(r) /\ RowsToEnvVars(r)[k] = ParseDotenv(t)[k]
  <2>1. PICK n : IsLastAt(t, ValuedAt(t), k, n)
    BY <1>6, MapOfText
  <2>2. ParseDotenv(t)[k] = Unescape(t[n].value) /\ k \in EnvKey
    BY <1>6, <2>1, MapOfText
  <2>3. /\ n \in 1..Len(t) /\ t[n].value # NoEquals /\ t[n].key = k
        /\ \A m \in 1..Len(t) : t[m].value # NoEquals /\ t[m].key = k => m <= n
    BY <2>1 DEF IsLastAt, ValuedAt
  <2>4. ASSUME NEW m \in 1..Len(r), r[m].key = k PROVE m <= n
    <3>1. t[m].key = k /\ m \in 1..Len(t)
      BY <1>2, <1>3, <2>4
    <3>2. t[m].value # NoEquals
      BY <1>1, <2>3, <3>1 DEF NoEqualsApart
    <3> QED BY <2>3, <3>1, <3>2
  <2>5. r[n].key = k /\ r[n].value = Unescape(t[n].value) /\ n \in 1..Len(r)
    BY <1>2, <1>3, <2>3
  <2>6. IsLastAt(r, 1..Len(r), k, n)
    BY <2>4, <2>5 DEF IsLastAt
  <2>7. k \in DOMAIN RowsToEnvVars(r)
    BY <1>3, <2>2, <2>5, MapOfRows
  <2>8. RowsToEnvVars(r)[k] = r[n].value
    BY <1>3, <2>6, <2>7, MapOfRows
  <2> QED BY <2>2, <2>5, <2>7, <2>8
<1>7. ASSUME NEW k \in DOMAIN RowsToEnvVars(r), k \notin DOMAIN ParseDotenv(t)
      PROVE  RowsToEnvVars(r)[k] = <<>>
  <2>1. PICK n : IsLastAt(r, 1..Len(r), k, n)
    BY <1>3, <1>7, MapOfRows
  <2>2. RowsToEnvVars(r)[k] = r[n].value /\ k \in EnvKey
    BY <1>3, <1>7, <2>1, MapOfRows
  <2>3. n \in 1..Len(r) /\ r[n].key = k
    BY <2>1 DEF IsLastAt
  <2>4. n \in 1..Len(t) /\ t[n].key = k
    BY <1>2, <1>3, <2>3
  <2>5. n \notin ValuedAt(t)
    BY <1>7, <2>2, <2>4, MapOfText
  <2>6. t[n].value = NoEquals
    BY <2>4, <2>5 DEF ValuedAt
  <2> QED BY <1>2, <1>3, <2>2, <2>4, <2>6
<1> QED BY <1>4, <1>5, <1>6, <1>7

LEMMA RowsOfMap ==
  ASSUME NEW m, IsMap(m)
  PROVE  /\ EnvVarsToRows(m) \in Seq(RowType) /\ Len(EnvVarsToRows(m)) <= RowLimit
         /\ RowsToEnvVars(EnvVarsToRows(m)) = m
<1> DEFINE S == DOMAIN m
           k == Cardinality(S)
           s == SetToSeq(S)
           r == [n \in DOMAIN s |-> [key |-> s[n], value |-> m[s[n]]]]
<1>1. S \subseteq EnvKey /\ m \in [S -> Seq(Char)] /\ IsFiniteSet(S) /\ k <= RowLimit
  BY DEF IsMap
<1>2. k \in Nat /\ ExistsBijection(1..k, S)
  BY <1>1, FS_CardinalityType
<1>3. \E f \in [1..k -> S] : IsInjective(f)
  BY <1>2 DEF ExistsBijection, Bijection, Injection, IsInjective
<1>4. s \in [1..k -> S] /\ IsInjective(s)
  BY <1>3 DEF SetToSeq
<1> HIDE DEF s, S
<1>5. Cardinality(1..k) = k
  <2>1. 1 \in Int /\ k \in Int
    BY <1>2
  <2>2. Cardinality(1..k) = IF 1 > k THEN 0 ELSE k - 1 + 1
    BY <2>1, FS_Interval
  <2> QED BY <1>2, <2>2
<1>6. s \in Surjection(1..k, S)
  <2>1. s \in Injection(1..k, S)
    BY <1>4 DEF Injection, IsInjective
  <2> QED BY <1>1, <1>5, <2>1, FS_Injection
<1> HIDE DEF k
<1>7. EnvVarsToRows(m) = r
  BY DEF EnvVarsToRows, s, S
<1>8. ASSUME NEW n \in 1..k PROVE /\ [key |-> s[n], value |-> m[s[n]]] \in RowType
  <2>1. s[n] \in S
    BY <1>4
  <2> QED BY <1>1, <2>1 DEF RowType
<1>9. r \in Seq(RowType) /\ Len(r) = k /\ \A n \in 1..k : r[n].key = s[n] /\ r[n].value = m[s[n]]
  <2>1. DOMAIN s = 1..k
    BY <1>4
  <2> QED BY <1>2, <1>8, <2>1
<1> HIDE DEF r
<1>10. DOMAIN RowsToEnvVars(r) = S
  <2>1. \A x \in S : \E n \in 1..k : s[n] = x
    BY <1>6 DEF Surjection
  <2>2. \A n \in 1..k : s[n] \in S
    BY <1>4
  <2>3. DOMAIN RowsToEnvVars(r) = {x \in EnvKey : \E n \in 1..k : r[n].key = x}
    BY <1>9, MapOfRows
  <2>4. ASSUME NEW x \in S PROVE x \in EnvKey /\ \E n \in 1..k : r[n].key = x
    <3>1. PICK n \in 1..k : s[n] = x
      BY <2>1
    <3> QED BY <1>1, <1>9, <3>1
  <2>5. ASSUME NEW n \in 1..k PROVE r[n].key \in S
    BY <1>9, <2>2
  <2> QED BY <2>3, <2>4, <2>5
<1>11. ASSUME NEW x \in S PROVE RowsToEnvVars(r)[x] = m[x]
  <2>1. x \in DOMAIN RowsToEnvVars(r)
    BY <1>10
  <2>2. PICK n : IsLastAt(r, 1..Len(r), x, n)
    <3>1. \A j \in DOMAIN RowsToEnvVars(r) : \E n : IsLastAt(r, 1..Len(r), j, n)
      BY <1>9, MapOfRows
    <3> QED BY <2>1, <3>1
  <2>3. RowsToEnvVars(r)[x] = r[n].value
    <3>1. \A j \in DOMAIN RowsToEnvVars(r) : \A i :
            IsLastAt(r, 1..Len(r), j, i) => RowsToEnvVars(r)[j] = r[i].value
      BY <1>9, MapOfRows
    <3> QED BY <2>1, <2>2, <3>1
  <2>4. n \in 1..k /\ s[n] = x
    BY <1>9, <2>2 DEF IsLastAt
  <2> QED BY <1>9, <2>3, <2>4
<1>12. RowsToEnvVars(r) = [x \in S |-> RowsToEnvVars(r)[x]]
  BY <1>10 DEF RowsToEnvVars
<1>13. RowsToEnvVars(r) = m
  BY <1>1, <1>11, <1>12
<1> QED BY <1>1, <1>7, <1>9, <1>13


-----------------------------------------------------------------------------
(* What is shown and what would be saved                                   *)

Faithful(shown, map) ==
  /\ \A k \in DOMAIN map : NoBackslash(map[k]) => k \in DOMAIN shown /\ shown[k] = map[k]
  /\ \A k \in DOMAIN shown \ DOMAIN map : shown[k] = <<>>

\* The rows, the text and the maps within their bounds, the text without two lines
\* for the key of one that has no =.
EditorFits ==
  /\ tab \in {"table", "text"}
  /\ rows \in Seq(RowType) /\ Len(rows) \in 1..RowLimit
  /\ text \in Seq(LineType) /\ Len(text) \in 0..RowLimit /\ NoEqualsApart(text)
  /\ IsMap(committed) /\ IsMap(saved)
EnvInv == EditorFits /\ ShownIsCommitted

LEMMA FaithfulOnce == ASSUME NEW map PROVE Faithful(map, map)
BY DEF Faithful

LEMMA ShownFaithful ==
  ShownIsCommitted <=> Faithful(IF tab = "table" THEN RowsToEnvVars(rows) ELSE ParseDotenv(text), committed)
BY DEF ShownIsCommitted, Shown, Faithful

LEMMA ShownFaithfulNext ==
  ShownIsCommitted' <=> Faithful(IF tab' = "table" THEN RowsToEnvVars(rows') ELSE ParseDotenv(text'), committed')
BY DEF ShownIsCommitted, Shown, Faithful

LEMMA NothingIsMap == IsMap(<<>>)
<1>1. DOMAIN <<>> = {}
  OBVIOUS
<1>2. IsFiniteSet({}) /\ Cardinality({}) = 0 /\ RowLimit \in Nat
  BY FS_EmptySet, EnvironmentAssumption
<1>3. <<>> \in [{} -> Seq(Char)]
  OBVIOUS
<1> QED BY <1>1, <1>2, <1>3 DEF IsMap

LEMMA EnvInvInit == EnvironmentInit => EnvInv
<1> SUFFICES ASSUME EnvironmentInit PROVE EnvInv
  OBVIOUS
<1>1. tab = "table" /\ rows = NoRows /\ text = <<>> /\ committed = <<>> /\ saved = <<>>
  BY DEF EnvironmentInit
<1>2. NoRows \in Seq(RowType) /\ Len(NoRows) = 1
  <2>1. <<>> \in Seq(RowType)
    OBVIOUS
  <2> QED BY <2>1, NoRowsFit DEF NoRows
<1>3. RowLimit \in Nat \ {0}
  BY EnvironmentAssumption
<1>4. NoEqualsApart(<<>>) /\ <<>> \in Seq(LineType) /\ Len(<<>>) = 0
  BY DEF NoEqualsApart
<1>5. EditorFits
  BY <1>1, <1>2, <1>3, <1>4, NothingIsMap DEF EditorFits
<1>6. RowsToEnvVars(NoRows) = <<>>
  <2>1. DOMAIN NoRows = {1} /\ NoRows[1].key = NoKey
    BY DEF NoRows
  <2>2. KeysAt(NoRows, DOMAIN NoRows) = {}
    BY <2>1, EnvironmentAssumption DEF KeysAt
  <2>3. RowsToEnvVars(NoRows) = [k \in {} |-> NoRows[LastAt(NoRows, DOMAIN NoRows, k)].value]
    BY <2>2 DEF RowsToEnvVars
  <2> QED BY <2>3
<1>7. ShownIsCommitted
  BY <1>1, <1>6, ShownFaithful, FaithfulOnce
<1> QED BY <1>5, <1>7 DEF EnvInv

LEMMA ApplyRowsKeeps ==
  ASSUME EnvInv, NEW next \in Seq(RowType), Len(next) <= RowLimit, ApplyRows(next), tab = "table"
  PROVE  EnvInv'
<1>1. /\ rows' = OrNoRows(next) /\ text' = RowsToDotenvText(next)
      /\ committed' = RowsToEnvVars(next) /\ tab' = tab /\ saved' = saved
  BY DEF ApplyRows
<1>2. RowLimit \in Nat \ {0} /\ Len(next) \in Nat
  BY EnvironmentAssumption
<1>3. rows' \in Seq(RowType) /\ Len(rows') \in 1..RowLimit /\ RowsToEnvVars(rows') = RowsToEnvVars(next)
  <2>1. rows' \in Seq(RowType) /\ RowsToEnvVars(rows') = RowsToEnvVars(next)
    BY <1>1, NoRowsFit
  <2>2. Len(rows') = IF Len(next) = 0 THEN 1 ELSE Len(next)
    BY <1>1, NoRowsFit
  <2> QED BY <1>2, <2>1, <2>2
<1>4. text' \in Seq(LineType) /\ Len(text') \in 0..RowLimit /\ NoEqualsApart(text')
  <2>1. text' \in Seq(LineType) /\ Len(text') <= Len(next) /\ NoEqualsApart(text')
    BY <1>1, TextOfRows
  <2>2. Len(text') \in Nat
    BY <2>1
  <2> QED BY <1>2, <2>1, <2>2
<1>5. IsMap(committed') /\ IsMap(saved')
  BY <1>1, MapOfRowsType DEF EnvInv, EditorFits
<1>6. EditorFits'
  <2>1. NoEqualsApart(text)' /\ IsMap(committed)' /\ IsMap(saved)'
    BY <1>4, <1>5 DEF NoEqualsApart, IsMap
  <2> QED BY <1>1, <1>3, <1>4, <2>1 DEF EnvInv, EditorFits
<1>7. Faithful(RowsToEnvVars(rows'), committed')
  BY <1>1, <1>3, FaithfulOnce
<1>8. ShownIsCommitted'
  BY <1>1, <1>7, ShownFaithfulNext
<1> QED BY <1>6, <1>8 DEF EnvInv

LEMMA ApplyTextKeeps ==
  ASSUME EnvInv, NEW raw \in Seq(LineType), Len(raw) <= RowLimit, NoEqualsApart(raw), ApplyText(raw), tab' = "text"
  PROVE  EnvInv'
<1>1. text' = raw /\ rows' = DotenvTextToRows(raw) /\ committed' = ParseDotenv(raw) /\ saved' = saved
  BY DEF ApplyText
<1>2. RowLimit \in Nat \ {0} /\ Len(raw) \in Nat
  BY EnvironmentAssumption
<1>3. rows' \in Seq(RowType) /\ Len(rows') \in 1..RowLimit
  <2>1. /\ DotenvTextToRows(raw) \in Seq(RowType)
        /\ Len(DotenvTextToRows(raw)) = IF Len(raw) = 0 THEN 1 ELSE Len(raw)
    BY RowsOfText
  <2> QED BY <1>1, <1>2, <2>1
<1>5. IsMap(committed') /\ IsMap(saved')
  BY <1>1, MapOfTextType DEF EnvInv, EditorFits
<1>6. EditorFits'
  <2>1. NoEqualsApart(text)' /\ IsMap(committed)' /\ IsMap(saved)'
    BY <1>1, <1>5 DEF NoEqualsApart, IsMap
  <2> QED BY <1>1, <1>2, <1>3, <2>1 DEF EditorFits
<1>7. Faithful(ParseDotenv(text'), committed')
  BY <1>1, FaithfulOnce
<1>8. ShownIsCommitted'
  BY <1>7, ShownFaithfulNext
<1> QED BY <1>6, <1>8 DEF EnvInv


LEMMA RowsEdited ==
  ASSUME EditorFits
  PROVE  /\ \A n \in DOMAIN rows, k \in EnvKey \cup {DraftKey, NoKey} :
              [rows EXCEPT ![n].key = k] \in Seq(RowType) /\ Len([rows EXCEPT ![n].key = k]) = Len(rows)
         /\ \A n \in DOMAIN rows, v \in EnvValue :
              [rows EXCEPT ![n].value = v] \in Seq(RowType) /\ Len([rows EXCEPT ![n].value = v]) = Len(rows)
         /\ \A n \in DOMAIN rows :
              RemoveAt(rows, n) \in Seq(RowType) /\ Len(RemoveAt(rows, n)) <= Len(rows)
         /\ rows \o NoRows \in Seq(RowType) /\ Len(rows \o NoRows) = Len(rows) + 1
<1>1. rows \in Seq(RowType) /\ DOMAIN rows = 1..Len(rows) /\ Len(rows) \in Nat
  BY DEF EditorFits
<1>2. ASSUME NEW n \in DOMAIN rows, NEW k \in EnvKey \cup {DraftKey, NoKey}
      PROVE  [rows EXCEPT ![n].key = k] \in Seq(RowType) /\ Len([rows EXCEPT ![n].key = k]) = Len(rows)
  <2>1. rows[n] \in RowType
    BY <1>1
  <2>2. [rows[n] EXCEPT !.key = k] \in RowType
    BY <2>1 DEF RowType
  <2>3. [rows EXCEPT ![n].key = k] = [rows EXCEPT ![n] = [rows[n] EXCEPT !.key = k]]
    OBVIOUS
  <2> QED BY <1>1, <2>2, <2>3
<1>3. ASSUME NEW n \in DOMAIN rows, NEW v \in EnvValue
      PROVE  [rows EXCEPT ![n].value = v] \in Seq(RowType) /\ Len([rows EXCEPT ![n].value = v]) = Len(rows)
  <2>1. rows[n] \in RowType /\ v \in Seq(Char)
    BY <1>1, EnvironmentAssumption
  <2>2. [rows[n] EXCEPT !.value = v] \in RowType
    BY <2>1 DEF RowType
  <2>3. [rows EXCEPT ![n].value = v] = [rows EXCEPT ![n] = [rows[n] EXCEPT !.value = v]]
    OBVIOUS
  <2> QED BY <1>1, <2>2, <2>3
<1>4. ASSUME NEW n \in DOMAIN rows
      PROVE  RemoveAt(rows, n) \in Seq(RowType) /\ Len(RemoveAt(rows, n)) <= Len(rows)
  <2> DEFINE a == SubSeq(rows, 1, n - 1)
             b == SubSeq(rows, n + 1, Len(rows))
  <2>1. a \in Seq(RowType) /\ b \in Seq(RowType) /\ Len(a) = n - 1 /\ Len(b) = Len(rows) - n
    BY <1>1
  <2>2. RemoveAt(rows, n) = a \o b
    BY DEF RemoveAt
  <2> HIDE DEF a, b
  <2>3. a \o b \in Seq(RowType) /\ Len(a \o b) = Len(a) + Len(b)
    BY <2>1, ConcatProperties
  <2>4. n \in Nat /\ Len(a) + Len(b) <= Len(rows)
    BY <1>1, <2>1
  <2> QED BY <2>2, <2>3, <2>4
<1>5. rows \o NoRows \in Seq(RowType) /\ Len(rows \o NoRows) = Len(rows) + 1
  <2>1. NoRows \in Seq(RowType) /\ Len(NoRows) = 1
    BY <1>1, NoRowsFit DEF NoRows
  <2>2. rows \o NoRows \in Seq(RowType) /\ Len(rows \o NoRows) = Len(rows) + Len(NoRows)
    BY <1>1, <2>1, ConcatProperties
  <2> QED BY <2>1, <2>2
<1> QED BY <1>2, <1>3, <1>4, <1>5

LEMMA TextsFit ==
  ASSUME NEW raw \in Texts
  PROVE  raw \in Seq(LineType) /\ Len(raw) <= RowLimit /\ NoEqualsApart(raw)
<1>1. raw \in SeqOf(TextLine, RowLimit) /\ NoEqualsApart(raw)
  BY DEF Texts, NoEqualsApart
<1>2. PICK k \in 0..RowLimit : raw \in [1..k -> TextLine]
  BY <1>1 DEF SeqOf
<1>3. RowLimit \in Nat
  BY EnvironmentAssumption
<1>4. raw \in Seq(TextLine) /\ Len(raw) = k
  BY <1>2, <1>3
<1>5. ASSUME NEW n \in 1..k PROVE raw[n] \in LineType
  <2>1. raw[n] \in TextLine /\ Written \subseteq Seq(Char)
    BY <1>2, EnvironmentAssumption
  <2> QED BY <2>1 DEF TextLine, LineType
<1>6. raw \in Seq(LineType)
  BY <1>2, <1>3, <1>5
<1> QED BY <1>1, <1>2, <1>3, <1>4, <1>6

LEMMA SwitchKeeps ==
  ASSUME EnvInv, SwitchMode
  PROVE  EnvInv'
<1>1. /\ tab \in {"table", "text"} /\ rows \in Seq(RowType) /\ Len(rows) \in 1..RowLimit
      /\ text \in Seq(LineType) /\ Len(text) \in 0..RowLimit /\ NoEqualsApart(text)
      /\ IsMap(committed) /\ IsMap(saved) /\ RowLimit \in Nat \ {0}
  BY EnvironmentAssumption DEF EnvInv, EditorFits
<1>2. committed' = committed /\ saved' = saved
  BY DEF SwitchMode
<1>3. IsMap(committed)' /\ IsMap(saved)'
  BY <1>1, <1>2 DEF IsMap
<1>4. CASE tab = "text"
  <2>1. tab' = "table" /\ rows' = DotenvTextToRows(text) /\ text' = text
    BY <1>4 DEF SwitchMode
  <2>2. rows' \in Seq(RowType) /\ Len(rows') \in 1..RowLimit
    <3>1. /\ DotenvTextToRows(text) \in Seq(RowType)
          /\ Len(DotenvTextToRows(text)) = IF Len(text) = 0 THEN 1 ELSE Len(text)
      BY <1>1, RowsOfText
    <3> QED BY <1>1, <2>1, <3>1
  <2>3. EditorFits'
    <3>1. NoEqualsApart(text)'
      BY <1>1, <2>1 DEF NoEqualsApart
    <3> QED BY <1>1, <1>3, <2>1, <2>2, <3>1 DEF EditorFits
  <2>4. Faithful(ParseDotenv(text), committed)
    BY <1>4, ShownFaithful DEF EnvInv
  <2>5. Faithful(RowsToEnvVars(DotenvTextToRows(text)), committed)
    <3> DEFINE shown == ParseDotenv(text)
               next == RowsToEnvVars(DotenvTextToRows(text))
    <3>1. \A k \in DOMAIN shown : k \in DOMAIN next /\ next[k] = shown[k]
      BY <1>1, RowsOfText
    <3>2. \A k \in DOMAIN next \ DOMAIN shown : next[k] = <<>>
      BY <1>1, RowsOfText
    <3> HIDE DEF shown, next
    <3>3. Faithful(shown, committed)
      BY <2>4 DEF shown
    <3>4. Faithful(next, committed)
      BY <3>1, <3>2, <3>3 DEF Faithful
    <3> QED BY <3>4 DEF next
  <2>6. ShownIsCommitted'
    BY <1>2, <2>1, <2>5, ShownFaithfulNext
  <2> QED BY <2>3, <2>6 DEF EnvInv
<1>5. CASE tab = "table"
  <2>1. tab' = "text" /\ text' = RowsToDotenvText(rows) /\ rows' = rows
    BY <1>5 DEF SwitchMode
  <2>2. text' \in Seq(LineType) /\ Len(text') \in 0..RowLimit /\ NoEqualsApart(text')
    <3>1. text' \in Seq(LineType) /\ Len(text') <= Len(rows) /\ NoEqualsApart(text')
      BY <1>1, <2>1, TextOfRows
    <3>2. Len(text') \in Nat
      BY <3>1
    <3> QED BY <1>1, <3>1, <3>2
  <2>3. EditorFits'
    <3>1. NoEqualsApart(text)'
      BY <2>2 DEF NoEqualsApart
    <3> QED BY <1>1, <1>3, <2>1, <2>2, <3>1 DEF EditorFits
  <2>4. Faithful(RowsToEnvVars(rows), committed)
    BY <1>5, ShownFaithful DEF EnvInv
  <2>5. Faithful(ParseDotenv(RowsToDotenvText(rows)), committed)
    <3> DEFINE shown == RowsToEnvVars(rows)
               next == ParseDotenv(RowsToDotenvText(rows))
    <3>1. DOMAIN next = DOMAIN shown /\ \A k \in DOMAIN shown : next[k] = Unescape(Escape(shown[k]))
      BY <1>1, TextOfRows
    <3>2. \A k \in DOMAIN shown : shown[k] \in Seq(Char)
      <4>1. IsMap(shown)
        BY <1>1, MapOfRowsType
      <4> HIDE DEF shown
      <4> QED BY <4>1 DEF IsMap
    <3>3. NoBackslash(<<>>) /\ <<>> \in Seq(Char)
      BY DEF NoBackslash, ToSet
    <3> HIDE DEF shown, next
    <3>4. ASSUME NEW k \in DOMAIN shown, NoBackslash(shown[k]) PROVE next[k] = shown[k]
      BY <3>1, <3>2, <3>4, ReadsBack
    <3>5. Faithful(shown, committed)
      BY <2>4 DEF shown
    <3>6. ASSUME NEW k \in DOMAIN committed, NoBackslash(committed[k])
          PROVE  k \in DOMAIN next /\ next[k] = committed[k]
      <4>1. k \in DOMAIN shown /\ shown[k] = committed[k]
        BY <3>5, <3>6 DEF Faithful
      <4> QED BY <3>1, <3>4, <3>6, <4>1
    <3>7. ASSUME NEW k \in DOMAIN next, k \notin DOMAIN committed PROVE next[k] = <<>>
      <4>1. k \in DOMAIN shown /\ shown[k] = <<>>
        BY <3>1, <3>5, <3>7 DEF Faithful
      <4> QED BY <3>3, <3>4, <4>1
    <3>8. Faithful(next, committed)
      BY <3>6, <3>7 DEF Faithful
    <3> QED BY <3>8 DEF next
  <2>6. ShownIsCommitted'
    BY <1>2, <2>1, <2>5, ShownFaithfulNext
  <2> QED BY <2>3, <2>6 DEF EnvInv
<1> QED BY <1>1, <1>4, <1>5

LEMMA ReloadKeeps ==
  ASSUME EnvInv, ReloadEnv
  PROVE  EnvInv'
<1>1. /\ tab \in {"table", "text"} /\ IsMap(saved) /\ RowLimit \in Nat \ {0}
  BY EnvironmentAssumption DEF EnvInv, EditorFits
<1>2. /\ committed' = saved /\ saved' = saved /\ tab' = tab
      /\ text' = RowsToDotenvText(EnvVarsToRows(saved)) /\ rows' = OrNoRows(EnvVarsToRows(saved))
  BY DEF ReloadEnv, EnvVarsToDotenv
<1> DEFINE r == EnvVarsToRows(saved)
<1>3. r \in Seq(RowType) /\ Len(r) <= RowLimit /\ RowsToEnvVars(r) = saved
  BY <1>1, RowsOfMap
<1> HIDE DEF r
<1>4. Len(r) \in Nat
  BY <1>3
<1>5. rows' \in Seq(RowType) /\ Len(rows') \in 1..RowLimit /\ RowsToEnvVars(rows') = saved
  <2>1. /\ OrNoRows(r) \in Seq(RowType) /\ RowsToEnvVars(OrNoRows(r)) = RowsToEnvVars(r)
        /\ Len(OrNoRows(r)) = IF Len(r) = 0 THEN 1 ELSE Len(r)
    BY <1>3, NoRowsFit
  <2>2. rows' = OrNoRows(r)
    BY <1>2 DEF r
  <2> QED BY <1>1, <1>3, <1>4, <2>1, <2>2
<1>6. /\ text' \in Seq(LineType) /\ Len(text') <= Len(r) /\ NoEqualsApart(text')
      /\ DOMAIN ParseDotenv(text') = DOMAIN saved
      /\ \A k \in DOMAIN saved : ParseDotenv(text')[k] = Unescape(Escape(saved[k]))
  <2>1. text' = RowsToDotenvText(r)
    BY <1>2 DEF r
  <2> QED BY <1>3, <2>1, TextOfRows
<1>7. EditorFits'
  <2>1. Len(text') \in Nat
    BY <1>6
  <2>2. Len(text') \in 0..RowLimit
    BY <1>1, <1>3, <1>4, <1>6, <2>1
  <2>3. NoEqualsApart(text)' /\ IsMap(committed)' /\ IsMap(saved)'
    BY <1>1, <1>2, <1>6 DEF NoEqualsApart, IsMap
  <2> QED BY <1>1, <1>2, <1>5, <1>6, <2>2, <2>3 DEF EditorFits
<1>8. Faithful(RowsToEnvVars(rows'), saved)
  BY <1>5, FaithfulOnce
<1>9. Faithful(ParseDotenv(text'), saved)
  <2>1. ASSUME NEW k \in DOMAIN saved, NoBackslash(saved[k]) PROVE ParseDotenv(text')[k] = saved[k]
    <3>1. saved[k] \in Seq(Char)
      BY <1>1 DEF IsMap
    <3> QED BY <1>6, <2>1, <3>1, ReadsBack
  <2> QED BY <1>6, <2>1 DEF Faithful
<1>10. ShownIsCommitted'
  BY <1>2, <1>8, <1>9, ShownFaithfulNext
<1> QED BY <1>7, <1>10 DEF EnvInv

LEMMA EnvInvStep ==
  ASSUME EnvInv, [EnvironmentNext]_environmentVars
  PROVE  EnvInv'
<1>0. EditorFits /\ RowLimit \in Nat \ {0} /\ Len(rows) \in 1..RowLimit
  BY EnvironmentAssumption DEF EnvInv, EditorFits
<1>1. ASSUME NEW n \in 1..RowLimit, NEW k \in EnvKey \cup {DraftKey, NoKey}, TypeKey(n, k) PROVE EnvInv'
  <2>1. tab = "table" /\ n \in DOMAIN rows /\ ApplyRows([rows EXCEPT ![n].key = k])
    BY <1>1 DEF TypeKey
  <2>2. [rows EXCEPT ![n].key = k] \in Seq(RowType) /\ Len([rows EXCEPT ![n].key = k]) <= RowLimit
    BY <1>0, <2>1, RowsEdited
  <2> QED BY <2>1, <2>2, ApplyRowsKeeps
<1>2. ASSUME NEW n \in 1..RowLimit, NEW v \in EnvValue, TypeValue(n, v) PROVE EnvInv'
  <2>1. tab = "table" /\ n \in DOMAIN rows /\ ApplyRows([rows EXCEPT ![n].value = v])
    BY <1>2 DEF TypeValue
  <2>2. [rows EXCEPT ![n].value = v] \in Seq(RowType) /\ Len([rows EXCEPT ![n].value = v]) <= RowLimit
    BY <1>0, <2>1, RowsEdited
  <2> QED BY <2>1, <2>2, ApplyRowsKeeps
<1>3. ASSUME NEW n \in 1..RowLimit, DropRow(n) PROVE EnvInv'
  <2>1. tab = "table" /\ n \in DOMAIN rows /\ ApplyRows(RemoveAt(rows, n))
    BY <1>3 DEF DropRow
  <2>2. RemoveAt(rows, n) \in Seq(RowType) /\ Len(RemoveAt(rows, n)) <= Len(rows)
    BY <1>0, <2>1, RowsEdited
  <2>3. Len(RemoveAt(rows, n)) \in Nat
    BY <2>2
  <2>4. Len(RemoveAt(rows, n)) <= RowLimit
    BY <1>0, <2>2, <2>3
  <2> QED BY <2>1, <2>2, <2>4, ApplyRowsKeeps
<1>4. ASSUME AddRow PROVE EnvInv'
  <2>1. tab = "table" /\ Len(rows) < RowLimit /\ ApplyRows(rows \o NoRows)
    BY <1>4 DEF AddRow
  <2>2. rows \o NoRows \in Seq(RowType) /\ Len(rows \o NoRows) = Len(rows) + 1
    BY <1>0, RowsEdited
  <2>3. Len(rows \o NoRows) <= RowLimit
    BY <1>0, <2>1, <2>2
  <2> QED BY <2>1, <2>2, <2>3, ApplyRowsKeeps
<1>5. ASSUME NEW raw \in Texts, TypeText(raw) PROVE EnvInv'
  <2>1. ApplyText(raw) /\ tab' = "text"
    BY <1>5 DEF TypeText
  <2> QED BY <2>1, TextsFit, ApplyTextKeeps
<1>6. ASSUME NEW raw \in Texts, LoadFile(raw) PROVE EnvInv'
  <2>1. ApplyText(raw) /\ tab' = "text"
    BY <1>6 DEF LoadFile
  <2> QED BY <2>1, TextsFit, ApplyTextKeeps
<1>7. ASSUME SwitchMode PROVE EnvInv'
  BY <1>7, SwitchKeeps
<1>8. ASSUME SaveEnv PROVE EnvInv'
  BY <1>8 DEF SaveEnv, EnvInv, EditorFits, NoEqualsApart, IsMap, ShownIsCommitted, Shown
<1>9. ASSUME ReloadEnv PROVE EnvInv'
  BY <1>9, ReloadKeeps
<1>10. ASSUME UNCHANGED environmentVars PROVE EnvInv'
  BY <1>10 DEF environmentVars, EnvInv, EditorFits, NoEqualsApart, IsMap, ShownIsCommitted, Shown
<1> QED BY <1>1, <1>2, <1>3, <1>4, <1>5, <1>6, <1>7, <1>8, <1>9, <1>10 DEF EnvironmentNext

\* EnvEditor: what would be saved is what is shown, in the table and in the text,
\* after any edits, files, switches and reloads, for any keys and values.
THEOREM ShownStaysCommitted == EnvironmentSpec => []ShownIsCommitted
<1>1. EnvInv /\ [EnvironmentNext]_environmentVars => EnvInv'
  BY EnvInvStep
<1>2. EnvInv => ShownIsCommitted
  BY DEF EnvInv
<1> QED BY EnvInvInit, <1>1, <1>2, PTL DEF EnvironmentSpec


\* The editor keeps its rows, text and maps in shape.
THEOREM EditorKeepsTypes == EnvironmentSpec => []EnvironmentTypeOK
<1>1. EnvInv /\ [EnvironmentNext]_environmentVars => EnvInv'
  BY EnvInvStep
<1>2. EnvInv => EnvironmentTypeOK
  <2> SUFFICES ASSUME EditorFits PROVE EnvironmentTypeOK
    BY DEF EnvInv
  <2>1. \A n \in DOMAIN rows : rows[n].key \in EnvKey \cup {DraftKey, NoKey}
    <3> TAKE n \in DOMAIN rows
    <3>1. rows[n] \in RowType
      BY DEF EditorFits
    <3> QED BY <3>1 DEF RowType
  <2>2. \A n \in DOMAIN text : text[n].key \in EnvKey \cup {DraftKey}
    <3> TAKE n \in DOMAIN text
    <3>1. text[n] \in LineType
      BY DEF EditorFits
    <3> QED BY <3>1 DEF LineType
  <2> QED BY <2>1, <2>2 DEF EditorFits, EnvironmentTypeOK, IsMap
<1> QED BY EnvInvInit, <1>1, <1>2, PTL DEF EnvironmentSpec

-----------------------------------------------------------------------------
(* From the row to the process                                             *)

Texted(m) == \A k \in DOMAIN m : m[k] \in Seq(Char)

LEMMA ThroughAt ==
  ASSUME NEW m, Texted(m)
  PROVE  /\ DOMAIN Through(m) = DOMAIN m
         /\ \A k \in DOMAIN m : NoBackslash(m[k]) => Through(m)[k] = m[k]
<1>1. DOMAIN Through(m) = DOMAIN m /\ \A k \in DOMAIN m : Through(m)[k] = Unescape(Escape(m[k]))
  BY DEF Through
<1>2. ASSUME NEW k \in DOMAIN m, NoBackslash(m[k]) PROVE Through(m)[k] = m[k]
  <2>1. m[k] \in Seq(Char)
    BY DEF Texted
  <2> QED BY <1>1, <1>2, <2>1, ReadsBack
<1> QED BY <1>1, <1>2

LEMMA OverTexted ==
  ASSUME NEW low, NEW high, Texted(low), Texted(high)
  PROVE  Texted(Over(low, high))
<1> SUFFICES ASSUME NEW k \in DOMAIN Over(low, high) PROVE Over(low, high)[k] \in Seq(Char)
  BY DEF Texted
<1>1. CASE k \in DOMAIN high
  BY <1>1 DEF Texted, Over
<1>2. CASE k \notin DOMAIN high
  <2>1. k \in DOMAIN low
    BY <1>2 DEF Over
  <2> QED BY <1>2, <2>1 DEF Texted, Over
<1> QED BY <1>1, <1>2

LEMMA ThroughTexted ==
  ASSUME NEW m, Texted(m)
  PROVE  Texted(Through(m))
<1> SUFFICES ASSUME NEW k \in DOMAIN Through(m) PROVE Through(m)[k] \in Seq(Char)
  BY DEF Texted
<1>1. k \in DOMAIN m /\ Through(m)[k] = Unescape(Escape(m[k]))
  BY DEF Through
<1>2. m[k] \in Seq(Char)
  BY <1>1 DEF Texted
<1>3. Escape(m[k]) \in Seq(Char)
  BY <1>2, EscapeType
<1> QED BY <1>1, <1>3, UnescapeType

\* mergeAppEnv in the API and in deploy.sh: the row's value wins, then the project's,
\* then previa.yaml's, whichever values without a backslash these have.
LEMMA MergedAt ==
  ASSUME NEW layers, NEW vars, Texted(vars), Texted(layers.project), Texted(layers.yaml)
  PROVE  LET wanted == Over(Over(layers.yaml, layers.project), vars) IN
         /\ DOMAIN MergeAppEnv(layers, vars) = DOMAIN wanted
         /\ \A k \in DOMAIN wanted : NoBackslash(wanted[k]) => MergeAppEnv(layers, vars)[k] = wanted[k]
         /\ Texted(MergeAppEnv(layers, vars))
<1> DEFINE wanted == Over(Over(layers.yaml, layers.project), vars)
           p == layers.project
           y == layers.yaml
           inner == Over(p, vars)
           merged == MergeAppEnv(layers, vars)
<1>1. /\ merged = Over(y, Through(inner)) /\ Texted(inner) /\ Texted(Through(inner)) /\ Texted(merged)
  BY OverTexted, ThroughTexted DEF MergeAppEnv
<1>2. DOMAIN inner = DOMAIN p \cup DOMAIN vars /\ DOMAIN Through(inner) = DOMAIN inner
  <2>1. DOMAIN inner = DOMAIN p \cup DOMAIN vars
    BY DEF Over
  <2> HIDE DEF inner
  <2>2. DOMAIN Through(inner) = DOMAIN inner
    BY <1>1, ThroughAt
  <2> QED BY <2>1, <2>2
<1>3. DOMAIN merged = DOMAIN y \cup DOMAIN inner
  BY <1>1, <1>2 DEF Over
<1>4. DOMAIN wanted = (DOMAIN y \cup DOMAIN p) \cup DOMAIN vars
  BY DEF Over
<1>5. ASSUME NEW k \in DOMAIN wanted, NoBackslash(wanted[k]) PROVE merged[k] = wanted[k]
  <2>1. CASE k \in DOMAIN inner
    <3>1. inner[k] = wanted[k]
      <4>1. CASE k \in DOMAIN vars
        BY <4>1 DEF Over
      <4>2. CASE k \notin DOMAIN vars
        <5>1. k \in DOMAIN p /\ k \in DOMAIN Over(y, p)
          BY <1>2, <2>1, <4>2 DEF Over
        <5> QED BY <4>2, <5>1 DEF Over
      <4> QED BY <4>1, <4>2
    <3> HIDE DEF inner, wanted
    <3>2. Through(inner)[k] = inner[k]
      BY <1>1, <1>5, <2>1, <3>1, ThroughAt
    <3>3. merged[k] = Through(inner)[k]
      BY <1>1, <1>2, <2>1 DEF Over
    <3> QED BY <3>1, <3>2, <3>3
  <2>2. CASE k \notin DOMAIN inner
    <3>1. k \in DOMAIN y /\ k \notin DOMAIN p /\ k \notin DOMAIN vars /\ k \in DOMAIN Over(y, p)
      BY <1>2, <1>4, <2>2 DEF Over
    <3>2. wanted[k] = y[k]
      BY <3>1 DEF Over
    <3> HIDE DEF inner, wanted
    <3>3. merged[k] = y[k]
      BY <1>1, <1>2, <2>2, <3>1 DEF Over
    <3> QED BY <3>2, <3>3
  <2> QED BY <2>1, <2>2
<1>6. DOMAIN merged = DOMAIN wanted
  BY <1>2, <1>3, <1>4
<1> QED BY <1>1, <1>5, <1>6

LEMMA Pm2At ==
  ASSUME NEW layers, NEW vars, Texted(vars), Texted(layers.project), Texted(layers.yaml)
  PROVE  LET wanted == Over(Over(Over(layers.checkout, layers.yaml), layers.project), vars) IN
         /\ Pm2Env(layers, vars)[PortKey] = PortValue
         /\ \A k \in DOMAIN wanted \ {PortKey} :
              NoBackslash(wanted[k]) => Pm2Env(layers, vars)[k] = wanted[k]
<1> DEFINE c == layers.checkout
           y == layers.yaml
           p == layers.project
           wanted == Over(Over(Over(c, y), p), vars)
           below == Over(Over(y, p), vars)
           merged == MergeAppEnv(layers, vars)
           port == [k \in {PortKey} |-> PortValue]
           under == Over(c, Through(merged))
<1>1. DOMAIN port = {PortKey} /\ port[PortKey] = PortValue
  OBVIOUS
<1>2. Pm2Env(layers, vars) = Over(under, port)
  BY DEF Pm2Env
<1>3. /\ DOMAIN merged = DOMAIN below /\ Texted(merged)
      /\ \A k \in DOMAIN below : NoBackslash(below[k]) => merged[k] = below[k]
  BY MergedAt
<1>4. DOMAIN wanted = ((DOMAIN c \cup DOMAIN y) \cup DOMAIN p) \cup DOMAIN vars
  BY DEF Over
<1>5. DOMAIN below = (DOMAIN y \cup DOMAIN p) \cup DOMAIN vars
  BY DEF Over
<1>6. \A k \in DOMAIN below : wanted[k] = below[k]
  BY DEF Over
<1>7. \A k \in DOMAIN wanted \ DOMAIN below : wanted[k] = c[k] /\ k \in DOMAIN c
  BY DEF Over
<1> HIDE DEF port, merged, below, wanted
<1>8. DOMAIN Through(merged) = DOMAIN merged
      /\ \A k \in DOMAIN merged : NoBackslash(merged[k]) => Through(merged)[k] = merged[k]
  BY <1>3, ThroughAt
<1>9. Pm2Env(layers, vars)[PortKey] = PortValue
  BY <1>1, <1>2 DEF Over
<1>10. ASSUME NEW k \in DOMAIN wanted, k # PortKey, NoBackslash(wanted[k])
       PROVE  Pm2Env(layers, vars)[k] = wanted[k]
  <2>1. CASE k \in DOMAIN below
    <3>1. merged[k] = wanted[k]
      BY <1>3, <1>6, <1>10, <2>1
    <3>2. Through(merged)[k] = wanted[k]
      BY <1>3, <1>8, <1>10, <2>1, <3>1
    <3>3. k \in DOMAIN under /\ under[k] = Through(merged)[k]
      BY <1>3, <1>8, <2>1 DEF Over
    <3> HIDE DEF under
    <3>4. Over(under, port)[k] = under[k]
      BY <1>1, <1>10, <3>3 DEF Over
    <3> QED BY <1>2, <3>2, <3>3, <3>4
  <2>2. CASE k \notin DOMAIN below
    <3>1. wanted[k] = c[k] /\ k \in DOMAIN c
      BY <1>7, <2>2
    <3>2. k \in DOMAIN under /\ under[k] = c[k]
      BY <1>3, <1>8, <2>2, <3>1 DEF Over
    <3> HIDE DEF under
    <3>3. Over(under, port)[k] = under[k]
      BY <1>1, <1>10, <3>2 DEF Over
    <3> QED BY <1>2, <3>1, <3>2, <3>3
  <2> QED BY <2>1, <2>2
<1> QED BY <1>9, <1>10 DEF wanted

LEMMA SavedReaches == IsMap(saved) => ProcessGetsSettings
<1> SUFFICES ASSUME IsMap(saved), NEW layers \in Layers
             PROVE  LET wanted == Over(Over(Over(layers.checkout, layers.yaml), layers.project), saved)
                        docker == Over(Over(layers.yaml, layers.project), saved) IN
                    /\ Pm2Env(layers, saved)[PortKey] = PortValue
                    /\ \A k \in DOMAIN wanted \ {PortKey} :
                         NoBackslash(wanted[k]) => Pm2Env(layers, saved)[k] = wanted[k]
                    /\ \A k \in DOMAIN docker :
                         docker[k] # <<>> /\ ToSet(docker[k]) \cap Special = {} =>
                           DockerEnv(layers, saved)[k] = docker[k]
  BY DEF ProcessGetsSettings
<1>1. Texted(saved)
  BY DEF IsMap, Texted
<1>2. Texted(<<>>) /\ Texted(Layer(EnvKey, "dq")) /\ Texted(Layer(EnvKey, "nl"))
  <2>1. <<"dq">> \in Seq(Char) /\ <<"nl">> \in Seq(Char)
    BY Chars
  <2> QED BY <2>1 DEF Texted, Layer
<1>3. Texted(layers.project) /\ Texted(layers.yaml)
  BY <1>2 DEF Layers
<1> DEFINE docker == Over(Over(layers.yaml, layers.project), saved)
           merged == MergeAppEnv(layers, saved)
<1>4. /\ DOMAIN merged = DOMAIN docker
      /\ \A k \in DOMAIN docker : NoBackslash(docker[k]) => merged[k] = docker[k]
  BY <1>1, <1>3, MergedAt
<1>5. \A k \in DOMAIN merged : DockerEnv(layers, saved)[k] = Escape(merged[k])
  BY DEF DockerEnv
<1> HIDE DEF docker, merged
<1>6. ASSUME NEW k \in DOMAIN docker, docker[k] # <<>>, ToSet(docker[k]) \cap Special = {}
      PROVE  DockerEnv(layers, saved)[k] = docker[k]
  <2>1. NoBackslash(docker[k])
    BY <1>6 DEF NoBackslash, Special
  <2>2. merged[k] = docker[k]
    BY <1>4, <2>1
  <2>3. Escape(docker[k]) = docker[k]
    BY <1>6 DEF Escape
  <2> QED BY <1>4, <1>5, <2>2, <2>3
<1> QED BY <1>1, <1>3, <1>6, Pm2At DEF docker

\* deploy-exec.helper.ts, deploy.sh: a process is started with what was saved for its
\* preview over the other layers, whatever was typed and however often it was written
\* and read on the way.
THEOREM SettingsArrive == EnvironmentSpec => []ProcessGetsSettings
<1>1. EnvInv /\ [EnvironmentNext]_environmentVars => EnvInv'
  BY EnvInvStep
<1>2. EnvInv => ProcessGetsSettings
  BY SavedReaches DEF EnvInv, EditorFits
<1> QED BY EnvInvInit, <1>1, <1>2, PTL DEF EnvironmentSpec

=============================================================================
