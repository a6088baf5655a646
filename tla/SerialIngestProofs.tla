-------------------------- MODULE SerialIngestProofs --------------------------
(***************************************************************************)
(* Theorems about SerialIngest, for streams of any length in any chunks.   *)
(* They need induction over sequences; the library states induction with   *)
(* an operator as parameter, which the provers cannot instantiate, so it   *)
(* is derived here with a set in its place, from the pigeonhole principle. *)
(***************************************************************************)
EXTENDS SerialIngest, FiniteSets, FiniteSetTheorems, SequenceTheorems, TLAPS

-----------------------------------------------------------------------------
(* Induction.                                                              *)

\* A set with 0 and the successor of each of its numbers has all numbers: if
\* m were missing, the successor would map what it has below m into itself
\* without 0, which is smaller.
LEMMA SetInduction ==
    ASSUME NEW S, 0 \in S, \A n \in Nat : n \in S => n + 1 \in S
    PROVE  Nat \subseteq S
<1> SUFFICES ASSUME NEW m \in Nat, m \notin S PROVE FALSE
  OBVIOUS
<1> DEFINE Below == S \cap (0..m)
           next == [i \in Below |-> i + 1]
<1>1. IsFiniteSet(Below) /\ Cardinality(Below) \in Nat
  <2>1. IsFiniteSet(0..m)
    BY FS_Interval
  <2>2. IsFiniteSet(Below)
    BY <2>1, FS_Subset
  <2> QED BY <2>2, FS_CardinalityType
<1>2. 0 \in Below
  OBVIOUS
<1>3. /\ IsFiniteSet(Below \ {0})
      /\ Cardinality(Below \ {0}) = Cardinality(Below) - 1
  BY <1>1, <1>2, FS_RemoveElement
<1>4. next \in [Below -> Below \ {0}]
  <2> SUFFICES ASSUME NEW i \in Below PROVE i + 1 \in Below \ {0}
    OBVIOUS
  <2>1. i \in Nat /\ i <= m /\ i # m /\ i + 1 \in S
    OBVIOUS
  <2> QED BY <2>1
<1>5. \E i, j \in Below : i # j /\ next[i] = next[j]
  <2> HIDE DEF Below, next
  <2>1. Cardinality(Below \ {0}) < Cardinality(Below)
    BY <1>1, <1>3
  <2> QED BY <1>1, <1>3, <1>4, <2>1, FS_PigeonHole
<1> QED BY <1>5

\* A set with the empty sequence that is closed under Append has all sequences.
LEMMA SeqInduction ==
    ASSUME NEW B, NEW P, <<>> \in P,
           \A s \in Seq(B), x \in B : s \in P => Append(s, x) \in P
    PROVE  Seq(B) \subseteq P
<1> DEFINE S == {n \in Nat : \A s \in Seq(B) : Len(s) = n => s \in P}
<1>1. 0 \in S
  <2> SUFFICES ASSUME NEW s \in Seq(B), Len(s) = 0 PROVE s \in P
    OBVIOUS
  <2> QED BY EmptySeq
<1>2. ASSUME NEW n \in Nat, n \in S PROVE n + 1 \in S
  <2> SUFFICES ASSUME NEW s \in Seq(B), Len(s) = n + 1 PROVE s \in P
    OBVIOUS
  <2> DEFINE t == SubSeq(s, 1, n)
  <2>1. t \in Seq(B) /\ Len(t) = n /\ s[n + 1] \in B
    BY ElementOfSeq
  <2>2. s = Append(t, s[n + 1])
    OBVIOUS
  <2>3. t \in P
    BY <1>2, <2>1
  <2> QED BY <2>1, <2>2, <2>3
<1> HIDE DEF S
<1>3. Nat \subseteq S
  BY <1>1, <1>2, SetInduction
<1> QED BY <1>3 DEF S

-----------------------------------------------------------------------------
(* Fold.                                                                   *)

\* The functions to fold with.
Step(A, B) == [A \X B -> A]

\* acc is the course of a fold up to n.
Course(acc, step, start, s, n) ==
    /\ acc[0] = start
    /\ \A k \in 1..n : acc[k] = step[<<acc[k - 1], s[k]>>]

\* There is such a course, so that the recursive definition defines it.
LEMMA FoldCourse ==
    ASSUME NEW A, NEW B, NEW step \in Step(A, B), NEW start \in A, NEW s \in Seq(B)
    PROVE  \E acc \in [0..Len(s) -> A] : /\ Course(acc, step, start, s, Len(s))
                                         /\ Fold(step, start, s) = acc[Len(s)]
<1> DEFINE n == Len(s)
           S == {m \in Nat : m <= n =>
                    \E acc \in [0..m -> A] : Course(acc, step, start, s, m)}
<1>1. n \in Nat /\ \A k \in 1..n : s[k] \in B
  BY ElementOfSeq
<1>2. 0 \in S
  <2>1. [k \in 0..0 |-> start] \in [0..0 -> A]
    OBVIOUS
  <2>2. Course([k \in 0..0 |-> start], step, start, s, 0)
    BY DEF Course
  <2> QED BY <2>1, <2>2
<1>3. ASSUME NEW m \in Nat, m \in S PROVE m + 1 \in S
  <2> SUFFICES ASSUME m + 1 <= n
               PROVE  \E acc \in [0..(m + 1) -> A] : Course(acc, step, start, s, m + 1)
    OBVIOUS
  <2>1. PICK acc \in [0..m -> A] : Course(acc, step, start, s, m)
    BY <1>1, <1>3
  <2> DEFINE longer == [k \in 0..(m + 1) |-> IF k <= m THEN acc[k]
                                             ELSE step[<<acc[m], s[m + 1]>>]]
  <2>2. acc[m] \in A /\ s[m + 1] \in B
    BY <1>1, <2>1
  <2>3. step[<<acc[m], s[m + 1]>>] \in A
    BY <2>2 DEF Step
  <2>4. longer \in [0..(m + 1) -> A]
    <3> SUFFICES ASSUME NEW k \in 0..(m + 1)
                 PROVE  (IF k <= m THEN acc[k] ELSE step[<<acc[m], s[m + 1]>>]) \in A
      OBVIOUS
    <3>1. k <= m => k \in 0..m
      OBVIOUS
    <3> QED BY <2>3, <3>1
  <2>5. longer[0] = start
    <3>1. 0 \in 0..(m + 1) /\ 0 <= m
      OBVIOUS
    <3> QED BY <2>1, <3>1 DEF Course
  <2>6. ASSUME NEW k \in 1..(m + 1) PROVE longer[k] = step[<<longer[k - 1], s[k]>>]
    <3>1. CASE k = m + 1
      <4>1. k \in 0..(m + 1) /\ k - 1 = m /\ m \in 0..(m + 1) /\ ~(k <= m) /\ m <= m
        BY <3>1
      <4> QED BY <3>1, <4>1
    <3>2. CASE k # m + 1
      <4>1. /\ k \in 0..(m + 1) /\ k \in 1..m /\ k <= m
            /\ k - 1 \in 0..(m + 1) /\ k - 1 <= m
        BY <3>2
      <4> QED BY <2>1, <4>1 DEF Course
    <3> QED BY <3>1, <3>2
  <2>7. Course(longer, step, start, s, m + 1)
    BY <2>5, <2>6 DEF Course
  <2> QED BY <2>4, <2>7
<1>4. PICK acc \in [0..n -> A] : Course(acc, step, start, s, n)
  <2> HIDE DEF S
  <2>1. n \in S
    BY <1>1, <1>2, <1>3, SetInduction
  <2> QED BY <1>1, <2>1 DEF S
<1> DEFINE Rule(f) == f = [k \in 0..n |-> IF k = 0 THEN start ELSE step[<<f[k - 1], s[k]>>]]
           chosen == CHOOSE f : Rule(f)
<1>5. Rule(acc)
  <2>1. acc = [k \in 0..n |-> acc[k]]
    BY <1>4
  <2>2. \A k \in 0..n : acc[k] = IF k = 0 THEN start ELSE step[<<acc[k - 1], s[k]>>]
    BY <1>1, <1>4 DEF Course
  <2> QED BY <2>1, <2>2
<1>6. Rule(chosen)
  BY <1>5, Zenon
<1>7. Fold(step, start, s) = chosen[n]
  BY DEF Fold
<1> DEFINE E == {k \in Nat : k <= n => chosen[k] = acc[k]}
<1> HIDE DEF chosen
<1>8. \A k \in 0..n : chosen[k] = IF k = 0 THEN start ELSE step[<<chosen[k - 1], s[k]>>]
  BY <1>6
<1>9. 0 \in E
  <2>1. 0 \in 0..n /\ acc[0] = start
    BY <1>1, <1>4 DEF Course
  <2>2. chosen[0] = start
    BY <1>8, <2>1
  <2> QED BY <2>1, <2>2
<1>10. ASSUME NEW k \in Nat, k \in E PROVE k + 1 \in E
  <2> SUFFICES ASSUME k + 1 <= n PROVE chosen[k + 1] = acc[k + 1]
    OBVIOUS
  <2>1. chosen[k + 1] = step[<<chosen[k], s[k + 1]>>]
    BY <1>1, <1>8
  <2>2. acc[k + 1] = step[<<acc[k], s[k + 1]>>]
    BY <1>1, <1>4 DEF Course
  <2>3. k <= n
    BY <1>1
  <2>4. chosen[k] = acc[k]
    BY <1>10, <2>3
  <2> QED BY <2>1, <2>2, <2>4
<1>11. chosen[n] = acc[n]
  <2> HIDE DEF E
  <2>1. n \in E
    BY <1>1, <1>9, <1>10, SetInduction
  <2> QED BY <1>1, <2>1 DEF E
<1> QED BY <1>4, <1>7, <1>11

\* Two courses over sequences that agree, agree.
LEMMA CoursesAgree ==
    ASSUME NEW step, NEW start, NEW s, NEW t, NEW f, NEW g, NEW n \in Nat,
           Course(f, step, start, s, n), Course(g, step, start, t, n),
           \A k \in 1..n : s[k] = t[k]
    PROVE  f[n] = g[n]
<1> DEFINE S == {k \in Nat : k <= n => f[k] = g[k]}
<1>1. 0 \in S
  BY DEF Course
<1>2. ASSUME NEW k \in Nat, k \in S PROVE k + 1 \in S
  <2> SUFFICES ASSUME k + 1 <= n PROVE f[k + 1] = g[k + 1]
    OBVIOUS
  <2>1. k + 1 \in 1..n /\ (k + 1) - 1 = k /\ f[k] = g[k]
    BY <1>2
  <2>2. f[k + 1] = step[<<f[k], s[k + 1]>>] /\ g[k + 1] = step[<<g[k], t[k + 1]>>]
    BY <2>1 DEF Course
  <2> QED BY <2>1, <2>2
<1> HIDE DEF S
<1>3. n \in S
  BY <1>1, <1>2, SetInduction
<1> QED BY <1>3 DEF S

\* What a fold returns.
LEMMA FoldType ==
    ASSUME NEW A, NEW B, NEW step \in Step(A, B), NEW start \in A, NEW s \in Seq(B)
    PROVE  Fold(step, start, s) \in A
<1>1. PICK acc \in [0..Len(s) -> A] : /\ Course(acc, step, start, s, Len(s))
                                      /\ Fold(step, start, s) = acc[Len(s)]
  BY FoldCourse
<1>2. Len(s) \in 0..Len(s)
  OBVIOUS
<1> QED BY <1>1, <1>2

\* A fold over a sequence of length 0 returns its start.
LEMMA FoldNothing ==
    ASSUME NEW A, NEW B, NEW step \in Step(A, B), NEW start \in A,
           NEW s \in Seq(B)
    PROVE  Len(s) = 0 => Fold(step, start, s) = start
<1>1. PICK acc \in [0..Len(s) -> A] : /\ Course(acc, step, start, s, Len(s))
                                      /\ Fold(step, start, s) = acc[Len(s)]
  BY FoldCourse
<1> QED BY <1>1 DEF Course

\* A fold over the empty sequence returns its start.
LEMMA FoldEmpty ==
    ASSUME NEW A, NEW B, NEW step \in Step(A, B), NEW start \in A
    PROVE  Fold(step, start, <<>>) = start
<1> DEFINE s == <<>>
<1>1. s \in Seq(B) /\ Len(s) = 0
  OBVIOUS
<1> HIDE DEF s
<1>2. Fold(step, start, s) = start
  BY <1>1, FoldNothing
<1> QED BY <1>2 DEF s

\* One element more is one step more.
LEMMA FoldAppend ==
    ASSUME NEW A, NEW B, NEW step \in Step(A, B), NEW start \in A,
           NEW s \in Seq(B), NEW x \in B
    PROVE  Fold(step, start, Append(s, x)) = step[<<Fold(step, start, s), x>>]
<1> DEFINE e == Append(s, x)
           n == Len(s)
<1>1. /\ n \in Nat /\ e \in Seq(B) /\ Len(e) = n + 1 /\ e[n + 1] = x
      /\ \A k \in 1..n : e[k] = s[k]
  BY AppendProperties
<1> HIDE DEF e, n
<1>2. PICK f \in [0..Len(e) -> A] : /\ Course(f, step, start, e, Len(e))
                                    /\ Fold(step, start, e) = f[Len(e)]
  BY FoldCourse
<1>3. PICK g \in [0..n -> A] : Course(g, step, start, s, n) /\ Fold(step, start, s) = g[n]
  BY FoldCourse DEF n
<1>4. Course(f, step, start, e, n)
  BY <1>1, <1>2 DEF Course
<1>5. f[n] = g[n]
  BY <1>1, <1>3, <1>4, CoursesAgree
<1>6. f[n + 1] = step[<<f[n], x>>]
  <2>1. n + 1 \in 1..Len(e) /\ (n + 1) - 1 = n
    BY <1>1
  <2> QED BY <1>1, <1>2, <2>1 DEF Course
<1> QED BY <1>1, <1>2, <1>3, <1>5, <1>6 DEF e

\* One fold after the other.
LEMMA FoldConcat ==
    ASSUME NEW A, NEW B, NEW step \in Step(A, B), NEW start \in A,
           NEW s \in Seq(B), NEW t \in Seq(B)
    PROVE  Fold(step, start, s \o t) = Fold(step, Fold(step, start, s), t)
<1> DEFINE mid == Fold(step, start, s)
           P == {u \in Seq(B) : Fold(step, start, s \o u) = Fold(step, mid, u)}
<1>1. mid \in A
  BY FoldType
<1> HIDE DEF mid
<1>2. <<>> \in P
  <2>1. Fold(step, mid, <<>>) = mid
    BY <1>1, FoldEmpty
  <2> QED BY <2>1, ConcatEmptySeq DEF mid
<1>3. ASSUME NEW u \in Seq(B), NEW x \in B, u \in P PROVE Append(u, x) \in P
  <2> DEFINE w == s \o u
             v == Append(u, x)
  <2>1. s \o v = Append(w, x) /\ w \in Seq(B) /\ v \in Seq(B)
    OBVIOUS
  <2>2. Fold(step, start, w) = Fold(step, mid, u)
    BY <1>3
  <2>3. Fold(step, mid, v) = step[<<Fold(step, mid, u), x>>]
    BY <1>1, FoldAppend
  <2> HIDE DEF w, v, P
  <2>4. Fold(step, start, Append(w, x)) = step[<<Fold(step, start, w), x>>]
    BY <2>1, FoldAppend
  <2>5. Fold(step, start, s \o v) = Fold(step, mid, v)
    BY <2>1, <2>2, <2>3, <2>4
  <2>6. v \in P
    BY <2>1, <2>5 DEF P
  <2> QED BY <2>6 DEF v
<1>4. Seq(B) \subseteq P
  <2> HIDE DEF P
  <2> QED BY <1>2, <1>3, SeqInduction
<1> QED BY <1>4 DEF mid

-----------------------------------------------------------------------------
(* The steps of the folds.                                                 *)

\* What is seen is a byte of the line or a mark, and a mark is no text.
LEMMA SeenFacts ==
    /\ Symbol \subseteq Seen
    /\ \A x \in Symbol : ~(x.byte \in {"idle", "formfeed", "end"})
    /\ \A x \in Seen : IsText(x) => x \in Symbol
    /\ \A x \in Seen : x \notin Symbol => x.byte \in {"idle", "formfeed", "end"}
    /\ \A what \in {"idle", "formfeed", "end"}, e \in 0..MaxPauses :
          Mark(what, e) \in Seen /\ Mark(what, e).byte = what
<1>1. ASSUME NEW x \in Symbol PROVE x.byte \in {"a", "b", "blank", "ff"}
  BY SerialAssumption DEF Symbol
<1>2. \A what \in {"idle", "formfeed", "end"}, e \in 0..MaxPauses :
          Mark(what, e) \in Seen /\ Mark(what, e).byte = what
  BY DEF Mark, Seen
<1>3. \A x \in Seen : x \notin Symbol => x.byte \in {"idle", "formfeed", "end"}
  BY DEF Seen
<1>4. Symbol \subseteq Seen
  BY DEF Seen
<1> QED BY <1>1, <1>2, <1>3, <1>4 DEF IsText

\* A framing is its two parts.
LEMMA FramingFacts ==
    ASSUME NEW f \in Framing
    PROVE  /\ f.out \in Seq(Datagram) /\ f.cur \in Seq(Symbol)
           /\ f = [out |-> f.out, cur |-> f.cur]
BY DEF Framing

\* Two parts make a framing.
LEMMA FramingIs ==
    ASSUME NEW out \in Seq(Datagram), NEW cur \in Seq(Symbol)
    PROVE  /\ [out |-> out, cur |-> cur] \in Framing
           /\ [out |-> out, cur |-> cur].out = out
           /\ [out |-> out, cur |-> cur].cur = cur
BY DEF Framing

\* A cut ends the current datagram, which counts only if it has text.
LEMMA CutFacts ==
    ASSUME NEW f \in Framing, NEW incomplete \in BOOLEAN
    PROVE  /\ Cut(f, incomplete) \in Framing
           /\ Cut(f, incomplete).cur = <<>>
           /\ Blank(f.cur) => Cut(f, incomplete).out = f.out
           /\ ~Blank(f.cur) => Cut(f, incomplete).out
                    = Append(f.out, [data |-> f.cur, incomplete |-> incomplete])
<1> DEFINE d == [data |-> f.cur, incomplete |-> incomplete]
<1>1. d \in Datagram /\ f.out \in Seq(Datagram)
  BY DEF Framing, Datagram
<1> HIDE DEF d
<1>2. Append(f.out, d) \in Seq(Datagram)
  BY <1>1
<1>3. Cut(f, incomplete) = [out |-> IF Blank(f.cur) THEN f.out ELSE Append(f.out, d),
                            cur |-> <<>>]
  BY DEF Cut, d
<1> QED BY <1>1, <1>2, <1>3 DEF Framing, d

\* The reference cuts at form feeds and marks, and keeps every other byte.
LEMMA TakeCases ==
    ASSUME NEW f \in Framing, NEW x \in Seen
    PROVE  /\ IsFF(x) \/ x.byte = "idle" => Take(f, x) = Cut(f, FALSE)
           /\ x.byte \in {"formfeed", "end"} => Take(f, x) = Cut(f, TRUE)
           /\ ~IsFF(x) /\ ~(x.byte \in {"idle", "formfeed", "end"})
                => /\ x \in Symbol
                   /\ Take(f, x) = [out |-> f.out, cur |-> Append(f.cur, x)]
<1>1. IsFF(x) \/ x.byte = "idle" => Take(f, x) = Cut(f, FALSE)
  BY DEF Take, IsFF
<1>2. x.byte \in {"formfeed", "end"} => Take(f, x) = Cut(f, TRUE)
  BY DEF Take, IsFF
<1>3. ASSUME ~IsFF(x), ~(x.byte \in {"idle", "formfeed", "end"})
      PROVE  x \in Symbol /\ Take(f, x) = [out |-> f.out, cur |-> Append(f.cur, x)]
  <2>1. x \in Symbol
    BY <1>3, SeenFacts
  <2>2. Take(f, x) = [f EXCEPT !.cur = Append(@, x)]
    BY <1>3 DEF Take
  <2> QED BY <2>1, <2>2 DEF Framing
<1> QED BY <1>1, <1>2, <1>3

\* take is the function that does what Take says.
LEMMA TakeFacts ==
    /\ take \in Step(Framing, Seen)
    /\ \A f \in Framing, x \in Seen : take[<<f, x>>] = Take(f, x) /\ Take(f, x) \in Framing
<1>1. ASSUME NEW f \in Framing, NEW x \in Seen PROVE Take(f, x) \in Framing
  <2>1. Cut(f, FALSE) \in Framing /\ Cut(f, TRUE) \in Framing
    BY CutFacts
  <2>2. CASE IsFF(x) \/ x.byte \in {"idle", "formfeed", "end"}
    <3>1. Take(f, x) = Cut(f, FALSE) \/ Take(f, x) = Cut(f, TRUE)
      BY <2>2, TakeCases
    <3> QED BY <2>1, <3>1
  <2>3. CASE ~IsFF(x) /\ ~(x.byte \in {"idle", "formfeed", "end"})
    <3>1. /\ x \in Symbol /\ f.cur \in Seq(Symbol) /\ f.out \in Seq(Datagram)
          /\ Take(f, x) = [out |-> f.out, cur |-> Append(f.cur, x)]
      BY <2>3, TakeCases, FramingFacts
    <3>2. Append(f.cur, x) \in Seq(Symbol)
      BY <3>1
    <3>3. [out |-> f.out, cur |-> Append(f.cur, x)] \in Framing
      BY <3>1, <3>2, FramingIs
    <3> QED BY <3>1, <3>3
  <2> QED BY <2>2, <2>3
<1>2. \A p \in Framing \X Seen : Take(p[1], p[2]) \in Framing
  BY <1>1
<1> QED BY <1>1, <1>2 DEF take, Step

\* pick is a step that keeps text and drops the rest.
LEMMA PickFacts ==
    /\ pick \in Step(Seq(Symbol), Seen)
    /\ \A text \in Seq(Symbol), x \in Seen :
          pick[<<text, x>>] = IF IsText(x) THEN Append(text, x) ELSE text
<1>1. ASSUME NEW p \in Seq(Symbol) \X Seen
      PROVE  (IF IsText(p[2]) THEN Append(p[1], p[2]) ELSE p[1]) \in Seq(Symbol)
  BY SeenFacts
<1> QED BY <1>1 DEF pick, Step

\* join is a step that adds the bytes of a datagram.
LEMMA JoinFacts ==
    /\ join \in Step(Seq(Symbol), Datagram)
    /\ \A data \in Seq(Symbol), d \in Datagram : join[<<data, d>>] = data \o d.data
<1>1. ASSUME NEW p \in Seq(Symbol) \X Datagram PROVE p[1] \o p[2].data \in Seq(Symbol)
  BY DEF Datagram
<1> QED BY <1>1 DEF join, Step

-----------------------------------------------------------------------------
(* Form feeds and cuts.                                                    *)

\* A set of numbers that is not empty has a least one.
LEMMA Least ==
    ASSUME NEW S \in SUBSET Nat, S # {}
    PROVE  \E m \in S : \A k \in S : m <= k
<1> SUFFICES ASSUME \A m \in S : \E k \in S : ~(m <= k) PROVE FALSE
  OBVIOUS
<1> DEFINE T == {n \in Nat : \A k \in S : n < k}
<1>1. 0 \in T
  BY SMT
<1>2. ASSUME NEW n \in Nat, n \in T PROVE n + 1 \in T
  <2>1. n + 1 \notin S
    BY <1>2
  <2> QED BY <1>2, <2>1
<1>3. Nat \subseteq T
  <2> HIDE DEF T
  <2> QED BY <1>1, <1>2, SetInduction
<1>4. PICK k \in S : TRUE
  OBVIOUS
<1>5. k \in T
  BY <1>3, <1>4
<1>6. k < k /\ k \in Nat
  BY <1>4, <1>5
<1> QED BY <1>6

\* i is the last form feed of buf up to to.
IsLastFF(buf, to, i) ==
    /\ i > 0 => IsFF(buf[i])
    /\ \A k \in (i + 1)..to : ~IsFF(buf[k])

\* There is a last form feed (or none, 0), and it is unique: CHOOSE finds it.
LEMMA LastFFFacts ==
    ASSUME NEW buf, NEW to \in Nat
    PROVE  /\ LastFF(buf, to) \in 0..to
           /\ IsLastFF(buf, to, LastFF(buf, to))
           /\ \A i \in 0..to : IsLastFF(buf, to, i) => i = LastFF(buf, to)
<1> DEFINE S == {n \in Nat : \E i \in 0..n : IsLastFF(buf, n, i)}
<1>1. 0 \in S
  <2>1. 0 \in 0..0 /\ IsLastFF(buf, 0, 0)
    BY DEF IsLastFF
  <2> QED BY <2>1
<1>2. ASSUME NEW n \in Nat, n \in S PROVE n + 1 \in S
  <2>1. PICK i \in 0..n : IsLastFF(buf, n, i)
    BY <1>2
  <2>2. CASE IsFF(buf[n + 1])
    <3>1. n + 1 \in 0..(n + 1) /\ IsLastFF(buf, n + 1, n + 1)
      BY <2>2 DEF IsLastFF
    <3> QED BY <3>1
  <2>3. CASE ~IsFF(buf[n + 1])
    <3>1. i \in 0..(n + 1)
      OBVIOUS
    <3>2. ASSUME NEW k \in (i + 1)..(n + 1) PROVE ~IsFF(buf[k])
      <4>1. k = n + 1 \/ k \in (i + 1)..n
        OBVIOUS
      <4> QED BY <2>1, <2>3, <4>1 DEF IsLastFF
    <3>3. IsLastFF(buf, n + 1, i)
      BY <2>1, <3>2 DEF IsLastFF
    <3> QED BY <3>1, <3>3
  <2> QED BY <2>2, <2>3
<1>3. \E i \in 0..to : IsLastFF(buf, to, i)
  <2>1. Nat \subseteq S
    <3> HIDE DEF S
    <3> QED BY <1>1, <1>2, SetInduction
  <2> QED BY <2>1
<1>4. LastFF(buf, to) = CHOOSE i \in 0..to : IsLastFF(buf, to, i)
  BY DEF LastFF, IsLastFF
<1>5. LastFF(buf, to) \in 0..to /\ IsLastFF(buf, to, LastFF(buf, to))
  BY <1>3, <1>4, Zenon
<1>6. ASSUME NEW i \in 0..to, IsLastFF(buf, to, i),
             NEW j \in 0..to, IsLastFF(buf, to, j), i < j
      PROVE  FALSE
  <2>1. j \in (i + 1)..to /\ j > 0
    BY <1>6
  <2> QED BY <1>6, <2>1 DEF IsLastFF
<1>7. ASSUME NEW i \in 0..to, IsLastFF(buf, to, i) PROVE i = LastFF(buf, to)
  <2>1. ~(i < LastFF(buf, to)) /\ ~(LastFF(buf, to) < i)
    BY <1>5, <1>6, <1>7
  <2>2. i \in Nat /\ LastFF(buf, to) \in Nat
    BY <1>5
  <2> QED BY <2>1, <2>2
<1> QED BY <1>5, <1>7

\* The text before a position has no form feed, and ends there.
LEMMA TextFacts ==
    ASSUME NEW buf \in Seq(Symbol), NEW to \in 0..Len(buf)
    PROVE  /\ Text(buf, to) \in Seq(Symbol)
           /\ Len(Text(buf, to)) = to - LastFF(buf, to)
           /\ \A k \in 1..Len(Text(buf, to)) :
                 /\ Text(buf, to)[k] = buf[LastFF(buf, to) + k]
                 /\ ~IsFF(Text(buf, to)[k])
<1> DEFINE j == LastFF(buf, to)
           t == Text(buf, to)
<1>1. j \in 0..to /\ \A k \in (j + 1)..to : ~IsFF(buf[k])
  BY LastFFFacts DEF IsLastFF
<1>2. t = SubSeq(buf, j + 1, to)
  BY DEF Text
<1> HIDE DEF j, t
<1>3. t \in Seq(Symbol) /\ Len(t) = to - j
  BY <1>1, <1>2
<1>4. \A k \in 1..Len(t) : t[k] = buf[j + k]
  BY <1>1, <1>2, <1>3
<1>5. ASSUME NEW k \in 1..Len(t) PROVE ~IsFF(t[k])
  <2>1. j + k \in (j + 1)..to
    BY <1>1, <1>3
  <2> QED BY <1>1, <1>4, <2>1
<1> QED BY <1>3, <1>4, <1>5 DEF j, t

\* One byte more: a form feed leaves no text, any other byte continues it.
LEMMA TextNext ==
    ASSUME NEW buf \in Seq(Symbol), NEW to \in Nat, to + 1 <= Len(buf)
    PROVE  /\ IsFF(buf[to + 1]) => Text(buf, to + 1) = <<>>
           /\ ~IsFF(buf[to + 1]) => Text(buf, to + 1) = Append(Text(buf, to), buf[to + 1])
<1> DEFINE j == LastFF(buf, to)
<1>1. j \in 0..to /\ IsLastFF(buf, to, j)
  BY LastFFFacts
<1> HIDE DEF j
<1>2. CASE IsFF(buf[to + 1])
  <2>1. IsLastFF(buf, to + 1, to + 1) /\ to + 1 \in 0..(to + 1)
    BY <1>2 DEF IsLastFF
  <2>2. LastFF(buf, to + 1) = to + 1
    BY <2>1, LastFFFacts
  <2>3. Text(buf, to + 1) = SubSeq(buf, (to + 1) + 1, to + 1)
    BY <2>2 DEF Text
  <2> QED BY <1>2, <2>3
<1>3. CASE ~IsFF(buf[to + 1])
  <2>1. ASSUME NEW k \in (j + 1)..(to + 1) PROVE ~IsFF(buf[k])
    <3>1. k = to + 1 \/ k \in (j + 1)..to
      BY <1>1
    <3> QED BY <1>1, <1>3, <3>1 DEF IsLastFF
  <2>2. IsLastFF(buf, to + 1, j) /\ j \in 0..(to + 1)
    BY <1>1, <2>1 DEF IsLastFF
  <2>3. LastFF(buf, to + 1) = j
    BY <2>2, LastFFFacts
  <2>4. Text(buf, to + 1) = SubSeq(buf, j + 1, to + 1) /\ Text(buf, to) = SubSeq(buf, j + 1, to)
    BY <2>3 DEF Text, j
  <2>5. SubSeq(buf, j + 1, to + 1) = Append(SubSeq(buf, j + 1, to), buf[to + 1])
    BY <1>1
  <2> QED BY <1>3, <2>4, <2>5
<1> QED BY <1>2, <1>3

\* A form feed is a cut if and only if there is text before it.
LEMMA CutIff ==
    ASSUME NEW buf \in Seq(Symbol), NEW i \in 1..Len(buf), IsFF(buf[i])
    PROVE  i \in Cuts(buf) <=> ~Blank(Text(buf, i - 1))
<1> DEFINE j == LastFF(buf, i - 1)
           t == Text(buf, i - 1)
<1>0. i - 1 \in 0..Len(buf) /\ i - 1 \in Nat
  OBVIOUS
<1>1. j \in 0..(i - 1) /\ IsLastFF(buf, i - 1, j)
  BY <1>0, LastFFFacts
<1>2. /\ t \in Seq(Symbol) /\ Len(t) = (i - 1) - j
      /\ \A k \in 1..Len(t) : t[k] = buf[j + k]
  BY <1>0, TextFacts
<1> HIDE DEF j, t
<1>3. ASSUME NEW k \in 1..(i - 1), IsText(buf[k]), \A n \in k..(i - 1) : ~IsFF(buf[n])
      PROVE  ~Blank(t)
  <2>1. j < k
    <3>1. ~(j \in k..(i - 1)) \/ j = 0
      BY <1>1, <1>3 DEF IsLastFF
    <3> QED BY <1>1, <3>1
  <2>2. k - j \in 1..Len(t) /\ j + (k - j) = k
    BY <1>1, <1>2, <2>1
  <2>3. t[k - j] = buf[k]
    BY <1>2, <2>2
  <2>4. k - j \in DOMAIN t
    BY <1>2, <2>2
  <2> QED BY <1>3, <2>3, <2>4 DEF Blank
<1>4. ASSUME ~Blank(t)
      PROVE  \E k \in 1..(i - 1) : IsText(buf[k]) /\ \A n \in k..(i - 1) : ~IsFF(buf[n])
  <2>1. PICK l \in 1..Len(t) : IsText(t[l])
    BY <1>2, <1>4 DEF Blank
  <2>2. j + l \in 1..(i - 1) /\ IsText(buf[j + l])
    BY <1>1, <1>2, <2>1
  <2>3. \A n \in (j + l)..(i - 1) : n \in (j + 1)..(i - 1)
    BY <1>1, <1>2
  <2> QED BY <1>1, <2>2, <2>3 DEF IsLastFF
<1> QED BY <1>3, <1>4 DEF Cuts, t

-----------------------------------------------------------------------------
(* Framing.                                                                *)

\* The reference takes in a stream byte by byte, or in two parts.
LEMMA FramedFacts ==
    ASSUME NEW out \in Seq(Datagram), NEW s \in Seq(Seen)
    PROVE  /\ [out |-> out, cur |-> <<>>] \in Framing
           /\ Framed(out, s) \in Framing
           /\ Framed(out, <<>>) = [out |-> out, cur |-> <<>>]
           /\ \A x \in Seen : Framed(out, Append(s, x)) = Take(Framed(out, s), x)
           /\ \A t \in Seq(Seen) : Framed(out, s \o t) = Fold(take, Framed(out, s), t)
<1> DEFINE start == [out |-> out, cur |-> <<>>]
<1>1. start \in Framing
  <2>1. <<>> \in Seq(Symbol)
    OBVIOUS
  <2> QED BY <2>1, FramingIs
<1>2. take \in Step(Framing, Seen)
  BY TakeFacts
<1>3. \A u : Framed(out, u) = Fold(take, start, u)
  BY DEF Framed
<1> HIDE DEF start
<1>4. Fold(take, start, s) \in Framing
  BY <1>1, <1>2, FoldType
<1>5. Fold(take, start, <<>>) = start
  BY <1>1, <1>2, FoldEmpty
<1>6. ASSUME NEW x \in Seen
      PROVE  Fold(take, start, Append(s, x)) = Take(Fold(take, start, s), x)
  <2>1. Fold(take, start, Append(s, x)) = take[<<Fold(take, start, s), x>>]
    BY <1>1, <1>2, FoldAppend
  <2> QED BY <1>4, <2>1, TakeFacts
<1>7. ASSUME NEW t \in Seq(Seen)
      PROVE  Fold(take, start, s \o t) = Fold(take, Fold(take, start, s), t)
  BY <1>1, <1>2, FoldConcat
<1> QED BY <1>1, <1>3, <1>4, <1>5, <1>6, <1>7 DEF start

\* As long as there is no cut, the reference cuts nothing either.
LEMMA NoCut ==
    ASSUME NEW out \in Seq(Datagram), NEW buf \in Seq(Symbol)
    PROVE  \A to \in 0..Len(buf) :
              (\A i \in Cuts(buf) : to < i) =>
                 Framed(out, SubSeq(buf, 1, to)) = [out |-> out, cur |-> Text(buf, to)]
<1> DEFINE P(to) == to <= Len(buf) /\ (\A i \in Cuts(buf) : to < i) =>
                 Framed(out, SubSeq(buf, 1, to)) = [out |-> out, cur |-> Text(buf, to)]
           S == {to \in Nat : P(to)}
<1>0. Seq(Symbol) \subseteq Seq(Seen)
  BY SeenFacts, SeqMonotonic
<1>1. 0 \in S
  <2>1. SubSeq(buf, 1, 0) = <<>>
    OBVIOUS
  <2>2. LastFF(buf, 0) = 0
    BY LastFFFacts
  <2>3. Text(buf, 0) = <<>>
    BY <2>2 DEF Text
  <2>4. <<>> \in Seq(Seen)
    OBVIOUS
  <2> QED BY <2>1, <2>3, <2>4, FramedFacts
<1>2. ASSUME NEW to \in Nat, to \in S PROVE to + 1 \in S
  <2> SUFFICES ASSUME to + 1 <= Len(buf), \A i \in Cuts(buf) : to + 1 < i
               PROVE  Framed(out, SubSeq(buf, 1, to + 1))
                          = [out |-> out, cur |-> Text(buf, to + 1)]
    OBVIOUS
  <2> DEFINE x == buf[to + 1]
             part == SubSeq(buf, 1, to)
             f == [out |-> out, cur |-> Text(buf, to)]
  <2>1. /\ to + 1 \in 1..Len(buf) /\ to \in 0..Len(buf) /\ (to + 1) - 1 = to
        /\ x \in Symbol /\ part \in Seq(Symbol)
        /\ SubSeq(buf, 1, to + 1) = Append(part, x)
    BY ElementOfSeq
  <2>2. Framed(out, part) = f
    <3>1. \A i \in Cuts(buf) : to < i
      BY DEF Cuts
    <3> QED BY <1>2, <2>1, <3>1
  <2>3. /\ Text(buf, to) \in Seq(Symbol) /\ x \in Seen /\ part \in Seq(Seen)
        /\ ~(x.byte \in {"idle", "formfeed", "end"})
    BY <1>0, <2>1, TextFacts, SeenFacts
  <2>4. f \in Framing /\ f.out = out /\ f.cur = Text(buf, to)
    BY <2>3, FramingIs
  <2> HIDE DEF x, part, f
  <2>5. Framed(out, Append(part, x)) = Take(f, x)
    BY <2>2, <2>3, FramedFacts
  <2>6. CASE IsFF(x)
    <3>1. to + 1 \notin Cuts(buf)
      BY <2>1
    <3>2. Blank(Text(buf, to))
      BY <2>1, <2>6, <3>1, CutIff DEF x
    <3>3. Take(f, x) = Cut(f, FALSE)
      BY <2>3, <2>4, <2>6, TakeCases
    <3>4. Cut(f, FALSE) = [out |-> out, cur |-> <<>>]
      BY <2>4, <3>2 DEF Cut
    <3>5. Text(buf, to + 1) = <<>>
      BY <2>6, TextNext DEF x
    <3> QED BY <2>1, <2>5, <3>3, <3>4, <3>5
  <2>7. CASE ~IsFF(x)
    <3>1. Take(f, x) = [out |-> f.out, cur |-> Append(f.cur, x)]
      BY <2>3, <2>4, <2>7, TakeCases
    <3>2. Text(buf, to + 1) = Append(Text(buf, to), x)
      BY <2>7, TextNext DEF x
    <3> QED BY <2>1, <2>4, <2>5, <3>1, <3>2
  <2> QED BY <2>6, <2>7
<1>3. Nat \subseteq S
  <2> HIDE DEF S
  <2> QED BY <1>1, <1>2, SetInduction
<1> QED BY <1>3

\* Without a cut what follows the last form feed is all that is left.
LEMMA FramedUncut ==
    ASSUME NEW out \in Seq(Datagram), NEW buf \in Seq(Symbol), Cuts(buf) = {}
    PROVE  Framed(out, buf) = [out |-> out, cur |-> Text(buf, Len(buf))]
<1>1. Len(buf) \in 0..Len(buf) /\ SubSeq(buf, 1, Len(buf)) = buf
  OBVIOUS
<1> QED BY <1>1, NoCut

\* Without form feed the reference has all bytes in its current datagram.
LEMMA FramedClean ==
    ASSUME NEW out \in Seq(Datagram), NEW buf \in Seq(Symbol),
           \A k \in DOMAIN buf : ~IsFF(buf[k])
    PROVE  Framed(out, buf) = [out |-> out, cur |-> buf]
<1>1. Cuts(buf) = {}
  BY DEF Cuts
<1>2. IsLastFF(buf, Len(buf), 0) /\ 0 \in 0..Len(buf) /\ Len(buf) \in Nat
  BY DEF IsLastFF
<1>3. LastFF(buf, Len(buf)) = 0
  BY <1>2, LastFFFacts
<1>4. Text(buf, Len(buf)) = buf
  BY <1>3 DEF Text
<1> QED BY <1>1, <1>4, FramedUncut

\* At the first cut the reference has the datagram that Split emits.
LEMMA FramedCut ==
    ASSUME NEW out \in Seq(Datagram), NEW buf \in Seq(Symbol),
           NEW i \in Cuts(buf), \A k \in Cuts(buf) : i <= k
    PROVE  LET d == [data |-> Text(buf, i - 1), incomplete |-> FALSE]
           IN  /\ d \in Datagram /\ DropThrough(buf, i) \in Seq(Symbol)
               /\ Framed(out, buf) = Framed(Append(out, d), DropThrough(buf, i))
<1> DEFINE d == [data |-> Text(buf, i - 1), incomplete |-> FALSE]
           part == SubSeq(buf, 1, i - 1)
           rest == DropThrough(buf, i)
           x == buf[i]
           f == [out |-> out, cur |-> Text(buf, i - 1)]
<1>1. /\ i \in 1..Len(buf) /\ i - 1 \in 0..Len(buf) /\ IsFF(x) /\ (i - 1) + 1 = i
      /\ x \in Symbol
  BY ElementOfSeq DEF Cuts
<1>2. \A k \in Cuts(buf) : i - 1 < k
  <2>1. \A k \in Cuts(buf) : k \in Nat
    BY DEF Cuts
  <2> QED BY <1>1, <2>1
<1>3. Framed(out, part) = f
  BY <1>1, <1>2, NoCut
<1>4. Text(buf, i - 1) \in Seq(Symbol) /\ ~Blank(Text(buf, i - 1))
  BY <1>1, TextFacts, CutIff
<1>5. d \in Datagram /\ f \in Framing /\ f.out = out /\ f.cur = Text(buf, i - 1)
  BY <1>4, FramingIs DEF Datagram
<1>6. /\ part \in Seq(Symbol) /\ rest \in Seq(Symbol) /\ Append(part, x) \in Seq(Symbol)
      /\ buf = Append(part, x) \o rest
  <2>1. part \in Seq(Symbol) /\ rest \in Seq(Symbol)
    BY <1>1 DEF DropThrough
  <2>2. SubSeq(buf, 1, i) = Append(part, x)
    BY <1>1
  <2>3. buf = SubSeq(buf, 1, i) \o SubSeq(buf, i + 1, Len(buf))
    BY <1>1
  <2>4. Append(part, x) \in Seq(Symbol)
    BY <1>1, <2>1
  <2> QED BY <2>1, <2>2, <2>3, <2>4 DEF DropThrough
<1>7. /\ Seq(Symbol) \subseteq Seq(Seen) /\ x \in Seen /\ Append(out, d) \in Seq(Datagram)
  BY <1>1, <1>5, SeenFacts, SeqMonotonic
<1> HIDE DEF part, rest, x, f
<1>8. Take(f, x) = [out |-> Append(out, d), cur |-> <<>>]
  <2>1. Take(f, x) = Cut(f, FALSE)
    BY <1>1, <1>5, <1>7, TakeCases
  <2> QED BY <1>4, <1>5, <2>1 DEF Cut
<1> HIDE DEF d
<1>9. Framed(out, Append(part, x)) = [out |-> Append(out, d), cur |-> <<>>]
  BY <1>3, <1>6, <1>7, <1>8, FramedFacts
<1>10. Framed(out, buf) = Fold(take, Framed(out, Append(part, x)), rest)
  BY <1>6, <1>7, FramedFacts
<1>11. Framed(Append(out, d), rest) = Fold(take, [out |-> Append(out, d), cur |-> <<>>], rest)
  BY DEF Framed
<1> QED BY <1>5, <1>6, <1>9, <1>10, <1>11 DEF d, rest

\* s is the beginning of longer.
Extends(longer, s) == Len(s) <= Len(longer) /\ s = SubSeq(longer, 1, Len(s))

\* Whatever the reference takes in, datagrams that are out stay out.
LEMMA OnlyAppends ==
    ASSUME NEW f \in Framing, NEW s \in Seq(Seen)
    PROVE  Extends(Fold(take, f, s).out, f.out)
<1> DEFINE P == {u \in Seq(Seen) : Extends(Fold(take, f, u).out, f.out)}
<1>0. take \in Step(Framing, Seen) /\ f.out \in Seq(Datagram)
  BY TakeFacts, FramingFacts
<1>1. <<>> \in P
  <2>1. Fold(take, f, <<>>) = f
    BY <1>0, FoldEmpty
  <2>2. Extends(f.out, f.out)
    BY <1>0 DEF Extends
  <2> QED BY <2>1, <2>2
<1>2. ASSUME NEW u \in Seq(Seen), NEW x \in Seen, u \in P PROVE Append(u, x) \in P
  <2> DEFINE g == Fold(take, f, u)
             v == Append(u, x)
  <2>1. g \in Framing
    BY <1>0, FoldType
  <2>2. Fold(take, f, v) = take[<<g, x>>] /\ v \in Seq(Seen)
    BY <1>0, FoldAppend
  <2>3. Extends(g.out, f.out)
    BY <1>2
  <2> HIDE DEF g, v
  <2>4. Fold(take, f, v) = Take(g, x)
    BY <2>1, <2>2, TakeFacts
  <2>5. \/ Take(g, x).out = g.out
        \/ \E d \in Datagram : Take(g, x).out = Append(g.out, d)
    <3>1. ASSUME NEW incomplete \in BOOLEAN
          PROVE  \/ Cut(g, incomplete).out = g.out
                 \/ \E d \in Datagram : Cut(g, incomplete).out = Append(g.out, d)
      <4>1. [data |-> g.cur, incomplete |-> incomplete] \in Datagram
        BY <2>1, FramingFacts DEF Datagram
      <4> QED BY <2>1, <4>1, CutFacts
    <3>2. \/ Take(g, x) = Cut(g, FALSE)
          \/ Take(g, x) = Cut(g, TRUE)
          \/ Take(g, x) = [out |-> g.out, cur |-> Append(g.cur, x)]
      <4>1. x \in Seen
        OBVIOUS
      <4> QED BY <2>1, <4>1, TakeCases
    <3>3. [out |-> g.out, cur |-> Append(g.cur, x)].out = g.out
      OBVIOUS
    <3> QED BY <3>1, <3>2, <3>3
  <2>6. Extends(Take(g, x).out, f.out)
    <3>1. ASSUME NEW d \in Datagram PROVE Extends(Append(g.out, d), f.out)
      <4>1. g.out \in Seq(Datagram)
        BY <2>1, FramingFacts
      <4> QED BY <1>0, <2>3, <4>1 DEF Extends
    <3> QED BY <2>3, <2>5, <3>1
  <2> QED BY <2>2, <2>4, <2>6 DEF v
<1>3. Seq(Seen) \subseteq P
  <2> HIDE DEF P
  <2> QED BY <1>1, <1>2, SeqInduction
<1> QED BY <1>3

-----------------------------------------------------------------------------
(* Text.                                                                   *)

\* The text of a stream, byte by byte.
LEMMA TextOfFacts ==
    ASSUME NEW s \in Seq(Seen)
    PROVE  /\ TextOf(s) \in Seq(Symbol)
           /\ TextOf(<<>>) = <<>>
           /\ \A x \in Seen : TextOf(Append(s, x)) = IF IsText(x) THEN Append(TextOf(s), x)
                                                     ELSE TextOf(s)
<1>1. <<>> \in Seq(Symbol) /\ pick \in Step(Seq(Symbol), Seen)
  BY PickFacts
<1>2. TextOf(s) \in Seq(Symbol)
  BY <1>1, FoldType DEF TextOf
<1>3. TextOf(<<>>) = <<>>
  BY <1>1, FoldEmpty DEF TextOf
<1>4. ASSUME NEW x \in Seen
      PROVE  TextOf(Append(s, x)) = IF IsText(x) THEN Append(TextOf(s), x) ELSE TextOf(s)
  <2> DEFINE none == <<>>
  <2>1. none \in Seq(Symbol) /\ \A t : TextOf(t) = Fold(pick, none, t)
    BY <1>1 DEF TextOf
  <2> HIDE DEF none
  <2>2. TextOf(Append(s, x)) = pick[<<TextOf(s), x>>]
    BY <1>1, <2>1, FoldAppend
  <2> QED BY <1>2, <2>2, PickFacts
<1> QED BY <1>2, <1>3, <1>4

\* The text of two streams one after the other.
LEMMA TextConcat ==
    ASSUME NEW s \in Seq(Seen), NEW t \in Seq(Seen)
    PROVE  TextOf(s \o t) = TextOf(s) \o TextOf(t)
<1> DEFINE P == {u \in Seq(Seen) : TextOf(s \o u) = TextOf(s) \o TextOf(u)}
<1>1. <<>> \in P
  <2>1. s \o <<>> = s /\ TextOf(s) \in Seq(Symbol) /\ TextOf(<<>>) = <<>>
    BY TextOfFacts
  <2>2. TextOf(s) \o <<>> = TextOf(s)
    BY <2>1
  <2> QED BY <2>1, <2>2
<1>2. ASSUME NEW u \in Seq(Seen), NEW x \in Seen, u \in P PROVE Append(u, x) \in P
  <2> DEFINE w == s \o u
             v == Append(u, x)
  <2>1. s \o v = Append(w, x) /\ w \in Seq(Seen) /\ v \in Seq(Seen)
    OBVIOUS
  <2>2. TextOf(w) = TextOf(s) \o TextOf(u)
    BY <1>2
  <2>3. TextOf(v) = IF IsText(x) THEN Append(TextOf(u), x) ELSE TextOf(u)
    BY TextOfFacts
  <2> HIDE DEF w, v
  <2>4. TextOf(Append(w, x)) = IF IsText(x) THEN Append(TextOf(w), x) ELSE TextOf(w)
    BY <2>1, TextOfFacts
  <2>5. TextOf(s) \in Seq(Symbol) /\ TextOf(u) \in Seq(Symbol)
    BY TextOfFacts
  <2>6. CASE IsText(x)
    <3>1. x \in Symbol
      BY <2>6, SeenFacts
    <3>2. TextOf(s) \o Append(TextOf(u), x) = Append(TextOf(s) \o TextOf(u), x)
      BY <2>5, <3>1
    <3>3. TextOf(s \o v) = TextOf(s) \o TextOf(v)
      BY <2>1, <2>2, <2>3, <2>4, <2>6, <3>2
    <3> QED BY <2>1, <3>3 DEF v
  <2>7. CASE ~IsText(x)
    <3>1. TextOf(s \o v) = TextOf(s) \o TextOf(v)
      BY <2>1, <2>2, <2>3, <2>4, <2>7
    <3> QED BY <2>1, <3>1 DEF v
  <2> QED BY <2>6, <2>7
<1>3. Seq(Seen) \subseteq P
  <2> HIDE DEF P
  <2> QED BY <1>1, <1>2, SeqInduction
<1> QED BY <1>3

\* A blank has no text.
LEMMA BlankText ==
    ASSUME NEW s \in Seq(Symbol), Blank(s)
    PROVE  TextOf(s) = <<>>
<1> DEFINE P == {u \in Seq(Symbol) : Blank(u) => TextOf(u) = <<>>}
<1>0. Seq(Symbol) \subseteq Seq(Seen) /\ Symbol \subseteq Seen
  BY SeenFacts, SeqMonotonic
<1>1. <<>> \in P
  <2>1. <<>> \in Seq(Seen) /\ <<>> \in Seq(Symbol)
    OBVIOUS
  <2> QED BY <2>1, TextOfFacts
<1>2. ASSUME NEW u \in Seq(Symbol), NEW x \in Symbol, u \in P PROVE Append(u, x) \in P
  <2> SUFFICES ASSUME Blank(Append(u, x)) PROVE TextOf(Append(u, x)) = <<>>
    OBVIOUS
  <2>1. ~IsText(x) /\ Blank(u)
    <3>1. /\ Append(u, x)[Len(u) + 1] = x /\ Len(u) + 1 \in DOMAIN Append(u, x)
          /\ \A k \in DOMAIN u : k \in DOMAIN Append(u, x) /\ Append(u, x)[k] = u[k]
      OBVIOUS
    <3> QED BY <3>1 DEF Blank
  <2>2. u \in Seq(Seen) /\ x \in Seen
    BY <1>0
  <2> QED BY <1>2, <2>1, <2>2, TextOfFacts
<1>3. Seq(Symbol) \subseteq P
  <2> HIDE DEF P
  <2> QED BY <1>1, <1>2, SeqInduction
<1> QED BY <1>3

\* The bytes of a sequence of datagrams, datagram by datagram.
LEMMA DataOfFacts ==
    ASSUME NEW out \in Seq(Datagram)
    PROVE  /\ DataOf(out) \in Seq(Symbol)
           /\ DataOf(<<>>) = <<>>
           /\ \A d \in Datagram : DataOf(Append(out, d)) = DataOf(out) \o d.data
<1>1. <<>> \in Seq(Symbol) /\ join \in Step(Seq(Symbol), Datagram)
  BY JoinFacts
<1>2. DataOf(out) \in Seq(Symbol)
  BY <1>1, FoldType DEF DataOf
<1>3. DataOf(<<>>) = <<>>
  BY <1>1, FoldEmpty DEF DataOf
<1>4. ASSUME NEW d \in Datagram PROVE DataOf(Append(out, d)) = DataOf(out) \o d.data
  <2> DEFINE none == <<>>
  <2>1. none \in Seq(Symbol) /\ \A t : DataOf(t) = Fold(join, none, t)
    BY <1>1 DEF DataOf
  <2> HIDE DEF none
  <2>2. DataOf(Append(out, d)) = join[<<DataOf(out), d>>]
    BY <1>1, <2>1, FoldAppend
  <2> QED BY <1>2, <2>2, JoinFacts
<1> QED BY <1>2, <1>3, <1>4

\* All text of a framing.
Whole(f) == TextOf(DataOf(f.out)) \o TextOf(f.cur)

\* A cut loses no text: what it drops is blank.
LEMMA CutKeepsText ==
    ASSUME NEW f \in Framing, NEW incomplete \in BOOLEAN
    PROVE  Whole(Cut(f, incomplete)) = Whole(f)
<1> DEFINE d == [data |-> f.cur, incomplete |-> incomplete]
           old == DataOf(f.out)
<1>1. f.out \in Seq(Datagram) /\ f.cur \in Seq(Symbol) /\ d \in Datagram /\ d.data = f.cur
  BY FramingFacts DEF Datagram
<1>2. old \in Seq(Symbol) /\ DataOf(Append(f.out, d)) = old \o f.cur
  BY <1>1, DataOfFacts
<1>3. Seq(Symbol) \subseteq Seq(Seen) /\ <<>> \in Seq(Seen)
  BY SeenFacts, SeqMonotonic
<1>4. TextOf(old) \in Seq(Symbol) /\ TextOf(f.cur) \in Seq(Symbol) /\ TextOf(<<>>) = <<>>
  BY <1>1, <1>2, <1>3, TextOfFacts
<1>5. TextOf(old \o f.cur) = TextOf(old) \o TextOf(f.cur)
  BY <1>1, <1>2, <1>3, TextConcat
<1>6. Cut(f, incomplete).cur = <<>>
  BY CutFacts
<1>7. CASE Blank(f.cur)
  <2>1. Cut(f, incomplete).out = f.out /\ TextOf(f.cur) = <<>>
    BY <1>1, <1>7, CutFacts, BlankText
  <2> QED BY <1>4, <1>6, <2>1 DEF Whole
<1>8. CASE ~Blank(f.cur)
  <2>1. Cut(f, incomplete).out = Append(f.out, d)
    BY <1>8, CutFacts
  <2>2. Whole(Cut(f, incomplete)) = TextOf(old \o f.cur) \o <<>>
    BY <1>2, <1>4, <1>6, <2>1 DEF Whole
  <2>3. TextOf(old) \o TextOf(f.cur) \in Seq(Symbol)
    BY <1>4
  <2>4. (TextOf(old) \o TextOf(f.cur)) \o <<>> = TextOf(old) \o TextOf(f.cur)
    BY <2>3, ConcatEmptySeq
  <2> QED BY <1>5, <2>2, <2>4 DEF Whole
<1> QED BY <1>7, <1>8

\* What the reference takes in it keeps.
LEMMA TakeKeepsText ==
    ASSUME NEW f \in Framing, NEW x \in Seen
    PROVE  Whole(Take(f, x)) = IF IsText(x) THEN Append(Whole(f), x) ELSE Whole(f)
<1>1. CASE IsFF(x) \/ x.byte \in {"idle", "formfeed", "end"}
  <2>1. ~IsText(x)
    BY <1>1 DEF IsFF, IsText
  <2>2. Take(f, x) = Cut(f, FALSE) \/ Take(f, x) = Cut(f, TRUE)
    BY <1>1, TakeCases
  <2> QED BY <2>1, <2>2, CutKeepsText
<1>2. CASE ~IsFF(x) /\ ~(x.byte \in {"idle", "formfeed", "end"})
  <2> DEFINE g == [out |-> f.out, cur |-> Append(f.cur, x)]
  <2>1. x \in Symbol /\ Take(f, x) = g
    BY <1>2, TakeCases
  <2>2. f.out \in Seq(Datagram) /\ f.cur \in Seq(Symbol)
    BY FramingFacts
  <2>3. Seq(Symbol) \subseteq Seq(Seen)
    BY SeenFacts, SeqMonotonic
  <2>4. TextOf(Append(f.cur, x)) = IF IsText(x) THEN Append(TextOf(f.cur), x)
                                   ELSE TextOf(f.cur)
    BY <2>2, <2>3, TextOfFacts
  <2>5. TextOf(DataOf(f.out)) \in Seq(Symbol) /\ TextOf(f.cur) \in Seq(Symbol)
    BY <2>2, <2>3, DataOfFacts, TextOfFacts
  <2>6. TextOf(DataOf(f.out)) \o Append(TextOf(f.cur), x)
            = Append(TextOf(DataOf(f.out)) \o TextOf(f.cur), x)
    BY <2>1, <2>5
  <2>7. Whole(g) = TextOf(DataOf(f.out)) \o TextOf(Append(f.cur, x))
    BY DEF Whole
  <2> QED BY <2>1, <2>4, <2>6, <2>7 DEF Whole
<1> QED BY <1>1, <1>2

\* Appending to the second of two streams.
LEMMA SeenAppend ==
    \A s, t \in Seq(Seen), x \in Seen : Append(s \o t, x) = s \o Append(t, x)
<1> DEFINE B == Seen
<1> SUFFICES ASSUME NEW s \in Seq(B), NEW t \in Seq(B), NEW x \in B
             PROVE  Append(s \o t, x) = s \o Append(t, x)
  OBVIOUS
<1> HIDE DEF B
<1> QED OBVIOUS

\* Over a whole stream the reference gains the text of the stream.
LEMMA FramedKeepsText ==
    ASSUME NEW f \in Framing, NEW s \in Seq(Seen)
    PROVE  Whole(Fold(take, f, s)) = Whole(f) \o TextOf(s)
<1> DEFINE P == {u \in Seq(Seen) : Whole(Fold(take, f, u)) = Whole(f) \o TextOf(u)}
<1>0. Seq(Symbol) \subseteq Seq(Seen) /\ take \in Step(Framing, Seen)
  BY SeenFacts, SeqMonotonic, TakeFacts
<1>1. Whole(f) \in Seq(Symbol)
  <2>1. f.out \in Seq(Datagram) /\ f.cur \in Seq(Symbol)
    BY FramingFacts
  <2>2. TextOf(DataOf(f.out)) \in Seq(Symbol) /\ TextOf(f.cur) \in Seq(Symbol)
    BY <1>0, <2>1, DataOfFacts, TextOfFacts
  <2> QED BY <2>2 DEF Whole
<1>2. <<>> \in P
  <2>1. <<>> \in Seq(Seen)
    OBVIOUS
  <2>2. Fold(take, f, <<>>) = f /\ TextOf(<<>>) = <<>>
    BY <1>0, <2>1, FoldEmpty, TextOfFacts
  <2>3. Whole(f) \o <<>> = Whole(f)
    BY <1>1, ConcatEmptySeq
  <2> QED BY <2>1, <2>2, <2>3
<1>3. ASSUME NEW u \in Seq(Seen), NEW x \in Seen, u \in P PROVE Append(u, x) \in P
  <2> DEFINE g == Fold(take, f, u)
             v == Append(u, x)
  <2>1. g \in Framing /\ v \in Seq(Seen)
    BY <1>0, FoldType
  <2>2. Fold(take, f, v) = take[<<g, x>>]
    BY <1>0, FoldAppend
  <2>3. Whole(g) = Whole(f) \o TextOf(u)
    BY <1>3
  <2>4. TextOf(v) = IF IsText(x) THEN Append(TextOf(u), x) ELSE TextOf(u)
    BY TextOfFacts
  <2> HIDE DEF g, v
  <2>5. Whole(Fold(take, f, v)) = IF IsText(x) THEN Append(Whole(g), x) ELSE Whole(g)
    BY <2>1, <2>2, TakeFacts, TakeKeepsText
  <2>6. TextOf(u) \in Seq(Seen) /\ Whole(f) \in Seq(Seen)
    BY <1>0, <1>1, TextOfFacts
  <2>7. Append(Whole(f) \o TextOf(u), x) = Whole(f) \o Append(TextOf(u), x)
    BY <2>6, SeenAppend, Zenon
  <2>8. Whole(Fold(take, f, v)) = Whole(f) \o TextOf(v)
    BY <2>3, <2>4, <2>5, <2>7
  <2> QED BY <2>1, <2>8 DEF v
<1>4. Seq(Seen) \subseteq P
  <2> HIDE DEF P
  <2> QED BY <1>2, <1>3, SeqInduction
<1> QED BY <1>4

-----------------------------------------------------------------------------
(* The invariant: what the buffer still holds would complete the datagrams *)
(* to those of the reference, and buffer and datagrams have all text read. *)

FrameInv == ~abandoned => Framed(emitted, buffer) = Framed(<<>>, seen)

IInv == TypeOK /\ FrameInv /\ NoTextLost

\* Split, on a buffer that has all that was read.
LEMMA SplitFacts ==
    ASSUME IInv, NEW buf \in Seq(Symbol), Split(buf), after \in {"read", "split"}
    PROVE  /\ at' \in {"waiting", "busy"} /\ after' \in {"read", "split"}
           /\ buffer' \in Seq(Symbol) /\ emitted' \in Seq(Datagram)
           /\ at' = "waiting" => \A k \in DOMAIN buffer' : ~IsFF(buffer'[k])
           /\ at' = "busy" => after' = "split"
           /\ Framed(emitted', buffer') = Framed(emitted, buf)
<1>0. emitted \in Seq(Datagram) /\ Len(buf) \in 0..Len(buf)
  BY DEF IInv, TypeOK
<1>1. CASE Cuts(buf) = {}
  <2>1. /\ buffer' = Text(buf, Len(buf)) /\ at' = "waiting"
        /\ after' = after /\ emitted' = emitted
    BY <1>1 DEF Split
  <2>2. /\ buffer' \in Seq(Symbol)
        /\ \A k \in 1..Len(buffer') : ~IsFF(buffer'[k])
    BY <1>0, <2>1, TextFacts
  <2>3. DOMAIN buffer' = 1..Len(buffer')
    BY <2>2
  <2>4. Framed(emitted, buf) = [out |-> emitted, cur |-> buffer']
    BY <1>0, <1>1, <2>1, FramedUncut
  <2>5. Framed(emitted, buffer') = [out |-> emitted, cur |-> buffer']
    BY <1>0, <2>2, <2>3, FramedClean
  <2> QED BY <1>0, <2>1, <2>2, <2>3, <2>4, <2>5
<1>2. CASE Cuts(buf) # {}
  <2>1. Cuts(buf) \in SUBSET Nat
    BY DEF Cuts
  <2> DEFINE i == CHOOSE i \in Cuts(buf) : \A k \in Cuts(buf) : i <= k
             d == [data |-> Text(buf, i - 1), incomplete |-> FALSE]
  <2>2. i \in Cuts(buf) /\ \A k \in Cuts(buf) : i <= k
    <3>1. \E m \in Cuts(buf) : \A k \in Cuts(buf) : m <= k
      BY <1>2, <2>1, Least
    <3> QED BY <3>1, Zenon
  <2>3. /\ emitted' = Append(emitted, d) /\ buffer' = DropThrough(buf, i)
        /\ at' = "busy" /\ after' = "split"
    BY <1>2, Zenon DEF Split, Emit
  <2> HIDE DEF i
  <2>4. /\ d \in Datagram /\ DropThrough(buf, i) \in Seq(Symbol)
        /\ Framed(emitted, buf) = Framed(Append(emitted, d), DropThrough(buf, i))
    BY <1>0, <2>2, FramedCut
  <2> HIDE DEF d
  <2>5. Append(emitted, d) \in Seq(Datagram)
    BY <1>0, <2>4
  <2> QED BY <2>3, <2>4, <2>5
<1> QED BY <1>1, <1>2

\* The text of a framing is that of its datagrams and of the bytes after them.
LEMMA WholeOfFramed ==
    ASSUME NEW out \in Seq(Datagram), NEW buf \in Seq(Symbol)
    PROVE  Whole(Framed(out, buf)) = TextOf(DataOf(out) \o buf)
<1> DEFINE f == [out |-> out, cur |-> <<>>]
           data == DataOf(out)
<1>1. /\ buf \in Seq(Seen) /\ data \in Seq(Seen) /\ <<>> \in Seq(Seen)
      /\ f \in Framing /\ f.out = out /\ f.cur = <<>>
  <2>1. Seq(Symbol) \subseteq Seq(Seen) /\ <<>> \in Seq(Symbol) /\ data \in Seq(Symbol)
    BY SeenFacts, SeqMonotonic, DataOfFacts
  <2> QED BY <2>1, FramingIs
<1>2. Framed(out, buf) = Fold(take, f, buf)
  BY DEF Framed
<1> HIDE DEF f, data
<1>3. Whole(Fold(take, f, buf)) = Whole(f) \o TextOf(buf)
  BY <1>1, FramedKeepsText
<1>4. Whole(f) = TextOf(data) \o <<>>
  BY <1>1, TextOfFacts DEF Whole, data
<1>5. TextOf(data) \in Seq(Symbol)
  BY <1>1, TextOfFacts
<1>6. TextOf(data) \o <<>> = TextOf(data)
  BY <1>5, ConcatEmptySeq
<1>7. TextOf(data \o buf) = TextOf(data) \o TextOf(buf)
  BY <1>1, TextConcat
<1> QED BY <1>2, <1>3, <1>4, <1>6, <1>7 DEF data

\* A step that takes in s as the reference does keeps the invariant.
LEMMA TakesIn ==
    ASSUME IInv, NEW s \in Seq(Seen), seen' = seen \o s,
           abandoned' = abandoned, emitted' \in Seq(Datagram), buffer' \in Seq(Symbol),
           Framed(emitted', buffer') = Fold(take, Framed(emitted, buffer), s)
    PROVE  FrameInv' /\ NoTextLost'
<1>1. /\ emitted \in Seq(Datagram) /\ buffer \in Seq(Symbol) /\ seen \in Seq(Seen)
      /\ buffer \in Seq(Seen) /\ <<>> \in Seq(Datagram)
  BY SeenFacts, SeqMonotonic DEF IInv, TypeOK
<1>2. Framed(emitted, buffer) \in Framing
  BY <1>1, FramedFacts
<1>3. Framed(<<>>, seen \o s) = Fold(take, Framed(<<>>, seen), s)
  BY <1>1, FramedFacts
<1>4. FrameInv'
  BY <1>3 DEF IInv, FrameInv
<1>5. Whole(Framed(emitted', buffer')) = Whole(Framed(emitted, buffer)) \o TextOf(s)
  BY <1>2, FramedKeepsText
<1>6. /\ Whole(Framed(emitted', buffer')) = TextOf(DataOf(emitted') \o buffer')
      /\ Whole(Framed(emitted, buffer)) = TextOf(DataOf(emitted) \o buffer)
  BY <1>1, WholeOfFramed
<1>7. TextOf(DataOf(emitted) \o buffer) = TextOf(seen)
  BY DEF IInv, NoTextLost
<1>8. TextOf(seen \o s) = TextOf(seen) \o TextOf(s)
  BY <1>1, TextConcat
<1>9. NoTextLost'
  BY <1>5, <1>6, <1>7, <1>8 DEF NoTextLost
<1> QED BY <1>4, <1>9

\* One thing more is seen.
LEMMA TakesOne ==
    ASSUME IInv, NEW x \in Seen, seen' = Append(seen, x),
           abandoned' = abandoned, emitted' \in Seq(Datagram), buffer' \in Seq(Symbol),
           Framed(emitted', buffer') = Take(Framed(emitted, buffer), x)
    PROVE  FrameInv' /\ NoTextLost'
<1>1. /\ emitted \in Seq(Datagram) /\ seen \in Seq(Seen) /\ buffer \in Seq(Seen)
  BY SeenFacts, SeqMonotonic DEF IInv, TypeOK
<1> DEFINE f == Framed(emitted, buffer)
<1>2. f \in Framing
  BY <1>1, FramedFacts
<1> HIDE DEF f
<1> DEFINE none == <<>>
           s == Append(none, x)
<1>3. none \in Seq(Seen) /\ s \in Seq(Seen) /\ Append(seen, x) = seen \o s
  BY <1>1
<1>4. take \in Step(Framing, Seen)
  BY TakeFacts
<1>5. Fold(take, f, none) = f
  BY <1>2, <1>4, FoldEmpty
<1> HIDE DEF none
<1>6. Fold(take, f, s) = take[<<f, x>>]
  BY <1>2, <1>3, <1>4, <1>5, FoldAppend
<1>7. Fold(take, f, s) = Take(f, x)
  BY <1>2, <1>6, TakeFacts
<1> HIDE DEF s
<1> QED BY <1>3, <1>7, TakesIn DEF f

\* What goes out at a timeout or at the end: the buffer, if it has text.
GoesOut(incomplete) ==
    /\ buffer' = <<>>
    /\ emitted' = IF Blank(buffer) THEN emitted
                  ELSE Append(emitted, [data |-> buffer, incomplete |-> incomplete])

\* The buffer goes out as a cut of the reference, unless it still has form feeds; its
\* text goes out in any case.
LEMMA GoesOutFacts ==
    ASSUME IInv, NEW incomplete \in BOOLEAN, GoesOut(incomplete)
    PROVE  /\ emitted' \in Seq(Datagram) /\ buffer' \in Seq(Symbol)
           /\ TextOf(DataOf(emitted') \o buffer') = TextOf(seen)
           /\ (\A k \in DOMAIN buffer : ~IsFF(buffer[k])) =>
                 Framed(emitted', buffer') = Cut(Framed(emitted, buffer), incomplete)
<1> DEFINE d == [data |-> buffer, incomplete |-> incomplete]
           f == [out |-> emitted, cur |-> buffer]
<1>1. /\ emitted \in Seq(Datagram) /\ buffer \in Seq(Symbol) /\ seen \in Seq(Seen)
      /\ d \in Datagram /\ f \in Framing /\ f.out = emitted /\ f.cur = buffer
  BY FramingIs DEF IInv, TypeOK, Datagram
<1>2. emitted' \in Seq(Datagram) /\ buffer' = <<>> /\ buffer' \in Seq(Symbol)
  <2> HIDE DEF d
  <2>1. Append(emitted, d) \in Seq(Datagram)
    BY <1>1
  <2> QED BY <1>1, <2>1 DEF GoesOut, d
<1>3. Cut(f, incomplete) = [out |-> emitted', cur |-> <<>>]
  BY <1>1 DEF Cut, GoesOut
<1>4. ASSUME NEW out \in Seq(Datagram) PROVE Framed(out, <<>>) = [out |-> out, cur |-> <<>>]
  <2>1. <<>> \in Seq(Seen)
    OBVIOUS
  <2> QED BY <2>1, FramedFacts
<1>5. Framed(emitted', buffer') = [out |-> emitted', cur |-> <<>>]
  BY <1>2, <1>4
<1>6. TextOf(DataOf(emitted') \o buffer') = TextOf(seen)
  <2>1. Whole(Framed(emitted', buffer')) = TextOf(DataOf(emitted') \o buffer')
    BY <1>2, WholeOfFramed
  <2>2. Whole(Framed(emitted', buffer')) = Whole(f)
    BY <1>1, <1>3, <1>5, CutKeepsText
  <2>3. Whole(f) = TextOf(DataOf(emitted)) \o TextOf(buffer)
    BY <1>1 DEF Whole
  <2>4. TextOf(DataOf(emitted) \o buffer) = TextOf(DataOf(emitted)) \o TextOf(buffer)
    <3>1. DataOf(emitted) \in Seq(Seen) /\ buffer \in Seq(Seen)
      BY <1>1, DataOfFacts, SeenFacts, SeqMonotonic
    <3> QED BY <3>1, TextConcat
  <2> QED BY <2>1, <2>2, <2>3, <2>4 DEF IInv, NoTextLost
<1>7. ASSUME \A k \in DOMAIN buffer : ~IsFF(buffer[k])
      PROVE  Framed(emitted', buffer') = Cut(Framed(emitted, buffer), incomplete)
  <2>1. Framed(emitted, buffer) = f
    BY <1>1, <1>7, FramedClean
  <2> QED BY <1>3, <1>5, <2>1
<1> QED BY <1>2, <1>6, <1>7

\* A step that touches neither what was read nor what went out.
LEMMA NothingMoves ==
    ASSUME IInv, UNCHANGED <<buffer, emitted, seen, abandoned>>
    PROVE  FrameInv' /\ NoTextLost'
BY DEF IInv, FrameInv, NoTextLost

\* What the com server does, and starts and stops, leaves the framing alone.
LEMMA LineSteps ==
    ASSUME SerialAssumption, IInv,
           Connect \/ Close \/ LastEmitDone \/ StopElsewhere \/ (\E b \in Byte : Send(b))
    PROVE  IInv'
<1>1. CASE Connect
  <2>1. TypeOK'
    BY <1>1, SMTT(30) DEF IInv, TypeOK, Connect, SerialAssumption
  <2> QED BY <1>1, <2>1, NothingMoves DEF IInv, Connect
<1>2. CASE Close
  <2>1. TypeOK'
    BY <1>2 DEF IInv, TypeOK, Close, Open, outside
  <2> QED BY <1>2, <2>1, NothingMoves DEF IInv, Close
<1>3. CASE LastEmitDone
  <2>1. TypeOK'
    BY <1>3 DEF IInv, TypeOK, LastEmitDone, outside
  <2> QED BY <1>3, <2>1, NothingMoves DEF IInv, LastEmitDone
<1>4. CASE StopElsewhere
  <2>1. TypeOK'
    BY <1>4 DEF IInv, TypeOK, StopElsewhere, outside
  <2> QED BY <1>4, <2>1, NothingMoves DEF IInv, StopElsewhere
<1>5. ASSUME NEW b \in Byte, Send(b) PROVE IInv'
  <2>1. [byte |-> b, epoch |-> epoch] \in Symbol
    BY DEF IInv, TypeOK, Symbol
  <2>2. inbox' \in Seq(Symbol)
    BY <1>5, <2>1 DEF Send, IInv, TypeOK
  <2>3. TypeOK'
    BY <1>5, <2>2, SerialAssumption DEF IInv, TypeOK, Send, SerialAssumption
  <2> QED BY <1>5, <2>3, NothingMoves DEF IInv, Send
<1> QED BY <1>1, <1>2, <1>3, <1>4, <1>5

\* Read: Split emits what the reference has of buffer and chunk.
LEMMA ReadStep ==
    ASSUME IInv, Read
    PROVE  IInv'
<1> DEFINE buf == buffer \o inbox
<1>1. /\ buffer \in Seq(Symbol) /\ inbox \in Seq(Symbol) /\ emitted \in Seq(Datagram)
      /\ seen \in Seq(Seen) /\ after \in {"read", "split"}
  BY DEF IInv, TypeOK
<1>2. Seq(Symbol) \subseteq Seq(Seen)
  BY SeenFacts, SeqMonotonic
<1>3. /\ inbox \in Seq(Seen) /\ buffer \in Seq(Seen) /\ seen \o inbox \in Seq(Seen)
      /\ buf \in Seq(Symbol)
  BY <1>1, <1>2
<1>4. /\ at' \in {"waiting", "busy"} /\ after' \in {"read", "split"}
      /\ buffer' \in Seq(Symbol) /\ emitted' \in Seq(Datagram)
      /\ at' = "waiting" => \A k \in DOMAIN buffer' : ~IsFF(buffer'[k])
      /\ at' = "busy" => after' = "split"
      /\ Framed(emitted', buffer') = Framed(emitted, buf)
  <2>1. Split(buf)
    BY DEF Read
  <2> HIDE DEF buf
  <2> QED BY <1>1, <1>3, <2>1, SplitFacts
<1>5. Framed(emitted, buf) = Fold(take, Framed(emitted, buffer), inbox)
  BY <1>1, <1>3, FramedFacts
<1>6. FrameInv' /\ NoTextLost'
  <2>1. seen' = seen \o inbox /\ abandoned' = abandoned
    BY DEF Read
  <2> HIDE DEF buf
  <2> QED BY <1>3, <1>4, <1>5, <2>1, TakesIn
<1>7. TypeOK'
  <2>1. /\ inbox' = <<>> /\ seen' = seen \o inbox
        /\ UNCHANGED <<stopping, strategy, ended, abandoned, epoch, sent, connections>>
    BY DEF Read, outside
  <2>2. inbox' \in Seq(Symbol) /\ seen' \in Seq(Seen)
    BY <1>3, <2>1
  <2> HIDE DEF buf
  <2> QED BY <1>4, <2>1, <2>2 DEF IInv, TypeOK
<1> QED BY <1>6, <1>7 DEF IInv

\* A timeout is a mark for the reference; the buffer has no form feed then.
LEMMA PauseStep ==
    ASSUME SerialAssumption, IInv, Pause
    PROVE  IInv'
<1>1. epoch' \in 0..MaxPauses
  BY DEF Pause, IInv, TypeOK, SerialAssumption
<1>2. CASE at = "busy" /\ UNCHANGED <<at, after, buffer, emitted, seen>>
  <2>1. UNCHANGED <<stopping, strategy, inbox, ended, abandoned, sent, connections>>
    BY DEF Pause
  <2>2. TypeOK'
    BY <1>1, <1>2, <2>1 DEF IInv, TypeOK
  <2> QED BY <1>2, <2>1, <2>2, NothingMoves DEF IInv
<1>3. CASE /\ at = "waiting" /\ inbox = <<>>
           /\ seen' = Append(seen, Mark(strategy, epoch'))
           /\ buffer' = <<>>
           /\ IF Blank(buffer) THEN UNCHANGED <<at, after, emitted>>
              ELSE Emit(buffer, PauseIsIncomplete) /\ at' = "busy" /\ after' = "read"
  <2> DEFINE x == Mark(strategy, epoch')
  <2>1. /\ emitted \in Seq(Datagram) /\ buffer \in Seq(Symbol) /\ buffer \in Seq(Seen)
        /\ seen \in Seq(Seen) /\ strategy \in {"idle", "formfeed"}
        /\ \A k \in DOMAIN buffer : ~IsFF(buffer[k])
    BY <1>3, SeenFacts, SeqMonotonic DEF IInv, TypeOK, SerialAssumption
  <2>2. x \in Seen /\ PauseIsIncomplete \in BOOLEAN
    BY <1>1, <2>1 DEF Seen, Mark, PauseIsIncomplete
  <2>3. GoesOut(PauseIsIncomplete)
    BY <1>3 DEF GoesOut, Emit
  <2>4. /\ emitted' \in Seq(Datagram) /\ buffer' \in Seq(Symbol)
        /\ Framed(emitted', buffer') = Cut(Framed(emitted, buffer), PauseIsIncomplete)
    BY <2>1, <2>2, <2>3, GoesOutFacts
  <2>5. Framed(emitted, buffer) \in Framing
    BY <2>1, FramedFacts
  <2>6. Take(Framed(emitted, buffer), x) = Cut(Framed(emitted, buffer), PauseIsIncomplete)
    BY <2>1 DEF Take, Mark, IsFF, PauseIsIncomplete
  <2>7. seen' = Append(seen, x) /\ abandoned' = abandoned
    BY <1>3 DEF Pause
  <2>8. FrameInv' /\ NoTextLost'
    <3> HIDE DEF x
    <3> QED BY <2>2, <2>4, <2>6, <2>7, TakesOne
  <2>9. TypeOK'
    <3>1. seen' \in Seq(Seen)
      <4> HIDE DEF x
      <4> QED BY <2>1, <2>2, <2>7
    <3>2. UNCHANGED <<stopping, strategy, inbox, ended, abandoned, sent, connections>>
      BY DEF Pause
    <3>3. at' \in {"waiting", "busy"} /\ after' \in {"read", "split"} /\ buffer' = <<>>
      BY <1>3 DEF IInv, TypeOK
    <3> QED BY <1>1, <2>4, <3>1, <3>2, <3>3 DEF IInv, TypeOK
  <2> QED BY <2>8, <2>9 DEF IInv
<1> QED BY <1>2, <1>3 DEF Pause

\* After _emit the loop goes on with a buffer it has read already.
LEMMA EmitDoneStep ==
    ASSUME IInv, EmitDone
    PROVE  IInv'
<1>1. UNCHANGED <<stopping, strategy, inbox, ended, seen, abandoned, epoch, sent, connections>>
  BY DEF EmitDone, outside
<1>2. CASE after = "read" /\ at' = "waiting" /\ UNCHANGED <<after, buffer, emitted>>
  <2>1. TypeOK'
    BY <1>1, <1>2 DEF EmitDone, IInv, TypeOK
  <2> QED BY <1>1, <1>2, <2>1, NothingMoves DEF IInv
<1>3. CASE after = "split" /\ Split(buffer)
  <2>1. buffer \in Seq(Symbol) /\ buffer \in Seq(Seen) /\ emitted \in Seq(Datagram)
        /\ after \in {"read", "split"} /\ seen \in Seq(Seen)
    BY SeenFacts, SeqMonotonic DEF IInv, TypeOK
  <2>2. /\ at' \in {"waiting", "busy"} /\ after' \in {"read", "split"}
        /\ buffer' \in Seq(Symbol) /\ emitted' \in Seq(Datagram)
        /\ at' = "waiting" => \A k \in DOMAIN buffer' : ~IsFF(buffer'[k])
        /\ at' = "busy" => after' = "split"
        /\ Framed(emitted', buffer') = Framed(emitted, buffer)
    BY <1>3, <2>1, SplitFacts
  <2>3. TypeOK'
    BY <1>1, <2>2 DEF IInv, TypeOK
  <2>4. FrameInv'
    BY <1>1, <2>2 DEF IInv, FrameInv
  <2>5. /\ Whole(Framed(emitted', buffer')) = TextOf(DataOf(emitted') \o buffer')
        /\ Whole(Framed(emitted, buffer)) = TextOf(DataOf(emitted) \o buffer)
    BY <2>1, <2>2, WholeOfFramed
  <2>6. NoTextLost'
    BY <1>1, <2>2, <2>5 DEF IInv, NoTextLost
  <2> QED BY <2>3, <2>4, <2>6 DEF IInv
<1> QED BY <1>2, <1>3 DEF EmitDone

\* The end of a connection, however it comes: at a read or at an exception.
LEMMA FinallyFacts ==
    ASSUME IInv, Finally, seen' = Append(seen, Mark("end", epoch)), stopping' \in BOOLEAN,
           UNCHANGED <<after, strategy, inbox, ended, outside>>,
           abandoned' = (abandoned \/ \E k \in DOMAIN buffer : IsFF(buffer[k]))
    PROVE  IInv'
<1> DEFINE x == Mark("end", epoch)
<1>1. /\ emitted \in Seq(Datagram) /\ buffer \in Seq(Symbol) /\ buffer \in Seq(Seen)
      /\ seen \in Seq(Seen) /\ epoch \in 0..MaxPauses
  BY SeenFacts, SeqMonotonic DEF IInv, TypeOK
<1>2. x \in Seen /\ ~IsText(x)
  BY <1>1 DEF Seen, Mark, IsText
<1>3. GoesOut(TRUE)
  BY DEF Finally, GoesOut, Emit
<1>4. /\ emitted' \in Seq(Datagram) /\ buffer' \in Seq(Symbol)
      /\ TextOf(DataOf(emitted') \o buffer') = TextOf(seen)
      /\ (\A k \in DOMAIN buffer : ~IsFF(buffer[k])) =>
            Framed(emitted', buffer') = Cut(Framed(emitted, buffer), TRUE)
  <2>1. TRUE \in BOOLEAN
    OBVIOUS
  <2> QED BY <1>3, <2>1, GoesOutFacts
<1>5. Framed(emitted, buffer) \in Framing
  BY <1>1, FramedFacts
<1>6. Take(Framed(emitted, buffer), x) = Cut(Framed(emitted, buffer), TRUE)
  BY DEF Take, Mark, IsFF
<1>7. seen' \in Seq(Seen) /\ TextOf(seen') = TextOf(seen)
  <2> HIDE DEF x
  <2>1. seen' = Append(seen, x)
    BY DEF x
  <2> QED BY <1>1, <1>2, <2>1, TextOfFacts
<1>8. NoTextLost'
  BY <1>4, <1>7 DEF NoTextLost
<1>9. FrameInv'
  <2> SUFFICES ASSUME ~abandoned' PROVE FrameInv'
    BY DEF FrameInv
  <2>1. abandoned' = abandoned /\ \A k \in DOMAIN buffer : ~IsFF(buffer[k])
    BY DEF IInv, TypeOK
  <2> HIDE DEF x
  <2>2. seen' = Append(seen, x)
    BY DEF x
  <2> QED BY <1>2, <1>4, <1>6, <2>1, <2>2, TakesOne
<1>10. TypeOK'
  <2>1. at' \in {"down", "closing", "stopped"} /\ buffer' = <<>> /\ abandoned' \in BOOLEAN
    BY DEF Finally, IInv, TypeOK
  <2> HIDE DEF x
  <2> QED BY <1>4, <1>7, <2>1 DEF IInv, TypeOK, outside
<1> QED BY <1>8, <1>9, <1>10 DEF IInv

\* End of file, reset, an exception of the handler, stop().
LEMMA EndSteps ==
    ASSUME IInv, ReadEnds \/ \E stops \in BOOLEAN : Interrupted(stops)
    PROVE  IInv'
<1>1. CASE ReadEnds
  <2>1. \A k \in DOMAIN buffer : ~IsFF(buffer[k])
    BY <1>1 DEF ReadEnds, IInv, TypeOK
  <2>2. stopping' \in BOOLEAN /\ abandoned \in BOOLEAN
    BY <1>1 DEF ReadEnds, IInv, TypeOK
  <2>3. abandoned' = (abandoned \/ \E k \in DOMAIN buffer : IsFF(buffer[k]))
    BY <1>1, <2>1, <2>2 DEF ReadEnds
  <2> QED BY <1>1, <2>2, <2>3, FinallyFacts DEF ReadEnds
<1>2. ASSUME NEW stops \in BOOLEAN, Interrupted(stops) PROVE IInv'
  <2>1. stopping' \in BOOLEAN
    BY <1>2 DEF Interrupted
  <2> QED BY <1>2, <2>1, FinallyFacts DEF Interrupted
<1> QED BY <1>1, <1>2

\* Nothing read, nothing emitted.
LEMMA InitInv == SerialAssumption /\ Init => IInv
<1> SUFFICES ASSUME SerialAssumption, Init PROVE IInv
  OBVIOUS
<1>1. <<>> \in Seq(Symbol) /\ <<>> \in Seq(Datagram) /\ <<>> \in Seq(Seen)
  OBVIOUS
<1>2. TypeOK
  <2> DEFINE none == <<>>
  <2>1. none \in Seq(Symbol) /\ none \in Seq(Datagram) /\ none \in Seq(Seen)
    BY <1>1
  <2>2. inbox = none /\ buffer = none /\ emitted = none /\ seen = none /\ at = "down"
    BY DEF Init
  <2>3. /\ after = "read" /\ stopping = FALSE /\ strategy \in Strategies /\ ended = "no"
        /\ abandoned = FALSE /\ epoch = 0 /\ sent = 0 /\ connections = 0
    BY DEF Init
  <2>4. /\ epoch \in 0..MaxPauses /\ sent \in 0..MaxBytes
        /\ connections \in 0..MaxConnections
    BY <2>3 DEF SerialAssumption
  <2>5. buffer = <<>>
    BY <2>2
  <2> HIDE DEF none
  <2> QED BY <2>1, <2>2, <2>3, <2>4, <2>5 DEF TypeOK
<1>3. FrameInv
  BY DEF Init, FrameInv
<1>4. NoTextLost
  <2>1. DataOf(emitted) = <<>>
    BY <1>1, DataOfFacts DEF Init
  <2>2. <<>> \o <<>> = <<>>
    BY <1>1, ConcatEmptySeq
  <2> QED BY <2>1, <2>2 DEF NoTextLost, Init
<1> QED BY <1>2, <1>3, <1>4 DEF IInv

\* Every step keeps the invariant.
LEMMA NextInv == SerialAssumption /\ IInv /\ [Next]_vars => IInv'
<1> SUFFICES ASSUME SerialAssumption, IInv, [Next]_vars PROVE IInv'
  OBVIOUS
<1>1. CASE Connect \/ Close \/ LastEmitDone \/ StopElsewhere \/ (\E b \in Byte : Send(b))
  BY <1>1, LineSteps
<1>2. CASE Read
  BY <1>2, ReadStep
<1>3. CASE Pause
  BY <1>3, PauseStep
<1>4. CASE EmitDone
  BY <1>4, EmitDoneStep
<1>5. CASE ReadEnds \/ \E stops \in BOOLEAN : Interrupted(stops)
  BY <1>5, EndSteps
<1>6. CASE UNCHANGED vars
  BY <1>6 DEF vars, IInv, TypeOK, FrameInv, NoTextLost
<1> QED BY <1>1, <1>2, <1>3, <1>4, <1>5, <1>6 DEF Next

\* Buffer and datagrams always agree with the reference and have all text, for
\* any stream in any chunks.
THEOREM Invariance == Spec => []IInv
<1>1. SerialAssumption
  BY SerialAssumption
<1> QED BY <1>1, InitInv, NextInv, PTL DEF Spec

-----------------------------------------------------------------------------
(* What the invariant says of the system.                                  *)

\* Every variable keeps its type; a loop that waits in read holds no form feed.
THEOREM TypeCorrect == Spec => []TypeOK
<1>1. IInv => TypeOK
  BY DEF IInv
<1> QED BY <1>1, Invariance, PTL

\* Since the buffer can only add datagrams, those emitted begin the reference.
LEMMA FrameChunking == IInv => ChunkingIsIrrelevant
<1> SUFFICES ASSUME IInv, ~abandoned
             PROVE  /\ Len(emitted) <= Len(Reference)
                    /\ emitted = SubSeq(Reference, 1, Len(emitted))
                    /\ at = "waiting" => emitted = Reference
  BY DEF ChunkingIsIrrelevant
<1> DEFINE f == [out |-> emitted, cur |-> <<>>]
<1>1. /\ emitted \in Seq(Datagram) /\ buffer \in Seq(Symbol) /\ buffer \in Seq(Seen)
      /\ at = "waiting" => \A k \in DOMAIN buffer : ~IsFF(buffer[k])
  BY SeenFacts, SeqMonotonic DEF IInv, TypeOK
<1>2. Reference = Framed(emitted, buffer).out
  BY DEF IInv, FrameInv, Reference
<1>3. f \in Framing /\ f.out = emitted /\ Framed(emitted, buffer) = Fold(take, f, buffer)
  BY <1>1, FramedFacts DEF Framed
<1>4. Extends(Reference, emitted)
  <2> HIDE DEF f
  <2>1. Extends(Fold(take, f, buffer).out, f.out)
    BY <1>1, <1>3, OnlyAppends
  <2> QED BY <1>2, <1>3, <2>1
<1>5. ASSUME at = "waiting" PROVE emitted = Reference
  BY <1>1, <1>2, <1>5, FramedClean
<1> QED BY <1>4, <1>5 DEF Extends

\* However a stream of any length falls into chunks, and however long handlers
\* take, _read_loop emits the datagrams of the reference, in its order.
THEOREM ChunksDoNotMatter == Spec => []ChunkingIsIrrelevant
BY FrameChunking, Invariance, PTL

\* No text that _read_loop has read is lost, doubled or moved, handlers that fail
\* and stop() included.
THEOREM NothingReadIsLost == Spec => []NoTextLost
<1>1. IInv => NoTextLost
  BY DEF IInv
<1> QED BY <1>1, Invariance, PTL

-----------------------------------------------------------------------------
(* Pauses.                                                                 *)

\* The epochs that began with a pause that read saw.
PausesOf(s) == {s[p].epoch : p \in {q \in DOMAIN s : IsPause(s[q])}}

\* Every symbol came after all these pauses, in epoch e at the latest.
Fresh(s, pauses, e) ==
    \A k \in DOMAIN s : s[k].epoch <= e /\ \A p \in pauses : p <= s[k].epoch

\* No pause is inside, and epoch e is the latest.
Undivided(s, pauses, e) ==
    /\ \A k \in DOMAIN s : s[k].epoch <= e
    /\ \A p \in pauses : (\A k \in DOMAIN s : s[k].epoch < p) \/ (\A k \in DOMAIN s : p <= s[k].epoch)

AllUndivided(out, pauses, e) == \A i \in DOMAIN out : Undivided(out[i].data, pauses, e)

\* What is still to be read or emitted came after every pause that was seen.
PauseInv ==
    /\ at \in {"waiting", "busy"} =>
          Fresh(buffer, PausesOf(seen), epoch) /\ Fresh(inbox, PausesOf(seen), epoch)
    /\ AllUndivided(emitted, PausesOf(seen), epoch)
    /\ \A p \in PausesOf(seen) : p <= epoch

\* Only a timeout adds a pause.
LEMMA PausesFacts ==
    ASSUME SerialAssumption, NEW s \in Seq(Seen)
    PROVE  /\ \A x \in Seen : ~IsPause(x) => PausesOf(Append(s, x)) = PausesOf(s)
           /\ \A x \in Seen : IsPause(x) => PausesOf(Append(s, x)) = PausesOf(s) \cup {x.epoch}
           /\ \A t \in Seq(Symbol) : PausesOf(s \o t) = PausesOf(s)
           /\ PausesOf(s) \subseteq 0..MaxPauses
<1>1. ASSUME NEW x \in Seen
      PROVE  LET more == Append(s, x)
             IN  /\ ~IsPause(x) => PausesOf(more) = PausesOf(s)
                 /\ IsPause(x) => PausesOf(more) = PausesOf(s) \cup {x.epoch}
  <2> DEFINE more == Append(s, x)
  <2>1. /\ DOMAIN more = 1..(Len(s) + 1) /\ DOMAIN s = 1..Len(s) /\ Len(s) \in Nat
        /\ \A k \in 1..Len(s) : more[k] = s[k]
        /\ more[Len(s) + 1] = x
    OBVIOUS
  <2> HIDE DEF more
  <2>2. DOMAIN more = DOMAIN s \cup {Len(s) + 1}
    BY <2>1
  <2> QED BY <2>1, <2>2 DEF PausesOf
<1>2. ASSUME NEW t \in Seq(Symbol) PROVE PausesOf(s \o t) = PausesOf(s)
  <2> DEFINE more == s \o t
  <2>1. /\ DOMAIN s \subseteq DOMAIN more
        /\ \A k \in DOMAIN s : more[k] = s[k]
        /\ \A k \in DOMAIN more \ DOMAIN s : more[k] \in Symbol
    OBVIOUS
  <2>2. \A x \in Symbol : ~IsPause(x)
    BY SeenFacts DEF IsPause
  <2> HIDE DEF more
  <2> QED BY <2>1, <2>2 DEF PausesOf
<1>3. \A x \in Seen : x.epoch \in 0..MaxPauses
  BY DEF Seen, Symbol
<1>4. PausesOf(s) \subseteq 0..MaxPauses
  <2>1. \A q \in DOMAIN s : s[q] \in Seen
    OBVIOUS
  <2> QED BY <1>3, <2>1 DEF PausesOf
<1> QED BY <1>1, <1>2, <1>4

\* Nothing is fresh.
LEMMA EmptyIsFresh == \A pauses, e : Fresh(<<>>, pauses, e)
BY DEF Fresh

\* What is fresh is in one piece.
LEMMA FreshIsUndivided ==
    \A s, pauses, e : Fresh(s, pauses, e) => Undivided(s, pauses, e)
BY DEF Fresh, Undivided

\* One datagram more, in one piece.
LEMMA EmitUndivided ==
    ASSUME NEW out \in Seq(Datagram), NEW d \in Datagram, NEW pauses, NEW e,
           Undivided(d.data, pauses, e), AllUndivided(out, pauses, e)
    PROVE  AllUndivided(Append(out, d), pauses, e)
<1> DEFINE longer == Append(out, d)
<1> SUFFICES ASSUME NEW i \in DOMAIN longer PROVE Undivided(longer[i].data, pauses, e)
  BY DEF AllUndivided
<1>1. longer[i] = d \/ (i \in DOMAIN out /\ longer[i] = out[i])
  OBVIOUS
<1> HIDE DEF longer
<1> QED BY <1>1 DEF AllUndivided

\* What Split emits and keeps is part of the bytes it is given.
LEMMA SplitFresh ==
    ASSUME TypeOK, NEW buf \in Seq(Symbol), Split(buf), NEW pauses,
           Fresh(buf, pauses, epoch), AllUndivided(emitted, pauses, epoch)
    PROVE  /\ Fresh(buffer', pauses, epoch)
           /\ AllUndivided(emitted', pauses, epoch)
<1>0. emitted \in Seq(Datagram) /\ Len(buf) \in 0..Len(buf)
  BY DEF TypeOK
<1>1. ASSUME NEW to \in 0..Len(buf)
      PROVE  Text(buf, to) \in Seq(Symbol) /\ Fresh(Text(buf, to), pauses, epoch)
  <2> DEFINE t == Text(buf, to)
             j == LastFF(buf, to)
  <2>1. /\ t \in Seq(Symbol) /\ Len(t) = to - j
        /\ \A k \in 1..Len(t) : t[k] = buf[j + k]
    BY TextFacts
  <2>2. j \in 0..to
    BY LastFFFacts
  <2> HIDE DEF t, j
  <2>3. \A k \in DOMAIN t : j + k \in DOMAIN buf /\ t[k] = buf[j + k]
    BY <2>1, <2>2
  <2> QED BY <2>1, <2>3 DEF Fresh, t
<1>2. CASE Cuts(buf) = {}
  <2>1. buffer' = Text(buf, Len(buf)) /\ emitted' = emitted
    BY <1>2 DEF Split
  <2> QED BY <1>0, <1>1, <2>1
<1>3. CASE Cuts(buf) # {}
  <2> DEFINE i == CHOOSE i \in Cuts(buf) : \A k \in Cuts(buf) : i <= k
             d == [data |-> Text(buf, i - 1), incomplete |-> FALSE]
  <2>1. i \in Cuts(buf)
    <3>1. Cuts(buf) \in SUBSET Nat
      BY DEF Cuts
    <3>2. \E m \in Cuts(buf) : \A k \in Cuts(buf) : m <= k
      BY <1>3, <3>1, Least
    <3> QED BY <3>2, Zenon
  <2>2. emitted' = Append(emitted, d) /\ buffer' = DropThrough(buf, i)
    BY <1>3, Zenon DEF Split, Emit
  <2> HIDE DEF i
  <2>3. i \in 1..Len(buf) /\ i - 1 \in 0..Len(buf)
    BY <2>1 DEF Cuts
  <2>4. d \in Datagram /\ Undivided(d.data, pauses, epoch)
    BY <1>1, <2>3, FreshIsUndivided DEF Datagram
  <2> HIDE DEF d
  <2>5. AllUndivided(emitted', pauses, epoch)
    BY <1>0, <2>2, <2>4, EmitUndivided
  <2>6. Fresh(buffer', pauses, epoch)
    <3> DEFINE t == SubSeq(buf, i + 1, Len(buf))
    <3>1. \A k \in DOMAIN t : t[k] = buf[i + k] /\ i + k \in DOMAIN buf
      BY <2>3
    <3> HIDE DEF t
    <3>2. Fresh(t, pauses, epoch)
      BY <3>1 DEF Fresh
    <3> QED BY <2>2, <3>2 DEF t, DropThrough
  <2> QED BY <2>5, <2>6
<1> QED BY <1>2, <1>3

\* The buffer goes out as it is.
LEMMA GoesOutUndivided ==
    ASSUME TypeOK, PauseInv, at \in {"waiting", "busy"},
           NEW incomplete \in BOOLEAN, GoesOut(incomplete)
    PROVE  /\ buffer' = <<>>
           /\ AllUndivided(emitted', PausesOf(seen), epoch)
<1> DEFINE d == [data |-> buffer, incomplete |-> incomplete]
<1>1. /\ emitted \in Seq(Datagram) /\ d \in Datagram
      /\ Undivided(d.data, PausesOf(seen), epoch)
      /\ AllUndivided(emitted, PausesOf(seen), epoch)
  BY FreshIsUndivided DEF TypeOK, Datagram, PauseInv
<1>2. buffer' = <<>> /\ (emitted' = emitted \/ emitted' = Append(emitted, d))
  BY DEF GoesOut
<1> HIDE DEF d
<1> QED BY <1>1, <1>2, EmitUndivided

\* A pause: what was emitted came before it, and nothing else is left.
LEMMA PauseDivides ==
    ASSUME SerialAssumption, TypeOK, PauseInv, Pause
    PROVE  PauseInv'
<1>0. /\ epoch \in 0..MaxPauses /\ epoch' = epoch + 1 /\ MaxPauses \in Nat
      /\ epoch' \in 0..MaxPauses
      /\ emitted \in Seq(Datagram) /\ buffer \in Seq(Symbol) /\ inbox \in Seq(Symbol)
      /\ seen \in Seq(Seen) /\ strategy \in {"idle", "formfeed"}
  BY DEF Pause, TypeOK, SerialAssumption
<1>1. ASSUME NEW t \in Seq(Symbol), NEW pauses
      PROVE  /\ Fresh(t, pauses, epoch) => Fresh(t, pauses, epoch')
             /\ Undivided(t, pauses, epoch) => Undivided(t, pauses, epoch')
             /\ Undivided(t, pauses, epoch) => Undivided(t, pauses \cup {epoch'}, epoch')
  <2>1. ASSUME NEW k \in DOMAIN t PROVE t[k].epoch \in 0..MaxPauses
    <3>1. t[k] \in Symbol
      OBVIOUS
    <3> QED BY <3>1 DEF Symbol
  <2>2. \A k \in DOMAIN t : t[k].epoch <= epoch => t[k].epoch <= epoch' /\ t[k].epoch < epoch'
    BY <1>0, <2>1
  <2> QED BY <2>2 DEF Fresh, Undivided
<1>2. ASSUME NEW out \in Seq(Datagram), NEW pauses, AllUndivided(out, pauses, epoch)
      PROVE  /\ AllUndivided(out, pauses, epoch')
             /\ AllUndivided(out, pauses \cup {epoch'}, epoch')
  <2>1. ASSUME NEW i \in DOMAIN out PROVE out[i].data \in Seq(Symbol)
    <3>1. out[i] \in Datagram
      OBVIOUS
    <3> QED BY <3>1 DEF Datagram
  <2> QED BY <1>1, <1>2, <2>1 DEF AllUndivided
<1>5. \A p \in PausesOf(seen) : p <= epoch'
  <2>1. PausesOf(seen) \subseteq 0..MaxPauses
    BY <1>0, PausesFacts
  <2> QED BY <1>0, <2>1 DEF PauseInv
<1>3. CASE at = "busy"
  <2>1. UNCHANGED <<at, buffer, emitted, seen, inbox>>
    BY <1>3 DEF Pause
  <2>2. Fresh(buffer, PausesOf(seen), epoch') /\ Fresh(inbox, PausesOf(seen), epoch')
    BY <1>0, <1>1, <1>3 DEF PauseInv
  <2>3. AllUndivided(emitted, PausesOf(seen), epoch')
    BY <1>0, <1>2 DEF PauseInv
  <2> QED BY <1>5, <2>1, <2>2, <2>3 DEF PauseInv
<1>4. CASE at # "busy"
  <2> DEFINE x == Mark(strategy, epoch')
  <2>1. /\ at = "waiting" /\ inbox' = <<>> /\ seen' = Append(seen, x)
        /\ GoesOut(PauseIsIncomplete) /\ PauseIsIncomplete \in BOOLEAN
    BY <1>4 DEF Pause, GoesOut, Emit, PauseIsIncomplete
  <2>2. buffer' = <<>> /\ AllUndivided(emitted', PausesOf(seen), epoch)
    BY <2>1, GoesOutUndivided
  <2>3. x \in Seen /\ IsPause(x) /\ x.epoch = epoch'
    BY <1>0 DEF Mark, Seen, IsPause
  <2> HIDE DEF x
  <2>4. PausesOf(seen') = PausesOf(seen) \cup {epoch'}
    BY <1>0, <2>1, <2>3, PausesFacts
  <2>5. emitted' \in Seq(Datagram)
    <3> DEFINE d == [data |-> buffer, incomplete |-> PauseIsIncomplete]
    <3>1. d \in Datagram /\ (emitted' = emitted \/ emitted' = Append(emitted, d))
      BY <1>0, <2>1 DEF GoesOut, Datagram
    <3>2. Append(emitted, d) \in Seq(Datagram)
      BY <1>0, <3>1
    <3> HIDE DEF d
    <3> QED BY <1>0, <3>1, <3>2
  <2>6. AllUndivided(emitted', PausesOf(seen) \cup {epoch'}, epoch')
    BY <1>2, <2>2, <2>5
  <2>7. \A p \in PausesOf(seen) \cup {epoch'} : p <= epoch'
    BY <1>0, <1>5
  <2> QED BY <2>1, <2>2, <2>4, <2>6, <2>7, EmptyIsFresh DEF PauseInv
<1> QED BY <1>3, <1>4

\* Buffer and inbox always came after the pauses that were seen.
LEMMA PauseKept ==
    ASSUME SerialAssumption, TypeOK, PauseInv, [Next]_vars
    PROVE  PauseInv'
<1> USE DEF outside
<1> DEFINE pauses == PausesOf(seen)
<1>0. /\ buffer \in Seq(Symbol) /\ inbox \in Seq(Symbol) /\ emitted \in Seq(Datagram)
      /\ seen \in Seq(Seen) /\ AllUndivided(emitted, pauses, epoch) /\ epoch \in 0..MaxPauses
  BY DEF TypeOK, PauseInv
<1>1. CASE Connect
  <2>1. /\ buffer' = <<>> /\ inbox' = <<>> /\ UNCHANGED <<emitted, seen, epoch>>
    BY <1>1 DEF Connect, TypeOK
  <2> QED BY <1>0, <2>1 DEF PauseInv, Fresh
<1>2. CASE Close
  BY <1>2 DEF Close, PauseInv
<1>3. ASSUME NEW b \in Byte, Send(b) PROVE PauseInv'
  <2> DEFINE x == [byte |-> b, epoch |-> epoch]
  <2>1. Fresh(inbox, pauses, epoch) /\ x \in Symbol /\ x.epoch = epoch
    BY <1>0, <1>3 DEF Send, Open, PauseInv, Symbol
  <2>2. \A p \in pauses : p <= epoch
    BY DEF PauseInv
  <2> HIDE DEF x
  <2>3. Fresh(Append(inbox, x), pauses, epoch)
    <3> DEFINE more == Append(inbox, x)
    <3>1. \A k \in DOMAIN more : more[k] = x \/ (k \in DOMAIN inbox /\ more[k] = inbox[k])
      BY <1>0, <2>1
    <3> HIDE DEF more
    <3>2. Fresh(more, pauses, epoch)
      BY <1>0, <2>1, <2>2, <3>1 DEF Fresh
    <3> QED BY <3>2 DEF more
  <2>4. inbox' = Append(inbox, x) /\ UNCHANGED <<at, buffer, emitted, seen, epoch>>
    BY <1>3 DEF Send, x
  <2> QED BY <1>0, <2>3, <2>4 DEF PauseInv
<1>4. CASE Pause
  BY <1>4, PauseDivides
<1>5. CASE Read
  <2> DEFINE buf == buffer \o inbox
  <2>1. buf \in Seq(Symbol) /\ Fresh(buf, pauses, epoch)
    <3>1. Fresh(buffer, pauses, epoch) /\ Fresh(inbox, pauses, epoch)
      BY <1>5 DEF Read, PauseInv
    <3>2. \A k \in DOMAIN buf : \/ k \in DOMAIN buffer /\ buf[k] = buffer[k]
                                \/ /\ k - Len(buffer) \in DOMAIN inbox
                                   /\ buf[k] = inbox[k - Len(buffer)]
      BY <1>0
    <3>3. buf \in Seq(Symbol)
      BY <1>0
    <3> HIDE DEF buf, pauses
    <3> QED BY <3>1, <3>2, <3>3 DEF Fresh
  <2>2. Split(buf) /\ inbox' = <<>> /\ epoch' = epoch /\ PausesOf(seen') = pauses
    BY <1>0, <1>5, PausesFacts DEF Read
  <2> HIDE DEF buf, pauses
  <2>3. Fresh(buffer', pauses, epoch) /\ AllUndivided(emitted', pauses, epoch)
    BY <1>0, <2>1, <2>2, SplitFresh
  <2>4. \A p \in pauses : p <= epoch
    BY DEF PauseInv, pauses
  <2> QED BY <2>2, <2>3, <2>4, EmptyIsFresh DEF PauseInv
<1>6. CASE EmitDone
  <2>1. /\ Fresh(buffer, pauses, epoch) /\ Fresh(inbox, pauses, epoch)
        /\ UNCHANGED <<inbox, seen, epoch>>
    BY <1>6 DEF EmitDone, PauseInv
  <2>2. CASE UNCHANGED <<buffer, emitted>>
    BY <1>0, <2>1, <2>2 DEF PauseInv
  <2>3. CASE Split(buffer)
    <3>1. Fresh(buffer', pauses, epoch) /\ AllUndivided(emitted', pauses, epoch)
      BY <1>0, <2>1, <2>3, SplitFresh
    <3> QED BY <2>1, <3>1 DEF PauseInv
  <2> QED BY <1>6, <2>2, <2>3 DEF EmitDone
<1>7. CASE ReadEnds \/ \E stops \in BOOLEAN : Interrupted(stops)
  <2> DEFINE x == Mark("end", epoch)
  <2>1. /\ at \in {"waiting", "busy"} /\ Finally
        /\ seen' = Append(seen, x) /\ epoch' = epoch
    BY <1>7 DEF ReadEnds, Interrupted
  <2>2. x \in Seen /\ ~IsPause(x)
    BY <1>0 DEF Mark, Seen, IsPause
  <2> HIDE DEF x
  <2>3. PausesOf(seen') = pauses
    BY <1>0, <2>1, <2>2, PausesFacts
  <2>4. GoesOut(TRUE) /\ at' \notin {"waiting", "busy"}
    BY <2>1 DEF Finally, GoesOut, Emit
  <2>5. AllUndivided(emitted', pauses, epoch)
    BY <2>1, <2>4, GoesOutUndivided
  <2> QED BY <2>1, <2>3, <2>4, <2>5 DEF PauseInv
<1>8. CASE LastEmitDone \/ StopElsewhere
  <2>1. at' \notin {"waiting", "busy"} /\ UNCHANGED <<emitted, seen, epoch>>
    BY <1>8 DEF LastEmitDone, StopElsewhere
  <2> QED BY <1>0, <2>1 DEF PauseInv
<1>9. CASE UNCHANGED vars
  BY <1>9 DEF vars, PauseInv
<1> QED BY <1>1, <1>2, <1>3, <1>4, <1>5, <1>6, <1>7, <1>8, <1>9 DEF Next

\* A pause that passes while read waits divides the datagrams for good, with
\* handlers that fail and stop() at any time: what the run that refutes
\* PauseSeparates needs is a pause during on_datagram.
THEOREM SeenPausesCount == Spec => []SeenPausesSeparate
<1>1. SerialAssumption
  BY SerialAssumption
<1>2. SerialAssumption /\ Init => PauseInv
  <2>1. ASSUME Init PROVE PausesOf(seen) = {} /\ DOMAIN emitted = {}
    BY <2>1 DEF Init, PausesOf
  <2> QED BY <2>1 DEF Init, PauseInv, AllUndivided
<1>3. TypeOK /\ PauseInv => SeenPausesSeparate
  <2> SUFFICES ASSUME TypeOK, PauseInv,
                      NEW p \in DOMAIN seen, NEW i \in DOMAIN emitted, IsPause(seen[p]),
                      NEW k \in DOMAIN emitted[i].data, NEW l \in DOMAIN emitted[i].data,
                      emitted[i].data[k].epoch < seen[p].epoch
               PROVE  emitted[i].data[l].epoch < seen[p].epoch
    BY DEF SeenPausesSeparate
  <2> DEFINE data == emitted[i].data
  <2>1. data \in Seq(Symbol) /\ seen[p] \in Seen
    <3>1. emitted \in Seq(Datagram) /\ seen \in Seq(Seen)
      BY DEF TypeOK
    <3>2. emitted[i] \in Datagram /\ seen[p] \in Seen
      BY <3>1
    <3> QED BY <3>2 DEF Datagram
  <2>2. data[k].epoch \in 0..MaxPauses /\ seen[p].epoch \in 0..MaxPauses
    <3> HIDE DEF data
    <3>1. k \in DOMAIN data
      BY DEF data
    <3>2. data[k] \in Symbol
      BY <2>1, <3>1
    <3> QED BY <2>1, <3>2 DEF Symbol, Seen
  <2>3. seen[p].epoch \in PausesOf(seen) /\ Undivided(emitted[i].data, PausesOf(seen), epoch)
    BY DEF PausesOf, PauseInv, AllUndivided
  <2> QED BY <2>2, <2>3, SerialAssumption DEF Undivided, SerialAssumption
<1> QED BY <1>1, <1>2, <1>3, TypeCorrect, PauseKept, PTL DEF Spec
===============================================================================
