----------------------------- MODULE ReadLogProofs -----------------------------
(***************************************************************************)
(* Proofs about ReadLog: the clean log is the text of all that has come,   *)
(* however it was split into chunks, and a read of a growing log answers   *)
(* with its last lines, wherever the blocks and the cap fall.              *)
(***************************************************************************)
EXTENDS ReadLog, SequenceTheorems, FiniteSetTheorems, WellFoundedInduction, TLAPS

-----------------------------------------------------------------------------
(* Numbers *)

\* Induction, over a set of numbers.
LEMMA Induction ==
  ASSUME NEW T, 0 \in T, \A n \in Nat : n \in T => n + 1 \in T
  PROVE  Nat \subseteq T
<1> SUFFICES ASSUME Nat \ T # {} PROVE FALSE
  OBVIOUS
<1>1. PICK x \in Nat \ T : \A y \in Nat \ T : ~ (<<y, x>> \in OpToRel(<, Nat))
  BY NatLessThanWellFounded, WFMin
<1>2. \A y \in Nat \ T : ~(y < x)
  BY <1>1 DEF OpToRel
<1>3. x # 0
  OBVIOUS
<1>4. x - 1 \in Nat /\ x - 1 < x
  BY <1>3
<1>5. x - 1 \in T
  BY <1>2, <1>4
<1> QED
  BY <1>4, <1>5

\* The least number of a set.
LEMMA MinFacts ==
  ASSUME NEW S, S \subseteq Nat, S # {}
  PROVE  Min(S) \in S /\ \A x \in S : Min(S) <= x
<1>1. PICK x \in S : \A y \in S : ~ (<<y, x>> \in OpToRel(<, Nat))
  BY NatLessThanWellFounded, WFMin
<1>2. \A y \in S : y \in Nat /\ ~ (y < x)
  BY <1>1 DEF OpToRel
<1>3. \A y \in S : x <= y
  BY <1>2
<1> QED
  BY <1>3 DEF Min

-----------------------------------------------------------------------------
(* What Text is defined by *)

\* The first position after a sequence lies behind its beginning.
LEMMA AfterBounds ==
  ASSUME NEW w \in Seq(Classes), NEW i \in 1 .. Len(w)
  PROVE  After(w, i) \in i + 1 .. Len(w) + 1
<1> DEFINE ends == {j \in i .. Len(w) : Sequence(w, i, j) \/ Cancelled(w, i, j)}
<1>1. Len(w) \in Nat
  OBVIOUS
<1>2. CASE ends = {}
  BY <1>1, <1>2 DEF After
<1>3. CASE ends # {}
  <2>1. ends \subseteq Nat
    BY <1>1
  <2>2. Min(ends) \in ends
    <3> HIDE DEF ends
    <3> QED
      BY <1>3, <2>1, MinFacts
  <2>3. After(w, i) = Min(ends) + 1
    BY <1>3 DEF After
  <2>4. Min(ends) \in i .. Len(w)
    BY <2>2
  <2> HIDE DEF ends
  <2> QED
    BY <1>1, <2>3, <2>4
<1> QED
  BY <1>2, <1>3

\* Where it ends if nothing ends it before.
LEMMA AfterIs ==
  ASSUME NEW w \in Seq(Classes), NEW i \in 1 .. Len(w), NEW j \in i .. Len(w),
         Sequence(w, i, j) \/ Cancelled(w, i, j),
         \A k \in i .. j - 1 : ~Sequence(w, i, k) /\ ~Cancelled(w, i, k)
  PROVE  After(w, i) = j + 1
<1> DEFINE ends == {k \in i .. Len(w) : Sequence(w, i, k) \/ Cancelled(w, i, k)}
<1>1. Len(w) \in Nat /\ ends \subseteq Nat
  OBVIOUS
<1>2. j \in ends
  OBVIOUS
<1>3. \A k \in ends : k \in Nat /\ j <= k
  BY <1>1
<1>4. After(w, i) = Min(ends) + 1
  BY <1>2 DEF After
<1> HIDE DEF ends
<1>5. Min(ends) \in ends /\ Min(ends) <= j
  BY <1>1, <1>2, MinFacts
<1>6. Min(ends) \in Nat /\ j \in Nat /\ j <= Min(ends)
  BY <1>1, <1>2, <1>3, <1>5
<1>7. Min(ends) = j
  BY <1>5, <1>6
<1> QED
  BY <1>4, <1>7

\* ... and if nothing ends it at all.
LEMMA AfterAll ==
  ASSUME NEW w \in Seq(Classes), NEW i \in 1 .. Len(w),
         \A k \in i .. Len(w) : ~Sequence(w, i, k) /\ ~Cancelled(w, i, k)
  PROVE  After(w, i) = Len(w) + 1
<1> DEFINE ends == {k \in i .. Len(w) : Sequence(w, i, k) \/ Cancelled(w, i, k)}
<1>1. ends = {}
  OBVIOUS
<1> QED
  BY <1>1 DEF After

Rest(f, w, i) ==
  IF i > Len(w) THEN <<>>
  ELSE IF w[i] = "esc" THEN f[After(w, i)]
  ELSE Visible(w, i) \o f[i + 1]

\* The text of the last n bytes, from each position.
IsText(f, w, n) == f = [i \in Len(w) + 1 - n .. Len(w) + 1 |-> Rest(f, w, i)]

TextFrom(w) == CHOOSE f : f = [i \in 1 .. Len(w) + 1 |-> Rest(f, w, i)]

LEMMA TextExists ==
  ASSUME NEW w \in Seq(Classes)
  PROVE  \A n \in Nat : n <= Len(w) => \E f : IsText(f, w, n)
<1> DEFINE L == Len(w)
           T == {n \in Nat : n <= L => \E f : IsText(f, w, n)}
<1>0. L \in Nat
  OBVIOUS
<1>1. 0 \in T
  <2> DEFINE f == [i \in L + 1 - 0 .. L + 1 |-> <<>>]
  <2>1. \A i \in L + 1 - 0 .. L + 1 : Rest(f, w, i) = <<>>
    BY <1>0 DEF Rest
  <2>2. IsText(f, w, 0)
    BY <2>1 DEF IsText
  <2> QED
    BY <2>2
<1>2. ASSUME NEW n \in Nat, n \in T PROVE n + 1 \in T
  <2> SUFFICES ASSUME n + 1 <= L PROVE \E f : IsText(f, w, n + 1)
    OBVIOUS
  <2>1. PICK f : IsText(f, w, n)
    BY <1>0, <1>2
  <2> DEFINE m == L + 1 - (n + 1)
             g == [i \in m .. L + 1 |-> IF i = m THEN Rest(f, w, i) ELSE f[i]]
  <2>2. m \in 1 .. L /\ L + 1 - n = m + 1
    BY <1>0
  <2>3. \A i \in m + 1 .. L + 1 : g[i] = f[i] /\ f[i] = Rest(f, w, i)
    <3>1. m \in Int /\ L + 1 \in Int
      BY <1>0
    <3>2. f = [i \in m + 1 .. L + 1 |-> Rest(f, w, i)]
      BY <2>1, <2>2 DEF IsText
    <3>3. \A i \in m + 1 .. L + 1 : f[i] = Rest(f, w, i)
      BY <3>2
    <3>4. \A i \in m + 1 .. L + 1 : i \in m .. L + 1 /\ i # m
      BY <3>1
    <3>5. \A i \in m + 1 .. L + 1 : g[i] = f[i]
      BY <3>4
    <3> QED
      BY <3>3, <3>5
  <2>4. \A i \in m .. L : After(w, i) \in m + 1 .. L + 1 /\ i + 1 \in m + 1 .. L + 1
    <3> SUFFICES ASSUME NEW i \in m .. L
                 PROVE  After(w, i) \in m + 1 .. L + 1 /\ i + 1 \in m + 1 .. L + 1
      OBVIOUS
    <3>1. i \in 1 .. Len(w)
      BY <1>0, <2>2
    <3>2. After(w, i) \in i + 1 .. Len(w) + 1
      BY <3>1, AfterBounds
    <3> QED
      BY <1>0, <2>2, <3>2
  <2>5. \A i \in m .. L + 1 : Rest(g, w, i) = Rest(f, w, i)
    <3> SUFFICES ASSUME NEW i \in m .. L + 1 PROVE Rest(g, w, i) = Rest(f, w, i)
      OBVIOUS
    <3>1. CASE i > L
      BY <3>1 DEF Rest
    <3>2. CASE i <= L
      <4>1. i \in m .. L
        BY <1>0, <2>2, <3>2
      <4>2. g[After(w, i)] = f[After(w, i)] /\ g[i + 1] = f[i + 1]
        BY <2>3, <2>4, <4>1
      <4> HIDE DEF g
      <4> QED
        BY <4>2 DEF Rest
    <3> QED
      BY <1>0, <2>2, <3>1, <3>2
  <2>6. \A i \in m .. L + 1 : g[i] = Rest(g, w, i)
    <3> SUFFICES ASSUME NEW i \in m .. L + 1 PROVE g[i] = Rest(g, w, i)
      OBVIOUS
    <3>1. CASE i = m
      <4>1. g[i] = Rest(f, w, i)
        BY <3>1
      <4> HIDE DEF g
      <4> QED
        BY <2>5, <4>1
    <3>2. CASE i # m
      <4>1. i \in m + 1 .. L + 1
        BY <1>0, <2>2, <3>2
      <4> HIDE DEF g
      <4> QED
        BY <2>3, <2>5, <4>1
    <3> QED
      BY <3>1, <3>2
  <2>7. g = [i \in m .. L + 1 |-> g[i]]
    OBVIOUS
  <2>8. g = [i \in m .. L + 1 |-> Rest(g, w, i)]
    <3> HIDE DEF g
    <3> QED
      BY <2>6, <2>7, Zenon
  <2>9. IsText(g, w, n + 1)
    BY <2>8 DEF IsText
  <2> QED
    BY <2>9
<1>3. Nat \subseteq T
  <2> HIDE DEF T
  <2> QED
    BY <1>1, <1>2, Induction
<1> QED
  BY <1>3

\* Text from each position on, in one step.
LEMMA TextUnfolds ==
  ASSUME NEW w \in Seq(Classes)
  PROVE  /\ Text(w) = TextFrom(w)[1]
         /\ \A i \in 1 .. Len(w) + 1 : TextFrom(w)[i] = Rest(TextFrom(w), w, i)
<1>1. PICK f : IsText(f, w, Len(w))
  <2>1. Len(w) \in Nat /\ Len(w) <= Len(w)
    OBVIOUS
  <2> QED
    BY <2>1, TextExists
<1>2. Len(w) + 1 - Len(w) = 1
  OBVIOUS
<1>3. f = [i \in 1 .. Len(w) + 1 |-> Rest(f, w, i)]
  BY <1>1, <1>2 DEF IsText
<1>4. TextFrom(w) = [i \in 1 .. Len(w) + 1 |-> Rest(TextFrom(w), w, i)]
  BY <1>3 DEF TextFrom
<1>5. Text(w) = TextFrom(w)[1]
  BY DEF Text, TextFrom, Rest
<1> HIDE DEF TextFrom
<1>6. \A i \in 1 .. Len(w) + 1 : TextFrom(w)[i] = Rest(TextFrom(w), w, i)
  BY <1>4
<1> QED
  BY <1>5, <1>6

LEMMA VisibleType ==
  ASSUME NEW w \in Seq(Classes), NEW i \in 1 .. Len(w)
  PROVE  Visible(w, i) \in Seq(Classes)
<1>1. w[i] \in Classes
  OBVIOUS
<1>2. "lf" \in Classes
  BY DEF Classes
<1> QED
  BY <1>1, <1>2 DEF Visible

LEMMA TextType ==
  ASSUME NEW w \in Seq(Classes)
  PROVE  /\ \A i \in 1 .. Len(w) + 1 : TextFrom(w)[i] \in Seq(Classes)
         /\ Text(w) \in Seq(Classes)
<1> DEFINE L == Len(w)
           f == TextFrom(w)
           T == {n \in Nat : \A i \in 1 .. L + 1 : i > L - n => f[i] \in Seq(Classes)}
<1> HIDE DEF f
<1>0. L \in Nat
  OBVIOUS
<1>1. \A i \in 1 .. L + 1 : f[i] = Rest(f, w, i)
  BY TextUnfolds DEF f
<1>2. 0 \in T
  <2> SUFFICES ASSUME NEW i \in 1 .. L + 1, i > L - 0 PROVE f[i] \in Seq(Classes)
    OBVIOUS
  <2>1. f[i] = <<>>
    BY <1>0, <1>1 DEF Rest
  <2> QED
    BY <2>1, EmptySeq
<1>3. ASSUME NEW n \in Nat, n \in T PROVE n + 1 \in T
  <2> SUFFICES ASSUME NEW i \in 1 .. L + 1, i > L - (n + 1) PROVE f[i] \in Seq(Classes)
    OBVIOUS
  <2>1. CASE i > L
    <3>1. f[i] = <<>>
      BY <1>0, <1>1, <2>1 DEF Rest
    <3> QED
      BY <3>1, EmptySeq
  <2>2. CASE i <= L
    <3>1. i \in 1 .. Len(w)
      BY <1>0, <2>2
    <3>2. After(w, i) \in i + 1 .. Len(w) + 1
      BY <3>1, AfterBounds
    <3>3. /\ After(w, i) \in 1 .. L + 1 /\ After(w, i) > L - n
          /\ i + 1 \in 1 .. L + 1 /\ i + 1 > L - n
      BY <1>0, <3>1, <3>2
    <3>4. f[After(w, i)] \in Seq(Classes) /\ f[i + 1] \in Seq(Classes)
      BY <1>3, <3>3
    <3>5. Visible(w, i) \in Seq(Classes)
      BY <3>1, VisibleType
    <3>6. Visible(w, i) \o f[i + 1] \in Seq(Classes)
      BY <3>4, <3>5
    <3>7. f[i] = Rest(f, w, i)
      BY <1>1
    <3> QED
      BY <3>4, <3>6, <3>7 DEF Rest
  <2> QED
    BY <1>0, <2>1, <2>2
<1>4. Nat \subseteq T
  <2> HIDE DEF T
  <2> QED
    BY <1>2, <1>3, Induction
<1>5. ASSUME NEW i \in 1 .. L + 1 PROVE f[i] \in Seq(Classes)
  <2>1. L \in T
    <3> HIDE DEF T
    <3> QED
      BY <1>0, <1>4
  <2> QED
    BY <1>0, <2>1
<1>6. Text(w) = f[1] /\ 1 \in 1 .. L + 1
  BY <1>0, TextUnfolds DEF f
<1> QED
  BY <1>5, <1>6 DEF f

-----------------------------------------------------------------------------
(* The filter, byte by byte *)

States == {"ground", "escape", "intermediate", "csi", "osc", "string", "st"}
InSequence == {"intermediate", "csi", "osc", "string", "st"}

\* u begins with w.
Extends(u, w) ==
  /\ Len(w) <= Len(u)
  /\ \A i \in 1 .. Len(w) : u[i] = w[i]

\* The sequence that has begun at p, of two bytes at least, and goes on.
Begun(w, state, p) ==
  /\ p + 1 <= Len(w) /\ w[p] = "esc"
  /\ CASE state = "csi"          -> /\ w[p + 1] = "["
                                    /\ None(w, p + 2, Len(w), CsiFinal \cup {"esc"})
       [] state = "intermediate" -> /\ w[p + 1] = "inter"
                                    /\ None(w, p + 2, Len(w), EscFinal \cup {"esc"})
       [] state = "osc"          -> /\ w[p + 1] = "]"
                                    /\ None(w, p + 2, Len(w), {"bel", "esc"})
       [] state = "string"       -> /\ w[p + 1] = "P"
                                    /\ None(w, p + 2, Len(w), {"esc"})
       [] OTHER                  -> /\ w[p + 1] \in {"]", "P"}
                                    /\ p + 2 <= Len(w) /\ w[Len(w)] = "esc"
                                    /\ None(w, p + 2, Len(w) - 1, {"esc"})
                                    /\ w[p + 1] = "]" =>
                                         None(w, p + 2, Len(w) - 1, {"bel"})

\* The filter has been given w and still has to decide about what begins at p.
Undecided(w, state, pending, p) ==
  /\ p \in 1 .. Len(w) + 1
  /\ pending => state = "ground"
  /\ state = "ground" /\ ~pending => p = Len(w) + 1
  /\ pending => p = Len(w) /\ w[p] = "cr"
  /\ state = "escape" => p = Len(w) /\ w[p] = "esc"
  /\ state \in InSequence => Begun(w, state, p)

\* Nothing in w ends the sequence, nor does more of it.
LEMMA NotEnded ==
  ASSUME NEW w \in Seq(Classes), NEW u \in Seq(Classes), Extends(u, w),
         NEW state \in InSequence, NEW p \in 1 .. Len(w) + 1, Begun(w, state, p)
  PROVE  /\ u[p] = "esc" /\ p + 1 <= Len(u)
         /\ \A k \in p .. Len(w) : ~Sequence(u, p, k)
         /\ \A k \in p .. Len(w) - 1 : ~Cancelled(u, p, k)
<1>0. /\ Len(w) \in Nat /\ Len(u) \in Nat /\ Len(w) <= Len(u) /\ p \in Nat
      /\ p + 1 <= Len(w) /\ p + 1 \in 1 .. Len(w) /\ p \in 1 .. Len(w)
  BY DEF Extends, Begun
<1>1. \A k \in 1 .. Len(w) : u[k] = w[k]
  BY DEF Extends
<1>2. u[p] = "esc" /\ u[p + 1] = w[p + 1]
  BY <1>0, <1>1 DEF Begun
<1>3. \A k \in p + 2 .. Len(w) : k \in 1 .. Len(w)
  BY <1>0
<1>4. w[p + 1] \in {"[", "inter", "]", "P"}
  BY DEF Begun, InSequence
<1>5. ASSUME NEW k \in p .. Len(w) - 1 PROVE ~Cancelled(u, p, k)
  <2>1. k \in Nat /\ k >= p /\ k + 1 <= Len(w)
    BY <1>0
  <2>2. CASE k = p
    BY <1>0, <1>2, <1>4, <2>2 DEF Cancelled
  <2>3. CASE k # p
    <3>1. k + 1 \in p + 2 .. Len(w) /\ k + 1 \in 1 .. Len(w)
      BY <1>0, <2>1, <2>3
    <3>2. w[p + 1] \in {"[", "inter"} => w[k + 1] # "esc"
      BY <3>1 DEF Begun, InSequence, None
    <3>3. u[k + 1] = w[k + 1] /\ u[p + 1] = w[p + 1]
      BY <1>1, <1>2, <3>1
    <3> QED
      BY <2>3, <3>2, <3>3 DEF Cancelled
  <2> QED
    BY <2>2, <2>3
<1>6. ASSUME NEW k \in p .. Len(w) PROVE ~Sequence(u, p, k)
  <2>1. k \in Nat /\ k >= p /\ k <= Len(w)
    BY <1>0
  <2>2. CASE k <= p + 1
    <3>1. ~(k > p + 1) /\ ~(k > p + 2)
      BY <1>0, <2>1, <2>2
    <3> QED
      BY <1>2, <1>4, <3>1 DEF Sequence, StringEnds
  <2>3. CASE k > p + 1
    <3>1. k \in p + 2 .. Len(w) /\ u[k] = w[k]
      BY <1>0, <1>1, <1>3, <2>1, <2>3
    <3>2. k > p + 2 => k - 1 \in p + 2 .. Len(w) - 1 /\ u[k - 1] = w[k - 1]
      <4> HAVE k > p + 2
      <4>1. k - 1 \in p + 2 .. Len(w) - 1 /\ k - 1 \in 1 .. Len(w)
        BY <1>0, <2>1
      <4> QED
        BY <1>1, <4>1
    <3>3. w[p + 1] = "[" => w[k] \notin CsiFinal
      BY <3>1 DEF Begun, InSequence, None
    <3>4. w[p + 1] = "inter" => w[k] \notin EscFinal
      BY <3>1 DEF Begun, InSequence, None
    <3>5. w[p + 1] = "]" => w[k] # "bel"
      <4>1. CASE state = "osc"
        BY <3>1, <4>1 DEF Begun, None
      <4>2. CASE state = "st"
        <5>1. k = Len(w) \/ k \in p + 2 .. Len(w) - 1
          BY <1>0, <3>1
        <5> QED
          BY <4>2, <5>1 DEF Begun, None
      <4> QED
        BY <4>1, <4>2 DEF Begun, InSequence
    <3>6. k > p + 2 /\ w[p + 1] \in {"]", "P"} => w[k - 1] # "esc"
      <4> HAVE k > p + 2 /\ w[p + 1] \in {"]", "P"}
      <4>1. k - 1 \in p + 2 .. Len(w) - 1 /\ k - 1 \in p + 2 .. Len(w)
        BY <1>0, <2>1
      <4>2. CASE state \in {"osc", "string"}
        BY <4>1, <4>2 DEF Begun, None
      <4>3. CASE state = "st"
        BY <4>1, <4>3 DEF Begun, None
      <4> QED
        BY <4>2, <4>3 DEF Begun, InSequence
    <3> QED
      BY <1>2, <1>4, <3>1, <3>2, <3>3, <3>4, <3>5, <3>6 DEF Sequence, StringEnds
  <2> QED
    BY <1>0, <2>1, <2>2, <2>3
<1> QED
  BY <1>0, <1>2, <1>5, <1>6

\* A sequence that has begun is ended by the next byte, cancelled by it, or goes on.
NextState(state, b) ==
  CASE b = "esc" /\ state \notin {"osc", "string", "st"} -> "escape"
    [] b # "esc" /\ state = "escape" -> CASE b = "["     -> "csi"
                                          [] b = "]"     -> "osc"
                                          [] b = "P"     -> "string"
                                          [] b = "inter" -> "intermediate"
                                          [] OTHER       -> "ground"
    [] state = "intermediate" /\ b \in EscFinal -> "ground"
    [] state = "csi" /\ b \in CsiFinal -> "ground"
    [] state = "osc" /\ b = "bel" -> "ground"
    [] state \in {"osc", "string"} /\ b = "esc" -> "st"
    [] state = "st" -> "ground"
    [] OTHER -> state

\* w2 is w and one byte more.
OneMore(w2, w) == Len(w2) = Len(w) + 1 /\ Extends(w2, w)

LEMMA ExtendsMore ==
  ASSUME NEW w \in Seq(Classes), NEW w2 \in Seq(Classes), OneMore(w2, w),
         NEW u \in Seq(Classes), Extends(u, w2)
  PROVE  /\ Extends(u, w) /\ Len(w) \in Nat /\ Len(u) \in Nat /\ Len(w) + 1 <= Len(u)
         /\ Len(w2) = Len(w) + 1 /\ w2[Len(w) + 1] \in Classes
         /\ u[Len(w) + 1] = w2[Len(w) + 1]
         /\ \A i \in 1 .. Len(w) : w2[i] = w[i] /\ u[i] = w[i]
<1>0. /\ Len(w) \in Nat /\ Len(w2) \in Nat /\ Len(u) \in Nat
      /\ Len(w2) = Len(w) + 1 /\ Len(w2) <= Len(u)
  BY DEF Extends, OneMore
<1>1. \A i \in 1 .. Len(w2) : u[i] = w2[i]
  BY DEF Extends
<1>2. \A i \in 1 .. Len(w) : w2[i] = w[i] /\ i \in 1 .. Len(w2)
  BY <1>0 DEF Extends, OneMore
<1>3. Len(w) + 1 \in 1 .. Len(w2)
  BY <1>0
<1>4. w2[Len(w) + 1] \in Classes
  BY <1>3
<1> QED
  BY <1>0, <1>1, <1>2, <1>3, <1>4 DEF Extends

LEMMA SequenceEnds ==
  ASSUME NEW w \in Seq(Classes), NEW w2 \in Seq(Classes), OneMore(w2, w),
         NEW u \in Seq(Classes), Extends(u, w2),
         NEW state \in InSequence, NEW p \in 1 .. Len(w) + 1, Begun(w, state, p),
         NextState(state, w2[Len(w) + 1]) = "ground"
  PROVE  After(u, p) = Len(w) + 2
<1> DEFINE L == Len(w)
           b == w2[L + 1]
<1>0. /\ Extends(u, w) /\ L \in Nat /\ L + 1 <= Len(u) /\ u[L + 1] = b
      /\ \A i \in 1 .. L : u[i] = w[i]
  BY ExtendsMore
<1>1. /\ u[p] = "esc" /\ p + 1 <= Len(u)
      /\ \A k \in p .. L : ~Sequence(u, p, k)
      /\ \A k \in p .. L - 1 : ~Cancelled(u, p, k)
  BY <1>0, NotEnded
<1>2. p \in Nat /\ p >= 1 /\ p + 1 <= L /\ p + 1 \in 1 .. L
  BY <1>0 DEF Begun
<1>3. u[p + 1] = w[p + 1]
  BY <1>0, <1>2
<1>4. \A k \in p + 2 .. L : k \in 1 .. L /\ u[k] = w[k]
  BY <1>0, <1>2
<1>5. L + 1 > p + 1 /\ (L + 1) - 1 = L /\ (L + 1) - 2 = L - 1
  BY <1>0, <1>2
<1>6. Sequence(u, p, L + 1) /\ ~Cancelled(u, p, L)
  <2>1. CASE state = "csi"
    <3>1. b \in CsiFinal /\ b # "esc"
      BY <2>1 DEF NextState, InSequence, CsiFinal
    <3>2. u[p + 1] = "[" /\ None(u, p + 2, L, CsiFinal \cup {"esc"})
      BY <1>3, <1>4, <2>1 DEF Begun, None
    <3>3. Sequence(u, p, L + 1)
      BY <1>0, <1>1, <1>5, <3>1, <3>2 DEF Sequence, Body, None
    <3> QED
      BY <1>0, <3>1, <3>3 DEF Cancelled
  <2>2. CASE state = "intermediate"
    <3>1. b \in EscFinal /\ b # "esc"
      BY <2>2 DEF NextState, InSequence, CsiFinal, EscFinal
    <3>2. u[p + 1] = "inter" /\ None(u, p + 2, L, EscFinal \cup {"esc"})
      BY <1>3, <1>4, <2>2 DEF Begun, None
    <3>3. Sequence(u, p, L + 1)
      BY <1>0, <1>1, <1>5, <3>1, <3>2 DEF Sequence, Body, None
    <3> QED
      BY <1>0, <3>1, <3>3 DEF Cancelled
  <2>3. CASE state = "osc"
    <3>1. b = "bel"
      BY <2>3 DEF NextState
    <3>2. u[p + 1] = "]" /\ None(u, p + 2, L, {"bel", "esc"})
      BY <1>3, <1>4, <2>3 DEF Begun, None
    <3>3. Sequence(u, p, L + 1)
      BY <1>0, <1>1, <1>5, <3>1, <3>2 DEF Sequence, Body, None
    <3> QED
      BY <1>0, <3>1, <3>3 DEF Cancelled
  <2>4. CASE state = "string"
    BY <2>4 DEF NextState
  <2>5. CASE state = "st"
    <3>1. /\ w[p + 1] \in {"]", "P"} /\ p + 2 <= L /\ w[L] = "esc"
          /\ None(w, p + 2, L - 1, {"esc"})
          /\ w[p + 1] = "]" => None(w, p + 2, L - 1, {"bel"})
      BY <2>5 DEF Begun
    <3>2. \A k \in p + 2 .. L - 1 : k \in 1 .. L /\ u[k] = w[k]
      BY <1>0, <1>2, <1>4
    <3>3. u[L] = "esc" /\ L + 1 > p + 2
      <4>1. L \in 1 .. L /\ L + 1 > p + 2
        BY <1>0, <1>2, <3>1
      <4>2. u[L] = w[L]
        BY <1>0, <4>1
      <4> QED
        BY <3>1, <4>1, <4>2
    <3>4. None(u, p + 2, L - 1, {"esc"})
      BY <3>1, <3>2 DEF None
    <3>5. StringEnds(u, p, L + 1)
      BY <1>5, <3>3, <3>4 DEF StringEnds
    <3>6. u[p + 1] = "]" => None(u, p + 2, L, {"bel"})
      <4>1. \A k \in p + 2 .. L : k = L \/ k \in p + 2 .. L - 1
        BY <1>0, <1>2
      <4> QED
        BY <1>3, <3>1, <3>2, <3>3, <4>1 DEF None
    <3>7. Sequence(u, p, L + 1)
      BY <1>1, <1>3, <1>5, <3>1, <3>5, <3>6 DEF Sequence
    <3>8. ~Cancelled(u, p, L)
      BY <1>2, <1>3, <3>1 DEF Cancelled
    <3> QED
      BY <3>7, <3>8
  <2> QED
    BY <2>1, <2>2, <2>3, <2>4, <2>5 DEF InSequence
<1>7. \A k \in p .. (L + 1) - 1 : ~Sequence(u, p, k) /\ ~Cancelled(u, p, k)
  <2>1. \A k \in p .. (L + 1) - 1 : k \in p .. L /\ (k = L \/ k \in p .. L - 1)
    BY <1>0, <1>2
  <2> QED
    BY <1>1, <1>6, <2>1
<1>8. p \in 1 .. Len(u) /\ L + 1 \in p .. Len(u) /\ (L + 1) + 1 = L + 2
  BY <1>0, <1>2
<1>9. After(u, p) = (L + 1) + 1
  BY <1>6, <1>7, <1>8, AfterIs
<1> QED
  BY <1>8, <1>9

LEMMA SequenceCancelled ==
  ASSUME NEW w \in Seq(Classes), NEW w2 \in Seq(Classes), OneMore(w2, w),
         NEW u \in Seq(Classes), Extends(u, w2),
         NEW state \in {"csi", "intermediate"}, NEW p \in 1 .. Len(w) + 1,
         Begun(w, state, p), w2[Len(w) + 1] = "esc"
  PROVE  After(u, p) = Len(w) + 1
<1> DEFINE L == Len(w)
<1>0. /\ Extends(u, w) /\ L \in Nat /\ L + 1 <= Len(u) /\ u[L + 1] = "esc"
      /\ Len(u) \in Nat /\ \A i \in 1 .. L : u[i] = w[i]
  BY ExtendsMore
<1>1. /\ \A k \in p .. L : ~Sequence(u, p, k)
      /\ \A k \in p .. L - 1 : ~Cancelled(u, p, k)
  BY <1>0, NotEnded DEF InSequence
<1>2. p \in Nat /\ p >= 1 /\ p + 1 <= L /\ p + 1 \in 1 .. L
  BY <1>0 DEF Begun
<1>3. u[p + 1] = w[p + 1] /\ w[p + 1] \in {"[", "inter"}
  BY <1>0, <1>2 DEF Begun
<1>4. \A k \in p + 1 .. L : k = p + 1 \/ k \in p + 2 .. L
  BY <1>0, <1>2
<1>5. \A k \in p + 2 .. L : u[k] = w[k] /\ w[k] # "esc"
  <2>1. \A k \in p + 2 .. L : k \in 1 .. L
    BY <1>0, <1>2
  <2> QED
    BY <1>0, <2>1 DEF Begun, None
<1>6. None(u, p + 1, L, {"esc"})
  BY <1>3, <1>4, <1>5 DEF None
<1>7. Cancelled(u, p, L)
  BY <1>0, <1>2, <1>3, <1>6 DEF Cancelled
<1>8. p \in 1 .. Len(u) /\ L \in p .. Len(u)
  BY <1>0, <1>2
<1>9. \A k \in p .. L - 1 : ~Sequence(u, p, k) /\ ~Cancelled(u, p, k)
  <2>1. \A k \in p .. L - 1 : k \in p .. L
    BY <1>0, <1>2
  <2> QED
    BY <1>1, <2>1
<1> QED
  BY <1>7, <1>8, <1>9, AfterIs

LEMMA SequenceGoesOn ==
  ASSUME NEW w \in Seq(Classes), NEW w2 \in Seq(Classes), OneMore(w2, w),
         NEW state \in InSequence, NEW p \in 1 .. Len(w) + 1, Begun(w, state, p),
         NextState(state, w2[Len(w) + 1]) \notin {"ground", "escape"}
  PROVE  /\ NextState(state, w2[Len(w) + 1]) \in InSequence
         /\ Begun(w2, NextState(state, w2[Len(w) + 1]), p)
<1> DEFINE L == Len(w)
           b == w2[L + 1]
           next == NextState(state, b)
<1>0. /\ L \in Nat /\ Len(w2) = L + 1 /\ b \in Classes /\ Len(w2) \in Nat
      /\ \A i \in 1 .. L : w2[i] = w[i]
  <2>1. Extends(w2, w2)
    BY DEF Extends
  <2> QED
    BY <2>1, ExtendsMore
<1>2. p \in Nat /\ p >= 1 /\ p + 1 <= L /\ p + 1 \in 1 .. L /\ p \in 1 .. L
  BY <1>0 DEF Begun
<1>3. w2[p + 1] = w[p + 1] /\ w2[p] = "esc" /\ p + 1 <= L + 1
  BY <1>0, <1>2 DEF Begun
<1>4. ASSUME NEW k \in p + 2 .. L + 1, k # L + 1
      PROVE  k \in p + 2 .. L /\ w2[k] = w[k]
  <2>1. k \in p + 2 .. L /\ k \in 1 .. L
    BY <1>0, <1>2, <1>4
  <2> QED
    BY <1>0, <2>1
<1>5. CASE state = "csi"
  <2>1. next = "csi" /\ b \notin CsiFinal \cup {"esc"}
    BY <1>5 DEF NextState
  <2>2. None(w2, p + 2, L + 1, CsiFinal \cup {"esc"})
    BY <1>4, <1>5, <2>1 DEF Begun, None
  <2> QED
    BY <1>0, <1>3, <1>5, <2>1, <2>2 DEF Begun, InSequence
<1>6. CASE state = "intermediate"
  <2>1. next = "intermediate" /\ b \notin EscFinal \cup {"esc"}
    BY <1>6 DEF NextState
  <2>2. None(w2, p + 2, L + 1, EscFinal \cup {"esc"})
    BY <1>4, <1>6, <2>1 DEF Begun, None
  <2> QED
    BY <1>0, <1>3, <1>6, <2>1, <2>2 DEF Begun, InSequence
<1>7. CASE state \in {"osc", "string"} /\ b # "esc"
  <2>1. next = state /\ (state = "osc" => b # "bel")
    BY <1>7 DEF NextState
  <2>2. None(w2, p + 2, L + 1, IF state = "osc" THEN {"bel", "esc"} ELSE {"esc"})
    BY <1>4, <1>7, <2>1 DEF Begun, None
  <2> QED
    BY <1>0, <1>3, <1>7, <2>1, <2>2 DEF Begun, InSequence
<1>8. CASE state \in {"osc", "string"} /\ b = "esc"
  <2>1. next = "st"
    BY <1>8 DEF NextState
  <2>2. \A k \in p + 2 .. (L + 1) - 1 : k \in p + 2 .. L /\ k \in 1 .. L
    BY <1>0, <1>2
  <2>3. None(w2, p + 2, (L + 1) - 1, {"esc"})
    BY <1>0, <1>8, <2>2 DEF Begun, None
  <2>4. w2[p + 1] = "]" => None(w2, p + 2, (L + 1) - 1, {"bel"})
    BY <1>0, <1>3, <1>8, <2>2 DEF Begun, None
  <2>5. w2[p + 1] \in {"]", "P"} /\ p + 2 <= L + 1 /\ w2[L + 1] = "esc"
    BY <1>0, <1>2, <1>3, <1>8 DEF Begun
  <2> QED
    BY <1>0, <1>3, <2>1, <2>3, <2>4, <2>5 DEF Begun, InSequence
<1>9. CASE state = "st"
  BY <1>9 DEF NextState
<1> QED
  BY <1>5, <1>6, <1>7, <1>8, <1>9 DEF InSequence

\* The text that a byte gives rise to: the line end that was put off, and itself.
LineEnd(pending) == IF pending THEN <<"lf">> ELSE <<>>
Shows(state, pending, b) ==
  state = "ground" /\ b \notin {"esc", "cr", "bel"} /\ ~(pending /\ b = "lf")
Itself(state, pending, b) == IF Shows(state, pending, b) THEN <<b>> ELSE <<>>

LEMMA SmallSequences ==
  /\ \A pending : LineEnd(pending) \in Seq(Classes)
  /\ \A state, pending : \A b \in Classes : Itself(state, pending, b) \in Seq(Classes)
<1>1. "lf" \in Classes /\ <<>> \in Seq(Classes)
  BY EmptySeq DEF Classes
<1> QED
  BY <1>1 DEF LineEnd, Itself

Associative(a, b, c) == a \o (b \o c) = (a \o b) \o c

LEMMA TextAssociative ==
  \A a, b, c \in Seq(Classes) : Associative(a, b, c)
<1> TAKE a, b, c \in Seq(Classes)
<1>1. (a \o b) \o c = a \o (b \o c)
  BY ConcatAssociative
<1> QED
  BY <1>1 DEF Associative

\* One byte in the middle of text.
LEMMA GroundByte ==
  ASSUME NEW u \in Seq(Classes), NEW n \in Nat, n + 1 <= Len(u),
         NEW b, b = u[n + 1], b # "esc"
  PROVE  /\ b # "cr" =>
              TextFrom(u)[n + 1] = Itself("ground", FALSE, b) \o TextFrom(u)[n + 2]
         /\ \A s \in Seq(Classes) : s \o <<>> = s /\ <<>> \o s = s
<1>0. /\ n + 1 \in 1 .. Len(u) + 1 /\ n + 2 \in 1 .. Len(u) + 1 /\ n + 1 \in 1 .. Len(u)
      /\ ~(n + 1 > Len(u)) /\ (n + 1) + 1 = n + 2 /\ u[n + 1] \in Classes
  BY LenProperties
<1>1. TextFrom(u)[n + 1] = Visible(u, n + 1) \o TextFrom(u)[n + 2]
  <2>1. TextFrom(u)[n + 1] = Rest(TextFrom(u), u, n + 1)
    BY <1>0, TextUnfolds
  <2> QED
    BY <1>0, <2>1 DEF Rest
<1>2. b # "cr" => Visible(u, n + 1) = Itself("ground", FALSE, b)
  BY DEF Visible, Itself, Shows
<1> QED
  BY <1>1, <1>2, ConcatEmptySeq

\* A carriage return, once it is known what follows.
LEMMA GroundReturn ==
  ASSUME NEW u \in Seq(Classes), NEW n \in Nat \ {0}, n + 1 <= Len(u), u[n] = "cr"
  PROVE  TextFrom(u)[n] =
           (IF u[n + 1] = "lf" THEN <<>> ELSE <<"lf">>) \o TextFrom(u)[n + 1]
<1>0. n \in 1 .. Len(u) + 1 /\ ~(n > Len(u)) /\ n # Len(u)
  BY LenProperties
<1>1. TextFrom(u)[n] = Rest(TextFrom(u), u, n)
  BY <1>0, TextUnfolds
<1>2. Visible(u, n) = IF u[n + 1] = "lf" THEN <<>> ELSE <<"lf">>
  BY <1>0 DEF Visible
<1> QED
  BY <1>0, <1>1, <1>2 DEF Rest

\* An escape sequence leaves nothing.
LEMMA SequenceByte ==
  ASSUME NEW u \in Seq(Classes), NEW p \in 1 .. Len(u), u[p] = "esc"
  PROVE  TextFrom(u)[p] = TextFrom(u)[After(u, p)]
<1>0. p \in 1 .. Len(u) + 1 /\ ~(p > Len(u))
  BY LenProperties
<1>1. TextFrom(u)[p] = Rest(TextFrom(u), u, p)
  BY <1>0, TextUnfolds
<1> QED
  BY <1>0, <1>1 DEF Rest

NextPending(state, b) == state = "ground" /\ b = "cr"

\* What the filter does to what it still has to decide about.
Follows(w2, state, pending, p, b, p2) ==
  /\ Undecided(w2, NextState(state, b), NextPending(state, b), p2)
  /\ \A u \in Seq(Classes) : Extends(u, w2) =>
       TextFrom(u)[p] = (LineEnd(pending) \o Itself(state, pending, b)) \o TextFrom(u)[p2]

LEMMA TextOfSequence ==
  ASSUME NEW w \in Seq(Classes), NEW w2 \in Seq(Classes), OneMore(w2, w),
         NEW state \in InSequence, NEW p, Undecided(w, state, FALSE, p)
  PROVE  \E p2 : Follows(w2, state, FALSE, p, w2[Len(w) + 1], p2)
<1> DEFINE L == Len(w)
           b == w2[L + 1]
           next == NextState(state, b)
<1>0. /\ L \in Nat /\ Len(w2) = L + 1 /\ b \in Classes /\ Len(w2) \in Nat
      /\ p \in 1 .. L + 1 /\ Begun(w, state, p)
  <2>1. Extends(w2, w2)
    BY DEF Extends
  <2> QED
    BY <2>1, ExtendsMore DEF Undecided
<1>1. ~NextPending(state, b) /\ NextPending(state, b) = FALSE
  BY DEF NextPending, InSequence
<1>2. LineEnd(FALSE) \o Itself(state, FALSE, b) = <<>>
  <2>1. LineEnd(FALSE) = <<>> /\ Itself(state, FALSE, b) = <<>>
    BY DEF LineEnd, Itself, Shows, InSequence
  <2> QED
    BY <2>1, EmptySeq, ConcatEmptySeq
<1>3. ASSUME NEW u \in Seq(Classes), Extends(u, w2)
      PROVE  /\ u[p] = "esc" /\ p \in 1 .. Len(u) /\ L + 1 <= Len(u) /\ Len(u) \in Nat
             /\ TextFrom(u)[p] = TextFrom(u)[After(u, p)]
             /\ \A q \in 1 .. Len(u) + 1 : <<>> \o TextFrom(u)[q] = TextFrom(u)[q]
  <2>1. Extends(u, w) /\ L + 1 <= Len(u) /\ Len(u) \in Nat
    BY <1>3, ExtendsMore
  <2>2. u[p] = "esc" /\ p + 1 <= Len(u)
    BY <1>0, <2>1, NotEnded
  <2>3. p \in 1 .. Len(u)
    BY <1>0, <2>1, <2>2
  <2>4. TextFrom(u)[p] = TextFrom(u)[After(u, p)]
    BY <2>2, <2>3, SequenceByte
  <2>5. \A q \in 1 .. Len(u) + 1 : TextFrom(u)[q] \in Seq(Classes)
    BY TextType
  <2> QED
    BY <2>1, <2>2, <2>3, <2>4, <2>5, ConcatEmptySeq
<1>4. CASE next = "ground"
  <2>1. Undecided(w2, next, FALSE, L + 2)
    BY <1>0, <1>4 DEF Undecided, InSequence
  <2>2. ASSUME NEW u \in Seq(Classes), Extends(u, w2)
        PROVE  TextFrom(u)[p] = <<>> \o TextFrom(u)[L + 2]
    <3>1. After(u, p) = L + 2
      BY <1>0, <1>4, <2>2, SequenceEnds
    <3>2. L + 2 \in 1 .. Len(u) + 1
      BY <1>0, <1>3, <2>2
    <3> QED
      BY <1>3, <2>2, <3>1, <3>2
  <2>3. Follows(w2, state, FALSE, p, b, L + 2)
    BY <1>1, <1>2, <2>1, <2>2 DEF Follows
  <2> QED
    BY <2>3
<1>5. CASE next = "escape"
  <2>1. state \in {"csi", "intermediate"} /\ b = "esc"
    BY <1>5 DEF NextState, InSequence
  <2>2. Undecided(w2, next, FALSE, L + 1)
    BY <1>0, <1>5, <2>1 DEF Undecided, InSequence
  <2>3. ASSUME NEW u \in Seq(Classes), Extends(u, w2)
        PROVE  TextFrom(u)[p] = <<>> \o TextFrom(u)[L + 1]
    <3>1. After(u, p) = L + 1
      BY <1>0, <2>1, <2>3, SequenceCancelled
    <3>2. L + 1 \in 1 .. Len(u) + 1
      BY <1>0, <1>3, <2>3
    <3> QED
      BY <1>3, <2>3, <3>1, <3>2
  <2>4. Follows(w2, state, FALSE, p, b, L + 1)
    BY <1>1, <1>2, <2>2, <2>3 DEF Follows
  <2> QED
    BY <2>4
<1>6. CASE next \notin {"ground", "escape"}
  <2>1. next \in InSequence /\ Begun(w2, next, p)
    BY <1>0, <1>6, SequenceGoesOn
  <2>2. Undecided(w2, next, FALSE, p)
    BY <1>0, <2>1 DEF Undecided, InSequence
  <2>3. ASSUME NEW u \in Seq(Classes), Extends(u, w2)
        PROVE  TextFrom(u)[p] = <<>> \o TextFrom(u)[p]
    <3>1. p \in 1 .. Len(u) + 1
      BY <1>0, <1>3, <2>3
    <3> QED
      BY <1>3, <2>3, <3>1
  <2>4. Follows(w2, state, FALSE, p, b, p)
    BY <1>1, <1>2, <2>2, <2>3 DEF Follows
  <2> QED
    BY <2>4
<1> QED
  BY <1>4, <1>5, <1>6

LEMMA TextOfEscape ==
  ASSUME NEW w \in Seq(Classes), NEW w2 \in Seq(Classes), OneMore(w2, w),
         NEW p, Undecided(w, "escape", FALSE, p)
  PROVE  \E p2 : Follows(w2, "escape", FALSE, p, w2[Len(w) + 1], p2)
<1> DEFINE L == Len(w)
           b == w2[L + 1]
           next == NextState("escape", b)
<1>0. /\ L \in Nat /\ Len(w2) = L + 1 /\ b \in Classes /\ Len(w2) \in Nat
      /\ p = L /\ w[L] = "esc" /\ L \in 1 .. L /\ w2[L] = "esc"
  <2>1. Extends(w2, w2)
    BY DEF Extends
  <2>2. /\ L \in Nat /\ Len(w2) = L + 1 /\ b \in Classes /\ Len(w2) \in Nat
        /\ \A i \in 1 .. L : w2[i] = w[i]
    BY <2>1, ExtendsMore
  <2>3. p = L /\ w[L] = "esc" /\ L \in 1 .. L
    BY <2>2 DEF Undecided
  <2> QED
    BY <2>2, <2>3
<1>1. NextPending("escape", b) = FALSE
  BY DEF NextPending
<1>2. LineEnd(FALSE) \o Itself("escape", FALSE, b) = <<>>
  <2>1. LineEnd(FALSE) = <<>> /\ Itself("escape", FALSE, b) = <<>>
    BY DEF LineEnd, Itself, Shows
  <2> QED
    BY <2>1, EmptySeq, ConcatEmptySeq
<1>3. ASSUME NEW u \in Seq(Classes), Extends(u, w2)
      PROVE  /\ u[L] = "esc" /\ L \in 1 .. Len(u) /\ L + 1 <= Len(u) /\ Len(u) \in Nat
             /\ u[L + 1] = b
             /\ TextFrom(u)[L] = TextFrom(u)[After(u, L)]
             /\ \A q \in 1 .. Len(u) + 1 : <<>> \o TextFrom(u)[q] = TextFrom(u)[q]
  <2>1. L + 1 <= Len(u) /\ Len(u) \in Nat /\ u[L] = "esc" /\ u[L + 1] = b
    BY <1>0, <1>3, ExtendsMore
  <2>2. L \in 1 .. Len(u)
    BY <1>0, <2>1
  <2>3. TextFrom(u)[L] = TextFrom(u)[After(u, L)]
    BY <2>1, <2>2, SequenceByte
  <2>4. \A q \in 1 .. Len(u) + 1 : TextFrom(u)[q] \in Seq(Classes)
    BY TextType
  <2> QED
    BY <2>1, <2>2, <2>3, <2>4, ConcatEmptySeq
<1>4. CASE next = "ground"
  <2>1. b \notin {"esc", "[", "]", "P", "inter"}
    BY <1>4 DEF NextState
  <2>2. Undecided(w2, next, FALSE, L + 2)
    BY <1>0, <1>4 DEF Undecided, InSequence
  <2>3. ASSUME NEW u \in Seq(Classes), Extends(u, w2)
        PROVE  TextFrom(u)[L] = <<>> \o TextFrom(u)[L + 2]
    <3>1. Sequence(u, L, L + 1)
      BY <1>0, <1>3, <2>1, <2>3 DEF Sequence
    <3>2. ~Sequence(u, L, L) /\ ~Cancelled(u, L, L)
      BY <1>0, <1>3, <2>1, <2>3 DEF Sequence, Cancelled
    <3>3. L + 1 \in L .. Len(u) /\ \A k \in L .. (L + 1) - 1 : k = L
      BY <1>0, <1>3, <2>3
    <3>4. After(u, L) = (L + 1) + 1
      BY <1>3, <2>3, <3>1, <3>2, <3>3, AfterIs
    <3>5. L + 2 \in 1 .. Len(u) + 1 /\ (L + 1) + 1 = L + 2
      BY <1>0, <1>3, <2>3
    <3> QED
      BY <1>3, <2>3, <3>4, <3>5
  <2>4. Follows(w2, "escape", FALSE, p, b, L + 2)
    BY <1>0, <1>1, <1>2, <2>2, <2>3 DEF Follows
  <2> QED
    BY <2>4
<1>5. CASE b = "esc"
  <2>1. next = "escape"
    BY <1>5 DEF NextState
  <2>2. Undecided(w2, next, FALSE, L + 1)
    BY <1>0, <1>5, <2>1 DEF Undecided, InSequence
  <2>3. ASSUME NEW u \in Seq(Classes), Extends(u, w2)
        PROVE  TextFrom(u)[L] = <<>> \o TextFrom(u)[L + 1]
    <3>1. Cancelled(u, L, L)
      BY <1>0, <1>3, <1>5, <2>3 DEF Cancelled
    <3>2. L \in L .. Len(u) /\ \A k \in L .. L - 1 : FALSE
      BY <1>0, <1>3, <2>3
    <3>3. After(u, L) = L + 1
      BY <1>3, <2>3, <3>1, <3>2, AfterIs
    <3>4. L + 1 \in 1 .. Len(u) + 1
      BY <1>0, <1>3, <2>3
    <3> QED
      BY <1>3, <2>3, <3>3, <3>4
  <2>4. Follows(w2, "escape", FALSE, p, b, L + 1)
    BY <1>0, <1>1, <1>2, <2>2, <2>3 DEF Follows
  <2> QED
    BY <2>4
<1>6. CASE b \in {"[", "]", "P", "inter"}
  <2>1. next = CASE b = "[" -> "csi" [] b = "]" -> "osc"
                 [] b = "P" -> "string" [] OTHER -> "intermediate"
    BY <1>6 DEF NextState
  <2>2. next \in InSequence /\ next # "st"
    BY <1>6, <2>1 DEF InSequence
  <2>3. L + 1 <= Len(w2) /\ \A k \in L + 2 .. Len(w2) : FALSE
    BY <1>0
  <2>4. Begun(w2, next, L)
    BY <1>0, <1>6, <2>1, <2>3 DEF Begun, None
  <2>5. Undecided(w2, next, FALSE, L)
    BY <1>0, <2>2, <2>4 DEF Undecided, InSequence
  <2>6. ASSUME NEW u \in Seq(Classes), Extends(u, w2)
        PROVE  TextFrom(u)[L] = <<>> \o TextFrom(u)[L]
    <3>1. L \in 1 .. Len(u) + 1
      BY <1>0, <1>3, <2>6
    <3> QED
      BY <1>3, <2>6, <3>1
  <2>7. Follows(w2, "escape", FALSE, p, b, L)
    BY <1>0, <1>1, <1>2, <2>5, <2>6 DEF Follows
  <2> QED
    BY <2>7
<1>7. next = "ground" \/ b = "esc" \/ b \in {"[", "]", "P", "inter"}
  BY DEF NextState
<1> QED
  BY <1>4, <1>5, <1>6, <1>7

\* In the middle of text: what becomes of b, when the text up to it is decided.
LEMMA TextOfByte ==
  ASSUME NEW w \in Seq(Classes), NEW w2 \in Seq(Classes), OneMore(w2, w),
         NEW pending \in BOOLEAN
  PROVE  LET b == w2[Len(w) + 1]
         IN  \E p2 : /\ Undecided(w2, NextState("ground", b), NextPending("ground", b), p2)
                     /\ p2 \in 1 .. Len(w) + 2
                     /\ \A u \in Seq(Classes) : Extends(u, w2) =>
                          TextFrom(u)[Len(w) + 1] =
                            Itself("ground", FALSE, b) \o TextFrom(u)[p2]
<1> DEFINE L == Len(w)
           b == w2[L + 1]
           next == NextState("ground", b)
<1>0. L \in Nat /\ Len(w2) = L + 1 /\ b \in Classes /\ Len(w2) \in Nat
  <2>1. Extends(w2, w2)
    BY DEF Extends
  <2> QED
    BY <2>1, ExtendsMore
<1>1. ASSUME NEW u \in Seq(Classes), Extends(u, w2)
      PROVE  /\ L + 1 <= Len(u) /\ Len(u) \in Nat /\ u[L + 1] = b
             /\ TextFrom(u)[L + 1] = <<>> \o TextFrom(u)[L + 1]
  <2>1. L + 1 <= Len(u) /\ Len(u) \in Nat /\ u[L + 1] = b
    BY <1>1, ExtendsMore
  <2>2. L + 1 \in 1 .. Len(u) + 1
    BY <1>0, <2>1
  <2>3. TextFrom(u)[L + 1] \in Seq(Classes)
    BY <2>2, TextType
  <2> QED
    BY <2>1, <2>3, ConcatEmptySeq
<1>2. CASE b \in {"esc", "cr"}
  <2>1. Itself("ground", FALSE, b) = <<>>
    BY <1>2 DEF Itself, Shows
  <2>2. Undecided(w2, next, NextPending("ground", b), L + 1)
    BY <1>0, <1>2 DEF Undecided, NextState, NextPending, InSequence
  <2>3. L + 1 \in 1 .. L + 2
    BY <1>0
  <2> QED
    BY <1>1, <2>1, <2>2, <2>3
<1>3. CASE b \notin {"esc", "cr"}
  <2>1. Undecided(w2, next, NextPending("ground", b), L + 2)
    BY <1>0, <1>3 DEF Undecided, NextState, NextPending, InSequence
  <2>2. L + 2 \in 1 .. L + 2
    BY <1>0
  <2>3. ASSUME NEW u \in Seq(Classes), Extends(u, w2)
        PROVE  TextFrom(u)[L + 1] = Itself("ground", FALSE, b) \o TextFrom(u)[L + 2]
    BY <1>0, <1>1, <1>3, <2>3, GroundByte
  <2> QED
    BY <2>1, <2>2, <2>3
<1> QED
  BY <1>2, <1>3

LEMMA TextOfGround ==
  ASSUME NEW w \in Seq(Classes), NEW w2 \in Seq(Classes), OneMore(w2, w),
         NEW pending \in BOOLEAN, NEW p, Undecided(w, "ground", pending, p)
  PROVE  \E p2 : Follows(w2, "ground", pending, p, w2[Len(w) + 1], p2)
<1> DEFINE L == Len(w)
           b == w2[L + 1]
           next == NextState("ground", b)
<1>0. L \in Nat /\ Len(w2) = L + 1 /\ b \in Classes /\ Len(w2) \in Nat
  <2>1. Extends(w2, w2)
    BY DEF Extends
  <2> QED
    BY <2>1, ExtendsMore
<1>1. PICK p2 : /\ Undecided(w2, next, NextPending("ground", b), p2)
                /\ p2 \in 1 .. L + 2
                /\ \A u \in Seq(Classes) : Extends(u, w2) =>
                     TextFrom(u)[L + 1] = Itself("ground", FALSE, b) \o TextFrom(u)[p2]
  BY TextOfByte, Zenon
<1>2. CASE pending = FALSE
  <2>1. p = L + 1
    BY <1>2 DEF Undecided
  <2>2. LineEnd(FALSE) \o Itself("ground", FALSE, b) = Itself("ground", FALSE, b)
    <3>1. LineEnd(FALSE) = <<>>
      BY DEF LineEnd
    <3>2. Itself("ground", FALSE, b) \in Seq(Classes)
      BY <1>0, SmallSequences
    <3>3. <<>> \o Itself("ground", FALSE, b) = Itself("ground", FALSE, b)
      BY <3>2, ConcatEmptySeq
    <3> QED
      BY <3>1, <3>3
  <2>3. Follows(w2, "ground", FALSE, p, b, p2)
    BY <1>1, <2>1, <2>2 DEF Follows
  <2> QED
    BY <1>2, <2>3
<1>3. CASE pending = TRUE
  <2>1. p = L /\ w[L] = "cr" /\ L \in 1 .. L
    BY <1>0, <1>3 DEF Undecided
  <2> DEFINE own == Itself("ground", FALSE, b)
             gap == IF b = "lf" THEN <<>> ELSE <<"lf">>
  <2>2. gap \o own = LineEnd(TRUE) \o Itself("ground", TRUE, b)
    <3>1. CASE b = "lf"
      <4>1. gap = <<>> /\ own = <<"lf">> /\ LineEnd(TRUE) = <<"lf">>
            /\ Itself("ground", TRUE, b) = <<>>
        BY <3>1 DEF Itself, Shows, LineEnd
      <4>2. <<"lf">> \in Seq(Classes)
        BY <4>1, SmallSequences
      <4> QED
        BY <4>1, <4>2, ConcatEmptySeq
    <3>2. CASE b # "lf"
      BY <3>2 DEF Itself, Shows, LineEnd
    <3> QED
      BY <3>1, <3>2
  <2>3. gap \in Seq(Classes) /\ own \in Seq(Classes)
    <3>1. <<>> \in Seq(Classes) /\ <<"lf">> \in Seq(Classes)
      BY SmallSequences, EmptySeq DEF LineEnd
    <3> QED
      BY <1>0, <3>1, SmallSequences
  <2>4. ASSUME NEW u \in Seq(Classes), Extends(u, w2)
        PROVE  TextFrom(u)[L] =
                 (LineEnd(TRUE) \o Itself("ground", TRUE, b)) \o TextFrom(u)[p2]
    <3>1. /\ L + 1 <= Len(u) /\ Len(u) \in Nat /\ u[L] = "cr" /\ u[L + 1] = b
      BY <2>1, <2>4, ExtendsMore
    <3>2. L \in Nat \ {0}
      BY <2>1
    <3>3. TextFrom(u)[L] = gap \o TextFrom(u)[L + 1]
      BY <3>1, <3>2, GroundReturn
    <3>4. TextFrom(u)[L + 1] = own \o TextFrom(u)[p2]
      BY <1>1, <2>4
    <3>5. p2 \in 1 .. Len(u) + 1
      BY <1>0, <1>1, <3>1
    <3>6. TextFrom(u)[p2] \in Seq(Classes)
      BY <3>5, TextType
    <3> HIDE DEF gap, own
    <3>7. gap \o (own \o TextFrom(u)[p2]) = (gap \o own) \o TextFrom(u)[p2]
      <4> DEFINE t == TextFrom(u)[p2]
      <4>1. t \in Seq(Classes) /\ gap \in Seq(Classes) /\ own \in Seq(Classes)
        BY <2>3, <3>6
      <4> HIDE DEF t
      <4>2. Associative(gap, own, t)
        BY <4>1, TextAssociative
      <4> QED
        BY <4>2 DEF Associative, t
    <3> QED
      BY <2>2, <3>3, <3>4, <3>7
  <2>5. Follows(w2, "ground", TRUE, p, b, p2)
    BY <1>1, <2>1, <2>4 DEF Follows
  <2> QED
    BY <1>3, <2>5
<1> QED
  BY <1>2, <1>3

\* The filter decides about its next byte as Text does.
LEMMA TextFollows ==
  ASSUME NEW w \in Seq(Classes), NEW w2 \in Seq(Classes), OneMore(w2, w),
         NEW state \in States, NEW pending \in BOOLEAN,
         NEW p, Undecided(w, state, pending, p)
  PROVE  \E p2 : Follows(w2, state, pending, p, w2[Len(w) + 1], p2)
<1>1. CASE state = "ground"
  BY <1>1, TextOfGround
<1>2. CASE state # "ground"
  <2>1. pending = FALSE
    BY <1>2 DEF Undecided
  <2>2. state = "escape" \/ state \in InSequence
    BY <1>2 DEF States, InSequence
  <2> QED
    BY <2>1, <2>2, TextOfEscape, TextOfSequence
<1> QED
  BY <1>1, <1>2

\* Nothing that is still undecided is text.
LEMMA UndecidedIsNothing ==
  ASSUME NEW w \in Seq(Classes), NEW state \in States, NEW pending \in BOOLEAN,
         NEW p, Undecided(w, state, pending, p)
  PROVE  p \in 1 .. Len(w) + 1 /\ TextFrom(w)[p] = <<>>
<1>0. Len(w) \in Nat /\ p \in 1 .. Len(w) + 1
  BY DEF Undecided
<1>1. TextFrom(w)[Len(w) + 1] = <<>>
  <2>1. Len(w) + 1 \in 1 .. Len(w) + 1 /\ Len(w) + 1 > Len(w)
    BY <1>0
  <2>2. TextFrom(w)[Len(w) + 1] = Rest(TextFrom(w), w, Len(w) + 1)
    BY <2>1, TextUnfolds
  <2> QED
    BY <2>1, <2>2 DEF Rest
<1>2. CASE state = "ground" /\ ~pending
  BY <1>0, <1>1, <1>2 DEF Undecided
<1>3. CASE pending
  <2>1. p = Len(w) /\ w[p] = "cr" /\ ~(p > Len(w))
    BY <1>0, <1>3 DEF Undecided
  <2>2. TextFrom(w)[p] = Rest(TextFrom(w), w, p)
    BY <1>0, TextUnfolds
  <2>3. TextFrom(w)[p] = <<>> \o TextFrom(w)[Len(w) + 1]
    BY <2>1, <2>2 DEF Rest, Visible
  <2> QED
    BY <1>0, <1>1, <2>3, EmptySeq, ConcatEmptySeq
<1>4. CASE state = "escape"
  <2>1. p = Len(w) /\ w[p] = "esc" /\ p \in 1 .. Len(w)
    BY <1>0, <1>4 DEF Undecided
  <2>2. \A k \in p .. Len(w) : ~Sequence(w, p, k) /\ ~Cancelled(w, p, k)
    BY <1>0, <2>1 DEF Sequence, Cancelled
  <2>3. After(w, p) = Len(w) + 1
    BY <2>1, <2>2, AfterAll
  <2> QED
    BY <1>1, <2>1, <2>3, SequenceByte
<1>5. CASE state \in InSequence
  <2>1. Begun(w, state, p) /\ Extends(w, w)
    BY <1>0, <1>5 DEF Undecided, Extends
  <2>2. /\ w[p] = "esc" /\ p + 1 <= Len(w)
        /\ \A k \in p .. Len(w) : ~Sequence(w, p, k)
        /\ \A k \in p .. Len(w) - 1 : ~Cancelled(w, p, k)
    BY <1>0, <1>5, <2>1, NotEnded
  <2>3. p \in 1 .. Len(w) /\ \A k \in p .. Len(w) : k \in p .. Len(w) - 1 \/ k = Len(w)
    BY <1>0, <2>2
  <2>4. ~Cancelled(w, p, Len(w))
    BY <1>0 DEF Cancelled
  <2>5. After(w, p) = Len(w) + 1
    BY <2>2, <2>3, <2>4, AfterAll
  <2> QED
    BY <1>1, <2>2, <2>3, <2>5, SequenceByte
<1> QED
  BY <1>2, <1>3, <1>4, <1>5 DEF States, InSequence

-----------------------------------------------------------------------------
(* What the filter has left *)

Items == Classes \X Nat
Bytes(o) == [k \in DOMAIN o |-> o[k][1]]

\* What is left is in the order of the n bytes it comes from.
Ordered(o, n) ==
  /\ o \in Seq(Items)
  /\ \A j, k \in DOMAIN o : j < k => o[j][2] < o[k][2]
  /\ \A k \in DOMAIN o : o[k][2] <= n

LEMMA BytesType ==
  ASSUME NEW o \in Seq(Items)
  PROVE  Bytes(o) \in Seq(Classes) /\ Len(Bytes(o)) = Len(o)
<1>1. DOMAIN o = 1 .. Len(o) /\ Len(o) \in Nat
  BY LenProperties
<1>2. \A k \in 1 .. Len(o) : o[k][1] \in Classes
  <2>1. \A k \in 1 .. Len(o) : o[k] \in Items
    BY ElementOfSeq
  <2> QED
    BY <2>1 DEF Items
<1> QED
  BY <1>1, <1>2, IsASeq DEF Bytes

LEMMA Appended ==
  ASSUME NEW n \in Nat, NEW o, Ordered(o, n), NEW b \in Classes, NEW m \in Nat, m > n
  PROVE  /\ Ordered(Append(o, <<b, m>>), m)
         /\ Bytes(Append(o, <<b, m>>)) = Bytes(o) \o <<b>>
<1> DEFINE x == <<b, m>>
           q == Append(o, x)
<1>0. o \in Seq(Items) /\ x \in Items
  BY DEF Ordered, Items
<1>1. /\ q \in Seq(Items) /\ Len(q) = Len(o) + 1 /\ q[Len(o) + 1] = x
      /\ \A k \in 1 .. Len(o) : q[k] = o[k]
      /\ Len(o) \in Nat
  BY <1>0, AppendProperties
<1>2. DOMAIN o = 1 .. Len(o) /\ DOMAIN q = 1 .. Len(o) + 1
  BY <1>0, <1>1, LenProperties
<1>3. \A k \in 1 .. Len(o) + 1 : k \in 1 .. Len(o) \/ k = Len(o) + 1
  BY <1>1
<1>4. \A k \in 1 .. Len(o) : o[k][2] \in Nat /\ o[k][2] <= n
  <2>1. \A k \in 1 .. Len(o) : o[k] \in Items
    BY <1>0, ElementOfSeq
  <2> QED
    BY <1>2, <2>1 DEF Ordered, Items
<1>5. x[1] = b /\ x[2] = m
  OBVIOUS
<1> HIDE DEF q, x
<1>6. \A k \in 1 .. Len(o) + 1 : q[k][2] <= m
  BY <1>1, <1>3, <1>4, <1>5
<1>7. ASSUME NEW j \in 1 .. Len(o) + 1, NEW k \in 1 .. Len(o) + 1, j < k
      PROVE  q[j][2] < q[k][2]
  <2>1. j \in 1 .. Len(o)
    BY <1>1, <1>7
  <2>2. CASE k = Len(o) + 1
    BY <1>1, <1>4, <1>5, <2>1, <2>2
  <2>3. CASE k \in 1 .. Len(o)
    BY <1>1, <1>2, <1>7, <2>1, <2>3 DEF Ordered
  <2> QED
    BY <1>3, <2>2, <2>3
<1>8. Ordered(q, m)
  BY <1>1, <1>2, <1>6, <1>7 DEF Ordered
<1>9. Bytes(q) = Bytes(o) \o <<b>>
  <2>1. /\ Bytes(q) \in Seq(Classes) /\ Len(Bytes(q)) = Len(o) + 1
        /\ Bytes(o) \in Seq(Classes) /\ Len(Bytes(o)) = Len(o)
        /\ <<b>> \in Seq(Classes) /\ Len(<<b>>) = 1 /\ <<b>>[1] = b
    BY <1>0, <1>1, BytesType
  <2>2. /\ Bytes(o) \o <<b>> \in Seq(Classes) /\ Len(Bytes(o) \o <<b>>) = Len(o) + 1
        /\ \A k \in 1 .. Len(o) + 1 :
             (Bytes(o) \o <<b>>)[k] = IF k <= Len(o) THEN Bytes(o)[k] ELSE <<b>>[k - Len(o)]
    BY <2>1, ConcatProperties
  <2>3. ASSUME NEW k \in 1 .. Len(o) + 1 PROVE Bytes(q)[k] = (Bytes(o) \o <<b>>)[k]
    <3>1. Bytes(q)[k] = q[k][1]
      BY <1>2 DEF Bytes
    <3>2. CASE k = Len(o) + 1
      BY <1>1, <1>5, <2>1, <2>2, <3>1, <3>2
    <3>3. CASE k \in 1 .. Len(o)
      <4>1. Bytes(o)[k] = o[k][1]
        BY <1>2, <3>3 DEF Bytes
      <4> QED
        BY <1>1, <2>2, <3>1, <3>3, <4>1
    <3> QED
      BY <1>3, <3>2, <3>3
  <2> QED
    BY <2>1, <2>2, <2>3, SeqEqual
<1> QED
  BY <1>8, <1>9 DEF q, x

\* What a byte, the one after n others, adds to it.
Flushed(o, pending, n) == IF pending THEN Append(o, <<"lf", n>>) ELSE o
Grown(o, state, pending, b, n) ==
  IF Shows(state, pending, b) THEN Append(Flushed(o, pending, n), <<b, n + 1>>)
  ELSE Flushed(o, pending, n)

\* The last byte is a deferred CR, of which nothing is left yet.
Settled(pending, n) == IF pending THEN n - 1 ELSE n

LEMMA GrownIs ==
  ASSUME NEW n \in Nat, NEW state \in States, NEW pending \in BOOLEAN,
         pending => state = "ground" /\ n > 0,
         NEW o, Ordered(o, Settled(pending, n)), NEW b \in Classes
  PROVE  LET q == Grown(o, state, pending, b, n)
         IN  /\ Ordered(q, Settled(NextPending(state, b), n + 1))
             /\ Bytes(q) = Bytes(o) \o (LineEnd(pending) \o Itself(state, pending, b))
<1> DEFINE f == Flushed(o, pending, n)
           q == Grown(o, state, pending, b, n)
           own == Itself(state, pending, b)
<1>0. "lf" \in Classes /\ o \in Seq(Items)
  BY DEF Classes, Ordered
<1>1. Ordered(f, n) /\ Bytes(f) = Bytes(o) \o LineEnd(pending)
  <2>1. CASE pending
    <3>1. Ordered(o, n - 1) /\ n - 1 \in Nat /\ n > n - 1
      BY <2>1 DEF Settled
    <3>2. Ordered(Append(o, <<"lf", n>>), n) /\ Bytes(Append(o, <<"lf", n>>)) = Bytes(o) \o <<"lf">>
      BY <1>0, <3>1, Appended
    <3> QED
      BY <2>1, <3>2 DEF Flushed, LineEnd
  <2>2. CASE ~pending
    <3>1. Bytes(o) \o <<>> = Bytes(o)
      BY <1>0, BytesType, ConcatEmptySeq
    <3> QED
      BY <2>2, <3>1 DEF Flushed, LineEnd, Settled
  <2> QED
    BY <2>1, <2>2
<1>2. Bytes(o) \in Seq(Classes) /\ LineEnd(pending) \in Seq(Classes) /\ own \in Seq(Classes)
  BY <1>0, BytesType, SmallSequences
<1>3. Bytes(o) \o (LineEnd(pending) \o own) = Bytes(f) \o own
  <2>1. Associative(Bytes(o), LineEnd(pending), own)
    BY <1>2, TextAssociative
  <2> QED
    BY <1>1, <2>1 DEF Associative
<1>4. CASE Shows(state, pending, b)
  <2>1. n + 1 \in Nat /\ n + 1 > n
    OBVIOUS
  <2>2. q = Append(f, <<b, n + 1>>) /\ own = <<b>>
    BY <1>4 DEF Grown, Itself
  <2>3. Ordered(q, n + 1) /\ Bytes(q) = Bytes(f) \o own
    <3> DEFINE r == Append(f, <<b, n + 1>>)
    <3>1. Ordered(f, n)
      BY <1>1
    <3> HIDE DEF f
    <3>2. Ordered(r, n + 1) /\ Bytes(r) = Bytes(f) \o <<b>>
      BY <2>1, <3>1, Appended
    <3> QED
      BY <2>2, <3>2
  <2>4. Settled(NextPending(state, b), n + 1) = n + 1
    BY <1>4 DEF Shows, NextPending, Settled
  <2> QED
    BY <1>3, <2>3, <2>4
<1>5. CASE ~Shows(state, pending, b)
  <2>1. q = f /\ own = <<>>
    BY <1>5 DEF Grown, Itself
  <2>2. Ordered(q, Settled(NextPending(state, b), n + 1))
    <3>1. f \in Seq(Items) /\ \A k \in DOMAIN f : f[k][2] \in Nat
      <4>1. f \in Seq(Items)
        BY <1>1 DEF Ordered
      <4>2. \A k \in DOMAIN f : f[k] \in Items
        BY <4>1, LenProperties, ElementOfSeq
      <4> QED
        BY <4>1, <4>2 DEF Items
    <3>2. Settled(NextPending(state, b), n + 1) \in {n, n + 1}
      BY DEF Settled
    <3> HIDE DEF f
    <3> QED
      BY <1>1, <2>1, <3>1, <3>2 DEF Ordered
  <2>3. Bytes(f) \o <<>> = Bytes(f)
    <3>1. Bytes(f) \in Seq(Classes)
      BY <1>1, BytesType DEF Ordered
    <3> QED
      BY <3>1, ConcatEmptySeq
  <2> QED
    BY <1>3, <2>1, <2>2, <2>3
<1> QED
  BY <1>4, <1>5

\* The filter between two bytes.
Filters == [state : States, pending : BOOLEAN, out : Seq(Items), count : Nat]

LEMMA FlushIs ==
  ASSUME NEW f \in Filters
  PROVE  /\ Flush(f) \in Filters
         /\ Flush(f).state = f.state /\ Flush(f).pending = FALSE
         /\ Flush(f).out = Flushed(f.out, f.pending, f.count)
         /\ Flush(f).count = f.count
<1>1. <<"lf", f.count>> \in Items
  BY DEF Items, Classes, Filters
<1>2. Append(f.out, <<"lf", f.count>>) \in Seq(Items)
  BY <1>1, AppendProperties DEF Filters
<1> QED
  BY <1>2 DEF Flush, Emit, Flushed, Filters

LEMMA EmitIs ==
  ASSUME NEW f \in Filters, NEW b \in Classes, NEW n \in Nat
  PROVE  /\ Emit(f, b, n) \in Filters
         /\ Emit(f, b, n).state = f.state /\ Emit(f, b, n).pending = f.pending
         /\ Emit(f, b, n).out = Append(f.out, <<b, n>>)
         /\ Emit(f, b, n).count = f.count
<1>1. <<b, n>> \in Items
  BY DEF Items
<1>2. Append(f.out, <<b, n>>) \in Seq(Items)
  BY <1>1, AppendProperties DEF Filters
<1> QED
  BY <1>2 DEF Emit, Filters

LEMMA EnterIs ==
  ASSUME NEW f \in Filters, NEW state \in States
  PROVE  /\ Enter(f, state) \in Filters
         /\ Enter(f, state).state = state /\ Enter(f, state).pending = f.pending
         /\ Enter(f, state).out = f.out /\ Enter(f, state).count = f.count
BY DEF Enter, Filters

LEMMA CountIs ==
  ASSUME NEW f \in Filters
  PROVE  LET g == [f EXCEPT !.count = @ + 1]
         IN  /\ g \in Filters /\ g.count = f.count + 1
             /\ g.state = f.state /\ g.pending = f.pending /\ g.out = f.out
BY DEF Filters

\* One step of the filter.
LEMMA StepIs ==
  ASSUME NEW f \in Filters, f.pending => f.state = "ground", NEW b \in Classes
  PROVE  /\ Step(f, b) \in Filters
         /\ Step(f, b).state = NextState(f.state, b)
         /\ Step(f, b).pending = NextPending(f.state, b)
         /\ Step(f, b).out = Grown(f.out, f.state, f.pending, b, f.count)
         /\ Step(f, b).count = f.count
<1>0. /\ f.state \in States /\ f.pending \in BOOLEAN /\ f.out \in Seq(Items)
      /\ f.count \in Nat /\ f.count + 1 \in Nat
      /\ \A state \in {"ground", "escape", "intermediate", "csi", "osc", "string", "st"} :
           state \in States
  BY DEF Filters, States
<1>1. /\ Flush(f) \in Filters
      /\ Flush(f).state = f.state /\ Flush(f).pending = FALSE
      /\ Flush(f).out = Flushed(f.out, f.pending, f.count)
      /\ Flush(f).count = f.count
  BY FlushIs
<1>2. CASE b = "esc" /\ f.state \notin {"osc", "string", "st"}
  <2>1. Step(f, b) = Enter(Flush(f), "escape")
    BY <1>2 DEF Step, EscFinal, CsiFinal
  <2>2. /\ NextState(f.state, b) = "escape" /\ NextPending(f.state, b) = FALSE
        /\ ~Shows(f.state, f.pending, b)
    BY <1>2 DEF NextState, NextPending, Shows, EscFinal, CsiFinal
  <2>3. "escape" \in States
    BY <1>0
  <2>4. /\ Step(f, b) \in Filters
        /\ Step(f, b).state = "escape" /\ Step(f, b).pending = FALSE
        /\ Step(f, b).out = Flush(f).out /\ Step(f, b).count = f.count
    BY <1>1, <2>1, <2>3, EnterIs
  <2> QED
    BY <1>1, <2>2, <2>4 DEF Grown
<1>3. CASE b # "esc" /\ f.state = "ground"
  <2>1. Step(f, b) = Ground(f, b) /\ NextState(f.state, b) = "ground"
    BY <1>3 DEF Step, NextState
  <2>2. CASE f.pending /\ b = "lf"
    <3>1. Ground(f, b) = Flush(f)
      BY <2>2 DEF Ground
    <3>2. NextPending(f.state, b) = FALSE /\ ~Shows(f.state, f.pending, b)
      BY <2>2 DEF NextPending, Shows
    <3> QED
      BY <1>1, <1>3, <2>1, <3>1, <3>2 DEF Grown
  <2>3. CASE b = "cr"
    <3>1. Ground(f, b) = [Flush(f) EXCEPT !.pending = TRUE]
      BY <2>3 DEF Ground
    <3>2. NextPending(f.state, b) = TRUE /\ ~Shows(f.state, f.pending, b)
      BY <1>3, <2>3 DEF NextPending, Shows
    <3> QED
      BY <1>1, <1>3, <2>1, <3>1, <3>2 DEF Grown, Filters
  <2>4. CASE b = "bel"
    <3>1. Ground(f, b) = Flush(f)
      BY <2>4 DEF Ground
    <3>2. NextPending(f.state, b) = FALSE /\ ~Shows(f.state, f.pending, b)
      BY <2>4 DEF NextPending, Shows
    <3> QED
      BY <1>1, <1>3, <2>1, <3>1, <3>2 DEF Grown
  <2>5. CASE ~(f.pending /\ b = "lf") /\ b \notin {"cr", "bel"}
    <3>1. Ground(f, b) = Emit(Flush(f), b, f.count + 1)
      BY <2>5 DEF Ground
    <3>2. NextPending(f.state, b) = FALSE /\ Shows(f.state, f.pending, b)
      BY <1>3, <2>5 DEF NextPending, Shows
    <3> DEFINE e == Emit(Flush(f), b, f.count + 1)
    <3>3. /\ e \in Filters
          /\ e.state = Flush(f).state /\ e.pending = Flush(f).pending
          /\ e.out = Append(Flush(f).out, <<b, f.count + 1>>)
          /\ e.count = Flush(f).count
      BY <1>0, <1>1, EmitIs
    <3>4. Step(f, b) = e
      BY <2>1, <3>1
    <3> HIDE DEF e
    <3> QED
      BY <1>1, <1>3, <2>1, <3>2, <3>3, <3>4 DEF Grown
  <2> QED
    BY <2>2, <2>3, <2>4, <2>5
<1>4. CASE f.state # "ground" /\ ~(b = "esc" /\ f.state \notin {"osc", "string", "st"})
  <2>1. f.pending = FALSE
    BY <1>0, <1>4
  <2>2. /\ NextPending(f.state, b) = FALSE /\ ~Shows(f.state, f.pending, b)
        /\ Grown(f.out, f.state, f.pending, b, f.count) = f.out
    BY <1>4, <2>1 DEF NextPending, Shows, Grown, Flushed
  <2>3. NextState(f.state, b) \in States
    BY <1>0 DEF NextState
  <2>4. Step(f, b) = Enter(f, NextState(f.state, b))
    <3>1. CASE f.state = "escape"
      BY <1>4, <3>1 DEF Step, NextState, Escape
    <3>2. CASE f.state # "escape"
      <4>1. Enter(f, f.state) = f
        BY DEF Enter, Filters
      <4> QED
        BY <1>4, <3>2, <4>1 DEF Step, NextState
    <3> QED
      BY <3>1, <3>2
  <2>5. /\ Step(f, b) \in Filters
        /\ Step(f, b).state = NextState(f.state, b) /\ Step(f, b).pending = f.pending
        /\ Step(f, b).out = f.out /\ Step(f, b).count = f.count
    BY <2>3, <2>4, EnterIs
  <2> QED
    BY <2>1, <2>2, <2>5
<1> QED
  BY <1>2, <1>3, <1>4

-----------------------------------------------------------------------------
(* Chunks *)

\* Given w, the filter has left o: the text of whatever begins with w is what was
\* left, and then the text of what is still undecided.
Kept(w, state, pending, o) ==
  /\ state \in States /\ pending \in BOOLEAN
  /\ Ordered(o, Settled(pending, Len(w)))
  /\ \E p : /\ Undecided(w, state, pending, p)
            /\ \A u \in Seq(Classes) : Extends(u, w) =>
                 Text(u) = Bytes(o) \o TextFrom(u)[p]

LEMMA KeptIsText ==
  ASSUME NEW w \in Seq(Classes), NEW state, NEW pending, NEW o,
         Kept(w, state, pending, o)
  PROVE  /\ Bytes(o) = Text(w)
         /\ pending => state = "ground"
         /\ \A j, k \in DOMAIN o : j < k => o[j][2] < o[k][2]
<1>1. PICK p : /\ Undecided(w, state, pending, p)
               /\ \A u \in Seq(Classes) : Extends(u, w) =>
                    Text(u) = Bytes(o) \o TextFrom(u)[p]
  BY DEF Kept
<1>2. Extends(w, w)
  BY DEF Extends
<1>3. Text(w) = Bytes(o) \o <<>>
  BY <1>1, <1>2, UndecidedIsNothing DEF Kept
<1>4. Bytes(o) \in Seq(Classes)
  BY BytesType DEF Kept, Ordered
<1> QED
  BY <1>1, <1>3, <1>4, ConcatEmptySeq DEF Kept, Ordered, Undecided

LEMMA KeptAtFirst == Kept(<<>>, "ground", FALSE, <<>>)
<1>1. /\ <<>> \in Seq(Items) /\ <<>> \in Seq(Classes) /\ Len(<<>>) = 0
      /\ DOMAIN <<>> = {}
  BY EmptySeq
<1>2. Ordered(<<>>, Settled(FALSE, Len(<<>>)))
  BY <1>1 DEF Ordered
<1>3. Undecided(<<>>, "ground", FALSE, 1)
  BY <1>1 DEF Undecided, InSequence
<1>4. Bytes(<<>>) = <<>>
  <2>1. Bytes(<<>>) \in Seq(Classes) /\ Len(Bytes(<<>>)) = 0
    BY <1>1, BytesType
  <2> QED
    BY <2>1, EmptySeq
<1>5. ASSUME NEW u \in Seq(Classes) PROVE Text(u) = Bytes(<<>>) \o TextFrom(u)[1]
  <2>1. Text(u) = TextFrom(u)[1] /\ Text(u) \in Seq(Classes)
    BY TextUnfolds, TextType
  <2> QED
    BY <1>4, <2>1, ConcatEmptySeq
<1> QED
  BY <1>2, <1>3, <1>5 DEF Kept, States

LEMMA KeptByStep ==
  ASSUME NEW w \in Seq(Classes), NEW w2 \in Seq(Classes), OneMore(w2, w),
         NEW state, NEW pending, NEW o, Kept(w, state, pending, o)
  PROVE  LET b == w2[Len(w) + 1]
         IN  Kept(w2, NextState(state, b), NextPending(state, b),
                  Grown(o, state, pending, b, Len(w)))
<1> DEFINE b == w2[Len(w) + 1]
           q == Grown(o, state, pending, b, Len(w))
<1>0. /\ Len(w) \in Nat /\ Len(w2) = Len(w) + 1 /\ b \in Classes
      /\ Extends(w2, w)
  <2>1. Extends(w2, w2)
    BY DEF Extends
  <2> QED
    BY <2>1, ExtendsMore
<1>1. PICK p : /\ Undecided(w, state, pending, p)
               /\ \A u \in Seq(Classes) : Extends(u, w) =>
                    Text(u) = Bytes(o) \o TextFrom(u)[p]
  BY DEF Kept
<1>2. state \in States /\ pending \in BOOLEAN /\ Ordered(o, Settled(pending, Len(w)))
  BY DEF Kept
<1>3. PICK p2 : Follows(w2, state, pending, p, b, p2)
  BY <1>1, <1>2, TextFollows
<1>4. pending => state = "ground" /\ Len(w) > 0
  BY <1>0, <1>1 DEF Undecided
<1>5. /\ Ordered(q, Settled(NextPending(state, b), Len(w) + 1))
      /\ Bytes(q) = Bytes(o) \o (LineEnd(pending) \o Itself(state, pending, b))
  BY <1>0, <1>2, <1>4, GrownIs
<1>6. NextState(state, b) \in States /\ NextPending(state, b) \in BOOLEAN
  BY <1>2 DEF NextState, NextPending, States
<1>7. Undecided(w2, NextState(state, b), NextPending(state, b), p2)
  BY <1>3 DEF Follows
<1>8. ASSUME NEW u \in Seq(Classes), Extends(u, w2)
      PROVE  Text(u) = Bytes(q) \o TextFrom(u)[p2]
  <2> DEFINE more == LineEnd(pending) \o Itself(state, pending, b)
  <2>1. Extends(u, w) /\ Len(u) \in Nat /\ Len(w) + 1 <= Len(u)
    BY <1>8, ExtendsMore
  <2>2. TextFrom(u)[p] = more \o TextFrom(u)[p2]
    BY <1>3, <1>8 DEF Follows
  <2>3. Text(u) = Bytes(o) \o (more \o TextFrom(u)[p2])
    BY <1>1, <2>1, <2>2
  <2>4. p2 \in 1 .. Len(u) + 1
    BY <1>0, <1>7, <2>1 DEF Undecided
  <2>5. Bytes(o) \in Seq(Classes) /\ TextFrom(u)[p2] \in Seq(Classes)
    BY <1>2, <2>4, BytesType, TextType DEF Ordered
  <2>6. more \in Seq(Classes)
    <3>1. LineEnd(pending) \in Seq(Classes) /\ Itself(state, pending, b) \in Seq(Classes)
      BY <1>0, SmallSequences
    <3> QED
      BY <3>1, ConcatProperties
  <2> HIDE DEF more
  <2>7. Text(u) = (Bytes(o) \o more) \o TextFrom(u)[p2]
    <3> DEFINE t == TextFrom(u)[p2]
               left == Bytes(o)
    <3>1. left \in Seq(Classes) /\ t \in Seq(Classes) /\ Text(u) = left \o (more \o t)
      BY <2>3, <2>5
    <3> HIDE DEF t, left
    <3>2. Associative(left, more, t)
      BY <2>6, <3>1, TextAssociative
    <3> QED
      BY <3>1, <3>2 DEF Associative, t, left
  <2> QED
    BY <1>5, <2>7 DEF more
<1>9. Ordered(q, Settled(NextPending(state, b), Len(w2)))
  BY <1>0, <1>5
<1> QED
  BY <1>6, <1>7, <1>8, <1>9 DEF Kept

\* The filter that is fed with a chunk exists.
FedStep(g, f, chunk, n) ==
  IF n = 0 THEN f ELSE [Step(g[n - 1], chunk[n]) EXCEPT !.count = @ + 1]

IsFed(g, f, chunk, N) == g = [n \in 0 .. N |-> FedStep(g, f, chunk, n)]

LEMMA FedExists ==
  ASSUME NEW f, NEW chunk
  PROVE  \A N \in Nat : \E g : IsFed(g, f, chunk, N)
<1> DEFINE T == {N \in Nat : \E g : IsFed(g, f, chunk, N)}
<1>1. 0 \in T
  <2> DEFINE g == [n \in 0 .. 0 |-> f]
  <2>1. IsFed(g, f, chunk, 0)
    BY DEF IsFed, FedStep
  <2> QED
    BY <2>1
<1>2. ASSUME NEW N \in Nat, N \in T PROVE N + 1 \in T
  <2>1. PICK g : IsFed(g, f, chunk, N)
    BY <1>2
  <2> DEFINE h == [n \in 0 .. N + 1 |-> IF n = N + 1 THEN FedStep(g, f, chunk, n) ELSE g[n]]
  <2>2. \A n \in 0 .. N : g[n] = FedStep(g, f, chunk, n)
    BY <2>1 DEF IsFed
  <2>3. ASSUME NEW n \in 0 .. N + 1 PROVE h[n] = FedStep(h, f, chunk, n)
    <3>1. h[n] = FedStep(g, f, chunk, n)
      BY <2>2
    <3>2. n # 0 => h[n - 1] = g[n - 1]
      OBVIOUS
    <3> HIDE DEF h
    <3> QED
      BY <3>1, <3>2 DEF FedStep
  <2>4. h = [n \in 0 .. N + 1 |-> h[n]]
    OBVIOUS
  <2>5. IsFed(h, f, chunk, N + 1)
    <3> HIDE DEF h
    <3> QED
      BY <2>3, <2>4, Zenon DEF IsFed
  <2> QED
    BY <2>5
<1>3. Nat \subseteq T
  <2> HIDE DEF T
  <2> QED
    BY <1>1, <1>2, Induction
<1> QED
  BY <1>3

LEMMA FedIs ==
  ASSUME NEW f, NEW chunk, Len(chunk) \in Nat
  PROVE  \E g : IsFed(g, f, chunk, Len(chunk)) /\ Fed(f, chunk) = g[Len(chunk)]
<1>1. \E g : g = [n \in 0 .. Len(chunk) |-> FedStep(g, f, chunk, n)]
  BY FedExists DEF IsFed
<1> DEFINE h == CHOOSE g : g = [n \in 0 .. Len(chunk) |-> FedStep(g, f, chunk, n)]
<1>2. h = [n \in 0 .. Len(chunk) |-> FedStep(h, f, chunk, n)]
  BY <1>1
<1>3. Fed(f, chunk) = h[Len(chunk)]
  BY DEF Fed, FedStep
<1> HIDE DEF h
<1> QED
  BY <1>2, <1>3 DEF IsFed

\* The first n bytes, as a sequence.
Upto(w, n) == SubSeq(w, 1, n)

LEMMA UptoIs ==
  ASSUME NEW w \in Seq(Classes), NEW n \in 0 .. Len(w)
  PROVE  /\ Upto(w, n) \in Seq(Classes) /\ Len(Upto(w, n)) = n
         /\ \A i \in 1 .. n : Upto(w, n)[i] = w[i]
<1>1. n \in Nat /\ Len(w) \in Nat /\ \A i \in 1 .. n : i \in 1 .. Len(w)
  BY LenProperties
<1>2. \A i \in 1 .. n : w[i] \in Classes
  BY <1>1, ElementOfSeq
<1>3. 1 \in Int /\ n \in Int /\ n - 1 + 1 = n
  BY <1>1
<1>4. /\ Upto(w, n) \in Seq(Classes)
      /\ Len(Upto(w, n)) = IF 1 <= n THEN n - 1 + 1 ELSE 0
      /\ \A i \in 1 .. n - 1 + 1 : Upto(w, n)[i] = w[1 + i - 1]
  BY <1>2, <1>3, SubSeqProperties DEF Upto
<1> QED
  BY <1>1, <1>3, <1>4

LEMMA ItemsAssociative ==
  \A a, b, c \in Seq(Items) : (a \o b) \o c = a \o (b \o c)
BY ConcatAssociative

\* What is kept of a stream is kept when a chunk follows.
LEMMA KeptByChunk ==
  ASSUME NEW w \in Seq(Classes), NEW chunk \in Seq(Classes),
         NEW f \in Filters, f.count = Len(w),
         NEW o \in Seq(Items), Kept(w, f.state, f.pending, o), f.out = <<>>
  PROVE  LET r == Fed(f, chunk)
         IN  r \in Filters /\ Kept(w \o chunk, r.state, r.pending, o \o r.out)
<1> DEFINE all == w \o chunk
           M == Len(chunk)
           L == Len(w)
<1>1. PICK g : IsFed(g, f, chunk, M) /\ Fed(f, chunk) = g[M]
  <2>1. Len(chunk) \in Nat
    BY LenProperties
  <2> QED
    BY <2>1, FedIs
<1>2. \A n \in 0 .. M : g[n] = FedStep(g, f, chunk, n)
  BY <1>1 DEF IsFed
<1>3. /\ all \in Seq(Classes) /\ Len(all) = L + M /\ L \in Nat /\ M \in Nat
      /\ \A n \in 1 .. M : all[L + n] = chunk[n]
      /\ \A n \in 1 .. L : all[n] = w[n]
  <2>1. /\ all \in Seq(Classes) /\ Len(all) = L + M /\ L \in Nat /\ M \in Nat
        /\ \A i \in 1 .. L + M : all[i] = IF i <= L THEN w[i] ELSE chunk[i - L]
    BY ConcatProperties
  <2>2. \A n \in 1 .. M : L + n \in 1 .. L + M /\ ~(L + n <= L) /\ (L + n) - L = n
    BY <2>1
  <2>3. \A n \in 1 .. L : n \in 1 .. L + M /\ n <= L
    BY <2>1
  <2> HIDE DEF all
  <2> QED
    BY <2>1, <2>2, <2>3
<1> HIDE DEF all
<1> DEFINE Good(n) == /\ g[n] \in Filters /\ g[n].count = L + n
                      /\ Kept(Upto(all, L + n), g[n].state, g[n].pending, o \o g[n].out)
           T == {n \in Nat : n <= M => Good(n)}
<1>4. 0 \in T
  <2>1. g[0] = f
    <3>1. 0 \in 0 .. M
      BY <1>3
    <3> QED
      BY <1>2, <3>1 DEF FedStep
  <2>2. Upto(all, L + 0) = w
    <3>1. L \in 0 .. Len(all) /\ L + 0 = L
      BY <1>3
    <3>2. /\ Upto(all, L) \in Seq(Classes) /\ Len(Upto(all, L)) = L
          /\ \A i \in 1 .. L : Upto(all, L)[i] = w[i]
      BY <1>3, <3>1, UptoIs
    <3> QED
      BY <3>1, <3>2, SeqEqual
  <2>3. o \o <<>> = o /\ L + 0 = L
    BY <1>3, ConcatEmptySeq
  <2> QED
    BY <2>1, <2>2, <2>3
<1>5. ASSUME NEW n \in Nat, n \in T PROVE n + 1 \in T
  <2> SUFFICES ASSUME n + 1 <= M PROVE Good(n + 1)
    OBVIOUS
  <2>1. /\ n <= M /\ n + 1 \in 0 .. M /\ n + 1 # 0 /\ (n + 1) - 1 = n
        /\ n + 1 \in 1 .. M /\ L + n \in 0 .. Len(all) /\ L + (n + 1) \in 0 .. Len(all)
        /\ L + (n + 1) = (L + n) + 1
    BY <1>3
  <2>2. Good(n)
    BY <1>5, <2>1
  <2> DEFINE v == Upto(all, L + n)
             v2 == Upto(all, L + (n + 1))
             b == chunk[n + 1]
             s == Step(g[n], b)
  <2>3. /\ v \in Seq(Classes) /\ Len(v) = L + n /\ \A i \in 1 .. L + n : v[i] = all[i]
        /\ v2 \in Seq(Classes) /\ Len(v2) = (L + n) + 1
        /\ \A i \in 1 .. (L + n) + 1 : v2[i] = all[i]
    <3>1. /\ v \in Seq(Classes) /\ Len(v) = L + n /\ \A i \in 1 .. L + n : v[i] = all[i]
      BY <1>3, <2>1, UptoIs
    <3>2. /\ v2 \in Seq(Classes) /\ Len(v2) = L + (n + 1)
          /\ \A i \in 1 .. L + (n + 1) : v2[i] = all[i]
      BY <1>3, <2>1, UptoIs
    <3> HIDE DEF v, v2
    <3> QED
      BY <2>1, <3>1, <3>2
  <2>4. OneMore(v2, v) /\ v2[Len(v) + 1] = b /\ b \in Classes
    <3>1. \A i \in 1 .. L + n : i \in 1 .. (L + n) + 1
      BY <1>3
    <3>2. (L + n) + 1 \in 1 .. (L + n) + 1 /\ all[(L + n) + 1] = b
      BY <1>3, <2>1
    <3>3. b \in Classes
      BY <2>1, ElementOfSeq
    <3> HIDE DEF v, v2, b
    <3>4. OneMore(v2, v)
      BY <1>3, <2>1, <2>3, <3>1 DEF OneMore, Extends
    <3> QED
      BY <2>3, <3>2, <3>3, <3>4
  <2>5. g[n + 1] = [s EXCEPT !.count = @ + 1]
    BY <1>2, <2>1 DEF FedStep
  <2>6. g[n].pending => g[n].state = "ground"
    BY <2>2, <2>3, KeptIsText
  <2>7. /\ s \in Filters
        /\ s.state = NextState(g[n].state, b) /\ s.pending = NextPending(g[n].state, b)
        /\ s.out = Grown(g[n].out, g[n].state, g[n].pending, b, L + n)
        /\ s.count = L + n
    BY <2>2, <2>4, <2>6, StepIs
  <2>8. /\ g[n + 1] \in Filters /\ g[n + 1].count = (L + n) + 1
        /\ g[n + 1].state = s.state /\ g[n + 1].pending = s.pending /\ g[n + 1].out = s.out
    <3> HIDE DEF s
    <3> QED
      BY <2>5, <2>7, CountIs
  <2>9. Grown(o \o g[n].out, g[n].state, g[n].pending, b, L + n) = o \o s.out
    <3>1. g[n].out \in Seq(Items) /\ <<"lf", L + n>> \in Items /\ <<b, (L + n) + 1>> \in Items
      <4>1. L + n \in Nat /\ (L + n) + 1 \in Nat
        BY <1>3
      <4>2. g[n].out \in Seq(Items)
        BY <2>2 DEF Filters
      <4>3. "lf" \in Classes
        BY DEF Classes
      <4> HIDE DEF b
      <4> QED
        BY <2>4, <4>1, <4>2, <4>3 DEF Items
    <3>2. \A a \in Seq(Items) : \A x \in Items : /\ Append(o \o a, x) = o \o Append(a, x)
                                                 /\ Append(a, x) \in Seq(Items)
      <4> SUFFICES ASSUME NEW a \in Seq(Items), NEW x \in Items
                   PROVE  /\ Append(o \o a, x) = o \o Append(a, x)
                          /\ Append(a, x) \in Seq(Items)
        OBVIOUS
      <4>1. /\ Append(a, x) = a \o <<x>> /\ o \o a \in Seq(Items) /\ <<x>> \in Seq(Items)
            /\ Append(o \o a, x) = (o \o a) \o <<x>>
        BY ConcatProperties, AppendIsConcat
      <4>2. Append(a, x) \in Seq(Items)
        BY AppendProperties
      <4>3. (o \o a) \o <<x>> = o \o (a \o <<x>>)
        BY <4>1, ItemsAssociative, Zenon
      <4> QED
        BY <4>1, <4>2, <4>3
    <3> HIDE DEF b
    <3>3. /\ Flushed(g[n].out, g[n].pending, L + n) \in Seq(Items)
          /\ Flushed(o \o g[n].out, g[n].pending, L + n)
               = o \o Flushed(g[n].out, g[n].pending, L + n)
      BY <3>1, <3>2 DEF Flushed
    <3>4. Grown(o \o g[n].out, g[n].state, g[n].pending, b, L + n)
            = o \o Grown(g[n].out, g[n].state, g[n].pending, b, L + n)
      BY <3>1, <3>2, <3>3 DEF Grown
    <3> QED
      BY <2>7, <3>4
  <2>10. Kept(v2, s.state, s.pending, o \o s.out)
    <3>1. Kept(v, g[n].state, g[n].pending, o \o g[n].out)
      BY <2>2
    <3> HIDE DEF v, v2, s, b
    <3>2. Kept(v2, NextState(g[n].state, b), NextPending(g[n].state, b),
               Grown(o \o g[n].out, g[n].state, g[n].pending, b, L + n))
      BY <2>3, <2>4, <3>1, KeptByStep
    <3> QED
      BY <2>7, <2>9, <3>2
  <2> QED
    BY <2>1, <2>8, <2>10
<1>6. Nat \subseteq T
  <2> HIDE DEF T
  <2> QED
    BY <1>4, <1>5, Induction
<1>7. Good(M)
  <2>1. M \in T
    <3> HIDE DEF T
    <3> QED
      BY <1>3, <1>6
  <2> HIDE DEF Good
  <2> QED
    BY <1>3, <2>1
<1>8. Upto(all, L + M) = all
  BY <1>3, SubSeqFull DEF Upto
<1> QED
  BY <1>1, <1>7, <1>8 DEF all

-----------------------------------------------------------------------------
(* Ranks *)

Up(S, x) == {j \in S : j <= x}
Over(S, x) == {j \in S : j > x}

LEMMA Elements ==
  ASSUME NEW N \in Nat, NEW S, S \subseteq 1 .. N
  PROVE  \A j \in S : j \in Nat /\ 1 <= j /\ j <= N
<1> TAKE j \in S
<1>1. j \in 1 .. N
  OBVIOUS
<1> QED
  BY <1>1

LEMMA UpFacts ==
  ASSUME NEW N \in Nat, NEW S, S \subseteq 1 .. N
  PROVE  /\ IsFiniteSet(S) /\ Cardinality(S) \in Nat
         /\ \A x : IsFiniteSet(Up(S, x)) /\ Cardinality(Up(S, x)) \in Nat
         /\ \A x : IsFiniteSet(Over(S, x)) /\ Cardinality(Over(S, x)) \in Nat
         /\ Up(S, 0) = {} /\ Cardinality(Up(S, 0)) = 0 /\ Up(S, N) = S
<1>1. IsFiniteSet(1 .. N)
  BY FS_Interval
<1>2. IsFiniteSet(S)
  BY <1>1, FS_Subset
<1>3. \A x : Up(S, x) \subseteq S /\ Over(S, x) \subseteq S
  BY DEF Up, Over
<1>4. \A T : T \subseteq S => IsFiniteSet(T) /\ Cardinality(T) \in Nat
  BY <1>2, FS_Subset, FS_CardinalityType
<1>5. Up(S, 0) = {} /\ Up(S, N) = S
  <2>1. \A j \in S : j <= N /\ ~(j <= 0)
    BY Elements
  <2> QED
    BY <2>1 DEF Up
<1> QED
  BY <1>3, <1>4, <1>5, FS_EmptySet

LEMMA UpAndOver ==
  ASSUME NEW N \in Nat, NEW S, S \subseteq 1 .. N, NEW x \in Nat
  PROVE  Cardinality(Up(S, x)) + Cardinality(Over(S, x)) = Cardinality(S)
<1>1. Up(S, x) \cup Over(S, x) = S /\ Up(S, x) \cap Over(S, x) = {}
  <2>1. \A j \in S : j \in Nat
    BY Elements
  <2>2. \A j \in S : (j <= x) <=> ~(j > x)
    BY <2>1
  <2> QED
    BY <2>2 DEF Up, Over
<1>2. /\ IsFiniteSet(Up(S, x)) /\ IsFiniteSet(Over(S, x))
      /\ Cardinality(Up(S, x)) \in Nat /\ Cardinality(Over(S, x)) \in Nat
  BY UpFacts
<1>3. Cardinality(S) = Cardinality(Up(S, x)) + Cardinality(Over(S, x)) - Cardinality({})
  BY <1>1, <1>2, FS_Union
<1> QED
  BY <1>2, <1>3, FS_EmptySet

\* One more number adds at most one.
LEMMA UpNext ==
  ASSUME NEW N \in Nat, NEW S, S \subseteq 1 .. N, NEW x \in Nat
  PROVE  /\ x + 1 \in S => Cardinality(Up(S, x + 1)) = Cardinality(Up(S, x)) + 1
         /\ x + 1 \notin S => Cardinality(Up(S, x + 1)) = Cardinality(Up(S, x))
<1>0. \A j \in S : j \in Nat
  BY Elements
<1>1. CASE x + 1 \in S
  <2>1. \A j \in S : (j <= x + 1) <=> ((j <= x) \/ (j = x + 1))
    BY <1>0
  <2>2. ~(x + 1 <= x)
    OBVIOUS
  <2>3. Up(S, x + 1) = Up(S, x) \cup {x + 1} /\ x + 1 \notin Up(S, x)
    BY <1>1, <2>1, <2>2 DEF Up
  <2>4. IsFiniteSet(Up(S, x))
    BY UpFacts
  <2> QED
    BY <1>1, <2>3, <2>4, FS_AddElement
<1>2. CASE x + 1 \notin S
  <2>1. \A j \in S : (j <= x + 1) <=> (j <= x)
    BY <1>0, <1>2
  <2>2. Up(S, x + 1) = Up(S, x)
    BY <2>1 DEF Up
  <2> QED
    BY <1>2, <2>2
<1> QED
  BY <1>1, <1>2

\* An element that follows another has a higher rank.
LEMMA RanksGrow ==
  ASSUME NEW N \in Nat, NEW S, S \subseteq 1 .. N, NEW i \in S, NEW j \in S, i < j
  PROVE  Cardinality(Up(S, i)) < Cardinality(Up(S, j))
<1>0. i \in Nat /\ j \in Nat /\ \A k \in S : k \in Nat
  BY Elements
<1>1. Up(S, i) \cup {j} \subseteq Up(S, j) /\ j \notin Up(S, i)
  <2>1. \A k \in S : k <= i => k <= j
    BY <1>0
  <2>2. ~(j <= i) /\ j <= j
    BY <1>0
  <2> QED
    BY <2>1, <2>2 DEF Up
<1>2. /\ IsFiniteSet(Up(S, i)) /\ Cardinality(Up(S, i)) \in Nat
      /\ IsFiniteSet(Up(S, j)) /\ Cardinality(Up(S, j)) \in Nat
  BY UpFacts
<1>3. Cardinality(Up(S, i) \cup {j}) = Cardinality(Up(S, i)) + 1
  BY <1>1, <1>2, FS_AddElement
<1>4. Cardinality(Up(S, i) \cup {j}) <= Cardinality(Up(S, j))
  BY <1>1, <1>2, FS_Subset
<1> QED
  BY <1>2, <1>3, <1>4

\* There is one element of every rank.
LEMMA NthIs ==
  ASSUME NEW N \in Nat, NEW S, S \subseteq 1 .. N, NEW k \in 1 .. Cardinality(S)
  PROVE  /\ Nth(S, k) \in S /\ Cardinality(Up(S, Nth(S, k))) = k
         /\ \A i \in S : Cardinality(Up(S, i)) = k => i = Nth(S, k)
<1> DEFINE D == {x \in Nat : Cardinality(Up(S, x)) >= k}
<1>a. /\ Cardinality(S) \in Nat
      /\ \A x : Cardinality(Up(S, x)) \in Nat
      /\ Cardinality(Up(S, 0)) = 0 /\ Up(S, N) = S
  BY UpFacts
<1>0. /\ Cardinality(S) \in Nat /\ k \in Nat /\ k >= 1 /\ k <= Cardinality(S)
      /\ \A x : Cardinality(Up(S, x)) \in Nat
      /\ Cardinality(Up(S, 0)) = 0 /\ Up(S, N) = S
  BY <1>a
<1>1. N \in D
  BY <1>0
<1>2. PICK m \in D : \A x \in D : m <= x
  <2>1. D \subseteq Nat /\ D # {}
    BY <1>1
  <2> HIDE DEF D
  <2> QED
    BY <2>1, MinFacts
<1>3. m \in Nat /\ m # 0 /\ Cardinality(Up(S, m)) >= k
  BY <1>0, <1>2
<1>4. m - 1 \in Nat /\ ~(m <= m - 1) /\ (m - 1) + 1 = m
  BY <1>3
<1>5. m - 1 \notin D
  BY <1>2, <1>4
<1>6. Cardinality(Up(S, m - 1)) < k
  BY <1>0, <1>4, <1>5
<1>7. /\ m \in S => Cardinality(Up(S, m)) = Cardinality(Up(S, m - 1)) + 1
      /\ m \notin S => Cardinality(Up(S, m)) = Cardinality(Up(S, m - 1))
  <2> DEFINE x == m - 1
  <2>1. x \in Nat /\ x + 1 = m
    BY <1>4
  <2> HIDE DEF x
  <2>2. /\ x + 1 \in S => Cardinality(Up(S, x + 1)) = Cardinality(Up(S, x)) + 1
        /\ x + 1 \notin S => Cardinality(Up(S, x + 1)) = Cardinality(Up(S, x))
    BY <2>1, UpNext
  <2> QED
    BY <2>1, <2>2 DEF x
<1>8. m \in S /\ Cardinality(Up(S, m)) = k
  <2> DEFINE c == Cardinality(Up(S, m))
             e == Cardinality(Up(S, m - 1))
  <2>1. c \in Nat /\ e \in Nat /\ c >= k /\ e < k /\ k \in Nat
    BY <1>0, <1>3, <1>6
  <2>2. (m \in S => c = e + 1) /\ (m \notin S => c = e)
    BY <1>7
  <2> HIDE DEF c, e
  <2>3. m \in S /\ c = k
    BY <2>1, <2>2
  <2> QED
    BY <2>3 DEF c
<1>9. Nth(S, k) \in S /\ Cardinality(Up(S, Nth(S, k))) = k
  BY <1>8 DEF Nth, Up
<1>10. ASSUME NEW i \in S, Cardinality(Up(S, i)) = k PROVE i = Nth(S, k)
  <2>1. i \in Nat /\ Nth(S, k) \in Nat
    BY <1>9, Elements
  <2> DEFINE n == Nth(S, k)
  <2>a. n \in S /\ Cardinality(Up(S, n)) = k /\ ~(k < k)
    BY <1>0, <1>9
  <2> HIDE DEF n
  <2>2. ~(i < n)
    BY <1>10, <2>a, RanksGrow
  <2>3. ~(n < i)
    BY <1>10, <2>a, RanksGrow
  <2> USE DEF n
  <2> QED
    BY <2>1, <2>2, <2>3
<1> QED
  BY <1>9, <1>10

\* Moving a set does not change how many there are.
LEMMA Moved ==
  ASSUME NEW S, IsFiniteSet(S), S \subseteq Nat, NEW d \in Nat
  PROVE  /\ IsFiniteSet({d + j : j \in S})
         /\ Cardinality({d + j : j \in S}) = Cardinality(S)
<1> DEFINE T == {d + j : j \in S}
           f == [j \in S |-> d + j]
<1>1. f \in [S -> T]
  OBVIOUS
<1>2. \A a, b \in S : f[a] = f[b] => a = b
  OBVIOUS
<1>3. \A t \in T : \E j \in S : f[j] = t
  OBVIOUS
<1>4. f \in Bijection(S, T)
  <2> HIDE DEF T, f
  <2>1. \A a, b \in DOMAIN f : f[a] = f[b] => a = b
    BY <1>1, <1>2
  <2> QED
    BY <1>1, <1>3, <2>1 DEF Bijection, Injection, Surjection, IsInjective
<1>5. ExistsBijection(S, T)
  BY <1>4 DEF ExistsBijection
<1> QED
  BY <1>5, FS_Bijection

-----------------------------------------------------------------------------
(* Lines *)

\* What follows the first d bytes.
Suffix(w, d) == SubSeq(w, d + 1, Len(w))

LEMMA SuffixIs ==
  ASSUME NEW w \in Seq(Classes), NEW d \in 0 .. Len(w)
  PROVE  /\ Suffix(w, d) \in Seq(Classes) /\ Len(Suffix(w, d)) = Len(w) - d
         /\ d \in Nat /\ Len(w) \in Nat /\ Len(w) - d \in Nat
         /\ \A i \in 1 .. Len(w) - d : Suffix(w, d)[i] = w[d + i]
         /\ DOMAIN Suffix(w, d) = 1 .. Len(w) - d /\ DOMAIN w = 1 .. Len(w)
<1>1. d \in Nat /\ Len(w) \in Nat /\ d <= Len(w) /\ Len(w) - d \in Nat
  BY LenProperties
<1>2. \A i \in d + 1 .. Len(w) : w[i] \in Classes
  <2>1. \A i \in d + 1 .. Len(w) : i \in 1 .. Len(w)
    BY <1>1
  <2> QED
    BY <2>1, ElementOfSeq
<1>3. d + 1 \in Int /\ Len(w) \in Int /\ Len(w) - (d + 1) + 1 = Len(w) - d
  BY <1>1
<1>4. /\ Suffix(w, d) \in Seq(Classes)
      /\ Len(Suffix(w, d)) = IF d + 1 <= Len(w) THEN Len(w) - (d + 1) + 1 ELSE 0
      /\ \A i \in 1 .. Len(w) - (d + 1) + 1 : Suffix(w, d)[i] = w[d + 1 + i - 1]
  BY <1>2, <1>3, SubSeqProperties DEF Suffix
<1>5. Len(Suffix(w, d)) = Len(w) - d
  BY <1>1, <1>4
<1>6. \A i \in 1 .. Len(w) - d : d + 1 + i - 1 = d + i
  BY <1>1
<1>7. \A i \in 1 .. Len(w) - d : Suffix(w, d)[i] = w[d + i]
  BY <1>3, <1>4, <1>6
<1> QED
  BY <1>1, <1>4, <1>5, <1>7, LenProperties

\* A piece of a sequence.
LEMMA PieceIs ==
  ASSUME NEW w \in Seq(Classes), NEW i \in 1 .. Len(w), NEW e \in i - 1 .. Len(w)
  PROVE  /\ SubSeq(w, i, e) \in Seq(Classes) /\ Len(SubSeq(w, i, e)) = e - i + 1
         /\ e - i + 1 \in Nat
         /\ \A k \in 1 .. e - i + 1 : SubSeq(w, i, e)[k] = w[i + k - 1]
<1>1. i \in Nat /\ e \in Int /\ Len(w) \in Nat /\ e - i + 1 \in Nat
  BY LenProperties
<1>2. \A k \in i .. e : w[k] \in Classes
  <2>1. \A k \in i .. e : k \in 1 .. Len(w)
    BY <1>1
  <2> QED
    BY <2>1, ElementOfSeq
<1>3. /\ SubSeq(w, i, e) \in Seq(Classes)
      /\ Len(SubSeq(w, i, e)) = IF i <= e THEN e - i + 1 ELSE 0
      /\ \A k \in 1 .. e - i + 1 : SubSeq(w, i, e)[k] = w[i + k - 1]
  BY <1>1, <1>2, SubSeqProperties
<1>4. Len(SubSeq(w, i, e)) = e - i + 1
  BY <1>1, <1>3
<1> QED
  BY <1>1, <1>3, <1>4

LineFeeds(w, i) == {j \in DOMAIN w : j >= i /\ w[j] = "lf"}
LineEnds(w, i) == IF LineFeeds(w, i) = {} THEN Len(w) + 1 ELSE Min(LineFeeds(w, i))
LastOf(w, i) ==
  IF LineFeeds(w, i) # {} /\ LineEnds(w, i) > i /\ w[LineEnds(w, i) - 1] = "cr"
  THEN LineEnds(w, i) - 2 ELSE LineEnds(w, i) - 1

LEMMA LineIs ==
  ASSUME NEW w \in Seq(Classes), NEW i \in 1 .. Len(w)
  PROVE  /\ Line(w, i) = SubSeq(w, i, LastOf(w, i))
         /\ LineEnds(w, i) \in i .. Len(w) + 1
         /\ LineFeeds(w, i) # {} => LineEnds(w, i) \in LineFeeds(w, i)
         /\ LastOf(w, i) \in i - 1 .. Len(w)
         /\ Line(w, i) \in Seq(Classes)
<1>1. Len(w) \in Nat /\ i \in Nat /\ DOMAIN w = 1 .. Len(w)
  BY LenProperties
<1>2. LineFeeds(w, i) # {} => LineEnds(w, i) \in LineFeeds(w, i)
  <2>1. LineFeeds(w, i) \subseteq Nat
    BY <1>1 DEF LineFeeds
  <2> QED
    BY <2>1, MinFacts DEF LineEnds
<1>3. LineEnds(w, i) \in i .. Len(w) + 1
  <2>1. CASE LineFeeds(w, i) = {}
    BY <1>1, <2>1 DEF LineEnds
  <2>2. CASE LineFeeds(w, i) # {}
    <3>1. LineEnds(w, i) \in 1 .. Len(w) /\ LineEnds(w, i) >= i
      BY <1>1, <1>2, <2>2 DEF LineFeeds
    <3> QED
      BY <1>1, <3>1
  <2> QED
    BY <2>1, <2>2
<1>4. LineFeeds(w, i) = {} => LineEnds(w, i) = Len(w) + 1
  BY DEF LineEnds
<1>5. LineFeeds(w, i) # {} => LineEnds(w, i) <= Len(w)
  BY <1>1, <1>2 DEF LineFeeds
<1>6. LastOf(w, i) \in i - 1 .. Len(w)
  BY <1>1, <1>3, <1>4, <1>5 DEF LastOf
<1>7. Line(w, i) = SubSeq(w, i, LastOf(w, i))
  BY DEF Line, LastOf, LineEnds, LineFeeds
<1> QED
  BY <1>2, <1>3, <1>6, <1>7, PieceIs

\* A line is the same in what follows the first d bytes.
LEMMA LineMoved ==
  ASSUME NEW w \in Seq(Classes), NEW d \in 0 .. Len(w), NEW i \in 1 .. Len(w) - d
  PROVE  Line(Suffix(w, d), i) = Line(w, d + i)
<1> DEFINE s == Suffix(w, d)
<1>0. /\ s \in Seq(Classes) /\ Len(s) = Len(w) - d /\ Len(s) \in Nat
      /\ d \in Nat /\ Len(w) \in Nat /\ Len(w) = d + Len(s)
      /\ \A k \in 1 .. Len(s) : s[k] = w[d + k]
      /\ DOMAIN s = 1 .. Len(s) /\ DOMAIN w = 1 .. Len(w)
  BY SuffixIs
<1> HIDE DEF s
<1>1. i \in 1 .. Len(s) /\ d + i \in 1 .. Len(w) /\ i \in Nat
  BY <1>0
<1>2. \A k \in 1 .. Len(s) : k \in LineFeeds(s, i) <=> d + k \in LineFeeds(w, d + i)
  BY <1>0, <1>1 DEF LineFeeds
<1>3. \A k \in LineFeeds(w, d + i) : k - d \in 1 .. Len(s) /\ d + (k - d) = k
  BY <1>0, <1>1 DEF LineFeeds
<1>4. \A k \in LineFeeds(s, i) : k \in 1 .. Len(s)
  BY <1>0 DEF LineFeeds
<1>5. LineFeeds(s, i) = {} <=> LineFeeds(w, d + i) = {}
  BY <1>2, <1>3, <1>4
<1>6. LineEnds(w, d + i) = d + LineEnds(s, i)
  <2>1. CASE LineFeeds(s, i) = {}
    BY <1>0, <1>5, <2>1 DEF LineEnds
  <2>2. CASE LineFeeds(s, i) # {}
    <3> DEFINE x == Min(LineFeeds(s, i))
               y == Min(LineFeeds(w, d + i))
    <3>1. LineFeeds(s, i) \subseteq Nat /\ LineFeeds(w, d + i) \subseteq Nat
      BY <1>0 DEF LineFeeds
    <3>2. x \in LineFeeds(s, i) /\ \A k \in LineFeeds(s, i) : x <= k
      BY <2>2, <3>1, MinFacts
    <3>3. y \in LineFeeds(w, d + i) /\ \A k \in LineFeeds(w, d + i) : y <= k
      BY <1>5, <2>2, <3>1, MinFacts
    <3> HIDE DEF x, y
    <3>4. d + x \in LineFeeds(w, d + i) /\ x \in Nat
      BY <1>2, <1>4, <3>1, <3>2
    <3>5. y - d \in LineFeeds(s, i) /\ y \in Nat
      BY <1>2, <1>3, <3>1, <3>3
    <3>6. y = d + x
      BY <1>0, <3>2, <3>3, <3>4, <3>5
    <3> QED
      BY <1>5, <2>2, <3>6 DEF LineEnds, x, y
  <2> QED
    BY <2>1, <2>2
<1>7. LastOf(w, d + i) = d + LastOf(s, i)
  <2>1. LineEnds(s, i) \in i .. Len(s) + 1
    BY <1>0, <1>1, LineIs
  <2>2. LineFeeds(s, i) # {} => LineEnds(s, i) \in 1 .. Len(s)
    BY <1>0, <1>1, <1>4, LineIs
  <2>3. LineEnds(s, i) > i <=> d + LineEnds(s, i) > d + i
    BY <1>0, <1>1, <2>1
  <2>4. LineFeeds(s, i) # {} /\ LineEnds(s, i) > i =>
          s[LineEnds(s, i) - 1] = w[(d + LineEnds(s, i)) - 1]
    <3> HAVE LineFeeds(s, i) # {} /\ LineEnds(s, i) > i
    <3>1. LineEnds(s, i) - 1 \in 1 .. Len(s)
      BY <1>0, <1>1, <2>2
    <3>2. d + (LineEnds(s, i) - 1) = (d + LineEnds(s, i)) - 1
      BY <1>0, <2>1
    <3> QED
      BY <1>0, <3>1, <3>2
  <2>5. /\ (d + LineEnds(s, i)) - 1 = d + (LineEnds(s, i) - 1)
        /\ (d + LineEnds(s, i)) - 2 = d + (LineEnds(s, i) - 2)
    BY <1>0, <2>1
  <2> QED
    BY <1>5, <1>6, <2>3, <2>4, <2>5 DEF LastOf
<1> DEFINE e == LastOf(s, i)
<1>8. e \in i - 1 .. Len(s) /\ Line(s, i) = SubSeq(s, i, e)
  BY <1>0, <1>1, LineIs
<1>9. Line(w, d + i) = SubSeq(w, d + i, d + e)
  BY <1>1, <1>7, LineIs
<1> HIDE DEF e
<1>10. SubSeq(s, i, e) = SubSeq(w, d + i, d + e)
  <2>1. /\ SubSeq(s, i, e) \in Seq(Classes) /\ Len(SubSeq(s, i, e)) = e - i + 1
        /\ \A k \in 1 .. e - i + 1 : SubSeq(s, i, e)[k] = s[i + k - 1]
    BY <1>0, <1>1, <1>8, PieceIs
  <2>2. d + e \in (d + i) - 1 .. Len(w) /\ (d + e) - (d + i) + 1 = e - i + 1
    BY <1>0, <1>1, <1>8
  <2>3. /\ SubSeq(w, d + i, d + e) \in Seq(Classes)
        /\ Len(SubSeq(w, d + i, d + e)) = e - i + 1
        /\ \A k \in 1 .. e - i + 1 : SubSeq(w, d + i, d + e)[k] = w[(d + i) + k - 1]
    BY <1>1, <2>2, PieceIs
  <2>4. ASSUME NEW k \in 1 .. e - i + 1
        PROVE  SubSeq(s, i, e)[k] = SubSeq(w, d + i, d + e)[k]
    <3>1. i + k - 1 \in 1 .. Len(s) /\ d + (i + k - 1) = (d + i) + k - 1
      BY <1>0, <1>1, <1>8
    <3> QED
      BY <1>0, <2>1, <2>3, <3>1
  <2> QED
    BY <2>1, <2>3, <2>4, SeqEqual
<1> QED
  BY <1>8, <1>9, <1>10 DEF s


-----------------------------------------------------------------------------
(* The last lines *)

\* An element is known by how many come after it.
LEMMA NthFromEnd ==
  ASSUME NEW N \in Nat, NEW S, S \subseteq 1 .. N
  PROVE  /\ \A k \in 1 .. Cardinality(S) :
              Nth(S, k) \in S /\ Cardinality(Over(S, Nth(S, k))) = Cardinality(S) - k
         /\ \A x \in S : \A c \in Nat :
              Cardinality(Over(S, x)) = c => x = Nth(S, Cardinality(S) - c)
<1>1. /\ \A x : Cardinality(Up(S, x)) \in Nat /\ Cardinality(Over(S, x)) \in Nat
      /\ \A x : IsFiniteSet(Up(S, x)) /\ Cardinality(S) \in Nat
  BY UpFacts
<1>2. \A x \in S : Cardinality(Up(S, x)) + Cardinality(Over(S, x)) = Cardinality(S)
  BY Elements, UpAndOver
<1>3. ASSUME NEW k \in 1 .. Cardinality(S)
      PROVE  Nth(S, k) \in S /\ Cardinality(Over(S, Nth(S, k))) = Cardinality(S) - k
  <2> DEFINE x == Nth(S, k)
  <2>1. x \in S /\ Cardinality(Up(S, x)) = k
    BY NthIs
  <2> HIDE DEF x
  <2>2. Cardinality(Up(S, x)) + Cardinality(Over(S, x)) = Cardinality(S)
    BY <1>2, <2>1
  <2>3. Cardinality(Over(S, x)) = Cardinality(S) - k
    BY <1>1, <2>1, <2>2
  <2> QED
    BY <2>1, <2>3 DEF x
<1>4. ASSUME NEW x \in S, NEW c \in Nat, Cardinality(Over(S, x)) = c
      PROVE  x = Nth(S, Cardinality(S) - c)
  <2>1. Cardinality(Up(S, x)) = Cardinality(S) - c
    BY <1>1, <1>2, <1>4
  <2>2. x \in Up(S, x)
    BY Elements DEF Up
  <2>3. Cardinality(Up(S, x)) # 0
    BY <1>1, <2>2, FS_EmptySet
  <2>4. Cardinality(S) - c \in 1 .. Cardinality(S)
    BY <1>1, <2>1, <2>3
  <2> QED
    BY <2>1, <2>4, NthIs
<1> QED
  BY <1>3, <1>4

LEMMA BeginsIn ==
  ASSUME NEW w \in Seq(Classes)
  PROVE  /\ Len(w) \in Nat /\ Begins(w) \subseteq 1 .. Len(w) /\ DOMAIN w = 1 .. Len(w)
         /\ Cardinality(Begins(w)) \in Nat /\ IsFiniteSet(Begins(w))
<1>1. Len(w) \in Nat /\ DOMAIN w = 1 .. Len(w)
  BY LenProperties
<1>2. Begins(w) \subseteq 1 .. Len(w)
  BY <1>1 DEF Begins
<1> QED
  BY <1>1, <1>2, UpFacts

\* As many lines as are asked for, if there are so many.
Taken(N, tail) == IF N > tail THEN tail ELSE N

LEMMA TailLinesIs ==
  ASSUME NEW w \in Seq(Classes), NEW tail \in Nat,
         NEW N \in Nat, N = Cardinality(Begins(w))
  PROVE  /\ TailLines(w, tail) \in Seq(Seq(Classes))
         /\ Taken(N, tail) \in Nat /\ Len(TailLines(w, tail)) = Taken(N, tail)
         /\ \A k \in 1 .. Taken(N, tail) :
              TailLines(w, tail)[k] = Line(w, Nth(Begins(w), (N - Taken(N, tail)) + k))
<1> DEFINE lines == Lines(w)
           e(k) == Line(w, Nth(Begins(w), k))
           start == IF N > tail THEN N - tail ELSE 0
<1>1. \A k \in 1 .. N : Nth(Begins(w), k) \in 1 .. Len(w)
  BY BeginsIn, NthFromEnd
<1>2. \A k \in 1 .. N : e(k) \in Seq(Classes)
  BY <1>1, LineIs
<1>3. lines = [k \in 1 .. N |-> e(k)]
  BY DEF Lines
<1>4. lines \in Seq(Seq(Classes))
  <2> HIDE DEF lines, e
  <2>1. [k \in 1 .. N |-> e(k)] \in Seq(Seq(Classes))
    BY <1>2, IsASeq
  <2> QED
    BY <1>3, <2>1
<1>5. Len(lines) = N
  BY <1>3, <1>4, LenProperties
<1>6. /\ start \in Nat /\ start <= N /\ N - start = Taken(N, tail) /\ Taken(N, tail) \in Nat
      /\ start = N - Taken(N, tail) /\ N - (start + 1) + 1 = Taken(N, tail)
  BY DEF Taken
<1>7. TailLines(w, tail) = SubSeq(lines, start + 1, N)
  BY <1>5 DEF TailLines
<1> HIDE DEF lines, start
<1>8. \A k \in 1 .. N : lines[k] = e(k) /\ lines[k] \in Seq(Classes)
  BY <1>2, <1>3
<1>9. /\ SubSeq(lines, start + 1, N) \in Seq(Seq(Classes))
      /\ Len(SubSeq(lines, start + 1, N))
           = IF start + 1 <= N THEN N - (start + 1) + 1 ELSE 0
      /\ \A k \in 1 .. N - (start + 1) + 1 :
           SubSeq(lines, start + 1, N)[k] = lines[start + 1 + k - 1]
  <2>1. start + 1 \in Int /\ N \in Int
    BY <1>6
  <2>2. \A k \in start + 1 .. N : lines[k] \in Seq(Classes)
    <3>1. \A k \in start + 1 .. N : k \in 1 .. N
      BY <1>6
    <3> QED
      BY <1>8, <3>1
  <2> QED
    BY <2>1, <2>2, SubSeqProperties
<1>10. Len(SubSeq(lines, start + 1, N)) = Taken(N, tail)
  BY <1>6, <1>9
<1>11. ASSUME NEW k \in 1 .. Taken(N, tail)
       PROVE  SubSeq(lines, start + 1, N)[k]
                = Line(w, Nth(Begins(w), (N - Taken(N, tail)) + k))
  <2>1. /\ start + 1 + k - 1 = (N - Taken(N, tail)) + k
        /\ (N - Taken(N, tail)) + k \in 1 .. N
    <3> DEFINE n == Taken(N, tail)
    <3>1. n \in Nat /\ start = N - n /\ start \in Nat /\ k \in 1 .. n
      BY <1>6
    <3> HIDE DEF n
    <3>2. start + 1 + k - 1 = (N - n) + k /\ (N - n) + k \in 1 .. N
      BY <3>1
    <3> QED
      BY <3>2 DEF n
  <2>2. SubSeq(lines, start + 1, N)[k] = lines[start + 1 + k - 1]
    BY <1>6, <1>9
  <2> QED
    BY <1>8, <2>1, <2>2
<1> QED
  BY <1>6, <1>7, <1>9, <1>10, <1>11

LEMMA BeginsMoved ==
  ASSUME NEW w \in Seq(Classes), NEW d \in 0 .. Len(w), NEW i \in 1 .. Len(w) - d
  PROVE  /\ i > 1 => (i \in Begins(Suffix(w, d)) <=> d + i \in Begins(w))
         /\ Cardinality(Over(Begins(Suffix(w, d)), i)) = Cardinality(Over(Begins(w), d + i))
<1> DEFINE s == Suffix(w, d)
<1>1. /\ s \in Seq(Classes) /\ Len(s) = Len(w) - d /\ Len(s) \in Nat
      /\ d \in Nat /\ Len(w) \in Nat /\ Len(w) = d + Len(s)
      /\ \A k \in 1 .. Len(s) : s[k] = w[d + k]
      /\ DOMAIN s = 1 .. Len(s) /\ DOMAIN w = 1 .. Len(w)
  BY SuffixIs
<1> HIDE DEF s
<1>2. i \in Nat /\ i >= 1
  BY <1>1
<1>3. \A k \in 2 .. Len(s) : k \in Begins(s) <=> d + k \in Begins(w)
  <2> TAKE k \in 2 .. Len(s)
  <2>1. k \in 1 .. Len(s) /\ k - 1 \in 1 .. Len(s) /\ k # 1
    BY <1>1
  <2>2. d + k \in 1 .. Len(w) /\ d + k # 1 /\ (d + k) - 1 = d + (k - 1)
    BY <1>1
  <2>3. s[k - 1] = w[(d + k) - 1]
    BY <1>1, <2>1, <2>2
  <2> QED
    BY <1>1, <2>1, <2>2, <2>3 DEF Begins
<1>4. /\ \A j \in Over(Begins(s), i) : j \in 2 .. Len(s) /\ j > i /\ j \in Begins(s)
      /\ \A j \in Over(Begins(w), d + i) : j \in 1 .. Len(w) /\ j > d + i /\ j \in Begins(w)
  BY <1>1, <1>2 DEF Over, Begins
<1>5. \A j \in Over(Begins(s), i) : d + j \in Over(Begins(w), d + i)
  BY <1>1, <1>2, <1>3, <1>4 DEF Over
<1>6. \A j \in Over(Begins(w), d + i) :
        /\ j - d \in Over(Begins(s), i) /\ d + (j - d) = j
  <2> TAKE j \in Over(Begins(w), d + i)
  <2>1. j \in 1 .. Len(w) /\ j > d + i /\ j \in Begins(w)
    BY <1>4
  <2>2. j - d \in 2 .. Len(s) /\ j - d > i /\ d + (j - d) = j
    BY <1>1, <1>2, <2>1
  <2> QED
    BY <1>3, <2>1, <2>2 DEF Over
<1>7. Over(Begins(w), d + i) = {d + j : j \in Over(Begins(s), i)}
  BY <1>5, <1>6
<1>8. /\ IsFiniteSet(Over(Begins(s), i)) /\ Over(Begins(s), i) \subseteq Nat
  <2>1. Begins(s) \subseteq 1 .. Len(s)
    BY <1>1, BeginsIn
  <2> QED
    BY <1>1, <1>4, <2>1, UpFacts
<1>9. Cardinality(Over(Begins(w), d + i)) = Cardinality(Over(Begins(s), i))
  BY <1>1, <1>7, <1>8, Moved
<1>10. i > 1 => i \in 2 .. Len(s)
  BY <1>1
<1> QED
  BY <1>3, <1>9, <1>10 DEF s

Feeds(w) == {i \in DOMAIN w : w[i] = "lf"}

LEMMA NewlinesIs ==
  ASSUME NEW w \in Seq(Classes)
  PROVE  /\ Newlines(w) = Cardinality(Feeds(w)) /\ Newlines(w) \in Nat
         /\ IsFiniteSet(Feeds(w)) /\ Feeds(w) \subseteq 1 .. Len(w)
<1>1. Newlines(w) = Cardinality(Feeds(w))
  BY DEF Newlines, Quantify, Feeds
<1>2. Feeds(w) \subseteq 1 .. Len(w) /\ Len(w) \in Nat
  BY LenProperties DEF Feeds
<1> QED
  BY <1>1, <1>2, UpFacts

LEMMA NewlinesOfConcat ==
  ASSUME NEW u \in Seq(Classes), NEW w \in Seq(Classes)
  PROVE  Newlines(u \o w) = Newlines(u) + Newlines(w)
<1> DEFINE d == Len(u)
           v == u \o w
           M == {d + j : j \in Feeds(w)}
<1>1. /\ v \in Seq(Classes) /\ d \in Nat /\ Len(w) \in Nat /\ Len(v) = d + Len(w)
      /\ \A i \in 1 .. d + Len(w) : v[i] = IF i <= d THEN u[i] ELSE w[i - d]
      /\ DOMAIN u = 1 .. d /\ DOMAIN w = 1 .. Len(w) /\ DOMAIN v = 1 .. d + Len(w)
  <2>1. /\ v \in Seq(Classes) /\ Len(v) = d + Len(w)
        /\ \A i \in 1 .. d + Len(w) : v[i] = IF i <= d THEN u[i] ELSE w[i - d]
    BY ConcatProperties
  <2>2. d \in Nat /\ Len(w) \in Nat /\ DOMAIN u = 1 .. d /\ DOMAIN w = 1 .. Len(w)
    BY LenProperties
  <2> HIDE DEF v, d
  <2>3. DOMAIN v = 1 .. Len(v)
    BY <2>1, LenProperties
  <2> QED
    BY <2>1, <2>2, <2>3
<1> HIDE DEF v, d
<1>2. /\ \A i \in Feeds(u) : i \in Nat /\ 1 <= i /\ i <= d
      /\ \A i \in Feeds(w) : i \in Nat /\ 1 <= i /\ i <= Len(w)
  BY <1>1 DEF Feeds
<1>3. \A i \in 1 .. d : i \in Feeds(v) <=> i \in Feeds(u)
  <2> TAKE i \in 1 .. d
  <2>1. i \in 1 .. d + Len(w) /\ i <= d
    BY <1>1
  <2> QED
    BY <1>1, <2>1 DEF Feeds
<1>4. \A i \in 1 .. Len(w) : d + i \in Feeds(v) <=> i \in Feeds(w)
  <2> TAKE i \in 1 .. Len(w)
  <2>1. d + i \in 1 .. d + Len(w) /\ ~(d + i <= d) /\ (d + i) - d = i
    BY <1>1
  <2>2. v[d + i] = w[i] /\ d + i \in DOMAIN v /\ i \in DOMAIN w
    BY <1>1, <2>1
  <2> QED
    BY <2>2 DEF Feeds
<1>5. \A i \in Feeds(v) : i \in 1 .. d \/ (i - d \in 1 .. Len(w) /\ d + (i - d) = i)
  <2>1. \A i \in Feeds(v) : i \in 1 .. d + Len(w)
    BY <1>1 DEF Feeds
  <2> QED
    BY <1>1, <2>1
<1>6. Feeds(v) \subseteq Feeds(u) \cup M
  <2> SUFFICES ASSUME NEW i \in Feeds(v), ~(i \in 1 .. d) PROVE i \in M
    BY <1>3
  <2>1. i - d \in 1 .. Len(w) /\ d + (i - d) = i
    BY <1>5
  <2>2. i - d \in Feeds(w)
    BY <1>4, <2>1
  <2> QED
    BY <2>1, <2>2
<1>7. Feeds(u) \subseteq Feeds(v)
  BY <1>1, <1>2, <1>3
<1>8. M \subseteq Feeds(v)
  BY <1>2, <1>4
<1>9. Feeds(u) \cap M = {}
  BY <1>1, <1>2
<1>10. /\ IsFiniteSet(Feeds(u)) /\ IsFiniteSet(Feeds(w)) /\ Feeds(w) \subseteq Nat
       /\ Cardinality(Feeds(u)) \in Nat /\ Cardinality(Feeds(w)) \in Nat
  BY <1>2, NewlinesIs
<1>11. IsFiniteSet(M) /\ Cardinality(M) = Cardinality(Feeds(w))
  BY <1>1, <1>10, Moved
<1> HIDE DEF M
<1>12. Feeds(v) = Feeds(u) \cup M
  BY <1>6, <1>7, <1>8
<1>13. Cardinality(Feeds(v)) = Cardinality(Feeds(u)) + Cardinality(M) - 0
  BY <1>9, <1>10, <1>11, <1>12, FS_Union, FS_EmptySet
<1>14. /\ Newlines(v) = Cardinality(Feeds(v)) /\ Newlines(u) = Cardinality(Feeds(u))
       /\ Newlines(w) = Cardinality(Feeds(w))
  BY <1>1, NewlinesIs
<1>15. Newlines(v) = Newlines(u) + Newlines(w)
  BY <1>10, <1>11, <1>13, <1>14
<1> QED
  BY <1>15 DEF v

\* Behind as many line feeds as lines are asked for, as many lines begin.
LEMMA EnoughBegin ==
  ASSUME NEW s \in Seq(Classes), NEW tail \in Nat, Newlines(s) > tail
  PROVE  Cardinality(Over(Begins(s), 1)) >= tail /\ Len(s) >= 1
<1>1. /\ Len(s) \in Nat /\ Begins(s) \subseteq 1 .. Len(s) /\ DOMAIN s = 1 .. Len(s)
  BY BeginsIn
<1>2. /\ Newlines(s) = Cardinality(Feeds(s)) /\ Newlines(s) \in Nat
      /\ IsFiniteSet(Feeds(s)) /\ Feeds(s) \subseteq 1 .. Len(s)
  BY NewlinesIs
<1> DEFINE F == Feeds(s) \ {Len(s)}
           M == {1 + j : j \in F}
<1>3. IsFiniteSet(F) /\ Cardinality(F) >= tail /\ Cardinality(F) \in Nat
  <2>1. /\ IsFiniteSet(F)
        /\ Cardinality(F) = IF Len(s) \in Feeds(s) THEN Cardinality(Feeds(s)) - 1
                            ELSE Cardinality(Feeds(s))
    BY <1>2, FS_RemoveElement
  <2>2. Cardinality(F) \in Nat
    BY <2>1, FS_CardinalityType
  <2> QED
    BY <1>2, <2>1, <2>2
<1>4. \A j \in F : j \in Nat /\ 1 <= j /\ j < Len(s) /\ s[j] = "lf"
  BY <1>1, <1>2 DEF Feeds
<1>5. \A j \in F : 1 + j \in Over(Begins(s), 1)
  <2> TAKE j \in F
  <2>1. 1 + j \in 1 .. Len(s) /\ 1 + j > 1 /\ (1 + j) - 1 = j /\ s[j] = "lf"
    BY <1>1, <1>4
  <2> QED
    BY <1>1, <2>1 DEF Over, Begins
<1>6. M \subseteq Over(Begins(s), 1)
  BY <1>5
<1>7. Cardinality(M) = Cardinality(F)
  BY <1>3, <1>4, Moved
<1>8. IsFiniteSet(Over(Begins(s), 1)) /\ Cardinality(Over(Begins(s), 1)) \in Nat
  BY <1>1, UpFacts
<1> HIDE DEF M
<1>9. Cardinality(M) <= Cardinality(Over(Begins(s), 1))
  BY <1>6, <1>8, FS_Subset
<1>10. Cardinality(Over(Begins(s), 1)) >= tail
  BY <1>3, <1>7, <1>8, <1>9
<1>11. Len(s) # 0
  <2> SUFFICES ASSUME Len(s) = 0 PROVE FALSE
    OBVIOUS
  <2>1. Feeds(s) = {}
    BY <1>2
  <2> QED
    BY <1>2, <2>1, FS_EmptySet
<1> QED
  BY <1>1, <1>10, <1>11

\* Enough of the end has the same last lines.
LEMMA SameTail ==
  ASSUME NEW w \in Seq(Classes), NEW d \in 0 .. Len(w), NEW tail \in Nat,
         Newlines(Suffix(w, d)) > tail \/ d = 0
  PROVE  TailLines(Suffix(w, d), tail) = TailLines(w, tail)
<1>1. CASE d = 0
  <2>1. Suffix(w, d) = w
    BY <1>1, SubSeqFull DEF Suffix
  <2> QED
    BY <2>1
<1>2. CASE Newlines(Suffix(w, d)) > tail
  <2> DEFINE s == Suffix(w, d)
             B == Begins(s)
             C == Begins(w)
             N == Cardinality(B)
             M == Cardinality(C)
  <2>1. s \in Seq(Classes) /\ Len(s) = Len(w) - d /\ Len(s) \in Nat /\ d \in Nat
    BY SuffixIs
  <2>2. /\ Cardinality(Over(B, 1)) >= tail /\ Len(s) >= 1
    BY <1>2, <2>1, EnoughBegin
  <2>3. /\ B \subseteq 1 .. Len(s) /\ IsFiniteSet(B) /\ N \in Nat
        /\ C \subseteq 1 .. Len(w) /\ IsFiniteSet(C) /\ M \in Nat /\ Len(w) \in Nat
    BY <2>1, BeginsIn
  <2>4. \A i \in 1 .. Len(s) :
          /\ i > 1 => (i \in B <=> d + i \in C)
          /\ Cardinality(Over(B, i)) = Cardinality(Over(C, d + i))
    BY <2>1, BeginsMoved
  <2>5. /\ \A k \in 1 .. N : Nth(B, k) \in B /\ Cardinality(Over(B, Nth(B, k))) = N - k
        /\ \A x \in C : \A c \in Nat : Cardinality(Over(C, x)) = c => x = Nth(C, M - c)
    <3>1. \A k \in 1 .. N : Nth(B, k) \in B /\ Cardinality(Over(B, Nth(B, k))) = N - k
      BY <2>1, <2>3, NthFromEnd
    <3>2. \A x \in C : \A c \in Nat : Cardinality(Over(C, x)) = c => x = Nth(C, M - c)
      BY <2>3, NthFromEnd
    <3> QED
      BY <3>1, <3>2
  <2>6. TailLines(s, tail) \in Seq(Seq(Classes)) /\ TailLines(w, tail) \in Seq(Seq(Classes))
    BY <2>1, <2>3, TailLinesIs
  <2>7. /\ Len(TailLines(s, tail)) = Taken(N, tail)
        /\ \A k \in 1 .. Taken(N, tail) :
             TailLines(s, tail)[k] = Line(s, Nth(B, (N - Taken(N, tail)) + k))
    BY <2>1, <2>3, TailLinesIs
  <2>8. /\ Len(TailLines(w, tail)) = Taken(M, tail)
        /\ \A k \in 1 .. Taken(M, tail) :
             TailLines(w, tail)[k] = Line(w, Nth(C, (M - Taken(M, tail)) + k))
    BY <2>3, TailLinesIs
  <2>9. \A i \in 1 .. Len(s) : Line(s, i) = Line(w, d + i)
    BY <2>1, LineMoved
  <2>10. /\ Cardinality(Over(B, 1)) <= N /\ Cardinality(Over(B, 1)) \in Nat
         /\ Cardinality(Over(C, d + 1)) <= M
    <3>1. Over(B, 1) \subseteq B /\ Over(C, d + 1) \subseteq C
      BY DEF Over
    <3> HIDE DEF B, C
    <3>2. Cardinality(Over(B, 1)) <= N /\ Cardinality(Over(C, d + 1)) <= M
      BY <2>3, <3>1, FS_Subset
    <3>3. Cardinality(Over(B, 1)) \in Nat
      BY <2>1, <2>3, UpFacts
    <3> QED
      BY <3>2, <3>3
  <2> HIDE DEF s, B, C, N, M
  <2>11. N >= tail /\ M >= tail
    <3>1. 1 \in 1 .. Len(s)
      BY <2>1, <2>2
    <3>2. Cardinality(Over(C, d + 1)) = Cardinality(Over(B, 1))
      BY <2>4, <3>1
    <3> QED
      BY <2>2, <2>3, <2>10, <3>2
  <2>12. Taken(N, tail) = tail /\ Taken(M, tail) = tail
    BY <2>3, <2>11 DEF Taken
  <2>13. ASSUME NEW k \in 1 .. tail
         PROVE  TailLines(s, tail)[k] = TailLines(w, tail)[k]
    <3> DEFINE x == Nth(B, (N - tail) + k)
               c == tail - k
    <3>1. (N - tail) + k \in 1 .. N /\ N - ((N - tail) + k) = c /\ c \in Nat /\ c < tail
      BY <2>3, <2>11
    <3>2. x \in B /\ Cardinality(Over(B, x)) = c
      BY <2>5, <3>1
    <3> HIDE DEF x, c
    <3>3. x \in 1 .. Len(s) /\ x # 1
      BY <2>2, <2>3, <2>10, <3>1, <3>2
    <3>4. d + x \in C /\ Cardinality(Over(C, d + x)) = c
      BY <2>1, <2>4, <3>2, <3>3
    <3>5. d + x = Nth(C, M - c)
      BY <2>5, <3>1, <3>4
    <3>6. M - c = (M - tail) + k
      BY <2>3 DEF c
    <3>7. TailLines(s, tail)[k] = Line(s, x)
      BY <2>7, <2>12 DEF x
    <3>8. TailLines(w, tail)[k] = Line(w, d + x)
      BY <2>8, <2>12, <3>5, <3>6
    <3> QED
      BY <2>9, <3>3, <3>7, <3>8
  <2>14. TailLines(s, tail) = TailLines(w, tail)
    BY <2>6, <2>7, <2>8, <2>12, <2>13, SeqEqual
  <2> QED
    BY <2>14 DEF s
<1> QED
  BY <1>1, <1>2

-----------------------------------------------------------------------------
(* The inductive invariant *)

\* What the reader answers about: what the log held when it was opened.
Held == IF raw THEN opened ELSE Text(opened)

Readers == [at : {"open", "read", "done", "failed"}, tail : Nat, len : Nat, pos : Nat,
            newlines : Nat, collected : Seq(Classes), lines : Seq(Seq(Classes))]

\* What has come of the stream is cleaned, up to what is still undecided.
StreamKept ==
  /\ source \in Sources /\ raw \in BOOLEAN /\ truncated \in BOOLEAN
  /\ input \in Seq(Classes) /\ opened \in Seq(Classes)
  /\ Kept(input, cleaner.state, cleaner.pending, out)

\* What has been collected is counted.
Collecting ==
  /\ reader \in Readers
  /\ reader.at = "open" => reader = NotOpen /\ ~truncated
  /\ Floor(reader) <= reader.pos /\ reader.pos <= reader.len
  /\ Len(reader.collected) = reader.len - reader.pos
  /\ reader.newlines = Newlines(reader.collected)

\* The log goes on with what it held, and that is what is collected.
EndOfHeld ==
  ~truncated /\ reader.at # "open" =>
    /\ Len(Held) = reader.len /\ Extends(Log, Held)
    /\ reader.collected = Suffix(Held, reader.pos)
    /\ reader.at # "failed"
    /\ reader.at = "done" =>
         reader.lines = TailLines(Suffix(Held, Floor(reader)), reader.tail)

Whole == StreamKept /\ Collecting /\ EndOfHeld

LEMMA LogType ==
  ASSUME StreamKept
  PROVE  /\ out \in Seq(Items) /\ Bytes(out) = Text(input) /\ CleanLog = Bytes(out)
         /\ Log \in Seq(Classes) /\ Held \in Seq(Classes)
         /\ Log = IF raw THEN input ELSE Text(input)
<1>1. out \in Seq(Items)
  BY DEF StreamKept, Kept, Ordered
<1>2. Bytes(out) = Text(input)
  BY KeptIsText DEF StreamKept
<1>3. CleanLog = Bytes(out)
  BY DEF CleanLog, Bytes
<1>4. Text(input) \in Seq(Classes) /\ Text(opened) \in Seq(Classes)
  BY TextType DEF StreamKept
<1> QED
  BY <1>1, <1>2, <1>3, <1>4 DEF StreamKept, Log, Held

LEMMA FloorIs ==
  ASSUME NEW r, r.len \in Nat
  PROVE  Floor(r) \in Nat /\ Floor(r) <= r.len /\ r.len - Floor(r) <= MAX_BYTES
BY TailAssumption DEF Floor

LEMMA SuffixOfSuffix ==
  ASSUME NEW w \in Seq(Classes), NEW f \in 0 .. Len(w), NEW p \in f .. Len(w)
  PROVE  /\ p - f \in 0 .. Len(Suffix(w, f))
         /\ Suffix(Suffix(w, f), p - f) = Suffix(w, p)
<1> DEFINE s == Suffix(w, f)
           e == p - f
<1>1. /\ s \in Seq(Classes) /\ Len(s) = Len(w) - f /\ f \in Nat /\ Len(w) \in Nat
      /\ \A i \in 1 .. Len(w) - f : s[i] = w[f + i]
  BY SuffixIs
<1>2. p \in Nat /\ p \in 0 .. Len(w) /\ p >= f
  BY <1>1
<1>3. /\ Suffix(w, p) \in Seq(Classes) /\ Len(Suffix(w, p)) = Len(w) - p
      /\ \A i \in 1 .. Len(w) - p : Suffix(w, p)[i] = w[p + i]
  BY <1>2, SuffixIs
<1> HIDE DEF s
<1>4. e \in 0 .. Len(s) /\ Len(s) - e = Len(w) - p
  BY <1>1, <1>2
<1> HIDE DEF e
<1>5. /\ Suffix(s, e) \in Seq(Classes) /\ Len(Suffix(s, e)) = Len(s) - e
      /\ \A i \in 1 .. Len(s) - e : Suffix(s, e)[i] = s[e + i]
  BY <1>1, <1>4, SuffixIs
<1>6. ASSUME NEW i \in 1 .. Len(w) - p PROVE Suffix(s, e)[i] = Suffix(w, p)[i]
  <2>1. e + i \in 1 .. Len(w) - f /\ f + (e + i) = p + i
    BY <1>1, <1>2 DEF e
  <2> QED
    BY <1>1, <1>3, <1>4, <1>5, <2>1
<1>7. Suffix(s, e) = Suffix(w, p)
  BY <1>3, <1>4, <1>5, <1>6, SeqEqual
<1> QED
  BY <1>4, <1>7 DEF s, e

\* What is read is put before what has been collected.
LEMMA BlockBefore ==
  ASSUME NEW w \in Seq(Classes), NEW u \in Seq(Classes), Extends(u, w),
         NEW p \in 0 .. Len(w), NEW q \in 0 .. p
  PROVE  SubSeq(u, q + 1, p) \o Suffix(w, p) = Suffix(w, q)
<1>1. /\ p \in Nat /\ q \in Nat /\ q <= p /\ p <= Len(w) /\ Len(w) \in Nat
      /\ Len(w) <= Len(u) /\ Len(u) \in Nat
  BY LenProperties DEF Extends
<1>2. SubSeq(u, q + 1, p) = SubSeq(w, q + 1, p)
  <2>1. \A i \in q + 1 .. p : i \in 1 .. Len(w) /\ i \in 1 .. Len(u)
    BY <1>1
  <2>2. \A i \in q + 1 .. p : u[i] = w[i] /\ u[i] \in Classes /\ w[i] \in Classes
    BY <2>1, ElementOfSeq DEF Extends
  <2>3. q + 1 \in Int /\ p \in Int
    BY <1>1
  <2>4. /\ SubSeq(u, q + 1, p) \in Seq(Classes)
        /\ Len(SubSeq(u, q + 1, p)) = IF q + 1 <= p THEN p - (q + 1) + 1 ELSE 0
        /\ \A i \in 1 .. p - (q + 1) + 1 : SubSeq(u, q + 1, p)[i] = u[q + 1 + i - 1]
    BY <2>2, <2>3, SubSeqProperties
  <2>5. /\ SubSeq(w, q + 1, p) \in Seq(Classes)
        /\ Len(SubSeq(w, q + 1, p)) = IF q + 1 <= p THEN p - (q + 1) + 1 ELSE 0
        /\ \A i \in 1 .. p - (q + 1) + 1 : SubSeq(w, q + 1, p)[i] = w[q + 1 + i - 1]
    BY <2>2, <2>3, SubSeqProperties
  <2>6. Len(SubSeq(u, q + 1, p)) = p - (q + 1) + 1
    BY <1>1, <2>4
  <2>7. \A i \in 1 .. p - (q + 1) + 1 : q + 1 + i - 1 \in q + 1 .. p
    BY <1>1
  <2>8. \A i \in 1 .. p - (q + 1) + 1 : SubSeq(u, q + 1, p)[i] = SubSeq(w, q + 1, p)[i]
    BY <2>2, <2>4, <2>5, <2>7
  <2> QED
    BY <2>4, <2>5, <2>6, <2>8, SeqEqual
<1>3. SubSeq(w, q + 1, p) \o SubSeq(w, p + 1, Len(w)) = SubSeq(w, q + 1, Len(w))
  <2>1. q + 1 \in 1 .. Len(w) + 1 /\ p \in (q + 1) - 1 .. Len(w) /\ Len(w) \in p .. Len(w)
    BY <1>1
  <2> QED
    BY <2>1, ConcatAdjacentSubSeq
<1> QED
  BY <1>2, <1>3 DEF Suffix

LEMMA WholeAtFirst == Init => Whole
<1> SUFFICES ASSUME Init PROVE Whole
  OBVIOUS
<1> USE DEF Init, CleanerInit
<1>1. <<>> \in Seq(Classes) /\ Len(<<>>) = 0 /\ <<>> \in Seq(Seq(Classes))
  BY EmptySeq
<1>2. StreamKept
  <2>1. cleaner.state = "ground" /\ cleaner.pending = FALSE
    BY DEF Fresh
  <2>2. Kept(input, cleaner.state, cleaner.pending, out)
    BY <2>1, KeptAtFirst
  <2> QED
    BY <1>1, <2>2 DEF StreamKept
<1>3. Collecting
  <2>1. /\ reader.at = "open" /\ reader.tail = 0 /\ reader.len = 0 /\ reader.pos = 0
        /\ reader.newlines = 0 /\ reader.collected = <<>> /\ reader.lines = <<>>
        /\ reader \in Readers
    BY <1>1 DEF NotOpen, Readers
  <2>2. Newlines(<<>>) = 0
    <3>1. Newlines(<<>>) = Cardinality(Feeds(<<>>)) /\ Feeds(<<>>) \subseteq 1 .. 0
      BY <1>1, NewlinesIs
    <3>2. Feeds(<<>>) = {}
      BY <3>1
    <3> QED
      BY <3>1, <3>2, FS_EmptySet
  <2>3. Floor(reader) = 0
    BY <2>1, TailAssumption DEF Floor
  <2> QED
    BY <1>1, <2>1, <2>2, <2>3 DEF Collecting
<1>4. EndOfHeld
  BY DEF EndOfHeld, NotOpen
<1> QED
  BY <1>2, <1>3, <1>4 DEF Whole

\* What a chunk leaves is put behind what has been left.
LEMMA ChunkIsKept ==
  ASSUME StreamKept, Feed
  PROVE  /\ input' \in Seq(Classes) /\ source' = source
         /\ Kept(input', cleaner'.state, cleaner'.pending, out')
         /\ Extends(input', input) /\ Extends(Bytes(out'), Bytes(out))
         /\ out' \in Seq(Items)
<1>0. PICK n \in 1 .. MaxChunk : \E chunk \in [1 .. n -> source.classes] : Clean(chunk)
  BY DEF Feed
<1>1. PICK chunk \in [1 .. n -> source.classes] : Clean(chunk)
  BY <1>0
<1>2. chunk \in Seq(Classes)
  <2>1. source.classes \subseteq Classes
    BY CleanerAssumption DEF StreamKept
  <2>2. n \in Nat
    BY CleanerAssumption
  <2>3. chunk \in [1 .. n -> Classes]
    BY <2>1
  <2> QED
    BY <2>2, <2>3
<1> DEFINE f == [state |-> cleaner.state, pending |-> cleaner.pending,
                 out |-> <<>>, count |-> Len(input)]
           r == Fed(f, chunk)
<1>3. /\ input \in Seq(Classes) /\ Len(input) \in Nat /\ out \in Seq(Items)
      /\ Kept(input, cleaner.state, cleaner.pending, out)
      /\ cleaner.state \in States /\ cleaner.pending \in BOOLEAN
  <2>1. input \in Seq(Classes) /\ Kept(input, cleaner.state, cleaner.pending, out)
    BY DEF StreamKept
  <2>2. Len(input) \in Nat
    BY <2>1, LenProperties
  <2> QED
    BY <2>1, <2>2 DEF Kept, Ordered
<1>4. /\ f \in Filters /\ f.state = cleaner.state /\ f.pending = cleaner.pending
      /\ f.count = Len(input) /\ f.out = <<>>
  <2>1. <<>> \in Seq(Items)
    BY EmptySeq
  <2> QED
    BY <1>3, <2>1 DEF Filters
<1>5. /\ cleaner' = [state |-> r.state, pending |-> r.pending]
      /\ out' = out \o r.out /\ input' = input \o chunk /\ source' = source
  BY <1>1 DEF Clean
<1> HIDE DEF f
<1>6. r \in Filters /\ Kept(input \o chunk, r.state, r.pending, out \o r.out)
  BY <1>2, <1>3, <1>4, KeptByChunk
<1>7. r.out \in Seq(Items)
  BY <1>6 DEF Filters
<1> HIDE DEF r
<1>8. /\ input \o chunk \in Seq(Classes) /\ Len(input \o chunk) = Len(input) + Len(chunk)
      /\ Len(chunk) \in Nat
      /\ \A i \in 1 .. Len(input) + Len(chunk) :
           (input \o chunk)[i] = IF i <= Len(input) THEN input[i] ELSE chunk[i - Len(input)]
  BY <1>2, <1>3, ConcatProperties, LenProperties
<1>9. Extends(input \o chunk, input)
  BY <1>3, <1>8 DEF Extends
<1>10. /\ out \o r.out \in Seq(Items) /\ Len(out \o r.out) = Len(out) + Len(r.out)
       /\ Len(out) \in Nat /\ Len(r.out) \in Nat
       /\ \A i \in 1 .. Len(out) + Len(r.out) :
            (out \o r.out)[i] = IF i <= Len(out) THEN out[i] ELSE r.out[i - Len(out)]
  BY <1>3, <1>7, ConcatProperties, LenProperties
<1>11. Extends(Bytes(out \o r.out), Bytes(out))
  <2> DEFINE q == out \o r.out
  <2>1. /\ Len(Bytes(q)) = Len(q) /\ Len(Bytes(out)) = Len(out)
        /\ DOMAIN q = 1 .. Len(q) /\ DOMAIN out = 1 .. Len(out)
    BY <1>3, <1>10, BytesType, LenProperties
  <2>2. \A i \in 1 .. Len(out) : i \in 1 .. Len(q) /\ q[i] = out[i]
    BY <1>10
  <2>3. Len(out) <= Len(q)
    BY <1>10
  <2> HIDE DEF q
  <2>4. \A i \in 1 .. Len(out) : Bytes(q)[i] = q[i][1] /\ Bytes(out)[i] = out[i][1]
    BY <2>1, <2>2 DEF Bytes
  <2>5. Extends(Bytes(q), Bytes(out))
    BY <2>1, <2>2, <2>3, <2>4 DEF Extends
  <2> QED
    BY <2>5 DEF q
<1>12. cleaner'.state = r.state /\ cleaner'.pending = r.pending
  BY <1>5
<1> QED
  BY <1>5, <1>6, <1>8, <1>9, <1>10, <1>11, <1>12

LEMMA ExtendsOn ==
  ASSUME NEW u \in Seq(Classes), NEW v \in Seq(Classes), NEW w \in Seq(Classes),
         Extends(u, v), Extends(v, w)
  PROVE  Extends(u, w)
<1>1. Len(u) \in Nat /\ Len(v) \in Nat /\ Len(w) \in Nat
  BY LenProperties
<1>2. \A i \in 1 .. Len(w) : i \in 1 .. Len(v)
  BY <1>1 DEF Extends
<1> QED
  BY <1>1, <1>2 DEF Extends

LEMMA CaptureKeeps ==
  ASSUME Whole, CaptureReads
  PROVE  Whole'
<1> USE DEF CaptureReads
<1>1. StreamKept /\ Collecting /\ EndOfHeld
  BY DEF Whole
<1>2. /\ input' \in Seq(Classes) /\ source' = source
      /\ Kept(input', cleaner'.state, cleaner'.pending, out')
      /\ Extends(input', input) /\ Extends(Bytes(out'), Bytes(out))
      /\ out' \in Seq(Items)
  BY <1>1, ChunkIsKept
<1>3. reader' = reader /\ raw' = raw /\ opened' = opened /\ truncated' = truncated
  OBVIOUS
<1>4. StreamKept'
  BY <1>1, <1>2, <1>3 DEF StreamKept
<1>5. Collecting'
  BY <1>1, <1>3 DEF Collecting
<1>6. /\ Log = IF raw THEN input ELSE Bytes(out)
      /\ Log' = IF raw THEN input' ELSE Bytes(out')
  BY <1>3 DEF Log, CleanLog, Bytes
<1>7. /\ Log \in Seq(Classes) /\ Held \in Seq(Classes) /\ Held' = Held
      /\ Bytes(out') \in Seq(Classes)
  BY <1>1, <1>2, <1>3, LogType, BytesType DEF Held
<1>8. Log' \in Seq(Classes) /\ Extends(Log', Log)
  BY <1>2, <1>6, <1>7
<1>9. Extends(Log, Held) => Extends(Log', Held')
  BY <1>7, <1>8, ExtendsOn
<1>10. EndOfHeld'
  BY <1>1, <1>3, <1>7, <1>9 DEF EndOfHeld, Floor
<1> QED
  BY <1>4, <1>5, <1>10 DEF Whole

LEMMA OpenKeeps ==
  ASSUME Whole, OpenLog
  PROVE  Whole'
<1>1. StreamKept /\ Collecting /\ EndOfHeld
  BY DEF Whole
<1>2. PICK tail \in source.tails : Open(Log, tail)
  BY DEF OpenLog
<1>3. /\ cleaner' = cleaner /\ out' = out /\ input' = input /\ source' = source
      /\ raw' = raw /\ truncated' = truncated /\ opened' = input
  BY DEF OpenLog, cleanerVars
<1>4. tail \in Nat
  BY <1>1, CleanerAssumption DEF StreamKept
<1>5. /\ Log \in Seq(Classes) /\ Len(Log) \in Nat
      /\ Log = IF raw THEN input ELSE Text(input)
  BY <1>1, LogType, LenProperties
<1>6. Log' = Log /\ Held' = Log
  BY <1>3, <1>5 DEF Log, CleanLog, Held
<1>7. reader = NotOpen /\ ~truncated
  BY <1>1, <1>2 DEF Open, Collecting
<1>8. reader' = [reader EXCEPT !.at = "read", !.tail = tail,
                               !.len = Len(Log), !.pos = Len(Log)]
  BY <1>2 DEF Open
<1>9. /\ reader'.at = "read" /\ reader'.tail = tail /\ reader'.len = Len(Log)
      /\ reader'.pos = Len(Log) /\ reader'.newlines = reader.newlines
      /\ reader'.collected = reader.collected /\ reader'.lines = reader.lines
      /\ reader' \in Readers
  BY <1>1, <1>4, <1>5, <1>8 DEF Collecting, Readers
<1>10. reader.collected = <<>>
  BY <1>7 DEF NotOpen
<1>11. StreamKept'
  BY <1>1, <1>3 DEF StreamKept
<1>12. Collecting'
  <2>1. Floor(reader') <= reader'.len
    BY <1>5, <1>9, FloorIs
  <2>2. Len(<<>>) = 0 /\ reader.newlines = Newlines(reader.collected)
    BY <1>1, EmptySeq DEF Collecting
  <2>3. Floor(reader)' = Floor(reader')
    BY DEF Floor
  <2> QED
    BY <1>5, <1>9, <1>10, <2>1, <2>2, <2>3 DEF Collecting
<1>13. Suffix(Log, Len(Log)) = <<>>
  BY <1>5, SubSeqEmpty DEF Suffix
<1>14. Extends(Log, Log)
  BY <1>5 DEF Extends
<1>15. EndOfHeld'
  BY <1>6, <1>9, <1>10, <1>13, <1>14 DEF EndOfHeld
<1> QED
  BY <1>11, <1>12, <1>15 DEF Whole

LEMMA RestartKeeps ==
  ASSUME Whole, Restart
  PROVE  Whole'
<1>1. StreamKept /\ Collecting /\ EndOfHeld
  BY DEF Whole
<1>2. /\ reader' = reader /\ reader.at = "read" /\ truncated' = TRUE
      /\ source' = source /\ raw' = raw /\ opened' = opened
      /\ cleaner' = Fresh /\ out' = <<>> /\ input' = <<>>
  BY DEF Restart
<1>3. StreamKept'
  <2>1. cleaner'.state = "ground" /\ cleaner'.pending = FALSE
    BY <1>2 DEF Fresh
  <2>2. Kept(input', cleaner'.state, cleaner'.pending, out')
    BY <1>2, <2>1, KeptAtFirst
  <2>3. <<>> \in Seq(Classes)
    BY EmptySeq
  <2> QED
    BY <1>1, <1>2, <2>2, <2>3 DEF StreamKept
<1>4. Collecting'
  BY <1>1, <1>2 DEF Collecting
<1>5. EndOfHeld'
  BY <1>2 DEF EndOfHeld
<1> QED
  BY <1>3, <1>4, <1>5 DEF Whole

\* What a step of the reader leaves as it is.
LEMMA OnlyReads ==
  ASSUME Whole, ReaderSteps
  PROVE  /\ StreamKept' /\ Log' = Log /\ Held' = Held /\ truncated' = truncated
         /\ Log \in Seq(Classes) /\ Held \in Seq(Classes)
         /\ reader \in Readers
<1>1. StreamKept /\ Collecting /\ EndOfHeld
  BY DEF Whole
<1>2. /\ cleaner' = cleaner /\ out' = out /\ input' = input /\ source' = source
      /\ raw' = raw /\ truncated' = truncated /\ opened' = opened
  BY DEF ReaderSteps, cleanerVars
<1>3. StreamKept'
  BY <1>1, <1>2 DEF StreamKept
<1> QED
  BY <1>1, <1>2, <1>3, LogType DEF Log, CleanLog, Held, Collecting

\* An answer keeps the invariant when its lines are those of what is reached.
LEMMA AnswerKeeps ==
  ASSUME Whole, ReaderSteps, reader.at = "read",
         NEW lines \in Seq(Seq(Classes)), reader' = Answers(reader, lines),
         ~truncated => lines = TailLines(Suffix(Held, Floor(reader)), reader.tail)
  PROVE  Whole'
<1>1. Collecting /\ EndOfHeld
  BY DEF Whole
<1>2. /\ StreamKept' /\ Log' = Log /\ Held' = Held /\ truncated' = truncated
      /\ reader \in Readers
  BY OnlyReads
<1>3. /\ reader'.at = "done" /\ reader'.tail = reader.tail /\ reader'.len = reader.len
      /\ reader'.pos = reader.pos /\ reader'.newlines = reader.newlines
      /\ reader'.collected = reader.collected /\ reader'.lines = lines
      /\ reader' \in Readers
  BY <1>2 DEF Answers, Readers
<1>4. Floor(reader)' = Floor(reader)
  BY <1>3 DEF Floor
<1>5. Collecting'
  BY <1>1, <1>3, <1>4 DEF Collecting
<1>6. EndOfHeld'
  BY <1>1, <1>2, <1>3, <1>4 DEF EndOfHeld
<1> QED
  BY <1>2, <1>5, <1>6 DEF Whole

LEMMA NothingKeeps ==
  ASSUME Whole, ReaderSteps, NothingToRead
  PROVE  Whole'
<1>1. Collecting /\ EndOfHeld /\ reader \in Readers /\ Held \in Seq(Classes)
  BY OnlyReads DEF Whole
<1>2. /\ reader.at = "read" /\ (reader.len = 0 \/ reader.tail = 0)
      /\ reader' = Answers(reader, <<>>)
  BY DEF NothingToRead
<1>3. ASSUME ~truncated
      PROVE  <<>> = TailLines(Suffix(Held, Floor(reader)), reader.tail)
  <2> DEFINE s == Suffix(Held, Floor(reader))
             N == Cardinality(Begins(s))
  <2>1. /\ Len(Held) = reader.len /\ reader.len \in Nat /\ reader.tail \in Nat
    BY <1>1, <1>2, <1>3 DEF EndOfHeld, Readers
  <2>2. Floor(reader) \in 0 .. Len(Held)
    BY <2>1, FloorIs
  <2>3. s \in Seq(Classes) /\ Len(s) = Len(Held) - Floor(reader)
    BY <1>1, <2>2, SuffixIs
  <2> HIDE DEF s
  <2>4. N \in Nat /\ Begins(s) \subseteq 1 .. Len(s)
    BY <2>3, BeginsIn
  <2>5. reader.len = 0 => N = 0
    <3> HAVE reader.len = 0
    <3>1. Len(s) = 0
      BY <2>1, <2>2, <2>3
    <3>2. Begins(s) = {}
      BY <2>4, <3>1
    <3> QED
      BY <3>2, FS_EmptySet
  <2> HIDE DEF N
  <2>6. /\ TailLines(s, reader.tail) \in Seq(Seq(Classes))
        /\ Len(TailLines(s, reader.tail)) = Taken(N, reader.tail)
    BY <2>1, <2>3, <2>4, TailLinesIs DEF N
  <2>7. Taken(N, reader.tail) = 0
    BY <1>2, <2>1, <2>4, <2>5 DEF Taken
  <2>8. TailLines(s, reader.tail) = <<>>
    BY <2>6, <2>7, EmptySeq
  <2> QED
    BY <2>8 DEF s
<1>4. <<>> \in Seq(Seq(Classes))
  BY EmptySeq
<1> QED
  BY <1>2, <1>3, <1>4, AnswerKeeps

LEMMA FinishKeeps ==
  ASSUME Whole, ReaderSteps, Finish
  PROVE  Whole'
<1>1. Collecting /\ EndOfHeld /\ reader \in Readers /\ Held \in Seq(Classes)
  BY OnlyReads DEF Whole
<1>2. /\ reader.at = "read" /\ reader.len > 0 /\ reader.tail > 0 /\ ~More(reader)
      /\ reader' = Answers(reader, TailLines(reader.collected, reader.tail))
  BY DEF Finish
<1>3. /\ reader.collected \in Seq(Classes) /\ reader.tail \in Nat /\ reader.len \in Nat
      /\ reader.pos \in Nat
  BY <1>1 DEF Readers
<1>4. TailLines(reader.collected, reader.tail) \in Seq(Seq(Classes))
  <2>1. Cardinality(Begins(reader.collected)) \in Nat
    BY <1>3, BeginsIn
  <2> QED
    BY <1>3, <2>1, TailLinesIs
<1>5. ASSUME ~truncated
      PROVE  TailLines(reader.collected, reader.tail)
               = TailLines(Suffix(Held, Floor(reader)), reader.tail)
  <2> DEFINE f == Floor(reader)
             s == Suffix(Held, f)
  <2>1. /\ Len(Held) = reader.len /\ reader.collected = Suffix(Held, reader.pos)
    BY <1>1, <1>2, <1>5 DEF EndOfHeld
  <2>2. /\ f \in Nat /\ f <= reader.pos /\ reader.pos <= reader.len
        /\ reader.newlines = Newlines(reader.collected)
    BY <1>1, <1>3, FloorIs DEF Collecting
  <2>3. reader.pos - f = 0 \/ Newlines(reader.collected) > reader.tail
    BY <1>2, <1>3, <2>2 DEF More, Enough
  <2> HIDE DEF f
  <2>4. f \in 0 .. Len(Held) /\ reader.pos \in f .. Len(Held)
    BY <1>3, <2>1, <2>2
  <2>5. s \in Seq(Classes)
    BY <1>1, <2>4, SuffixIs
  <2>6. reader.pos - f \in 0 .. Len(s) /\ Suffix(s, reader.pos - f) = reader.collected
    BY <1>1, <2>1, <2>4, SuffixOfSuffix
  <2> HIDE DEF s
  <2>7. TailLines(Suffix(s, reader.pos - f), reader.tail) = TailLines(s, reader.tail)
    BY <1>3, <2>3, <2>5, <2>6, SameTail
  <2> QED
    BY <2>6, <2>7 DEF f, s
<1> QED
  BY <1>2, <1>4, <1>5, AnswerKeeps

LEMMA FailKeeps ==
  ASSUME Whole, ReaderSteps, ReadFails(Log)
  PROVE  Whole'
<1>1. Collecting /\ EndOfHeld
  BY DEF Whole
<1>2. /\ StreamKept' /\ Log' = Log /\ Held' = Held /\ truncated' = truncated
      /\ reader \in Readers /\ Log \in Seq(Classes) /\ Held \in Seq(Classes)
  BY OnlyReads
<1>3. /\ reader.at = "read" /\ reader.pos > Len(Log)
      /\ reader' = [reader EXCEPT !.at = "failed"]
  BY DEF ReadFails, More
<1>4. truncated
  <2> SUFFICES ASSUME ~truncated PROVE FALSE
    OBVIOUS
  <2>1. Len(Held) = reader.len /\ Extends(Log, Held)
    BY <1>1, <1>3 DEF EndOfHeld
  <2>2. Len(Held) <= Len(Log) /\ reader.pos <= reader.len
    BY <1>1, <2>1 DEF Extends, Collecting
  <2>3. Len(Log) \in Nat /\ reader.pos \in Nat /\ reader.len \in Nat
    BY <1>2, LenProperties DEF Readers
  <2> QED
    BY <1>3, <2>1, <2>2, <2>3
<1>5. /\ reader'.at = "failed" /\ reader'.tail = reader.tail /\ reader'.len = reader.len
      /\ reader'.pos = reader.pos /\ reader'.newlines = reader.newlines
      /\ reader'.collected = reader.collected /\ reader' \in Readers
  BY <1>2, <1>3 DEF Readers
<1>6. Floor(reader)' = Floor(reader)
  BY <1>5 DEF Floor
<1>7. Collecting'
  BY <1>1, <1>5, <1>6 DEF Collecting
<1>8. EndOfHeld'
  BY <1>2, <1>4 DEF EndOfHeld
<1> QED
  BY <1>2, <1>7, <1>8 DEF Whole

LEMMA BlockKeeps ==
  ASSUME Whole, ReaderSteps, ReadBlock(Log)
  PROVE  Whole'
<1> DEFINE size == ReadSize(reader)
           q == reader.pos - size
           block == SubSeq(Log, q + 1, reader.pos)
<1>1. Collecting /\ EndOfHeld
  BY DEF Whole
<1>2. /\ StreamKept' /\ Log' = Log /\ Held' = Held /\ truncated' = truncated
      /\ reader \in Readers /\ Log \in Seq(Classes) /\ Held \in Seq(Classes)
  BY OnlyReads
<1>3. /\ reader.at = "read" /\ reader.pos > Floor(reader) /\ reader.pos <= Len(Log)
      /\ reader' = [reader EXCEPT !.pos = @ - size, !.collected = block \o @,
                                  !.newlines = @ + Newlines(block)]
  BY DEF ReadBlock, More
<1>4. /\ reader.pos \in Nat /\ reader.len \in Nat /\ reader.newlines \in Nat
      /\ reader.collected \in Seq(Classes) /\ Floor(reader) \in Nat /\ Len(Log) \in Nat
  BY <1>2, FloorIs, LenProperties DEF Readers
<1>5. size \in Nat /\ size >= 1 /\ size <= reader.pos - Floor(reader)
  <2> DEFINE S == {BLOCK, reader.pos - Floor(reader)}
  <2>1. BLOCK \in Nat /\ BLOCK >= 1
    BY TailAssumption
  <2>2. reader.pos - Floor(reader) \in Nat /\ reader.pos - Floor(reader) >= 1
    BY <1>3, <1>4
  <2>3. S \subseteq Nat /\ S # {}
    BY <2>1, <2>2
  <2>4. Min(S) \in S /\ \A x \in S : Min(S) <= x
    <3> HIDE DEF S
    <3> QED
      BY <2>3, MinFacts
  <2>5. size = Min(S)
    BY DEF ReadSize
  <2> HIDE DEF size
  <2> QED
    BY <2>1, <2>2, <2>4, <2>5
<1> HIDE DEF size
<1>6. q \in Nat /\ Floor(reader) <= q /\ q < reader.pos /\ reader.pos - q = size
  BY <1>4, <1>5
<1>7. block \in Seq(Classes) /\ Len(block) = size
  <2>1. q + 1 \in 1 .. Len(Log) /\ reader.pos \in (q + 1) - 1 .. Len(Log)
    BY <1>3, <1>4, <1>6
  <2>2. reader.pos - (q + 1) + 1 = size
    BY <1>4, <1>6
  <2> HIDE DEF q
  <2> QED
    BY <1>2, <2>1, <2>2, PieceIs
<1>8. /\ block \o reader.collected \in Seq(Classes)
      /\ Len(block \o reader.collected) = size + Len(reader.collected)
      /\ Newlines(block \o reader.collected) = Newlines(block) + Newlines(reader.collected)
      /\ Newlines(block) \in Nat
  <2> HIDE DEF block
  <2> QED
    BY <1>4, <1>7, ConcatProperties, NewlinesOfConcat, NewlinesIs
<1>9. /\ reader'.at = "read" /\ reader'.tail = reader.tail /\ reader'.len = reader.len
      /\ reader'.pos = q /\ reader'.newlines = reader.newlines + Newlines(block)
      /\ reader'.collected = block \o reader.collected /\ reader'.lines = reader.lines
      /\ reader' \in Readers
  <2>1. reader.newlines + Newlines(block) \in Nat
    BY <1>4, <1>8
  <2>2. /\ q \in Nat /\ block \o reader.collected \in Seq(Classes)
        /\ reader' = [reader EXCEPT !.pos = q, !.collected = block \o reader.collected,
                                    !.newlines = reader.newlines + Newlines(block)]
    BY <1>3, <1>6, <1>8
  <2> HIDE DEF block, q
  <2> QED
    BY <1>2, <1>3, <2>1, <2>2 DEF Readers
<1>10. Floor(reader)' = Floor(reader)
  BY <1>9 DEF Floor
<1>11. Collecting'
  <2> HIDE DEF block, q
  <2>1. /\ Floor(reader) <= reader.pos /\ reader.pos <= reader.len
        /\ Len(reader.collected) = reader.len - reader.pos
        /\ reader.newlines = Newlines(reader.collected)
    BY <1>1 DEF Collecting
  <2>2. /\ q <= reader.len
        /\ size + Len(reader.collected) = reader.len - q
    <3> DEFINE p == reader.pos
               n == reader.len
               l == Len(reader.collected)
    <3>1. p \in Nat /\ n \in Nat /\ q \in Nat /\ p <= n /\ l = n - p /\ q < p /\ p - q = size
      BY <1>4, <1>6, <2>1
    <3> HIDE DEF p, n, l
    <3>2. q <= n /\ size + l = n - q
      BY <3>1
    <3> QED
      BY <3>2 DEF p, n, l
  <2>3. reader.newlines + Newlines(block) = Newlines(block \o reader.collected)
    BY <1>4, <1>8, <2>1
  <2> QED
    BY <1>6, <1>8, <1>9, <1>10, <2>2, <2>3 DEF Collecting
<1>12. EndOfHeld'
  <2> SUFFICES ASSUME ~truncated
               PROVE  /\ Len(Held) = reader.len /\ Extends(Log, Held)
                      /\ block \o reader.collected = Suffix(Held, q)
    BY <1>2, <1>9, <1>10 DEF EndOfHeld
  <2>1. /\ Len(Held) = reader.len /\ Extends(Log, Held)
        /\ reader.collected = Suffix(Held, reader.pos) /\ reader.pos <= reader.len
    BY <1>1, <1>3 DEF EndOfHeld, Collecting
  <2>2. reader.pos \in 0 .. Len(Held) /\ q \in 0 .. reader.pos
    BY <1>4, <1>6, <2>1
  <2>3. block \o Suffix(Held, reader.pos) = Suffix(Held, q)
    <3> HIDE DEF q
    <3> QED
      BY <1>2, <2>1, <2>2, BlockBefore
  <2> QED
    BY <2>1, <2>3
<1> QED
  BY <1>2, <1>11, <1>12 DEF Whole

LEMMA WholeKept == Whole /\ [Next]_vars => Whole'
<1> SUFFICES ASSUME Whole, [Next]_vars PROVE Whole'
  OBVIOUS
<1>1. CASE CaptureReads
  BY <1>1, CaptureKeeps
<1>2. CASE OpenLog
  BY <1>2, OpenKeeps
<1>3. CASE ReaderSteps
  BY <1>3, NothingKeeps, BlockKeeps, FailKeeps, FinishKeeps DEF ReaderSteps, Reads
<1>4. CASE Restart
  BY <1>4, RestartKeeps
<1>5. CASE UNCHANGED vars
  <2>1. /\ cleaner' = cleaner /\ out' = out /\ input' = input /\ source' = source
        /\ reader' = reader /\ raw' = raw /\ opened' = opened /\ truncated' = truncated
    BY <1>5 DEF vars, cleanerVars
  <2>2. StreamKept' <=> StreamKept
    BY <2>1 DEF StreamKept
  <2>3. Collecting' <=> Collecting
    BY <2>1 DEF Collecting
  <2>4. Log' = Log /\ Held' = Held
    BY <2>1 DEF Log, CleanLog, Held
  <2>5. EndOfHeld' <=> EndOfHeld
    BY <2>1, <2>4 DEF EndOfHeld
  <2> QED
    BY <2>2, <2>3, <2>5 DEF Whole
<1> QED
  BY <1>1, <1>2, <1>3, <1>4, <1>5 DEF Next

-----------------------------------------------------------------------------
(* Theorems *)

LEMMA WholeAlways == Spec => []Whole
BY WholeAtFirst, WholeKept, PTL DEF Spec

LEMMA CleanedWhenWhole == Whole => CleanedAsWhole
<1> SUFFICES ASSUME Whole PROVE CleanedAsWhole
  OBVIOUS
<1> QED
  BY LogType DEF Whole, CleanedAsWhole

LEMMA TypesWhenWhole == Whole => TypeOK
<1> SUFFICES ASSUME Whole PROVE TypeOK
  OBVIOUS
<1>1. CleanerTypeOK
  <2>1. /\ input \in Seq(Classes)
        /\ Kept(input, cleaner.state, cleaner.pending, out)
    BY DEF Whole, StreamKept
  <2>2. cleaner.state \in States
    BY <2>1 DEF Kept
  <2> QED
    BY <2>1, <2>2, KeptIsText DEF CleanerTypeOK, States
<1>2. /\ reader \in Readers /\ Floor(reader) <= reader.pos /\ reader.pos <= reader.len
      /\ Len(reader.collected) = reader.len - reader.pos
  BY DEF Whole, Collecting
<1>3. /\ reader.at \in {"open", "read", "done", "failed"}
      /\ reader.len \in Nat /\ reader.pos \in Nat
  BY <1>2 DEF Readers
<1>4. Len(reader.collected) <= MAX_BYTES
  <2>1. Floor(reader) \in Nat /\ reader.len - Floor(reader) <= MAX_BYTES
    BY <1>3, FloorIs
  <2> QED
    BY <1>2, <1>3, <2>1, TailAssumption
<1> QED
  BY <1>1, <1>2, <1>3, <1>4 DEF TypeOK

LEMMA TailWhenWhole == Whole => TailIsWhole
<1> SUFFICES ASSUME Whole, ~truncated
             PROVE  LET reach == SubSeq(Held, Floor(reader) + 1, reader.len)
                    IN  /\ reader.at # "failed"
                        /\ reader.at = "done" =>
                             /\ reader.lines = TailLines(reach, reader.tail)
                             /\ Newlines(reach) > reader.tail \/ Floor(reader) = 0 =>
                                  reader.lines = TailLines(Held, reader.tail)
  BY DEF TailIsWhole, Held
<1>1. StreamKept /\ Collecting /\ EndOfHeld
  BY DEF Whole
<1>2. Held \in Seq(Classes)
  BY <1>1, LogType
<1>3. CASE reader.at = "open"
  BY <1>3
<1>4. CASE reader.at # "open"
  <2>1. /\ Len(Held) = reader.len /\ reader.at # "failed"
        /\ reader.at = "done" =>
             reader.lines = TailLines(Suffix(Held, Floor(reader)), reader.tail)
    BY <1>1, <1>4 DEF EndOfHeld
  <2>2. reader.len \in Nat /\ reader.tail \in Nat
    BY <1>1 DEF Collecting, Readers
  <2>3. Floor(reader) \in 0 .. Len(Held)
    BY <2>1, <2>2, FloorIs
  <2>4. Newlines(Suffix(Held, Floor(reader))) > reader.tail \/ Floor(reader) = 0 =>
          TailLines(Suffix(Held, Floor(reader)), reader.tail) = TailLines(Held, reader.tail)
    BY <1>2, <2>2, <2>3, SameTail
  <2>5. SubSeq(Held, Floor(reader) + 1, reader.len) = Suffix(Held, Floor(reader))
    BY <2>1 DEF Suffix
  <2> QED
    BY <2>1, <2>4, <2>5
<1> QED
  BY <1>3, <1>4

\* The filter and the reader stay in their states: a CR is deferred only in text,
\* what is left is in the order of the stream, and the reader never goes back
\* further than MAX_BYTES, whatever the sizes of chunks, blocks and streams.
THEOREM TypeCorrect == Spec => []TypeOK
BY WholeAlways, TypesWhenWhole, PTL

\* However a stream of any length is split into reads of any size, the clean log
\* is at every moment the text of the bytes that have come.
THEOREM CleanLogIsText == Spec => []CleanedAsWhole
BY WholeAlways, CleanedWhenWhole, PTL

\* A read of either log, which grows meanwhile by any number of chunks, answers
\* with the last lines of what it held when it was opened, or of as much of it as
\* MAX_BYTES reaches; it fails only when a restart has truncated the log.
THEOREM TailsAreWhole == Spec => []TailIsWhole
BY WholeAlways, TailWhenWhole, PTL
=============================================================================
