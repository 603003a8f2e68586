-------------------------- MODULE IndexBuildProofs --------------------------
(***************************************************************************)
(* What holds of the batch index, for every number of workers, pages,      *)
(* terms and crashes, while the workers go on beside the build.            *)
(*                                                                         *)
(* Whatever they do, the index is aligned: the ranges that were assigned   *)
(* follow one another (RangesOk), every partial index has the documents of *)
(* its range and nothing else (PartialsInv), and the merge joins them.     *)
(*                                                                         *)
(* The rest needs workers with identities of their own, which all have as  *)
(* long as none has crashed: their parts are final and their fragments     *)
(* count them (FragmentInv, PromiseInv).  Then the catalog                 *)
(* says of every line of the corpus which part it is from (CatalogInv); a  *)
(* part is read once, with those of its owner (OnceReadInv); and a         *)
(* document that was declared is in the catalog or still to come           *)
(* (AwaitInv).  A build that no flush disturbs finds as many lines as the  *)
(* fragments count (QuietInv).                                             *)
(*                                                                         *)
(* The helpers of the model recurse over a sequence.  What they compute is *)
(* proved from two lemmas, UpTo and Recursion, which speak of a set of     *)
(* numbers and of the graph of a function where the induction theorems of  *)
(* the library take an operator.                                           *)
(***************************************************************************)
EXTENDS IndexBuild, ExtractWorkerProofs, WellFoundedInduction, NaturalsInduction

-----------------------------------------------------------------------------
(***************************************************************************)
(* Recursion over the length of a prefix.  An induction has a set for the  *)
(* numbers it is about, and a recursion a function for its step.           *)
(***************************************************************************)
\* What holds of zero and is passed on from one number to the next holds of
\* all of them.
LEMMA UpTo ==
    ASSUME NEW N \in Nat, NEW S, 0 \in S,
           \A n \in 1 .. N : n - 1 \in S => n \in S
    PROVE  0 .. N \subseteq S
<1> DEFINE R      == {ss \in Nat \X Nat : ss[1] < ss[2]}
           Others == (0 .. N) \ S
<1> SUFFICES ASSUME Others # {} PROVE FALSE
  OBVIOUS
<1>1. IsWellFoundedOn(R, Nat)
  BY NatLessThanWellFounded DEF OpToRel
<1>2. Others \subseteq Nat
  OBVIOUS
<1>3. \A m, n \in Nat : m < n => <<m, n>> \in R
  OBVIOUS
<1>4. PICK n \in Others : \A m \in Others : ~(<<m, n>> \in R)
  <2> HIDE DEF R, Others
  <2> QED
    BY <1>1, <1>2, WFMin
<1>5. n \in 1 .. N /\ n - 1 \in 0 .. N /\ n - 1 \in Nat /\ n \in Nat /\ n - 1 < n
  BY <1>4
<1>6. n - 1 \in S
  BY <1>3, <1>4, <1>5
<1> QED
  BY <1>4, <1>5, <1>6

\* Steps that stay in a set.
StepsIn(step, N, X) == \A n \in 1 .. N, x \in X : step[n][x] \in X

\* A function of the length of a prefix, each value from the one before.
IsRecursive(f, N, X, base, step) ==
    /\ f \in [0 .. N -> X] /\ f[0] = base
    /\ \A n \in 1 .. N : f[n] = step[n][f[n - 1]]

\* There is such a function, if every step stays in the set.
LEMMA Recursion ==
    ASSUME NEW N \in Nat, NEW X, NEW base \in X, NEW step, StepsIn(step, N, X)
    PROVE  \E f : IsRecursive(f, N, X, base, step)
<1> DEFINE Ok(f, m) == IsRecursive(f, m, X, base, step)
           S == {m \in 0 .. N : \E f : Ok(f, m)}
<1> USE DEF IsRecursive
<1>1. 0 \in S
  <2>1. PICK f : f = [n \in 0 .. 0 |-> base]
    OBVIOUS
  <2>2. 0 \in 0 .. 0 /\ 0 \in 0 .. N
    OBVIOUS
  <2>3. f \in [0 .. 0 -> X] /\ f[0] = base
    BY <2>1, <2>2
  <2>4. Ok(f, 0)
    BY <2>3
  <2> QED
    BY <2>2, <2>3, <2>4
<1>2. ASSUME NEW n \in 1 .. N, n - 1 \in S PROVE n \in S
  <2>1. PICK f : Ok(f, n - 1)
    BY <1>2
  <2>2. PICK g : g = [m \in 0 .. n |-> IF m = n THEN step[n][f[n - 1]] ELSE f[m]]
    OBVIOUS
  <2>3. n - 1 \in 0 .. n - 1 /\ n \in Nat /\ n # 0
    OBVIOUS
  <2>4. f[n - 1] \in X
    BY <2>1, <2>3
  <2>5. step[n][f[n - 1]] \in X
    BY <2>4 DEF StepsIn
  <2>6. \A m \in 0 .. n : m # n => m \in 0 .. n - 1
    BY <2>3
  <2>7. g \in [0 .. n -> X]
    BY <2>1, <2>2, <2>5, <2>6
  <2>8. \A m \in 0 .. n - 1 : g[m] = f[m]
    BY <2>2, <2>3
  <2>9. g[0] = base
    BY <2>1, <2>8
  <2>10. ASSUME NEW m \in 1 .. n PROVE g[m] = step[m][g[m - 1]]
    <3>1. m - 1 \in 0 .. n - 1 /\ g[m - 1] = f[m - 1]
      BY <2>8
    <3>2. CASE m = n
      <4>1. g[n] = step[n][f[n - 1]]
        BY <2>2, <2>3
      <4>2. g[n - 1] = f[n - 1]
        BY <2>3, <2>8
      <4> QED
        BY <3>2, <4>1, <4>2
    <3>3. CASE m # n
      BY <2>1, <2>8, <3>1, <3>3
    <3> QED
      BY <3>2, <3>3
  <2>11. Ok(g, n)
    BY <2>7, <2>9, <2>10
  <2> QED
    BY <2>7, <2>11
<1>3. N \in S
  <2> HIDE DEF S
  <2>1. 0 .. N \subseteq S
    BY <1>1, <1>2, UpTo
  <2> QED
    BY <2>1
<1> QED
  BY <1>3
-----------------------------------------------------------------------------
(***************************************************************************)
(* What is said of sequences and of ranges.                                *)
(***************************************************************************)
Ascending(s) == \A i, j \in DOMAIN s : i < j => s[i] < s[j]

\* Ranges follow one another from zero, and have as many doc_ids as their
\* owners have documents.
RangesOk(assigned, counts) ==
    /\ assigned \in Seq([owner: DOMAIN counts, start: Nat, end: Nat])
    /\ \A i \in DOMAIN assigned :
          /\ assigned[i].start < assigned[i].end
          /\ assigned[i].end = assigned[i].start + counts[assigned[i].owner]
          /\ assigned[i].start = IF i = 1 THEN 0 ELSE assigned[i - 1].end
    /\ \A i, j \in DOMAIN assigned :
          i < j => /\ assigned[i].end <= assigned[j].start
                   /\ assigned[i].owner # assigned[j].owner

-----------------------------------------------------------------------------
(***************************************************************************)
(* Sequences: what they have, and in which order.                          *)
(***************************************************************************)
\* The empty sequence has no element, ascends, and repeats nothing.
LEMMA EmptyRange == ToSet(<<>>) = {} /\ Ascending(<<>>) /\ IsInjective(<<>>)
BY DEF ToSet, Ascending, IsInjective

\* What a sequence has with one element more.
LEMMA AppendRange ==
    ASSUME NEW T, NEW s \in Seq(T), NEW e \in T
    PROVE  ToSet(Append(s, e)) = ToSet(s) \cup {e}
<1>1. DOMAIN s = 1 .. Len(s) /\ Len(s) \in Nat
  BY LenProperties
<1>2. /\ Append(s, e) \in Seq(T) /\ Len(Append(s, e)) = Len(s) + 1
      /\ \A i \in 1 .. Len(s) : Append(s, e)[i] = s[i]
      /\ Append(s, e)[Len(s) + 1] = e
  BY AppendProperties
<1>3. DOMAIN Append(s, e) = 1 .. Len(s) + 1
  BY <1>2, LenProperties
<1> QED
  BY <1>1, <1>2, <1>3 DEF ToSet

\* Whatever is put together is the one followed by the other.
LEMMA ConcatIs ==
    ASSUME NEW T, NEW s \in Seq(T), NEW u \in Seq(T)
    PROVE  /\ s \o u \in Seq(T) /\ Len(s) \in Nat /\ Len(u) \in Nat
           /\ DOMAIN s = 1 .. Len(s) /\ DOMAIN u = 1 .. Len(u)
           /\ DOMAIN (s \o u) = 1 .. Len(s) + Len(u) /\ Len(s \o u) = Len(s) + Len(u)
           /\ \A i \in 1 .. Len(s) : (s \o u)[i] = s[i]
           /\ \A i \in 1 .. Len(u) : (s \o u)[Len(s) + i] = u[i]
<1>1. /\ DOMAIN s = 1 .. Len(s) /\ Len(s) \in Nat
      /\ DOMAIN u = 1 .. Len(u) /\ Len(u) \in Nat
  BY LenProperties
<1>2. /\ s \o u \in Seq(T) /\ Len(s \o u) = Len(s) + Len(u)
      /\ \A i \in 1 .. Len(s) + Len(u) :
            (s \o u)[i] = IF i <= Len(s) THEN s[i] ELSE u[i - Len(s)]
  BY ConcatProperties
<1>3. DOMAIN (s \o u) = 1 .. Len(s) + Len(u)
  BY <1>2, LenProperties
<1>4. ASSUME NEW i \in 1 .. Len(s) PROVE (s \o u)[i] = s[i]
  BY <1>1, <1>2
<1>5. ASSUME NEW i \in 1 .. Len(u) PROVE (s \o u)[Len(s) + i] = u[i]
  <2>1. Len(s) + i \in 1 .. Len(s) + Len(u) /\ ~(Len(s) + i <= Len(s))
        /\ Len(s) + i - Len(s) = i
    BY <1>1
  <2> QED
    BY <1>2, <2>1
<1> QED
  BY <1>1, <1>2, <1>3, <1>4, <1>5

\* What two sequences have together.
LEMMA ConcatRange ==
    ASSUME NEW T, NEW s \in Seq(T), NEW u \in Seq(T)
    PROVE  ToSet(s \o u) = ToSet(s) \cup ToSet(u)
<1>1. \A i \in 1 .. Len(s) + Len(u) :
          (s \o u)[i] = IF i <= Len(s) THEN s[i] ELSE u[i - Len(s)]
  BY ConcatProperties
<1>2. ASSUME NEW x \in ToSet(s \o u) PROVE x \in ToSet(s) \cup ToSet(u)
  <2>1. PICK i \in 1 .. Len(s) + Len(u) : x = (s \o u)[i]
    BY ConcatIs DEF ToSet
  <2>2. i \in 1 .. Len(s) \/ i - Len(s) \in 1 .. Len(u)
    BY ConcatIs
  <2>3. CASE i \in 1 .. Len(s)
    BY <2>1, <2>3, ConcatIs DEF ToSet
  <2>4. CASE i - Len(s) \in 1 .. Len(u)
    <3>1. PICK j \in 1 .. Len(u) : j = i - Len(s)
      BY <2>4
    <3>2. i = Len(s) + j
      BY <3>1, ConcatIs
    <3>3. x = u[j]
      BY <2>1, <3>2, ConcatIs
    <3> QED
      BY <3>3, ConcatIs DEF ToSet
  <2> QED
    BY <2>2, <2>3, <2>4
<1>3. ToSet(s) \subseteq ToSet(s \o u)
  <2> SUFFICES ASSUME NEW i \in DOMAIN s PROVE \E j \in DOMAIN (s \o u) : (s \o u)[j] = s[i]
    BY DEF ToSet
  <2>1. i \in DOMAIN (s \o u) /\ (s \o u)[i] = s[i]
    BY ConcatIs
  <2> QED
    BY <2>1
<1>4. ToSet(u) \subseteq ToSet(s \o u)
  <2> SUFFICES ASSUME NEW i \in DOMAIN u PROVE \E j \in DOMAIN (s \o u) : (s \o u)[j] = u[i]
    BY DEF ToSet
  <2>1. i \in 1 .. Len(u)
    BY ConcatIs
  <2>2. Len(s) + i \in DOMAIN (s \o u)
    BY <2>1, ConcatIs
  <2> QED
    BY <2>1, <2>2, ConcatIs
<1> QED
  BY <1>2, <1>3, <1>4

\* One ascending list after another that begins above it.
LEMMA ConcatAscends ==
    ASSUME NEW s \in Seq(Nat), NEW u \in Seq(Nat), Ascending(s), Ascending(u),
           \A x \in ToSet(s), y \in ToSet(u) : x < y
    PROVE  Ascending(s \o u)
<1> SUFFICES ASSUME NEW i \in DOMAIN (s \o u), NEW j \in DOMAIN (s \o u), i < j
             PROVE  (s \o u)[i] < (s \o u)[j]
  BY DEF Ascending
<1>1. /\ i \in 1 .. Len(s) + Len(u) /\ j \in 1 .. Len(s) + Len(u)
      /\ Len(s) \in Nat /\ Len(u) \in Nat
      /\ DOMAIN s = 1 .. Len(s) /\ DOMAIN u = 1 .. Len(u)
  BY ConcatIs
<1>2. /\ (s \o u)[i] = IF i <= Len(s) THEN s[i] ELSE u[i - Len(s)]
      /\ (s \o u)[j] = IF j <= Len(s) THEN s[j] ELSE u[j - Len(s)]
  BY <1>1, ConcatProperties
<1>3. CASE j <= Len(s)
  <2>1. i \in DOMAIN s /\ j \in DOMAIN s /\ i <= Len(s)
    BY <1>1, <1>3
  <2> QED
    BY <1>2, <1>3, <2>1 DEF Ascending
<1>4. CASE i <= Len(s) /\ ~(j <= Len(s))
  <2>1. i \in DOMAIN s /\ j - Len(s) \in DOMAIN u
    BY <1>1, <1>4
  <2>2. s[i] \in ToSet(s) /\ u[j - Len(s)] \in ToSet(u)
    BY <2>1 DEF ToSet
  <2> QED
    BY <1>2, <1>4, <2>2
<1>5. CASE ~(i <= Len(s)) /\ ~(j <= Len(s))
  <2>1. i - Len(s) \in DOMAIN u /\ j - Len(s) \in DOMAIN u /\ i - Len(s) < j - Len(s)
    BY <1>1, <1>5
  <2> QED
    BY <1>2, <1>5, <2>1 DEF Ascending
<1>6. i <= Len(s) \/ ~(j <= Len(s))
  BY <1>1
<1> QED
  BY <1>3, <1>4, <1>5, <1>6

\* What SelectIn selects, and that it keeps the order.
LEMMA SelectInIs ==
    ASSUME NEW T, NEW seq \in Seq(T), NEW S
    PROVE  /\ SelectIn(seq, S) \in Seq(T \cap S)
           /\ ToSet(SelectIn(seq, S)) = ToSet(seq) \cap S
           /\ T \subseteq Nat /\ Ascending(seq) => Ascending(SelectIn(seq, S))
<1>1. PICK N \in Nat : N = Len(seq) /\ DOMAIN seq = 1 .. N /\ \A n \in 1 .. N : seq[n] \in T
  BY LenProperties, ElementOfSeq
<1> DEFINE Value(f, n) == IF n = 0 THEN <<>>
                          ELSE IF seq[n] \in S THEN Append(f[n - 1], seq[n])
                          ELSE f[n - 1]
           Selected == CHOOSE f : f = [n \in 0 .. N |-> Value(f, n)]
<1>2. PICK f : f = Selected
  OBVIOUS
<1>3. SelectIn(seq, S) = f[N]
  BY <1>1, <1>2 DEF SelectIn
<1>4. f = [n \in 0 .. N |-> Value(f, n)]
  <2>1. PICK step : step = [n \in 1 .. N |-> [x \in Seq(T) |->
                              IF seq[n] \in S THEN Append(x, seq[n]) ELSE x]]
    OBVIOUS
  <2>2. \A n \in 1 .. N, x \in Seq(T) :
            /\ step[n][x] = IF seq[n] \in S THEN Append(x, seq[n]) ELSE x
            /\ step[n][x] \in Seq(T)
    BY <1>1, <2>1, AppendProperties
  <2>3. <<>> \in Seq(T)
    BY EmptySeq
  <2>4. PICK g : IsRecursive(g, N, Seq(T), <<>>, step)
    BY <2>2, <2>3, Recursion DEF StepsIn
  <2>5. \A n \in 1 .. N : g[n - 1] \in Seq(T)
    BY <2>4 DEF IsRecursive
  <2>6. \A n \in 0 .. N : n # 0 => n \in 1 .. N
    OBVIOUS
  <2>7. \A n \in 0 .. N : g[n] = Value(g, n)
    BY <2>2, <2>4, <2>5, <2>6 DEF IsRecursive
  <2>8. g = [n \in 0 .. N |-> Value(g, n)]
    BY <2>4, <2>7 DEF IsRecursive
  <2> HIDE DEF Value
  <2> QED
    BY <1>2, <2>8
<1>5. /\ f[0] = <<>>
      /\ \A n \in 1 .. N : f[n] = IF seq[n] \in S THEN Append(f[n - 1], seq[n]) ELSE f[n - 1]
  <2>1. \A n \in 0 .. N : f[n] = Value(f, n)
    BY <1>4
  <2>2. 0 \in 0 .. N /\ \A n \in 1 .. N : n \in 0 .. N /\ n # 0
    OBVIOUS
  <2> QED
    BY <2>1, <2>2
<1> HIDE DEF Value, Selected
<1> DEFINE Ok(n) == /\ f[n] \in Seq(T \cap S)
                    /\ ToSet(f[n]) = {seq[i] : i \in 1 .. n} \cap S
                    /\ T \subseteq Nat /\ Ascending(seq) => Ascending(f[n])
           Good  == {n \in 0 .. N : Ok(n)}
<1>6. Ok(0)
  BY <1>5, EmptyRange, EmptySeq
<1>7. ASSUME NEW n \in 1 .. N, n - 1 \in Good PROVE Ok(n)
  <2>1. Ok(n - 1)
    BY <1>7
  <2>2. 1 .. n = 1 .. n - 1 \cup {n}
    OBVIOUS
  <2>3. CASE seq[n] \notin S
    BY <1>5, <2>1, <2>2, <2>3
  <2>4. CASE seq[n] \in S
    <3>1. f[n] = Append(f[n - 1], seq[n]) /\ seq[n] \in T \cap S
      BY <1>1, <1>5, <2>4
    <3>2. f[n] \in Seq(T \cap S)
      BY <2>1, <3>1, AppendProperties
    <3>3. ToSet(f[n]) = ToSet(f[n - 1]) \cup {seq[n]}
      BY <2>1, <3>1, AppendRange
    <3>4. ASSUME T \subseteq Nat, Ascending(seq) PROVE Ascending(f[n])
      <4>1. f[n - 1] \in Seq(Nat) /\ <<seq[n]>> \in Seq(Nat) /\ seq[n] \in Nat
        <5>1. T \cap S \subseteq Nat /\ seq[n] \in Nat
          BY <3>1, <3>4
        <5>2. f[n - 1] \in Seq(Nat)
          BY <2>1, <5>1, SeqMonotonic
        <5> QED
          BY <5>1, <5>2
      <4>2. f[n] = f[n - 1] \o <<seq[n]>>
        BY <3>1, <4>1, AppendIsConcat
      <4>3. Ascending(<<seq[n]>>) /\ ToSet(<<seq[n]>>) = {seq[n]}
        BY DEF Ascending, ToSet
      <4>4. \A x \in ToSet(f[n - 1]) : x < seq[n]
        BY <1>1, <2>1, <3>4 DEF Ascending
      <4> QED
        BY <2>1, <3>4, <4>1, <4>2, <4>3, <4>4, ConcatAscends
    <3> QED
      BY <2>1, <2>2, <2>4, <3>2, <3>3, <3>4
  <2> QED
    BY <2>3, <2>4
<1>8. Ok(N)
  <2> HIDE DEF Ok
  <2>1. 0 \in Good /\ \A n \in 1 .. N : n - 1 \in Good => n \in Good
    <3>1. \A n \in 1 .. N : n \in 0 .. N
      OBVIOUS
    <3> QED
      BY <1>6, <1>7, <3>1
  <2>2. \A n \in Good : Ok(n)
    OBVIOUS
  <2> HIDE DEF Good
  <2>3. 0 .. N \subseteq Good
    BY <2>1, UpTo
  <2> QED
    BY <2>2, <2>3
<1> QED
  BY <1>1, <1>3, <1>8 DEF ToSet

\* Lists that ascend, each above the one before, make one that ascends.
LEMMA FlattenIs ==
    ASSUME NEW seqs \in Seq(Seq(Nat)),
           \A i \in DOMAIN seqs : Ascending(seqs[i]),
           \A i, j \in DOMAIN seqs :
              i < j => \A x \in ToSet(seqs[i]), y \in ToSet(seqs[j]) : x < y
    PROVE  /\ FlattenSeq(seqs) \in Seq(Nat)
           /\ Ascending(FlattenSeq(seqs))
           /\ ToSet(FlattenSeq(seqs)) = UNION {ToSet(seqs[i]) : i \in DOMAIN seqs}
<1>1. PICK N \in Nat : N = Len(seqs) /\ DOMAIN seqs = 1 .. N
                       /\ \A n \in 1 .. N : seqs[n] \in Seq(Nat)
  BY LenProperties, ElementOfSeq
<1> DEFINE Value(f, n) == IF n = 1 THEN seqs[n] ELSE f[n - 1] \o seqs[n]
           Flat        == CHOOSE f : f = [n \in 1 .. N |-> Value(f, n)]
<1>2. PICK f : f = Flat
  OBVIOUS
<1>3. FlattenSeq(seqs) = IF N = 0 THEN seqs ELSE f[N]
  BY <1>1, <1>2 DEF FlattenSeq
<1>4. f = [n \in 1 .. N |-> Value(f, n)]
  <2>1. PICK step : step = [n \in 1 .. N |-> [x \in Seq(Nat) |-> x \o seqs[n]]]
    OBVIOUS
  <2>2. \A n \in 1 .. N, x \in Seq(Nat) :
            step[n][x] = x \o seqs[n] /\ step[n][x] \in Seq(Nat)
    BY <1>1, <2>1, ConcatProperties
  <2>3. <<>> \in Seq(Nat)
    BY EmptySeq
  <2>4. PICK g : IsRecursive(g, N, Seq(Nat), <<>>, step)
    BY <2>2, <2>3, Recursion DEF StepsIn
  <2>5. \A n \in 1 .. N : g[n] = g[n - 1] \o seqs[n] /\ g[n - 1] \in Seq(Nat)
    <3> SUFFICES ASSUME NEW n \in 1 .. N
                 PROVE  g[n] = g[n - 1] \o seqs[n] /\ g[n - 1] \in Seq(Nat)
      OBVIOUS
    <3>1. n - 1 \in 0 .. N
      OBVIOUS
    <3>2. g \in [0 .. N -> Seq(Nat)] /\ g[n] = step[n][g[n - 1]]
      BY <2>4 DEF IsRecursive
    <3>3. g[n - 1] \in Seq(Nat)
      BY <3>1, <3>2
    <3> QED
      BY <2>2, <3>2, <3>3
  <2>6. PICK h : h = [n \in 1 .. N |-> g[n]]
    OBVIOUS
  <2>7. ASSUME NEW n \in 1 .. N PROVE g[n] = Value(h, n)
    <3>1. CASE n = 1
      <4>1. g[0] = <<>> /\ n - 1 = 0
        BY <2>4, <3>1 DEF IsRecursive
      <4>2. g[n] = g[0] \o seqs[n]
        BY <2>5, <4>1
      <4>3. seqs[n] \in Seq(Nat)
        BY <1>1
      <4>4. g[n] = seqs[n]
        BY <4>1, <4>2, <4>3, ConcatEmptySeq
      <4> QED
        BY <3>1, <4>4
    <3>2. CASE n # 1
      <4>1. n - 1 \in 1 .. N
        BY <3>2
      <4> QED
        BY <2>5, <2>6, <3>2, <4>1
    <3> QED
      BY <3>1, <3>2
  <2>8. h = [n \in 1 .. N |-> Value(h, n)]
    BY <2>6, <2>7
  <2> HIDE DEF Value
  <2> QED
    BY <1>2, <2>8
<1>5. \A n \in 1 .. N : f[n] = IF n = 1 THEN seqs[n] ELSE f[n - 1] \o seqs[n]
  <2>1. \A n \in 1 .. N : f[n] = Value(f, n)
    BY <1>4
  <2> QED
    BY <2>1
<1> HIDE DEF Value, Flat
<1> DEFINE Ok(n) == /\ f[n] \in Seq(Nat) /\ Ascending(f[n])
                    /\ ToSet(f[n]) = UNION {ToSet(seqs[i]) : i \in 1 .. n}
           Good  == {n \in 0 .. N : n = 0 \/ Ok(n)}
<1>6. ASSUME NEW n \in 1 .. N, n - 1 \in Good PROVE Ok(n)
  <2>1. CASE n = 1
    <3>1. f[n] = seqs[n] /\ seqs[n] \in Seq(Nat) /\ Ascending(seqs[n])
      BY <1>1, <1>5, <2>1
    <3>2. 1 .. n = {n}
      BY <2>1
    <3>3. UNION {ToSet(seqs[i]) : i \in 1 .. n} = ToSet(seqs[n])
      BY <3>2
    <3> QED
      BY <3>1, <3>3
  <2>2. CASE n # 1
    <3>1. Ok(n - 1) /\ f[n] = f[n - 1] \o seqs[n] /\ n - 1 \in 1 .. N
      <4>1. n - 1 \in 1 .. N /\ n - 1 # 0
        BY <2>2
      <4>2. f[n] = f[n - 1] \o seqs[n]
        BY <1>5, <2>2
      <4>3. Ok(n - 1)
        <5> HIDE DEF Ok
        <5> QED
          BY <1>6, <4>1
      <4> QED
        BY <4>1, <4>2, <4>3
    <3>2. PICK before, one : before = f[n - 1] /\ one = seqs[n]
      OBVIOUS
    <3>3. before \in Seq(Nat) /\ one \in Seq(Nat) /\ Ascending(before) /\ Ascending(one)
      BY <1>1, <3>1, <3>2
    <3>4. ASSUME NEW x \in ToSet(before), NEW y \in ToSet(one) PROVE x < y
      <4>1. PICK i \in 1 .. n - 1 : x \in ToSet(seqs[i])
        BY <3>1, <3>2, <3>4
      <4>2. i \in DOMAIN seqs /\ n \in DOMAIN seqs /\ i < n
        BY <1>1
      <4> QED
        BY <3>2, <3>4, <4>1, <4>2
    <3>5. before \o one \in Seq(Nat) /\ Ascending(before \o one)
      BY <3>3, <3>4, ConcatAscends, ConcatProperties
    <3>6. ToSet(before \o one) = ToSet(before) \cup ToSet(one)
      BY <3>3, ConcatRange
    <3>7. 1 .. n = (1 .. n - 1) \cup {n}
      OBVIOUS
    <3>8. ToSet(f[n - 1]) = UNION {ToSet(seqs[i]) : i \in 1 .. n - 1}
      BY <3>1
    <3>9. ToSet(f[n - 1]) \cup ToSet(seqs[n]) = UNION {ToSet(seqs[i]) : i \in 1 .. n}
      BY <3>7, <3>8
    <3> QED
      BY <3>1, <3>2, <3>5, <3>6, <3>9
  <2> QED
    BY <2>1, <2>2
<1>7. N # 0 => Ok(N)
  <2> HIDE DEF Ok
  <2>1. 0 \in Good /\ \A n \in 1 .. N : n - 1 \in Good => n \in Good
    <3>1. \A n \in 1 .. N : n \in 0 .. N
      OBVIOUS
    <3> QED
      BY <1>6, <3>1
  <2>2. \A n \in Good : n = 0 \/ Ok(n)
    OBVIOUS
  <2> HIDE DEF Good
  <2>3. 0 .. N \subseteq Good
    BY <2>1, UpTo
  <2> QED
    BY <2>2, <2>3
<1>8. CASE N = 0
  <2>1. seqs = <<>>
    BY <1>1, <1>8, EmptySeq
  <2>2. {ToSet(seqs[i]) : i \in DOMAIN seqs} = {}
    BY <1>1, <1>8
  <2> QED
    BY <1>3, <1>8, <2>1, <2>2, EmptyRange, EmptySeq
<1>9. CASE N # 0
  BY <1>1, <1>3, <1>7, <1>9
<1> QED
  BY <1>8, <1>9

-----------------------------------------------------------------------------
(***************************************************************************)
(* The ranges that are assigned.                                           *)
(***************************************************************************)
OwnersOf(assigned) == {assigned[i].owner : i \in DOMAIN assigned}

\* The next doc_id is the end of the last range, or zero.
LEMMA NextDocIdIs ==
    ASSUME NEW D, NEW s \in Seq([owner: D, start: Nat, end: Nat])
    PROVE  /\ NextDocId(s) \in Nat
           /\ NextDocId(s) = IF s = <<>> THEN 0 ELSE s[Len(s)].end
           /\ s # <<>> => Len(s) \in DOMAIN s
<1>1. CASE s = <<>>
  BY <1>1 DEF NextDocId
<1>2. CASE s # <<>>
  <2>1. Len(s) \in DOMAIN s /\ Len(s) \in 1 .. Len(s)
    <3>1. DOMAIN s = 1 .. Len(s) /\ Len(s) \in Nat
      BY LenProperties
    <3>2. Len(s) # 0
      BY <1>2, EmptySeq
    <3> QED
      BY <3>1, <3>2
  <2>2. s[Len(s)] \in [owner: D, start: Nat, end: Nat]
    BY <2>1, ElementOfSeq
  <2> QED
    BY <1>2, <2>1, <2>2 DEF NextDocId
<1> QED
  BY <1>1, <1>2

\* No ranges are a beginning.
LEMMA EmptyRangesOk == ASSUME NEW counts PROVE RangesOk(<<>>, counts) /\ OwnersOf(<<>>) = {}
BY EmptySeq DEF RangesOk, OwnersOf

\* One more range, for another owner.
LEMMA OneMoreRange ==
    ASSUME NEW D, NEW counts \in [D -> Nat], NEW s, RangesOk(s, counts),
           NEW o \in D, counts[o] > 0, o \notin OwnersOf(s)
    PROVE  LET start == NextDocId(s)
               more  == Append(s, [owner |-> o, start |-> start, end |-> start + counts[o]])
           IN  RangesOk(more, counts) /\ OwnersOf(more) = OwnersOf(s) \cup {o}
<1> DEFINE T == [owner: D, start: Nat, end: Nat]
<1>1. s \in Seq(T) /\ DOMAIN counts = D
  BY DEF RangesOk
<1>2. PICK N \in Nat : N = Len(s) /\ DOMAIN s = 1 .. N /\ \A i \in 1 .. N : s[i] \in T
  BY <1>1, LenProperties, ElementOfSeq
<1>3. PICK start \in Nat : start = NextDocId(s)
  BY <1>1, NextDocIdIs
<1>4. PICK c \in Nat : c = counts[o] /\ c > 0
  OBVIOUS
<1>5. PICK r \in T : r = [owner |-> o, start |-> start, end |-> start + c]
  <2>1. PICK end \in Nat : end = start + c
    OBVIOUS
  <2>2. [owner |-> o, start |-> start, end |-> end] \in T
    OBVIOUS
  <2> QED
    BY <2>1, <2>2
<1>6. /\ r.owner = o /\ r.start = start /\ r.end = start + c
  BY <1>5
<1>7. PICK more : more = Append(s, r)
  OBVIOUS
<1>8. /\ more \in Seq(T) /\ Len(more) = N + 1
      /\ \A i \in 1 .. N : more[i] = s[i]
      /\ more[N + 1] = r
  BY <1>1, <1>2, <1>7, AppendProperties
<1>9. DOMAIN more = 1 .. N + 1 /\ 1 .. N + 1 = (1 .. N) \cup {N + 1}
  BY <1>2, <1>8, LenProperties
<1>10. /\ N = 0 => start = 0
       /\ N # 0 => N \in 1 .. N /\ start = s[N].end
  <2>1. N = 0 <=> s = <<>>
    BY <1>1, <1>2, EmptySeq
  <2> QED
    BY <1>1, <1>2, <1>3, <2>1, NextDocIdIs
<1>11. ASSUME NEW i \in 1 .. N PROVE s[i].end <= start /\ s[i].owner # o
  <2>1. N \in 1 .. N /\ start = s[N].end /\ N # 0
    BY <1>10
  <2>2. s[i].end \in Nat /\ s[N].end \in Nat /\ s[N].start \in Nat
    BY <1>2, <2>1
  <2>3. s[N].start < s[N].end
    BY <1>2, <2>1 DEF RangesOk
  <2>4. i < N => s[i].end <= s[N].start
    BY <1>2, <2>1 DEF RangesOk
  <2>5. i < N \/ i = N
    BY <1>2
  <2>6. s[i].end <= start
    BY <2>1, <2>2, <2>3, <2>4, <2>5
  <2> QED
    BY <1>2, <2>6 DEF OwnersOf
<1>12. ASSUME NEW i \in DOMAIN more
       PROVE  /\ more[i].start < more[i].end
              /\ more[i].end = more[i].start + counts[more[i].owner]
              /\ more[i].start = IF i = 1 THEN 0 ELSE more[i - 1].end
  <2>1. CASE i \in 1 .. N
    <3>1. more[i] = s[i] /\ (i # 1 => more[i - 1] = s[i - 1])
      <4>1. i # 1 => i - 1 \in 1 .. N
        BY <2>1
      <4> QED
        BY <1>8, <2>1, <4>1
    <3>2. /\ s[i].start < s[i].end
          /\ s[i].end = s[i].start + counts[s[i].owner]
          /\ s[i].start = IF i = 1 THEN 0 ELSE s[i - 1].end
      BY <1>2, <2>1 DEF RangesOk
    <3> QED
      BY <3>1, <3>2
  <2>2. CASE i = N + 1
    <3>1. more[i].start = start /\ more[i].end = start + c /\ more[i].owner = o
      BY <1>6, <1>8, <2>2
    <3>2. start = IF i = 1 THEN 0 ELSE more[i - 1].end
      <4>1. CASE N = 0
        BY <1>10, <2>2, <4>1
      <4>2. CASE N # 0
        <5>1. i # 1 /\ i - 1 = N /\ more[N] = s[N]
          BY <1>2, <1>8, <2>2, <4>2
        <5> QED
          BY <1>10, <4>2, <5>1
      <4> QED
        BY <4>1, <4>2
    <3> QED
      BY <1>4, <3>1, <3>2
  <2> QED
    BY <1>9, <2>1, <2>2
<1>13. ASSUME NEW i \in DOMAIN more, NEW j \in DOMAIN more, i < j
       PROVE  more[i].end <= more[j].start /\ more[i].owner # more[j].owner
  <2>1. CASE j \in 1 .. N
    <3>1. i \in 1 .. N
      BY <1>9, <1>13, <2>1
    <3>2. more[i] = s[i] /\ more[j] = s[j]
      BY <1>8, <2>1, <3>1
    <3>3. i \in DOMAIN s /\ j \in DOMAIN s
      BY <1>2, <2>1, <3>1
    <3>4. s[i].end <= s[j].start /\ s[i].owner # s[j].owner
      BY <1>13, <3>3 DEF RangesOk
    <3> QED
      BY <3>2, <3>4
  <2>2. CASE j = N + 1
    <3>1. i \in 1 .. N
      BY <1>9, <1>13, <2>2
    <3> QED
      BY <1>6, <1>8, <1>11, <2>2, <3>1
  <2> QED
    BY <1>9, <2>1, <2>2
<1>14. RangesOk(more, counts)
  BY <1>1, <1>8, <1>12, <1>13 DEF RangesOk
<1>15. OwnersOf(more) = OwnersOf(s) \cup {o}
  <2>1. OwnersOf(more) = {more[i].owner : i \in 1 .. N} \cup {more[N + 1].owner}
    BY <1>9 DEF OwnersOf
  <2>2. OwnersOf(s) = {s[i].owner : i \in 1 .. N}
    BY <1>2 DEF OwnersOf
  <2>3. {more[i].owner : i \in 1 .. N} = OwnersOf(s)
    BY <1>8, <2>2
  <2>4. more[N + 1].owner = o
    BY <1>6, <1>8
  <2> QED
    BY <2>1, <2>3, <2>4
<1> QED
  BY <1>3, <1>4, <1>5, <1>7, <1>14, <1>15

\* What AssignRanges assigns: adjacent ranges, to every key that has documents.
LEMMA AssignRangesIs ==
    ASSUME NEW T, NEW order \in Seq(T), IsInjective(order), NEW D, NEW counts \in [D -> Nat]
    PROVE  /\ RangesOk(AssignRanges(order, counts), counts)
           /\ OwnersOf(AssignRanges(order, counts)) =
                 {o \in ToSet(order) \cap D : counts[o] > 0}
<1> DEFINE X == Seq([owner: D, start: Nat, end: Nat])
           More(o, x) == IF o \in DOMAIN counts /\ counts[o] > 0
                         THEN Append(x, [owner |-> o, start |-> NextDocId(x),
                                         end |-> NextDocId(x) + counts[o]])
                         ELSE x
<1>1. PICK N \in Nat : N = Len(order) /\ DOMAIN order = 1 .. N
  BY LenProperties
<1> DEFINE Value(f, n) == IF n = 0 THEN <<>> ELSE More(order[n], f[n - 1])
           Assigned    == CHOOSE f : f = [n \in 0 .. N |-> Value(f, n)]
<1>2. PICK f : f = Assigned
  OBVIOUS
<1>3. AssignRanges(order, counts) = f[N]
  BY <1>1, <1>2 DEF AssignRanges
<1>4. f = [n \in 0 .. N |-> Value(f, n)]
  <2>1. PICK step : step = [n \in 1 .. N |-> [x \in X |-> More(order[n], x)]]
    OBVIOUS
  <2>2. \A o, x : x \in X => More(o, x) \in X
    <3> SUFFICES ASSUME NEW o, NEW x \in X PROVE More(o, x) \in X
      OBVIOUS
    <3>1. CASE o \in DOMAIN counts /\ counts[o] > 0
      <4>1. NextDocId(x) \in Nat /\ o \in D /\ counts[o] \in Nat
        BY <3>1, NextDocIdIs
      <4>2. PICK r \in [owner: D, start: Nat, end: Nat] :
               r = [owner |-> o, start |-> NextDocId(x), end |-> NextDocId(x) + counts[o]]
        <5>1. PICK start \in Nat, end \in Nat :
                 start = NextDocId(x) /\ end = NextDocId(x) + counts[o]
          BY <4>1
        <5>2. [owner |-> o, start |-> start, end |-> end] \in
                 [owner: D, start: Nat, end: Nat]
          BY <4>1
        <5> QED
          BY <5>1, <5>2
      <4>3. Append(x, r) \in X
        BY AppendProperties
      <4> QED
        BY <3>1, <4>2, <4>3
    <3>2. CASE ~(o \in DOMAIN counts /\ counts[o] > 0)
      BY <3>2
    <3> QED
      BY <3>1, <3>2
  <2>3. \A n \in 1 .. N, x \in X : step[n][x] = More(order[n], x)
    <3> HIDE DEF More
    <3> QED
      BY <2>1
  <2>4. <<>> \in X
    BY EmptySeq
  <2> HIDE DEF More, X
  <2>5. PICK g : IsRecursive(g, N, X, <<>>, step)
    <3>1. StepsIn(step, N, X)
      BY <2>2, <2>3 DEF StepsIn
    <3> QED
      BY <2>4, <3>1, Recursion
  <2>6. ASSUME NEW n \in 1 .. N PROVE g[n] = More(order[n], g[n - 1])
    <3>1. n - 1 \in 0 .. N
      OBVIOUS
    <3>2. g \in [0 .. N -> X] /\ g[n] = step[n][g[n - 1]]
      BY <2>5 DEF IsRecursive
    <3>3. g[n - 1] \in X
      BY <3>1, <3>2
    <3> QED
      BY <2>3, <3>2, <3>3
  <2>7. \A n \in 0 .. N : n # 0 => n \in 1 .. N
    OBVIOUS
  <2>8. \A n \in 0 .. N : g[n] = Value(g, n)
    BY <2>5, <2>6, <2>7 DEF IsRecursive
  <2>9. g = [n \in 0 .. N |-> Value(g, n)]
    BY <2>5, <2>8 DEF IsRecursive
  <2> HIDE DEF Value
  <2> QED
    BY <1>2, <2>9
<1>5. /\ f[0] = <<>>
      /\ \A n \in 1 .. N : f[n] = More(order[n], f[n - 1])
  <2> HIDE DEF More
  <2>1. \A n \in 0 .. N : f[n] = Value(f, n)
    <3> HIDE DEF Value
    <3> QED
      BY <1>4
  <2>2. 0 \in 0 .. N /\ \A n \in 1 .. N : n \in 0 .. N /\ n # 0
    OBVIOUS
  <2> QED
    BY <2>1, <2>2
<1> HIDE DEF Value, Assigned, X
<1> DEFINE Ok(n) == /\ RangesOk(f[n], counts)
                    /\ OwnersOf(f[n]) =
                          {o \in {order[i] : i \in 1 .. n} : o \in D /\ counts[o] > 0}
           Good  == {n \in 0 .. N : Ok(n)}
<1>6. Ok(0)
  <2>1. 1 .. 0 = {}
    OBVIOUS
  <2> QED
    BY <1>5, <2>1, EmptyRangesOk
<1>7. ASSUME NEW n \in 1 .. N, n - 1 \in Good PROVE Ok(n)
  <2>1. Ok(n - 1)
    <3> HIDE DEF Ok
    <3> QED
      BY <1>7
  <2>2. 1 .. n = (1 .. n - 1) \cup {n}
    OBVIOUS
  <2>3. PICK before : before = f[n - 1]
    OBVIOUS
  <2>4. PICK o : o = order[n]
    OBVIOUS
  <2>5. f[n] = More(o, before)
    BY <1>5, <2>3, <2>4
  <2>6. {order[i] : i \in 1 .. n} = {order[i] : i \in 1 .. n - 1} \cup {o}
    BY <2>2, <2>4
  <2>7. CASE ~(o \in D /\ counts[o] > 0)
    BY <2>1, <2>3, <2>5, <2>6, <2>7
  <2>8. CASE o \in D /\ counts[o] > 0
    <3>1. o \notin {order[i] : i \in 1 .. n - 1}
      <4>1. \A i \in 1 .. n - 1 : i \in 1 .. N /\ i # n
        OBVIOUS
      <4> QED
        BY <1>1, <2>4, <4>1 DEF IsInjective
    <3>2. o \notin OwnersOf(before) /\ RangesOk(before, counts)
      BY <2>1, <2>3, <3>1
    <3>3. RangesOk(f[n], counts) /\ OwnersOf(f[n]) = OwnersOf(before) \cup {o}
      BY <2>5, <2>8, <3>2, OneMoreRange
    <3> QED
      BY <2>1, <2>3, <2>6, <2>8, <3>3
  <2> QED
    BY <2>7, <2>8
<1>8. Ok(N)
  <2> HIDE DEF Ok
  <2>1. 0 \in Good /\ \A n \in 1 .. N : n - 1 \in Good => n \in Good
    <3>1. \A n \in 1 .. N : n \in 0 .. N
      OBVIOUS
    <3> QED
      BY <1>6, <1>7, <3>1
  <2>2. \A n \in Good : Ok(n)
    OBVIOUS
  <2> HIDE DEF Good
  <2>3. 0 .. N \subseteq Good
    BY <2>1, UpTo
  <2> QED
    BY <2>2, <2>3
<1> QED
  BY <1>1, <1>3, <1>8 DEF ToSet

-----------------------------------------------------------------------------
(***************************************************************************)
(* An index of one partition, and where it is moved.                       *)
(***************************************************************************)
\* A list that is moved ascends as it did.
LEMMA ShiftedList ==
    ASSUME NEW list \in Seq(Nat), Ascending(list), NEW n \in Nat
    PROVE  LET moved == [i \in DOMAIN list |-> list[i] + n]
           IN  /\ moved \in Seq(Nat) /\ Ascending(moved)
               /\ ToSet(moved) = {x + n : x \in ToSet(list)}
<1> DEFINE moved == [i \in DOMAIN list |-> list[i] + n]
<1>1. PICK N \in Nat : N = Len(list) /\ DOMAIN list = 1 .. N
                       /\ \A i \in 1 .. N : list[i] \in Nat
  BY LenProperties, ElementOfSeq
<1>2. moved \in [1 .. N -> Nat]
  BY <1>1
<1>3. moved \in Seq(Nat)
  BY <1>2, SeqDef
<1>4. Ascending(moved)
  BY <1>1 DEF Ascending
<1>5. ToSet(moved) = {x + n : x \in ToSet(list)}
  BY <1>1 DEF ToSet
<1> QED
  BY <1>3, <1>4, <1>5

\* The lines of a text that are in a set, as doc_ids from zero.
LEMMA LocalPostings ==
    ASSUME NEW T, NEW text \in Seq(T), NEW S
    PROVE  LET list == SelectIn([k \in DOMAIN text |-> k - 1], S)
           IN  /\ list \in Seq(Nat) /\ Ascending(list)
               /\ ToSet(list) = (0 .. Len(text) - 1) \cap S
<1>1. PICK N \in Nat : N = Len(text) /\ DOMAIN text = 1 .. N
  BY LenProperties
<1>2. PICK all : all = [k \in DOMAIN text |-> k - 1]
  OBVIOUS
<1>3. all \in [1 .. N -> Nat]
  BY <1>1, <1>2
<1>4. all \in Seq(Nat)
  BY <1>3, SeqDef
<1>5. Ascending(all)
  BY <1>1, <1>2 DEF Ascending
<1>6. ToSet(all) = 0 .. N - 1
  <2>1. \A d \in 0 .. N - 1 : d + 1 \in 1 .. N /\ d + 1 - 1 = d
    OBVIOUS
  <2>2. 0 .. N - 1 \subseteq ToSet(all)
    <3> SUFFICES ASSUME NEW d \in 0 .. N - 1 PROVE \E k \in DOMAIN all : all[k] = d
      BY DEF ToSet
    <3>1. PICK k \in 1 .. N : k = d + 1
      BY <2>1
    <3> QED
      BY <1>1, <1>2, <3>1
  <2>3. ToSet(all) \subseteq 0 .. N - 1
    BY <1>1, <1>2 DEF ToSet
  <2> QED
    BY <2>2, <2>3
<1>7. /\ SelectIn(all, S) \in Seq(Nat \cap S)
      /\ ToSet(SelectIn(all, S)) = ToSet(all) \cap S
      /\ Ascending(SelectIn(all, S))
  <2>1. Nat \subseteq Nat
    OBVIOUS
  <2> QED
    BY <1>4, <1>5, <2>1, SelectInIs
<1>8. SelectIn(all, S) \in Seq(Nat)
  <2>1. Nat \cap S \subseteq Nat
    OBVIOUS
  <2> QED
    BY <1>7, <2>1, SeqMonotonic
<1> QED
  BY <1>1, <1>2, <1>6, <1>7, <1>8

\* The index of a partition has its documents from the start of its range on,
\* and lists for every term those with it.
LEMMA RemapIs ==
    ASSUME NEW T, NEW text \in Seq(T), NEW n \in Nat, NEW termsOf, NEW terms
    PROVE  LET moved == RemapIndex(LocalIndex(text, termsOf, terms), n)
               ids   == n .. n + Len(text) - 1
           IN  /\ moved.documents = [d \in ids |-> text[d - n + 1]]
               /\ \A t \in terms :
                     /\ moved.postings[t] \in Seq(Nat) /\ Ascending(moved.postings[t])
                     /\ \A d : d \in ToSet(moved.postings[t]) <=>
                                 d \in ids /\ t \in termsOf[text[d - n + 1]]
<1> DEFINE moved == RemapIndex(LocalIndex(text, termsOf, terms), n)
           ids   == n .. n + Len(text) - 1
           local == LocalIndex(text, termsOf, terms)
<1>1. PICK N \in Nat : N = Len(text) /\ DOMAIN text = 1 .. N
  BY LenProperties
<1>2. local.documents = [d \in 0 .. N - 1 |-> text[d + 1]]
  BY <1>1 DEF LocalIndex
<1>3. moved.documents = [d \in {l + n : l \in DOMAIN local.documents} |->
                            local.documents[d - n]]
  BY DEF RemapIndex
<1>4. {l + n : l \in DOMAIN local.documents} = ids
  <2>1. \A d \in ids : d - n \in 0 .. N - 1 /\ d - n + n = d
    BY <1>1
  <2>2. \A l \in 0 .. N - 1 : l + n \in ids
    BY <1>1
  <2>3. DOMAIN local.documents = 0 .. N - 1
    BY <1>2
  <2> QED
    BY <2>1, <2>2, <2>3
<1>5. \A d \in ids : local.documents[d - n] = text[d - n + 1]
  <2>1. \A d \in ids : d - n \in 0 .. N - 1
    BY <1>1
  <2> QED
    BY <1>2, <2>1
<1>6. moved.documents = [d \in ids |-> text[d - n + 1]]
  <2> HIDE DEF local, ids, moved
  <2> QED
    BY <1>3, <1>4, <1>5
<1>7. ASSUME NEW t \in terms
      PROVE  /\ moved.postings[t] \in Seq(Nat) /\ Ascending(moved.postings[t])
             /\ ToSet(moved.postings[t]) = {d \in ids : t \in termsOf[text[d - n + 1]]}
  <2>1. PICK S : S = {d \in 0 .. Len(text) - 1 : t \in termsOf[text[d + 1]]}
    OBVIOUS
  <2>2. PICK list : list = SelectIn([k \in DOMAIN text |-> k - 1], S)
    OBVIOUS
  <2>3. list \in Seq(Nat) /\ Ascending(list) /\ ToSet(list) = S
    <3>1. (0 .. Len(text) - 1) \cap S = S
      BY <2>1
    <3> QED
      BY <2>2, <3>1, LocalPostings
  <2>4. local.postings[t] = list /\ DOMAIN local.postings = terms
    BY <2>1, <2>2 DEF LocalIndex
  <2>5. moved.postings[t] = [i \in DOMAIN list |-> list[i] + n]
    BY <2>4 DEF RemapIndex
  <2>6. /\ moved.postings[t] \in Seq(Nat) /\ Ascending(moved.postings[t])
        /\ ToSet(moved.postings[t]) = {x + n : x \in S}
    BY <2>3, <2>5, ShiftedList
  <2>7. {x + n : x \in S} = {d \in ids : t \in termsOf[text[d - n + 1]]}
    <3>1. \A x \in S : x + n \in ids /\ x + n - n + 1 = x + 1
      BY <1>1, <2>1
    <3>2. \A x \in S : t \in termsOf[text[x + 1]]
      BY <2>1
    <3>3. \A d \in ids : d - n \in 0 .. N - 1 /\ d - n + n = d
      BY <1>1
    <3>4. \A d \in ids : t \in termsOf[text[d - n + 1]] => d - n \in S
      BY <1>1, <2>1, <3>3
    <3>5. ASSUME NEW d \in ids, t \in termsOf[text[d - n + 1]]
          PROVE  \E x \in S : x + n = d
      BY <3>3, <3>4, <3>5
    <3>6. \A x \in S : x + n - n + 1 = x + 1
      BY <3>1
    <3>7. PICK here : here = {d \in ids : t \in termsOf[text[d - n + 1]]}
      OBVIOUS
    <3>8. \A d \in here : \E x \in S : x + n = d
      BY <3>5, <3>7
    <3>9. ASSUME NEW x \in S PROVE x + n \in here
      <4>1. PICK d \in ids : d = x + n
        BY <3>1
      <4>2. d - n + 1 = x + 1
        BY <1>1, <2>1, <4>1
      <4>3. t \in termsOf[text[d - n + 1]]
        BY <3>2, <4>2
      <4>4. d \in here
        BY <3>7, <4>3
      <4> QED
        BY <4>1, <4>4
    <3>10. {x + n : x \in S} = here
      BY <3>8, <3>9
    <3> QED
      BY <3>7, <3>10
  <2> QED
    BY <2>6, <2>7
<1> QED
  BY <1>6, <1>7

-----------------------------------------------------------------------------
(***************************************************************************)
(* The entry of a doc_id, and the keys of a partition.                     *)
(***************************************************************************)
\* bisect_right over starts of which exactly the first i are not above x.
LEMMA BisectRightIs ==
    ASSUME NEW starts, NEW N \in Nat, DOMAIN starts = 1 .. N, NEW x, NEW i \in 0 .. N,
           \A j \in 1 .. N : starts[j] <= x <=> j <= i
    PROVE  BisectRight(starts, x) = i
<1>1. {j \in DOMAIN starts : starts[j] <= x} = 1 .. i
  OBVIOUS
<1>2. Cardinality(1 .. i) = i
  <2>1. Cardinality(1 .. i) = IF 1 > i THEN 0 ELSE i - 1 + 1
    BY FS_Interval
  <2> QED
    BY <2>1
<1> QED
  BY <1>1, <1>2 DEF BisectRight

\* A set of keys with distinct numbers can be listed by these numbers; and
\* such a list has all of them, once each.
Numbered(M, num) == num \in [M -> Nat] /\ \A k, l \in M : num[k] = num[l] => k = l

ByNumber(keys, num) == \A i, j \in DOMAIN keys : i < j => num[keys[i]] < num[keys[j]]

\* Something has the least number.
LEMMA LeastNumber ==
    ASSUME NEW M, M # {}, NEW num \in [M -> Nat]
    PROVE  \E m \in M : \A k \in M : num[m] <= num[k]
<1> DEFINE R == {ss \in Nat \X Nat : ss[1] < ss[2]}
           S == {num[k] : k \in M}
<1>1. IsWellFoundedOn(R, Nat)
  BY NatLessThanWellFounded DEF OpToRel
<1>2. S \subseteq Nat /\ S # {}
  OBVIOUS
<1>3. \A m, n \in Nat : m < n => <<m, n>> \in R
  OBVIOUS
<1>4. PICK n \in S : \A m \in S : ~(<<m, n>> \in R)
  <2> HIDE DEF R, S
  <2> QED
    BY <1>1, <1>2, WFMin
<1>5. PICK m \in M : num[m] = n
  OBVIOUS
<1>6. ASSUME NEW k \in M PROVE num[m] <= num[k]
  <2>1. num[k] \in S /\ num[k] \in Nat /\ n \in Nat
    BY <1>2
  <2>2. ~(num[k] < n)
    BY <1>3, <1>4, <2>1
  <2> QED
    BY <1>5, <2>1, <2>2
<1> QED
  BY <1>6

Listable(M, num) ==
    \E keys \in [1 .. Cardinality(M) -> M] : ByNumber(keys, num)

\* A finite set whose elements have different numbers can be listed by them.
LEMMA NumberedIsListable ==
    ASSUME NEW U, IsFiniteSet(U), NEW num, Numbered(U, num)
    PROVE  Listable(U, num)
<1> DEFINE N == Cardinality(U)
           S == {n \in 0 .. N : \A M \in SUBSET U : Cardinality(M) = n => Listable(M, num)}
<1>1. N \in Nat
  BY FS_CardinalityType
<1>2. 0 \in S
  <2> SUFFICES ASSUME NEW M \in SUBSET U, Cardinality(M) = 0 PROVE Listable(M, num)
    BY <1>1
  <2>1. PICK keys : keys = [i \in 1 .. 0 |-> i]
    OBVIOUS
  <2>2. 1 .. 0 = {}
    OBVIOUS
  <2>3. keys \in [1 .. 0 -> M] /\ ByNumber(keys, num)
    BY <2>1, <2>2 DEF ByNumber
  <2> QED
    BY <2>3 DEF Listable
<1>3. ASSUME NEW n \in 1 .. N, n - 1 \in S PROVE n \in S
  <2> SUFFICES ASSUME NEW M \in SUBSET U, Cardinality(M) = n PROVE Listable(M, num)
    BY <1>1
  <2>1. IsFiniteSet(M) /\ M # {}
    <3>1. IsFiniteSet(M)
      BY FS_Subset
    <3>2. M = {} => Cardinality(M) = 0
      BY FS_EmptySet
    <3> QED
      BY <3>1, <3>2
  <2>2. PICK part : part = [k \in M |-> num[k]]
    OBVIOUS
  <2>3. \A k \in M : num[k] \in Nat
    BY DEF Numbered
  <2>4. part \in [M -> Nat]
    BY <2>2, <2>3
  <2>5. PICK m \in M : \A k \in M : part[m] <= part[k]
    BY <2>1, <2>4, LeastNumber
  <2>6. PICK Rest : Rest = M \ {m}
    OBVIOUS
  <2>7. Rest \in SUBSET U /\ Cardinality(Rest) = n - 1
    <3>1. Cardinality(M \ {m}) = Cardinality(M) - 1
      BY <2>1, FS_RemoveElement
    <3> QED
      BY <2>6, <3>1
  <2>8. PICK keys \in [1 .. n - 1 -> Rest] : ByNumber(keys, num)
    <3>1. Listable(Rest, num)
      BY <1>3, <2>7
    <3> QED
      BY <2>7, <3>1 DEF Listable
  <2>9. PICK more : more = [i \in 1 .. n |-> IF i = 1 THEN m ELSE keys[i - 1]]
    OBVIOUS
  <2>10. ASSUME NEW i \in 1 .. n, i # 1
         PROVE i - 1 \in 1 .. n - 1 /\ more[i] = keys[i - 1] /\ more[i] \in Rest
    <3>1. i - 1 \in 1 .. n - 1
      BY <2>10
    <3> QED
      BY <2>8, <2>9, <2>10, <3>1
  <2>11. 1 \in 1 .. n /\ more[1] = m
    BY <2>9
  <2>12. more \in [1 .. n -> M]
    <3>1. ASSUME NEW i \in 1 .. n
          PROVE (IF i = 1 THEN m ELSE keys[i - 1]) \in M
      BY <2>6, <2>9, <2>10, <2>11
    <3> QED
      BY <2>9, <3>1
  <2>13. ByNumber(more, num)
    <3> SUFFICES ASSUME NEW i \in 1 .. n, NEW j \in 1 .. n, i < j
                 PROVE  num[more[i]] < num[more[j]]
      BY <2>12 DEF ByNumber
    <3>1. j # 1
      OBVIOUS
    <3>2. CASE i = 1
      <4>1. more[j] \in M /\ more[j] # m
        BY <2>6, <2>10, <3>1
      <4>2. num[m] <= num[more[j]]
        BY <2>2, <2>5, <4>1
      <4>3. num[m] # num[more[j]]
        BY <4>1 DEF Numbered
      <4>4. num[m] \in Nat /\ num[more[j]] \in Nat
        BY <2>3, <4>1
      <4> QED
        BY <2>11, <3>2, <4>2, <4>3, <4>4
    <3>3. CASE i # 1
      <4>1. /\ i - 1 \in DOMAIN keys /\ j - 1 \in DOMAIN keys /\ i - 1 < j - 1
            /\ more[i] = keys[i - 1] /\ more[j] = keys[j - 1]
        BY <2>8, <2>10, <3>1, <3>3
      <4>2. PICK a \in DOMAIN keys, b \in DOMAIN keys : a = i - 1 /\ b = j - 1
        BY <4>1
      <4>3. num[keys[a]] < num[keys[b]]
        BY <2>8, <4>1, <4>2 DEF ByNumber
      <4> QED
        BY <4>1, <4>2, <4>3
    <3> QED
      BY <3>2, <3>3
  <2> QED
    BY <2>12, <2>13 DEF Listable
<1>4. N \in S
  <2> HIDE DEF S
  <2>1. 0 .. N \subseteq S
    <3> HIDE DEF N
    <3> QED
      BY <1>1, <1>2, <1>3, UpTo
  <2> QED
    BY <1>1, <2>1
<1> QED
  BY <1>4

\* A list of a set by number has every element of it, once.
LEMMA ByNumberHasAll ==
    ASSUME NEW M, IsFiniteSet(M), NEW num, Numbered(M, num),
           NEW keys \in [1 .. Cardinality(M) -> M], ByNumber(keys, num)
    PROVE  keys \in Seq(M) /\ ToSet(keys) = M /\ IsInjective(keys)
<1>1. PICK N \in Nat : N = Cardinality(M)
  BY FS_CardinalityType
<1>2. keys \in [1 .. N -> M] /\ keys \in Seq(M)
  BY <1>1, SeqDef
<1>3. ASSUME NEW i \in 1 .. N, NEW j \in 1 .. N, keys[i] = keys[j] PROVE i = j
  <2>1. PICK n \in Nat : n = num[keys[i]] /\ n = num[keys[j]]
    <3>1. keys[i] \in M
      BY <1>2
    <3> QED
      BY <1>3, <3>1 DEF Numbered
  <2>2. i < j => n < n
    BY <1>2, <2>1 DEF ByNumber
  <2>3. j < i => n < n
    BY <1>2, <2>1 DEF ByNumber
  <2> QED
    BY <2>2, <2>3
<1>4. keys \in Injection(1 .. N, M)
  BY <1>2, <1>3 DEF Injection, IsInjective
<1>5. Cardinality(1 .. N) = N
  <2>1. Cardinality(1 .. N) = IF 1 > N THEN 0 ELSE N - 1 + 1
    BY FS_Interval
  <2> QED
    BY <2>1
<1>6. keys \in Surjection(1 .. N, M)
  BY <1>1, <1>4, <1>5, FS_Injection
<1>7. ToSet(keys) = M
  BY <1>2, <1>6 DEF Surjection, ToSet
<1> QED
  BY <1>2, <1>3, <1>7 DEF IsInjective

\* A list is its head and the rest, and its elements are those of both.
LEMMA RestIs ==
    ASSUME NEW T, NEW s \in Seq(T), s # <<>>
    PROVE  /\ Head(s) \in T /\ Head(s) \in ToSet(s) /\ Tail(s) \in Seq(T)
           /\ ToSet(s) = {Head(s)} \cup ToSet(Tail(s))
           /\ Len(s) \in Nat \ {0} /\ (Len(s) > 1 <=> Tail(s) # <<>>)
           /\ IsInjective(s) => IsInjective(Tail(s)) /\ Head(s) \notin ToSet(Tail(s))
<1>1. PICK n \in Nat : Len(s) = n + 1 /\ DOMAIN s = 1 .. n + 1
  <2>1. Len(s) \in Nat \ {0} /\ DOMAIN s = 1 .. Len(s)
    BY EmptySeq, LenProperties
  <2>2. Len(s) - 1 \in Nat /\ Len(s) = Len(s) - 1 + 1
    BY <2>1
  <2> QED
    BY <2>1, <2>2
<1>2. PICK t : t = Tail(s)
  OBVIOUS
<1>3. /\ Head(s) \in T /\ t \in Seq(T) /\ Len(t) = n
      /\ \A i \in 1 .. n : t[i] = s[i + 1]
  BY <1>1, <1>2, HeadTailProperties
<1>4. DOMAIN t = 1 .. n
  BY <1>3, LenProperties
<1>5. Head(s) = s[1]
  OBVIOUS
<1>6. \A i \in 1 .. n + 1 : i = 1 \/ i - 1 \in 1 .. n
  OBVIOUS
<1>7. \A i \in 1 .. n : i + 1 \in 1 .. n + 1 /\ i + 1 # 1
  OBVIOUS
<1>8. 1 \in 1 .. n + 1
  OBVIOUS
<1>9. ToSet(s) = {s[1]} \cup ToSet(t)
  <2>1. ToSet(s) \subseteq {s[1]} \cup ToSet(t)
    <3> SUFFICES ASSUME NEW i \in 1 .. n + 1, i # 1 PROVE \E j \in 1 .. n : t[j] = s[i]
      BY <1>1, <1>4 DEF ToSet
    <3>1. PICK j \in 1 .. n : j = i - 1
      BY <1>6
    <3>2. j + 1 = i
      BY <3>1
    <3> QED
      BY <1>3, <3>2
  <2>2. {s[1]} \cup ToSet(t) \subseteq ToSet(s)
    BY <1>1, <1>3, <1>4, <1>7, <1>8 DEF ToSet
  <2> QED
    BY <2>1, <2>2
<1>10. ASSUME IsInjective(s) PROVE IsInjective(t) /\ s[1] \notin ToSet(t)
  <2>1. ASSUME NEW i \in 1 .. n, NEW j \in 1 .. n, t[i] = t[j] PROVE i = j
    <3>1. s[i + 1] = s[j + 1]
      BY <1>3, <2>1
    <3>2. i + 1 = j + 1
      BY <1>1, <1>7, <1>10, <3>1 DEF IsInjective
    <3> QED
      BY <3>2
  <2>2. ASSUME NEW i \in 1 .. n PROVE t[i] # s[1]
    BY <1>1, <1>3, <1>7, <1>8, <1>10 DEF IsInjective
  <2> QED
    BY <1>4, <2>1, <2>2 DEF IsInjective, ToSet
<1>11. n + 1 > 1 <=> t # <<>>
  <2>1. t = <<>> <=> n = 0
    BY <1>3, EmptySeq
  <2> QED
    BY <2>1
<1>12. /\ Head(s) \in T /\ Head(s) \in ToSet(s) /\ Tail(s) \in Seq(T)
       /\ ToSet(s) = {Head(s)} \cup ToSet(Tail(s))
  BY <1>2, <1>3, <1>5, <1>9
<1>13. Len(s) \in Nat \ {0} /\ (Len(s) > 1 <=> Tail(s) # <<>>)
  BY <1>1, <1>2, <1>11
<1>14. IsInjective(s) => IsInjective(Tail(s)) /\ Head(s) \notin ToSet(Tail(s))
  BY <1>2, <1>5, <1>10
<1> QED
  BY <1>12, <1>13, <1>14

\* A sequence is one of its own elements.
LEMMA OwnRange == ASSUME NEW T, NEW s \in Seq(T) PROVE s \in Seq(ToSet(s)) /\ ToSet(s) \subseteq T
<1>1. PICK n \in Nat : n = Len(s) /\ DOMAIN s = 1 .. n /\ s \in [1 .. n -> T]
  BY LenProperties
<1>2. \A i \in 1 .. n : s[i] \in T
  BY <1>1
<1>3. s \in [1 .. n -> ToSet(s)]
  BY <1>1 DEF ToSet
<1>4. s \in Seq(ToSet(s))
  BY <1>1, <1>3, SeqDef
<1> QED
  BY <1>1, <1>2, <1>4 DEF ToSet
-----------------------------------------------------------------------------
(***************************************************************************)
(* The index is aligned: what a build knows of its own, whatever the       *)
(* workers do.                                                             *)
(***************************************************************************)
Fragment == [count: [documents: Nat, discarded: Nat], files: Nat]

Counts == [o \in DOMAIN entries |-> entries[o].count.documents]

Partials == {RemapIndex(LocalIndex(text, TermsOf, Term), n) :
                text \in Seq(Indexable), n \in Nat}

BuildTyped ==
    /\ stage \in Stages
    /\ IsFiniteSet(DOMAIN parts)
    /\ \A o \in DOMAIN manifests : manifests[o] \in Fragment
    /\ DOMAIN entries \subseteq ToSet(KeyOrder)
    /\ \A o \in DOMAIN entries : entries[o] \in Fragment
    /\ stage = "fragments" =>
          todo # <<>> /\ todo \in Seq(ToSet(KeyOrder) \cap DOMAIN manifests)
    /\ stage = "parts" => todo \in Seq(DOMAIN parts)
    /\ lines \in Seq(Indexable) /\ corpus \in Seq(Indexable)
    /\ partials \in Seq(Partials)

\* How far the build is.
StageInv ==
    /\ stage \in {"idle", "fragments"} => ranges = <<>>
    /\ stage = "idle" => entries = NoObjects
    /\ RangesOk(ranges, Counts)
    /\ Len(partials) <= Len(ranges)
    /\ stage \in {"list", "parts"} => Len(partials) < Len(ranges)
    /\ stage \in {"merge", "built"} => Len(partials) = Len(ranges)
    /\ Len(corpus) = IF partials = <<>> THEN 0 ELSE ranges[Len(partials)].end

\* A list of the doc_ids, among some, of the documents with a term.
PostingsOk(list, term, ids) ==
    /\ list \in Seq(Nat) /\ Ascending(list)
    /\ ToSet(list) = {d \in ids : term \in TermsOf[corpus[d + 1]]}

PartialOk(partial, ids) ==
    /\ partial.documents = [d \in ids |-> corpus[d + 1]]
    /\ \A term \in Term : PostingsOk(partial.postings[term], term, ids)

IdsOf(r) == r.start .. r.end - 1

PartialsInv == \A i \in DOMAIN partials : PartialOk(partials[i], IdsOf(ranges[i]))

AlignInv == BuildTyped /\ StageInv /\ PartialsInv /\ IndexIsAligned

-----------------------------------------------------------------------------
(***************************************************************************)
(* The build keeps its index aligned.                                      *)
(***************************************************************************)
\* What the workers may do to what a build reads.
LEMMA WorkersWrite ==
    ASSUME [Next]_vars
    PROVE  /\ \/ parts' = parts
              \/ \E w \in Worker :
                    /\ pc[w] = "parts" /\ PutDocuments(w)
                    /\ parts' = PutObject(parts, PartKeyOf(w), documents[w])
           /\ \/ manifests' = manifests
              \/ \E w \in Worker :
                    /\ pc[w] = "manifest" /\ PutManifest(w) /\ parts' = parts
                    /\ manifests' = PutObject(manifests, WorkerId(w),
                                       [count |-> written[w], files |-> partSeq'[w]])
<1>1. ASSUME NEW w \in Worker, Step(w) \/ Crash(w) \/ Restart(w),
             ~PutDocuments(w), ~PutManifest(w)
      PROVE  parts' = parts /\ manifests' = manifests
  BY <1>1 DEF Step, Receive, IdlePoll, StopAtMaxPages, ReadPage, ReadMissing, FeedUpdate,
              PutDiscarded, AckCurrent, Crash, Restart, services
<1>2. ASSUME NEW w \in Worker, PutDocuments(w)
      PROVE  /\ pc[w] = "parts" /\ manifests' = manifests
             /\ parts' = PutObject(parts, PartKeyOf(w), documents[w])
  BY <1>2 DEF PutDocuments
<1>3. ASSUME NEW w \in Worker, PutManifest(w)
      PROVE  /\ pc[w] = "manifest" /\ parts' = parts
             /\ manifests' = PutObject(manifests, WorkerId(w),
                                [count |-> written[w], files |-> partSeq'[w]])
  BY <1>3 DEF PutManifest
<1>4. ASSUME NEW p \in Page, Announce(p)
      PROVE  parts' = parts /\ manifests' = manifests
  BY <1>4 DEF Announce
<1>5. UNCHANGED vars => parts' = parts /\ manifests' = manifests
  BY DEF vars, services
<1> QED
  BY <1>1, <1>2, <1>3, <1>4, <1>5 DEF Next

\* What the worker leaves of the objects it does not write.
LEMMA PutOne ==
    ASSUME NEW files, NEW k, NEW body
    PROVE  /\ DOMAIN PutObject(files, k, body) = DOMAIN files \cup {k}
           /\ PutObject(files, k, body)[k] = body
           /\ \A l \in DOMAIN files : l # k => PutObject(files, k, body)[l] = files[l]
           /\ IsFiniteSet(DOMAIN files) => IsFiniteSet(DOMAIN PutObject(files, k, body))
<1>1. /\ DOMAIN PutObject(files, k, body) = DOMAIN files \cup {k}
      /\ PutObject(files, k, body)[k] = body
      /\ \A l \in DOMAIN files : l # k => PutObject(files, k, body)[l] = files[l]
  BY DEF PutObject
<1>2. IsFiniteSet(DOMAIN files) => IsFiniteSet(DOMAIN files \cup {k})
  BY FS_AddElement
<1> QED
  BY <1>1, <1>2

\* What is in storage stays well typed, and nothing disappears from it.
LEMMA StoredTyped ==
    ASSUME Inv, IsFiniteSet(DOMAIN parts),
           \A o \in DOMAIN manifests : manifests[o] \in Fragment,
           [Next]_vars
    PROVE  /\ IsFiniteSet(DOMAIN parts') /\ DOMAIN parts \subseteq DOMAIN parts'
           /\ DOMAIN manifests \subseteq DOMAIN manifests'
           /\ \A o \in DOMAIN manifests' : manifests'[o] \in Fragment
<1>1. IsFiniteSet(DOMAIN parts') /\ DOMAIN parts \subseteq DOMAIN parts'
  <2>1. CASE parts' = parts
    BY <2>1
  <2>2. ASSUME NEW k, NEW body, parts' = PutObject(parts, k, body)
        PROVE  IsFiniteSet(DOMAIN parts') /\ DOMAIN parts \subseteq DOMAIN parts'
    <3>1. PICK old, new : old = parts /\ new = PutObject(old, k, body)
      OBVIOUS
    <3>2. DOMAIN new = DOMAIN old \cup {k} /\ (IsFiniteSet(DOMAIN old) => IsFiniteSet(DOMAIN new))
      BY <3>1, PutOne
    <3>3. parts' = new
      BY <2>2, <3>1
    <3> QED
      BY <3>1, <3>2, <3>3
  <2> QED
    BY <2>1, <2>2, WorkersWrite
<1>2. CASE manifests' = manifests
  BY <1>1, <1>2
<1>3. ASSUME NEW w \in Worker, PutManifest(w),
             manifests' = PutObject(manifests, WorkerId(w),
                                    [count |-> written[w], files |-> partSeq'[w]])
      PROVE  /\ DOMAIN manifests \subseteq DOMAIN manifests'
             /\ \A o \in DOMAIN manifests' : manifests'[o] \in Fragment
  <2>1. written[w] \in [documents: Nat, discarded: Nat] /\ partSeq[w] \in Nat
        /\ partSeq \in [Worker -> Nat]
    BY DEF Inv, Typed, TypeOK
  <2>2. partSeq'[w] \in Nat
    BY <1>3, <2>1 DEF PutManifest
  <2>3. PICK f \in Fragment : f = [count |-> written[w], files |-> partSeq'[w]]
    <3>1. PICK c \in [documents: Nat, discarded: Nat], n \in Nat :
             c = written[w] /\ n = partSeq'[w]
      BY <2>1, <2>2
    <3>2. [count |-> c, files |-> n] \in Fragment
      BY DEF Fragment
    <3> QED
      BY <3>1, <3>2
  <2>4. PICK o, old, new : o = WorkerId(w) /\ old = manifests /\ new = PutObject(old, o, f)
    OBVIOUS
  <2>5. /\ DOMAIN new = DOMAIN old \cup {o} /\ new[o] = f
        /\ \A l \in DOMAIN old : l # o => new[l] = old[l]
    BY <2>4 DEF PutObject
  <2>6. manifests' = new
    BY <1>3, <2>3, <2>4
  <2> QED
    BY <2>4, <2>5, <2>6
<1> QED
  BY <1>1, <1>2, <1>3, WorkersWrite

\* A step of a worker leaves the build alone.
LEMMA AlignWorkers ==
    ASSUME Inv, AlignInv, [Next]_vars, UNCHANGED building
    PROVE  AlignInv'
<1>1. /\ IsFiniteSet(DOMAIN parts') /\ DOMAIN parts \subseteq DOMAIN parts'
      /\ DOMAIN manifests \subseteq DOMAIN manifests'
      /\ \A o \in DOMAIN manifests' : manifests'[o] \in Fragment
  BY StoredTyped DEF AlignInv, BuildTyped
<1>2. UNCHANGED <<stage, todo, entries, ranges, lines, corpus, catalog, partials, index>>
  BY DEF building
<1>3. stage' = "fragments" =>
         todo' # <<>> /\ todo' \in Seq(ToSet(KeyOrder) \cap DOMAIN manifests')
  <2> SUFFICES ASSUME stage = "fragments"
               PROVE  todo \in Seq(ToSet(KeyOrder) \cap DOMAIN manifests') /\ todo # <<>>
    BY <1>2
  <2>1. todo # <<>> /\ todo \in Seq(ToSet(KeyOrder) \cap DOMAIN manifests)
    BY DEF AlignInv, BuildTyped
  <2>2. ToSet(KeyOrder) \cap DOMAIN manifests \subseteq ToSet(KeyOrder) \cap DOMAIN manifests'
    BY <1>1
  <2> QED
    BY <2>1, <2>2, SeqMonotonic
<1>4. stage' = "parts" => todo' \in Seq(DOMAIN parts')
  <2> SUFFICES ASSUME stage = "parts" PROVE todo \in Seq(DOMAIN parts')
    BY <1>2
  <2>1. todo \in Seq(DOMAIN parts)
    BY DEF AlignInv, BuildTyped
  <2> QED
    BY <1>1, <2>1, SeqMonotonic
<1>5. BuildTyped'
  BY <1>1, <1>2, <1>3, <1>4 DEF AlignInv, BuildTyped
<1>6. StageInv'
  BY <1>2 DEF AlignInv, StageInv, Counts
<1>7. PartialsInv'
  <2> SUFFICES ASSUME NEW i \in DOMAIN partials
               PROVE  PartialOk(partials[i], IdsOf(ranges[i]))'
    BY <1>2 DEF PartialsInv
  <2>1. PartialOk(partials[i], IdsOf(ranges[i]))
    BY DEF AlignInv, PartialsInv
  <2> QED
    BY <1>2, <2>1 DEF PartialOk, PostingsOk, IdsOf
<1>8. IndexIsAligned'
  BY <1>2 DEF AlignInv, IndexIsAligned, DocIds
<1> QED
  BY <1>5, <1>6, <1>7, <1>8 DEF AlignInv

\* A build that has not begun has nothing that is not aligned.
LEMMA AlignInit == BuildInit => AlignInv
<1> SUFFICES ASSUME BuildInit PROVE AlignInv
  OBVIOUS
<1>1. /\ stage = "idle" /\ entries = NoObjects /\ ranges = <<>> /\ lines = <<>>
      /\ corpus = <<>> /\ partials = <<>> /\ DOMAIN parts = {} /\ DOMAIN manifests = {}
      /\ DOMAIN NoObjects = {}
  BY DEF BuildInit, Init, NoObjects
<1>2. BuildTyped
  BY <1>1, FS_EmptySet, EmptySeq DEF BuildTyped, Stages
<1>3. StageInv
  BY <1>1, EmptyRangesOk, EmptySeq DEF StageInv
<1>4. PartialsInv /\ IndexIsAligned
  BY <1>1 DEF PartialsInv, IndexIsAligned
<1> QED
  BY <1>2, <1>3, <1>4 DEF AlignInv

\* The build lists the fragments.
LEMMA AlignStart ==
    ASSUME Inv, AlignInv, StartBuild, UNCHANGED vars
    PROVE  AlignInv'
<1>1. /\ stage = "idle" /\ ranges = <<>> /\ entries = NoObjects
      /\ UNCHANGED <<parts, manifests, entries, ranges, lines, corpus, partials, index>>
  BY DEF StartBuild, AlignInv, StageInv, vars, services
<1>2. PICK selected : selected = SelectIn(KeyOrder, DOMAIN manifests)
  OBVIOUS
<1>3. todo' = selected /\ stage' = IF selected = <<>> THEN "merge" ELSE "fragments"
  BY <1>2 DEF StartBuild
<1>4. selected \in Seq(ToSet(KeyOrder) \cap DOMAIN manifests)
  <2>1. KeyOrder \in Seq(ToSet(KeyOrder))
    BY BuildAssumption, OwnRange
  <2>2. PICK S : S = DOMAIN manifests
    OBVIOUS
  <2>3. SelectIn(KeyOrder, S) \in Seq(ToSet(KeyOrder) \cap S)
    BY <2>1, SelectInIs
  <2> QED
    BY <1>2, <2>2, <2>3
<1>5. BuildTyped'
  BY <1>1, <1>3, <1>4 DEF AlignInv, BuildTyped, Stages
<1>6. StageInv'
  <2>1. partials \in Seq(Partials)
    BY DEF AlignInv, BuildTyped
  <2>2. Len(ranges) = 0 /\ Len(partials) <= 0 /\ Len(partials) \in Nat
    BY <1>1, <2>1, EmptySeq, LenProperties DEF AlignInv, StageInv
  <2>3. Len(partials) = Len(ranges)
    BY <2>2
  <2> QED
    BY <1>1, <1>3, <2>3 DEF AlignInv, StageInv, Counts
<1>7. PartialsInv' /\ IndexIsAligned'
  BY <1>1, <1>3 DEF AlignInv, PartialsInv, PartialOk, PostingsOk, IndexIsAligned
<1> QED
  BY <1>5, <1>6, <1>7 DEF AlignInv

\* The build gets one fragment, and the ranges after the last.
LEMMA AlignFragment ==
    ASSUME Inv, AlignInv, GetFragment, UNCHANGED vars
    PROVE  AlignInv'
<1>1. /\ stage = "fragments" /\ ranges = <<>>
      /\ UNCHANGED <<parts, manifests, lines, corpus, partials, index>>
  BY DEF GetFragment, AlignInv, StageInv, vars, services
<1>2. PICK T, s :
         /\ T = ToSet(KeyOrder) \cap DOMAIN manifests
         /\ s \in Seq(T) /\ s = todo /\ s # <<>>
  BY <1>1 DEF AlignInv, BuildTyped
<1>3. PICK o, rest : o = Head(s) /\ rest = Tail(s)
  OBVIOUS
<1>4. /\ o \in T /\ rest \in Seq(T) /\ Len(s) \in Nat /\ (Len(s) > 1 <=> rest # <<>>)
  BY <1>2, <1>3, RestIs
<1>5. PICK f \in Fragment : f = manifests[o]
  BY <1>2, <1>4 DEF AlignInv, BuildTyped
<1>6. entries' = PutObject(entries, o, f) /\ todo' = rest
  BY <1>2, <1>3, <1>5 DEF GetFragment
<1>7. /\ DOMAIN entries' \subseteq ToSet(KeyOrder)
      /\ \A e \in DOMAIN entries' : entries'[e] \in Fragment
  <2>1. PICK old, new : old = entries /\ new = PutObject(old, o, f)
    OBVIOUS
  <2>2. /\ DOMAIN new = DOMAIN old \cup {o} /\ new[o] = f
        /\ \A l \in DOMAIN old : l # o => new[l] = old[l]
    BY <2>1 DEF PutObject
  <2>3. /\ DOMAIN old \subseteq ToSet(KeyOrder)
        /\ \A e \in DOMAIN old : old[e] \in Fragment
    BY <2>1 DEF AlignInv, BuildTyped
  <2>4. /\ DOMAIN new \subseteq ToSet(KeyOrder)
        /\ \A e \in DOMAIN new : new[e] \in Fragment
    BY <1>2, <1>4, <2>2, <2>3
  <2> QED
    BY <1>6, <2>1, <2>4
<1>8. partials = <<>> /\ Len(partials) = 0 /\ Len(corpus) = 0
  <2>1. partials \in Seq(Partials)
    BY DEF AlignInv, BuildTyped
  <2>2. Len(ranges) = 0 /\ Len(partials) <= 0 /\ Len(partials) \in Nat
    BY <1>1, <2>1, EmptySeq, LenProperties DEF AlignInv, StageInv
  <2>3. partials = <<>>
    BY <2>1, <2>2, EmptySeq
  <2> QED
    BY <2>3, EmptySeq DEF AlignInv, StageInv
<1>9. PartialsInv'
  BY <1>1, <1>8 DEF PartialsInv
<1>10. CASE Len(todo) > 1
  <2>1. UNCHANGED <<stage, ranges>> /\ rest # <<>>
    BY <1>2, <1>4, <1>10 DEF GetFragment
  <2>2. BuildTyped'
    BY <1>1, <1>2, <1>4, <1>6, <1>7, <2>1 DEF AlignInv, BuildTyped
  <2>3. RangesOk(ranges', Counts')
    <3>1. RangesOk(<<>>, Counts')
      BY EmptyRangesOk
    <3> QED
      BY <1>1, <2>1, <3>1
  <2>4. StageInv'
    BY <1>1, <2>1, <2>3 DEF AlignInv, StageInv
  <2> QED
    BY <1>1, <1>9, <2>1, <2>2, <2>4 DEF AlignInv, IndexIsAligned
<1>11. CASE ~(Len(todo) > 1)
  <2>1. ranges' = ComputeDocIdRanges(KeyOrder, entries')
        /\ stage' = IF Len(partials') < Len(ranges') THEN "list" ELSE "merge"
    BY <1>11 DEF GetFragment, NextPartition
  <2>2. PICK counts : counts = Counts'
    OBVIOUS
  <2>3. ranges' = AssignRanges(KeyOrder, counts)
    BY <2>1, <2>2 DEF ComputeDocIdRanges, Counts
  <2>4. counts \in [DOMAIN entries' -> Nat]
    <3>1. \A e \in DOMAIN entries' : entries'[e].count.documents \in Nat
      BY <1>7 DEF Fragment
    <3>2. counts = [e \in DOMAIN entries' |-> entries'[e].count.documents]
      BY <2>2 DEF Counts
    <3> QED
      BY <3>1, <3>2
  <2>5. RangesOk(ranges', counts)
    <3>1. PICK D : D = DOMAIN entries'
      OBVIOUS
    <3>2. counts \in [D -> Nat]
      BY <2>4, <3>1
    <3>3. RangesOk(AssignRanges(KeyOrder, counts), counts)
      BY <3>2, BuildAssumption, AssignRangesIs
    <3> QED
      BY <2>3, <3>3
  <2>6. Len(ranges') \in Nat
    <3>1. ranges' \in Seq([owner: DOMAIN counts, start: Nat, end: Nat])
      BY <2>5 DEF RangesOk
    <3> QED
      BY <3>1, LenProperties
  <2>7. BuildTyped'
    BY <1>1, <1>7, <2>1 DEF AlignInv, BuildTyped, Stages
  <2>8. StageInv'
    <3>1. stage' \in {"list", "merge"}
      BY <2>1
    <3>2. Len(partials') = 0 /\ Len(partials') <= Len(ranges')
      BY <1>1, <1>8, <2>6
    <3>3. stage' = "list" => Len(partials') < Len(ranges')
      BY <2>1
    <3>4. stage' = "merge" => Len(partials') = Len(ranges')
      BY <1>1, <1>8, <2>1, <2>6
    <3>5. Len(corpus') = 0 /\ partials' = <<>>
      BY <1>1, <1>8
    <3> QED
      BY <2>2, <2>5, <3>1, <3>2, <3>3, <3>4, <3>5 DEF StageInv
  <2> QED
    BY <1>9, <2>1, <2>7, <2>8 DEF AlignInv, IndexIsAligned
<1> QED
  BY <1>10, <1>11

\* The keys of a partition's parts are those in storage, once each.
LEMMA PartKeysAre ==
    ASSUME Inv, IsFiniteSet(DOMAIN parts), NEW owner
    PROVE  /\ PartKeysOf(owner) \in Seq(FilesOf(parts, owner))
           /\ ToSet(PartKeysOf(owner)) = FilesOf(parts, owner)
           /\ IsInjective(PartKeysOf(owner))
<1>1. PICK mine : mine = FilesOf(parts, owner)
  OBVIOUS
<1>2. /\ \A k \in mine : k \in PartKey /\ k.owner = owner
      /\ mine \subseteq DOMAIN parts
  BY <1>1 DEF FilesOf, Inv, Typed, TypeOK
<1>3. IsFiniteSet(mine)
  <2>1. PICK U : U = DOMAIN parts
    OBVIOUS
  <2>2. mine \in SUBSET U /\ IsFiniteSet(U)
    BY <1>2, <2>1
  <2> QED
    BY <2>2, FS_Subset
<1>4. PICK num : num = [k \in mine |-> k.seq]
  OBVIOUS
<1>5. Numbered(mine, num)
  <2>1. num \in [mine -> Nat]
    BY <1>2, <1>4 DEF PartKey
  <2>2. ASSUME NEW k \in mine, NEW l \in mine, num[k] = num[l] PROVE k = l
    BY <1>2, <1>4, <2>2 DEF PartKey
  <2> QED
    BY <2>1, <2>2 DEF Numbered
<1>6. PICK keys : keys = PartKeysOf(owner)
  OBVIOUS
<1>7. keys = CHOOSE ks \in [1 .. Cardinality(mine) -> mine] :
                \A i, j \in DOMAIN ks : i < j => ks[i].seq < ks[j].seq
  BY <1>1, <1>6 DEF PartKeysOf, FilesOf
<1>8. PICK ks \in [1 .. Cardinality(mine) -> mine] : ByNumber(ks, num)
  BY <1>3, <1>5, NumberedIsListable DEF Listable
<1>9. \A i, j \in DOMAIN ks : i < j => ks[i].seq < ks[j].seq
  <2>1. \A i \in DOMAIN ks : num[ks[i]] = ks[i].seq
    BY <1>4, <1>8
  <2> QED
    BY <1>8, <2>1 DEF ByNumber
<1>10. /\ keys \in [1 .. Cardinality(mine) -> mine]
       /\ \A i, j \in DOMAIN keys : i < j => keys[i].seq < keys[j].seq
  BY <1>7, <1>8, <1>9
<1>11. ByNumber(keys, num)
  <2>1. \A i \in DOMAIN keys : num[keys[i]] = keys[i].seq
    BY <1>4, <1>10
  <2> QED
    BY <1>10, <2>1 DEF ByNumber
<1>12. keys \in Seq(mine) /\ ToSet(keys) = mine /\ IsInjective(keys)
  BY <1>3, <1>5, <1>10, <1>11, ByNumberHasAll
<1> QED
  BY <1>1, <1>6, <1>12

\* The build lists the parts of the next partition.
LEMMA AlignList ==
    ASSUME Inv, AlignInv, ListParts, UNCHANGED vars
    PROVE  AlignInv'
<1>1. /\ stage = "list" /\ stage' = "parts" /\ lines' = <<>>
      /\ UNCHANGED <<parts, manifests, entries, ranges, corpus, partials, index>>
  BY DEF ListParts, vars, services
<1>2. PICK owner : owner = DocRange.owner
  OBVIOUS
<1>3. todo' \in Seq(DOMAIN parts)
  <2>1. todo' = PartKeysOf(owner)
    BY <1>2 DEF ListParts
  <2>2. PartKeysOf(owner) \in Seq(FilesOf(parts, owner))
    BY PartKeysAre DEF AlignInv, BuildTyped
  <2>3. FilesOf(parts, owner) \subseteq DOMAIN parts
    BY DEF FilesOf
  <2> QED
    BY <2>1, <2>2, <2>3, SeqMonotonic
<1>4. BuildTyped'
  BY <1>1, <1>3, EmptySeq DEF AlignInv, BuildTyped, Stages
<1>5. StageInv'
  BY <1>1 DEF AlignInv, StageInv, Counts
<1>6. PartialsInv' /\ IndexIsAligned'
  BY <1>1 DEF AlignInv, PartialsInv, PartialOk, PostingsOk, IndexIsAligned
<1> QED
  BY <1>4, <1>5, <1>6 DEF AlignInv

\* The build gets one part.
LEMMA AlignPart ==
    ASSUME Inv, AlignInv, GetPart, UNCHANGED vars
    PROVE  AlignInv'
<1>1. /\ stage = "parts"
      /\ UNCHANGED <<stage, parts, manifests, entries, ranges, corpus, partials, index>>
  BY DEF GetPart, vars, services
<1>2. PICK T, s : T = DOMAIN parts /\ s \in Seq(T) /\ s = todo /\ s # <<>>
  BY <1>1 DEF AlignInv, BuildTyped, GetPart
<1>3. Head(s) \in T /\ Tail(s) \in Seq(T)
  BY <1>2, RestIs
<1>4. PICK body \in Seq(Indexable) : body = parts[Head(s)]
  BY <1>2, <1>3 DEF Inv, Typed, TypeOK
<1>5. lines' = lines \o body /\ todo' = Tail(s)
  BY <1>2, <1>4 DEF GetPart
<1>6. lines' \in Seq(Indexable)
  BY <1>5, ConcatProperties DEF AlignInv, BuildTyped
<1>7. BuildTyped'
  BY <1>1, <1>2, <1>3, <1>5, <1>6 DEF AlignInv, BuildTyped
<1>8. StageInv'
  BY <1>1 DEF AlignInv, StageInv, Counts
<1>9. PartialsInv' /\ IndexIsAligned'
  BY <1>1 DEF AlignInv, PartialsInv, PartialOk, PostingsOk, IndexIsAligned
<1> QED
  BY <1>7, <1>8, <1>9 DEF AlignInv

\* The doc_ids a build has given so far are those of the corpus.
LEMMA RangesCover ==
    ASSUME NEW counts, NEW assigned, RangesOk(assigned, counts),
           NEW n \in Nat, n <= Len(assigned)
    PROVE  UNION {IdsOf(assigned[i]) : i \in 1 .. n} =
              0 .. (IF n = 0 THEN 0 ELSE assigned[n].end) - 1
<1> DEFINE End(m) == IF m = 0 THEN 0 ELSE assigned[m].end
           Ok(m)  == UNION {IdsOf(assigned[i]) : i \in 1 .. m} = 0 .. End(m) - 1
           Good   == {m \in 0 .. n : Ok(m)}
<1>1. PICK N \in Nat : N = Len(assigned) /\ DOMAIN assigned = 1 .. N
  BY LenProperties DEF RangesOk
<1>2. ASSUME NEW m \in 1 .. n
      PROVE  /\ assigned[m].start \in Nat /\ assigned[m].end \in Nat
             /\ assigned[m].start <= assigned[m].end /\ assigned[m].start = End(m - 1)
  <2>1. m \in 1 .. N
    BY <1>1
  <2>2. assigned[m] \in [owner: DOMAIN counts, start: Nat, end: Nat]
    BY <1>1, <2>1, ElementOfSeq DEF RangesOk
  <2>3. /\ assigned[m].start < assigned[m].end
        /\ assigned[m].start = IF m = 1 THEN 0 ELSE assigned[m - 1].end
    BY <1>1, <2>1 DEF RangesOk
  <2>4. m = 1 <=> m - 1 = 0
    OBVIOUS
  <2> QED
    BY <2>2, <2>3, <2>4
<1>3. Ok(0)
  <2>1. 1 .. 0 = {} /\ 0 .. -1 = {}
    OBVIOUS
  <2> QED
    BY <2>1
<1>4. ASSUME NEW m \in 1 .. n, m - 1 \in Good PROVE Ok(m)
  <2>1. Ok(m - 1)
    <3> HIDE DEF Ok
    <3> QED
      BY <1>4
  <2>2. 1 .. m = (1 .. m - 1) \cup {m}
    OBVIOUS
  <2>3. UNION {IdsOf(assigned[i]) : i \in 1 .. m}
           = (UNION {IdsOf(assigned[i]) : i \in 1 .. m - 1}) \cup IdsOf(assigned[m])
    <3>1. {IdsOf(assigned[i]) : i \in 1 .. m}
             = {IdsOf(assigned[i]) : i \in 1 .. m - 1} \cup {IdsOf(assigned[m])}
      BY <2>2
    <3> QED
      BY <3>1
  <2>4. PICK s \in Nat, e \in Nat :
           /\ s = assigned[m].start /\ e = assigned[m].end /\ s <= e
           /\ s = End(m - 1) /\ e = End(m)
    BY <1>2
  <2>5. UNION {IdsOf(assigned[i]) : i \in 1 .. m - 1} = 0 .. s - 1
    BY <2>1, <2>4
  <2>6. IdsOf(assigned[m]) = s .. e - 1
    BY <2>4 DEF IdsOf
  <2>7. (0 .. s - 1) \cup (s .. e - 1) = 0 .. e - 1
    BY <2>4
  <2> HIDE DEF End
  <2> QED
    BY <2>3, <2>4, <2>5, <2>6, <2>7
<1>5. Ok(n)
  <2> HIDE DEF Ok
  <2>1. 0 \in Good /\ \A m \in 1 .. n : m - 1 \in Good => m \in Good
    <3>1. \A m \in 1 .. n : m \in 0 .. n
      OBVIOUS
    <3> QED
      BY <1>3, <1>4, <3>1
  <2>2. \A m \in Good : Ok(m)
    OBVIOUS
  <2> HIDE DEF Good
  <2>3. 0 .. n \subseteq Good
    BY <2>1, UpTo
  <2> QED
    BY <2>2, <2>3
<1> QED
  BY <1>5

\* How far the corpus goes: to the range of the partition at hand.
LEMMA CorpusEnds ==
    ASSUME AlignInv
    PROVE  /\ Len(partials) \in Nat /\ DOMAIN partials = 1 .. Len(partials)
           /\ Len(ranges) \in Nat /\ DOMAIN ranges = 1 .. Len(ranges)
           /\ Len(partials) <= Len(ranges)
           /\ Len(corpus) \in Nat /\ Len(corpus) =
                 IF Len(partials) = 0 THEN 0 ELSE ranges[Len(partials)].end
           /\ \A i \in DOMAIN ranges :
                 /\ ranges[i].start \in Nat /\ ranges[i].end \in Nat
                 /\ ranges[i].start < ranges[i].end
           /\ \A i \in DOMAIN partials : ranges[i].end <= Len(corpus)
           /\ Len(partials) < Len(ranges) =>
                 Len(partials) + 1 \in DOMAIN ranges /\ DocRange.start = Len(corpus)
<1>1. partials \in Seq(Partials) /\ corpus \in Seq(Indexable)
  BY DEF AlignInv, BuildTyped
<1>2. PICK n \in Nat, m \in Nat : n = Len(partials) /\ m = Len(ranges)
  BY <1>1, LenProperties DEF AlignInv, StageInv, RangesOk
<1>3. /\ DOMAIN partials = 1 .. n /\ DOMAIN ranges = 1 .. m /\ n <= m
      /\ Len(corpus) \in Nat
  BY <1>1, <1>2, LenProperties DEF AlignInv, StageInv, RangesOk
<1>4. partials = <<>> <=> n = 0
  BY <1>1, <1>2, EmptySeq
<1>5. Len(corpus) = IF n = 0 THEN 0 ELSE ranges[n].end
  BY <1>2, <1>4 DEF AlignInv, StageInv
<1>6. ASSUME NEW i \in 1 .. m
      PROVE  /\ ranges[i].start \in Nat /\ ranges[i].end \in Nat
             /\ ranges[i].start < ranges[i].end
             /\ ranges[i].start = IF i = 1 THEN 0 ELSE ranges[i - 1].end
  <2>1. ranges[i] \in [owner: DOMAIN Counts, start: Nat, end: Nat]
    BY <1>2, <1>6, ElementOfSeq DEF AlignInv, StageInv, RangesOk
  <2> QED
    BY <1>3, <2>1 DEF AlignInv, StageInv, RangesOk
<1>7. ASSUME NEW i \in 1 .. n PROVE ranges[i].end <= Len(corpus)
  <2>1. i \in 1 .. m /\ n \in 1 .. m /\ n # 0 /\ Len(corpus) = ranges[n].end
    BY <1>3, <1>5
  <2>2. CASE i = n
    BY <1>6, <2>1, <2>2
  <2>3. CASE i # n
    <3>1. i < n
      BY <2>3
    <3>2. ranges[i].end <= ranges[n].start
      BY <1>3, <2>1, <3>1 DEF AlignInv, StageInv, RangesOk
    <3> QED
      BY <1>6, <2>1, <3>2
  <2> QED
    BY <2>2, <2>3
<1>8. ASSUME n < m PROVE n + 1 \in 1 .. m /\ DocRange.start = Len(corpus)
  <2>1. n + 1 \in 1 .. m /\ n + 1 - 1 = n /\ (n + 1 = 1 <=> n = 0)
    BY <1>8
  <2>2. DocRange = ranges[n + 1]
    BY <1>2 DEF DocRange
  <2> QED
    BY <1>5, <1>6, <2>1, <2>2
<1> QED
  BY <1>2, <1>3, <1>5, <1>6, <1>7, <1>8

\* The partition is complete.
LEMMA AlignPartition ==
    ASSUME Inv, AlignInv, IndexPartition, UNCHANGED vars
    PROVE  AlignInv'
<1>1. /\ stage = "parts"
      /\ UNCHANGED <<todo, parts, manifests, entries, ranges, lines, index>>
  BY DEF IndexPartition, vars, services
<1>2. PICK n \in Nat : n = Len(partials)
  BY CorpusEnds
<1>3. /\ n < Len(ranges) /\ n + 1 \in DOMAIN ranges /\ DocRange = ranges[n + 1]
  BY <1>1, <1>2, CorpusEnds DEF AlignInv, StageInv, DocRange
<1>4. PICK start \in Nat, end \in Nat :
         /\ start = DocRange.start /\ end = DocRange.end
         /\ start = Len(corpus) /\ start < end
  BY <1>2, <1>3, CorpusEnds
<1>5. PICK text \in Seq(Indexable) : text = lines
  BY DEF AlignInv, BuildTyped
<1>6. PICK before \in Seq(Indexable) : before = corpus
  BY DEF AlignInv, BuildTyped
<1>7. CASE Len(text) # end - start
  <2>1. stage' = "failed" /\ UNCHANGED <<ranges, corpus, partials>>
    BY <1>4, <1>5, <1>7 DEF IndexPartition
  <2>2. BuildTyped'
    BY <1>1, <2>1 DEF AlignInv, BuildTyped, Stages
  <2>3. StageInv'
    BY <1>1, <2>1 DEF AlignInv, StageInv, Counts
  <2>4. PartialsInv' /\ IndexIsAligned'
    BY <1>1, <2>1 DEF AlignInv, PartialsInv, PartialOk, PostingsOk, IndexIsAligned
  <2> QED
    BY <2>2, <2>3, <2>4 DEF AlignInv
<1>8. CASE Len(text) = end - start
  <2>1. PICK moved : moved = RemapIndex(LocalIndex(text, TermsOf, Term), start)
    OBVIOUS
  <2>2. /\ corpus' = before \o text /\ partials' = Append(partials, moved)
        /\ stage' = IF Len(partials') < Len(ranges') THEN "list" ELSE "merge"
    BY <1>4, <1>5, <1>6, <1>8, <2>1 DEF IndexPartition, NextPartition
  <2>3. moved \in Partials
    BY <2>1 DEF Partials
  <2>4. /\ partials' \in Seq(Partials) /\ Len(partials') = n + 1
        /\ \A i \in 1 .. n : partials'[i] = partials[i]
        /\ partials'[n + 1] = moved
    <3>1. partials \in Seq(Partials)
      BY DEF AlignInv, BuildTyped
    <3> QED
      BY <1>2, <2>2, <2>3, <3>1, AppendProperties
  <2>5. DOMAIN partials' = 1 .. n + 1 /\ 1 .. n + 1 = (1 .. n) \cup {n + 1}
    BY <2>4, LenProperties
  <2>6. /\ corpus' \in Seq(Indexable) /\ Len(corpus') = end
        /\ \A d \in 0 .. start - 1 : corpus'[d + 1] = before[d + 1]
        /\ \A d \in start .. end - 1 : corpus'[d + 1] = text[d - start + 1]
    <3>1. Len(before) = start
      BY <1>4, <1>6
    <3>2. PICK after : after = before \o text
      OBVIOUS
    <3>3. /\ after \in Seq(Indexable) /\ Len(after) = Len(before) + Len(text)
          /\ \A i \in 1 .. Len(before) : after[i] = before[i]
          /\ \A i \in 1 .. Len(text) : after[Len(before) + i] = text[i]
          /\ Len(text) \in Nat
      BY <3>2, ConcatIs
    <3>4. ASSUME NEW d \in 0 .. start - 1 PROVE after[d + 1] = before[d + 1]
      <4>1. d + 1 \in 1 .. Len(before)
        BY <3>1
      <4> QED
        BY <3>3, <4>1
    <3>5. ASSUME NEW d \in start .. end - 1 PROVE after[d + 1] = text[d - start + 1]
      <4>1. d - start + 1 \in 1 .. Len(text) /\ start + (d - start + 1) = d + 1
        BY <1>8
      <4> QED
        BY <3>1, <3>3, <4>1
    <3> QED
      BY <1>8, <2>2, <3>1, <3>2, <3>3, <3>4, <3>5
  <2>7. /\ moved.documents = [d \in start .. end - 1 |-> text[d - start + 1]]
        /\ \A t \in Term :
              /\ moved.postings[t] \in Seq(Nat) /\ Ascending(moved.postings[t])
              /\ ToSet(moved.postings[t]) =
                    {d \in start .. end - 1 : t \in TermsOf[text[d - start + 1]]}
    <3>1. start + Len(text) - 1 = end - 1
      BY <1>8
    <3>a. LET all == RemapIndex(LocalIndex(text, TermsOf, Term), start)
              ids == start .. start + Len(text) - 1
          IN  /\ all.documents = [d \in ids |-> text[d - start + 1]]
              /\ \A t \in Term :
                    /\ all.postings[t] \in Seq(Nat) /\ Ascending(all.postings[t])
                    /\ \A d : d \in ToSet(all.postings[t]) <=>
                          d \in ids /\ t \in TermsOf[text[d - start + 1]]
      BY RemapIs
    <3>2. moved.documents = [d \in start .. start + Len(text) - 1 |-> text[d - start + 1]]
      BY <2>1, <3>a
    <3>3. \A t \in Term :
             /\ moved.postings[t] \in Seq(Nat) /\ Ascending(moved.postings[t])
             /\ \A d : d \in ToSet(moved.postings[t]) <=>
                   d \in start .. start + Len(text) - 1 /\ t \in TermsOf[text[d - start + 1]]
      BY <2>1, <3>a
    <3>4. PICK ids : ids = start .. start + Len(text) - 1
      OBVIOUS
    <3>5. ids = start .. end - 1
      BY <3>1, <3>4
    <3>6. /\ moved.documents = [d \in ids |-> text[d - start + 1]]
          /\ \A t \in Term :
                /\ moved.postings[t] \in Seq(Nat) /\ Ascending(moved.postings[t])
                /\ ToSet(moved.postings[t]) = {d \in ids : t \in TermsOf[text[d - start + 1]]}
      BY <3>2, <3>3, <3>4
    <3> QED
      BY <3>5, <3>6
  <2>8. PICK after : after = corpus'
    OBVIOUS
  <2>9. PartialOk(partials[n + 1], IdsOf(ranges[n + 1]))'
    <3>1. IdsOf(ranges[n + 1])' = start .. end - 1
      BY <1>1, <1>3, <1>4 DEF IdsOf
    <3>2. moved.documents = [d \in start .. end - 1 |-> after[d + 1]]
      BY <2>6, <2>7, <2>8
    <3>3. \A t \in Term : ToSet(moved.postings[t]) =
             {d \in start .. end - 1 : t \in TermsOf[after[d + 1]]}
      BY <2>6, <2>7, <2>8
    <3>4. partials'[n + 1] = moved
      BY <2>4
    <3> QED
      BY <2>7, <2>8, <3>1, <3>2, <3>3, <3>4 DEF PartialOk, PostingsOk
  <2>10. ASSUME NEW i \in 1 .. n PROVE PartialOk(partials[i], IdsOf(ranges[i]))'
    <3>1. PICK p, ids : p = partials[i] /\ ids = IdsOf(ranges[i])
      OBVIOUS
    <3>2. PartialOk(p, ids)
      BY <1>2, <3>1, CorpusEnds DEF AlignInv, PartialsInv
    <3>3. \A d \in ids : after[d + 1] = corpus[d + 1]
      <4>1. /\ i \in DOMAIN partials /\ i \in DOMAIN ranges
            /\ ranges[i].start \in Nat /\ ranges[i].end \in Nat
            /\ ranges[i].end <= start
        BY <1>2, <1>4, CorpusEnds
      <4>2. ids \subseteq 0 .. start - 1
        BY <3>1, <4>1 DEF IdsOf
      <4> QED
        BY <1>6, <2>6, <2>8, <4>2
    <3>4. p.documents = [d \in ids |-> after[d + 1]]
      BY <3>2, <3>3 DEF PartialOk
    <3>5. \A t \in Term : /\ p.postings[t] \in Seq(Nat) /\ Ascending(p.postings[t])
                          /\ ToSet(p.postings[t]) = {d \in ids : t \in TermsOf[after[d + 1]]}
      BY <3>2, <3>3 DEF PartialOk, PostingsOk
    <3>6. partials'[i] = p /\ IdsOf(ranges[i])' = ids
      BY <1>1, <2>4, <3>1 DEF IdsOf
    <3> QED
      BY <2>8, <3>4, <3>5, <3>6 DEF PartialOk, PostingsOk
  <2>11. PartialsInv'
    BY <2>5, <2>9, <2>10 DEF PartialsInv
  <2>12. stage' \in {"list", "merge"}
    BY <2>2
  <2>13. BuildTyped'
    BY <1>1, <2>4, <2>6, <2>12 DEF AlignInv, BuildTyped, Stages
  <2>14. StageInv'
    <3>1. PICK m \in Nat : m = Len(ranges) /\ DOMAIN ranges = 1 .. m
      BY CorpusEnds
    <3>2. Len(partials') = n + 1 /\ Len(ranges') = m /\ n + 1 <= m
      BY <1>1, <1>3, <2>4, <3>1
    <3>3. stage' = "list" => Len(partials') < Len(ranges')
      BY <2>2
    <3>4. stage' = "merge" => Len(partials') = Len(ranges')
      BY <2>2, <3>2
    <3>5. partials' # <<>>
      BY <2>4, EmptySeq
    <3>6. Len(corpus') = ranges'[Len(partials')].end
      BY <1>1, <1>3, <1>4, <2>6, <3>2
    <3>7. RangesOk(ranges, Counts)'
      BY <1>1 DEF AlignInv, StageInv, Counts
    <3> QED
      BY <2>12, <3>2, <3>3, <3>4, <3>5, <3>6, <3>7 DEF StageInv
  <2> QED
    BY <2>11, <2>12, <2>13, <2>14 DEF AlignInv, IndexIsAligned
<1> QED
  BY <1>7, <1>8

\* The partial indexes of all partitions make one that is aligned.
LEMMA MergedIsAligned ==
    ASSUME AlignInv, Len(partials) = Len(ranges),
           NEW merged, merged = MergeIndexes(partials, Term)
    PROVE  /\ merged.documents = [d \in DocIds |-> corpus[d + 1]]
           /\ \A t \in Term :
                 /\ ToSet(merged.postings[t]) = {d \in DocIds : t \in TermsOf[corpus[d + 1]]}
                 /\ Ascending(merged.postings[t])
<1>1. PICK n \in Nat : n = Len(partials) /\ DOMAIN partials = 1 .. n /\ DOMAIN ranges = 1 .. n
  BY CorpusEnds
<1>2. PICK ids : ids = [i \in 1 .. n |-> IdsOf(ranges[i])]
  OBVIOUS
<1>3. \A i \in 1 .. n : PartialOk(partials[i], ids[i])
  BY <1>1, <1>2 DEF AlignInv, PartialsInv
<1>4. UNION {ids[i] : i \in 1 .. n} = DocIds
  <2>1. UNION {IdsOf(ranges[i]) : i \in 1 .. n} = 0 .. (IF n = 0 THEN 0 ELSE ranges[n].end) - 1
    <3>1. PICK counts, assigned : counts = Counts /\ assigned = ranges
      OBVIOUS
    <3>2. RangesOk(assigned, counts) /\ n <= Len(assigned)
      BY <1>1, <3>1 DEF AlignInv, StageInv
    <3> QED
      BY <3>1, <3>2, RangesCover
  <2>2. {ids[i] : i \in 1 .. n} = {IdsOf(ranges[i]) : i \in 1 .. n}
    BY <1>2
  <2>3. Len(corpus) = IF n = 0 THEN 0 ELSE ranges[n].end
    BY <1>1, CorpusEnds
  <2> QED
    BY <2>1, <2>2, <2>3 DEF DocIds
<1>5. \A i, j \in 1 .. n : i < j => \A x \in ids[i], y \in ids[j] : x < y
  <2> SUFFICES ASSUME NEW i \in 1 .. n, NEW j \in 1 .. n, i < j,
                      NEW x \in ids[i], NEW y \in ids[j]
               PROVE  x < y
    OBVIOUS
  <2>1. x \in ranges[i].start .. ranges[i].end - 1 /\ y \in ranges[j].start .. ranges[j].end - 1
    BY <1>2 DEF IdsOf
  <2>2. ranges[i].end <= ranges[j].start
    BY <1>1 DEF AlignInv, StageInv, RangesOk
  <2>3. /\ ranges[i].start \in Nat /\ ranges[i].end \in Nat
        /\ ranges[j].start \in Nat /\ ranges[j].end \in Nat
    BY <1>1, CorpusEnds
  <2> QED
    BY <2>1, <2>2, <2>3
<1>6. merged.documents = [d \in DocIds |-> corpus[d + 1]]
  <2>1. \A i \in 1 .. n : /\ DOMAIN partials[i].documents = ids[i]
                          /\ \A d \in ids[i] : partials[i].documents[d] = corpus[d + 1]
    BY <1>3 DEF PartialOk
  <2>2. {DOMAIN partials[i].documents : i \in DOMAIN partials} = {ids[i] : i \in 1 .. n}
    BY <1>1, <2>1
  <2>3. merged.documents =
           [d \in DocIds |->
               LET i == CHOOSE m \in DOMAIN partials : d \in DOMAIN partials[m].documents
               IN  partials[i].documents[d]]
    BY <1>4, <2>2 DEF MergeIndexes
  <2>4. ASSUME NEW d \in DocIds
        PROVE  LET i == CHOOSE m \in DOMAIN partials : d \in DOMAIN partials[m].documents
               IN  partials[i].documents[d] = corpus[d + 1]
    <3>1. PICK i : i = CHOOSE m \in DOMAIN partials : d \in DOMAIN partials[m].documents
      OBVIOUS
    <3>2. \E m \in DOMAIN partials : d \in DOMAIN partials[m].documents
      <4>1. PICK m \in 1 .. n : d \in ids[m]
        BY <1>4
      <4> QED
        BY <1>1, <2>1, <4>1
    <3>3. i \in DOMAIN partials /\ d \in DOMAIN partials[i].documents
      BY <3>1, <3>2
    <3>4. partials[i].documents[d] = corpus[d + 1]
      BY <1>1, <2>1, <3>3
    <3> QED
      BY <3>1, <3>4
  <2> QED
    BY <2>3, <2>4
<1>7. ASSUME NEW t \in Term
      PROVE  /\ ToSet(merged.postings[t]) = {d \in DocIds : t \in TermsOf[corpus[d + 1]]}
             /\ Ascending(merged.postings[t])
  <2>1. PICK lists : lists = [i \in DOMAIN partials |-> partials[i].postings[t]]
    OBVIOUS
  <2>2. merged.postings[t] = FlattenSeq(lists)
    BY <2>1 DEF MergeIndexes
  <2>3. \A i \in 1 .. n :
           /\ lists[i] \in Seq(Nat) /\ Ascending(lists[i])
           /\ ToSet(lists[i]) = {d \in ids[i] : t \in TermsOf[corpus[d + 1]]}
    BY <1>1, <1>3, <2>1 DEF PartialOk, PostingsOk
  <2>4. DOMAIN lists = 1 .. n /\ lists \in Seq(Seq(Nat))
    <3>1. lists \in [1 .. n -> Seq(Nat)]
      BY <1>1, <2>1, <2>3
    <3> QED
      BY <3>1, SeqDef
  <2>5. \A i, j \in DOMAIN lists :
           i < j => \A x \in ToSet(lists[i]), y \in ToSet(lists[j]) : x < y
    <3>1. \A i \in 1 .. n : ToSet(lists[i]) \subseteq ids[i]
      BY <2>3
    <3> QED
      BY <1>5, <2>4, <3>1
  <2>6. \A i \in DOMAIN lists : Ascending(lists[i])
    BY <2>3, <2>4
  <2>7. /\ Ascending(FlattenSeq(lists))
        /\ ToSet(FlattenSeq(lists)) = UNION {ToSet(lists[i]) : i \in DOMAIN lists}
    BY <2>4, <2>5, <2>6, FlattenIs
  <2>8. UNION {ToSet(lists[i]) : i \in 1 .. n} = {d \in DocIds : t \in TermsOf[corpus[d + 1]]}
    <3>1. PICK found : found = {d \in DocIds : t \in TermsOf[corpus[d + 1]]}
      OBVIOUS
    <3>2. ASSUME NEW i \in 1 .. n PROVE ToSet(lists[i]) \subseteq found
      <4>1. ids[i] \subseteq DocIds
        BY <1>4
      <4> QED
        BY <2>3, <3>1, <4>1
    <3>3. ASSUME NEW d \in found PROVE \E i \in 1 .. n : d \in ToSet(lists[i])
      <4>1. PICK i \in 1 .. n : d \in ids[i]
        BY <1>4, <3>1
      <4>2. d \in ToSet(lists[i])
        BY <2>3, <3>1, <4>1
      <4> QED
        BY <4>2
    <3> QED
      BY <3>1, <3>2, <3>3
  <2> QED
    BY <2>2, <2>4, <2>7, <2>8
<1> QED
  BY <1>6, <1>7

\* The merged index is aligned.
LEMMA AlignMerge ==
    ASSUME Inv, AlignInv, Merge, UNCHANGED vars
    PROVE  AlignInv'
<1>1. /\ stage = "merge" /\ stage' \in {"built", "failed"}
      /\ stage' = "built" => index' = MergeIndexes(partials, Term)
      /\ UNCHANGED <<todo, parts, manifests, entries, ranges, lines, corpus, partials>>
  BY DEF Merge, vars, services
<1>2. BuildTyped'
  BY <1>1 DEF AlignInv, BuildTyped, Stages
<1>3. StageInv'
  BY <1>1 DEF AlignInv, StageInv, Counts
<1>4. PartialsInv'
  <2> SUFFICES ASSUME NEW i \in DOMAIN partials
               PROVE  PartialOk(partials[i], IdsOf(ranges[i]))'
    BY <1>1 DEF PartialsInv
  <2>1. PartialOk(partials[i], IdsOf(ranges[i]))
    BY DEF AlignInv, PartialsInv
  <2> QED
    BY <1>1, <2>1 DEF PartialOk, PostingsOk, IdsOf
<1>5. ASSUME stage' = "built" PROVE IndexIsAligned'
  <2>1. PICK merged : merged = MergeIndexes(partials, Term)
    OBVIOUS
  <2>2. Len(partials) = Len(ranges)
    BY <1>1 DEF AlignInv, StageInv
  <2>3. /\ merged.documents = [d \in DocIds |-> corpus[d + 1]]
        /\ \A t \in Term :
              /\ ToSet(merged.postings[t]) = {d \in DocIds : t \in TermsOf[corpus[d + 1]]}
              /\ Ascending(merged.postings[t])
    BY <2>1, <2>2, MergedIsAligned
  <2>4. index' = merged /\ corpus' = corpus /\ DocIds' = DocIds
    BY <1>1, <1>5, <2>1 DEF DocIds
  <2> QED
    BY <2>3, <2>4 DEF IndexIsAligned, Ascending
<1> QED
  BY <1>2, <1>3, <1>4, <1>5 DEF AlignInv, IndexIsAligned

\* A step of the build with the workers is one of the workers, or leaves them
\* alone.
LEMMA BuildIsOfWorkers == BuildSpec => Spec
<1>1. BuildInit => Init
  BY DEF BuildInit
<1>2. [BuildNext]_allVars => [Next]_vars
  BY DEF BuildNext, allVars
<1> QED
  BY <1>1, <1>2, PTL DEF BuildSpec, Spec

\* Every step of the build and of the workers keeps it.
LEMMA AlignNext == ASSUME Inv, AlignInv, [BuildNext]_allVars PROVE AlignInv'
<1>1. CASE BuildStep /\ UNCHANGED vars
  BY <1>1, AlignStart, AlignFragment, AlignList, AlignPart, AlignPartition, AlignMerge
     DEF BuildStep
<1>2. CASE [Next]_vars /\ UNCHANGED building
  BY <1>2, AlignWorkers
<1> QED
  BY <1>1, <1>2 DEF BuildNext, allVars, buildVars

\* What a build knows of its own is so in every state.
LEMMA AlignInvariant == BuildSpec => []AlignInv
<1>1. AlignInv /\ Inv /\ [BuildNext]_allVars => AlignInv'
  BY AlignNext
<1> QED
  BY <1>1, AlignInit, BuildIsOfWorkers, PartInvariant, PTL DEF BuildSpec

\* What a build hands over is aligned, whatever the workers write meanwhile,
\* for any number of workers, pages, terms and crashes, and whether or not a
\* worker keeps its identity: merged documents, posting lists and corpus speak
\* of the same document by the same doc_id.
THEOREM BuiltIndexIsAligned == BuildSpec => []IndexIsAligned
<1>1. AlignInv => IndexIsAligned
  BY DEF AlignInv
<1> QED
  BY <1>1, AlignInvariant, PTL
-----------------------------------------------------------------------------
(***************************************************************************)
(* The corpus and its catalog.                                             *)
(***************************************************************************)
\* What the workers promise a build.
PromiseInv ==
    /\ \A k \in DOMAIN parts : parts[k] # <<>>
    /\ \A k \in DOMAIN parts :
          k.owner \in DOMAIN manifests /\ k.seq < manifests[k.owner].files =>
              manifests[k.owner].count.documents > 0
    /\ DOMAIN manifests \subseteq ToSet(KeyOrder)
    /\ \A o \in ToSet(KeyOrder) : IsFiniteSet(LinesOf(parts, o))
    /\ crashes <= MaxCrashes
    /\ \A w \in Worker : /\ runs[w] <= crashes
                         /\ pc[w] = "crashed" => runs[w] < crashes

\* What was materialised so far.
Materialised == IF stage = "parts" THEN corpus \o lines ELSE corpus

\* An entry of the catalog says where the documents of its part are.
EntryOk(entry) ==
    /\ entry.key \in DOMAIN parts
    /\ entry.count = Len(parts[entry.key])
    /\ EndOf(entry) <= Len(Materialised)
    /\ \A n \in 1 .. entry.count : Materialised[entry.start + n] = parts[entry.key][n]

CatalogInv ==
    /\ catalog \in Seq([key: PartKey, start: Nat, count: Nat \ {0}])
    /\ \A i \in DOMAIN catalog : EntryOk(catalog[i])
    /\ \A i, j \in DOMAIN catalog : i < j => EndOf(catalog[i]) <= catalog[j].start
    /\ \A n \in DOMAIN Materialised :
          \E i \in DOMAIN catalog : catalog[i].start < n /\ n <= EndOf(catalog[i])

\* A part is read with the others of its owner, and once.
PartRead(k, i) ==
    /\ ranges[i].owner = k.owner
    /\ \/ i <= Len(partials)
       \/ i = Len(partials) + 1 /\ stage = "parts" /\ k \notin ToSet(todo)

OnceReadInv ==
    /\ stage = "parts" => /\ IsInjective(todo)
                          /\ \A k \in ToSet(todo) : k.owner = DocRange.owner
    /\ \A i \in DOMAIN catalog : \E j \in DOMAIN ranges : PartRead(catalog[i].key, j)
    /\ IsInjective(Materialised)

\* A part with declared documents is in the catalog, or still to come.
Awaited(k) ==
    IF stage = "fragments"
    THEN /\ k.owner \in DOMAIN manifests /\ manifests[k.owner].count.documents > 0
         /\ k.owner \notin ToSet(todo) =>
               k.owner \in DOMAIN entries /\ entries[k.owner].count.documents > 0
    ELSE \/ \E i \in DOMAIN catalog : catalog[i].key = k
         \/ \E j \in DOMAIN ranges :
               /\ ranges[j].owner = k.owner
               /\ \/ j > Len(partials) + 1
                  \/ j = Len(partials) + 1 /\ stage = "list"
                  \/ j = Len(partials) + 1 /\ stage = "parts" /\ k \in ToSet(todo)

AwaitInv ==
    stage # "idle" =>
        \A p \in declared : \E k \in DOMAIN parts : p \in ToSet(parts[k]) /\ Awaited(k)

CorpusInv == stage = "failed" \/ (CatalogInv /\ OnceReadInv /\ AwaitInv)

-----------------------------------------------------------------------------
(***************************************************************************)
(* What the workers promise a build, when each has an identity of its own. *)
(***************************************************************************)
\* A part is among the lines of its owner.
LEMMA PartHasLines ==
    ASSUME NEW k \in DOMAIN parts, parts[k] \in Seq(Indexable), parts[k] # <<>>,
           IsFiniteSet(LinesOf(parts, k.owner))
    PROVE  Cardinality(LinesOf(parts, k.owner)) \in Nat \ {0}
<1>1. PICK body \in Seq(Indexable) : body = parts[k] /\ body # <<>>
  OBVIOUS
<1>2. Len(body) \in Nat \ {0} /\ DOMAIN body = 1 .. Len(body)
  BY <1>1, EmptySeq, LenProperties
<1>3. 1 \in DOMAIN parts[k]
  BY <1>1, <1>2
<1>4. PICK all : all = LinesOf(parts, k.owner)
  OBVIOUS
<1>5. <<k, 1>> \in all
  BY <1>3, <1>4 DEF LinesOf, FilesOf
<1>6. IsFiniteSet(all) /\ all # {}
  BY <1>4, <1>5
<1>7. Cardinality(all) \in Nat /\ Cardinality(all) # 0
  BY <1>6, FS_CardinalityType, FS_EmptySet
<1> QED
  BY <1>4, <1>7

\* A fragment that is written over counts the documents of its parts.
LEMMA DeclaredCount ==
    ASSUME Inv, Distinct, FragmentInv, PromiseInv, NEW w \in Worker, PutManifest(w),
           NEW k \in DOMAIN parts, k.owner = WorkerId(w)
    PROVE  written[w].documents > 0
<1>1. pc[w] = "manifest"
  BY DEF PutManifest
<1>2. CountedOk(w, WorkerId(w))
  BY <1>1 DEF FragmentInv, FragmentOk
<1>3. Cardinality(LinesOf(parts, k.owner)) = written[w].documents
  <2>1. Cardinality(LinesOf(parts, WorkerId(w))) =
           written[w].documents + (IF pc[w] = "feed" THEN Len(documents[w]) ELSE 0)
    BY <1>2 DEF CountedOk
  <2>2. written[w].documents \in Nat
    BY DEF Inv, Typed, TypeOK
  <2> QED
    BY <1>1, <2>1, <2>2
<1>4. IsFiniteSet(LinesOf(parts, k.owner))
  BY <1>2 DEF CountedOk
<1>5. parts[k] \in Seq(Indexable) /\ parts[k] # <<>>
  BY DEF Inv, Typed, TypeOK, PromiseInv
<1>6. Cardinality(LinesOf(parts, k.owner)) \in Nat \ {0}
  BY <1>4, <1>5, PartHasLines
<1> QED
  BY <1>3, <1>6

\* Before the first part there is nothing to promise.
LEMMA PromiseInit == Init => PromiseInv
<1> SUFFICES ASSUME Init PROVE PromiseInv
  OBVIOUS
<1>1. DOMAIN parts = {} /\ DOMAIN manifests = {}
  BY DEF Init, NoObjects
<1>2. \A o : LinesOf(parts, o) = {}
  BY <1>1 DEF LinesOf, FilesOf
<1>3. /\ crashes = 0 /\ MaxCrashes \in Nat
      /\ \A w \in Worker : runs[w] = 0 /\ pc[w] # "crashed"
  BY ExtractAssumption DEF Init
<1>4. IsFiniteSet({})
  BY FS_EmptySet
<1> QED
  <2>1. crashes <= MaxCrashes /\ \A w \in Worker : runs[w] <= crashes /\ pc[w] # "crashed"
    BY <1>3
  <2>2. \A o \in ToSet(KeyOrder) : IsFiniteSet(LinesOf(parts, o))
    BY <1>2, <1>4
  <2> QED
    BY <1>1, <2>1, <2>2 DEF PromiseInv

\* A new part has documents, and its lines are one more finite set.
LEMMA PromiseParts ==
    ASSUME Inv, Inv', Distinct, Distinct', FragmentInv, PromiseInv,
           NEW w \in Worker, PutDocuments(w)
    PROVE  PromiseInv'
<1>1. /\ pc[w] = "parts"
      /\ UNCHANGED <<manifests, runs, crashes>>
      /\ \A v \in Worker : pc'[v] = "crashed" => pc[v] = "crashed"
  BY DEF PutDocuments, Goto, history, Inv, Typed, TypeOK
<1>2. PICK body \in Seq(Indexable) : body = documents[w] /\ body # <<>>
  BY <1>1 DEF Inv, Typed, TypeOK, BufferInv, BufferOk
<1>3. PICK key : key = PartKeyOf(w)
  OBVIOUS
<1>4. key \notin DOMAIN parts /\ key.owner = WorkerId(w) /\ key.seq = partSeq[w]
  BY <1>1, <1>3, NextPartIsNew, OwnIds DEF Distinct
<1>5. PICK old, new : old = parts /\ new = PutObject(old, key, body)
  OBVIOUS
<1>6. parts' = new
  BY <1>2, <1>3, <1>5 DEF PutDocuments
<1>7. /\ DOMAIN new = DOMAIN old \cup {key} /\ new[key] = body
      /\ \A l \in DOMAIN old : new[l] = old[l]
  BY <1>4, <1>5 DEF PutObject
<1>8. \A k \in DOMAIN new : new[k] # <<>>
  BY <1>2, <1>5, <1>7 DEF PromiseInv
<1>9. ASSUME NEW k \in DOMAIN new, k.owner \in DOMAIN manifests,
             k.seq < manifests[k.owner].files
      PROVE  manifests[k.owner].count.documents > 0
  <2>1. CASE k \in DOMAIN old
    BY <1>5, <1>9, <2>1 DEF PromiseInv
  <2>2. CASE k = key
    <3>1. CountedOk(w, WorkerId(w))
      BY <1>1 DEF FragmentInv, FragmentOk
    <3>2. manifests[k.owner].files = partSeq[w]
      BY <1>1, <1>4, <1>9, <2>2, <3>1 DEF CountedOk
    <3>3. partSeq[w] \in Nat
      BY DEF Inv, Typed, TypeOK
    <3> QED
      BY <1>4, <1>9, <2>2, <3>2, <3>3
  <2> QED
    BY <1>7, <2>1, <2>2
<1>10. ASSUME NEW o \in ToSet(KeyOrder) PROVE IsFiniteSet(LinesOf(new, o))
  <2>1. IsFiniteSet(LinesOf(old, o))
    BY <1>5 DEF PromiseInv
  <2>2. PICK n \in Nat : DOMAIN body = 1 .. n
    BY LenProperties
  <2>3. key \notin DOMAIN old
    BY <1>4, <1>5
  <2>4. /\ key.owner = o => IsFiniteSet(LinesOf(new, o))
        /\ key.owner # o => LinesOf(new, o) = LinesOf(old, o)
    BY <1>5, <2>1, <2>2, <2>3, LinesAdded
  <2> QED
    BY <2>1, <2>4
<1> QED
  BY <1>1, <1>6, <1>8, <1>9, <1>10 DEF PromiseInv

\* The new fragment is under a key there can be, and counts its documents.
LEMMA PromiseManifest ==
    ASSUME Inv, Inv', Distinct, Distinct', FragmentInv, PromiseInv,
           NEW w \in Worker, PutManifest(w)
    PROVE  PromiseInv'
<1>1. /\ UNCHANGED <<parts, runs, crashes>>
      /\ \A v \in Worker : pc'[v] = "crashed" => pc[v] = "crashed"
  BY DEF PutManifest, Goto, history, Inv, Typed, TypeOK
<1>2. PICK id : id = WorkerId(w) /\ id = <<w, runs[w]>>
  BY OwnIds
<1>3. id \in ToSet(KeyOrder)
  <2>1. runs[w] \in Nat /\ crashes \in Nat /\ MaxCrashes \in Nat
    BY ExtractAssumption DEF Inv, Typed, TypeOK
  <2>2. runs[w] <= crashes /\ crashes <= MaxCrashes
    BY DEF PromiseInv
  <2>3. runs[w] \in 0 .. MaxCrashes
    BY <2>1, <2>2
  <2> QED
    BY <1>2, <2>3, BuildAssumption
<1>4. /\ DOMAIN manifests' = DOMAIN manifests \cup {id}
      /\ manifests'[id].count = written[w]
      /\ \A o \in DOMAIN manifests : o # id => manifests'[o] = manifests[o]
  BY <1>2 DEF PutManifest, PutObject
<1>5. ASSUME NEW k \in DOMAIN parts, k.owner \in DOMAIN manifests',
             k.seq < manifests'[k.owner].files
      PROVE  manifests'[k.owner].count.documents > 0
  <2>1. CASE k.owner = id
    BY <1>2, <1>4, <2>1, DeclaredCount
  <2>2. CASE k.owner # id
    BY <1>4, <1>5, <2>2 DEF PromiseInv
  <2> QED
    BY <2>1, <2>2
<1>6. DOMAIN manifests' \subseteq ToSet(KeyOrder)
  BY <1>3, <1>4 DEF PromiseInv
<1> QED
  BY <1>1, <1>5, <1>6 DEF PromiseInv

\* Every step of the workers keeps their promise.
LEMMA PromiseNext ==
    ASSUME Inv, Inv', Distinct, Distinct', FragmentInv, PromiseInv, [Next]_vars
    PROVE  PromiseInv'
<1>a. /\ pc \in [Worker -> Steps] /\ crashes \in Nat /\ runs \in [Worker -> Nat]
      /\ MaxCrashes \in Nat
  BY ExtractAssumption DEF Inv, Typed, TypeOK
<1>1. ASSUME NEW w \in Worker, Crash(w) PROVE PromiseInv'
  <2>1. /\ UNCHANGED <<parts, manifests, runs>> /\ crashes' = crashes + 1
        /\ crashes < MaxCrashes
    BY <1>1 DEF Crash, services
  <2>2. \A v \in Worker : runs[v] \in Nat /\ runs[v] <= crashes
    BY <1>a DEF PromiseInv
  <2>3. \A v \in Worker : runs'[v] <= crashes' /\ runs'[v] < crashes'
    BY <1>a, <2>1, <2>2
  <2>4. crashes' <= MaxCrashes
    BY <1>a, <2>1
  <2> QED
    BY <2>1, <2>3, <2>4 DEF PromiseInv
<1>2. ASSUME NEW w \in Worker, Restart(w) PROVE PromiseInv'
  <2>1. /\ UNCHANGED <<parts, manifests, crashes>> /\ pc[w] = "crashed"
        /\ runs' = [runs EXCEPT ![w] = @ + 1] /\ pc' = [pc EXCEPT ![w] = "poll"]
    BY <1>2 DEF Restart, services, Goto
  <2>2. ASSUME NEW v \in Worker
        PROVE  runs'[v] <= crashes' /\ (pc'[v] = "crashed" => runs'[v] < crashes')
    <3>1. CASE v = w
      <4>1. runs[w] < crashes /\ runs[w] \in Nat /\ runs'[v] = runs[w] + 1
        BY <1>a, <2>1, <3>1 DEF PromiseInv
      <4>2. pc'[v] = "poll"
        BY <1>a, <2>1, <3>1
      <4> QED
        BY <1>a, <2>1, <4>1, <4>2
    <3>2. CASE v # w
      BY <1>a, <2>1, <3>2 DEF PromiseInv
    <3> QED
      BY <3>1, <3>2
  <2> QED
    BY <2>1, <2>2 DEF PromiseInv
<1>3. ASSUME UNCHANGED <<parts, manifests, runs, crashes>>,
             \A w \in Worker : pc'[w] = "crashed" => pc[w] = "crashed"
      PROVE  PromiseInv'
  BY <1>3 DEF PromiseInv
<1>4. ASSUME NEW w \in Worker, Step(w), ~PutDocuments(w), ~PutManifest(w)
      PROVE  /\ UNCHANGED <<parts, manifests, runs, crashes>>
             /\ \A v \in Worker : pc'[v] = "crashed" => pc[v] = "crashed"
  <2>1. UNCHANGED <<parts, manifests, runs, crashes>>
    BY <1>4 DEF Step, Receive, IdlePoll, StopAtMaxPages, ReadPage, ReadMissing, FeedUpdate,
                PutDiscarded, AckCurrent, services, history
  <2> SUFFICES \A v \in Worker : pc'[v] = "crashed" => pc[v] = "crashed"
    BY <2>1
  <2>2. CASE Receive(w) \/ ReadMissing(w)
    BY <1>a, <2>2 DEF Receive, ReadMissing, Goto
  <2>3. CASE IdlePoll(w) \/ StopAtMaxPages(w)
    BY <1>a, <2>3 DEF IdlePoll, StopAtMaxPages, LastFlush, FlushStep, Goto
  <2>4. CASE ReadPage(w)
    BY <1>a, <2>4 DEF ReadPage, FlushStep, Goto
  <2>5. CASE FeedUpdate(w)
    BY <1>a, <2>5 DEF FeedUpdate, FlushStep, Goto
  <2>6. CASE PutDiscarded(w) \/ AckCurrent(w)
    BY <1>a, <2>6 DEF PutDiscarded, AckCurrent, Goto
  <2> QED
    BY <1>4, <2>2, <2>3, <2>4, <2>5, <2>6 DEF Step
<1>5. ASSUME NEW p \in Page, Announce(p)
      PROVE  UNCHANGED <<parts, manifests, runs, crashes, pc>>
  BY <1>5 DEF Announce, history
<1>6. UNCHANGED vars => UNCHANGED <<parts, manifests, runs, crashes, pc>>
  BY DEF vars, services, history
<1>7. CASE \E p \in Page : Announce(p)
  BY <1>3, <1>5, <1>7
<1>8. CASE UNCHANGED vars
  BY <1>3, <1>6, <1>8
<1>9. CASE \E w \in Worker : Step(w) \/ Crash(w) \/ Restart(w)
  BY <1>1, <1>2, <1>3, <1>4, <1>9, PromiseParts, PromiseManifest
<1> QED
  BY <1>7, <1>8, <1>9 DEF Next

\* The workers keep their promise for as long as identities are distinct.
LEMMA PromiseInvariant == Spec => [](Inv /\ (Distinct => FragmentInv /\ PromiseInv))
<1>1. Inv /\ Inv' /\ (Distinct => FragmentInv /\ PromiseInv) /\ [Next]_vars
        => (Distinct' => FragmentInv' /\ PromiseInv')
  <2> SUFFICES ASSUME Inv, Inv', Distinct => FragmentInv /\ PromiseInv, [Next]_vars,
                      Distinct'
               PROVE  FragmentInv' /\ PromiseInv'
    OBVIOUS
  <2>1. Distinct
    BY CrashStep DEF Inv
  <2> QED
    BY <2>1, FragmentNext, PromiseNext
<1> QED
  BY <1>1, PartInvariant, FragmentInit, PromiseInit, PTL DEF Spec

-----------------------------------------------------------------------------
(***************************************************************************)
(* The corpus is what the catalog says, and nothing is left out.           *)
(***************************************************************************)
CorpusOk == CatalogInv /\ OnceReadInv /\ AwaitInv

\* What was materialised is a text, as long as the corpus and the partition at
\* hand.
LEMMA MaterialisedIs ==
    ASSUME AlignInv
    PROVE  /\ Materialised \in Seq(Indexable)
           /\ Len(Materialised) \in Nat /\ DOMAIN Materialised = 1 .. Len(Materialised)
           /\ stage = "parts" => Len(Materialised) = Len(corpus) + Len(lines)
<1>1. PICK c \in Seq(Indexable), l \in Seq(Indexable) : c = corpus /\ l = lines
  BY DEF AlignInv, BuildTyped
<1>2. c \o l \in Seq(Indexable) /\ Len(c \o l) = Len(c) + Len(l)
  BY ConcatProperties
<1>3. PICK m \in Seq(Indexable) : m = Materialised
  BY <1>1, <1>2 DEF Materialised
<1>4. Len(m) \in Nat /\ DOMAIN m = 1 .. Len(m)
  BY LenProperties
<1>5. stage = "parts" => Len(m) = Len(corpus) + Len(lines)
  BY <1>1, <1>2, <1>3 DEF Materialised
<1> QED
  BY <1>3, <1>4, <1>5

\* What the catalog says stays true of final parts.
LEMMA CatalogStays ==
    ASSUME CatalogInv, Final(parts, parts'), catalog' = catalog,
           Materialised' = Materialised
    PROVE  CatalogInv'
<1>1. ASSUME NEW i \in DOMAIN catalog PROVE EntryOk(catalog[i])'
  <2>1. EntryOk(catalog[i])
    BY DEF CatalogInv
  <2>2. catalog[i].key \in DOMAIN parts' /\ parts'[catalog[i].key] = parts[catalog[i].key]
    BY <2>1 DEF EntryOk, Final
  <2> QED
    BY <2>1, <2>2 DEF EntryOk
<1> QED
  BY <1>1 DEF CatalogInv

\* A step of a worker leaves the materialised documents alone, and takes no
\* declared document away.
LEMMA CorpusWorkers ==
    ASSUME Inv, Distinct, FragmentInv, PromiseInv, AlignInv, CorpusOk,
           [Next]_vars, UNCHANGED building
    PROVE  CorpusOk'
<1>1. UNCHANGED <<stage, todo, entries, ranges, lines, corpus, catalog, partials, declared>>
  BY DEF building
<1>2. Final(parts, parts')
  BY NextIsFinal DEF Distinct
<1>3. Materialised' = Materialised
  BY <1>1 DEF Materialised
<1>4. CatalogInv'
  BY <1>1, <1>2, <1>3, CatalogStays DEF CorpusOk
<1>5. OnceReadInv'
  BY <1>1, <1>3 DEF CorpusOk, OnceReadInv, PartRead, DocRange
<1>6. ASSUME NEW k \in DOMAIN parts, Awaited(k) PROVE Awaited(k)'
  <2>1. CASE stage = "fragments"
    <3>1. k.owner \in DOMAIN manifests /\ manifests[k.owner].count.documents > 0
      BY <1>6, <2>1 DEF Awaited
    <3>2. k.owner \in DOMAIN manifests' /\ manifests'[k.owner].count.documents > 0
      <4>1. CASE manifests' = manifests
        BY <3>1, <4>1
      <4>2. ASSUME NEW w \in Worker, PutManifest(w)
            PROVE  k.owner \in DOMAIN manifests' /\ manifests'[k.owner].count.documents > 0
        <5>1. PICK id : id = WorkerId(w)
          OBVIOUS
        <5>2. /\ DOMAIN manifests' = DOMAIN manifests \cup {id}
              /\ manifests'[id].count = written[w]
              /\ \A o \in DOMAIN manifests : o # id => manifests'[o] = manifests[o]
          BY <4>2, <5>1 DEF PutManifest, PutObject
        <5>3. k.owner = id => written[w].documents > 0
          BY <4>2, <5>1, DeclaredCount
        <5> QED
          BY <3>1, <5>2, <5>3
      <4> QED
        BY <4>1, <4>2, WorkersWrite
    <3> QED
      BY <1>1, <1>6, <2>1, <3>2 DEF Awaited
  <2>2. CASE stage # "fragments"
    BY <1>1, <1>6, <2>2 DEF Awaited
  <2> QED
    BY <2>1, <2>2
<1>7. AwaitInv'
  BY <1>1, <1>2, <1>6 DEF CorpusOk, AwaitInv, Final
<1> QED
  BY <1>4, <1>5, <1>7 DEF CorpusOk

\* An empty catalog says nothing of an empty corpus.
LEMMA CorpusInit == BuildInit => CorpusOk
<1> SUFFICES ASSUME BuildInit PROVE CorpusOk
  OBVIOUS
<1>1. stage = "idle" /\ catalog = <<>> /\ corpus = <<>> /\ Materialised = <<>>
  BY DEF BuildInit, Materialised
<1>2. CatalogInv
  BY <1>1, EmptySeq DEF CatalogInv
<1>3. OnceReadInv
  BY <1>1, EmptyRange DEF OnceReadInv
<1> QED
  BY <1>1, <1>2, <1>3 DEF CorpusOk, AwaitInv

\* The documents declared at the start have their fragments still to come.
LEMMA CorpusStart ==
    ASSUME Inv, PromiseInv, AlignInv, CorpusOk, StartBuild, UNCHANGED vars
    PROVE  CorpusOk'
<1>1. /\ stage = "idle" /\ stage' \in {"merge", "fragments"}
      /\ UNCHANGED <<parts, manifests, entries, ranges, lines, corpus, catalog, partials>>
  BY DEF StartBuild, vars, services
<1>2. Materialised' = Materialised
  BY <1>1 DEF Materialised
<1>3. CatalogInv'
  BY <1>1, <1>2, CatalogStays DEF CorpusOk, Final
<1>4. OnceReadInv'
  BY <1>1, <1>2 DEF CorpusOk, OnceReadInv, PartRead
<1>5. PICK listed : listed = {l \in DOMAIN parts : /\ l.owner \in DOMAIN manifests
                                                   /\ l.seq < manifests[l.owner].files}
  OBVIOUS
<1>6. declared' = PagesIn([k \in listed |-> parts[k]])
  BY <1>5 DEF StartBuild
<1>7. PICK selected : selected = SelectIn(KeyOrder, DOMAIN manifests)
  OBVIOUS
<1>8. ToSet(selected) = DOMAIN manifests
  <2>1. PICK S : S = DOMAIN manifests
    OBVIOUS
  <2>2. ToSet(SelectIn(KeyOrder, S)) = ToSet(KeyOrder) \cap S
    BY BuildAssumption, SelectInIs
  <2>3. S \subseteq ToSet(KeyOrder)
    BY <2>1 DEF PromiseInv
  <2> QED
    BY <1>7, <2>1, <2>2, <2>3
<1>9. ASSUME NEW p \in declared'
      PROVE  \E k \in DOMAIN parts' : p \in ToSet(parts'[k]) /\ Awaited(k)'
  <2>1. PICK k \in listed : p \in ToSet(parts[k])
    BY <1>6 DEF PagesIn
  <2>2. /\ k \in DOMAIN parts /\ k.owner \in DOMAIN manifests
        /\ manifests[k.owner].count.documents > 0
    BY <1>5 DEF PromiseInv
  <2>3. k.owner \in ToSet(selected)
    BY <1>8, <2>2
  <2>4. todo' = selected /\ stage' = "fragments"
    BY <1>7, <2>3, EmptyRange DEF StartBuild
  <2>5. Awaited(k)'
    BY <1>1, <2>2, <2>3, <2>4 DEF Awaited
  <2> QED
    BY <1>1, <2>1, <2>2, <2>5
<1> QED
  BY <1>3, <1>4, <1>9 DEF CorpusOk, AwaitInv

\* A fragment that was read is waited for no more, but its partition is.
LEMMA CorpusFragment ==
    ASSUME Inv, AlignInv, CorpusOk, GetFragment, UNCHANGED vars
    PROVE  CorpusOk'
<1>1. /\ stage = "fragments" /\ ranges = <<>>
      /\ UNCHANGED <<parts, manifests, lines, corpus, catalog, partials, declared>>
  BY DEF GetFragment, AlignInv, StageInv, vars, services
<1>2. PICK T, s :
         /\ T = ToSet(KeyOrder) \cap DOMAIN manifests
         /\ s \in Seq(T) /\ s = todo /\ s # <<>>
  BY <1>1 DEF AlignInv, BuildTyped
<1>3. PICK o, rest : o = Head(s) /\ rest = Tail(s)
  OBVIOUS
<1>4. /\ o \in T /\ ToSet(s) = {o} \cup ToSet(rest) /\ (Len(s) > 1 <=> rest # <<>>)
  BY <1>2, <1>3, RestIs
<1>5. /\ todo' = rest
      /\ DOMAIN entries' = DOMAIN entries \cup {o} /\ entries'[o] = manifests[o]
      /\ \A l \in DOMAIN entries : l # o => entries'[l] = entries[l]
  BY <1>2, <1>3 DEF GetFragment, PutObject
<1>6. stage' \in {"fragments", "list", "merge"}
  BY <1>1 DEF GetFragment, NextPartition
<1>7. Materialised' = Materialised
  BY <1>1, <1>6 DEF Materialised
<1>8. CatalogInv'
  BY <1>1, <1>7, CatalogStays DEF CorpusOk, Final
<1>9. OnceReadInv'
  <2>1. \A i \in DOMAIN catalog : FALSE
    BY <1>1 DEF CorpusOk, OnceReadInv
  <2> QED
    BY <1>1, <1>6, <1>7, <2>1 DEF CorpusOk, OnceReadInv
<1>10. ASSUME NEW k, Awaited(k)
       PROVE  /\ k.owner \in DOMAIN manifests /\ manifests[k.owner].count.documents > 0
              /\ k.owner \notin ToSet(rest) =>
                    k.owner \in DOMAIN entries' /\ entries'[k.owner].count.documents > 0
  BY <1>1, <1>2, <1>4, <1>5, <1>10 DEF Awaited
<1>11. CASE Len(todo) > 1
  <2>1. stage' = "fragments"
    BY <1>1, <1>11 DEF GetFragment
  <2>2. ASSUME NEW k, Awaited(k) PROVE Awaited(k)'
    BY <1>1, <1>5, <1>10, <2>1, <2>2 DEF Awaited
  <2>3. AwaitInv'
    BY <1>1, <2>2 DEF CorpusOk, AwaitInv
  <2> QED
    BY <1>8, <1>9, <2>3 DEF CorpusOk
<1>12. CASE ~(Len(todo) > 1)
  <2>1. /\ ranges' = ComputeDocIdRanges(KeyOrder, entries')
        /\ stage' = IF Len(partials') < Len(ranges') THEN "list" ELSE "merge"
    BY <1>12 DEF GetFragment, NextPartition
  <2>2. AlignInv'
    BY AlignFragment
  <2>3. PICK counts, D : counts = Counts' /\ D = DOMAIN entries'
    OBVIOUS
  <2>4. /\ counts \in [D -> Nat] /\ D \subseteq ToSet(KeyOrder)
        /\ \A e \in D : counts[e] = entries'[e].count.documents
    <3>1. D \subseteq ToSet(KeyOrder) /\ \A e \in D : entries'[e] \in Fragment
      BY <2>2, <2>3 DEF AlignInv, BuildTyped
    <3>2. \A e \in D : entries'[e].count.documents \in Nat
      BY <3>1 DEF Fragment
    <3>3. counts = [e \in D |-> entries'[e].count.documents]
      BY <2>3 DEF Counts
    <3> QED
      BY <3>1, <3>2, <3>3
  <2>5. ranges' = AssignRanges(KeyOrder, counts)
    BY <2>1, <2>3 DEF ComputeDocIdRanges, Counts
  <2>6. OwnersOf(ranges') = {e \in ToSet(KeyOrder) \cap D : counts[e] > 0}
    <3>1. OwnersOf(AssignRanges(KeyOrder, counts)) =
             {e \in ToSet(KeyOrder) \cap D : counts[e] > 0}
      BY <2>4, BuildAssumption, AssignRangesIs
    <3> QED
      BY <2>5, <3>1
  <2>7. Len(partials') = 0
    <3>1. PICK list \in Seq(Partials) : list = partials
      BY DEF AlignInv, BuildTyped
    <3>2. Len(partials) <= Len(ranges) /\ Len(ranges) = 0
      BY <1>1, EmptySeq DEF AlignInv, StageInv
    <3>3. Len(list) = 0
      BY <3>1, <3>2, LenProperties
    <3> QED
      BY <1>1, <3>1, <3>3
  <2>8. rest = <<>>
    BY <1>2, <1>4, <1>12
  <2>9. ASSUME NEW k, Awaited(k) PROVE Awaited(k)'
    <3>1. k.owner \in DOMAIN entries' /\ entries'[k.owner].count.documents > 0
      BY <1>10, <2>8, <2>9, EmptyRange
    <3>2. PICK j \in DOMAIN ranges' : ranges'[j].owner = k.owner
      BY <2>3, <2>4, <2>6, <3>1 DEF OwnersOf
    <3>3. /\ DOMAIN ranges' = 1 .. Len(ranges') /\ Len(ranges') \in Nat
      <4>1. PICK R : ranges' \in Seq(R)
        BY <2>2 DEF AlignInv, StageInv, RangesOk
      <4> QED
        BY <4>1, LenProperties
    <3>4. stage' = "list" /\ (j = Len(partials') + 1 \/ j > Len(partials') + 1)
      BY <2>1, <2>7, <3>2, <3>3
    <3> QED
      BY <3>2, <3>4 DEF Awaited
  <2>10. AwaitInv'
    BY <1>1, <2>9 DEF CorpusOk, AwaitInv
  <2> QED
    BY <1>8, <1>9, <2>10 DEF CorpusOk
<1> QED
  BY <1>11, <1>12

\* The listing of a partition has all the parts of its owner.
LEMMA CorpusList ==
    ASSUME Inv, AlignInv, CorpusOk, ListParts, UNCHANGED vars
    PROVE  CorpusOk'
<1>1. /\ stage = "list" /\ stage' = "parts" /\ lines' = <<>>
      /\ UNCHANGED <<parts, manifests, entries, ranges, corpus, catalog, partials, declared>>
  BY DEF ListParts, vars, services
<1>2. PICK owner : owner = DocRange.owner
  OBVIOUS
<1>3. /\ ToSet(todo') = FilesOf(parts, owner) /\ IsInjective(todo')
  BY <1>2, PartKeysAre DEF ListParts, AlignInv, BuildTyped
<1>4. DocRange' = DocRange
  BY <1>1 DEF DocRange
<1>5. Materialised' = Materialised
  <2>1. corpus \o <<>> = corpus
    BY ConcatEmptySeq DEF AlignInv, BuildTyped
  <2> QED
    BY <1>1, <2>1 DEF Materialised
<1>6. CatalogInv'
  BY <1>1, <1>5, CatalogStays DEF CorpusOk, Final
<1>7. OnceReadInv'
  <2>1. \A k \in ToSet(todo') : k.owner = DocRange'.owner
    BY <1>2, <1>3, <1>4 DEF FilesOf
  <2>2. \A i \in DOMAIN catalog : \E j \in DOMAIN ranges : PartRead(catalog[i].key, j)'
    BY <1>1 DEF CorpusOk, OnceReadInv, PartRead
  <2> QED
    BY <1>1, <1>3, <1>5, <2>1, <2>2 DEF CorpusOk, OnceReadInv
<1>8. ASSUME NEW k \in DOMAIN parts, Awaited(k) PROVE Awaited(k)'
  <2>1. CASE \E i \in DOMAIN catalog : catalog[i].key = k
    BY <1>1, <2>1 DEF Awaited
  <2>2. CASE \E j \in DOMAIN ranges : /\ ranges[j].owner = k.owner
                                      /\ j > Len(partials) + 1 \/ j = Len(partials) + 1
    <3>1. PICK j \in DOMAIN ranges : /\ ranges[j].owner = k.owner
                                     /\ j > Len(partials) + 1 \/ j = Len(partials) + 1
      BY <2>2
    <3>2. j = Len(partials) + 1 => k \in ToSet(todo')
      BY <1>2, <1>3, <3>1 DEF FilesOf, DocRange
    <3> QED
      BY <1>1, <3>1, <3>2 DEF Awaited
  <2> QED
    BY <1>1, <1>8, <2>1, <2>2 DEF Awaited
<1>9. AwaitInv'
  BY <1>1, <1>8 DEF CorpusOk, AwaitInv
<1> QED
  BY <1>6, <1>7, <1>9 DEF CorpusOk

\* Two lists without repetitions and without a common element make one.
LEMMA ConcatOnce ==
    ASSUME NEW T, NEW s \in Seq(T), NEW u \in Seq(T), IsInjective(s), IsInjective(u),
           \A a \in DOMAIN s, b \in DOMAIN u : s[a] # u[b]
    PROVE  IsInjective(s \o u)
<1>a. PICK both : both = s \o u
  OBVIOUS
<1>1. PICK m \in Nat, n \in Nat : m = Len(s) /\ n = Len(u) /\ both = s \o u
  BY <1>a, ConcatIs
<1>2. /\ DOMAIN s = 1 .. m /\ DOMAIN u = 1 .. n /\ DOMAIN both = 1 .. m + n
      /\ \A i \in 1 .. m : both[i] = s[i]
      /\ \A i \in 1 .. n : both[m + i] = u[i]
  BY <1>1, ConcatIs
<1>3. \A i \in 1 .. m + n : i \in 1 .. m \/ (i - m \in 1 .. n /\ i = m + (i - m))
  OBVIOUS
<1>4. ASSUME NEW i \in 1 .. m + n, NEW j \in 1 .. m + n, both[i] = both[j]
      PROVE  i = j
  <2>1. CASE i \in 1 .. m /\ j \in 1 .. m
    BY <1>2, <1>4, <2>1 DEF IsInjective
  <2>2. CASE i \notin 1 .. m /\ j \notin 1 .. m
    <3>1. PICK a \in 1 .. n, b \in 1 .. n : i = m + a /\ j = m + b
      BY <1>3, <2>2
    <3>2. a = b
      BY <1>2, <1>4, <3>1 DEF IsInjective
    <3> QED
      BY <3>1, <3>2
  <2>3. CASE i \in 1 .. m /\ j \notin 1 .. m
    <3>1. PICK b \in 1 .. n : j = m + b
      BY <1>3, <2>3
    <3> QED
      BY <1>2, <1>4, <2>3, <3>1
  <2>4. CASE i \notin 1 .. m /\ j \in 1 .. m
    <3>1. PICK a \in 1 .. n : i = m + a
      BY <1>3, <2>4
    <3> QED
      BY <1>2, <1>4, <2>4, <3>1
  <2> QED
    BY <2>1, <2>2, <2>3, <2>4
<1> QED
  BY <1>1, <1>2, <1>4 DEF IsInjective

\* A part that the build has read is not one of those it still has to get.
LEMMA ReadIsDone ==
    ASSUME AlignInv, OnceReadInv, stage = "parts", NEW i \in DOMAIN catalog
    PROVE  catalog[i].key \notin ToSet(todo)
<1> SUFFICES ASSUME catalog[i].key \in ToSet(todo) PROVE FALSE
  OBVIOUS
<1>1. PICK j \in DOMAIN ranges : PartRead(catalog[i].key, j)
  BY DEF OnceReadInv
<1>2. PICK n \in Nat : n = Len(partials) /\ n < Len(ranges) /\ n + 1 \in DOMAIN ranges
  BY CorpusEnds DEF AlignInv, StageInv
<1>3. ranges[j].owner = ranges[n + 1].owner /\ j <= n
  BY <1>1, <1>2 DEF PartRead, OnceReadInv, DocRange
<1>4. j \in Nat
  BY CorpusEnds
<1> QED
  BY <1>2, <1>3, <1>4 DEF AlignInv, StageInv, RangesOk

\* The next part goes to the end of what was materialised.
LEMMA CorpusPart ==
    ASSUME Inv, PromiseInv, NothingTwice, AlignInv, CorpusOk, GetPart, UNCHANGED vars
    PROVE  CorpusOk'
<1>1. /\ stage = "parts" /\ stage' = "parts" /\ todo # <<>>
      /\ UNCHANGED <<parts, manifests, entries, ranges, corpus, partials, declared>>
  BY DEF GetPart, vars, services
<1>2. PICK P, s : P = DOMAIN parts /\ s \in Seq(P) /\ s = todo /\ s # <<>>
  BY <1>1 DEF AlignInv, BuildTyped
<1>3. PICK key, rest : key = Head(s) /\ rest = Tail(s)
  OBVIOUS
<1>4. /\ key \in DOMAIN parts /\ ToSet(s) = {key} \cup ToSet(rest)
      /\ IsInjective(s) => IsInjective(rest) /\ key \notin ToSet(rest)
  BY <1>2, <1>3, RestIs
<1>5. /\ IsInjective(rest) /\ key \notin ToSet(rest)
      /\ key.owner = DocRange.owner /\ \A k \in ToSet(rest) : k.owner = DocRange.owner
  BY <1>1, <1>2, <1>4 DEF CorpusOk, OnceReadInv
<1>6. PICK body \in Seq(Indexable) : body = parts[key] /\ body # <<>>
  BY <1>4 DEF PromiseInv, Inv, Typed, TypeOK
<1>7. PICK m \in Nat : m = Len(body) /\ m > 0 /\ DOMAIN body = 1 .. m
  <2>1. Len(body) \in Nat /\ Len(body) # 0 /\ DOMAIN body = 1 .. Len(body)
    BY <1>6, EmptySeq, LenProperties
  <2>2. Len(body) > 0
    BY <2>1
  <2> QED
    BY <2>1, <2>2
<1>8. PICK mat \in Seq(Indexable) : mat = Materialised
  BY MaterialisedIs
<1>9. PICK z \in Nat : z = Len(mat) /\ DOMAIN mat = 1 .. z
  BY LenProperties
<1>10. DocRange.start + Len(lines) = z
  <2>1. Len(partials) < Len(ranges)
    BY <1>1 DEF AlignInv, StageInv
  <2>2. DocRange.start = Len(corpus)
    BY <2>1, CorpusEnds
  <2> QED
    BY <1>1, <1>8, <1>9, <2>2, MaterialisedIs
<1>11. PICK new : new = [key |-> key, start |-> z, count |-> m]
  OBVIOUS
<1>12. /\ lines' = lines \o body /\ todo' = rest /\ catalog' = Append(catalog, new)
  BY <1>2, <1>3, <1>6, <1>7, <1>10, <1>11 DEF GetPart
<1>13. PICK after : after = mat \o body
  OBVIOUS
<1>14. /\ DOMAIN after = 1 .. z + m /\ Len(after) = z + m
       /\ \A i \in 1 .. z : after[i] = mat[i]
       /\ \A i \in 1 .. m : after[z + i] = body[i]
  BY <1>7, <1>9, <1>13, ConcatIs
<1>15. Materialised' = after
  <2>1. corpus \in Seq(Indexable) /\ lines \in Seq(Indexable)
    BY DEF AlignInv, BuildTyped
  <2>2. (corpus \o lines) \o body = corpus \o (lines \o body)
    BY <2>1, ConcatAssociative
  <2> QED
    BY <1>1, <1>8, <1>12, <1>13, <2>2 DEF Materialised
<1>b. PICK T : T = [key: PartKey, start: Nat, count: Nat \ {0}]
  OBVIOUS
<1>16. PICK n \in Nat :
          /\ T = [key: PartKey, start: Nat, count: Nat \ {0}]
          /\ catalog \in Seq(T) /\ n = Len(catalog) /\ DOMAIN catalog = 1 .. n
  BY <1>b, LenProperties DEF CorpusOk, CatalogInv
<1>17. new \in T
  BY <1>4, <1>7, <1>11, <1>16 DEF Inv, Typed, TypeOK
<1>18. /\ catalog' \in Seq(T) /\ DOMAIN catalog' = 1 .. n + 1
       /\ \A i \in 1 .. n : catalog'[i] = catalog[i]
       /\ catalog'[n + 1] = new
  <2>1. /\ Append(catalog, new) \in Seq(T) /\ Len(Append(catalog, new)) = n + 1
        /\ \A i \in 1 .. n : Append(catalog, new)[i] = catalog[i]
        /\ Append(catalog, new)[n + 1] = new
    BY <1>16, <1>17, AppendProperties
  <2> QED
    BY <1>12, <2>1, LenProperties
<1>19. \A i \in 1 .. n + 1 : i \in 1 .. n \/ i = n + 1
  OBVIOUS
<1>20. ASSUME NEW i \in 1 .. n
       PROVE  /\ catalog[i].key \in DOMAIN parts
              /\ catalog[i].start \in Nat /\ catalog[i].count \in Nat
              /\ catalog[i].count = Len(parts[catalog[i].key])
              /\ EndOf(catalog[i]) = catalog[i].start + catalog[i].count
              /\ EndOf(catalog[i]) <= z
              /\ \A x \in 1 .. catalog[i].count :
                    mat[catalog[i].start + x] = parts[catalog[i].key][x]
  <2>1. catalog[i] \in T
    BY <1>16, ElementOfSeq
  <2>2. EntryOk(catalog[i])
    BY <1>16 DEF CorpusOk, CatalogInv
  <2> QED
    BY <1>8, <1>9, <1>16, <2>1, <2>2 DEF EntryOk, EndOf
<1>21. CatalogInv'
  <2>1. ASSUME NEW i \in 1 .. n PROVE EntryOk(catalog[i])'
    <3>1. \A x \in 1 .. catalog[i].count : catalog[i].start + x \in 1 .. z
      BY <1>20
    <3>2. \A x \in 1 .. catalog[i].count :
             after[catalog[i].start + x] = parts[catalog[i].key][x]
      BY <1>14, <1>20, <3>1
    <3>3. EndOf(catalog[i]) <= z + m
      BY <1>20
    <3> QED
      BY <1>1, <1>14, <1>15, <1>18, <1>20, <3>2, <3>3 DEF EntryOk, EndOf
  <2>2. EntryOk(catalog[n + 1])'
    BY <1>1, <1>4, <1>6, <1>7, <1>11, <1>14, <1>15, <1>18 DEF EntryOk, EndOf
  <2>3. ASSUME NEW i \in 1 .. n + 1, NEW j \in 1 .. n + 1, i < j
        PROVE  EndOf(catalog'[i]) <= catalog'[j].start
    <3>1. i \in 1 .. n
      BY <2>3
    <3>2. CASE j \in 1 .. n
      BY <1>16, <1>18, <2>3, <3>1, <3>2 DEF CorpusOk, CatalogInv
    <3>3. CASE j = n + 1
      BY <1>11, <1>18, <1>20, <3>1, <3>3
    <3> QED
      BY <1>19, <3>2, <3>3
  <2>4. ASSUME NEW x \in 1 .. z + m
        PROVE  \E i \in 1 .. n + 1 : catalog'[i].start < x /\ x <= EndOf(catalog'[i])
    <3>1. CASE x \in 1 .. z
      <4>1. PICK i \in 1 .. n : catalog[i].start < x /\ x <= EndOf(catalog[i])
        BY <1>8, <1>9, <1>16, <3>1 DEF CorpusOk, CatalogInv
      <4>2. i \in 1 .. n + 1
        OBVIOUS
      <4> QED
        BY <1>18, <4>1, <4>2
    <3>2. CASE x \notin 1 .. z
      <4>1. z < x /\ x <= z + m /\ n + 1 \in 1 .. n + 1
        BY <3>2
      <4> QED
        BY <1>11, <1>18, <4>1 DEF EndOf
    <3> QED
      BY <3>1, <3>2
  <2> QED
    BY <1>14, <1>15, <1>16, <1>18, <1>19, <2>1, <2>2, <2>3, <2>4 DEF CatalogInv
<1>22. PICK p \in Nat : p = Len(partials) /\ p + 1 \in DOMAIN ranges /\ DocRange = ranges[p + 1]
  BY <1>1, CorpusEnds DEF AlignInv, StageInv, DocRange
<1>23. ASSUME NEW i \in 1 .. n + 1
       PROVE  \E j \in DOMAIN ranges : PartRead(catalog[i].key, j)'
  <2>1. CASE i \in 1 .. n
    <3>1. PICK j \in DOMAIN ranges : PartRead(catalog[i].key, j)
      BY <1>16, <2>1 DEF CorpusOk, OnceReadInv
    <3>2. ToSet(rest) \subseteq ToSet(todo)
      BY <1>2, <1>4
    <3> QED
      BY <1>1, <1>12, <1>18, <2>1, <3>1, <3>2 DEF PartRead
  <2>2. CASE i = n + 1
    BY <1>1, <1>5, <1>11, <1>12, <1>18, <1>22, <2>2 DEF PartRead
  <2> QED
    BY <1>19, <2>1, <2>2
<1>24. IsInjective(after)
  <2>1. IsInjective(mat)
    BY <1>8 DEF CorpusOk, OnceReadInv
  <2>2. IsInjective(body)
    BY <1>4, <1>6 DEF NothingTwice
  <2>3. ASSUME NEW a \in 1 .. z, NEW b \in 1 .. m PROVE mat[a] # body[b]
    <3>1. PICK i \in 1 .. n : catalog[i].start < a /\ a <= EndOf(catalog[i])
      BY <1>8, <1>9, <1>16 DEF CorpusOk, CatalogInv
    <3>2. PICK l \in DOMAIN parts, x \in 1 .. catalog[i].count :
             l = catalog[i].key /\ mat[a] = parts[l][x] /\ x \in 1 .. Len(parts[l])
      <4>1. a - catalog[i].start \in 1 .. catalog[i].count
        BY <1>20, <3>1
      <4>2. catalog[i].start + (a - catalog[i].start) = a
        BY <1>20
      <4>3. PICK x, l : x = a - catalog[i].start /\ l = catalog[i].key
        OBVIOUS
      <4>4. l \in DOMAIN parts /\ mat[a] = parts[l][x] /\ x \in 1 .. Len(parts[l])
        BY <1>20, <4>1, <4>2, <4>3
      <4> QED
        BY <4>1, <4>3, <4>4
    <3>3. l # key
      BY <1>1, <1>2, <1>4, <1>16, <3>2, ReadIsDone DEF CorpusOk
    <3>4. mat[a] \in ToSet(parts[l])
      <4>1. PICK other \in Seq(Indexable) : other = parts[l]
        BY DEF Inv, Typed, TypeOK
      <4>2. x \in DOMAIN other
        BY <3>2, <4>1, LenProperties
      <4> QED
        BY <3>2, <4>1, <4>2 DEF ToSet
    <3>5. body[b] \in ToSet(parts[key])
      BY <1>6, <1>7 DEF ToSet
    <3> QED
      BY <1>4, <3>3, <3>4, <3>5 DEF NothingTwice
  <2> QED
    BY <1>7, <1>9, <1>13, <2>1, <2>2, <2>3, ConcatOnce
<1>25. OnceReadInv'
  <2>1. DocRange' = DocRange
    BY <1>1 DEF DocRange
  <2> QED
    BY <1>1, <1>5, <1>12, <1>15, <1>18, <1>23, <1>24, <2>1 DEF OnceReadInv
<1>26. ASSUME NEW k \in DOMAIN parts, Awaited(k) PROVE Awaited(k)'
  <2>1. CASE \E i \in DOMAIN catalog : catalog[i].key = k
    <3>1. PICK i \in 1 .. n : catalog[i].key = k
      BY <1>16, <2>1
    <3>2. i \in 1 .. n + 1
      OBVIOUS
    <3> QED
      BY <1>1, <1>18, <3>1, <3>2 DEF Awaited
  <2>2. CASE k = key
    <3>1. n + 1 \in 1 .. n + 1
      OBVIOUS
    <3> QED
      BY <1>1, <1>11, <1>18, <2>2, <3>1 DEF Awaited
  <2>3. ASSUME NEW j \in DOMAIN ranges, ranges[j].owner = k.owner,
               j > Len(partials) + 1
        PROVE  Awaited(k)'
    BY <1>1, <2>3 DEF Awaited
  <2>4. ASSUME NEW j \in DOMAIN ranges, ranges[j].owner = k.owner,
               j = Len(partials) + 1, k \in ToSet(todo), k # key
        PROVE  Awaited(k)'
    BY <1>1, <1>2, <1>4, <1>12, <2>4 DEF Awaited
  <2> QED
    BY <1>1, <1>26, <2>1, <2>2, <2>3, <2>4 DEF Awaited
<1>27. AwaitInv'
  BY <1>1, <1>26 DEF CorpusOk, AwaitInv
<1> QED
  BY <1>21, <1>25, <1>27 DEF CorpusOk

\* The partition at hand joins the corpus, if it is what its fragment counts.
LEMMA CorpusPartition ==
    ASSUME AlignInv, CorpusOk, IndexPartition, UNCHANGED vars
    PROVE  CorpusInv'
<1>1. /\ stage = "parts" /\ todo = <<>>
      /\ UNCHANGED <<parts, manifests, todo, entries, ranges, lines, catalog, declared>>
  BY DEF IndexPartition, vars, services
<1>2. CASE stage' = "failed"
  BY <1>2 DEF CorpusInv
<1>3. CASE stage' # "failed"
  <2>1. PICK n \in Nat, z \in Nat :
           /\ n = Len(partials) /\ z = Len(ranges) /\ n < z
           /\ DOMAIN ranges = 1 .. z
    BY <1>1, CorpusEnds DEF AlignInv, StageInv
  <2>2. PICK moved : moved = RemapIndex(LocalIndex(lines, TermsOf, Term), DocRange.start)
    OBVIOUS
  <2>3. /\ corpus' = corpus \o lines /\ partials' = Append(partials, moved)
        /\ stage' = IF Len(partials') < Len(ranges') THEN "list" ELSE "merge"
    BY <1>3, <2>2 DEF IndexPartition, NextPartition
  <2>4. Len(partials') = n + 1
    <3>1. partials \in Seq(Partials) /\ moved \in Partials
      <4>1. DocRange.start \in Nat
        BY <1>1, CorpusEnds DEF AlignInv, StageInv
      <4> QED
        BY <2>2, <4>1 DEF AlignInv, BuildTyped, Partials
    <3> QED
      BY <2>1, <2>3, <3>1, AppendProperties
  <2>5. Materialised' = Materialised
    BY <1>1, <2>3 DEF Materialised
  <2>6. CatalogInv'
    BY <1>1, <2>5, CatalogStays DEF CorpusOk, Final
  <2>7. ASSUME NEW i \in DOMAIN catalog
        PROVE  \E j \in DOMAIN ranges : PartRead(catalog[i].key, j)'
    <3>1. PICK j \in 1 .. z : PartRead(catalog[i].key, j)
      BY <2>1 DEF CorpusOk, OnceReadInv
    <3>2. j <= n + 1
      BY <2>1, <3>1 DEF PartRead
    <3> QED
      BY <1>1, <2>1, <2>4, <3>1, <3>2 DEF PartRead
  <2>8. OnceReadInv'
    BY <1>1, <2>3, <2>5, <2>7 DEF CorpusOk, OnceReadInv
  <2>9. ASSUME NEW k \in DOMAIN parts, Awaited(k) PROVE Awaited(k)'
    <3>1. CASE \E i \in DOMAIN catalog : catalog[i].key = k
      BY <1>1, <2>3, <3>1 DEF Awaited
    <3>2. ASSUME NEW j \in 1 .. z, ranges[j].owner = k.owner, j > n + 1
          PROVE  Awaited(k)'
      <4>1. stage' = "list"
        BY <1>1, <2>1, <2>3, <2>4, <3>2
      <4>2. j > n + 1 + 1 \/ j = n + 1 + 1
        BY <3>2
      <4> QED
        BY <1>1, <2>1, <2>4, <3>2, <4>1, <4>2 DEF Awaited
    <3>3. k \notin ToSet(todo)
      BY <1>1, EmptyRange
    <3> QED
      BY <1>1, <2>1, <2>9, <3>1, <3>2, <3>3 DEF Awaited
  <2>10. AwaitInv'
    BY <1>1, <2>9 DEF CorpusOk, AwaitInv
  <2> QED
    BY <2>6, <2>8, <2>10 DEF CorpusInv
<1> QED
  BY <1>2, <1>3

\* The merge touches neither the corpus nor its catalog.
LEMMA CorpusMerge ==
    ASSUME AlignInv, CorpusOk, Merge, UNCHANGED vars
    PROVE  CorpusInv'
<1>1. /\ stage = "merge" /\ stage' \in {"built", "failed"}
      /\ UNCHANGED <<parts, manifests, todo, entries, ranges, lines, corpus, catalog,
                     partials, declared>>
  BY DEF Merge, vars, services
<1>2. Materialised' = Materialised
  BY <1>1 DEF Materialised
<1>3. CatalogInv'
  BY <1>1, <1>2, CatalogStays DEF CorpusOk, Final
<1>4. OnceReadInv'
  BY <1>1, <1>2 DEF CorpusOk, OnceReadInv, PartRead
<1>5. ASSUME NEW k \in DOMAIN parts, Awaited(k) PROVE Awaited(k)'
  BY <1>1, <1>5 DEF Awaited
<1>6. AwaitInv'
  BY <1>1, <1>5 DEF CorpusOk, AwaitInv
<1> QED
  BY <1>3, <1>4, <1>6 DEF CorpusInv

\* Every step keeps it, and a build that has failed stays so.
LEMMA CorpusNext ==
    ASSUME Inv, Distinct, FragmentInv, PromiseInv, NothingTwice, AlignInv, CorpusInv,
           [BuildNext]_allVars
    PROVE  CorpusInv'
<1>1. CASE stage = "failed"
  <2>1. ~BuildStep
    BY <1>1 DEF BuildStep, StartBuild, GetFragment, ListParts, GetPart, IndexPartition, Merge
  <2>2. stage' = stage
    BY <2>1 DEF BuildNext, allVars, buildVars, building
  <2> QED
    BY <1>1, <2>2 DEF CorpusInv
<1>2. CASE stage # "failed"
  <2>1. CorpusOk
    BY <1>2 DEF CorpusInv, CorpusOk
  <2>2. CorpusOk' => CorpusInv'
    BY DEF CorpusInv, CorpusOk
  <2>3. CASE BuildStep /\ UNCHANGED vars
    BY <2>1, <2>2, <2>3, CorpusStart, CorpusFragment, CorpusList, CorpusPart,
       CorpusPartition, CorpusMerge DEF BuildStep
  <2>4. CASE [Next]_vars /\ UNCHANGED building
    BY <2>1, <2>2, <2>4, CorpusWorkers
  <2> QED
    BY <2>3, <2>4 DEF BuildNext, allVars, buildVars
<1> QED
  BY <1>1, <1>2

\* Identities that are distinct were distinct before.
LEMMA StillDistinct == Inv /\ [BuildNext]_allVars /\ Distinct' => Distinct
<1>1. [BuildNext]_allVars => [Next]_vars
  BY DEF BuildNext, allVars
<1> QED
  BY <1>1, CrashStep DEF Inv

\* The corpus and its catalog are what the invariant says, for as long as every
\* worker has an identity of its own.
LEMMA CorpusInvariant == BuildSpec => [](Inv /\ AlignInv /\ (Distinct => CorpusInv))
<1>1. BuildInit => CorpusInv
  BY CorpusInit DEF CorpusInv, CorpusOk
<1>2. Inv /\ (Distinct => FragmentInv /\ PromiseInv) /\ NothingTwice /\ AlignInv
         /\ (Distinct => CorpusInv) /\ [BuildNext]_allVars => (Distinct' => CorpusInv')
  BY CorpusNext, StillDistinct
<1> QED
  BY <1>1, <1>2, BuildIsOfWorkers, PromiseInvariant, ExtractsNothingTwice,
     AlignInvariant, PTL DEF BuildSpec

-----------------------------------------------------------------------------
\* The catalog of a build that is over, entry by entry.
LEMMA BuiltCatalog ==
    ASSUME AlignInv, CorpusInv, stage = "built"
    PROVE  /\ Len(catalog) \in Nat /\ DOMAIN catalog = 1 .. Len(catalog)
           /\ \A i \in DOMAIN catalog :
                 /\ catalog[i].start \in Nat /\ catalog[i].count \in Nat
                 /\ catalog[i] # NoPart
                 /\ catalog[i].key \in DOMAIN parts
                 /\ catalog[i].count = Len(parts[catalog[i].key])
                 /\ EndOf(catalog[i]) = catalog[i].start + catalog[i].count
                 /\ EndOf(catalog[i]) <= Len(corpus)
                 /\ \A n \in 1 .. catalog[i].count :
                       corpus[catalog[i].start + n] = parts[catalog[i].key][n]
<1>1. CatalogInv /\ Materialised = corpus
  BY DEF CorpusInv, Materialised
<1>2. PICK T : T = [key: PartKey, start: Nat, count: Nat \ {0}] /\ catalog \in Seq(T)
  BY <1>1 DEF CatalogInv
<1>3. Len(catalog) \in Nat /\ DOMAIN catalog = 1 .. Len(catalog)
  BY <1>2, LenProperties
<1>4. ASSUME NEW i \in DOMAIN catalog
      PROVE  /\ catalog[i].start \in Nat /\ catalog[i].count \in Nat
             /\ catalog[i] # NoPart
             /\ catalog[i].key \in DOMAIN parts
             /\ catalog[i].count = Len(parts[catalog[i].key])
             /\ EndOf(catalog[i]) = catalog[i].start + catalog[i].count
             /\ EndOf(catalog[i]) <= Len(corpus)
             /\ \A n \in 1 .. catalog[i].count :
                   corpus[catalog[i].start + n] = parts[catalog[i].key][n]
  <2>1. PICK entry \in T : entry = catalog[i]
    BY <1>2, <1>3, <1>4, ElementOfSeq
  <2>2. entry.start \in Nat /\ entry.count \in Nat
    BY <1>2
  <2>3. entry # NoPart
    <3>1. DOMAIN entry = {"key", "start", "count"}
      BY <1>2
    <3>2. DOMAIN NoPart = {"key"}
      BY DEF NoPart
    <3> QED
      BY <3>1, <3>2
  <2>4. EntryOk(entry)
    BY <1>1, <2>1 DEF CatalogInv
  <2> QED
    BY <1>1, <2>1, <2>2, <2>3, <2>4 DEF EntryOk, EndOf
<1> QED
  BY <1>3, <1>4

\* A doc_id of the build is found in the catalog, and its document in the part.
LEMMA ResolvesOwn ==
    ASSUME AlignInv, CorpusInv, stage = "built", NEW d \in DocIds
    PROVE  Resolve(catalog, parts, d) = corpus[d + 1]
<1>1. PICK c \in Seq(Indexable), z \in Nat : c = corpus /\ z = Len(c) /\ DOMAIN c = 1 .. z
  BY LenProperties DEF AlignInv, BuildTyped
<1>2. d \in Nat /\ d < z /\ d + 1 \in 1 .. z
  BY <1>1 DEF DocIds
<1>3. Materialised = corpus /\ CatalogInv
  BY DEF CorpusInv, Materialised
<1>4. PICK N \in Nat : N = Len(catalog) /\ DOMAIN catalog = 1 .. N
  BY BuiltCatalog
<1>5. PICK i \in 1 .. N : catalog[i].start < d + 1 /\ d + 1 <= EndOf(catalog[i])
  BY <1>1, <1>2, <1>3, <1>4 DEF CatalogInv
<1>6. \A j \in 1 .. N : /\ catalog[j].start \in Nat /\ EndOf(catalog[j]) \in Nat
                        /\ catalog[j].start <= EndOf(catalog[j])
  BY <1>4, BuiltCatalog
<1>7. catalog[i].start <= d /\ d < EndOf(catalog[i])
  BY <1>2, <1>5, <1>6
<1>8. PICK starts : starts = [j \in DOMAIN catalog |-> catalog[j].start]
  OBVIOUS
<1>9. BisectRight(starts, d) = i
  <2>1. ASSUME NEW j \in 1 .. N PROVE starts[j] <= d <=> j <= i
    <3>1. starts[j] = catalog[j].start
      BY <1>4, <1>8
    <3>2. CASE j = i
      BY <1>7, <3>1, <3>2
    <3>3. CASE j < i
      <4>1. EndOf(catalog[j]) <= catalog[i].start
        BY <1>3, <1>4, <3>3 DEF CatalogInv
      <4> QED
        BY <1>2, <1>6, <1>7, <3>1, <3>3, <4>1
    <3>4. CASE i < j
      <4>1. EndOf(catalog[i]) <= catalog[j].start
        BY <1>3, <1>4, <3>4 DEF CatalogInv
      <4> QED
        BY <1>2, <1>6, <1>7, <3>1, <3>4, <4>1
    <3> QED
      BY <3>2, <3>3, <3>4
  <2>2. DOMAIN starts = 1 .. N /\ i \in 0 .. N
    BY <1>4, <1>8
  <2> QED
    BY <2>1, <2>2, BisectRightIs
<1>10. PartFor(catalog, d) = catalog[i]
  BY <1>7, <1>8, <1>9 DEF PartFor
<1>11. PICK part, files, line :
          part = catalog[i] /\ files = parts /\ line = d - part.start + 1
  OBVIOUS
<1>12. /\ part # NoPart /\ part.key \in DOMAIN files
       /\ part.start \in Nat /\ part.count \in Nat
       /\ part.count = Len(files[part.key])
       /\ EndOf(part) = part.start + part.count
       /\ \A n \in 1 .. part.count : corpus[part.start + n] = files[part.key][n]
  BY <1>4, <1>11, BuiltCatalog
<1>13. line \in 1 .. part.count /\ part.start + line = d + 1
  <2>1. PICK start \in Nat, count \in Nat : start = part.start /\ count = part.count
    BY <1>12
  <2>2. start <= d /\ d < start + count /\ line = d - start + 1
    BY <1>7, <1>11, <1>12, <2>1
  <2>3. line \in 1 .. count /\ start + line = d + 1
    BY <1>2, <2>2
  <2> QED
    BY <2>1, <2>3
<1>14. files[part.key][line] = corpus[d + 1]
  BY <1>12, <1>13
<1>15. line <= Len(files[part.key])
  BY <1>12, <1>13
<1> QED
  BY <1>10, <1>11, <1>12, <1>14, <1>15 DEF Resolve

\* The doc_id after the last has no document.
LEMMA ResolvesNoOther ==
    ASSUME AlignInv, CorpusInv, stage = "built"
    PROVE  Resolve(catalog, parts, Len(corpus)) = NoDocument
<1>1. PICK z \in Nat : z = Len(corpus)
  BY CorpusEnds
<1>2. ASSUME NEW i \in DOMAIN catalog PROVE ~(z < EndOf(catalog[i]))
  BY <1>1, <1>2, BuiltCatalog
<1>3. PICK N \in Nat : N = Len(catalog) /\ DOMAIN catalog = 1 .. N
  BY BuiltCatalog
<1>4. PICK starts : starts = [j \in DOMAIN catalog |-> catalog[j].start]
  OBVIOUS
<1>5. BisectRight(starts, z) = N
  <2>1. ASSUME NEW j \in 1 .. N PROVE starts[j] <= z <=> j <= N
    BY <1>1, <1>3, <1>4, BuiltCatalog
  <2>2. DOMAIN starts = 1 .. N /\ N \in 0 .. N
    BY <1>3, <1>4
  <2> QED
    BY <2>1, <2>2, BisectRightIs
<1>6. PartFor(catalog, z) = NoPart
  BY <1>2, <1>3, <1>4, <1>5 DEF PartFor
<1> QED
  BY <1>1, <1>6 DEF Resolve

\* What the catalog says of a doc_id is its document, for every doc_id of the
\* build and for no other, also when the workers have written other parts
\* since the build listed them: for any number of workers, pages and crashes,
\* when a worker that replaces another has an identity of its own.
THEOREM BuiltCatalogResolves ==
    ASSUME ~KeepsId
    PROVE  BuildSpec => []CatalogResolves
<1>1. AlignInv /\ (Distinct => CorpusInv) => CatalogResolves
  BY ResolvesOwn, ResolvesNoOther DEF CatalogResolves, Distinct
<1> QED
  BY <1>1, CorpusInvariant, PTL

\* No document is in the corpus of a build twice, and every document which the
\* manifest declared when the build began is there, whatever the workers write
\* and replace meanwhile: for any number of workers, pages and crashes, when a
\* worker that replaces another has an identity of its own.
THEOREM BuildLeavesNothingOut ==
    ASSUME ~KeepsId
    PROVE  BuildSpec => []NothingDeclaredIsLeftOut
<1>1. ASSUME Inv, AlignInv, CorpusInv, stage = "built"
      PROVE  IsInjective(corpus) /\ declared \subseteq ToSet(corpus)
  <2>1. Materialised = corpus /\ OnceReadInv /\ AwaitInv
    BY <1>1 DEF CorpusInv, Materialised
  <2>2. IsInjective(corpus)
    BY <2>1 DEF OnceReadInv
  <2>3. ASSUME NEW p \in declared PROVE p \in ToSet(corpus)
    <3>1. PICK k \in DOMAIN parts : p \in ToSet(parts[k]) /\ Awaited(k)
      BY <1>1, <2>1 DEF AwaitInv
    <3>2. Len(partials) = Len(ranges) /\ DOMAIN ranges = 1 .. Len(ranges) /\ Len(ranges) \in Nat
      BY <1>1, CorpusEnds DEF AlignInv, StageInv
    <3>3. \A j \in DOMAIN ranges : ~(j > Len(partials) + 1)
      BY <3>2
    <3>4. PICK i \in DOMAIN catalog : catalog[i].key = k
      BY <1>1, <3>1, <3>3 DEF Awaited
    <3>5. PICK body, x : body = parts[k] /\ x \in DOMAIN body /\ p = body[x]
      BY <3>1 DEF ToSet
    <3>6. /\ catalog[i].start \in Nat /\ catalog[i].count \in Nat
          /\ catalog[i].count = Len(body)
          /\ catalog[i].start + catalog[i].count <= Len(corpus)
          /\ \A n \in 1 .. catalog[i].count : corpus[catalog[i].start + n] = body[n]
      BY <1>1, <3>4, <3>5, BuiltCatalog
    <3>7. x \in 1 .. Len(body)
      BY <1>1, <3>1, <3>5, LenProperties DEF Inv, Typed, TypeOK
    <3>8. catalog[i].start + x \in 1 .. Len(corpus)
      BY <1>1, <3>6, <3>7, CorpusEnds
    <3>9. DOMAIN corpus = 1 .. Len(corpus)
      BY <1>1, LenProperties DEF AlignInv, BuildTyped
    <3> QED
      BY <3>5, <3>6, <3>7, <3>8, <3>9 DEF ToSet
  <2> QED
    BY <2>2, <2>3
<1>2. Inv /\ AlignInv /\ (Distinct => CorpusInv) => NothingDeclaredIsLeftOut
  BY <1>1 DEF NothingDeclaredIsLeftOut, Distinct
<1> QED
  BY <1>2, CorpusInvariant, PTL
-----------------------------------------------------------------------------
(***************************************************************************)
(* A quiet build.                                                          *)
(***************************************************************************)
LinesIn(keys) == UNION {{k} \X DOMAIN parts[k] : k \in keys}

QuietInv ==
    /\ ~disturbed =>
          /\ stage # "idle" => \A w \in Worker : ~Flushing(w)
          /\ \A o \in DOMAIN entries : o \in DOMAIN manifests /\ entries[o] = manifests[o]
          /\ stage = "parts" =>
                Len(lines) + Cardinality(LinesIn(ToSet(todo)))
                   = Cardinality(LinesOf(parts, DocRange.owner))
    /\ QuietBuildSucceeds

\* The owner of the partition at hand is among the keys there can be, and its
\* range has as many doc_ids as its fragment counts.
LEMMA OwnerIsListed ==
    ASSUME AlignInv, stage \in {"list", "parts"}
    PROVE  /\ DocRange.owner \in ToSet(KeyOrder) /\ DocRange.owner \in DOMAIN entries
           /\ entries[DocRange.owner].count.documents \in Nat
           /\ DocRange.start \in Nat
           /\ DocRange.end = DocRange.start + entries[DocRange.owner].count.documents
<1>1. PICK n \in Nat : n = Len(partials) /\ n + 1 \in DOMAIN ranges /\ DocRange = ranges[n + 1]
  BY CorpusEnds DEF AlignInv, StageInv, DocRange
<1>2. PICK R, counts : /\ R = [owner: DOMAIN counts, start: Nat, end: Nat]
                       /\ ranges \in Seq(R) /\ counts = Counts
  BY DEF AlignInv, StageInv, RangesOk
<1>3. DocRange \in R
  BY <1>1, <1>2, LenProperties, ElementOfSeq
<1>4. PICK o \in DOMAIN entries : o = DocRange.owner
  BY <1>2, <1>3 DEF Counts
<1>5. DocRange.end = DocRange.start + Counts[o]
  BY <1>1, <1>4 DEF AlignInv, StageInv, RangesOk
<1>6. o \in ToSet(KeyOrder) /\ entries[o] \in Fragment
  BY DEF AlignInv, BuildTyped
<1> QED
  BY <1>2, <1>3, <1>4, <1>5, <1>6 DEF Counts, Fragment

\* The lines of a part and of some others.
LEMMA LinesInOne ==
    ASSUME NEW key, NEW S, key \notin S, NEW n \in Nat, DOMAIN parts[key] = 1 .. n,
           IsFiniteSet(LinesIn({key} \cup S))
    PROVE  /\ IsFiniteSet(LinesIn(S)) /\ Cardinality(LinesIn(S)) \in Nat
           /\ Cardinality(LinesIn({key} \cup S)) = n + Cardinality(LinesIn(S))
<1>1. PICK old, added, all :
         /\ old = LinesIn(S) /\ added = {key} \X (1 .. n) /\ all = LinesIn({key} \cup S)
  OBVIOUS
<1>2. all = old \cup added
  BY <1>1 DEF LinesIn
<1>3. old \cap added = {}
  BY <1>1 DEF LinesIn
<1>4. IsFiniteSet(1 .. n) /\ Cardinality(1 .. n) = n
  <2>1. IsFiniteSet(1 .. n) /\ Cardinality(1 .. n) = IF 1 > n THEN 0 ELSE n - 1 + 1
    BY FS_Interval, 1 \in Int, n \in Int
  <2>2. (IF 1 > n THEN 0 ELSE n - 1 + 1) = n
    OBVIOUS
  <2> QED
    BY <2>1, <2>2
<1>5. IsFiniteSet(added) /\ Cardinality(added) = n
  <2>1. IsFiniteSet({key}) /\ Cardinality({key}) = 1
    BY FS_Singleton
  <2>2. /\ IsFiniteSet({key} \X (1 .. n))
        /\ Cardinality({key} \X (1 .. n)) = Cardinality({key}) * Cardinality(1 .. n)
    BY <1>4, <2>1, FS_Product
  <2> QED
    BY <1>1, <1>4, <2>1, <2>2
<1>6. IsFiniteSet(old) /\ Cardinality(old) \in Nat
  <2>1. IsFiniteSet(all) /\ old \in SUBSET all
    BY <1>1, <1>2
  <2>2. IsFiniteSet(old)
    BY <2>1, FS_Subset
  <2> QED
    BY <2>2, FS_CardinalityType
<1>7. Cardinality(old \cap added) = 0
  BY <1>3, FS_EmptySet
<1>8. Cardinality(old \cup added)
         = Cardinality(old) + Cardinality(added) - Cardinality(old \cap added)
  BY <1>5, <1>6, FS_Union
<1>9. Cardinality(all) = n + Cardinality(old)
  BY <1>2, <1>5, <1>6, <1>7, <1>8
<1> QED
  BY <1>1, <1>6, <1>9

\* A build that is not disturbed was not before, and finds no worker in a flush.
LEMMA StillQuiet ==
    ASSUME Observe, ~disturbed'
    PROVE  ~disturbed /\ (stage' # "idle" => \A w \in Worker : ~Flushing(w)')
BY DEF Observe

\* Crashes do not go back to none.
LEMMA NoCrashYet ==
    ASSUME Inv, [Next]_vars, crashes' = 0
    PROVE  crashes = 0
<1>1. crashes \in Nat
  BY DEF Inv, Typed, TypeOK
<1>2. CASE \E w \in Worker : Crash(w)
  BY <1>1, <1>2 DEF Crash
<1>3. CASE \E w \in Worker : Restart(w)
  BY <1>3 DEF Restart
<1>4. CASE \E p \in Page : Announce(p)
  BY <1>4 DEF Announce, history
<1>5. CASE \E w \in Worker : Step(w)
  BY <1>5 DEF Step, Receive, IdlePoll, StopAtMaxPages, ReadPage, ReadMissing, PutDocuments,
              FeedUpdate, PutDiscarded, PutManifest, AckCurrent, history
<1>6. CASE UNCHANGED vars
  BY <1>6 DEF vars, history
<1> QED
  BY <1>2, <1>3, <1>4, <1>5, <1>6 DEF Next

\* Workers that do not flush write nothing a build reads.
LEMMA QuietWorkers ==
    ASSUME Inv, AlignInv, QuietInv, [Next]_vars, UNCHANGED building, Observe, ~disturbed'
    PROVE  QuietInv'
<1>1. UNCHANGED <<stage, todo, entries, ranges, lines, partials>>
  BY DEF building
<1>2. ~disturbed /\ (stage' # "idle" => \A w \in Worker : ~Flushing(w)')
  BY StillQuiet
<1>3. QuietBuildSucceeds'
  BY <1>1, <1>2, NoCrashYet DEF QuietInv, QuietBuildSucceeds
<1>4. CASE stage = "idle"
  <2>1. DOMAIN entries = {}
    BY <1>4 DEF AlignInv, StageInv, NoObjects
  <2> QED
    BY <1>1, <1>3, <1>4, <2>1 DEF QuietInv
<1>5. CASE stage # "idle"
  <2>1. \A w \in Worker : ~Flushing(w)
    BY <1>2, <1>5 DEF QuietInv
  <2>2. UNCHANGED <<parts, manifests>>
    BY <2>1, WorkersWrite DEF Flushing
  <2>3. DocRange' = DocRange /\ LinesIn(ToSet(todo))' = LinesIn(ToSet(todo))
    BY <1>1, <2>2 DEF DocRange, LinesIn
  <2> QED
    BY <1>1, <1>2, <1>3, <2>2, <2>3 DEF QuietInv
<1> QED
  BY <1>4, <1>5

\* A build that has not begun is quiet.
LEMMA QuietInit == BuildInit => QuietInv
BY DEF BuildInit, QuietInv, QuietBuildSucceeds, NoObjects

\* The listing, the fragments and the empty partition.
LEMMA QuietRead ==
    ASSUME Inv, PromiseInv, AlignInv, QuietInv, StartBuild \/ GetFragment \/ ListParts,
           UNCHANGED vars, Observe, ~disturbed'
    PROVE  QuietInv'
<1>1. ~disturbed /\ (stage' # "idle" => \A w \in Worker : ~Flushing(w)')
  BY StillQuiet
<1>2. UNCHANGED <<parts, manifests, partials>>
  BY DEF StartBuild, GetFragment, ListParts, vars, services
<1>3. stage' \in {"merge", "fragments", "list", "parts"} /\ stage' # "failed"
  BY DEF StartBuild, GetFragment, ListParts, NextPartition
<1>4. QuietBuildSucceeds'
  BY <1>3 DEF QuietBuildSucceeds
<1>5. CASE StartBuild
  <2>1. entries' = entries /\ stage' # "parts"
    BY <1>5 DEF StartBuild
  <2> QED
    BY <1>1, <1>2, <1>4, <2>1 DEF QuietInv
<1>6. CASE GetFragment
  <2>1. PICK T, s :
           /\ T = ToSet(KeyOrder) \cap DOMAIN manifests
           /\ s \in Seq(T) /\ s = todo /\ s # <<>>
    BY <1>6 DEF GetFragment, AlignInv, BuildTyped
  <2>2. PICK o : o = Head(s)
    OBVIOUS
  <2>3. o \in DOMAIN manifests
    BY <2>1, <2>2, RestIs
  <2>4. /\ DOMAIN entries' = DOMAIN entries \cup {o} /\ entries'[o] = manifests[o]
        /\ \A l \in DOMAIN entries : l # o => entries'[l] = entries[l]
    BY <1>6, <2>1, <2>2 DEF GetFragment, PutObject
  <2>5. stage' # "parts"
    BY <1>6 DEF GetFragment, NextPartition
  <2> QED
    BY <1>1, <1>2, <1>4, <2>3, <2>4, <2>5 DEF QuietInv
<1>7. CASE ListParts
  <2>1. /\ stage = "list" /\ stage' = "parts" /\ lines' = <<>>
        /\ UNCHANGED <<entries, ranges>>
    BY <1>7 DEF ListParts
  <2>2. PICK owner : owner = DocRange.owner
    OBVIOUS
  <2>3. ToSet(todo') = FilesOf(parts, owner) /\ DocRange' = DocRange
    BY <1>2, <1>7, <2>1, <2>2, PartKeysAre DEF ListParts, DocRange, AlignInv, BuildTyped
  <2>4. LinesIn(ToSet(todo))' = LinesOf(parts, owner)
    BY <1>2, <2>3 DEF LinesIn, LinesOf
  <2>5. Cardinality(LinesOf(parts, owner)) \in Nat
    <3>1. IsFiniteSet(LinesOf(parts, owner))
      BY <2>1, <2>2, OwnerIsListed DEF PromiseInv
    <3> QED
      BY <3>1, FS_CardinalityType
  <2>6. Len(lines') = 0
    BY <2>1, EmptySeq
  <2> QED
    BY <1>1, <1>2, <1>4, <2>1, <2>2, <2>3, <2>4, <2>5, <2>6 DEF QuietInv
<1> QED
  BY <1>5, <1>6, <1>7

\* A part that is read leaves its lines behind it.
LEMMA QuietPart ==
    ASSUME Inv, PromiseInv, AlignInv, CorpusInv, QuietInv, GetPart,
           UNCHANGED vars, Observe, ~disturbed'
    PROVE  QuietInv'
<1>1. ~disturbed /\ (stage' # "idle" => \A w \in Worker : ~Flushing(w)')
  BY StillQuiet
<1>2. /\ stage = "parts" /\ stage' = "parts" /\ todo # <<>>
      /\ UNCHANGED <<parts, manifests, entries, ranges, partials>>
  BY DEF GetPart, vars, services
<1>3. QuietBuildSucceeds'
  BY <1>2 DEF QuietBuildSucceeds
<1>4. PICK P, s : P = DOMAIN parts /\ s \in Seq(P) /\ s = todo /\ s # <<>>
  BY <1>2 DEF AlignInv, BuildTyped
<1>5. PICK key, rest, S : key = Head(s) /\ rest = Tail(s) /\ S = ToSet(rest)
  OBVIOUS
<1>6. /\ key \in DOMAIN parts /\ ToSet(s) = {key} \cup S /\ key \notin S
      /\ S \subseteq DOMAIN parts
  <2>1. IsInjective(s)
    BY <1>2, <1>4 DEF CorpusInv, OnceReadInv
  <2>2. Tail(s) \in Seq(P) /\ ToSet(Tail(s)) \subseteq P
    BY <1>4, RestIs, OwnRange
  <2> QED
    BY <1>4, <1>5, <2>1, <2>2, RestIs
<1>7. PICK body \in Seq(Indexable), n \in Nat, text \in Seq(Indexable), m \in Nat :
         /\ body = parts[key] /\ n = Len(body) /\ DOMAIN body = 1 .. n
         /\ text = lines /\ m = Len(text)
  <2>1. parts[key] \in Seq(Indexable) /\ lines \in Seq(Indexable)
    BY <1>6 DEF Inv, Typed, TypeOK, AlignInv, BuildTyped
  <2> QED
    BY <2>1, LenProperties
<1>8. lines' = text \o body /\ todo' = rest
  BY <1>4, <1>5, <1>7 DEF GetPart
<1>9. Len(lines') = m + n
  BY <1>7, <1>8, ConcatIs
<1>10. PICK owner : owner = DocRange.owner
  OBVIOUS
<1>11. IsFiniteSet(LinesIn({key} \cup S))
  <2>1. \A k \in {key} \cup S : k \in DOMAIN parts /\ k.owner = owner
    BY <1>2, <1>4, <1>6, <1>10 DEF CorpusInv, OnceReadInv
  <2>2. LinesIn({key} \cup S) \in SUBSET LinesOf(parts, owner)
    BY <2>1 DEF LinesIn, LinesOf, FilesOf
  <2>3. IsFiniteSet(LinesOf(parts, owner))
    BY <1>2, <1>10, OwnerIsListed DEF PromiseInv
  <2> QED
    BY <2>2, <2>3, FS_Subset
<1>12. /\ Cardinality(LinesIn(S)) \in Nat
       /\ Cardinality(LinesIn({key} \cup S)) = n + Cardinality(LinesIn(S))
  BY <1>6, <1>7, <1>11, LinesInOne
<1>13. m + (n + Cardinality(LinesIn(S))) = Cardinality(LinesOf(parts, owner))
  BY <1>1, <1>2, <1>4, <1>6, <1>7, <1>10, <1>12 DEF QuietInv
<1>14. Len(lines') + Cardinality(LinesIn(S)) = Cardinality(LinesOf(parts, owner))
  BY <1>9, <1>12, <1>13
<1>15. LinesIn(ToSet(todo))' = LinesIn(S) /\ DocRange' = DocRange
  BY <1>2, <1>5, <1>8 DEF LinesIn, DocRange
<1> QED
  BY <1>1, <1>2, <1>3, <1>10, <1>14, <1>15 DEF QuietInv

\* Without a crash the fragment that was read counts the lines that are there.
LEMMA QuietCount ==
    ASSUME Inv, FragmentInv, PromiseInv, AlignInv, QuietInv,
           ~disturbed, crashes = 0, stage = "parts"
    PROVE  entries[DocRange.owner].count.documents
              = Cardinality(LinesOf(parts, DocRange.owner))
<1>1. PICK o : o = DocRange.owner
  OBVIOUS
<1>2. o \in DOMAIN entries /\ o \in DOMAIN manifests /\ entries[o] = manifests[o]
  BY <1>1, OwnerIsListed DEF QuietInv
<1>3. o \in Worker \X Nat
  BY <1>2 DEF Inv, Typed, TypeOK, OwnerId
<1>4. PICK w \in Worker, n \in Nat : o = <<w, n>>
  BY <1>3
<1>5. o = WorkerId(w)
  <2>1. runs[w] = 0
    BY DEF Inv, CrashInv
  <2>2. o[2] <= runs[w]
    BY <1>2, <1>4 DEF FragmentInv, FragmentsInv
  <2>3. n = 0
    BY <1>4, <2>1, <2>2
  <2> QED
    BY <1>4, <2>1, <2>3 DEF WorkerId
<1>6. pc[w] \in {"poll", "read", "ack", "stopped"}
  <2>1. pc[w] \in Steps /\ pc[w] # "crashed"
    BY DEF Inv, CrashInv, Typed, TypeOK
  <2>2. ~Flushing(w)
    BY DEF QuietInv
  <2> QED
    BY <2>1, <2>2 DEF Steps, Flushing
<1>7. manifests[o].count.documents = Cardinality(LinesOf(parts, o))
  <2>1. ManifestIsExact
    BY FragmentExact DEF Distinct
  <2>2. /\ o \in DOMAIN manifests
        /\ manifests[o].count = [documents |-> Cardinality(LinesOf(parts, o)),
                                 discarded |-> Cardinality(LinesOf(refused, o))]
    BY <1>2, <1>5, <1>6, <2>1 DEF ManifestIsExact
  <2> QED
    BY <2>2
<1> QED
  BY <1>1, <1>2, <1>7

\* A partition that was read in peace is what its fragment counts, unless a
\* worker has crashed.
LEMMA QuietPartition ==
    ASSUME Inv, FragmentInv, PromiseInv, AlignInv, QuietInv, IndexPartition,
           UNCHANGED vars, Observe, ~disturbed'
    PROVE  QuietInv'
<1>1. ~disturbed /\ (stage' # "idle" => \A w \in Worker : ~Flushing(w)')
  BY StillQuiet
<1>2. /\ stage = "parts" /\ todo = <<>> /\ stage' \in {"failed", "list", "merge"}
      /\ UNCHANGED <<parts, manifests, entries, ranges, crashes>>
  BY DEF IndexPartition, NextPartition, vars, services, history
<1>3. ASSUME crashes = 0 PROVE stage' # "failed"
  <2>1. PICK c \in Nat, start \in Nat :
           /\ c = entries[DocRange.owner].count.documents /\ start = DocRange.start
           /\ DocRange.end = start + c
    BY <1>2, OwnerIsListed
  <2>2. c = Cardinality(LinesOf(parts, DocRange.owner))
    BY <1>1, <1>2, <1>3, <2>1, QuietCount
  <2>3. Len(lines) \in Nat
    BY LenProperties DEF AlignInv, BuildTyped
  <2>4. Cardinality(LinesIn(ToSet(todo))) = 0
    <3>1. LinesIn(ToSet(todo)) = {}
      BY <1>2, EmptyRange DEF LinesIn
    <3> QED
      BY <3>1, FS_EmptySet
  <2>5. Len(lines) = c
    BY <1>1, <1>2, <2>2, <2>3, <2>4 DEF QuietInv
  <2>6. Len(lines) = DocRange.end - DocRange.start
    BY <2>1, <2>5
  <2> QED
    BY <2>6 DEF IndexPartition, NextPartition
<1>4. QuietBuildSucceeds'
  BY <1>2, <1>3 DEF QuietBuildSucceeds
<1> QED
  BY <1>1, <1>2, <1>4 DEF QuietInv

\* Partial indexes never overlap.
LEMMA PartialsIncrease ==
    ASSUME AlignInv
    PROVE  StrictlyIncreasing(partials)
<1> SUFFICES ASSUME NEW i \in DOMAIN partials, NEW j \in DOMAIN partials, i < j,
                    NEW d \in DOMAIN partials[i].documents,
                    NEW e \in DOMAIN partials[j].documents
             PROVE  d < e
  BY DEF StrictlyIncreasing
<1>1. d \in IdsOf(ranges[i]) /\ e \in IdsOf(ranges[j])
  BY DEF AlignInv, PartialsInv, PartialOk
<1>2. i \in DOMAIN ranges /\ j \in DOMAIN ranges
  BY CorpusEnds
<1>3. ranges[i].end <= ranges[j].start
  BY <1>2 DEF AlignInv, StageInv, RangesOk
<1>4. /\ ranges[i].start \in Nat /\ ranges[i].end \in Nat
      /\ ranges[j].start \in Nat /\ ranges[j].end \in Nat
  BY <1>2, CorpusEnds
<1> QED
  BY <1>1, <1>3, <1>4 DEF IdsOf

\* The merge of partial indexes is never refused.
LEMMA QuietMerge ==
    ASSUME AlignInv, QuietInv, Merge, UNCHANGED vars, Observe, ~disturbed'
    PROVE  QuietInv'
<1>1. ~disturbed /\ (stage' # "idle" => \A w \in Worker : ~Flushing(w)')
  BY StillQuiet
<1>2. stage' = "built" /\ UNCHANGED <<parts, manifests, entries, ranges>>
  BY PartialsIncrease DEF Merge, vars, services
<1>3. QuietBuildSucceeds'
  BY <1>2 DEF QuietBuildSucceeds
<1> QED
  BY <1>1, <1>2, <1>3 DEF QuietInv

\* Every step keeps it.
LEMMA QuietNext ==
    ASSUME Inv, FragmentInv, PromiseInv, AlignInv, CorpusInv, QuietInv,
           [BuildNext]_allVars
    PROVE  QuietInv'
<1>1. CASE UNCHANGED allVars
  <2>1. UNCHANGED <<stage, todo, entries, ranges, lines, partials, disturbed,
                    pc, parts, manifests, crashes>>
    BY <1>1 DEF allVars, vars, services, history, buildVars, building
  <2> QED
    BY <2>1 DEF QuietInv, QuietBuildSucceeds, Flushing, DocRange, LinesIn
<1>2. CASE disturbed'
  BY <1>2 DEF QuietInv, QuietBuildSucceeds
<1>3. CASE BuildNext /\ ~disturbed'
  <2>1. Observe
    BY <1>3 DEF BuildNext
  <2>2. CASE BuildStep /\ UNCHANGED vars
    BY <1>3, <2>1, <2>2, QuietRead, QuietPart, QuietPartition, QuietMerge DEF BuildStep
  <2>3. CASE Next /\ UNCHANGED building
    BY <1>3, <2>1, <2>3, QuietWorkers
  <2> QED
    BY <1>3, <2>2, <2>3 DEF BuildNext
<1> QED
  BY <1>1, <1>2, <1>3

\* A build beside which no worker flushes succeeds, if no worker has crashed:
\* every fragment counts exactly the lines of the parts it is about, and
\* partial indexes never overlap.  For any number of workers and pages, and
\* whatever identity a replacement would have, since there is none.
THEOREM QuietBuildsSucceed == BuildSpec => []QuietBuildSucceeds
<1>1. Inv /\ (Distinct => FragmentInv /\ PromiseInv) /\ AlignInv /\ (Distinct => CorpusInv)
         /\ (Distinct => QuietInv) /\ [BuildNext]_allVars => (Distinct' => QuietInv')
  BY QuietNext, StillDistinct
<1>2. (Distinct => QuietInv) => QuietBuildSucceeds
  BY DEF QuietInv, QuietBuildSucceeds, Distinct
<1> QED
  BY <1>1, <1>2, QuietInit, BuildIsOfWorkers, PromiseInvariant, CorpusInvariant, PTL
     DEF BuildSpec
=============================================================================
