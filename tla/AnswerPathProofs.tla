-------------------------- MODULE AnswerPathProofs --------------------------
(***************************************************************************)
(* What a question finds, what its answer says of it and how it reaches    *)
(* the page, for every set of documents, every text and every stream.      *)
(* First a recursion over numbers, which has one solution: so what         *)
(* chunk_text's loop keeps at every round it has at the end.               *)
(***************************************************************************)
EXTENDS AnswerPath, FiniteSetTheorems, WellFoundedInduction, TLAPS

-----------------------------------------------------------------------------
(* Recursion                                                               *)

\* Induction: else there would be a least number outside S.
LEMMA Induction ==
    ASSUME NEW S, 0 \in S, \A n \in Nat : n \in S => n + 1 \in S
    PROVE  Nat \subseteq S
<1> DEFINE T == Nat \ S
           R == {ss \in Nat \X Nat : ss[1] < ss[2]}
<1> SUFFICES ASSUME T # {} PROVE FALSE
  OBVIOUS
<1>1. IsWellFoundedOn(R, Nat)
  BY NatLessThanWellFounded, Zenon DEF OpToRel
<1>2. PICK n \in T : \A y \in T : ~ (<<y, n>> \in R)
  <2> HIDE DEF R
  <2>1. T \subseteq Nat
    OBVIOUS
  <2> HIDE DEF T
  <2> QED
    BY <1>1, <2>1, WFMin
<1>3. n # 0 /\ n - 1 \in Nat /\ (n - 1) + 1 = n /\ <<n - 1, n>> \in R
  BY <1>2
<1>4. n - 1 \in S
  BY <1>2, <1>3
<1> QED
  BY <1>2, <1>3, <1>4

\* f begins with b, and each value is made of the one before.
Iterates(f, A, b, step, n) ==
    /\ f = [i \in 0 .. n |-> f[i]]
    /\ f[0] = b
    /\ \A i \in 0 .. n : f[i] \in A[i]
    /\ \A i \in 1 .. n : f[i] = step[i][f[i - 1]]

\* A recursion over numbers whose i-th value is in A[i] has a solution.
LEMMA Recursion ==
    ASSUME NEW n \in Nat, NEW A, NEW b \in A[0], NEW step,
           \A i \in 1 .. n : \A s \in A[i - 1] : step[i][s] \in A[i]
    PROVE  \E f : Iterates(f, A, b, step, n)
<1> DEFINE Good(m, f) == Iterates(f, A, b, step, m)
           S == {m \in Nat : m <= n => \E f : Good(m, f)}
<1>1. 0 \in S
  <2>1. Good(0, [i \in 0 .. 0 |-> b])
    BY DEF Iterates
  <2> QED
    BY <2>1
<1>2. ASSUME NEW m \in Nat, m \in S PROVE m + 1 \in S
  <2> SUFFICES ASSUME m + 1 <= n PROVE \E f : Good(m + 1, f)
    OBVIOUS
  <2>1. PICK f : Good(m, f)
    BY <1>2
  <2> DEFINE g == [i \in 0 .. m + 1 |-> IF i = m + 1 THEN step[m + 1][f[m]] ELSE f[i]]
  <2>2. /\ \A i \in 0 .. m : f[i] \in A[i]
        /\ \A i \in 1 .. m : f[i] = step[i][f[i - 1]]
        /\ f[0] = b
    BY <2>1 DEF Iterates
  <2>3. /\ g[m + 1] = step[m + 1][f[m]] /\ \A i \in 0 .. m : g[i] = f[i]
        /\ g = [i \in 0 .. m + 1 |-> g[i]]
    OBVIOUS
  <2> HIDE DEF g
  <2>4. step[m + 1][f[m]] \in A[m + 1]
    <3>1. m + 1 \in 1 .. n /\ (m + 1) - 1 = m /\ m \in 0 .. m
      OBVIOUS
    <3>2. f[m] \in A[m]
      BY <2>2, <3>1
    <3> QED
      BY <3>1, <3>2
  <2>5. ASSUME NEW i \in 0 .. m + 1 PROVE g[i] \in A[i]
    <3>1. CASE i = m + 1
      BY <2>3, <2>4, <3>1
    <3>2. CASE i \in 0 .. m
      BY <2>2, <2>3, <3>2
    <3> QED
      BY <3>1, <3>2
  <2>6. ASSUME NEW i \in 1 .. m + 1 PROVE g[i] = step[i][g[i - 1]]
    <3>1. CASE i = m + 1
      <4>1. i - 1 = m /\ m \in 0 .. m
        BY <3>1
      <4> QED
        BY <2>3, <3>1, <4>1
    <3>2. CASE i \in 1 .. m
      <4>1. i \in 0 .. m /\ i - 1 \in 0 .. m
        BY <3>2
      <4>2. g[i] = f[i] /\ g[i - 1] = f[i - 1]
        BY <2>3, <4>1
      <4> QED
        BY <2>2, <3>2, <4>2
    <3> QED
      BY <3>1, <3>2
  <2>7. Good(m + 1, g)
    <3>1. g[0] = b
      BY <2>2, <2>3
    <3> QED
      BY <2>3, <2>5, <2>6, <3>1 DEF Iterates
  <2> HIDE DEF Good
  <2> QED
    BY <2>7
<1>3. Nat \subseteq S
  <2> HIDE DEF S
  <2> QED
    BY <1>1, <1>2, Induction
<1>4. n \in S
  BY <1>3
<1> QED
  BY <1>4

\* And no other.
LEMMA OneSolution ==
    ASSUME NEW n \in Nat, NEW A, NEW step, NEW g, g[0] \in A[0],
           \A i \in 1 .. n : \A s \in A[i - 1] : step[i][s] \in A[i],
           \A i \in 1 .. n : g[i - 1] \in A[i - 1] => g[i] = step[i][g[i - 1]]
    PROVE  \A i \in 0 .. n : g[i] \in A[i]
<1> DEFINE S == {i \in Nat : i <= n => g[i] \in A[i]}
<1>1. 0 \in S
  OBVIOUS
<1>2. ASSUME NEW i \in Nat, i \in S PROVE i + 1 \in S
  <2> SUFFICES ASSUME i + 1 <= n PROVE g[i + 1] \in A[i + 1]
    OBVIOUS
  <2>1. i + 1 \in 1 .. n /\ (i + 1) - 1 = i /\ g[i] \in A[i]
    BY <1>2
  <2>2. g[i + 1] = step[i + 1][g[i]]
    BY <2>1
  <2> QED
    BY <2>1, <2>2
<1>3. Nat \subseteq S
  <2> HIDE DEF S
  <2> QED
    BY <1>1, <1>2, Induction
<1> QED
  BY <1>3

-----------------------------------------------------------------------------
(* The loop                                                                *)

Window == [first : Nat, last : Nat]

State == [chunks : Seq(Window), first : Nat, next : Nat, length : Nat]

\* The chunks so far are windows over the words before last, in order.
Past(text, overlap, w, last) ==
    /\ Len(w) > 0 => w[1].first = 1
    /\ \A i \in 1 .. Len(w) :
           w[i].first >= 1 /\ w[i].first <= w[i].last /\ w[i].last < last
    /\ \A i \in 1 .. Len(w) - 1 :
           /\ w[i].first <= w[i + 1].first
           /\ w[i + 1].first <= w[i].last + 1
           /\ w[i].last < w[i + 1].last
           /\ Spaced(text, w[i + 1].first, w[i].last) <= overlap

\* current starts the text, or with a tail of the last chunk that fits in
\* overlap.
Carried(text, overlap, w, first) ==
    IF Len(w) = 0
      THEN first = 1
      ELSE /\ w[Len(w)].first <= first
           /\ first <= w[Len(w)].last + 1
           /\ Spaced(text, first, w[Len(w)].last) <= overlap

\* current, unless it is empty, takes no more than length, which is at most
\* size unless current is one word that did not fit behind the tail.
Counted(text, size, w, first, last, length) ==
    /\ first <= last
    /\ Joined(text, first, last) <= length
    /\ \/ length <= size
       \/ last = IF Len(w) = 0 THEN first ELSE w[Len(w)].last + 1

Scan(text, size, overlap, w, first, next, length) ==
    /\ w \in Seq(Window)
    /\ \A i \in 1 .. Len(w) : w[i].first \in Nat /\ w[i].last \in Nat
    /\ next \in 1 .. Len(text) + 1
    /\ first \in 1 .. next
    /\ length \in Nat
    /\ Past(text, overlap, w, next - 1)
    /\ Carried(text, overlap, w, first)
    /\ next > 1 => Counted(text, size, w, first, next - 1, length)
    /\ Bounded(text, size, w)

ScanInv(text, size, overlap, s) ==
    /\ s \in State
    /\ Scan(text, size, overlap, s.chunks, s.first, s.next, s.length)

-----------------------------------------------------------------------------
\* Positions in a text are numbers that grow by two or more.
LEMMA EdgesGrow ==
    ASSUME NEW text, IsText(text), NEW i \in 1 .. Len(text)
    PROVE  /\ Edge(text, i) \in Nat
           /\ Edge(text, i - 1) \in Nat
           /\ Edge(text, i) >= Edge(text, i - 1) + 2
BY DEF IsText, Edge

\* Edges are numbers.
LEMMA EdgeIsNat ==
    ASSUME NEW text, IsText(text), NEW i \in 0 .. Len(text)
    PROVE  Edge(text, i) \in Nat
BY DEF IsText, Edge

\* Edges rise.
LEMMA EdgesMonotone ==
    ASSUME NEW text, IsText(text), NEW j \in 0 .. Len(text), NEW i \in 0 .. j
    PROVE  Edge(text, i) <= Edge(text, j)
BY DEF IsText, Edge

\* The overlap tail is well defined, and fits.
LEMMA TailFits ==
    ASSUME NEW text, IsText(text), NEW overlap \in Nat,
           NEW first \in 1 .. Len(text), NEW last \in first .. Len(text)
    PROVE  LET tail == TailStart(text, first, last, overlap) IN
           /\ tail \in first .. last + 1
           /\ Spaced(text, tail, last) <= overlap
<1> DEFINE T == {f \in first .. last + 1 : Spaced(text, f, last) <= overlap}
           R == {ss \in Nat \X Nat : ss[1] < ss[2]}
<1>1. last + 1 \in T
  <2>1. Edge(text, last) \in Nat
    BY EdgeIsNat
  <2> QED
    BY <2>1 DEF Spaced
<1>2. T \subseteq Nat
  OBVIOUS
<1>3. PICK f \in T : \A y \in T : ~ (<<y, f>> \in R)
  <2>1. IsWellFoundedOn(R, Nat)
    BY NatLessThanWellFounded, Zenon DEF OpToRel
  <2> HIDE DEF T, R
  <2> QED
    BY <1>1, <1>2, <2>1, WFMin
<1>4. f = first \/ Spaced(text, f - 1, last) > overlap
  <2> SUFFICES ASSUME f # first PROVE Spaced(text, f - 1, last) > overlap
    OBVIOUS
  <2>1. f - 1 \in first .. last + 1 /\ f \in Nat
    BY <1>2, <1>3
  <2>2. <<f - 1, f>> \in R
    BY <2>1, <1>3
  <2>3. f - 1 \notin T
    BY <1>3, <2>2
  <2>4. Spaced(text, f - 1, last) \in Int
    <3>1. Edge(text, last) \in Nat /\ Edge(text, f - 2) \in Nat
      BY <2>1, EdgeIsNat
    <3> QED
      BY <3>1, <2>1 DEF Spaced
  <2> QED
    BY <2>1, <2>3, <2>4
<1> QED
  BY <1>3, <1>4 DEF TailStart

-----------------------------------------------------------------------------
\* A scan with the facts is one with the types.
LEMMA ScanIsTyped ==
    ASSUME NEW text, IsText(text), NEW size, NEW overlap,
           NEW w, NEW first, NEW next, NEW length,
           Scan(text, size, overlap, w, first, next, length),
           NEW r, r = [chunks |-> w, first |-> first, next |-> next, length |-> length]
    PROVE  ScanInv(text, size, overlap, r)
<1>1. /\ w \in Seq(Window) /\ first \in Nat /\ next \in Nat /\ length \in Nat
  BY DEF Scan, IsText
<1>2. r \in State
  BY <1>1 DEF State
<1>3. /\ r.chunks = w /\ r.first = first /\ r.next = next /\ r.length = length
  OBVIOUS
<1> QED
  BY <1>2, <1>3 DEF ScanInv

\* What is below the number before is below the number.
LEMMA LessThanNext ==
    ASSUME NEW i \in Int, NEW k \in Int, i < k - 1
    PROVE  i < k
OBVIOUS

\* A word that fits joins current.
LEMMA FittingWord ==
    ASSUME NEW text, IsText(text), NEW size \in Nat, NEW overlap \in Nat,
           NEW w, NEW first, NEW k, NEW length,
           Scan(text, size, overlap, w, first, k, length), k <= Len(text),
           NEW added,
           added = Joined(text, k, k) + (IF first < k THEN 1 ELSE 0),
           ~ (length + added > size /\ first < k)
    PROVE  Scan(text, size, overlap, w, first, k + 1, length + added)
<1>1. /\ k \in 1 .. Len(text) /\ first \in 1 .. k /\ Len(text) \in Nat
      /\ length \in Nat /\ Len(w) \in Nat /\ w \in Seq(Window)
  BY DEF Scan, IsText
<1>2. \A i \in 1 .. Len(w) : w[i].first \in Nat /\ w[i].last \in Nat
  BY DEF Scan
<1>3. /\ Edge(text, k) \in Nat /\ Edge(text, k - 1) \in Nat
      /\ Edge(text, k) >= Edge(text, k - 1) + 2
  BY <1>1, EdgesGrow
<1>4. Edge(text, first - 1) \in Nat
  <2>1. first - 1 \in 0 .. Len(text)
    BY <1>1
  <2> QED
    BY <2>1, EdgeIsNat
<1>5. Joined(text, k, k) = Edge(text, k) - Edge(text, k - 1) - 1
  BY DEF Joined, Spaced
<1>6. Joined(text, first, k) = Edge(text, k) - Edge(text, first - 1) - 1
  BY DEF Joined, Spaced
<1>7. Past(text, overlap, w, k - 1)
  BY DEF Scan
<1>8. Past(text, overlap, w, k)
  <2>1. ASSUME NEW i \in 1 .. Len(w) PROVE w[i].last < k
    <3>1. w[i].last < k - 1 /\ w[i].last \in Nat
      BY <1>2, <1>7 DEF Past
    <3> QED
      BY <1>1, <3>1, LessThanNext
  <2> QED
    BY <1>7, <2>1 DEF Past
<1>9. Counted(text, size, w, first, k, length + added)
  <2>1. CASE first < k
    <3>1. Joined(text, first, k - 1) <= length
      BY <1>1, <2>1 DEF Scan, Counted
    <3>2. Edge(text, k - 1) - Edge(text, first - 1) - 1 <= length
      BY <3>1 DEF Joined, Spaced
    <3>3. added = Joined(text, k, k) + 1
      BY <2>1
    <3>4. Joined(text, first, k) <= length + added
      <4>1. Edge(text, k) - Edge(text, first - 1) - 1
              <= length + ((Edge(text, k) - Edge(text, k - 1) - 1) + 1)
        <5>1. PICK p \in Nat, q \in Nat, r \in Nat, m \in Nat :
                  /\ p = Edge(text, k) /\ q = Edge(text, k - 1)
                  /\ r = Edge(text, first - 1) /\ m = length
          BY <1>1, <1>3, <1>4
        <5>2. q - r - 1 <= m
          BY <3>2, <5>1
        <5>3. p - r - 1 <= m + ((p - q - 1) + 1)
          BY <5>2
        <5> QED
          BY <5>1, <5>3
      <4> QED
        BY <1>5, <1>6, <3>3, <4>1
    <3>5. length + added <= size
      BY <1>1, <1>3, <1>5, <2>1, <3>3
    <3> QED
      BY <1>1, <3>4, <3>5 DEF Counted
  <2>2. CASE first = k
    <3>1. k = 1
      BY <1>1, <2>2 DEF Scan, Counted
    <3>2. Len(w) = 0
      <4> SUFFICES ASSUME 1 \in 1 .. Len(w) PROVE FALSE
        BY <1>1
      <4>1. w[1].first >= 1 /\ w[1].first <= w[1].last /\ w[1].last < 0
        BY <1>7, <3>1 DEF Past
      <4> QED
        BY <1>2, <4>1
    <3>3. Joined(text, first, k) <= length + added
      BY <1>1, <1>3, <1>5, <2>2
    <3> QED
      BY <1>1, <2>2, <3>1, <3>2, <3>3 DEF Counted
  <2> QED
    BY <1>1, <2>1, <2>2
<1>10. /\ length + added \in Nat /\ (k + 1) - 1 = k
       /\ k + 1 \in 1 .. Len(text) + 1 /\ first \in 1 .. k + 1
  <2>1. (k + 1) - 1 = k /\ k + 1 \in 1 .. Len(text) + 1 /\ first \in 1 .. k + 1
    BY <1>1
  <2>2. Joined(text, k, k) \in Nat
    BY <1>3, <1>5
  <2>3. added \in Nat
    BY <2>2
  <2> QED
    BY <1>1, <2>1, <2>3
<1>11. Carried(text, overlap, w, first) /\ Bounded(text, size, w)
  BY DEF Scan
<1> QED
  BY <1>1, <1>2, <1>8, <1>9, <1>10, <1>11 DEF Scan

Closes(text, size, overlap, w, first, k, new, v) ==
    /\ v \in Seq(Window) /\ Len(v) = Len(w) + 1 /\ v[Len(v)] = new
    /\ \A i \in 1 .. Len(v) : v[i].first \in Nat /\ v[i].last \in Nat
    /\ new.first = first /\ new.last = k - 1
    /\ v[1].first = 1
    /\ Past(text, overlap, v, k)
    /\ Bounded(text, size, v)

\* What is closed is one more window in its place.
LEMMA ClosedChunk ==
    ASSUME NEW text, IsText(text), NEW size \in Nat, NEW overlap \in Nat,
           NEW w, NEW first, NEW k, NEW length,
           Scan(text, size, overlap, w, first, k, length),
           first < k,
           NEW new, new = [first |-> first, last |-> k - 1],
           NEW v, v = Append(w, new)
    PROVE  Closes(text, size, overlap, w, first, k, new, v)
<1>1. /\ k \in 2 .. Len(text) + 1 /\ first \in 1 .. k - 1 /\ Len(text) \in Nat
      /\ length \in Nat /\ Len(w) \in Nat /\ w \in Seq(Window)
  BY DEF Scan, IsText
<1>2. \A i \in 1 .. Len(w) : w[i].first \in Nat /\ w[i].last \in Nat
  BY DEF Scan
<1>3. Edge(text, k - 1) \in Nat /\ Edge(text, first - 1) \in Nat
  <2>1. k - 1 \in 0 .. Len(text) /\ first - 1 \in 0 .. Len(text)
    BY <1>1
  <2> QED
    BY <2>1, EdgeIsNat
<1>7. new \in Window /\ new.first = first /\ new.last = k - 1
  BY <1>1 DEF Window
<1>8. /\ v \in Seq(Window) /\ Len(v) = Len(w) + 1 /\ v[Len(w) + 1] = new
      /\ \A i \in 1 .. Len(w) : v[i] = w[i]
  BY <1>1, <1>7
<1>9. PICK n \in Nat : n = Len(w)
  BY <1>1
<1>10. Len(v) = n + 1 /\ v[n + 1] = new /\ \A i \in 1 .. n : v[i] = w[i]
  BY <1>8, <1>9
<1>11. Past(text, overlap, w, k - 1) /\ Carried(text, overlap, w, first)
  BY DEF Scan
<1>12. ASSUME NEW i \in 1 .. n + 1
       PROVE  /\ v[i].first \in Nat /\ v[i].last \in Nat
              /\ v[i].first >= 1 /\ v[i].first <= v[i].last /\ v[i].last < k
  <2>1. CASE i = n + 1
    BY <1>1, <1>7, <1>10, <2>1
  <2>2. CASE i \in 1 .. n
    <3>1. /\ v[i] = w[i] /\ w[i].first \in Nat /\ w[i].last \in Nat
          /\ w[i].first >= 1 /\ w[i].first <= w[i].last /\ w[i].last < k - 1
      BY <1>2, <1>9, <1>10, <1>11, <2>2 DEF Past
    <3>2. w[i].last < k
      BY <1>1, <3>1, LessThanNext
    <3> QED
      BY <3>1, <3>2
  <2> QED
    BY <1>9, <2>1, <2>2
<1>13. ASSUME NEW i \in 1 .. n
       PROVE  /\ v[i].first <= v[i + 1].first
              /\ v[i + 1].first <= v[i].last + 1
              /\ v[i].last < v[i + 1].last
              /\ Spaced(text, v[i + 1].first, v[i].last) <= overlap
  <2>1. CASE i < n
    <3>1. v[i] = w[i] /\ v[i + 1] = w[i + 1] /\ i \in 1 .. Len(w) - 1
      BY <1>9, <1>10, <2>1
    <3> QED
      BY <1>11, <3>1 DEF Past
  <2>2. CASE i = n
    <3>1. v[i] = w[n] /\ v[i + 1] = new /\ n = Len(w) /\ n # 0
      BY <1>9, <1>10, <2>2
    <3>2. w[n].last < k - 1
      BY <1>11, <3>1, <2>2, <1>9 DEF Past
    <3>3. /\ w[n].first <= first /\ first <= w[n].last + 1
          /\ Spaced(text, first, w[n].last) <= overlap
      BY <1>11, <3>1 DEF Carried
    <3> QED
      BY <1>7, <3>1, <3>2, <3>3
  <2> QED
    BY <1>9, <2>1, <2>2
<1>14. v[1].first = 1
  <2>1. CASE n = 0
    BY <1>7, <1>9, <1>10, <1>11, <2>1 DEF Carried
  <2>2. CASE n > 0
    BY <1>9, <1>10, <1>11, <2>2 DEF Past
  <2> QED
    BY <1>9, <2>1, <2>2
<1>15. Past(text, overlap, v, k)
  <2>1. Len(v) - 1 = n
    BY <1>9, <1>10
  <2> QED
    BY <1>10, <1>12, <1>13, <1>14, <2>1 DEF Past
<1>16. Bounded(text, size, v)
  <2>1. /\ Bounded(text, size, w)
        /\ Counted(text, size, w, first, k - 1, length)
    BY <1>1 DEF Scan
  <2> SUFFICES ASSUME NEW i \in 1 .. n + 1
               PROVE  \/ Joined(text, v[i].first, v[i].last) <= size
                      \/ v[i].last = IF i = 1 THEN v[i].first ELSE v[i - 1].last + 1
    BY <1>10 DEF Bounded
  <2>2. CASE i \in 1 .. n
    <3>1. v[i] = w[i] /\ (i # 1 => v[i - 1] = w[i - 1])
      BY <1>9, <1>10, <2>2
    <3>2. \/ Joined(text, w[i].first, w[i].last) <= size
          \/ w[i].last = IF i = 1 THEN w[i].first ELSE w[i - 1].last + 1
      BY <1>9, <2>1, <2>2 DEF Bounded
    <3> QED
      BY <3>1, <3>2
  <2>3. CASE i = n + 1
    <3>1. v[i] = new /\ (i # 1 => v[i - 1] = w[n]) /\ (i = 1 <=> n = 0)
      BY <1>9, <1>10, <2>3
    <3>2. Joined(text, first, k - 1) \in Int
      BY <1>3 DEF Joined, Spaced
    <3>3. \/ Joined(text, first, k - 1) <= size
          \/ k - 1 = IF n = 0 THEN first ELSE w[n].last + 1
      BY <1>1, <1>9, <2>1, <3>2 DEF Counted
    <3> QED
      BY <1>7, <3>1, <3>3
  <2> QED
    BY <1>9, <2>2, <2>3
<1> QED
  BY <1>7, <1>8, <1>9, <1>10, <1>12, <1>14, <1>15, <1>16 DEF Closes

\* A word that does not fit closes current and opens the next chunk behind
\* the tail.
LEMMA ClosingWord ==
    ASSUME NEW text, IsText(text), NEW size \in Nat, NEW overlap \in Nat,
           NEW w, NEW first, NEW k, NEW length,
           Scan(text, size, overlap, w, first, k, length), k <= Len(text),
           first < k,
           NEW tail, tail = TailStart(text, first, k - 1, overlap),
           NEW new, new = [first |-> first, last |-> k - 1],
           NEW v, v = Append(w, new),
           NEW count, count = Spaced(text, tail, k - 1) + (Joined(text, k, k) + 1)
    PROVE  Scan(text, size, overlap, v, tail, k + 1, count)
<1>1. /\ k \in 2 .. Len(text) /\ first \in 1 .. k - 1 /\ Len(text) \in Nat
      /\ length \in Nat /\ Len(w) \in Nat /\ w \in Seq(Window)
  BY DEF Scan, IsText
<1>3. /\ Edge(text, k) \in Nat /\ Edge(text, k - 1) \in Nat
      /\ Edge(text, k) >= Edge(text, k - 1) + 2
  BY <1>1, EdgesGrow
<1>4. tail \in first .. k /\ Spaced(text, tail, k - 1) <= overlap
  <2>1. /\ first \in 1 .. Len(text) /\ k - 1 \in first .. Len(text)
        /\ (k - 1) + 1 = k
    BY <1>1
  <2>2. /\ tail \in first .. (k - 1) + 1
        /\ Spaced(text, tail, k - 1) <= overlap
    BY <2>1, TailFits
  <2> QED
    BY <2>1, <2>2
<1>5. Edge(text, tail - 1) \in Nat /\ Edge(text, tail - 1) <= Edge(text, k - 1)
  <2>1. tail - 1 \in 0 .. k - 1 /\ k - 1 \in 0 .. Len(text)
    BY <1>1, <1>4
  <2>2. tail - 1 \in 0 .. Len(text)
    BY <1>1, <2>1
  <2> QED
    BY <2>1, <2>2, EdgeIsNat, EdgesMonotone
<1>a. Closes(text, size, overlap, w, first, k, new, v)
  BY ClosedChunk
<1>6. /\ v \in Seq(Window) /\ Len(v) = Len(w) + 1 /\ v[Len(v)] = new
      /\ \A i \in 1 .. Len(v) : v[i].first \in Nat /\ v[i].last \in Nat
      /\ new.first = first /\ new.last = k - 1
      /\ Past(text, overlap, v, k)
      /\ Bounded(text, size, v)
  BY <1>a DEF Closes
<1>7. Len(v) # 0
  BY <1>1, <1>6
<1>8. Carried(text, overlap, v, tail)
  <2>1. first <= tail /\ tail <= (k - 1) + 1
    BY <1>1, <1>4
  <2> QED
    BY <1>4, <1>6, <1>7, <2>1 DEF Carried
<1>9. count = Edge(text, k) - Edge(text, tail - 1)
  <2>1. count = (Edge(text, k - 1) - Edge(text, tail - 1))
                   + ((Edge(text, k) - Edge(text, k - 1) - 1) + 1)
    BY DEF Joined, Spaced
  <2> QED
    BY <1>3, <1>5, <2>1
<1>10. Counted(text, size, v, tail, k, count)
  <2>1. Joined(text, tail, k) = Edge(text, k) - Edge(text, tail - 1) - 1
    BY DEF Joined, Spaced
  <2>2. Joined(text, tail, k) <= count
    BY <1>3, <1>5, <1>9, <2>1
  <2>3. Len(v) # 0 /\ v[Len(v)].last = k - 1
    BY <1>6, <1>7
  <2>4. tail <= k /\ k = (k - 1) + 1
    BY <1>1, <1>4
  <2> QED
    BY <2>2, <2>3, <2>4 DEF Counted
<1>11. /\ count \in Nat /\ (k + 1) - 1 = k
       /\ k + 1 \in 1 .. Len(text) + 1 /\ tail \in 1 .. k + 1
  <2>1. (k + 1) - 1 = k /\ k + 1 \in 1 .. Len(text) + 1 /\ tail \in 1 .. k + 1
    BY <1>1, <1>4
  <2>2. count \in Nat
    BY <1>3, <1>5, <1>9
  <2> QED
    BY <2>1, <2>2
<1> QED
  BY <1>6, <1>8, <1>10, <1>11 DEF Scan

-----------------------------------------------------------------------------
\* The loop starts in its invariant.
THEOREM LoopStarts ==
    ASSUME NEW text, IsText(text), NEW size \in Nat, NEW overlap \in Nat
    PROVE  ScanInv(text, size, overlap, Start)
<1>1. /\ Start.chunks = <<>> /\ Start.first = 1 /\ Start.next = 1
      /\ Start.length = 0 /\ Start \in State
  BY DEF Start, State
<1>2. Len(text) \in Nat
  BY DEF IsText
<1>3. Len(<<>>) = 0 /\ <<>> \in Seq(Window)
  OBVIOUS
<1> HIDE DEF Start
<1> QED
  BY <1>1, <1>2, <1>3 DEF ScanInv, Scan, Past, Carried, Bounded

\* Each round keeps it, whether the word fits or not.
THEOREM RoundKeepsInvariant ==
    ASSUME NEW text, IsText(text), NEW size \in Nat, NEW overlap \in Nat,
           NEW s, ScanInv(text, size, overlap, s), s.next <= Len(text)
    PROVE  ScanInv(text, size, overlap, PlaceWord(text, size, overlap, s))
<1>1. PICK r : r = PlaceWord(text, size, overlap, s)
  OBVIOUS
<1>2. PICK added : added = Joined(text, s.next, s.next)
                             + (IF s.first < s.next THEN 1 ELSE 0)
  OBVIOUS
<1>3. Scan(text, size, overlap, s.chunks, s.first, s.next, s.length)
  BY DEF ScanInv
<1>4. CASE ~ (s.length + added > size /\ s.first < s.next)
  <2>1. r = [chunks |-> s.chunks, first |-> s.first,
             next |-> s.next + 1, length |-> s.length + added]
    BY <1>1, <1>2, <1>4 DEF PlaceWord
  <2>2. Scan(text, size, overlap, s.chunks, s.first, s.next + 1, s.length + added)
    BY <1>2, <1>3, <1>4, FittingWord
  <2> QED
    BY <1>1, <2>1, <2>2, ScanIsTyped
<1>5. CASE s.length + added > size /\ s.first < s.next
  <2>1. PICK tail : tail = TailStart(text, s.first, s.next - 1, overlap)
    OBVIOUS
  <2>2. PICK new : new = [first |-> s.first, last |-> s.next - 1]
    OBVIOUS
  <2>3. PICK v : v = Append(s.chunks, new)
    OBVIOUS
  <2>4. PICK count : count = Spaced(text, tail, s.next - 1)
                               + (Joined(text, s.next, s.next) + 1)
    OBVIOUS
  <2>5. added = Joined(text, s.next, s.next) + 1
    BY <1>2, <1>5
  <2>6. r = [chunks |-> v, first |-> tail, next |-> s.next + 1, length |-> count]
    BY <1>1, <1>2, <1>5, <2>1, <2>2, <2>3, <2>4, <2>5 DEF PlaceWord
  <2>7. Scan(text, size, overlap, v, tail, s.next + 1, count)
    BY <1>3, <1>5, <2>1, <2>2, <2>3, <2>4, ClosingWord
  <2> QED
    BY <1>1, <2>6, <2>7, ScanIsTyped
<1> QED
  BY <1>4, <1>5

\* Behind the last word it gives chunks that cover the text, share no more
\* than overlap and are longer than size only for a word that does not fit.
THEOREM ClosedTextIsCovered ==
    ASSUME NEW text, IsText(text), text # <<>>,
           NEW size \in Nat, NEW overlap \in Nat,
           NEW s, ScanInv(text, size, overlap, s), s.next = Len(text) + 1
    PROVE  Cover(text, overlap, Close(s)) /\ Bounded(text, size, Close(s))
<1>1. /\ Len(text) \in Nat /\ Len(text) # 0 /\ (s.next - 1) = Len(text)
      /\ s.next > 1
  BY DEF IsText
<1>2. Scan(text, size, overlap, s.chunks, s.first, s.next, s.length)
  BY DEF ScanInv
<1>3. s.first < s.next
  <2>1. s.first <= s.next - 1 /\ s.first \in Int
    BY <1>1, <1>2 DEF Scan, Counted
  <2> QED
    BY <1>1, <2>1
<1>4. PICK new : new = [first |-> s.first, last |-> s.next - 1]
  OBVIOUS
<1>5. PICK v : v = Append(s.chunks, new)
  OBVIOUS
<1>6. v = Close(s)
  BY <1>4, <1>5 DEF Close
<1>7. /\ v[Len(v)].last = Len(text) /\ v[1].first = 1
      /\ Past(text, overlap, v, s.next) /\ Bounded(text, size, v)
  <2>1. Closes(text, size, overlap, s.chunks, s.first, s.next, new, v)
    BY <1>2, <1>3, <1>4, <1>5, ClosedChunk
  <2> QED
    BY <1>1, <2>1 DEF Closes
<1>8. Cover(text, overlap, v)
  BY <1>7 DEF Cover, Past
<1> QED
  BY <1>6, <1>7, <1>8

\* What chunk_text makes of a text.
THEOREM ChunksCoverText ==
    ASSUME NEW text, IsText(text), text # <<>>, NEW size \in Nat, NEW overlap \in Nat
    PROVE  LET chunks == ChunkText(text, size, overlap) IN
           Cover(text, overlap, chunks) /\ Bounded(text, size, chunks)
<1> DEFINE n == Len(text)
           Round(s) == PlaceWord(text, size, overlap, s)
           scan[i \in 0 .. n] == IF i = 0 THEN Start ELSE Round(scan[i - 1])
           At(i) == {s \in State : ScanInv(text, size, overlap, s) /\ s.next = i + 1}
           A == [i \in 0 .. n |-> At(i)]
           step == [i \in 1 .. n |-> [s \in At(i - 1) |-> Round(s)]]
<1>0. n \in Nat
  BY DEF IsText
<1>1. ChunkText(text, size, overlap) = Close(scan[n])
  BY DEF ChunkText
<1>2. Start \in At(0)
  <2>1. ScanInv(text, size, overlap, Start)
    BY LoopStarts
  <2>2. Start.next = 0 + 1
    BY DEF Start
  <2> QED
    BY <2>1, <2>2 DEF ScanInv
<1>3. ASSUME NEW i \in 1 .. n, NEW s \in At(i - 1)
      PROVE  Round(s) \in At(i)
  <2>1. ScanInv(text, size, overlap, s) /\ s.next = i
    BY <1>3
  <2>2. ScanInv(text, size, overlap, Round(s))
    BY <1>0, <2>1, RoundKeepsInvariant
  <2>3. Round(s).next = i + 1
    BY <2>1 DEF PlaceWord
  <2> QED
    BY <2>2, <2>3 DEF ScanInv
<1> HIDE DEF n, At, Round
<1>4. /\ Start \in A[0]
      /\ \A i \in 0 .. n : A[i] = At(i)
      /\ \A i \in 1 .. n : A[i - 1] = At(i - 1)
      /\ \A i \in 1 .. n : \A s \in A[i - 1] : step[i][s] = Round(s) /\ step[i][s] \in A[i]
  BY <1>0, <1>2, <1>3
<1> HIDE DEF A, step
<1>5. PICK f : Iterates(f, A, Start, step, n)
  BY <1>0, <1>4, Recursion
<1>6. f = [i \in 0 .. n |-> IF i = 0 THEN Start ELSE Round(f[i - 1])]
  <2>1. f = [i \in 0 .. n |-> f[i]] /\ f[0] = Start
    BY <1>5 DEF Iterates
  <2>2. ASSUME NEW i \in 1 .. n PROVE f[i] = Round(f[i - 1])
    <3>1. i - 1 \in 0 .. n
      BY <1>0
    <3>2. f[i] = step[i][f[i - 1]] /\ f[i - 1] \in A[i - 1]
      BY <1>5, <3>1 DEF Iterates
    <3> QED
      BY <1>4, <3>2
  <2>3. \A i \in 0 .. n : f[i] = IF i = 0 THEN Start ELSE Round(f[i - 1])
    BY <1>0, <2>1, <2>2
  <2> QED
    BY <2>1, <2>3
<1>7. scan = [i \in 0 .. n |-> IF i = 0 THEN Start ELSE Round(scan[i - 1])]
  <2>1. \E g : g = [i \in 0 .. n |-> IF i = 0 THEN Start ELSE Round(g[i - 1])]
    BY <1>6
  <2> QED
    BY <2>1, Zenon
<1> HIDE DEF scan
<1>8. scan[0] = Start /\ \A i \in 1 .. n : scan[i] = Round(scan[i - 1])
  BY <1>0, <1>7
<1>9. \A i \in 0 .. n : scan[i] \in A[i]
  <2>1. \A i \in 1 .. n : scan[i - 1] \in A[i - 1] => scan[i] = step[i][scan[i - 1]]
    BY <1>4, <1>8
  <2>2. /\ scan[0] \in A[0]
        /\ \A i \in 1 .. n : \A s \in A[i - 1] : step[i][s] \in A[i]
    BY <1>4, <1>8
  <2> QED
    BY <1>0, <2>1, <2>2, OneSolution
<1>10. ScanInv(text, size, overlap, scan[n]) /\ scan[n].next = n + 1
  <2>1. scan[n] \in At(n)
    BY <1>0, <1>4, <1>9
  <2> QED
    BY <2>1 DEF At
<1> QED
  BY <1>1, <1>10, ClosedTextIsCovered DEF n

-----------------------------------------------------------------------------
(* Orders                                                                  *)

\* R orders S.
Orders(R, S) ==
    /\ \A x \in S : <<x, x>> \in R
    /\ \A x, y \in S : <<x, y>> \in R \/ <<y, x>> \in R
    /\ \A x, y \in S : <<x, y>> \in R /\ <<y, x>> \in R => x = y
    /\ \A x, y, z \in S : <<x, y>> \in R /\ <<y, z>> \in R => <<x, z>> \in R

\* How many of S are not behind x.
Place(R, S, x) == Cardinality({y \in S : <<y, x>> \in R})

\* In an ordered finite set every place is taken, by one element.
LEMMA PlacesFill ==
    ASSUME NEW S, IsFiniteSet(S), NEW R, Orders(R, S)
    PROVE  /\ \A x \in S : Place(R, S, x) \in 1 .. Cardinality(S)
           /\ \A x, y \in S : <<x, y>> \in R /\ x # y => Place(R, S, x) < Place(R, S, y)
           /\ \A p \in 1 .. Cardinality(S) : \E x \in S : Place(R, S, x) = p
<1> DEFINE Up(x) == {y \in S : <<y, x>> \in R}
           n == Cardinality(S)
<1>1. n \in Nat
  BY FS_CardinalityType
<1>2. ASSUME NEW x \in S
      PROVE  IsFiniteSet(Up(x)) /\ Cardinality(Up(x)) \in 1 .. n
  <2>1. Up(x) \in SUBSET S /\ x \in Up(x)
    BY DEF Orders
  <2> HIDE DEF Up, n
  <2>2. IsFiniteSet(Up(x)) /\ Cardinality(Up(x)) <= Cardinality(S)
    BY <2>1, FS_Subset
  <2>3. Cardinality(Up(x)) \in Nat /\ Cardinality(Up(x)) # 0
    BY <2>1, <2>2, FS_CardinalityType, FS_EmptySet
  <2> QED
    BY <1>1, <2>2, <2>3 DEF n
<1>3. ASSUME NEW x \in S, NEW y \in S, <<x, y>> \in R, x # y
      PROVE  Cardinality(Up(x)) < Cardinality(Up(y))
  <2>1. Up(x) \in SUBSET Up(y) /\ y \in Up(y) /\ y \notin Up(x)
    BY <1>3 DEF Orders
  <2>2. IsFiniteSet(Up(y)) /\ Cardinality(Up(x)) \in Nat /\ Cardinality(Up(y)) \in Nat
    BY <1>1, <1>2
  <2> HIDE DEF Up
  <2>3. Cardinality(Up(x)) <= Cardinality(Up(y)) /\ Cardinality(Up(x)) # Cardinality(Up(y))
    BY <2>1, <2>2, FS_Subset
  <2> QED
    BY <2>2, <2>3
<1>4. \A p \in 1 .. n : \E x \in S : Cardinality(Up(x)) = p
  <2> DEFINE f == [x \in S |-> Cardinality(Up(x))]
  <2>1. f \in [S -> 1 .. n]
    <3> HIDE DEF Up, n
    <3> QED
      BY <1>2
  <2>2. ASSUME NEW x \in S, NEW y \in S, f[x] = f[y] PROVE x = y
    <3>1. Cardinality(Up(x)) = Cardinality(Up(y))
      BY <2>2
    <3>2. Cardinality(Up(x)) \in Nat
      BY <1>1, <1>2
    <3>3. CASE <<x, y>> \in R
      <4> HIDE DEF Up
      <4> QED
        BY <1>3, <3>1, <3>2, <3>3
    <3>4. CASE <<y, x>> \in R
      <4> HIDE DEF Up
      <4> QED
        BY <1>3, <3>1, <3>2, <3>4
    <3> QED
      BY <3>3, <3>4 DEF Orders
  <2>3. f \in Injection(S, 1 .. n)
    <3> HIDE DEF f
    <3> QED
      BY <2>1, <2>2 DEF Injection, IsInjective
  <2>4. IsFiniteSet(1 .. n) /\ Cardinality(1 .. n) = n
    BY <1>1, FS_Interval
  <2>5. f \in Surjection(S, 1 .. n)
    <3> HIDE DEF f
    <3> QED
      BY <2>3, <2>4, FS_Injection
  <2>6. \A p \in 1 .. n : \E x \in S : f[x] = p
    <3> HIDE DEF f
    <3> QED
      BY <2>5 DEF Surjection
  <2> QED
    BY <2>6
<1> QED
  BY <1>2, <1>3, <1>4 DEF Place

\* q is the elements of S, each once, those ahead first.
Sorted(q, S, R) ==
    LET n == Cardinality(S) IN
    /\ n \in Nat /\ Len(q) = n
    /\ q \in Seq(S)
    /\ q \in [1 .. n -> S]
    /\ \A x \in S : \E p \in 1 .. n : q[p] = x
    /\ \A i, j \in 1 .. n : i < j => <<q[i], q[j]>> \in R /\ q[i] # q[j]

\* InOrder sorts a finite set.
LEMMA InOrderSorts ==
    ASSUME NEW S, IsFiniteSet(S), NEW R, Orders(R, S)
    PROVE  Sorted(InOrder(S, R), S, R)
<1> DEFINE n == Cardinality(S)
           Up(x) == {y \in S : <<y, x>> \in R}
           f == [p \in 1 .. n |-> CHOOSE x \in S : Cardinality(Up(x)) = p]
<1>0. n \in Nat
  BY FS_CardinalityType
<1>1. InOrder(S, R) = f
  BY DEF InOrder
<1>2. /\ \A x \in S : Cardinality(Up(x)) \in 1 .. n
      /\ \A x, y \in S : <<x, y>> \in R /\ x # y => Cardinality(Up(x)) < Cardinality(Up(y))
      /\ \A p \in 1 .. n : \E x \in S : Cardinality(Up(x)) = p
  BY PlacesFill DEF Place
<1> HIDE DEF n, Up
<1>3. ASSUME NEW p \in 1 .. n PROVE f[p] \in S /\ Cardinality(Up(f[p])) = p
  <2>1. \E x \in S : Cardinality(Up(x)) = p
    BY <1>2
  <2>2. f[p] = CHOOSE x \in S : Cardinality(Up(x)) = p
    OBVIOUS
  <2> QED
    BY <2>1, <2>2
<1>4. f \in [1 .. n -> S] /\ f \in Seq(S) /\ Len(f) = n
  BY <1>0, <1>3
<1> HIDE DEF f
<1>5. ASSUME NEW x \in S PROVE \E p \in 1 .. n : f[p] = x
  <2>1. PICK p \in 1 .. n : p = Cardinality(Up(x))
    BY <1>2
  <2>2. f[p] \in S /\ Cardinality(Up(f[p])) = Cardinality(Up(x))
    BY <1>3, <2>1
  <2>3. <<x, f[p]>> \in R \/ <<f[p], x>> \in R
    BY <2>2 DEF Orders
  <2>4. Cardinality(Up(x)) \in Nat
    BY <2>1
  <2>5. f[p] = x
    BY <1>2, <2>2, <2>3, <2>4
  <2> QED
    BY <2>5
<1>6. ASSUME NEW p \in 1 .. n, NEW q \in 1 .. n, p < q
      PROVE  <<f[p], f[q]>> \in R /\ f[p] # f[q]
  <2>1. /\ f[p] \in S /\ Cardinality(Up(f[p])) = p
        /\ f[q] \in S /\ Cardinality(Up(f[q])) = q
    BY <1>3
  <2>2. f[p] # f[q]
    BY <1>0, <1>6, <2>1
  <2>3. <<f[q], f[p]>> \notin R
    BY <1>0, <1>2, <1>6, <2>1, <2>2
  <2> QED
    BY <2>1, <2>2, <2>3 DEF Orders
<1> QED
  BY <1>0, <1>1, <1>4, <1>5, <1>6 DEF n, Sorted

\* q is the numbers of S, upward.
Ascends(q, S) ==
    LET n == Cardinality(S) IN
    /\ n \in Nat /\ Len(q) = n
    /\ q \in [1 .. n -> S]
    /\ \A x \in S : \E p \in 1 .. n : q[p] = x
    /\ \A i, j \in 1 .. n : i < j => q[i] < q[j]

\* A set of numbers in order: at each place the next of them.
LEMMA Ascending ==
    ASSUME NEW n \in Nat, NEW S \in SUBSET (1 .. n)
    PROVE  Ascends(InOrder(S, Upward), S)
<1>0. PICK q : q = InOrder(S, Upward)
  OBVIOUS
<1>1. IsFiniteSet(1 .. n)
  BY FS_Interval
<1>2. IsFiniteSet(S)
  BY <1>1, FS_Subset
<1>3. \A x \in S : x \in Nat
  OBVIOUS
<1>4. \A x, y \in S : <<x, y>> \in Upward <=> x <= y
  BY <1>3 DEF Upward
<1>5. Orders(Upward, S)
  BY <1>3, <1>4 DEF Orders
<1>6. Sorted(q, S, Upward)
  BY <1>0, <1>2, <1>5, InOrderSorts
<1>7. PICK k \in Nat : k = Cardinality(S)
  BY <1>6 DEF Sorted
<1>8. /\ Len(q) = k /\ q \in [1 .. k -> S]
      /\ \A x \in S : \E p \in 1 .. k : q[p] = x
      /\ \A i, j \in 1 .. k : i < j => <<q[i], q[j]>> \in Upward /\ q[i] # q[j]
  BY <1>6, <1>7 DEF Sorted
<1>9. ASSUME NEW i \in 1 .. k, NEW j \in 1 .. k, i < j PROVE q[i] < q[j]
  <2>1. q[i] \in S /\ q[j] \in S /\ <<q[i], q[j]>> \in Upward /\ q[i] # q[j]
    BY <1>8, <1>9
  <2>2. q[i] \in Nat /\ q[j] \in Nat /\ q[i] <= q[j]
    BY <1>3, <1>4, <2>1
  <2> QED
    BY <2>1, <2>2
<1> QED
  BY <1>0, <1>7, <1>8, <1>9 DEF Ascends

-----------------------------------------------------------------------------
(* The frames                                                              *)

\* r is s and then t, all made of T.
Concatenates(r, s, t, T) ==
    /\ r \in Seq(T) /\ Len(r) = Len(s) + Len(t)
    /\ \A i \in 1 .. Len(s) : r[i] = s[i]
    /\ \A i \in 1 .. Len(t) : r[Len(s) + i] = t[i]

\* What \o makes.
LEMMA Concatenation ==
    ASSUME NEW T, NEW s \in Seq(T), NEW t \in Seq(T)
    PROVE  Concatenates(s \o t, s, t, T)
BY DEF Concatenates

\* A set of one in order.
LEMMA OneInOrder ==
    ASSUME NEW a \in Nat \ {0}
    PROVE  InOrder({a}, Upward) = <<a>>
<1>1. PICK q : q = InOrder({a}, Upward)
  OBVIOUS
<1>2. Ascends(q, {a})
  <2>1. {a} \in SUBSET (1 .. a)
    OBVIOUS
  <2> QED
    BY <1>1, <2>1, Ascending
<1>3. Cardinality({a}) = 1
  BY FS_Singleton
<1>4. q \in [1 .. 1 -> {a}]
  BY <1>2, <1>3 DEF Ascends
<1> QED
  BY <1>1, <1>4

\* A set of two in order.
LEMMA TwoInOrder ==
    ASSUME NEW a \in Nat \ {0}, NEW b \in Nat, a < b
    PROVE  InOrder({a, b}, Upward) = <<a, b>>
<1>1. PICK q : q = InOrder({a, b}, Upward)
  OBVIOUS
<1>2. Ascends(q, {a, b})
  <2>1. {a, b} \in SUBSET (1 .. b)
    OBVIOUS
  <2> QED
    BY <1>1, <2>1, Ascending
<1>3. Cardinality({a, b}) = 2
  <2>1. IsFiniteSet({a}) /\ Cardinality({a}) = 1
    BY FS_Singleton
  <2>2. {a} \cup {b} = {a, b} /\ b \notin {a}
    OBVIOUS
  <2> QED
    BY <2>1, <2>2, FS_AddElement
<1>4. q \in [1 .. 2 -> {a, b}] /\ q[1] < q[2]
  BY <1>2, <1>3 DEF Ascends
<1>5. q[1] = a /\ q[2] = b
  BY <1>4
<1> QED
  BY <1>1, <1>4, <1>5

\* The four symbols with a part of their own are symbols.
LEMMA SymbolsHold == {Feed, Escaped, EventField, DataField} \subseteq Symbols
BY AnswerPathAssumption DEF AnswerPathAssumption

\* A payload is on one line, and the page reads it back (json.dumps, JSON.parse).
LEMMA DumpsIsLine ==
    ASSUME NEW p \in Seq(Symbols \ {Escaped})
    PROVE  /\ Dumps(p) \in Seq(Symbols \ {Feed})
           /\ Len(Dumps(p)) = Len(p)
           /\ Parse(Dumps(p)) = p
<1>1. \A i \in 1 .. Len(p) :
          (IF p[i] = Feed THEN Escaped ELSE p[i]) \in Symbols \ {Feed}
  <2> SUFFICES ASSUME NEW i \in 1 .. Len(p)
               PROVE  (IF p[i] = Feed THEN Escaped ELSE p[i]) \in Symbols \ {Feed}
    OBVIOUS
  <2>1. p[i] \in Symbols
    OBVIOUS
  <2>2. Escaped \in Symbols /\ Escaped # Feed
    BY SymbolsHold DEF Feed, Escaped
  <2> QED
    BY <2>1, <2>2
<1>2. Dumps(p) \in Seq(Symbols \ {Feed}) /\ Len(Dumps(p)) = Len(p)
  BY <1>1 DEF Dumps
<1>3. \A i \in 1 .. Len(p) : Dumps(p)[i] = IF p[i] = Feed THEN Escaped ELSE p[i]
  BY DEF Dumps
<1>4. Parse(Dumps(p)) = [i \in 1 .. Len(p) |-> p[i]]
  BY <1>2, <1>3 DEF Parse
<1> QED
  BY <1>2, <1>4

\* f is what _sse makes of e.
IsFrame(f, e, n) ==
    /\ n \in Nat /\ f \in Seq(Symbols) /\ Len(f) = n + 6
    /\ f[1] = EventField /\ f[2] = e.event /\ f[3] = Feed /\ f[4] = DataField
    /\ \A i \in 1 .. n : f[4 + i] = Dumps(e.payload)[i]
    /\ f[n + 5] = Feed /\ f[n + 6] = Feed
    /\ \A i \in {2} \cup 4 .. n + 4 : f[i] # Feed

\* What _sse writes is a frame.
LEMMA SseIsFrame ==
    ASSUME NEW e \in Event(Symbols)
    PROVE  IsFrame(Sse(e), e, Len(e.payload))
<1> DEFINE n == Len(e.payload)
           head == <<EventField, e.event, Feed, DataField>>
           body == Dumps(e.payload)
           end == <<Feed, Feed>>
<1>1. e.payload \in Seq(Symbols \ {Escaped}) /\ e.event \in Symbols \ {Feed} /\ n \in Nat
  BY DEF Event
<1>2. body \in Seq(Symbols \ {Feed}) /\ Len(body) = n
  BY <1>1, DumpsIsLine
<1>3. head \in Seq(Symbols) /\ Len(head) = 4 /\ end \in Seq(Symbols) /\ Len(end) = 2
  <2>1. \A x \in {EventField, e.event, Feed, DataField} : x \in Symbols
    BY <1>1, SymbolsHold
  <2>2. head \in Seq(Symbols) /\ Len(head) = 4
    <3>1. \A a, b, c, d : a \in Symbols /\ b \in Symbols /\ c \in Symbols /\ d \in Symbols
              => <<a, b, c, d>> \in Seq(Symbols) /\ Len(<<a, b, c, d>>) = 4
      OBVIOUS
    <3> QED
      BY <2>1, <3>1
  <2>3. end \in Seq(Symbols) /\ Len(end) = 2
    <3>1. \A a, b : a \in Symbols /\ b \in Symbols
              => <<a, b>> \in Seq(Symbols) /\ Len(<<a, b>>) = 2
      OBVIOUS
    <3> QED
      BY <2>1, <3>1
  <2> QED
    BY <2>2, <2>3
<1>4. /\ head[1] = EventField /\ head[2] = e.event /\ head[3] = Feed /\ head[4] = DataField
      /\ end[1] = Feed /\ end[2] = Feed
  OBVIOUS
<1>5. Sse(e) = (head \o body) \o end
  BY DEF Sse
<1>a. body \in Seq(Symbols)
  BY <1>2
<1> HIDE DEF head, body, end, n
<1>6. /\ head \o body \in Seq(Symbols) /\ Len(head \o body) = 4 + n
      /\ \A i \in 1 .. 4 : (head \o body)[i] = head[i]
      /\ \A i \in 1 .. n : (head \o body)[4 + i] = body[i]
  <2>1. Concatenates(head \o body, head, body, Symbols)
    BY <1>3, <1>a, Concatenation
  <2> QED
    BY <1>2, <1>3, <2>1 DEF Concatenates
<1>7. /\ Sse(e) \in Seq(Symbols) /\ Len(Sse(e)) = n + 6
      /\ \A i \in 1 .. n + 4 : Sse(e)[i] = (head \o body)[i]
      /\ Sse(e)[n + 5] = end[1] /\ Sse(e)[n + 6] = end[2]
  <2>1. /\ Sse(e) \in Seq(Symbols) /\ Len(Sse(e)) = (4 + n) + 2
        /\ \A i \in 1 .. 4 + n : Sse(e)[i] = (head \o body)[i]
        /\ \A i \in 1 .. 2 : Sse(e)[(4 + n) + i] = end[i]
    <3>1. Concatenates(Sse(e), head \o body, end, Symbols)
      BY <1>3, <1>5, <1>6, Concatenation
    <3> QED
      BY <1>3, <1>6, <3>1 DEF Concatenates
  <2>2. (4 + n) + 1 = n + 5 /\ (4 + n) + 2 = n + 6 /\ 4 + n = n + 4
    BY <1>1
  <2>3. 1 \in 1 .. 2 /\ 2 \in 1 .. 2
    OBVIOUS
  <2> QED
    BY <2>1, <2>2, <2>3
<1>8. /\ Sse(e)[1] = EventField /\ Sse(e)[2] = e.event /\ Sse(e)[3] = Feed
      /\ Sse(e)[4] = DataField
  <2>1. ASSUME NEW i \in 1 .. 4 PROVE Sse(e)[i] = head[i]
    <3>1. i \in 1 .. n + 4
      BY <1>1
    <3> QED
      BY <1>6, <1>7, <3>1
  <2>2. 1 \in 1 .. 4 /\ 2 \in 1 .. 4 /\ 3 \in 1 .. 4 /\ 4 \in 1 .. 4
    OBVIOUS
  <2> QED
    BY <1>4, <2>1, <2>2
<1>9. \A i \in 1 .. n : Sse(e)[4 + i] = body[i] /\ body[i] # Feed
  <2> TAKE i \in 1 .. n
  <2>1. 4 + i \in 1 .. n + 4
    BY <1>1
  <2>2. Sse(e)[4 + i] = body[i]
    BY <1>6, <1>7, <2>1
  <2> QED
    BY <1>2, <2>2
<1>10. \A i \in {2} \cup 4 .. n + 4 : Sse(e)[i] # Feed
  <2> TAKE i \in {2} \cup 4 .. n + 4
  <2>1. CASE i = 2
    BY <1>1, <1>8, <2>1
  <2>2. CASE i = 4
    BY <1>8, <2>2 DEF Feed, EventField, DataField
  <2>3. CASE i \in 5 .. n + 4
    <3>1. i - 4 \in 1 .. n /\ 4 + (i - 4) = i
      BY <1>1, <2>3
    <3> QED
      BY <1>9, <3>1
  <2> QED
    BY <2>1, <2>2, <2>3, <1>1
<1> QED
  BY <1>1, <1>4, <1>7, <1>8, <1>9, <1>10 DEF IsFrame, n, body

\* r is what s holds from a to b.
Slices(r, s, a, b, T) ==
    /\ r \in Seq(T) /\ Len(r) = b - a + 1
    /\ \A i \in 1 .. b - a + 1 : r[i] = s[a + i - 1]

\* What SubSeq makes.
LEMMA SubSeqSlices ==
    ASSUME NEW T, NEW s \in Seq(T), NEW a \in 1 .. Len(s) + 1, NEW b \in a - 1 .. Len(s)
    PROVE  Slices(SubSeq(s, a, b), s, a, b, T)
BY DEF Slices

\* What Tail makes.
LEMMA TailSlices ==
    ASSUME NEW T, NEW s \in Seq(T), Len(s) # 0
    PROVE  Slices(Tail(s), s, 2, Len(s), T)
BY DEF Slices

\* Sequences alike at every place are the same.
LEMMA SameSequence ==
    ASSUME NEW T, NEW r \in Seq(T), NEW s \in Seq(T), Len(r) = Len(s),
           \A i \in 1 .. Len(s) : r[i] = s[i]
    PROVE  r = s
OBVIOUS

\* A sequence of one.
LEMMA OneLong == \A x : [i \in 1 .. 1 |-> x] = <<x>>
OBVIOUS

\* A sequence of length one is of its one element.
LEMMA OneOf ==
    ASSUME NEW T, NEW s \in Seq(T), Len(s) = 1
    PROVE  s = <<s[1]>>
OBVIOUS

\* A frame's only empty line ends it.
LEMMA FrameEnds ==
    ASSUME NEW f, NEW e, NEW n, IsFrame(f, e, n),
           NEW i \in 1 .. n + 5, f[i] = Feed, f[i + 1] = Feed
    PROVE  i = n + 5
<1>1. n \in Nat /\ \A k \in {2} \cup 4 .. n + 4 : f[k] # Feed
  BY DEF IsFrame
<1>2. i # 1 /\ i # 2 /\ i # 3
  <2>1. f[1] # Feed
    BY DEF IsFrame, Feed, EventField
  <2> QED
    BY <1>1, <2>1
<1> QED
  BY <1>1, <1>2

\* Join of one line is the line.
LEMMA OneLine ==
    ASSUME NEW l
    PROVE  Join(<<l>>) = l
<1> DEFINE lines == <<l>>
           upto[n \in 1 .. Len(lines)] ==
               IF n = 1 THEN lines[1] ELSE upto[n - 1] \o <<Feed>> \o lines[n]
<1>1. Len(lines) = 1 /\ lines[1] = l
  OBVIOUS
<1>2. Join(<<l>>) = upto[1]
  BY <1>1 DEF Join
<1> HIDE DEF lines
<1>3. upto = [n \in 1 .. Len(lines) |->
                IF n = 1 THEN lines[1] ELSE upto[n - 1] \o <<Feed>> \o lines[n]]
  <2> DEFINE g == [n \in 1 .. 1 |-> lines[1]]
  <2>1. g = [n \in 1 .. 1 |-> IF n = 1 THEN lines[1] ELSE g[n - 1] \o <<Feed>> \o lines[n]]
    OBVIOUS
  <2>2. \E h : h = [n \in 1 .. Len(lines) |->
                       IF n = 1 THEN lines[1] ELSE h[n - 1] \o <<Feed>> \o lines[n]]
    BY <1>1, <2>1
  <2> QED
    BY <2>2, Zenon
<1> HIDE DEF upto
<1>4. upto[1] = lines[1]
  BY <1>1, <1>3
<1> QED
  BY <1>1, <1>2, <1>4

\* Without its empty line it does what was sent.
LEMMA FrameDispatched ==
    ASSUME NEW f, NEW e \in Event(Symbols), NEW n, n = Len(e.payload), IsFrame(f, e, n)
    PROVE  Dispatched(SubSeq(f, 1, n + 4)) = <<e>>
<1>1. PICK raw : raw = SubSeq(f, 1, n + 4)
  OBVIOUS
<1>2. /\ n \in Nat /\ raw \in Seq(Symbols) /\ Len(raw) = n + 4
      /\ \A i \in 1 .. n + 4 : raw[i] = f[i]
  <2>1. n \in Nat /\ f \in Seq(Symbols) /\ Len(f) = n + 6
    BY DEF IsFrame
  <2>2. 1 \in 1 .. Len(f) + 1 /\ n + 4 \in 1 - 1 .. Len(f)
    BY <2>1
  <2>3. Slices(raw, f, 1, n + 4, Symbols)
    BY <1>1, <2>1, <2>2, SubSeqSlices
  <2> QED
    BY <2>1, <2>3 DEF Slices
<1>3. /\ raw[1] = EventField /\ raw[2] = e.event /\ raw[3] = Feed /\ raw[4] = DataField
      /\ \A i \in 1 .. n : raw[4 + i] = Dumps(e.payload)[i]
      /\ \A i \in {2} \cup 4 .. n + 4 : raw[i] # Feed
  <2>1. 1 \in 1 .. n + 4 /\ 2 \in 1 .. n + 4 /\ 3 \in 1 .. n + 4 /\ 4 \in 1 .. n + 4
    BY <1>2
  <2>2. \A i \in 1 .. n : 4 + i \in 1 .. n + 4
    BY <1>2
  <2>3. \A i \in {2} \cup 4 .. n + 4 : i \in 1 .. n + 4
    BY <1>2
  <2> QED
    BY <1>2, <2>1, <2>2, <2>3 DEF IsFrame
<1>4. {i \in 1 .. Len(raw) : raw[i] = Feed} \cup {Len(raw) + 1} = {3, n + 5}
  <2>1. raw[1] # Feed
    BY <1>3 DEF Feed, EventField, DataField
  <2>2. \A i \in 1 .. n + 4 : raw[i] = Feed <=> i = 3
    BY <1>2, <1>3, <2>1
  <2>3. (n + 4) + 1 = n + 5 /\ 3 \in 1 .. n + 4
    BY <1>2
  <2> QED
    BY <1>2, <2>2, <2>3
<1>5. PICK ends : ends = <<3, n + 5>>
  OBVIOUS
<1>6. InOrder({i \in 1 .. Len(raw) : raw[i] = Feed} \cup {Len(raw) + 1}, Upward) = ends
  <2>1. n + 5 \in Nat /\ 3 < n + 5
    BY <1>2
  <2> QED
    BY <1>4, <1>5, <2>1, TwoInOrder
<1>7. Len(ends) = 2 /\ ends[1] = 3 /\ ends[2] = n + 5
  BY <1>5
<1>8. PICK lines : lines = Lines(raw)
  OBVIOUS
<1>9. lines = [k \in 1 .. 2 |->
                  SubSeq(raw, IF k = 1 THEN 1 ELSE ends[k - 1] + 1, ends[k] - 1)]
  BY <1>6, <1>7, <1>8 DEF Lines
<1>10. Len(lines) = 2 /\ lines[1] = SubSeq(raw, 1, 2) /\ lines[2] = SubSeq(raw, 4, n + 4)
  <2>1. ends[1] + 1 = 4 /\ ends[1] - 1 = 2 /\ ends[2] - 1 = n + 4
    BY <1>2, <1>7
  <2> QED
    BY <1>9, <2>1
<1>11. lines[1] \in Seq(Symbols) /\ Len(lines[1]) = 2 /\ lines[1][1] = EventField
       /\ lines[1][2] = e.event
  <2>1. 1 \in 1 .. Len(raw) + 1 /\ 2 \in 1 - 1 .. Len(raw)
    BY <1>2
  <2>2. Slices(lines[1], raw, 1, 2, Symbols)
    BY <1>2, <1>10, <2>1, SubSeqSlices
  <2>3. 1 \in 1 .. 2 - 1 + 1 /\ 2 \in 1 .. 2 - 1 + 1
    OBVIOUS
  <2>4. lines[1][1] = raw[1] /\ lines[1][2] = raw[2]
    BY <2>2, <2>3 DEF Slices
  <2> QED
    BY <1>3, <2>2, <2>4 DEF Slices
<1>12. /\ lines[2] \in Seq(Symbols) /\ Len(lines[2]) = n + 1 /\ lines[2][1] = DataField
       /\ \A i \in 1 .. n : lines[2][i + 1] = Dumps(e.payload)[i]
  <2>1. /\ lines[2] \in Seq(Symbols) /\ Len(lines[2]) = n + 1
        /\ \A i \in 1 .. n + 1 : lines[2][i] = raw[i + 3]
    <3>1. 4 \in 1 .. Len(raw) + 1 /\ n + 4 \in 4 - 1 .. Len(raw)
      BY <1>2
    <3>2. Slices(lines[2], raw, 4, n + 4, Symbols)
      BY <1>2, <1>10, <3>1, SubSeqSlices
    <3>3. (n + 4) - 4 + 1 = n + 1 /\ \A i \in 1 .. n + 1 : 4 + i - 1 = i + 3
      BY <1>2
    <3> QED
      BY <3>2, <3>3 DEF Slices
  <2>2. lines[2][1] = raw[4]
    BY <1>2, <2>1
  <2>3. ASSUME NEW i \in 1 .. n PROVE lines[2][i + 1] = raw[4 + i]
    <3>1. i + 1 \in 1 .. n + 1 /\ (i + 1) + 3 = 4 + i
      BY <1>2
    <3> QED
      BY <2>1, <3>1
  <2> QED
    BY <1>3, <2>1, <2>2, <2>3
<1>13. lines[1] # <<>> /\ lines[2] # <<>>
  <2>1. Len(<<>>) = 0 /\ Len(lines[1]) # 0 /\ Len(lines[2]) # 0
    BY <1>2, <1>11, <1>12
  <2> QED
    BY <2>1
<1>14. Field(raw, DataField) = <<Dumps(e.payload)>>
  <2>1. {k \in 1 .. Len(lines) : lines[k] # <<>> /\ lines[k][1] = DataField} = {2}
    <3>1. /\ lines[1][1] = EventField /\ lines[2][1] = DataField /\ EventField # DataField
          /\ 1 .. Len(lines) = {1, 2}
      BY <1>10, <1>11, <1>12 DEF EventField, DataField
    <3> QED
      BY <1>13, <3>1
  <2>2. PICK of : of = <<2>>
    OBVIOUS
  <2>3. InOrder({2}, Upward) = of
    BY <2>2, OneInOrder
  <2>4. Field(raw, DataField) = [i \in 1 .. Len(of) |-> Tail(lines[of[i]])]
    BY <1>8, <2>1, <2>3 DEF Field
  <2>5. Tail(lines[2]) = Dumps(e.payload)
    <3>1. Dumps(e.payload) \in Seq(Symbols) /\ Len(Dumps(e.payload)) = n
      <4>1. e.payload \in Seq(Symbols \ {Escaped})
        BY DEF Event
      <4> QED
        BY <4>1, DumpsIsLine
    <3>2. /\ Tail(lines[2]) \in Seq(Symbols) /\ Len(Tail(lines[2])) = n
          /\ \A i \in 1 .. n : Tail(lines[2])[i] = lines[2][i + 1]
      <4>1. Slices(Tail(lines[2]), lines[2], 2, n + 1, Symbols)
        BY <1>2, <1>12, TailSlices
      <4>2. (n + 1) - 2 + 1 = n /\ \A i \in 1 .. n : 2 + i - 1 = i + 1
        BY <1>2
      <4> QED
        BY <4>1, <4>2 DEF Slices
    <3> QED
      <4>1. PICK r, q : r = Tail(lines[2]) /\ q = Dumps(e.payload)
        OBVIOUS
      <4>2. /\ r \in Seq(Symbols) /\ q \in Seq(Symbols) /\ Len(r) = n /\ Len(q) = n
            /\ \A i \in 1 .. n : r[i] = q[i]
        BY <1>12, <3>1, <3>2, <4>1
      <4>3. r = q
        BY <4>2, SameSequence
      <4> QED
        BY <4>1, <4>3
  <2>6. Len(of) = 1 /\ of[1] = 2
    BY <2>2
  <2>7. Field(raw, DataField) = [i \in 1 .. 1 |-> Tail(lines[2])]
    BY <2>4, <2>6
  <2> QED
    BY <2>5, <2>7, OneLong
<1>15. Field(raw, EventField) = << <<e.event>> >>
  <2>1. {k \in 1 .. Len(lines) : lines[k] # <<>> /\ lines[k][1] = EventField} = {1}
    <3>1. /\ lines[1][1] = EventField /\ lines[2][1] = DataField /\ EventField # DataField
          /\ 1 .. Len(lines) = {1, 2}
      BY <1>10, <1>11, <1>12 DEF EventField, DataField
    <3> QED
      BY <1>13, <3>1
  <2>2. PICK of : of = <<1>>
    OBVIOUS
  <2>3. InOrder({1}, Upward) = of
    BY <2>2, OneInOrder
  <2>4. Field(raw, EventField) = [i \in 1 .. Len(of) |-> Tail(lines[of[i]])]
    BY <1>8, <2>1, <2>3 DEF Field
  <2>5. Tail(lines[1]) = <<e.event>>
    <3>1. Slices(Tail(lines[1]), lines[1], 2, 2, Symbols)
      <4>1. Slices(Tail(lines[1]), lines[1], 2, Len(lines[1]), Symbols)
        <5>1. lines[1] \in Seq(Symbols) /\ Len(lines[1]) # 0
          BY <1>11
        <5> QED
          BY <5>1, TailSlices
      <4> QED
        BY <1>11, <4>1
    <3>2. /\ Tail(lines[1]) \in Seq(Symbols) /\ Len(Tail(lines[1])) = 1
          /\ Tail(lines[1])[1] = e.event
      BY <1>11, <3>1 DEF Slices
    <3> QED
      BY <3>2, OneOf
  <2>6. Len(of) = 1 /\ of[1] = 1
    BY <2>2
  <2>7. Field(raw, EventField) = [i \in 1 .. 1 |-> Tail(lines[1])]
    BY <2>4, <2>6
  <2> QED
    BY <2>5, <2>7, OneLong
<1>16. PICK data, named : data = <<Dumps(e.payload)>> /\ named = << <<e.event>> >>
  OBVIOUS
<1>17. Join(data) = Dumps(e.payload) /\ Parse(Dumps(e.payload)) = e.payload
  <2>1. e.payload \in Seq(Symbols \ {Escaped})
    BY DEF Event
  <2> QED
    BY <1>16, <2>1, OneLine, DumpsIsLine
<1>18. data # <<>> /\ named # <<>> /\ named[Len(named)][1] = e.event
  BY <1>16
<1>19. Dispatched(raw) = <<[event |-> e.event, payload |-> e.payload]>>
  BY <1>14, <1>15, <1>16, <1>17, <1>18 DEF Dispatched
<1>20. [event |-> e.event, payload |-> e.payload] = e
  BY DEF Event
<1> QED
  BY <1>1, <1>19, <1>20

-----------------------------------------------------------------------------
(* The stream                                                              *)

\* The wire grows by a frame with each event.
LEMMA WireSteps ==
    ASSUME NEW events \in Seq(Event(Symbols))
    PROVE  /\ Wire(events, 0) = <<>>
           /\ \A n \in 0 .. Len(events) : Wire(events, n) \in Seq(Symbols)
           /\ \A n \in 1 .. Len(events) :
                  Wire(events, n) = Wire(events, n - 1) \o Sse(events[n])
<1> DEFINE A == [i \in 0 .. Len(events) |-> Seq(Symbols)]
           step == [i \in 1 .. Len(events) |-> [s \in Seq(Symbols) |-> s \o Sse(events[i])]]
<1>1. \A i \in 1 .. Len(events) : Sse(events[i]) \in Seq(Symbols)
  BY SseIsFrame DEF IsFrame
<1>2. Len(events) \in Nat /\ <<>> \in Seq(Symbols)
  OBVIOUS
<1>3. /\ \A i \in 0 .. Len(events) : A[i] = Seq(Symbols)
      /\ \A i \in 1 .. Len(events) : \A s \in Seq(Symbols) : step[i][s] = s \o Sse(events[i])
  OBVIOUS
<1>4. \A i \in 1 .. Len(events) : \A s \in A[i - 1] : step[i][s] \in A[i]
  <2> TAKE i \in 1 .. Len(events)
  <2>1. A[i - 1] = Seq(Symbols) /\ A[i] = Seq(Symbols)
    BY <1>3
  <2> HIDE DEF A, step
  <2>2. \A s \in Seq(Symbols) : s \o Sse(events[i]) \in Seq(Symbols)
    BY <1>1, Concatenation DEF Concatenates
  <2>3. \A s \in Seq(Symbols) : step[i][s] = s \o Sse(events[i])
    BY <1>3
  <2>4. \A s \in Seq(Symbols) : step[i][s] \in Seq(Symbols)
    BY <2>2, <2>3
  <2> QED
    BY <2>1, <2>4
<1>a. <<>> \in A[0]
  BY <1>2, <1>3
<1> HIDE DEF A, step
<1>5. PICK f : Iterates(f, A, <<>>, step, Len(events))
  BY <1>2, <1>4, <1>a, Recursion
<1>6. /\ f[0] = <<>>
      /\ \A i \in 0 .. Len(events) : f[i] \in Seq(Symbols)
      /\ \A i \in 1 .. Len(events) : f[i] = f[i - 1] \o Sse(events[i])
  <2>1. \A i \in 0 .. Len(events) : f[i] \in Seq(Symbols)
    BY <1>3, <1>5 DEF Iterates
  <2>2. ASSUME NEW i \in 1 .. Len(events) PROVE f[i] = f[i - 1] \o Sse(events[i])
    <3>0. i - 1 \in 0 .. Len(events)
      OBVIOUS
    <3>1. f[i] = step[i][f[i - 1]] /\ f[i - 1] \in Seq(Symbols)
      BY <1>5, <2>1, <3>0 DEF Iterates
    <3> QED
      BY <1>3, <2>1, <3>1
  <2> QED
    BY <1>5, <2>1, <2>2 DEF Iterates
<1>7. ASSUME NEW n \in 0 .. Len(events) PROVE Wire(events, n) = f[n]
  <2> DEFINE upto[i \in 0 .. n] == IF i = 0 THEN <<>> ELSE upto[i - 1] \o Sse(events[i])
             h == [i \in 0 .. n |-> f[i]]
             S == {i \in Nat : i <= n => upto[i] = f[i]}
  <2>1. Wire(events, n) = upto[n]
    BY DEF Wire
  <2>2. h = [i \in 0 .. n |-> IF i = 0 THEN <<>> ELSE h[i - 1] \o Sse(events[i])]
    <3>1. \A i \in 0 .. n : f[i] = IF i = 0 THEN <<>> ELSE f[i - 1] \o Sse(events[i])
      <4> TAKE i \in 0 .. n
      <4>1. i = 0 \/ i \in 1 .. Len(events)
        OBVIOUS
      <4> QED
        BY <1>6, <4>1
    <3>2. \A i \in 1 .. n : h[i - 1] = f[i - 1]
      OBVIOUS
    <3>3. \A i \in 0 .. n : f[i] = IF i = 0 THEN <<>> ELSE h[i - 1] \o Sse(events[i])
      BY <3>1, <3>2
    <3> QED
      BY <3>3
  <2>3. upto = [i \in 0 .. n |-> IF i = 0 THEN <<>> ELSE upto[i - 1] \o Sse(events[i])]
    <3>1. \E g : g = [i \in 0 .. n |-> IF i = 0 THEN <<>> ELSE g[i - 1] \o Sse(events[i])]
      BY <2>2
    <3> QED
      BY <3>1, Zenon
  <2> HIDE DEF upto
  <2>4. 0 \in S
    BY <1>6, <2>3
  <2>5. ASSUME NEW i \in Nat, i \in S PROVE i + 1 \in S
    <3> SUFFICES ASSUME i + 1 <= n PROVE upto[i + 1] = f[i + 1]
      OBVIOUS
    <3>1. i + 1 \in 0 .. n /\ i + 1 # 0 /\ (i + 1) - 1 = i /\ i + 1 \in 1 .. Len(events)
      OBVIOUS
    <3>2. upto[i + 1] = upto[i] \o Sse(events[i + 1])
      BY <2>3, <3>1
    <3>3. f[i + 1] = f[i] \o Sse(events[i + 1])
      BY <1>6, <3>1
    <3>4. upto[i] = f[i]
      BY <2>5
    <3> QED
      BY <3>2, <3>3, <3>4
  <2>6. Nat \subseteq S
    <3> HIDE DEF S
    <3> QED
      BY <2>4, <2>5, Induction
  <2>7. n \in S
    BY <2>6
  <2> QED
    BY <2>1, <2>7
<1>8. ASSUME NEW n \in 1 .. Len(events)
      PROVE  Wire(events, n) = Wire(events, n - 1) \o Sse(events[n])
  <2>1. n - 1 \in 0 .. Len(events) /\ n \in 0 .. Len(events)
    OBVIOUS
  <2> QED
    BY <1>6, <1>7, <2>1
<1>9. Wire(events, 0) = <<>> /\ \A n \in 0 .. Len(events) : Wire(events, n) \in Seq(Symbols)
  <2>1. 0 \in 0 .. Len(events)
    OBVIOUS
  <2> QED
    BY <1>6, <1>7, <2>1
<1> QED
  BY <1>8, <1>9

\* Where the n-th event ends.
End(events, n) == Len(Wire(events, n))

\* f is on the wire w from behind a.
Holds(w, f, a) ==
    /\ a \in Nat /\ a + Len(f) <= Len(w)
    /\ \A i \in 1 .. Len(f) : w[a + i] = f[i]

\* An event's frame is behind those before it.
LEMMA EndsGrow ==
    ASSUME NEW events \in Seq(Event(Symbols)), NEW n \in 1 .. Len(events)
    PROVE  /\ End(events, n - 1) \in Nat /\ End(events, n) \in Nat
           /\ End(events, n) = End(events, n - 1) + Len(Sse(events[n]))
           /\ Len(Sse(events[n])) \in Nat /\ Len(Sse(events[n])) >= 6
           /\ Holds(Wire(events, n), Wire(events, n - 1), 0)
           /\ Holds(Wire(events, n), Sse(events[n]), End(events, n - 1))
<1>1. PICK s, f, w : s = Wire(events, n - 1) /\ f = Sse(events[n]) /\ w = Wire(events, n)
  OBVIOUS
<1>2. s \in Seq(Symbols) /\ w = s \o f
  <2>1. n - 1 \in 0 .. Len(events)
    OBVIOUS
  <2> QED
    BY <1>1, <2>1, WireSteps
<1>3. f \in Seq(Symbols) /\ Len(f) \in Nat /\ Len(f) >= 6
  <2>1. IsFrame(f, events[n], Len(events[n].payload))
    BY <1>1, SseIsFrame
  <2> QED
    BY <2>1 DEF IsFrame
<1>4. Concatenates(w, s, f, Symbols)
  BY <1>2, <1>3, Concatenation
<1>5. Holds(w, s, 0) /\ Holds(w, f, Len(s)) /\ Len(w) = Len(s) + Len(f)
  BY <1>2, <1>3, <1>4 DEF Concatenates, Holds
<1>6. Len(s) \in Nat /\ Len(w) \in Nat
  BY <1>2, <1>3, <1>5
<1> QED
  BY <1>1, <1>3, <1>5, <1>6 DEF End

\* Later events end later, and the wire begins with what was on it before.
LEMMA EndsRise ==
    ASSUME NEW events \in Seq(Event(Symbols)), NEW n \in 0 .. Len(events)
    PROVE  \A m \in n .. Len(events) :
               /\ End(events, n) \in Nat /\ End(events, m) \in Nat
               /\ End(events, n) + (m - n) <= End(events, m)
               /\ Holds(Wire(events, m), Wire(events, n), 0)
<1> DEFINE Good(m) == /\ End(events, n) \in Nat /\ End(events, m) \in Nat
                      /\ End(events, n) + (m - n) <= End(events, m)
                      /\ Holds(Wire(events, m), Wire(events, n), 0)
           S == {i \in Nat : n + i <= Len(events) => Good(n + i)}
<1>1. 0 \in S
  <2>1. Wire(events, n) \in Seq(Symbols)
    BY WireSteps
  <2>2. Good(n)
    BY <2>1 DEF Holds, End
  <2>3. n + 0 = n
    OBVIOUS
  <2> HIDE DEF Good
  <2> QED
    BY <2>2, <2>3
<1>2. ASSUME NEW i \in Nat, i \in S PROVE i + 1 \in S
  <2> SUFFICES ASSUME n + (i + 1) <= Len(events) PROVE Good(n + (i + 1))
    OBVIOUS
  <2>1. PICK m \in 1 .. Len(events) : m = n + (i + 1)
    OBVIOUS
  <2>2. m - 1 = n + i /\ n + i <= Len(events)
    BY <2>1
  <2>3. Good(m - 1)
    BY <1>2, <2>2
  <2>4. /\ End(events, m) = End(events, m - 1) + Len(Sse(events[m]))
        /\ Len(Sse(events[m])) \in Nat /\ Len(Sse(events[m])) >= 6
        /\ Holds(Wire(events, m), Wire(events, m - 1), 0)
    BY EndsGrow
  <2>5. Wire(events, n) \in Seq(Symbols)
    BY WireSteps
  <2>6. Holds(Wire(events, m), Wire(events, n), 0)
    <3>1. PICK u, v, w : u = Wire(events, n) /\ v = Wire(events, m - 1) /\ w = Wire(events, m)
      OBVIOUS
    <3>2. Len(u) \in Nat /\ Len(v) \in Nat /\ Len(w) \in Nat
      <4>1. m - 1 \in 0 .. Len(events) /\ m \in 0 .. Len(events)
        OBVIOUS
      <4>2. u \in Seq(Symbols) /\ v \in Seq(Symbols) /\ w \in Seq(Symbols)
        BY <3>1, <4>1, WireSteps
      <4> QED
        BY <4>2
    <3>3. Holds(v, u, 0) /\ Holds(w, v, 0)
      BY <2>3, <2>4, <3>1
    <3>4. Holds(w, u, 0)
      BY <3>2, <3>3 DEF Holds
    <3> QED
      BY <3>1, <3>4
  <2>7. End(events, n) + (m - n) <= End(events, m)
    BY <2>1, <2>2, <2>3, <2>4
  <2> QED
    BY <2>1, <2>3, <2>4, <2>6, <2>7
<1>3. Nat \subseteq S
  <2> HIDE DEF S
  <2> QED
    BY <1>1, <1>2, Induction
<1> HIDE DEF Good
<1>4. ASSUME NEW m \in n .. Len(events) PROVE Good(m)
  <2>1. m - n \in Nat /\ n + (m - n) = m
    OBVIOUS
  <2>2. m - n \in S
    BY <1>3, <2>1
  <2> QED
    BY <2>1, <2>2
<1> QED
  BY <1>4 DEF Good

\* Every event is on the wire behind the one before.
LEMMA WireHolds ==
    ASSUME NEW events \in Seq(Event(Symbols)), NEW n \in 1 .. Len(events),
           NEW w, w = Wire(events, Len(events))
    PROVE  Holds(w, Sse(events[n]), End(events, n - 1))
<1>1. PICK v, f, a : v = Wire(events, n) /\ f = Sse(events[n]) /\ a = End(events, n - 1)
  OBVIOUS
<1>2. Holds(w, v, 0) /\ Len(v) \in Nat /\ Len(w) \in Nat
  <2>1. n \in 0 .. Len(events) /\ Len(events) \in n .. Len(events)
    OBVIOUS
  <2> QED
    BY <1>1, <2>1, EndsRise DEF End
<1>3. Holds(v, f, a) /\ Len(f) \in Nat
  BY <1>1, EndsGrow
<1>4. Holds(w, f, a)
  BY <1>2, <1>3 DEF Holds
<1> QED
  BY <1>1, <1>4

\* The page has dispatched the first k events, and holds what came of the
\* wire w behind them, up to t.
AtEvent(s, events, w, k, t) ==
    /\ k \in 0 .. Len(events)
    /\ t \in End(events, k) .. Len(w)
    /\ s = [buffer |-> s.buffer, events |-> SubSeq(events, 1, k)]
    /\ Slices(s.buffer, w, End(events, k) + 1, t, Symbols)

\* No event is whole in what it holds.
NoneWhole(events, k, t) == k < Len(events) => t < End(events, k + 1)

\* The first empty line the page holds is the end of the next event's frame.
LEMMA BoundaryIsEnd ==
    ASSUME NEW events \in Seq(Event(Symbols)), NEW w, w = Wire(events, Len(events)),
           NEW s, NEW k, NEW t, AtEvent(s, events, w, k, t),
           NEW b \in Boundaries(s.buffer), \A i \in Boundaries(s.buffer) : b <= i
    PROVE  /\ k < Len(events) /\ b = Len(Sse(events[k + 1])) - 1
           /\ End(events, k + 1) <= t
<1>1. /\ k \in 0 .. Len(events) /\ t \in End(events, k) .. Len(w) /\ End(events, k) \in Nat
      /\ Len(w) \in Nat
  <2>1. Len(events) \in 0 .. Len(events)
    OBVIOUS
  <2>2. w \in Seq(Symbols)
    BY <2>1, WireSteps
  <2>3. k \in 0 .. Len(events) /\ k \in k .. Len(events)
    BY DEF AtEvent
  <2> QED
    BY <2>2, <2>3, EndsRise DEF AtEvent
<1>2. PICK a \in Nat : a = End(events, k)
  BY <1>1
<1>3. /\ s.buffer \in Seq(Symbols) /\ Len(s.buffer) = t - a
      /\ \A i \in 1 .. t - a : s.buffer[i] = w[a + i]
  <2>1. t \in Nat /\ a <= t
    BY <1>1, <1>2
  <2>2. Slices(s.buffer, w, a + 1, t, Symbols)
    BY <1>2 DEF AtEvent
  <2>3. t - (a + 1) + 1 = t - a
    BY <2>1
  <2>4. s.buffer \in Seq(Symbols) /\ Len(s.buffer) = t - a
    BY <2>2, <2>3 DEF Slices
  <2>5. ASSUME NEW i \in 1 .. t - a PROVE s.buffer[i] = w[a + i]
    <3>1. (a + 1) + i - 1 = a + i
      OBVIOUS
    <3>2. s.buffer[i] = w[(a + 1) + i - 1]
      BY <2>2, <2>3 DEF Slices
    <3> QED
      BY <3>1, <3>2
  <2> QED
    BY <2>4, <2>5
<1>4. /\ b \in 1 .. (t - a) - 1 /\ w[a + b] = Feed /\ w[a + b + 1] = Feed
  <2>1. t - a \in Nat
    BY <1>1, <1>2
  <2>2. b \in 1 .. (t - a) - 1 /\ s.buffer[b] = Feed /\ s.buffer[b + 1] = Feed
    BY <1>3 DEF Boundaries
  <2>3. b \in 1 .. t - a /\ b + 1 \in 1 .. t - a /\ a + (b + 1) = a + b + 1
    BY <2>1, <2>2
  <2> QED
    BY <1>3, <2>2, <2>3
<1>5. k < Len(events)
  <2> SUFFICES ASSUME k = Len(events) PROVE FALSE
    BY <1>1
  <2>1. a = Len(w)
    BY <1>2 DEF End
  <2> QED
    BY <1>1, <1>4, <2>1
<1>6. PICK f, e, n : f = Sse(events[k + 1]) /\ e = events[k + 1] /\ n = Len(e.payload)
  OBVIOUS
<1>7. IsFrame(f, e, n) /\ k + 1 \in 1 .. Len(events) /\ (k + 1) - 1 = k
  <2>1. k + 1 \in 1 .. Len(events) /\ (k + 1) - 1 = k
    BY <1>1, <1>5
  <2>2. e \in Event(Symbols)
    BY <1>6, <2>1
  <2> QED
    BY <1>6, <2>1, <2>2, SseIsFrame
<1>8. Holds(w, f, a) /\ End(events, k + 1) = a + Len(f)
  BY <1>2, <1>6, <1>7, WireHolds, EndsGrow
<1>9. n \in Nat /\ Len(f) = n + 6 /\ f[n + 5] = Feed /\ f[n + 6] = Feed
  BY <1>7 DEF IsFrame
<1>10. b = n + 5
  <2>1. CASE b <= n + 5
    <3>1. b \in 1 .. n + 5
      BY <1>4, <1>9, <2>1
    <3>2. w[a + b] = f[b] /\ w[a + (b + 1)] = f[b + 1]
      BY <1>8, <1>9, <3>1 DEF Holds
    <3>3. f[b] = Feed /\ f[b + 1] = Feed
      BY <1>2, <1>4, <3>1, <3>2
    <3> QED
      BY <1>7, <3>1, <3>3, FrameEnds
  <2>2. CASE b > n + 5
    <3>1. n + 5 \in 1 .. (t - a) - 1
      BY <1>1, <1>2, <1>4, <1>9, <2>2
    <3>2. w[a + (n + 5)] = Feed /\ w[a + (n + 6)] = Feed
      BY <1>8, <1>9 DEF Holds
    <3>3. s.buffer[n + 5] = Feed /\ s.buffer[(n + 5) + 1] = Feed
      <4>1. n + 5 \in 1 .. t - a /\ n + 6 \in 1 .. t - a /\ (n + 5) + 1 = n + 6
        BY <1>1, <1>2, <1>9, <3>1
      <4> QED
        BY <1>3, <3>2, <4>1
    <3>4. n + 5 \in Boundaries(s.buffer)
      BY <1>3, <3>1, <3>3 DEF Boundaries
    <3> QED
      BY <1>4, <1>9, <2>2, <3>4
  <2> QED
    BY <1>4, <1>9, <2>1, <2>2
<1>11. End(events, k + 1) <= t
  BY <1>1, <1>2, <1>4, <1>8, <1>9, <1>10
<1> QED
  BY <1>5, <1>6, <1>9, <1>10, <1>11

\* A set of numbers has a least.
LEMMA LeastOf ==
    ASSUME NEW T \in SUBSET Nat, T # {}
    PROVE  \E b \in T : \A i \in T : b <= i
<1> DEFINE R == {ss \in Nat \X Nat : ss[1] < ss[2]}
<1>1. IsWellFoundedOn(R, Nat)
  BY NatLessThanWellFounded, Zenon DEF OpToRel
<1>2. PICK b \in T : \A y \in T : ~ (<<y, b>> \in R)
  <2> HIDE DEF R
  <2>1. T \subseteq Nat
    OBVIOUS
  <2> QED
    BY <1>1, <2>1, WFMin
<1>3. \A y \in T : b <= y
  <2> TAKE y \in T
  <2>1. y \in Nat /\ b \in Nat /\ <<y, b>> \notin R
    BY <1>2
  <2>2. ~(y < b)
    BY <2>1
  <2> QED
    BY <2>1, <2>2
<1> QED
  BY <1>3

\* What makes a position.
LEMMA IsAtEvent ==
    ASSUME NEW events, NEW w, NEW k \in 0 .. Len(events), NEW t \in End(events, k) .. Len(w),
           NEW buffer, Slices(buffer, w, End(events, k) + 1, t, Symbols)
    PROVE  AtEvent([buffer |-> buffer, events |-> SubSeq(events, 1, k)], events, w, k, t)
BY DEF AtEvent

\* A round of the inner loop.
LEMMA TakeNext ==
    ASSUME NEW events \in Seq(Event(Symbols)), NEW w, w = Wire(events, Len(events)),
           NEW s, NEW k, NEW t, AtEvent(s, events, w, k, t), ~NoneWhole(events, k, t)
    PROVE  AtEvent(TakeFrame(s), events, w, k + 1, t)
<1>1. /\ k \in 0 .. Len(events) /\ k < Len(events) /\ End(events, k + 1) <= t
      /\ k + 1 \in 1 .. Len(events) /\ (k + 1) - 1 = k
      /\ t <= Len(w) /\ t \in Int /\ Len(w) \in Nat /\ w \in Seq(Symbols)
  <2>1. w \in Seq(Symbols)
    BY WireSteps
  <2>2. k \in 0 .. Len(events) /\ k < Len(events) /\ ~(t < End(events, k + 1))
    BY DEF AtEvent, NoneWhole
  <2>3. t <= Len(w) /\ t \in Int
    BY DEF AtEvent
  <2>4. k + 1 \in 1 .. Len(events) /\ (k + 1) - 1 = k
    BY <2>2
  <2>5. End(events, k + 1) \in Nat
    BY <2>4, EndsGrow
  <2> QED
    BY <2>1, <2>2, <2>3, <2>4, <2>5
<1>2. PICK f, e, n : f = Sse(events[k + 1]) /\ e = events[k + 1] /\ n = Len(e.payload)
  OBVIOUS
<1>3. PICK a \in Nat : a = End(events, k)
  BY <1>1, EndsGrow
<1>4. e \in Event(Symbols) /\ IsFrame(f, e, n)
  BY <1>1, <1>2, SseIsFrame
<1>5. /\ Holds(w, f, a) /\ End(events, k + 1) = a + Len(f)
      /\ n \in Nat /\ Len(f) = n + 6 /\ f \in Seq(Symbols) /\ f[n + 5] = Feed /\ f[n + 6] = Feed
      /\ t >= a + (n + 6)
  <2>1. Holds(w, f, a) /\ End(events, k + 1) = a + Len(f)
    BY <1>1, <1>2, <1>3, WireHolds, EndsGrow
  <2>2. n \in Nat /\ Len(f) = n + 6 /\ f \in Seq(Symbols) /\ f[n + 5] = Feed /\ f[n + 6] = Feed
    BY <1>4 DEF IsFrame
  <2> QED
    BY <1>1, <2>1, <2>2
<1>6. PICK buffer : buffer = s.buffer
  OBVIOUS
<1>7. /\ buffer \in Seq(Symbols) /\ Len(buffer) = t - a
      /\ \A i \in 1 .. t - a : buffer[i] = w[a + i]
  <2>1. t \in Nat /\ a <= t
    BY <1>1, <1>5
  <2>2. Slices(buffer, w, a + 1, t, Symbols)
    BY <1>3, <1>6 DEF AtEvent
  <2>3. t - (a + 1) + 1 = t - a
    BY <2>1
  <2>4. buffer \in Seq(Symbols) /\ Len(buffer) = t - a
    BY <2>2, <2>3 DEF Slices
  <2>5. ASSUME NEW i \in 1 .. t - a PROVE buffer[i] = w[a + i]
    <3>1. (a + 1) + i - 1 = a + i
      OBVIOUS
    <3>2. buffer[i] = w[(a + 1) + i - 1]
      BY <2>2, <2>3 DEF Slices
    <3> QED
      BY <3>1, <3>2
  <2> QED
    BY <2>4, <2>5
<1>8. \A i \in 1 .. n + 6 : buffer[i] = f[i]
  <2>1. ASSUME NEW i \in 1 .. n + 6 PROVE i \in 1 .. t - a /\ w[a + i] = f[i]
    <3>1. i \in 1 .. t - a
      BY <1>1, <1>5
    <3>2. w[a + i] = f[i]
      BY <1>5 DEF Holds
    <3> QED
      BY <3>1, <3>2
  <2> QED
    BY <1>7, <2>1
<1>9. n + 5 \in Boundaries(buffer)
  <2>1. n + 5 \in 1 .. (t - a) - 1 /\ n + 5 \in 1 .. n + 6 /\ n + 6 \in 1 .. n + 6
        /\ (n + 5) + 1 = n + 6
    BY <1>1, <1>5
  <2> QED
    BY <1>5, <1>7, <1>8, <2>1 DEF Boundaries
<1>10. PICK b : b = CHOOSE i \in Boundaries(buffer) : \A j \in Boundaries(buffer) : i <= j
  OBVIOUS
<1>11. b \in Boundaries(buffer) /\ \A j \in Boundaries(buffer) : b <= j
  <2>1. Boundaries(buffer) \in SUBSET Nat /\ Boundaries(buffer) # {}
    BY <1>7, <1>9 DEF Boundaries
  <2>2. \E i \in Boundaries(buffer) : \A j \in Boundaries(buffer) : i <= j
    BY <2>1, LeastOf
  <2> QED
    BY <1>10, <2>2
<1>12. b = n + 5
  <2>1. b = Len(Sse(events[k + 1])) - 1
    BY <1>6, <1>11, BoundaryIsEnd
  <2> QED
    BY <1>2, <1>5, <2>1
<1>13. TakeFrame(s) = [buffer |-> SubSeq(buffer, b + 2, Len(buffer)),
                       events |-> s.events \o Dispatched(SubSeq(buffer, 1, b - 1))]
  BY <1>6, <1>9, <1>10 DEF TakeFrame
<1>14. Dispatched(SubSeq(buffer, 1, b - 1)) = <<e>>
  <2>1. SubSeq(buffer, 1, n + 4) = SubSeq(f, 1, n + 4)
    <3>1. PICK p, q : p = SubSeq(buffer, 1, n + 4) /\ q = SubSeq(f, 1, n + 4)
      OBVIOUS
    <3>2. /\ 1 \in 1 .. Len(buffer) + 1 /\ n + 4 \in 1 - 1 .. Len(buffer)
          /\ 1 \in 1 .. Len(f) + 1 /\ n + 4 \in 1 - 1 .. Len(f)
      BY <1>1, <1>5, <1>7
    <3>3. Slices(p, buffer, 1, n + 4, Symbols) /\ Slices(q, f, 1, n + 4, Symbols)
      BY <1>5, <1>7, <3>1, <3>2, SubSeqSlices
    <3>4. /\ p \in Seq(Symbols) /\ q \in Seq(Symbols) /\ Len(p) = n + 4 /\ Len(q) = n + 4
          /\ \A i \in 1 .. n + 4 : p[i] = buffer[i] /\ q[i] = f[i]
      BY <1>5, <3>3 DEF Slices
    <3>5. \A i \in 1 .. n + 4 : p[i] = q[i]
      BY <1>5, <1>8, <3>4
    <3> QED
      BY <3>1, <3>4, <3>5, SameSequence
  <2>2. b - 1 = n + 4
    BY <1>5, <1>12
  <2> QED
    BY <1>2, <1>4, <2>1, <2>2, FrameDispatched
<1>15. SubSeq(events, 1, k) \o <<e>> = SubSeq(events, 1, k + 1)
  BY <1>1, <1>2
<1>16. Slices(SubSeq(buffer, b + 2, Len(buffer)), w, End(events, k + 1) + 1, t, Symbols)
  <2>1. PICK p : p = SubSeq(buffer, n + 7, t - a)
    OBVIOUS
  <2>2. n + 7 \in 1 .. Len(buffer) + 1 /\ t - a \in (n + 7) - 1 .. Len(buffer)
    BY <1>1, <1>5, <1>7
  <2>3. Slices(p, buffer, n + 7, t - a, Symbols)
    BY <1>7, <2>1, <2>2, SubSeqSlices
  <2>4. p \in Seq(Symbols) /\ Len(p) = t - (a + n + 6)
    BY <1>1, <1>5, <2>3 DEF Slices
  <2>5. ASSUME NEW i \in 1 .. t - (a + n + 6) PROVE p[i] = w[(a + n + 7) + i - 1]
    <3>1. i \in 1 .. (t - a) - (n + 7) + 1 /\ (n + 7) + i - 1 \in 1 .. t - a
          /\ a + ((n + 7) + i - 1) = (a + n + 7) + i - 1
      BY <1>1, <1>5
    <3>2. p[i] = buffer[(n + 7) + i - 1]
      BY <2>3, <3>1 DEF Slices
    <3> QED
      BY <1>7, <3>1, <3>2
  <2>6. t - (a + n + 7) + 1 = t - (a + n + 6)
    BY <1>1, <1>5
  <2>7. Slices(p, w, a + n + 7, t, Symbols)
    BY <2>4, <2>5, <2>6 DEF Slices
  <2>8. b + 2 = n + 7 /\ Len(buffer) = t - a /\ End(events, k + 1) + 1 = a + n + 7
    BY <1>5, <1>7, <1>12
  <2> QED
    BY <2>1, <2>7, <2>8
<1>17. s.events = SubSeq(events, 1, k)
  BY DEF AtEvent
<1>18. k + 1 \in 0 .. Len(events) /\ t \in End(events, k + 1) .. Len(w)
  BY <1>1, <1>5
<1>19. PICK p : p = SubSeq(buffer, b + 2, Len(buffer))
  OBVIOUS
<1>20. TakeFrame(s) = [buffer |-> p, events |-> SubSeq(events, 1, k + 1)]
  BY <1>13, <1>14, <1>15, <1>17, <1>19
<1> QED
  BY <1>16, <1>18, <1>19, <1>20, IsAtEvent

\* A round of the inner loop does nothing when no event is whole.
LEMMA TakeNothing ==
    ASSUME NEW events \in Seq(Event(Symbols)), NEW w, w = Wire(events, Len(events)),
           NEW s, NEW k, NEW t, AtEvent(s, events, w, k, t), NoneWhole(events, k, t)
    PROVE  TakeFrame(s) = s
<1>1. Boundaries(s.buffer) = {}
  <2> SUFFICES ASSUME Boundaries(s.buffer) # {} PROVE FALSE
    OBVIOUS
  <2>1. Boundaries(s.buffer) \in SUBSET Nat
    BY DEF AtEvent, Slices, Boundaries
  <2>2. PICK b \in Boundaries(s.buffer) : \A i \in Boundaries(s.buffer) : b <= i
    BY <2>1, LeastOf
  <2>3. k < Len(events) /\ End(events, k + 1) <= t
    BY <2>2, BoundaryIsEnd
  <2>4. t \in Int /\ End(events, k + 1) \in Nat
    <3>1. k + 1 \in 1 .. Len(events)
      BY <2>3 DEF AtEvent
    <3> QED
      BY <3>1, EndsGrow DEF AtEvent
  <2> QED
    BY <2>3, <2>4 DEF NoneWhole
<1> QED
  BY <1>1 DEF TakeFrame

\* What is held from behind a.
LEMMA SlicesFrom ==
    ASSUME NEW v, NEW w, NEW a \in Nat, NEW t \in Nat, a <= t,
           Slices(v, w, a + 1, t, Symbols)
    PROVE  /\ v \in Seq(Symbols) /\ Len(v) = t - a
           /\ \A i \in 1 .. t - a : v[i] = w[a + i]
<1>1. t - (a + 1) + 1 = t - a /\ t - a \in Nat
  OBVIOUS
<1>2. ASSUME NEW i \in 1 .. t - a PROVE (a + 1) + i - 1 = a + i
  OBVIOUS
<1>3. /\ v \in Seq(Symbols) /\ Len(v) = t - a
      /\ \A i \in 1 .. t - a : v[i] = w[(a + 1) + i - 1]
  BY <1>1 DEF Slices
<1> QED
  BY <1>2, <1>3

\* A place behind t - a, counted from t.
LEMMA Shifted ==
    \A i, a, t, u \in Nat : i > t - a /\ i <= u - a =>
        \E j \in 1 .. u - t : (t - a) + j = i /\ t + j = a + i
<1> TAKE i, a, t, u \in Nat
<1> HAVE i > t - a /\ i <= u - a
<1>1. /\ i - (t - a) \in 1 .. u - t
      /\ (t - a) + (i - (t - a)) = i /\ t + (i - (t - a)) = a + i
  OBVIOUS
<1> QED
  BY <1>1

\* What is read is behind what it holds.
LEMMA BufferGrows ==
    ASSUME NEW events \in Seq(Event(Symbols)), NEW w, w = Wire(events, Len(events)),
           NEW s, NEW k, NEW t, AtEvent(s, events, w, k, t),
           NEW u \in t .. Len(w), NEW value, value = SubSeq(w, t + 1, u)
    PROVE  AtEvent(Buffered(s, value), events, w, k, u)
<1>1. k \in 0 .. Len(events) /\ w \in Seq(Symbols) /\ Len(w) \in Nat
      /\ t \in End(events, k) .. Len(w) /\ End(events, k) \in Nat
      /\ t \in Nat /\ u \in Nat /\ t <= u /\ u <= Len(w)
  <2>1. w \in Seq(Symbols)
    BY WireSteps
  <2>2. k \in 0 .. Len(events) /\ k \in k .. Len(events)
    BY DEF AtEvent
  <2> QED
    BY <2>1, <2>2, EndsRise DEF AtEvent
<1>a. PICK a \in Nat : a = End(events, k)
  BY <1>1
<1>b. PICK buffer, new : buffer = s.buffer /\ new = buffer \o value
  OBVIOUS
<1>2. a = End(events, k) /\ buffer = s.buffer /\ new = buffer \o value /\ a <= t
  BY <1>1, <1>a, <1>b
<1>c. a \in Nat /\ t \in Nat /\ u \in Nat /\ a <= t /\ t <= u
  BY <1>1, <1>2
<1>3. Slices(buffer, w, a + 1, t, Symbols)
  BY <1>2 DEF AtEvent
<1>4. Slices(value, w, t + 1, u, Symbols)
  <2>1. t + 1 \in 1 .. Len(w) + 1 /\ u \in (t + 1) - 1 .. Len(w)
    BY <1>1
  <2> QED
    BY <1>1, <2>1, SubSeqSlices
<1>5. /\ buffer \in Seq(Symbols) /\ Len(buffer) = t - a
      /\ \A i \in 1 .. t - a : buffer[i] = w[a + i]
  <2>1. t - (a + 1) + 1 = t - a /\ \A i \in Nat : (a + 1) + i - 1 = a + i
    BY <1>c
  <2> QED
    BY <1>3, <2>1 DEF Slices
<1>6. /\ value \in Seq(Symbols) /\ Len(value) = u - t
      /\ \A i \in 1 .. u - t : value[i] = w[t + i]
  BY <1>1, <1>4, SlicesFrom
<1>7. Concatenates(new, buffer, value, Symbols)
  BY <1>2, <1>5, <1>6, Concatenation
<1>8. new \in Seq(Symbols) /\ Len(new) = u - a
  BY <1>5, <1>6, <1>7, <1>c DEF Concatenates
<1>9. ASSUME NEW i \in 1 .. u - a PROVE new[i] = w[a + i]
  <2>1. CASE i <= t - a
    <3>1. i \in 1 .. t - a
      BY <1>1, <1>2, <2>1
    <3> QED
      BY <1>5, <1>7, <3>1 DEF Concatenates
  <2>2. CASE i > t - a
    <3>1. PICK j \in 1 .. u - t : (t - a) + j = i /\ t + j = a + i
      BY <1>c, <2>2, Shifted
    <3>2. new[(t - a) + j] = value[j]
      BY <1>5, <1>6, <1>7, <3>1 DEF Concatenates
    <3>3. value[j] = w[t + j]
      BY <1>6
    <3> QED
      BY <3>1, <3>2, <3>3
  <2>3. i <= t - a \/ i > t - a
    BY <1>c
  <2> QED
    BY <2>1, <2>2, <2>3
<1>10. Slices(new, w, a + 1, u, Symbols)
  <2>1. u - (a + 1) + 1 = u - a /\ \A i \in Nat : (a + 1) + i - 1 = a + i
    BY <1>1
  <2> QED
    BY <1>8, <1>9, <2>1 DEF Slices
<1>11. Buffered(s, value) = [buffer |-> new, events |-> SubSeq(events, 1, k)]
  <2>1. s = [buffer |-> buffer, events |-> SubSeq(events, 1, k)]
    BY <1>2 DEF AtEvent
  <2> QED
    BY <1>2, <2>1 DEF Buffered
<1>12. u \in End(events, k) .. Len(w)
  BY <1>1
<1> QED
  BY <1>1, <1>2, <1>10, <1>11, <1>12, IsAtEvent

\* The read that came last left no event whole in the buffer.
Caught(s, events, w, t) ==
    \E k \in 0 .. Len(events) : AtEvent(s, events, w, k, t) /\ NoneWhole(events, k, t)

\* The position says what the page is.
LEMMA AtEventIs ==
    ASSUME NEW events \in Seq(Event(Symbols)), NEW w, w = Wire(events, Len(events)),
           NEW s, NEW k, NEW t, AtEvent(s, events, w, k, t)
    PROVE  s = [buffer |-> SubSeq(w, End(events, k) + 1, t), events |-> SubSeq(events, 1, k)]
<1>1. /\ k \in 0 .. Len(events) /\ t \in End(events, k) .. Len(w)
      /\ s = [buffer |-> s.buffer, events |-> SubSeq(events, 1, k)]
      /\ Slices(s.buffer, w, End(events, k) + 1, t, Symbols)
  BY DEF AtEvent
<1>2. End(events, k) \in Nat
  <2>1. k \in 0 .. Len(events) /\ k \in k .. Len(events)
    BY <1>1
  <2> QED
    BY <2>1, EndsRise
<1>3. w \in Seq(Symbols) /\ Len(w) \in Nat
  BY WireSteps
<1>4. PICK p, q : p = s.buffer /\ q = SubSeq(w, End(events, k) + 1, t)
  OBVIOUS
<1>5. Slices(q, w, End(events, k) + 1, t, Symbols)
  <2>1. End(events, k) + 1 \in 1 .. Len(w) + 1 /\ t \in (End(events, k) + 1) - 1 .. Len(w)
    BY <1>1, <1>2, <1>3
  <2> QED
    BY <1>3, <1>4, <2>1, SubSeqSlices
<1>6. p = q
  <2>1. Slices(p, w, End(events, k) + 1, t, Symbols)
    BY <1>1, <1>4
  <2>2. /\ p \in Seq(Symbols) /\ q \in Seq(Symbols) /\ Len(p) = Len(q)
        /\ \A i \in 1 .. Len(q) : p[i] = q[i]
    BY <1>5, <2>1 DEF Slices
  <2> QED
    BY <2>2, SameSequence
<1> QED
  BY <1>1, <1>4, <1>6

\* After n rounds of the inner loop: all whole events are taken, or one more
\* with each round.
Rounds(s, events, w, t, from, n) ==
    \E k \in 0 .. Len(events) :
        /\ AtEvent(s, events, w, k, t)
        /\ NoneWhole(events, k, t) \/ k >= from + n

\* One more round.
LEMMA RoundGoesOn ==
    ASSUME NEW events \in Seq(Event(Symbols)), NEW w, w = Wire(events, Len(events)),
           NEW s, NEW t, NEW from \in Nat, NEW n \in Nat,
           Rounds(s, events, w, t, from, n)
    PROVE  Rounds(TakeFrame(s), events, w, t, from, n + 1)
<1>1. PICK k \in 0 .. Len(events) :
          /\ AtEvent(s, events, w, k, t)
          /\ NoneWhole(events, k, t) \/ k >= from + n
  BY DEF Rounds
<1>2. CASE NoneWhole(events, k, t)
  <2>1. TakeFrame(s) = s
    BY <1>1, <1>2, TakeNothing
  <2> QED
    BY <1>1, <1>2, <2>1 DEF Rounds
<1>3. CASE ~NoneWhole(events, k, t)
  <2>1. AtEvent(TakeFrame(s), events, w, k + 1, t)
    BY <1>1, <1>3, TakeNext
  <2>2. k + 1 \in 0 .. Len(events)
    BY <2>1 DEF AtEvent
  <2>3. k + 1 >= from + (n + 1)
    BY <1>1, <1>3
  <2> QED
    BY <2>1, <2>2, <2>3 DEF Rounds
<1> QED
  BY <1>2, <1>3

\* A read makes the page do every event that has come whole.
LEMMA ReadCatchesUp ==
    ASSUME NEW events \in Seq(Event(Symbols)), NEW w, w = Wire(events, Len(events)),
           NEW s, NEW t \in Nat, Caught(s, events, w, t),
           NEW u \in t .. Len(w), NEW value, value = SubSeq(w, t + 1, u)
    PROVE  Caught(Read(s, value), events, w, u)
<1>1. PICK k \in 0 .. Len(events) : AtEvent(s, events, w, k, t)
  BY DEF Caught
<1>2. PICK first : first = Buffered(s, value)
  OBVIOUS
<1>3. AtEvent(first, events, w, k, u)
  BY <1>1, <1>2, BufferGrows
<1>4. /\ End(events, k) \in Nat /\ End(events, k) <= t /\ t <= u /\ u <= Len(w)
      /\ u \in Nat /\ Len(w) \in Nat /\ w \in Seq(Symbols)
      /\ Slices(s.buffer, w, End(events, k) + 1, t, Symbols)
  <2>1. w \in Seq(Symbols)
    BY WireSteps
  <2>2. k \in 0 .. Len(events) /\ k \in k .. Len(events)
    OBVIOUS
  <2>3. End(events, k) \in Nat
    BY <2>2, EndsRise
  <2>4. t \in End(events, k) .. Len(w) /\ Slices(s.buffer, w, End(events, k) + 1, t, Symbols)
    BY <1>1 DEF AtEvent
  <2> QED
    BY <2>1, <2>3, <2>4
<1>5. PICK n \in Nat : n = u - End(events, k) /\ Len(s.buffer) + Len(value) = n
  <2>1. Len(s.buffer) = t - End(events, k)
    <3>1. PICK a \in Nat : a = End(events, k)
      BY <1>4
    <3>2. Slices(s.buffer, w, a + 1, t, Symbols) /\ a <= t
      BY <1>4, <3>1
    <3> QED
      BY <3>1, <3>2, SlicesFrom
  <2>2. Slices(value, w, t + 1, u, Symbols)
    <3>1. t + 1 \in 1 .. Len(w) + 1 /\ u \in (t + 1) - 1 .. Len(w)
      BY <1>4
    <3> QED
      BY <1>4, <3>1, SubSeqSlices
  <2>3. Len(value) = u - t
    BY <1>4, <2>2, SlicesFrom
  <2>4. u - End(events, k) \in Nat /\ (t - End(events, k)) + (u - t) = u - End(events, k)
    BY <1>4
  <2> QED
    BY <2>1, <2>3, <2>4
<1> DEFINE after[i \in 0 .. n] == IF i = 0 THEN first ELSE TakeFrame(after[i - 1])
           All == {[buffer |-> SubSeq(w, End(events, j) + 1, u), events |-> SubSeq(events, 1, j)] :
                      j \in 0 .. Len(events)}
           At(i) == {r \in All : Rounds(r, events, w, u, k, i)}
           A == [i \in 0 .. n |-> At(i)]
           step == [i \in 1 .. n |-> [r \in At(i - 1) |-> TakeFrame(r)]]
<1>6. Read(s, value) = after[n]
  BY <1>2, <1>5 DEF Read
<1>7. \A r, j : AtEvent(r, events, w, j, u) => r \in All
  <2> TAKE r, j
  <2> HAVE AtEvent(r, events, w, j, u)
  <2>1. j \in 0 .. Len(events)
    BY DEF AtEvent
  <2>2. r = [buffer |-> SubSeq(w, End(events, j) + 1, u), events |-> SubSeq(events, 1, j)]
    BY AtEventIs
  <2> QED
    BY <2>1, <2>2
<1> HIDE DEF All
<1>8. \A r, i : Rounds(r, events, w, u, k, i) => r \in All
  BY <1>7 DEF Rounds
<1>9. first \in At(0)
  <2>1. k >= k + 0
    OBVIOUS
  <2>2. Rounds(first, events, w, u, k, 0)
    BY <1>3, <2>1 DEF Rounds
  <2> QED
    BY <1>8, <2>2
<1>10. ASSUME NEW i \in 1 .. n, NEW r \in At(i - 1) PROVE TakeFrame(r) \in At(i)
  <2>1. i - 1 \in Nat /\ (i - 1) + 1 = i /\ k \in Nat
    OBVIOUS
  <2>2. Rounds(TakeFrame(r), events, w, u, k, (i - 1) + 1)
    BY <1>10, <2>1, RoundGoesOn
  <2> QED
    BY <1>8, <2>1, <2>2
<1> HIDE DEF At
<1>11. /\ first \in A[0] /\ A[n] = At(n)
       /\ \A i \in 1 .. n : A[i - 1] = At(i - 1)
       /\ \A i \in 1 .. n : \A r \in A[i - 1] : step[i][r] = TakeFrame(r)
  BY <1>9
<1>12. \A i \in 1 .. n : \A r \in A[i - 1] : step[i][r] \in A[i]
  <2>1. \A i \in 1 .. n : A[i] = At(i)
    OBVIOUS
  <2> HIDE DEF A, step
  <2> QED
    BY <1>10, <1>11, <2>1
<1> HIDE DEF A, step
<1>13. PICK f : Iterates(f, A, first, step, n)
  BY <1>11, <1>12, Recursion
<1>14. f = [i \in 0 .. n |-> IF i = 0 THEN first ELSE TakeFrame(f[i - 1])]
  <2>1. f = [i \in 0 .. n |-> f[i]] /\ f[0] = first
    BY <1>13 DEF Iterates
  <2>2. ASSUME NEW i \in 1 .. n PROVE f[i] = TakeFrame(f[i - 1])
    <3>1. i - 1 \in 0 .. n
      OBVIOUS
    <3>2. f[i] = step[i][f[i - 1]] /\ f[i - 1] \in A[i - 1]
      BY <1>13, <3>1 DEF Iterates
    <3> QED
      BY <1>11, <3>2
  <2>3. ASSUME NEW i \in 0 .. n PROVE f[i] = IF i = 0 THEN first ELSE TakeFrame(f[i - 1])
    <3>1. i = 0 \/ (i # 0 /\ i \in 1 .. n)
      OBVIOUS
    <3> QED
      BY <2>1, <2>2, <3>1
  <2> QED
    BY <2>1, <2>3
<1>15. after = [i \in 0 .. n |-> IF i = 0 THEN first ELSE TakeFrame(after[i - 1])]
  <2>1. \E g : g = [i \in 0 .. n |-> IF i = 0 THEN first ELSE TakeFrame(g[i - 1])]
    BY <1>14
  <2> QED
    BY <2>1, Zenon
<1> HIDE DEF after
<1>16. after[0] = first /\ \A i \in 1 .. n : after[i] = TakeFrame(after[i - 1])
  BY <1>15
<1>17. \A i \in 0 .. n : after[i] \in A[i]
  <2>1. \A i \in 1 .. n : after[i - 1] \in A[i - 1] => after[i] = step[i][after[i - 1]]
    BY <1>11, <1>16
  <2>2. after[0] \in A[0]
    BY <1>11, <1>16
  <2> QED
    BY <1>12, <2>1, <2>2, OneSolution
<1>18. Rounds(after[n], events, w, u, k, n)
  <2>1. n \in 0 .. n
    OBVIOUS
  <2>2. after[n] \in At(n)
    BY <1>11, <1>17, <2>1
  <2> QED
    BY <2>2 DEF At
<1>19. PICK j \in 0 .. Len(events) :
           /\ AtEvent(after[n], events, w, j, u)
           /\ NoneWhole(events, j, u) \/ j >= k + n
  BY <1>18 DEF Rounds
<1>20. NoneWhole(events, j, u)
  <2> SUFFICES ASSUME j >= k + n, j < Len(events) PROVE u < End(events, j + 1)
    BY <1>19 DEF NoneWhole
  <2>1. j + 1 \in k .. Len(events) /\ (j + 1) - k > n
    BY <1>5
  <2>2. End(events, k) + ((j + 1) - k) <= End(events, j + 1) /\ End(events, j + 1) \in Nat
    BY <2>1, EndsRise
  <2>3. PICK a \in Nat, b \in Nat : a = End(events, k) /\ b = End(events, j + 1)
    BY <1>4, <2>2
  <2>4. u - a = n /\ a + ((j + 1) - k) <= b
    BY <1>5, <2>2, <2>3
  <2>5. u < b
    BY <1>4, <2>1, <2>4
  <2> QED
    BY <2>3, <2>5
<1> QED
  BY <1>6, <1>19, <1>20 DEF Caught

\* The reads are the first last symbols of w, cut anywhere.
Delivers(reads, w, last) ==
    /\ Len(reads) \in Nat
    /\ \E cut :
        /\ cut[0] = 0 /\ cut[Len(reads)] = last
        /\ \A n \in 0 .. Len(reads) : cut[n] \in 0 .. Len(w)
        /\ \A n \in 1 .. Len(reads) :
               cut[n - 1] <= cut[n] /\ reads[n] = SubSeq(w, cut[n - 1] + 1, cut[n])

Nothing == [buffer |-> <<>>, events |-> <<>>]

\* Before the first read there is nothing to do.
LEMMA NothingIsCaught ==
    ASSUME NEW events \in Seq(Event(Symbols)), NEW w, w = Wire(events, Len(events))
    PROVE  Caught(Nothing, events, w, 0)
<1>1. /\ 0 \in 0 .. Len(events) /\ Len(events) \in Nat
      /\ 0 \in 0 .. 0
  OBVIOUS
<1>2. Wire(events, 0) = <<>> /\ End(events, 0) = 0
  BY WireSteps DEF End
<1>3. w \in Seq(Symbols) /\ Len(w) \in Nat
  BY WireSteps
<1>4. SubSeq(events, 1, 0) = <<>>
  OBVIOUS
<1>5. Slices(<<>>, w, 1, 0, Symbols)
  BY <1>3 DEF Slices
<1>6. AtEvent(Nothing, events, w, 0, 0)
  BY <1>1, <1>2, <1>3, <1>4, <1>5 DEF AtEvent, Nothing
<1>7. NoneWhole(events, 0, 0)
  <2> SUFFICES ASSUME 0 < Len(events) PROVE 0 < End(events, 1)
    BY DEF NoneWhole
  <2>1. 1 \in 0 .. Len(events)
    BY <1>1
  <2>2. End(events, 0) + (1 - 0) <= End(events, 1) /\ End(events, 1) \in Nat
    BY <1>1, <2>1, EndsRise
  <2> QED
    BY <1>2, <2>2
<1> QED
  BY <1>1, <1>6, <1>7 DEF Caught

\* What a page that has caught up has done.
LEMMA CaughtIsWhole ==
    ASSUME NEW events \in Seq(Event(Symbols)), NEW w, w = Wire(events, Len(events)),
           NEW s, NEW t, Caught(s, events, w, t)
    PROVE  s.events = Whole(events, t)
<1>1. PICK k \in 0 .. Len(events) : AtEvent(s, events, w, k, t) /\ NoneWhole(events, k, t)
  BY DEF Caught
<1> DEFINE whole == {n \in 0 .. Len(events) : End(events, n) <= t}
<1>2. Len(w) \in Nat
  BY WireSteps
<1>3. \A n \in 0 .. Len(events) : End(events, n) \in Nat
  <2> TAKE n \in 0 .. Len(events)
  <2>1. n \in n .. Len(events)
    OBVIOUS
  <2> QED
    BY <2>1, EndsRise
<1>4. t \in Nat /\ End(events, k) <= t
  BY <1>1, <1>2, <1>3 DEF AtEvent
<1>5. k \in whole
  BY <1>4
<1>6. ASSUME NEW m \in whole, m > k PROVE FALSE
  <2>1. k < Len(events) /\ k + 1 \in 0 .. Len(events) /\ m \in k + 1 .. Len(events)
    BY <1>6
  <2>2. t < End(events, k + 1)
    BY <1>1, <2>1 DEF NoneWhole
  <2>3. End(events, k + 1) + (m - (k + 1)) <= End(events, m)
    BY <2>1, EndsRise
  <2>4. End(events, m) <= t /\ m - (k + 1) >= 0 /\ m - (k + 1) \in Nat
    BY <1>6, <2>1
  <2>5. End(events, k + 1) \in Nat /\ End(events, m) \in Nat
    BY <1>3, <2>1
  <2> QED
    BY <1>4, <2>2, <2>3, <2>4, <2>5
<1>7. \A m \in whole : m <= k
  BY <1>6
<1>8. ASSUME NEW c \in whole, \A m \in whole : m <= c PROVE c = k
  BY <1>5, <1>7, <1>8
<1>9. (CHOOSE c \in whole : \A m \in whole : m <= c) = k
  <2> HIDE DEF whole
  <2> QED
    BY <1>5, <1>7, <1>8
<1>10. Whole(events, t) = SubSeq(events, 1, k)
  BY <1>9 DEF Whole, End
<1> QED
  BY <1>1, <1>10 DEF AtEvent

\* However many reads the network makes of the stream, and wherever it cuts it
\* or breaks it off, the page has done the events that came whole
\* (streamChatMessage's loop over the reads, against _sse).
THEOREM StreamSurvivesReads ==
    ASSUME NEW events \in Seq(Event(Symbols)), NEW reads, NEW last,
           Delivers(reads, Wire(events, Len(events)), last)
    PROVE  Received(reads) = Whole(events, last)
<1>1. PICK w : w = Wire(events, Len(events))
  OBVIOUS
<1>2. PICK n \in Nat : n = Len(reads)
  BY DEF Delivers
<1>3. PICK cut :
        /\ cut[0] = 0 /\ cut[n] = last
        /\ \A i \in 0 .. n : cut[i] \in 0 .. Len(w)
        /\ \A i \in 1 .. n :
               cut[i - 1] <= cut[i] /\ reads[i] = SubSeq(w, cut[i - 1] + 1, cut[i])
  BY <1>1, <1>2 DEF Delivers
<1>4. Len(w) \in Nat
  BY <1>1, WireSteps
<1> DEFINE upto[i \in 0 .. n] == IF i = 0 THEN Nothing ELSE Read(upto[i - 1], reads[i])
           All(t) == {[buffer |-> SubSeq(w, End(events, j) + 1, t),
                       events |-> SubSeq(events, 1, j)] : j \in 0 .. Len(events)}
           At(i) == {r \in All(cut[i]) : Caught(r, events, w, cut[i])}
           A == [i \in 0 .. n |-> At(i)]
           step == [i \in 1 .. n |-> [r \in At(i - 1) |-> Read(r, reads[i])]]
<1>5. Received(reads) = upto[n].events
  BY <1>2 DEF Received, Nothing
<1>6. ASSUME NEW t, NEW r, Caught(r, events, w, t) PROVE r \in All(t)
  <2>1. PICK k \in 0 .. Len(events) : AtEvent(r, events, w, k, t)
    BY <1>6 DEF Caught
  <2>2. r = [buffer |-> SubSeq(w, End(events, k) + 1, t), events |-> SubSeq(events, 1, k)]
    BY <1>1, <2>1, AtEventIs
  <2> QED
    BY <2>2
<1> HIDE DEF All
<1>7. Nothing \in At(0)
  <2>1. Caught(Nothing, events, w, cut[0])
    BY <1>1, <1>3, NothingIsCaught
  <2> QED
    BY <1>3, <1>6, <2>1
<1>8. ASSUME NEW i \in 1 .. n, NEW r \in At(i - 1) PROVE Read(r, reads[i]) \in At(i)
  <2>1. i \in 0 .. n /\ i - 1 \in 0 .. n
    OBVIOUS
  <2>2. /\ cut[i - 1] \in 0 .. Len(w) /\ cut[i] \in 0 .. Len(w) /\ cut[i - 1] <= cut[i]
        /\ reads[i] = SubSeq(w, cut[i - 1] + 1, cut[i])
    BY <1>3, <2>1
  <2>3. PICK t, u : t = cut[i - 1] /\ u = cut[i]
    OBVIOUS
  <2>4. t \in Nat /\ u \in t .. Len(w)
    BY <1>4, <2>2, <2>3
  <2>5. Caught(r, events, w, t) /\ reads[i] = SubSeq(w, t + 1, u)
    BY <2>2, <2>3
  <2>6. Caught(Read(r, reads[i]), events, w, u)
    BY <1>1, <2>4, <2>5, ReadCatchesUp
  <2> QED
    BY <1>6, <2>3, <2>6
<1> HIDE DEF At
<1>9. /\ Nothing \in A[0]
      /\ \A i \in 1 .. n : A[i - 1] = At(i - 1)
      /\ \A i \in 1 .. n : \A r \in A[i - 1] : step[i][r] = Read(r, reads[i])
  BY <1>7
<1>10. \A i \in 1 .. n : \A r \in A[i - 1] : step[i][r] \in A[i]
  <2>1. \A i \in 1 .. n : A[i] = At(i)
    OBVIOUS
  <2> HIDE DEF A, step
  <2> QED
    BY <1>8, <1>9, <2>1
<1>11. A[n] = At(n)
  OBVIOUS
<1> HIDE DEF A, step
<1>12. PICK f : Iterates(f, A, Nothing, step, n)
  BY <1>9, <1>10, Recursion
<1>13. f = [i \in 0 .. n |-> IF i = 0 THEN Nothing ELSE Read(f[i - 1], reads[i])]
  <2>1. f = [i \in 0 .. n |-> f[i]] /\ f[0] = Nothing
    BY <1>12 DEF Iterates
  <2>2. ASSUME NEW i \in 1 .. n PROVE f[i] = Read(f[i - 1], reads[i])
    <3>1. i - 1 \in 0 .. n
      OBVIOUS
    <3>2. f[i] = step[i][f[i - 1]] /\ f[i - 1] \in A[i - 1]
      BY <1>12, <3>1 DEF Iterates
    <3> QED
      BY <1>9, <3>2
  <2>3. ASSUME NEW i \in 0 .. n
        PROVE  f[i] = IF i = 0 THEN Nothing ELSE Read(f[i - 1], reads[i])
    <3>1. i = 0 \/ (i # 0 /\ i \in 1 .. n)
      OBVIOUS
    <3> QED
      BY <2>1, <2>2, <3>1
  <2> QED
    BY <2>1, <2>3
<1>14. upto = [i \in 0 .. n |-> IF i = 0 THEN Nothing ELSE Read(upto[i - 1], reads[i])]
  <2>1. \E g : g = [i \in 0 .. n |-> IF i = 0 THEN Nothing ELSE Read(g[i - 1], reads[i])]
    BY <1>13
  <2> QED
    BY <2>1, Zenon
<1> HIDE DEF upto
<1>15. upto[0] = Nothing /\ \A i \in 1 .. n : upto[i] = Read(upto[i - 1], reads[i])
  BY <1>14
<1>16. \A i \in 0 .. n : upto[i] \in A[i]
  <2>1. \A i \in 1 .. n : upto[i - 1] \in A[i - 1] => upto[i] = step[i][upto[i - 1]]
    BY <1>9, <1>15
  <2>2. upto[0] \in A[0]
    BY <1>9, <1>15
  <2> QED
    BY <1>10, <2>1, <2>2, OneSolution
<1>17. Caught(upto[n], events, w, last)
  <2>1. n \in 0 .. n
    OBVIOUS
  <2>2. upto[n] \in At(n)
    BY <1>11, <1>16, <2>1
  <2> QED
    BY <1>3, <2>2 DEF At
<1> QED
  BY <1>1, <1>5, <1>17, CaughtIsWhole

USE AnswersAssumption

-----------------------------------------------------------------------------
(* The fusion                                                              *)

IsShare(x) == x \in [num : Nat, den : Nat \ {0}]

\* Products of numbers.
LEMMA Product == \A x, y \in Nat : x * y \in Nat /\ (x # 0 /\ y # 0 => x * y # 0)
OBVIOUS

\* A fraction exceeds neither itself nor one that exceeds it.
LEMMA FractionsCompare ==
    ASSUME NEW x, NEW y, IsShare(x), IsShare(y)
    PROVE  ~Exceeds(x, x) /\ (Exceeds(x, y) => ~Exceeds(y, x))
<1>1. x.num * y.den \in Nat /\ y.num * x.den \in Nat /\ x.num * x.den \in Nat
  BY Product DEF IsShare
<1> QED
  BY <1>1 DEF Exceeds

\* Fractions that do not exceed one another are ordered.
LEMMA FractionsOrdered ==
    ASSUME NEW x, NEW y, NEW z, IsShare(x), IsShare(y), IsShare(z),
           ~Exceeds(y, x), ~Exceeds(z, y)
    PROVE  ~Exceeds(z, x)
<1>1. PICK a \in Nat, b \in Nat \ {0}, c \in Nat, d \in Nat \ {0}, e \in Nat, f \in Nat \ {0} :
          /\ a = x.num /\ b = x.den /\ c = y.num /\ d = y.den /\ e = z.num /\ f = z.den
  BY DEF IsShare
<1>2. c * b <= a * d /\ e * d <= c * f
  BY <1>1, Product DEF Exceeds
<1>3. e * b <= a * f
  <2>1. (e * d) * b <= (c * f) * b
    BY <1>2
  <2>2. (c * b) * f <= (a * d) * f
    BY <1>2
  <2>3. (e * b) * d <= (a * f) * d
    BY <2>1, <2>2
  <2> QED
    BY <2>3
<1> QED
  BY <1>1, <1>3 DEF Exceeds

\* The place of an id in a list that has it.
LEMMA PositionIsPlace ==
    ASSUME NEW T, NEW s \in Seq(T), NEW c, c \in Elements(s)
    PROVE  PositionOf(s, c) \in 1 .. Len(s) /\ s[PositionOf(s, c)] = c
BY DEF Elements, PositionOf

\* A ranking ranks finitely many.
LEMMA ElementsFinite ==
    ASSUME NEW T, NEW s \in Seq(T)
    PROVE  IsFiniteSet(Elements(s)) /\ Elements(s) \subseteq T
<1>1. IsFiniteSet(1 .. Len(s))
  BY FS_Interval
<1> DEFINE f == [i \in 1 .. Len(s) |-> s[i]]
<1>2. f \in Surjection(1 .. Len(s), Elements(s))
  BY DEF Surjection, Elements
<1>3. IsFiniteSet(Elements(s))
  <2> HIDE DEF f
  <2> QED
    BY <1>1, <1>2, FS_Surjection
<1> QED
  BY <1>3 DEF Elements

\* A share has a denominator.
LEMMA ShareIsFraction ==
    ASSUME NEW T, NEW s \in Seq(T), NEW c
    PROVE  /\ IsShare(Share(s, c))
           /\ c \in Elements(s) =>
                  Share(s, c).num = 1 /\ Share(s, c).den = RrfK + PositionOf(s, c)
           /\ c \notin Elements(s) => Share(s, c).num = 0 /\ Share(s, c).den = 1
<1>1. CASE c \in Elements(s)
  <2>1. PositionOf(s, c) \in Nat \ {0}
    BY <1>1, PositionIsPlace
  <2>2. RrfK + PositionOf(s, c) \in Nat \ {0}
    BY <2>1 DEF AnswersAssumption
  <2> QED
    BY <1>1, <2>2 DEF Share, IsShare
<1>2. CASE c \notin Elements(s)
  BY <1>2 DEF Share, IsShare
<1> QED
  BY <1>1, <1>2

\* So has a score.
LEMMA ScoreIsFraction ==
    ASSUME NEW v \in Seq(Chunk), NEW l \in Seq(Chunk), NEW c
    PROVE  IsShare(Score(v, l, c))
<1>1. PICK x, y : x = Share(v, c) /\ y = Share(l, c) /\ IsShare(x) /\ IsShare(y)
  BY ShareIsFraction
<1>2. PICK a \in Nat, b \in Nat \ {0}, d \in Nat, e \in Nat \ {0} :
          a = x.num /\ b = x.den /\ d = y.num /\ e = y.den
  BY <1>1 DEF IsShare
<1>3. Score(v, l, c) = [num |-> a * e + d * b, den |-> b * e]
  BY <1>1, <1>2 DEF Score
<1>4. a * e \in Nat /\ d * b \in Nat /\ b * e \in Nat /\ b * e # 0
  BY Product
<1>5. a * e + d * b \in Nat
  BY <1>4
<1> QED
  BY <1>3, <1>4, <1>5 DEF IsShare

\* Two ids do not come into the dict together.
LEMMA ArrivalsDiffer ==
    ASSUME NEW v \in Seq(Chunk), NEW l \in Seq(Chunk),
           NEW c \in Found(v, l), NEW d \in Found(v, l)
    PROVE  /\ Arrival(v, l, c) \in Nat
           /\ Arrival(v, l, c) = Arrival(v, l, d) => c = d
<1>1. \A e \in Found(v, l) :
          \/ e \in Elements(v) /\ Arrival(v, l, e) \in 1 .. Len(v) /\ v[Arrival(v, l, e)] = e
          \/ /\ Arrival(v, l, e) - Len(v) \in 1 .. Len(l) /\ l[Arrival(v, l, e) - Len(v)] = e
             /\ Arrival(v, l, e) \in Nat
  <2> TAKE e \in Found(v, l)
  <2>1. CASE e \in Elements(v)
    BY <2>1, PositionIsPlace DEF Arrival
  <2>2. CASE e \notin Elements(v)
    <3>1. e \in Elements(l) /\ Arrival(v, l, e) = Len(v) + PositionOf(l, e)
      BY <2>2 DEF Found, Arrival
    <3>2. PositionOf(l, e) \in 1 .. Len(l) /\ l[PositionOf(l, e)] = e
      BY <3>1, PositionIsPlace
    <3>3. Len(v) \in Nat /\ Len(l) \in Nat
      OBVIOUS
    <3>4. Arrival(v, l, e) - Len(v) = PositionOf(l, e)
      BY <3>1, <3>2, <3>3
    <3> QED
      BY <3>1, <3>2, <3>3, <3>4
  <2> QED
    BY <2>1, <2>2
<1> QED
  BY <1>1

\* sorted() orders the ids.
LEMMA ScoresOrder ==
    ASSUME NEW v \in Seq(Chunk), NEW l \in Seq(Chunk)
    PROVE  IsFiniteSet(Found(v, l)) /\ Orders(ByScore(v, l), Found(v, l))
<1>1. IsFiniteSet(Found(v, l))
  <2>1. IsFiniteSet(Elements(v)) /\ IsFiniteSet(Elements(l))
    BY ElementsFinite
  <2> QED
    BY <2>1, FS_Union DEF Found
<1> DEFINE More(c, d) == Exceeds(Score(v, l, c), Score(v, l, d))
           At(c) == Arrival(v, l, c)
           S == Found(v, l)
<1>2. S \subseteq Chunk
  BY DEF Found, Elements
<1>3. \A c, d \in S : <<c, d>> \in ByScore(v, l) <=>
          More(c, d) \/ (~More(d, c) /\ At(c) <= At(d))
  BY <1>2 DEF ByScore
<1>4. \A c \in S : IsShare(Score(v, l, c))
  BY ScoreIsFraction
<1>5. \A c \in S : ~More(c, c)
  BY <1>4, FractionsCompare
<1>6. \A c, d \in S : More(c, d) => ~More(d, c)
  BY <1>4, FractionsCompare
<1>7. \A c, d, e \in S : ~More(c, d) /\ ~More(d, e) => ~More(c, e)
  <2>1. \A x, y, z : IsShare(x) /\ IsShare(y) /\ IsShare(z) /\ ~Exceeds(x, y) /\ ~Exceeds(y, z)
                        => ~Exceeds(x, z)
    BY FractionsOrdered
  <2> HIDE DEF S
  <2> QED
    BY <1>4, <2>1
<1>8. \A c, d \in S : At(c) \in Nat /\ (At(c) = At(d) => c = d)
  BY ArrivalsDiffer
<1> HIDE DEF More, At, S
<1>9. ASSUME NEW c \in S, NEW d \in S, NEW e \in S,
             <<c, d>> \in ByScore(v, l), <<d, e>> \in ByScore(v, l)
      PROVE  <<c, e>> \in ByScore(v, l)
  BY <1>3, <1>5, <1>6, <1>7, <1>8, <1>9
<1>10. ASSUME NEW c \in S, NEW d \in S,
             <<c, d>> \in ByScore(v, l), <<d, c>> \in ByScore(v, l)
      PROVE  c = d
  BY <1>3, <1>5, <1>6, <1>8, <1>10
<1>11. ASSUME NEW c \in S, NEW d \in S
       PROVE  <<c, d>> \in ByScore(v, l) \/ <<d, c>> \in ByScore(v, l)
  <2>1. At(c) \in Nat /\ At(d) \in Nat
    BY <1>8
  <2>2. At(c) <= At(d) \/ At(d) <= At(c)
    BY <2>1
  <2> QED
    BY <1>3, <2>2
<1> QED
  BY <1>1, <1>9, <1>10, <1>11 DEF Orders, S

-----------------------------------------------------------------------------
(* The invariants                                                          *)

IsRanking(s) ==
    /\ Len(s) <= CandidateK
    /\ \A i, j \in 1 .. Len(s) : i # j => s[i] # s[j]

\* No rank statement returned an id twice, and what they found is there still
\* unless its document changed since.
RankInv ==
    /\ IsRanking(vec) /\ IsRanking(lex)
    /\ stage \in {"idle", "vector"} => vec = <<>> /\ lex = <<>>
    /\ stage = "vector" => mode # "lexical"
    /\ stage = "lexical" => lex = <<>> /\ (mode = "hybrid" \/ vec = <<>>)
    /\ stage \in {"lexical", "load"} =>
           \A c \in Found(vec, lex) : c \in Current \/ c.doc \in moved
    /\ BestFirst

\* The prompt shows the hits, and only an answer that is asked for has tokens.
AnswerInv ==
    /\ provider = "none" => stage \notin {"stream", "cite"} /\ answer = <<>> /\ usage = 0
    /\ provider # "none" => stage \in {"stream", "cite", "done", "failed"}
    /\ provider # "none" =>
           Len(shown) = Len(hits) /\ \A i \in 1 .. Len(hits) : shown[i] = hits[i]
    /\ provider = "running" /\ stage = "stream" => usage = Len(answer)
    /\ UsageIsFinal
    /\ CitationsResolve

-----------------------------------------------------------------------------
(* What better ranks make of the scores                                    *)

\* Of two sums of reciprocals the one of smaller denominators is larger.
LEMMA Ahead ==
    \A x, y, z, w \in Nat \ {0} : x < z /\ y < w => (y + x) * (z * w) > (w + z) * (x * y)
<1> TAKE x, y, z, w \in Nat \ {0}
<1> HAVE x < z /\ y < w
<1>1. /\ x * y \in Nat \ {0} /\ z * y \in Nat \ {0} /\ x * w \in Nat \ {0} /\ z * w \in Nat \ {0}
  BY Product
<1>2. x * w < z * w /\ z * y < z * w
  OBVIOUS
<1>3. y * (x * w) < y * (z * w)
  BY <1>1, <1>2
<1>4. x * (z * y) < x * (z * w)
  BY <1>1, <1>2
<1>5. (y + x) * (z * w) = y * (z * w) + x * (z * w)
  BY <1>1
<1>6. (w + z) * (x * y) = y * (x * w) + x * (z * y)
  BY <1>1
<1> QED
  BY <1>1, <1>3, <1>4, <1>5, <1>6

\* Two reciprocals are more than a third, unless a denominator is twice its.
LEMMA TwoBeatOne ==
    \A x, y, z \in Nat \ {0} : x < 2 * z /\ y < 2 * z => (y + x) * z > x * y
<1> TAKE x, y, z \in Nat \ {0}
<1> HAVE x < 2 * z /\ y < 2 * z
<1>1. x * y \in Nat /\ y * z \in Nat /\ x * z \in Nat
  BY Product
<1>2. x * y < (2 * z) * y /\ y * x < (2 * z) * x
  OBVIOUS
<1>3. x * y < 2 * (y * z) /\ x * y < 2 * (x * z)
  BY <1>1, <1>2
<1>4. (y + x) * z = y * z + x * z
  OBVIOUS
<1> QED
  BY <1>1, <1>3, <1>4

\* A score is the share of each arm that found the chunk.
LEMMA ScoreCases ==
    ASSUME NEW v \in Seq(Chunk), NEW l \in Seq(Chunk), NEW c,
           NEW x, x = RrfK + PositionOf(v, c),
           NEW y, y = RrfK + PositionOf(l, c)
    PROVE  /\ c \in Elements(v) /\ c \in Elements(l) =>
                  Score(v, l, c) = [num |-> y + x, den |-> x * y]
           /\ c \in Elements(v) /\ c \notin Elements(l) =>
                  Score(v, l, c) = [num |-> 1, den |-> x]
           /\ c \notin Elements(v) /\ c \in Elements(l) =>
                  Score(v, l, c) = [num |-> 1, den |-> y]
<1>1. c \in Elements(v) => x \in Nat
  BY PositionIsPlace DEF AnswersAssumption
<1>2. c \in Elements(l) => y \in Nat
  BY PositionIsPlace DEF AnswersAssumption
<1>3. Score(v, l, c) = [num |-> Share(v, c).num * Share(l, c).den
                                  + Share(l, c).num * Share(v, c).den,
                        den |-> Share(v, c).den * Share(l, c).den]
  BY DEF Score
<1> QED
  BY <1>1, <1>2, <1>3, ShareIsFraction

\* What a chunk's arms are.
LEMMA ArmsOf ==
    ASSUME NEW c
    PROVE  /\ "vec" \in Arms(c) <=> c \in Elements(vec)
           /\ "lex" \in Arms(c) <=> c \in Elements(lex)
           /\ Cardinality(Arms(c)) = 2 => c \in Elements(vec) /\ c \in Elements(lex)
           /\ Cardinality(Arms(c)) = 1 =>
                  /\ c \in Elements(vec) \/ c \in Elements(lex)
                  /\ c \notin Elements(vec) \/ c \notin Elements(lex)
<1>1. /\ Arms(c) \subseteq {"vec", "lex"}
      /\ "vec" \in Arms(c) <=> c \in Elements(vec)
      /\ "lex" \in Arms(c) <=> c \in Elements(lex)
  BY DEF Arms
<1>2. Cardinality({"vec", "lex"}) = 2 /\ Cardinality({"vec"}) = 1 /\ Cardinality({"lex"}) = 1
      /\ Cardinality({}) = 0
  <2>1. IsFiniteSet({"vec"}) /\ Cardinality({"vec"}) = 1 /\ Cardinality({"lex"}) = 1
    BY FS_Singleton
  <2>2. {"vec"} \cup {"lex"} = {"vec", "lex"} /\ "lex" \notin {"vec"}
    OBVIOUS
  <2>3. Cardinality({"vec"} \cup {"lex"}) = 2
    BY <2>1, <2>2, FS_AddElement
  <2> QED
    BY <2>1, <2>2, <2>3, FS_EmptySet
<1>3. Arms(c) \in {{}, {"vec"}, {"lex"}, {"vec", "lex"}}
  BY <1>1
<1> QED
  BY <1>1, <1>2, <1>3

\* A better chunk scores more.
LEMMA BetterScoresMore ==
    ASSUME TypeOK, IsRanking(vec), IsRanking(lex), NEW a, NEW b, Better(a, b),
           b \in Found(vec, lex)
    PROVE  a \in Found(vec, lex) /\ Exceeds(Score(vec, lex, a), Score(vec, lex, b))
<1> DEFINE x == RrfK + PositionOf(vec, a)
           y == RrfK + PositionOf(lex, a)
           z == RrfK + PositionOf(vec, b)
           w == RrfK + PositionOf(lex, b)
<1>1. vec \in Seq(Chunk) /\ lex \in Seq(Chunk) /\ Len(vec) <= CandidateK /\ Len(lex) <= CandidateK
  BY DEF TypeOK, IsRanking
<1>2. ASSUME NEW s \in {vec, lex}, NEW c, c \in Elements(s)
      PROVE  RrfK + PositionOf(s, c) \in RrfK + 1 .. 2 * RrfK + 1
  <2>1. PositionOf(s, c) \in 1 .. Len(s) /\ Len(s) \in Nat /\ Len(s) <= CandidateK
    BY <1>1, <1>2, PositionIsPlace
  <2> QED
    BY <2>1 DEF AnswersAssumption
<1>3. CASE a \in Elements(vec) /\ a \in Elements(lex) /\ b \in Elements(vec) /\ b \in Elements(lex)
  <2>1. x < z /\ y < w
    BY <1>1, <1>3, ArmsOf, PositionIsPlace DEF Better, AnswersAssumption
  <2>2. x \in Nat \ {0} /\ y \in Nat \ {0} /\ z \in Nat \ {0} /\ w \in Nat \ {0}
    BY <1>2, <1>3 DEF AnswersAssumption
  <2>3. /\ Score(vec, lex, a) = [num |-> y + x, den |-> x * y]
        /\ Score(vec, lex, b) = [num |-> w + z, den |-> z * w]
    BY <1>1, <1>3, ScoreCases
  <2> HIDE DEF x, y, z, w
  <2>4. (y + x) * (z * w) > (w + z) * (x * y)
    BY <2>1, <2>2, Ahead
  <2> QED
    BY <1>3, <2>3, <2>4 DEF Exceeds, Found
<1>4. ASSUME NEW u \in {z, w}, Score(vec, lex, b) = [num |-> 1, den |-> u],
             u \in RrfK + 1 .. 2 * RrfK + 1,
             a \in Elements(vec), a \in Elements(lex)
      PROVE  Exceeds(Score(vec, lex, a), Score(vec, lex, b))
  <2>1. x \in RrfK + 1 .. 2 * RrfK + 1 /\ y \in RrfK + 1 .. 2 * RrfK + 1
    BY <1>2, <1>4
  <2>2. Score(vec, lex, a) = [num |-> y + x, den |-> x * y]
    BY <1>1, <1>4, ScoreCases
  <2>3. /\ x \in Nat \ {0} /\ y \in Nat \ {0} /\ u \in Nat \ {0}
        /\ x < 2 * u /\ y < 2 * u
    BY <1>4, <2>1 DEF AnswersAssumption
  <2> HIDE DEF x, y, z, w
  <2>4. (y + x) * u > x * y
    BY <2>3, TwoBeatOne
  <2>5. x * y \in Nat
    BY <2>3, Product
  <2> QED
    BY <1>4, <2>2, <2>4, <2>5 DEF Exceeds
<1>5. CASE b \in Elements(vec) /\ b \notin Elements(lex)
  <2>1. Score(vec, lex, b) = [num |-> 1, den |-> z] /\ z \in RrfK + 1 .. 2 * RrfK + 1
    BY <1>1, <1>2, <1>5, ScoreCases
  <2>2. CASE a \in Elements(vec) /\ a \in Elements(lex)
    BY <1>4, <2>1, <2>2 DEF Found
  <2>3. CASE ~(a \in Elements(vec) /\ a \in Elements(lex))
    <3>1. a \in Elements(vec) /\ a \notin Elements(lex) /\ PositionOf(vec, a) < PositionOf(vec, b)
      BY <1>5, <2>3, ArmsOf DEF Better
    <3>2. Score(vec, lex, a) = [num |-> 1, den |-> x]
      BY <1>1, <3>1, ScoreCases
    <3>3. x \in Nat /\ z \in Nat /\ x < z
      BY <1>1, <1>5, <3>1, PositionIsPlace DEF AnswersAssumption
    <3> HIDE DEF x, z
    <3> QED
      BY <2>1, <3>1, <3>2, <3>3 DEF Exceeds, Found
  <2> QED
    BY <2>2, <2>3
<1>6. CASE b \notin Elements(vec) /\ b \in Elements(lex)
  <2>1. Score(vec, lex, b) = [num |-> 1, den |-> w] /\ w \in RrfK + 1 .. 2 * RrfK + 1
    BY <1>1, <1>2, <1>6, ScoreCases
  <2>2. CASE a \in Elements(vec) /\ a \in Elements(lex)
    BY <1>4, <2>1, <2>2 DEF Found
  <2>3. CASE ~(a \in Elements(vec) /\ a \in Elements(lex))
    <3>1. a \notin Elements(vec) /\ a \in Elements(lex) /\ PositionOf(lex, a) < PositionOf(lex, b)
      BY <1>6, <2>3, ArmsOf DEF Better
    <3>2. Score(vec, lex, a) = [num |-> 1, den |-> y]
      BY <1>1, <3>1, ScoreCases
    <3>3. y \in Nat /\ w \in Nat /\ y < w
      BY <1>1, <1>6, <3>1, PositionIsPlace DEF AnswersAssumption
    <3> HIDE DEF y, w
    <3> QED
      BY <2>1, <3>1, <3>2, <3>3 DEF Exceeds, Found
  <2> QED
    BY <2>2, <2>3
<1>7. CASE /\ b \in Elements(vec) /\ b \in Elements(lex)
           /\ ~(a \in Elements(vec) /\ a \in Elements(lex))
  BY <1>7, ArmsOf DEF Better
<1> QED
  BY <1>3, <1>5, <1>6, <1>7 DEF Found

-----------------------------------------------------------------------------
(* Types                                                                   *)

\* A deleted document has no chunks.
DeletedInv == \A d \in Docs : title[d] = 0 => indexed[d] = 0

NoHitsYet == stage \in {"idle", "vector", "lexical", "load"} => hits = <<>>

TypeInv == TypeOK /\ DeletedInv /\ NoHitsYet

\* The best are the first of the fused, up to the limit.
LEMMA BestIsPrefix ==
    ASSUME NEW v \in Seq(Chunk), NEW l \in Seq(Chunk)
    PROVE  LET n == Cardinality(Found(v, l)) IN
           /\ n \in Nat
           /\ Best(v, l) \in Seq(Chunk)
           /\ Len(Best(v, l)) = IF n < Limit THEN n ELSE Limit
           /\ \A i \in 1 .. Len(Best(v, l)) : Best(v, l)[i] = Fused(v, l)[i]
<1> DEFINE n == Cardinality(Found(v, l))
<1>1. /\ n \in Nat /\ Len(Fused(v, l)) = n /\ Fused(v, l) \in [1 .. n -> Found(v, l)]
  BY ScoresOrder, InOrderSorts DEF Fused, Sorted
<1>2. Found(v, l) \subseteq Chunk
  BY ElementsFinite DEF Found
<1>3. PICK k \in Nat : k = (IF n < Limit THEN n ELSE Limit) /\ k <= n
  BY <1>1 DEF AnswersAssumption
<1>4. Best(v, l) = [i \in 1 .. k |-> Fused(v, l)[i]]
  BY <1>1, <1>3 DEF Best
<1>5. \A i \in 1 .. k : Fused(v, l)[i] \in Chunk
  BY <1>1, <1>2, <1>3
<1> HIDE DEF n
<1>6. Best(v, l) \in Seq(Chunk) /\ Len(Best(v, l)) = k
  BY <1>4, <1>5
<1> QED
  BY <1>1, <1>3, <1>4, <1>6 DEF n

\* h are the rows loaded for ids, at the places q, in their order.
Loads(h, ids, q) ==
    /\ h \in Seq(Hit)
    /\ \A i \in 1 .. Len(h) :
           q[i] \in 1 .. Len(ids) /\ ids[q[i]] \in Current /\ h[i] = HitOf(ids[q[i]])
    /\ \A i, j \in 1 .. Len(h) : i < j => q[i] < q[j]
    /\ \A p \in 1 .. Len(ids) : ids[p] \in Current => \E i \in 1 .. Len(h) : q[i] = p

\* The load statement finds what is there still, in the order of the ids.
LEMMA LoadFinds ==
    ASSUME TypeInv, Load
    PROVE  \E q : Loads(hits', Best(vec, lex), q)
<1> USE DEF TypeInv
<1>1. PICK ids : ids = Best(vec, lex)
  OBVIOUS
<1>2. ids \in Seq(Chunk) /\ Len(ids) \in Nat
  BY <1>1, BestIsPrefix DEF TypeOK
<1> DEFINE P == {p \in 1 .. Len(ids) : Loadable(ids[p])}
           n == Cardinality(P)
<1>3. PICK q : q = InOrder(P, Upward)
  OBVIOUS
<1>5. /\ n \in Nat /\ Len(q) = n /\ q \in [1 .. n -> P]
      /\ \A x \in P : \E p \in 1 .. n : q[p] = x
      /\ \A i, j \in 1 .. n : i < j => q[i] < q[j]
  <2>1. P \in SUBSET (1 .. Len(ids))
    OBVIOUS
  <2> HIDE DEF P
  <2>2. Ascends(q, P)
    BY <1>2, <1>3, <2>1, Ascending
  <2> QED
    BY <2>2 DEF Ascends
<1>6. hits' = [i \in 1 .. n |-> HitOf(ids[q[i]])]
  BY <1>1, <1>3, <1>5 DEF Load
<1>7. ASSUME NEW c \in Current PROVE HitOf(c) \in Hit
  <2>1. c \in Chunk /\ c.doc \in Docs /\ c.run = indexed[c.doc] /\ c.run # 0
    BY DEF Current, Chunk
  <2>2. title[c.doc] \in 1 .. MaxTitles
    BY <2>1 DEF TypeOK, DeletedInv, AnswersAssumption
  <2> QED
    BY <2>1, <2>2 DEF HitOf, Hit
<1>8. \A i \in 1 .. n : q[i] \in 1 .. Len(ids) /\ ids[q[i]] \in Current
  BY <1>5 DEF Loadable
<1> HIDE DEF P, n
<1>9. hits' \in Seq(Hit) /\ Len(hits') = n
  <2>1. \A i \in 1 .. n : HitOf(ids[q[i]]) \in Hit
    BY <1>7, <1>8
  <2> QED
    BY <1>5, <1>6, <2>1
<1>11. \A p \in 1 .. Len(ids) : ids[p] \in Current => \E i \in 1 .. n : q[i] = p
  BY <1>5 DEF P, Loadable
<1> QED
  BY <1>1, <1>6, <1>8, <1>5, <1>9, <1>11 DEF Loads

\* The citations are of the markers that name a source, in order.
LEMMA CiteResolves ==
    ASSUME TypeOK, Cite
    PROVE  /\ citations' \in Seq([marker : 1 .. Len(hits), source : Hit])
           /\ \A i \in 1 .. Len(citations') :
                  /\ citations'[i].source = hits[citations'[i].marker]
                  /\ citations'[i].marker \in Markers
           /\ \A i, j \in 1 .. Len(citations') :
                  i < j => citations'[i].marker < citations'[j].marker
           /\ \A m \in Markers : \E i \in 1 .. Len(citations') : citations'[i].marker = m
<1> DEFINE n == Cardinality(Markers)
<1>1. PICK q : q = InOrder(Markers, Upward)
  OBVIOUS
<1>2. hits \in Seq(Hit) /\ Len(hits) \in Nat /\ Markers \subseteq 1 .. Len(hits)
  BY DEF TypeOK, Markers
<1>3. /\ n \in Nat /\ Len(q) = n /\ q \in [1 .. n -> Markers]
      /\ \A x \in Markers : \E p \in 1 .. n : q[p] = x
      /\ \A i, j \in 1 .. n : i < j => q[i] < q[j]
  <2>1. Ascends(q, Markers)
    BY <1>1, <1>2, Ascending
  <2> QED
    BY <2>1 DEF Ascends
<1>4. citations' = [i \in 1 .. n |-> [marker |-> q[i], source |-> SourceOf(q[i])]]
  BY <1>1, <1>3 DEF Cite
<1> HIDE DEF n
<1>5. ASSUME NEW i \in 1 .. n
      PROVE  q[i] \in 1 .. Len(hits) /\ q[i] \in Markers /\ hits[q[i]] \in Hit
  <2>1. q[i] \in Markers
    BY <1>3
  <2>2. q[i] \in 1 .. Len(hits)
    BY <1>2, <2>1
  <2> QED
    BY <1>2, <2>1, <2>2
<1>6. citations' \in Seq([marker : 1 .. Len(hits), source : Hit]) /\ Len(citations') = n
  BY <1>3, <1>4, <1>5 DEF SourceOf
<1>7. \A i \in 1 .. n : citations'[i].marker = q[i] /\ citations'[i].source = hits[q[i]]
  BY <1>4 DEF SourceOf
<1>8. \A i, j \in 1 .. n : i < j => citations'[i].marker < citations'[j].marker
  BY <1>3, <1>7
<1>9. \A m \in Markers : \E i \in 1 .. n : citations'[i].marker = m
  BY <1>3, <1>7
<1> QED
  BY <1>5, <1>6, <1>7, <1>8, <1>9

\* A step of the documents, which leaves the question alone.
LEMMA DocumentStep ==
    ASSUME TypeInv, NEW d \in Docs, Ingest(d) \/ Rename(d) \/ Delete(d)
    PROVE  /\ TypeInv'
           /\ UNCHANGED askVars
           /\ moved \subseteq moved'
           /\ stage = "load" \/ (stage = "lexical" /\ mode = "hybrid") =>
                  \A c \in Current : c \in Current' \/ c.doc \in moved'
<1> USE DEF TypeInv
<1>1. /\ title \in [Docs -> 0 .. MaxTitles] /\ indexed \in [Docs -> 0 .. MaxRuns]
      /\ runs \in 1 .. MaxRuns /\ moved \subseteq Docs
      /\ MaxRuns \in Nat /\ MaxTitles \in Nat
  BY DEF TypeOK, AnswersAssumption
<1>2. UNCHANGED askVars /\ moved \subseteq moved'
  BY DEF Ingest, Rename, Delete, Move
<1>3. /\ title' \in [Docs -> 0 .. MaxTitles] /\ indexed' \in [Docs -> 0 .. MaxRuns]
      /\ runs' \in 1 .. MaxRuns /\ moved' \subseteq Docs
  <2>1. CASE Ingest(d)
    <3>1. runs + 1 \in 1 .. MaxRuns
      BY <1>1, <2>1 DEF Ingest
    <3> QED
      BY <1>1, <2>1, <3>1 DEF Ingest, Move
  <2>2. CASE Rename(d)
    <3>1. title[d] + 1 \in 0 .. MaxTitles
      BY <1>1, <2>2 DEF Rename
    <3> QED
      BY <1>1, <2>2, <3>1 DEF Rename
  <2>3. CASE Delete(d)
    BY <1>1, <2>3 DEF Delete, Move
  <2> QED
    BY <2>1, <2>2, <2>3
<1>4. TypeOK'
  BY <1>2, <1>3 DEF TypeOK, askVars
<1>5. DeletedInv'
  <2>1. CASE Ingest(d)
    BY <1>1, <2>1 DEF Ingest, DeletedInv
  <2>2. CASE Rename(d)
    BY <1>1, <2>2 DEF Rename, DeletedInv
  <2>3. CASE Delete(d)
    BY <1>1, <2>3 DEF Delete, DeletedInv
  <2> QED
    BY <2>1, <2>2, <2>3
<1>a. NoHitsYet'
  BY <1>2 DEF NoHitsYet, askVars
<1>6. ASSUME stage = "load" \/ (stage = "lexical" /\ mode = "hybrid"), NEW c \in Current
      PROVE  c \in Current' \/ c.doc \in moved'
  <2>1. c \in Chunk /\ c.doc \in Docs /\ c.run = indexed[c.doc]
    BY DEF Current, Chunk
  <2>2. CASE Rename(d)
    BY <2>1, <2>2 DEF Rename, Current
  <2>3. CASE Ingest(d) \/ Delete(d)
    <3>1. moved' = moved \cup {d} /\ \A e \in Docs : e # d => indexed'[e] = indexed[e]
      BY <1>1, <1>6, <2>3 DEF Ingest, Delete, Move
    <3> QED
      BY <2>1, <3>1 DEF Current
  <2> QED
    BY <2>2, <2>3
<1> QED
  BY <1>2, <1>4, <1>5, <1>6, <1>a

\* A step of the question keeps the types.
LEMMA QuestionTypes ==
    ASSUME TypeInv,
           Ask \/ RankVector \/ RankLexical \/ Load \/ StubAnswer \/ Token \/ EndStream
             \/ Cite \/ Raise
    PROVE  TypeInv'
<1> USE DEF TypeInv
<1>0. UNCHANGED dbVars
  BY DEF Ask, RankVector, RankLexical, Load, StubAnswer, Token, EndStream, Cite, Raise
<1>1. DeletedInv'
  BY <1>0 DEF dbVars, DeletedInv
<1> DEFINE Rest == /\ stage' \in Stage /\ provider' \in Provider /\ UNCHANGED mode
                   /\ vec' \in Seq(Chunk) /\ lex' \in Seq(Chunk)
                   /\ hits' \in Seq(Hit) /\ shown' \in Seq(Hit)
                   /\ answer' \in Seq(Nat) /\ usage' \in Nat
                   /\ citations' \in Seq([marker : 1 .. Len(hits'), source : Hit])
<1>2. Ask => Rest
  BY DEF Ask, TypeOK, Stage
<1>3. Rankings \subseteq Seq(Chunk)
  BY DEF Rankings, Current
<1>4. RankVector \/ RankLexical => Rest
  BY <1>3 DEF RankVector, RankLexical, TypeOK, Stage
<1>5. Load => Rest
  <2> SUFFICES ASSUME Load PROVE Rest
    OBVIOUS
  <2>1. hits' \in Seq(Hit)
    BY LoadFinds DEF Loads
  <2>2. citations' \in Seq([marker : 1 .. Len(hits'), source : Hit])
    <3>1. Len(hits) = 0 /\ citations \in Seq([marker : 1 .. Len(hits), source : Hit])
      BY DEF NoHitsYet, Load, TypeOK
    <3>2. citations = <<>>
      BY <3>1
    <3> QED
      BY <3>2 DEF Load
  <2>3. shown' \in Seq(Hit)
    <3>1. Numbered(hits') \in Seq(Hit)
      BY <2>1 DEF Numbered
    <3> QED
      BY <3>1 DEF Load, TypeOK
  <2> QED
    BY <2>1, <2>2, <2>3 DEF Load, TypeOK, Stage, Provider
<1>6. StubAnswer => Rest
  <2> SUFFICES ASSUME StubAnswer PROVE Rest
    OBVIOUS
  <2>1. Len(shown) \in Nat
    BY DEF TypeOK
  <2>2. PICK m \in 0 .. Len(shown) + 1 : answer' = <<m>> \o [i \in 1 .. Len(shown) |-> i]
    BY DEF StubAnswer
  <2>3. <<m>> \in Seq(Nat) /\ [i \in 1 .. Len(shown) |-> i] \in Seq(Nat)
    BY <2>1
  <2>4. answer' \in Seq(Nat)
    BY <2>2, <2>3
  <2> QED
    BY <2>4 DEF StubAnswer, TypeOK, Stage
<1>7. Token \/ EndStream => Rest
  <2> SUFFICES ASSUME Token \/ EndStream PROVE Rest
    OBVIOUS
  <2>1. Len(shown) \in Nat /\ Len(answer) \in Nat /\ answer \in Seq(Nat)
    BY DEF TypeOK
  <2>2. answer' \in Seq(Nat)
    <3>1. CASE Token
      <4>1. PICK m \in Nat : answer' = Append(answer, m)
        BY <3>1 DEF Token
      <4> QED
        BY <2>1, <4>1
    <3>2. CASE EndStream
      BY <2>1, <3>2 DEF EndStream
    <3> QED
      BY <3>1, <3>2
  <2>3. usage' \in Nat
    BY <2>1 DEF Token, EndStream, Overwritten, TypeOK
  <2> QED
    BY <2>2, <2>3 DEF Token, EndStream, TypeOK, Stage
<1>8. Cite => Rest
  <2> SUFFICES ASSUME Cite PROVE Rest
    OBVIOUS
  <2>1. citations' \in Seq([marker : 1 .. Len(hits), source : Hit])
    BY CiteResolves
  <2> QED
    BY <2>1 DEF Cite, TypeOK, Stage
<1>9. Raise => Rest
  BY DEF Raise, TypeOK, Stage
<1> HIDE DEF Rest
<1>10. Rest
  BY <1>2, <1>4, <1>5, <1>6, <1>7, <1>8, <1>9
<1>11. TypeOK'
  BY <1>0, <1>10 DEF Rest, TypeOK, dbVars
<1>12. NoHitsYet'
  BY DEF Ask, RankVector, RankLexical, Load, StubAnswer, Token, EndStream, Cite, Raise, NoHitsYet
<1> QED
  BY <1>1, <1>11, <1>12

\* Every reachable state has its types.
LEMMA TypeInductive == Spec => []TypeInv
<1>1. Init => TypeInv
  <2> SUFFICES ASSUME Init PROVE TypeInv
    OBVIOUS
  <2>1. TypeOK
    <3>1. <<>> \in Seq(Chunk) /\ <<>> \in Seq(Hit) /\ <<>> \in Seq(Nat)
      OBVIOUS
    <3>2. /\ title \in [Docs -> 0 .. MaxTitles] /\ indexed \in [Docs -> 0 .. MaxRuns]
          /\ runs \in 1 .. MaxRuns
      BY DEF Init, AnswersAssumption
    <3> QED
      BY <3>1, <3>2 DEF Init, TypeOK, Stage, Provider
  <2> QED
    BY <2>1 DEF Init, TypeInv, DeletedInv, NoHitsYet
<1>2. TypeInv /\ [Next]_vars => TypeInv'
  <2> SUFFICES ASSUME TypeInv, [Next]_vars PROVE TypeInv'
    OBVIOUS
  <2>1. CASE UNCHANGED vars
    BY <2>1 DEF vars, TypeInv, TypeOK, DeletedInv, NoHitsYet
  <2> QED
    BY <2>1, DocumentStep, QuestionTypes DEF Next
<1> QED
  BY <1>1, <1>2, PTL DEF Spec

\* Every reachable state of a question and its documents has its types.
THEOREM AnswerTypes == Spec => []TypeOK
<1>1. TypeInv => TypeOK
  BY DEF TypeInv
<1> QED
  BY <1>1, TypeInductive, PTL

\* The hits of a search, and the sources of an answer, are of one edition of
\* each document, however ingestions and renamings fall between its statements.
THEOREM HitsAreOneEdition == Spec => []OneEdition
<1>1. Init => OneEdition
  BY DEF Init, OneEdition
<1>2. TypeInv /\ OneEdition /\ [Next]_vars => OneEdition'
  <2> SUFFICES ASSUME TypeInv, OneEdition, [Next]_vars PROVE OneEdition'
    OBVIOUS
  <2>1. CASE hits' = hits
    BY <2>1 DEF OneEdition
  <2>2. CASE Load
    <3>1. PICK ids, q : Loads(hits', ids, q)
      BY <2>2, LoadFinds
    <3>2. ASSUME NEW i \in 1 .. Len(hits')
          PROVE  /\ hits'[i].chunk.run = indexed[hits'[i].chunk.doc]
                 /\ hits'[i].title = title[hits'[i].chunk.doc]
      <4>1. PICK c \in Current : hits'[i] = HitOf(c)
        BY <3>1 DEF Loads
      <4>2. c.run = indexed[c.doc]
        BY DEF Current
      <4> QED
        BY <4>1, <4>2 DEF HitOf
    <3> QED
      BY <3>2 DEF OneEdition
  <2>3. hits' = hits \/ Load
    <3>1. ASSUME NEW d \in Docs, Ingest(d) \/ Rename(d) \/ Delete(d) PROVE hits' = hits
      BY <3>1, DocumentStep DEF askVars
    <3> QED
      BY <3>1 DEF Next, vars, Ask, RankVector, RankLexical, StubAnswer, Token, EndStream,
                  Cite, Raise
  <2> QED
    BY <2>1, <2>2, <2>3
<1> QED
  BY <1>1, <1>2, TypeInductive, PTL DEF Spec

-----------------------------------------------------------------------------
(* The answer                                                              *)

\* The invariant of the answer.
LEMMA AnswerInductive == Spec => []AnswerInv
<1>1. Init => AnswerInv
  BY DEF Init, AnswerInv, UsageIsFinal, CitationsResolve
<1>2. TypeInv /\ AnswerInv /\ [Next]_vars => AnswerInv'
  <2> SUFFICES ASSUME TypeInv, AnswerInv, [Next]_vars PROVE AnswerInv'
    OBVIOUS
  <2>1. CASE UNCHANGED askVars
    BY <2>1 DEF AnswerInv, UsageIsFinal, CitationsResolve, askVars
  <2>2. CASE Ask \/ RankVector \/ RankLexical \/ Raise
    BY <2>2 DEF Ask, RankVector, RankLexical, Raise, AnswerInv, UsageIsFinal, CitationsResolve
  <2>3. CASE Load
    <3>1. provider = "none" /\ answer = <<>> /\ usage = 0 /\ Len(answer) = 0
      BY <2>3 DEF Load, AnswerInv
    <3>2. hits' \in Seq(Hit)
      BY <2>3, LoadFinds DEF Loads
    <3>3. provider' # "none" => shown' = Numbered(hits') /\ stage' = "stream"
      BY <2>3, <3>1 DEF Load
    <3>4. /\ Len(Numbered(hits')) = Len(hits')
          /\ \A i \in 1 .. Len(hits') : Numbered(hits')[i] = hits'[i]
      BY <3>2 DEF Numbered
    <3>5. answer' = answer /\ usage' = usage
      BY <2>3 DEF Load
    <3>6. stage' \in {"stream", "done"} /\ (stage' = "stream" => provider' # "none")
      BY <2>3 DEF Load, Provider
    <3> QED
      BY <3>1, <3>3, <3>4, <3>5, <3>6 DEF AnswerInv, UsageIsFinal, CitationsResolve
  <2>4. CASE StubAnswer
    <3>1. /\ provider = "before" /\ provider' = provider /\ stage' = "cite"
          /\ usage' = Len(answer') /\ UNCHANGED <<hits, shown>>
      BY <2>4 DEF StubAnswer
    <3> QED
      BY <3>1 DEF AnswerInv, UsageIsFinal, CitationsResolve
  <2>5. CASE Token
    <3>1. answer \in Seq(Nat) /\ Len(shown) \in Nat
      BY DEF TypeInv, TypeOK
    <3>2. PICK m \in Nat : answer' = Append(answer, m)
      BY <2>5, <3>1 DEF Token
    <3>3. Len(answer') = Len(answer) + 1
      BY <3>1, <3>2
    <3> QED
      BY <2>5, <3>3 DEF Token, Overwritten, AnswerInv, UsageIsFinal, CitationsResolve
  <2>6. CASE EndStream
    <3>1. /\ provider # "before" /\ provider' = provider /\ stage' = "cite"
          /\ usage' = (IF provider = "end" THEN Len(answer) ELSE usage)
          /\ stage = "stream" /\ UNCHANGED <<hits, shown, answer>>
      BY <2>6 DEF EndStream
    <3>2. provider # "none" /\ (provider = "running" => usage = Len(answer))
      BY <3>1 DEF AnswerInv
    <3>3. usage' = Len(answer')
      BY <3>1, <3>2 DEF TypeInv, TypeOK, Provider
    <3> QED
      BY <3>1, <3>2, <3>3 DEF AnswerInv, UsageIsFinal, CitationsResolve
  <2>7. CASE Cite
    <3>1. provider # "none" /\ usage = Len(answer)
      BY <2>7 DEF Cite, AnswerInv, UsageIsFinal
    <3>2. /\ \A i \in 1 .. Len(citations') :
                  /\ citations'[i].source = hits[citations'[i].marker]
                  /\ citations'[i].marker \in Markers
          /\ \A i, j \in 1 .. Len(citations') :
                  i < j => citations'[i].marker < citations'[j].marker
          /\ \A m \in Markers : \E i \in 1 .. Len(citations') : citations'[i].marker = m
      BY <2>7, CiteResolves DEF TypeInv
    <3>3. Len(shown) = Len(hits) /\ \A i \in 1 .. Len(hits) : shown[i] = hits[i]
      BY <3>1 DEF AnswerInv
    <3>4. UNCHANGED <<provider, hits, shown, answer, usage>> /\ stage' = "done"
      BY <2>7 DEF Cite
    <3>5. {citations'[i].marker : i \in 1 .. Len(citations')}
             = {m \in Elements(answer) : m \in 1 .. Len(shown)}
      BY <3>2, <3>3 DEF Markers
    <3>6. \A i \in 1 .. Len(citations') : citations'[i].source = shown[citations'[i].marker]
      BY <3>2, <3>3 DEF Markers
    <3>7. CitationsResolve'
      BY <3>2, <3>4, <3>5, <3>6 DEF CitationsResolve
    <3> QED
      BY <3>1, <3>3, <3>4, <3>7 DEF AnswerInv, UsageIsFinal
  <2>8. ASSUME NEW d \in Docs, Ingest(d) \/ Rename(d) \/ Delete(d) PROVE UNCHANGED askVars
    BY <2>8, DocumentStep
  <2>9. UNCHANGED vars => UNCHANGED askVars
    BY DEF vars, askVars
  <2> QED
    BY <2>1, <2>2, <2>3, <2>4, <2>5, <2>6, <2>7, <2>8, <2>9 DEF Next
<1> QED
  BY <1>1, <1>2, TypeInductive, PTL DEF Spec

\* What the reader sees under a marker is what the model was shown under it.
THEOREM MarkersResolve == Spec => []CitationsResolve
<1>1. AnswerInv => CitationsResolve
  BY DEF AnswerInv
<1> QED
  BY <1>1, AnswerInductive, PTL

\* An answer is charged by all its tokens, whenever its provider counts them.
THEOREM CountsAreFinal == Spec => []UsageIsFinal
<1>1. AnswerInv => UsageIsFinal
  BY DEF AnswerInv
<1> QED
  BY <1>1, AnswerInductive, PTL

-----------------------------------------------------------------------------
(* The ranks                                                               *)

\* What the arms found is all there is to being better.
LEMMA BetterStays ==
    ASSUME UNCHANGED <<vec, lex>>, NEW a, NEW b
    PROVE  Better(a, b)' <=> Better(a, b)
<1>1. Arms(a)' = Arms(a) /\ Arms(b)' = Arms(b)
  BY DEF Arms
<1> QED
  BY <1>1 DEF Better

\* Nor is there more to the best first.
LEMMA BestStays ==
    ASSUME BestFirst, UNCHANGED <<vec, lex, hits>>, moved \subseteq moved'
    PROVE  BestFirst'
<1>1. \A a, b : Better(a, b)' <=> Better(a, b)
  BY BetterStays
<1> QED
  BY <1>1 DEF BestFirst

\* Without hits no order can be wrong.
LEMMA NoHitsNoOrder ==
    ASSUME hits' = <<>>
    PROVE  BestFirst'
<1>1. Len(hits') = 0
  OBVIOUS
<1> QED
  BY <1>1 DEF BestFirst

\* The load keeps what is better ahead.
LEMMA LoadKeepsOrder ==
    ASSUME TypeInv, RankInv, Load
    PROVE  BestFirst'
<1>1. PICK ids, q : ids = Best(vec, lex) /\ Loads(hits', ids, q)
  BY LoadFinds
<1>2. vec \in Seq(Chunk) /\ lex \in Seq(Chunk) /\ UNCHANGED <<vec, lex, moved>>
  BY DEF TypeInv, TypeOK, Load, dbVars
<1> DEFINE S == Found(vec, lex)
           R == ByScore(vec, lex)
           f == Fused(vec, lex)
<1>3. PICK n \in Nat : n = Cardinality(S)
  BY <1>2, BestIsPrefix
<1>4. /\ \A x \in S : \E p \in 1 .. n : f[p] = x
      /\ \A i, j \in 1 .. n : i < j => <<f[i], f[j]>> \in R
      /\ f \in [1 .. n -> S]
  <2>1. Sorted(f, S, R)
    BY <1>2, ScoresOrder, InOrderSorts DEF Fused
  <2> QED
    BY <1>3, <2>1 DEF Sorted
<1>5. /\ Len(ids) \in Nat /\ Len(ids) <= n
      /\ \A i \in 1 .. Len(ids) : ids[i] = f[i]
  BY <1>1, <1>2, <1>3, BestIsPrefix DEF AnswersAssumption
<1> HIDE DEF S, R, f
<1>6. ASSUME NEW j \in 1 .. Len(hits'), NEW a \in S, Better(a, hits'[j].chunk), a.doc \notin moved
      PROVE  \E i \in 1 .. j - 1 : hits'[i].chunk = a
  <2>1. /\ Len(hits') \in Nat
        /\ \A i \in 1 .. Len(hits') : q[i] \in 1 .. Len(ids) /\ hits'[i].chunk = ids[q[i]]
    <3>1. hits' \in Seq(Hit)
      BY <1>1 DEF Loads
    <3>2. ASSUME NEW i \in 1 .. Len(hits')
          PROVE  q[i] \in 1 .. Len(ids) /\ hits'[i].chunk = ids[q[i]]
      <4>1. q[i] \in 1 .. Len(ids) /\ hits'[i] = HitOf(ids[q[i]])
        BY <1>1, Zenon DEF Loads
      <4>2. HitOf(ids[q[i]]).chunk = ids[q[i]]
        BY DEF HitOf
      <4> QED
        BY <4>1, <4>2
    <3> QED
      BY <3>1, <3>2
  <2>2. PICK r \in 1 .. Len(ids) : r = q[j]
    BY <2>1
  <2>a. PICK b : b = ids[r] /\ b = hits'[j].chunk /\ b = f[r]
    BY <1>5, <2>1, <2>2
  <2>3. r \in 1 .. n /\ b \in S
    BY <1>4, <1>5, <2>2, <2>a
  <2>4. Exceeds(Score(vec, lex, a), Score(vec, lex, b))
    BY <1>6, <2>2, <2>a, <2>3, BetterScoresMore DEF S, TypeInv, RankInv
  <2>5. PICK p \in 1 .. n : f[p] = a
    BY <1>4
  <2>6. ~Exceeds(Score(vec, lex, b), Score(vec, lex, a)) /\ a # b
    BY <1>2, <2>4, ScoreIsFraction, FractionsCompare
  <2>7. <<b, a>> \notin R
    BY <2>4, <2>6 DEF R, ByScore
  <2>8. p < r
    <3>1. p # r
      BY <2>5, <2>6, <2>2, <2>a
    <3>2. ~(r < p)
      BY <1>4, <2>2, <2>a, <2>3, <2>5, <2>7
    <3>3. p \in Int /\ r \in Int
      OBVIOUS
    <3> QED
      BY <3>1, <3>2, <3>3
  <2>9. p \in 1 .. Len(ids) /\ ids[p] = a
    BY <1>5, <2>2, <2>a, <2>5, <2>8
  <2>10. a \in Current
    BY <1>6 DEF RankInv, Load, S
  <2>11. PICK i \in 1 .. Len(hits') : q[i] = p
    BY <1>1, <2>9, <2>10 DEF Loads
  <2>12. i < j
    <3>1. i = j => p = r
      BY <2>2, <2>a, <2>11
    <3>2. j < i => r < p
      BY <1>1, <2>2, <2>a, <2>11 DEF Loads
    <3> QED
      BY <2>1, <2>8, <3>1, <3>2
  <2>13. i \in 1 .. j - 1 /\ hits'[i].chunk = a
    BY <2>1, <2>9, <2>11, <2>12
  <2> QED
    BY <2>13
<1>7. ASSUME NEW a, NEW b PROVE Better(a, b)' <=> Better(a, b)
  BY <1>2, BetterStays
<1> QED
  BY <1>2, <1>6, <1>7 DEF BestFirst, S, Found

\* What a rank statement may return is a ranking.
LEMMA RankingsRank ==
    ASSUME TypeOK, NEW s \in Rankings
    PROVE  IsRanking(s) /\ s \in Seq(Chunk) /\ Elements(s) \subseteq Current
<1>1. PICK n \in 0 .. CandidateK :
          s \in [1 .. n -> Current] /\ \A i, j \in 1 .. n : i # j => s[i] # s[j]
  BY DEF Rankings
<1>2. Len(s) = n /\ n <= CandidateK
  BY <1>1 DEF AnswersAssumption
<1>3. Current \subseteq Chunk
  BY DEF Current
<1>4. s \in Seq(Chunk)
  BY <1>1, <1>3
<1> QED
  BY <1>1, <1>2, <1>4 DEF IsRanking, Elements

\* The invariant of the ranks.
LEMMA RankInductive == Spec => []RankInv
<1> DEFINE There == stage \in {"lexical", "load"} =>
                        \A c \in Found(vec, lex) : c \in Current \/ c.doc \in moved
<1>1. Init => RankInv
  <2> SUFFICES ASSUME Init PROVE RankInv
    OBVIOUS
  <2>1. Len(<<>>) = 0
    OBVIOUS
  <2> QED
    BY <2>1 DEF Init, RankInv, IsRanking, BestFirst, AnswersAssumption
<1>2. TypeInv /\ RankInv /\ [Next]_vars => RankInv'
  <2> SUFFICES ASSUME TypeInv, RankInv, [Next]_vars PROVE RankInv'
    OBVIOUS
  <2>0. TypeOK
    BY DEF TypeInv
  <2>1. ASSUME NEW d \in Docs, Ingest(d) \/ Rename(d) \/ Delete(d) PROVE RankInv'
    <3>1. /\ UNCHANGED <<stage, mode, vec, lex, hits>> /\ moved \subseteq moved'
          /\ stage = "load" \/ (stage = "lexical" /\ mode = "hybrid") =>
                 \A c \in Current : c \in Current' \/ c.doc \in moved'
      BY <2>1, DocumentStep DEF askVars
    <3>2. There'
      <4>1. stage = "lexical" /\ mode # "hybrid" => Found(vec, lex) = {}
        <5>1. Len(<<>>) = 0
          OBVIOUS
        <5> QED
          BY <5>1 DEF RankInv, Found, Elements
      <4> QED
        BY <3>1, <4>1 DEF RankInv, Found
    <3>3. BestFirst'
      BY <3>1, BestStays DEF RankInv
    <3> QED
      BY <3>1, <3>2, <3>3 DEF RankInv
  <2>2. CASE UNCHANGED vars
    <3>1. UNCHANGED <<stage, mode, indexed, moved, vec, lex, hits>>
      BY <2>2 DEF vars
    <3>2. BestFirst'
      BY <3>1, BestStays DEF RankInv
    <3> QED
      BY <3>1, <3>2 DEF RankInv, Current, Found
  <2>3. CASE Ask
    <3>1. /\ stage' \in {"vector", "lexical"} /\ (stage' = "vector" => mode # "lexical")
          /\ vec = <<>> /\ lex = <<>> /\ UNCHANGED <<vec, lex, mode, hits, moved>>
      BY <2>3 DEF Ask, RankInv, dbVars
    <3>2. Found(vec', lex') = {}
      <4>1. Len(<<>>) = 0
        OBVIOUS
      <4> QED
        BY <3>1, <4>1 DEF Found, Elements
    <3>3. BestFirst'
      BY <3>1, BestStays DEF RankInv
    <3> QED
      BY <3>1, <3>2, <3>3 DEF RankInv
  <2>4. CASE RankVector
    <3>1. /\ vec' \in Rankings /\ lex = <<>> /\ UNCHANGED <<lex, mode, hits, moved, indexed>>
          /\ stage' \in {"load", "lexical"} /\ (stage' = "lexical" => mode = "hybrid")
          /\ hits = <<>>
      BY <2>0, <2>4 DEF RankVector, RankInv, dbVars, TypeOK, Mode, TypeInv, NoHitsYet
    <3>2. IsRanking(vec') /\ Elements(vec') \subseteq Current
      BY <2>0, <3>1, RankingsRank
    <3>3. Len(<<>>) = 0
      OBVIOUS
    <3>4. There'
      BY <3>1, <3>2, <3>3 DEF Found, Elements, Current
    <3>5. BestFirst'
      BY <3>1, NoHitsNoOrder
    <3> QED
      BY <3>1, <3>2, <3>4, <3>5 DEF RankInv
  <2>5. CASE RankLexical
    <3>1. /\ lex' \in Rankings /\ UNCHANGED <<vec, mode, hits, moved, indexed>>
          /\ stage = "lexical" /\ stage' = "load" /\ hits = <<>>
      BY <2>5 DEF RankLexical, dbVars, TypeInv, NoHitsYet
    <3>2. IsRanking(lex') /\ Elements(lex') \subseteq Current
      BY <2>0, <3>1, RankingsRank
    <3>3. Len(<<>>) = 0
      OBVIOUS
    <3>4. \A c \in Elements(vec) : c \in Current \/ c.doc \in moved
      BY <3>1 DEF RankInv, Found
    <3>5. There'
      BY <3>1, <3>2, <3>4 DEF Found, Current
    <3>6. BestFirst'
      BY <3>1, NoHitsNoOrder
    <3> QED
      BY <3>1, <3>2, <3>5, <3>6 DEF RankInv
  <2>6. CASE Load
    <3>1. UNCHANGED <<vec, lex>> /\ stage' \in {"stream", "done"}
      BY <2>6 DEF Load
    <3>2. BestFirst'
      BY <2>6, LoadKeepsOrder
    <3> QED
      BY <3>1, <3>2 DEF RankInv
  <2>7. CASE StubAnswer \/ Token \/ EndStream \/ Cite \/ Raise
    <3>1. /\ UNCHANGED <<vec, lex, hits, moved>>
          /\ stage' \in {"stream", "cite", "done", "failed"}
      BY <2>7 DEF StubAnswer, Token, EndStream, Cite, Raise, dbVars
    <3>2. BestFirst'
      BY <3>1, BestStays DEF RankInv
    <3> QED
      BY <3>1, <3>2 DEF RankInv
  <2> QED
    BY <2>1, <2>2, <2>3, <2>4, <2>5, <2>6, <2>7 DEF Next
<1> QED
  BY <1>1, <1>2, TypeInductive, PTL DEF Spec

\* No hit comes behind a worse one, and none is missing that is better than a
\* hit, unless its document changed since it was ranked.
THEOREM FusionHonoursRanks == Spec => []BestFirst
<1>1. RankInv => BestFirst
  BY DEF RankInv
<1> QED
  BY <1>1, RankInductive, PTL

-----------------------------------------------------------------------------
(* The way of an answer                                                    *)

\* The same of three reads, as AnswerPath has it.
LEMMA ThreeReads == FramesOverReads
<1> SUFFICES ASSUME NEW events \in Streams, NEW w, w = Wire(events, Len(events)),
                    NEW last \in 0 .. Len(w), NEW i \in 0 .. last, NEW j \in i .. last
             PROVE  Received(<<SubSeq(w, 1, i), SubSeq(w, i + 1, j), SubSeq(w, j + 1, last)>>)
                        = Whole(events, last)
  BY DEF FramesOverReads
<1>1. events \in Seq(Event(Symbols))
  BY AnswerPathAssumption
<1>2. Len(w) \in Nat
  BY <1>1, WireSteps
<1> DEFINE reads == <<SubSeq(w, 1, i), SubSeq(w, i + 1, j), SubSeq(w, j + 1, last)>>
           cut == [n \in 0 .. 3 |-> IF n = 0 THEN 0 ELSE IF n = 1 THEN i
                                     ELSE IF n = 2 THEN j ELSE last]
<1>3. /\ Len(reads) = 3 /\ 3 \in Nat
      /\ reads[1] = SubSeq(w, 1, i) /\ reads[2] = SubSeq(w, i + 1, j)
      /\ reads[3] = SubSeq(w, j + 1, last)
  OBVIOUS
<1>4. cut[0] = 0 /\ cut[1] = i /\ cut[2] = j /\ cut[3] = last
  OBVIOUS
<1>5. \A n \in 0 .. 3 : n = 0 \/ n = 1 \/ n = 2 \/ n = 3
  OBVIOUS
<1>6. /\ i \in 0 .. Len(w) /\ j \in 0 .. Len(w) /\ last \in 0 .. Len(w) /\ 0 \in 0 .. Len(w)
      /\ 0 <= i /\ i <= j /\ j <= last
  BY <1>2
<1> HIDE DEF reads, cut
<1>7. \A n \in 0 .. 3 : cut[n] \in 0 .. Len(w)
  BY <1>4, <1>5, <1>6
<1>8. ASSUME NEW n \in 1 .. 3
      PROVE  cut[n - 1] <= cut[n] /\ reads[n] = SubSeq(w, cut[n - 1] + 1, cut[n])
  <2>1. (n = 1 /\ n - 1 = 0) \/ (n = 2 /\ n - 1 = 1) \/ (n = 3 /\ n - 1 = 2)
    OBVIOUS
  <2>2. CASE n = 1 /\ n - 1 = 0
    <3>1. 0 + 1 = 1
      OBVIOUS
    <3> QED
      BY <1>3, <1>4, <1>6, <2>2, <3>1
  <2>3. CASE n = 2 /\ n - 1 = 1
    BY <1>3, <1>4, <1>6, <2>3
  <2>4. CASE n = 3 /\ n - 1 = 2
    BY <1>3, <1>4, <1>6, <2>4
  <2> QED
    BY <2>1, <2>2, <2>3, <2>4
<1>9. Delivers(reads, w, last)
  BY <1>3, <1>4, <1>7, <1>8 DEF Delivers
<1>10. Received(reads) = Whole(events, last)
  BY <1>1, <1>9, StreamSurvivesReads
<1> QED
  BY <1>10 DEF reads

\* FramesSurviveReads holds of every answer.
THEOREM ReadsLoseNoFrame == Spec => []FramesSurviveReads
<1>1. FramesSurviveReads
  BY ThreeReads DEF FramesSurviveReads
<1> QED
  BY <1>1, PTL

\* Every text's chunks are windows, as AnswerPath has it.
LEMMA WindowsHold == Windows
<1> SUFFICES ASSUME NEW text \in Texts, NEW size \in Sizes, NEW overlap \in 0 .. size - 1,
                    NEW windows, windows = ChunkText(text, size, overlap)
             PROVE  IF text = <<>>
                      THEN windows = <<>>
                      ELSE Cover(text, overlap, windows) /\ Bounded(text, size, windows)
  BY DEF Windows
<1>1. IsText(text) /\ size \in Nat /\ overlap \in Nat
  BY AnswerPathAssumption
<1>2. CASE text = <<>>
  BY <1>2 DEF ChunkText, Close, Start
<1>3. CASE text # <<>>
  BY <1>1, <1>3, ChunksCoverText
<1> QED
  BY <1>2, <1>3

\* ChunksAreWindows holds of every text.
THEOREM TextsAreCovered == Spec => []ChunksAreWindows
<1>1. ChunksAreWindows
  BY WindowsHold DEF ChunksAreWindows
<1> QED
  BY <1>1, PTL
=============================================================================
