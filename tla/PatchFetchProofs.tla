-------------------------- MODULE PatchFetchProofs ---------------------------
(***************************************************************************)
(* What holds of a fetch for pull requests of any length, pages of any     *)
(* size, any clock and any number of pushes.                               *)
(***************************************************************************)
EXTENDS PatchFetch, SequenceTheorems, FiniteSetTheorems,
        WellFoundedInduction, TLAPS

----------------------------------------------------------------------------
(* Induction, from the fact that finite sets are well-founded. *)

\* A set of numbers that is not empty has a least one.
LEMMA LeastNumber ==
    ASSUME NEW T \in SUBSET Nat, T # {}
    PROVE  \E n \in T : \A m \in T : n <= m
<1> DEFINE R == StrictSubsetOrdering(Nat)
           U == {0 .. n : n \in T}
<1>1. IsWellFoundedOn(R, FiniteSubsetsOf(Nat))
  BY FS_StrictSubsetOrderingWellFounded
<1>2. U \subseteq FiniteSubsetsOf(Nat)
  <2>1. ASSUME NEW n \in Nat
        PROVE  0 .. n \in SUBSET Nat /\ IsFiniteSet(0 .. n)
    BY FS_Interval
  <2> QED BY <2>1 DEF FiniteSubsetsOf
<1>3. U # {}
  OBVIOUS
<1> HIDE DEF R, U
<1>4. PICK x \in U : \A y \in U : ~(<<y, x>> \in R)
  BY <1>1, <1>2, <1>3, WFMin
<1>5. PICK n \in T : x = 0 .. n
  BY <1>4 DEF U
<1>6. ASSUME NEW m \in T, m < n
      PROVE  FALSE
  <2>1. 0 .. m \in U
    BY DEF U
  <2>2. n \in 0 .. n /\ n \notin 0 .. m
    BY <1>6
  <2>3. 0 .. m \subseteq 0 .. n /\ 0 .. n \subseteq Nat
    BY <1>6
  <2>4. <<0 .. m, 0 .. n>> \in R
    BY <2>2, <2>3 DEF R, StrictSubsetOrdering
  <2> QED BY <1>4, <1>5, <2>1, <2>4
<1> QED BY <1>6

\* A set with 0 and the successors of its numbers has all numbers.
LEMMA UpTo ==
    ASSUME NEW m \in Nat, NEW S, 0 \in S, \A n \in 1 .. m : n - 1 \in S => n \in S
    PROVE  0 .. m \subseteq S
<1> SUFFICES ASSUME ~(0 .. m \subseteq S)
             PROVE  FALSE
  OBVIOUS
<1> DEFINE T == {n \in 0 .. m : n \notin S}
<1>1. T \in SUBSET Nat /\ T # {}
  OBVIOUS
<1>2. PICK n \in T : \A k \in T : n <= k
  BY <1>1, LeastNumber
<1>3. n \in 1 .. m /\ n - 1 \in 0 .. m
  BY <1>2
<1>4. n - 1 \notin T
  BY <1>2, <1>3
<1> QED BY <1>2, <1>3, <1>4

----------------------------------------------------------------------------
(* The inductive invariant. *)

\* A request is on its way for no longer than Delay, and the token it carries
\* is good for longer than that.
OnTheWay ==
    at = "sent" =>
        /\ clock <= sent.since + Delay
        /\ sent.token # None /\ sent.token.dated =>
              sent.since + Delay < sent.token.expires

\* The files on the pages before page n.
Read(n) == (n - 1) * PageSize

\* While nothing is pushed, what was read are the pages before this one.
QuietInv ==
    removals + additions = 0 =>
        /\ at \in {"page", "sent"} =>
              /\ Read(page) <= Len(content)
              /\ files = SubSeq(content, 1, Read(page))
        /\ at = "done" => result = Patches(content)

\* While pages are fetched: the files that stay and were passed over unread,
\* those that were read twice, and those that will be.
Passed == {content[i] : i \in {k \in DOMAIN content : k <= Read(page)}}
Ahead == {content[i] : i \in {k \in DOMAIN content : k > Read(page)}}
Repeated(f) == \E i, j \in DOMAIN files : i # j /\ files[i] = f /\ files[j] = f

Missed == (stayed \cap Passed) \ Range(files)
Again == {f \in stayed : Repeated(f)}
Due == (stayed \cap Ahead) \cap Range(files)

\* A push moves one file at most across the end of what was read.
SlipInv ==
    /\ \A i, j \in DOMAIN content : content[i] = content[j] => i = j
    /\ stayed \subseteq Range(content)
    /\ at \in {"page", "sent"} =>
          /\ Cardinality(Missed) <= removals
          /\ Cardinality(Again \cup Due) <= additions
    /\ at = "done" => Cardinality(stayed \ Range(files)) <= removals
    /\ Cardinality(Again) <= additions

IInv == TypeOK /\ OnTheWay /\ QuietInv /\ SlipInv

----------------------------------------------------------------------------
(* Lemmas on sequences. *)

\* A push keeps a list of files a list of files.
LEMMA PushType ==
    ASSUME NEW s \in Seq(Files), NEW f \in Files
    PROVE  /\ \A i \in DOMAIN s : RemoveAt(s, i) \in Seq(Files)
           /\ \A i \in 1 .. Len(s) + 1 : InsertAt(s, i, f) \in Seq(Files)
<1>1. \A i \in 1 .. Len(s) + 1 : SubSeq(s, 1, i - 1) \in Seq(Files)
  <2> TAKE i \in 1 .. Len(s) + 1
  <2>1. \A k \in 1 .. i - 1 : s[k] \in Files
    OBVIOUS
  <2> QED BY <2>1, SubSeqProperties
<1>2. \A i \in 1 .. Len(s) + 1 : SubSeq(s, i, Len(s)) \in Seq(Files)
  <2> TAKE i \in 1 .. Len(s) + 1
  <2>1. \A k \in i .. Len(s) : s[k] \in Files
    OBVIOUS
  <2> QED BY <2>1, SubSeqProperties
<1>3. ASSUME NEW i \in DOMAIN s PROVE RemoveAt(s, i) \in Seq(Files)
  <2>1. i \in 1 .. Len(s) + 1 /\ i + 1 \in 1 .. Len(s) + 1
    OBVIOUS
  <2>2. SubSeq(s, 1, i - 1) \in Seq(Files) /\ SubSeq(s, i + 1, Len(s)) \in Seq(Files)
    BY <1>1, <1>2, <2>1
  <2> QED BY <2>2, ConcatProperties DEF RemoveAt
<1>4. ASSUME NEW i \in 1 .. Len(s) + 1 PROVE InsertAt(s, i, f) \in Seq(Files)
  <2>1. SubSeq(s, 1, i - 1) \in Seq(Files) /\ SubSeq(s, i, Len(s)) \in Seq(Files)
    BY <1>1, <1>2
  <2>2. <<f>> \in Seq(Files)
    OBVIOUS
  <2>3. SubSeq(s, 1, i - 1) \o <<f>> \in Seq(Files)
    BY <2>1, <2>2, ConcatProperties
  <2> QED BY <2>1, <2>3, ConcatProperties DEF InsertAt
<1> QED BY <1>3, <1>4

\* A page is a part of the list, at most PageSize long; after a full page the
\* pages read are one more, after a short one they are the list.
LEMMA PageProperties ==
    ASSUME content \in Seq(Files), NEW n \in Nat \ {0}
    PROVE  /\ Page(n) \in Seq(Files)
           /\ Read(n) \in Nat
           /\ Read(n) <= Len(content) =>
                /\ Len(Page(n)) < PageSize =>
                     SubSeq(content, 1, Read(n)) \o Page(n) = content
                /\ ~(Len(Page(n)) < PageSize) =>
                     /\ SubSeq(content, 1, Read(n)) \o Page(n)
                          = SubSeq(content, 1, Read(n + 1))
                     /\ Read(n + 1) <= Len(content)
<1> DEFINE first == Read(n)
           last == IF n * PageSize < Len(content) THEN n * PageSize ELSE Len(content)
<1>1. /\ PageSize \in Nat /\ PageSize > 0
      /\ n * PageSize \in Nat
      /\ first \in Nat
      /\ first + PageSize = n * PageSize
      /\ Read(n + 1) = n * PageSize
  BY PageAssumption DEF Read
<1>2. last \in Nat /\ last <= Len(content) /\ last <= n * PageSize
  BY <1>1
<1>3. Page(n) = SubSeq(content, first + 1, last)
  BY DEF Page, Read
<1> HIDE DEF first
<1>4. \A i \in first + 1 .. last : content[i] \in Files
  BY <1>1, <1>2
<1>5. /\ Page(n) \in Seq(Files)
      /\ Len(Page(n)) = IF first + 1 <= last THEN last - (first + 1) + 1 ELSE 0
  BY <1>1, <1>2, <1>3, <1>4, SubSeqProperties
<1>6. ASSUME first <= Len(content)
      PROVE  /\ SubSeq(content, 1, first) \o Page(n) = SubSeq(content, 1, last)
             /\ Len(Page(n)) < PageSize => last = Len(content)
             /\ ~(Len(Page(n)) < PageSize) => last = n * PageSize
  <2>1. first <= last
    BY <1>1, <1>6
  <2>2. /\ 1 \in 1 .. Len(content) + 1
        /\ first \in 1 - 1 .. Len(content)
        /\ last \in first .. Len(content)
    BY <1>1, <1>2, <1>6, <2>1
  <2>3. SubSeq(content, 1, first) \o Page(n) = SubSeq(content, 1, last)
    <3>1. SubSeq(content, 1, first) \o SubSeq(content, first + 1, last)
            = SubSeq(content, 1, last)
      <4> HIDE DEF last
      <4> QED BY <2>2, ConcatAdjacentSubSeq
    <3> QED BY <1>3, <3>1
  <2>4. Len(Page(n)) = last - first
    BY <1>1, <1>2, <1>5, <2>1
  <2>5. Len(Page(n)) < PageSize => last = Len(content)
    BY <1>1, <1>2, <2>4
  <2>6. ~(Len(Page(n)) < PageSize) => last = n * PageSize
    BY <1>1, <1>2, <2>4
  <2> QED BY <2>3, <2>5, <2>6
<1>7. SubSeq(content, 1, Len(content)) = content
  BY SubSeqFull
<1> HIDE DEF last
<1> QED BY <1>1, <1>2, <1>5, <1>6, <1>7 DEF first

\* What a push does to the positions of the files.
LEMMA PushPositions ==
    ASSUME NEW s \in Seq(Files), NEW f \in Files
    PROVE  /\ \A i \in DOMAIN s :
                 /\ DOMAIN RemoveAt(s, i) = 1 .. Len(s) - 1
                 /\ \A k \in 1 .. Len(s) - 1 :
                       RemoveAt(s, i)[k] = IF k < i THEN s[k] ELSE s[k + 1]
           /\ \A i \in 1 .. Len(s) + 1 :
                 /\ DOMAIN InsertAt(s, i, f) = 1 .. Len(s) + 1
                 /\ \A k \in 1 .. Len(s) + 1 :
                       InsertAt(s, i, f)[k] = IF k < i THEN s[k]
                                              ELSE IF k = i THEN f ELSE s[k - 1]
<1>1. ASSUME NEW i \in 1 .. Len(s) + 1
      PROVE  /\ SubSeq(s, 1, i - 1) \in Seq(Files)
             /\ Len(SubSeq(s, 1, i - 1)) = i - 1
             /\ \A k \in 1 .. i - 1 : SubSeq(s, 1, i - 1)[k] = s[k]
             /\ SubSeq(s, i, Len(s)) \in Seq(Files)
             /\ Len(SubSeq(s, i, Len(s))) = Len(s) - i + 1
             /\ \A k \in 1 .. Len(s) - i + 1 : SubSeq(s, i, Len(s))[k] = s[i + k - 1]
  <2>1. /\ \A k \in 1 .. i - 1 : s[k] \in Files
        /\ \A k \in i .. Len(s) : s[k] \in Files
    OBVIOUS
  <2> QED BY <2>1, SubSeqProperties
<1>2. ASSUME NEW i \in DOMAIN s
      PROVE  /\ DOMAIN RemoveAt(s, i) = 1 .. Len(s) - 1
             /\ \A k \in 1 .. Len(s) - 1 :
                   RemoveAt(s, i)[k] = IF k < i THEN s[k] ELSE s[k + 1]
  <2> DEFINE a == SubSeq(s, 1, i - 1)
             b == SubSeq(s, i + 1, Len(s))
  <2>1. i \in 1 .. Len(s) + 1 /\ i + 1 \in 1 .. Len(s) + 1 /\ Len(s) \in Nat
    OBVIOUS
  <2>2. /\ a \in Seq(Files) /\ Len(a) = i - 1
        /\ \A k \in 1 .. i - 1 : a[k] = s[k]
    BY <1>1, <2>1
  <2>3. /\ b \in Seq(Files) /\ Len(b) = Len(s) - (i + 1) + 1
        /\ \A k \in 1 .. Len(s) - (i + 1) + 1 : b[k] = s[i + 1 + k - 1]
    BY <1>1, <2>1
  <2>4. RemoveAt(s, i) = a \o b
    BY DEF RemoveAt
  <2> HIDE DEF a, b
  <2>5. /\ Len(a \o b) = Len(s) - 1
        /\ DOMAIN (a \o b) = 1 .. Len(s) - 1
        /\ \A k \in 1 .. Len(s) - 1 : (a \o b)[k] = IF k <= i - 1 THEN a[k] ELSE b[k - (i - 1)]
    <3>1. Len(a) + Len(b) = Len(s) - 1
      <4>1. Len(a) = i - 1 /\ Len(b) = Len(s) - (i + 1) + 1
        BY <2>2, <2>3
      <4>2. i \in Int /\ Len(s) \in Int
        BY <2>1
      <4>3. (i - 1) + (Len(s) - (i + 1) + 1) = Len(s) - 1
        BY <4>2
      <4> QED BY <4>1, <4>3
    <3>2. /\ Len(a \o b) = Len(a) + Len(b)
          /\ a \o b \in Seq(Files)
          /\ \A k \in 1 .. Len(a) + Len(b) :
                (a \o b)[k] = IF k <= Len(a) THEN a[k] ELSE b[k - Len(a)]
      BY <2>2, <2>3, ConcatProperties
    <3>3. DOMAIN (a \o b) = 1 .. Len(s) - 1
      BY <3>1, <3>2
    <3> QED BY <2>2, <3>1, <3>2, <3>3
  <2>6. ASSUME NEW k \in 1 .. Len(s) - 1
        PROVE  (a \o b)[k] = IF k < i THEN s[k] ELSE s[k + 1]
    <3>1. CASE k < i
      BY <2>1, <2>2, <2>5, <3>1
    <3>2. CASE ~(k < i)
      <4>1. k - (i - 1) \in 1 .. Len(s) - (i + 1) + 1 /\ ~(k <= i - 1)
        BY <2>1, <3>2
      <4>2. b[k - (i - 1)] = s[i + 1 + (k - (i - 1)) - 1]
        BY <2>3, <4>1
      <4>3. i + 1 + (k - (i - 1)) - 1 = k + 1
        BY <2>1
      <4> QED BY <2>5, <3>2, <4>1, <4>2, <4>3
    <3> QED BY <3>1, <3>2
  <2> QED BY <2>4, <2>5, <2>6
<1>3. ASSUME NEW i \in 1 .. Len(s) + 1
      PROVE  /\ DOMAIN InsertAt(s, i, f) = 1 .. Len(s) + 1
             /\ \A k \in 1 .. Len(s) + 1 :
                   InsertAt(s, i, f)[k] = IF k < i THEN s[k]
                                          ELSE IF k = i THEN f ELSE s[k - 1]
  <2> DEFINE a == SubSeq(s, 1, i - 1)
             b == SubSeq(s, i, Len(s))
             c == a \o <<f>>
  <2>1. /\ a \in Seq(Files) /\ Len(a) = i - 1
        /\ \A k \in 1 .. i - 1 : a[k] = s[k]
    BY <1>1
  <2>2. /\ b \in Seq(Files) /\ Len(b) = Len(s) - i + 1
        /\ \A k \in 1 .. Len(s) - i + 1 : b[k] = s[i + k - 1]
    BY <1>1
  <2>3. InsertAt(s, i, f) = c \o b
    BY DEF InsertAt
  <2>4. <<f>> \in Seq(Files) /\ Len(<<f>>) = 1 /\ <<f>>[1] = f /\ Len(s) \in Nat
    OBVIOUS
  <2> HIDE DEF a, b
  <2>5. /\ c \in Seq(Files) /\ Len(c) = i
        /\ \A k \in 1 .. i : c[k] = IF k <= i - 1 THEN a[k] ELSE <<f>>[k - (i - 1)]
    BY <2>1, <2>4, ConcatProperties
  <2>6. \A k \in 1 .. i : c[k] = IF k < i THEN s[k] ELSE f
    <3> TAKE k \in 1 .. i
    <3>1. CASE k < i
      BY <2>1, <2>5, <3>1
    <3>2. CASE k = i
      <4>1. k - (i - 1) = 1 /\ ~(k <= i - 1)
        BY <3>2
      <4> QED BY <2>4, <2>5, <3>2, <4>1
    <3>3. k < i \/ k = i
      BY <2>4
    <3> QED BY <3>1, <3>2, <3>3
  <2> HIDE DEF c
  <2>7. /\ DOMAIN (c \o b) = 1 .. Len(s) + 1
        /\ \A k \in 1 .. Len(s) + 1 : (c \o b)[k] = IF k <= i THEN c[k] ELSE b[k - i]
    <3>1. i + Len(b) = Len(s) + 1
      BY <2>2, <2>4
    <3>2. /\ Len(c \o b) = Len(s) + 1
          /\ c \o b \in Seq(Files)
          /\ \A k \in 1 .. Len(c) + Len(b) :
                (c \o b)[k] = IF k <= Len(c) THEN c[k] ELSE b[k - Len(c)]
      BY <2>2, <2>5, <3>1, ConcatProperties
    <3>3. DOMAIN (c \o b) = 1 .. Len(s) + 1
      BY <3>2
    <3> QED BY <2>5, <3>1, <3>2, <3>3
  <2>8. ASSUME NEW k \in 1 .. Len(s) + 1
        PROVE  (c \o b)[k] = IF k < i THEN s[k] ELSE IF k = i THEN f ELSE s[k - 1]
    <3>1. CASE k <= i
      BY <2>6, <2>7, <3>1
    <3>2. CASE ~(k <= i)
      <4>1. k - i \in 1 .. Len(s) - i + 1 /\ i + (k - i) - 1 = k - 1
        BY <2>4, <3>2
      <4>2. b[k - i] = s[k - 1]
        BY <2>2, <4>1
      <4> QED BY <2>7, <3>2, <4>2
    <3> QED BY <3>1, <3>2
  <2> QED BY <2>3, <2>7, <2>8
<1> QED BY <1>2, <1>3

\* What is on a page, when the list may have become shorter than what was read.
LEMMA PagePositions ==
    ASSUME content \in Seq(Files), NEW n \in Nat \ {0}
    PROVE  /\ Page(n) \in Seq(Files)
           /\ Read(n) \in Nat
           /\ Len(Page(n)) <= PageSize
           /\ Read(n + 1) = Read(n) + PageSize
           /\ \A k \in 1 .. Len(Page(n)) :
                 /\ Read(n) + k \in DOMAIN content
                 /\ Page(n)[k] = content[Read(n) + k]
           /\ \A i \in DOMAIN content :
                 i > Read(n) /\ (Len(Page(n)) < PageSize \/ i <= Read(n + 1)) =>
                    i - Read(n) \in 1 .. Len(Page(n))
<1> DEFINE first == Read(n)
           last == IF n * PageSize < Len(content) THEN n * PageSize ELSE Len(content)
<1>1. /\ PageSize \in Nat /\ PageSize > 0
      /\ n * PageSize \in Nat
      /\ first \in Nat
      /\ first + PageSize = n * PageSize
      /\ Read(n + 1) = n * PageSize
  BY PageAssumption DEF Read
<1>2. last \in Nat /\ last <= Len(content) /\ last <= n * PageSize
  BY <1>1
<1>3. Page(n) = SubSeq(content, first + 1, last)
  BY DEF Page, Read
<1> HIDE DEF first
<1>4. \A i \in first + 1 .. last : content[i] \in Files
  BY <1>1, <1>2
<1>5. /\ Page(n) \in Seq(Files)
      /\ Len(Page(n)) = IF first + 1 <= last THEN last - (first + 1) + 1 ELSE 0
      /\ \A k \in 1 .. last - (first + 1) + 1 : Page(n)[k] = content[first + 1 + k - 1]
  <2>1. first + 1 \in Nat
    BY <1>1
  <2> HIDE DEF last
  <2> QED BY <1>2, <1>3, <1>4, <2>1, SubSeqProperties
<1>6. ASSUME NEW k \in 1 .. Len(Page(n))
      PROVE  first + k \in DOMAIN content /\ Page(n)[k] = content[first + k]
  <2>1. k \in 1 .. last - (first + 1) + 1 /\ first + 1 + k - 1 = first + k
    BY <1>1, <1>2, <1>5
  <2>2. first + k \in 1 .. Len(content)
    BY <1>1, <1>2, <2>1
  <2> QED BY <1>5, <2>1, <2>2
<1>7. ASSUME NEW i \in DOMAIN content, i > first,
             Len(Page(n)) < PageSize \/ i <= Read(n + 1)
      PROVE  i - first \in 1 .. Len(Page(n))
  <2>1. i \in 1 .. Len(content)
    OBVIOUS
  <2>2. i <= last
    BY <1>1, <1>2, <1>5, <1>7, <2>1
  <2> HIDE DEF last
  <2> QED BY <1>1, <1>2, <1>5, <1>7, <2>1, <2>2
<1> HIDE DEF last
<1> QED BY <1>1, <1>2, <1>5, <1>6, <1>7 DEF first

----------------------------------------------------------------------------
(* What the loop over the files makes of them. *)

\* The loop has looked at the first m files of s, and kept g[n] after n.
Loop(s, m, g) ==
    g = [n \in 0 .. m |->
           IF n = 0 THEN <<>>
           ELSE IF s[n] \in Textual THEN Append(g[n - 1], s[n])
           ELSE g[n - 1]]

\* The loop comes to its end.
LEMMA LoopRuns ==
    ASSUME NEW s \in Seq(Files)
    PROVE  \E g : Loop(s, Len(s), g)
<1> DEFINE S == {m \in 0 .. Len(s) : \E g : Loop(s, m, g)}
<1>1. 0 \in S
  <2> DEFINE g == [n \in 0 .. 0 |-> <<>>]
  <2>1. Loop(s, 0, g)
    BY DEF Loop
  <2> QED BY <2>1
<1>2. ASSUME NEW m \in 1 .. Len(s), m - 1 \in S
      PROVE  m \in S
  <2>1. PICK g : Loop(s, m - 1, g)
    BY <1>2
  <2> DEFINE next == IF s[m] \in Textual THEN Append(g[m - 1], s[m]) ELSE g[m - 1]
             h == [n \in 0 .. m |-> IF n = m THEN next ELSE g[n]]
  <2>2. /\ m \in 0 .. m
        /\ \A n \in 0 .. m : n # m => n \in 0 .. m - 1
        /\ \A n \in 0 .. m : n # 0 => n - 1 \in 0 .. m /\ n - 1 # m
    OBVIOUS
  <2>3. \A n \in 0 .. m - 1 :
            g[n] = IF n = 0 THEN <<>>
                   ELSE IF s[n] \in Textual THEN Append(g[n - 1], s[n])
                   ELSE g[n - 1]
    BY <2>1, Zenon DEF Loop
  <2>4. h[m] = next /\ \A n \in 0 .. m : n # m => h[n] = g[n]
    BY <2>2
  <2>5. ASSUME NEW n \in 0 .. m
        PROVE  h[n] = IF n = 0 THEN <<>>
                      ELSE IF s[n] \in Textual THEN Append(h[n - 1], s[n])
                      ELSE h[n - 1]
    <3> HIDE DEF h
    <3>1. m # 0
      OBVIOUS
    <3>2. n # 0 => h[n - 1] = g[n - 1]
      BY <2>2, <2>4
    <3>3. CASE n = m
      BY <2>4, <3>1, <3>2, <3>3
    <3>4. CASE n # m
      BY <2>2, <2>3, <2>4, <3>2, <3>4
    <3> QED BY <3>3, <3>4
  <2>6. h = [n \in 0 .. m |-> h[n]]
    OBVIOUS
  <2>7. Loop(s, m, h)
    <3> HIDE DEF h
    <3> QED BY <2>5, <2>6, Zenon DEF Loop
  <2>8. m \in 0 .. Len(s)
    OBVIOUS
  <2> QED BY <2>7, <2>8
<1>3. 0 .. Len(s) \subseteq S
  <2>1. Len(s) \in Nat /\ \A m \in 1 .. Len(s) : m - 1 \in S => m \in S
    BY <1>2
  <2> HIDE DEF S
  <2> QED BY <1>1, <2>1, UpTo
<1>4. Len(s) \in 0 .. Len(s)
  OBVIOUS
<1> QED BY <1>3, <1>4

\* The bundle has the files with a patch of the first n files of a list.
Kept(s, n, b) ==
    /\ b \in Seq(Textual)
    /\ \A k \in 1 .. Len(b) : \E i \in 1 .. n : s[i] = b[k]
    /\ \A i \in 1 .. n : s[i] \in Textual => \E k \in 1 .. Len(b) : b[k] = s[i]
    /\ \A k, l \in 1 .. Len(b) :
          k < l => \E i, j \in 1 .. n : i < j /\ s[i] = b[k] /\ s[j] = b[l]

\* One step of the loop.
LEMMA KeptStep ==
    ASSUME NEW s \in Seq(Files), NEW n \in 1 .. Len(s), NEW b, Kept(s, n - 1, b),
           NEW c, c = IF s[n] \in Textual THEN Append(b, s[n]) ELSE b
    PROVE  Kept(s, n, c)
<1>1. n - 1 \in Nat /\ 1 .. n - 1 \subseteq 1 .. n /\ n \in 1 .. n
      /\ (\A i \in 1 .. n : i = n \/ i \in 1 .. n - 1)
      /\ (\A i \in 1 .. n - 1 : i < n)
  OBVIOUS
<1>2. CASE s[n] \notin Textual
  <2>1. c = b
    BY <1>2
  <2>2. \A i \in 1 .. n : s[i] \in Textual => i \in 1 .. n - 1
    BY <1>1, <1>2
  <2>3. /\ b \in Seq(Textual)
        /\ \A k \in 1 .. Len(b) : \E i \in 1 .. n : s[i] = b[k]
        /\ \A i \in 1 .. n : s[i] \in Textual => \E k \in 1 .. Len(b) : b[k] = s[i]
    BY <1>1, <2>2, Zenon DEF Kept
  <2>4. ASSUME NEW k \in 1 .. Len(b), NEW l \in 1 .. Len(b), k < l
        PROVE  \E i, j \in 1 .. n : i < j /\ s[i] = b[k] /\ s[j] = b[l]
    <3>1. PICK i, j \in 1 .. n - 1 : i < j /\ s[i] = b[k] /\ s[j] = b[l]
      BY <2>4 DEF Kept
    <3> QED BY <1>1, <3>1
  <2> QED BY <2>1, <2>3, <2>4 DEF Kept
<1>3. CASE s[n] \in Textual
  <2>1. b \in Seq(Textual)
    BY DEF Kept
  <2>2. /\ c \in Seq(Textual)
        /\ Len(c) = Len(b) + 1
        /\ c[Len(b) + 1] = s[n]
        /\ \A k \in 1 .. Len(b) : c[k] = b[k]
    BY <1>3, <2>1, AppendProperties
  <2>3. Len(b) \in Nat
    BY <2>1
  <2>4. /\ Len(b) + 1 \in 1 .. Len(c)
        /\ 1 .. Len(b) \subseteq 1 .. Len(c)
        /\ \A k \in 1 .. Len(c) : k = Len(b) + 1 \/ k \in 1 .. Len(b)
    BY <2>2, <2>3
  <2>5. \A k \in 1 .. Len(c) : \E i \in 1 .. n : s[i] = c[k]
    <3>1. ASSUME NEW k \in 1 .. Len(c)
          PROVE  \E i \in 1 .. n : s[i] = c[k]
      <4>1. CASE k = Len(b) + 1
        BY <1>1, <2>2, <4>1
      <4>2. CASE k \in 1 .. Len(b)
        <5>1. PICK i \in 1 .. n - 1 : s[i] = b[k]
          BY <4>2 DEF Kept
        <5> QED BY <1>1, <2>2, <4>2, <5>1
      <4> QED BY <2>4, <4>1, <4>2
    <3> QED BY <3>1
  <2>6. \A i \in 1 .. n : s[i] \in Textual => \E k \in 1 .. Len(c) : c[k] = s[i]
    <3>1. ASSUME NEW i \in 1 .. n, s[i] \in Textual
          PROVE  \E k \in 1 .. Len(c) : c[k] = s[i]
      <4>1. CASE i = n
        BY <2>2, <2>4, <4>1
      <4>2. CASE i \in 1 .. n - 1
        <5>1. PICK k \in 1 .. Len(b) : b[k] = s[i]
          BY <3>1, <4>2 DEF Kept
        <5> QED BY <2>2, <2>4, <5>1
      <4> QED BY <1>1, <4>1, <4>2
    <3> QED BY <3>1
  <2>7. ASSUME NEW k \in 1 .. Len(c), NEW l \in 1 .. Len(c), k < l
        PROVE  \E i, j \in 1 .. n : i < j /\ s[i] = c[k] /\ s[j] = c[l]
    <3>1. k \in 1 .. Len(b)
      BY <2>2, <2>3, <2>7
    <3>2. CASE l = Len(b) + 1
      <4>1. PICK i \in 1 .. n - 1 : s[i] = b[k]
        BY <3>1 DEF Kept
      <4> QED BY <1>1, <2>2, <3>1, <3>2, <4>1
    <3>3. CASE l \in 1 .. Len(b)
      <4>1. PICK i, j \in 1 .. n - 1 : i < j /\ s[i] = b[k] /\ s[j] = b[l]
        BY <2>7, <3>1, <3>3 DEF Kept
      <4> QED BY <1>1, <2>2, <3>1, <3>3, <4>1
    <3> QED BY <2>4, <3>2, <3>3
  <2> QED BY <2>2, <2>5, <2>6, <2>7 DEF Kept
<1> QED BY <1>2, <1>3

\* What Patches returns, for a list of any length.
LEMMA PatchesKept ==
    ASSUME NEW s \in Seq(Files)
    PROVE  /\ Patches(s) \in Seq(Textual)
           /\ Bundles(Patches(s), s)
<1> DEFINE g == CHOOSE f : Loop(s, Len(s), f)
<1>1. Patches(s) = g[Len(s)]
  BY Zenon DEF Patches, Loop
<1>2. Loop(s, Len(s), g)
  BY LoopRuns
<1> HIDE DEF g
<1>3. \A n \in 0 .. Len(s) :
          g[n] = IF n = 0 THEN <<>>
                 ELSE IF s[n] \in Textual THEN Append(g[n - 1], s[n])
                 ELSE g[n - 1]
  BY <1>2, Zenon DEF Loop
<1> DEFINE S == {n \in 0 .. Len(s) : Kept(s, n, g[n])}
<1>4. 0 \in S
  <2>1. 0 \in 0 .. Len(s)
    OBVIOUS
  <2>2. g[0] = <<>>
    BY <1>3, <2>1
  <2>3. Kept(s, 0, <<>>)
    BY DEF Kept
  <2> QED BY <2>1, <2>2, <2>3
<1>5. ASSUME NEW n \in 1 .. Len(s), n - 1 \in S
      PROVE  n \in S
  <2>1. n \in 0 .. Len(s) /\ n # 0
    OBVIOUS
  <2>2. g[n] = IF s[n] \in Textual THEN Append(g[n - 1], s[n]) ELSE g[n - 1]
    BY <1>3, <2>1
  <2>3. Kept(s, n - 1, g[n - 1])
    BY <1>5
  <2>4. Kept(s, n, g[n])
    BY <2>2, <2>3, KeptStep
  <2> QED BY <2>1, <2>4
<1>6. Kept(s, Len(s), Patches(s))
  <2>1. 0 .. Len(s) \subseteq S
    <3>1. Len(s) \in Nat /\ \A n \in 1 .. Len(s) : n - 1 \in S => n \in S
      BY <1>5
    <3> HIDE DEF S
    <3> QED BY <1>4, <3>1, UpTo
  <2>2. Len(s) \in 0 .. Len(s)
    OBVIOUS
  <2> QED BY <1>1, <2>1, <2>2
<1> DEFINE b == Patches(s)
           m == Len(s)
<1>7. /\ b \in Seq(Textual) /\ DOMAIN b = 1 .. Len(b) /\ DOMAIN s = 1 .. m
      /\ \A k \in 1 .. Len(b) : \E i \in 1 .. m : s[i] = b[k]
      /\ \A i \in 1 .. m : s[i] \in Textual => \E k \in 1 .. Len(b) : b[k] = s[i]
      /\ \A k, l \in 1 .. Len(b) :
            k < l => \E i, j \in 1 .. m : i < j /\ s[i] = b[k] /\ s[j] = b[l]
  <2>1. b \in Seq(Textual) /\ DOMAIN s = 1 .. m
    BY <1>6 DEF Kept
  <2>2. DOMAIN b = 1 .. Len(b)
    BY <2>1
  <2> QED BY <1>6, <2>1, <2>2, Zenon DEF Kept
<1> HIDE DEF b, m
<1>8. Range(b) = Range(s) \cap Textual
  <2>1. Range(b) \subseteq Textual
    BY <1>7 DEF Range
  <2>2. ASSUME NEW k \in DOMAIN b
        PROVE  b[k] \in Range(s)
    <3>1. PICK i \in 1 .. m : s[i] = b[k]
      BY <1>7
    <3>2. i \in DOMAIN s
      BY <1>7
    <3> QED BY <3>1, <3>2 DEF Range
  <2>3. ASSUME NEW i \in DOMAIN s, s[i] \in Textual
        PROVE  s[i] \in Range(b)
    <3>1. PICK k \in 1 .. Len(b) : b[k] = s[i]
      BY <1>7, <2>3
    <3>2. k \in DOMAIN b
      BY <1>7
    <3> QED BY <3>1, <3>2 DEF Range
  <2> QED BY <2>1, <2>2, <2>3 DEF Range
<1>9. \A k, l \in DOMAIN b :
          k < l => \E i, j \in DOMAIN s : i < j /\ s[i] = b[k] /\ s[j] = b[l]
  <2>1. ASSUME NEW k \in DOMAIN b, NEW l \in DOMAIN b, k < l
        PROVE  \E i, j \in DOMAIN s : i < j /\ s[i] = b[k] /\ s[j] = b[l]
    <3>1. PICK i, j \in 1 .. m : i < j /\ s[i] = b[k] /\ s[j] = b[l]
      BY <1>7, <2>1
    <3> QED BY <1>7, <3>1
  <2> QED BY <2>1
<1> QED BY <1>7, <1>8, <1>9 DEF b, Bundles

----------------------------------------------------------------------------
(* Every step keeps the invariant. *)

\* Requests and answers keep the types, and so do pushes and the clock.
LEMMA TypeStep ==
    ASSUME TypeOK, [Next]_vars
    PROVE  TypeOK'
<1>1. ASSUME UseCached \/ SendWithoutApp
      PROVE  TypeOK'
  BY <1>1 DEF UseCached, SendWithoutApp, Send, TypeOK, github
<1>2. ASSUME NEW dated \in BOOLEAN, RequestToken(dated)
      PROVE  TypeOK'
  <2>1. [expires |-> clock + Life, dated |-> dated] \in Tokens
    BY TimeAssumption DEF Tokens, TypeOK
  <2> QED BY <1>2, <2>1 DEF RequestToken, Send, TypeOK, github
<1>3. ASSUME TokenRefused \/ PageRefused
      PROVE  TypeOK'
  BY <1>3 DEF TokenRefused, PageRefused, Fail, TypeOK, github
<1>4. ASSUME ReadPage
      PROVE  TypeOK'
  <2>1. files' \in Seq(Files)
    BY <1>4, PageProperties, ConcatProperties DEF ReadPage, TypeOK
  <2>2. page' \in Nat \ {0} /\ at' \in {"page", "done", "failed"}
    BY <1>4 DEF ReadPage, Bundle, NextPage, TypeOK
  <2>3. result' \in Seq(Textual)
    <3>1. Patches(files') \in Seq(Textual)
      BY <2>1, PatchesKept
    <3> QED BY <1>4, <3>1 DEF ReadPage, Bundle, NextPage, TypeOK
  <2> QED BY <1>4, <2>1, <2>2, <2>3 DEF ReadPage, TypeOK, github
<1>5. ASSUME Tick
      PROVE  TypeOK'
  BY <1>5 DEF Tick, TypeOK, github
<1>6. ASSUME NEW i \in DOMAIN content, TakeOut(i)
      PROVE  TypeOK'
  <2>1. content[i] \in Files
    BY DEF TypeOK
  <2>2. content' \in Seq(Files)
    BY <1>6, <2>1, PushType DEF TakeOut, TypeOK
  <2> QED BY <1>6, <2>2 DEF TakeOut, TypeOK
<1>7. ASSUME NEW f \in Files, NEW i \in 1 .. Len(content) + 1, PutIn(f, i)
      PROVE  TypeOK'
  <2>1. content' \in Seq(Files)
    BY <1>7, PushType DEF PutIn, TypeOK
  <2> QED BY <1>7, <2>1 DEF PutIn, TypeOK
<1>8. CASE UNCHANGED vars
  BY <1>8 DEF vars, github, TypeOK
<1> QED BY <1>1, <1>2, <1>3, <1>4, <1>5, <1>6, <1>7, <1>8 DEF Next, Fetch

\* A token is checked against Margin, or new, when its request is sent; then
\* the clock may advance by Delay.
LEMMA OnTheWayStep ==
    ASSUME TypeOK, OnTheWay, [Next]_vars
    PROVE  OnTheWay'
<1>1. /\ {Life, Margin, Delay} \subseteq Nat
      /\ Delay < Life
      /\ Delay <= Margin
      /\ clock \in Nat
  BY TimeAssumption DEF TypeOK
<1>2. ASSUME UseCached
      PROVE  OnTheWay'
  <2>1. /\ sent' = [token |-> cache, since |-> clock]
        /\ clock' = clock
        /\ cache \in Tokens
        /\ cache.dated => cache.expires > clock + Margin
    BY <1>2 DEF UseCached, Send, Fresh, TypeOK
  <2> QED BY <1>1, <2>1 DEF OnTheWay, Tokens
<1>3. ASSUME NEW dated \in BOOLEAN, RequestToken(dated)
      PROVE  OnTheWay'
  <2>1. /\ sent' = [token |-> [expires |-> clock + Life, dated |-> dated],
                    since |-> clock]
        /\ clock' = clock
    BY <1>3 DEF RequestToken, Send
  <2> QED BY <1>1, <2>1 DEF OnTheWay
<1>4. ASSUME SendWithoutApp
      PROVE  OnTheWay'
  BY <1>1, <1>4 DEF SendWithoutApp, Send, OnTheWay
<1>5. ASSUME TokenRefused \/ PageRefused \/ ReadPage
      PROVE  OnTheWay'
  BY <1>5 DEF TokenRefused, PageRefused, ReadPage, Fail, Bundle, NextPage, OnTheWay
<1>6. ASSUME Tick
      PROVE  OnTheWay'
  <2>1. /\ at = "sent" => clock < sent.since + Delay
        /\ clock' = clock + 1
        /\ at' = at /\ sent' = sent
        /\ sent.since \in Nat
    BY <1>6 DEF Tick, TypeOK
  <2> QED BY <1>1, <2>1 DEF OnTheWay
<1>7. ASSUME UNCHANGED <<at, clock, sent>>
      PROVE  OnTheWay'
  BY <1>7 DEF OnTheWay
<1>8. ASSUME NEW i \in DOMAIN content, TakeOut(i)
      PROVE  OnTheWay'
  BY <1>7, <1>8 DEF TakeOut
<1>9. ASSUME NEW f \in Files, NEW i \in 1 .. Len(content) + 1, PutIn(f, i)
      PROVE  OnTheWay'
  BY <1>7, <1>9 DEF PutIn
<1>10. CASE UNCHANGED vars
  BY <1>7, <1>10 DEF vars
<1> QED
  BY <1>2, <1>3, <1>4, <1>5, <1>6, <1>8, <1>9, <1>10 DEF Next, Fetch

\* A page is appended to the pages before it, and the last one completes them.
LEMMA QuietStep ==
    ASSUME TypeOK, QuietInv, [Next]_vars
    PROVE  QuietInv'
<1>1. ASSUME UNCHANGED <<content, page, files, result, removals, additions>>,
             at' \in {"page", "sent"} => at \in {"page", "sent"},
             at' = "done" => at = "done"
      PROVE  QuietInv'
  BY <1>1 DEF QuietInv, Read
<1>2. ASSUME UseCached \/ SendWithoutApp \/ \E dated \in BOOLEAN : RequestToken(dated)
      PROVE  QuietInv'
  BY <1>1, <1>2 DEF UseCached, SendWithoutApp, RequestToken, Send, github
<1>3. ASSUME TokenRefused \/ PageRefused
      PROVE  QuietInv'
  BY <1>1, <1>3 DEF TokenRefused, PageRefused, Fail, github
<1>4. ASSUME Tick
      PROVE  QuietInv'
  BY <1>1, <1>4 DEF Tick, github
<1>5. ASSUME ReadPage
      PROVE  QuietInv'
  <2> SUFFICES ASSUME removals + additions = 0
               PROVE  /\ at' \in {"page", "sent"} =>
                            /\ Read(page)' <= Len(content)
                            /\ files' = SubSeq(content, 1, Read(page)')
                      /\ at' = "done" => result' = Patches(content)
    BY <1>5 DEF ReadPage, QuietInv, github
  <2>1. /\ Read(page) <= Len(content)
        /\ files' = SubSeq(content, 1, Read(page)) \o Page(page)
    BY <1>5 DEF ReadPage, QuietInv
  <2>2. CASE Len(Page(page)) < PageSize
    <3>1. files' = content
      BY <2>1, <2>2, PageProperties DEF TypeOK
    <3>2. result' = Patches(content) /\ at' \in {"done", "failed"}
      BY <1>5, <2>2, <3>1 DEF ReadPage, Bundle
    <3> QED BY <3>2
  <2>3. CASE ~(Len(Page(page)) < PageSize)
    <3>1. page' = page + 1 /\ at' = "page"
      BY <1>5, <2>3 DEF ReadPage, NextPage
    <3>2. files' = SubSeq(content, 1, Read(page + 1)) /\ Read(page + 1) <= Len(content)
      BY <2>1, <2>3, PageProperties DEF TypeOK
    <3>3. Read(page)' = Read(page + 1)
      BY <3>1 DEF Read
    <3> QED BY <3>1, <3>2, <3>3
  <2> QED BY <2>2, <2>3
<1>6. ASSUME NEW i \in DOMAIN content, TakeOut(i)
      PROVE  QuietInv'
  BY <1>6 DEF TakeOut, QuietInv, TypeOK
<1>7. ASSUME NEW f \in Files, NEW i \in 1 .. Len(content) + 1, PutIn(f, i)
      PROVE  QuietInv'
  BY <1>7 DEF PutIn, QuietInv, TypeOK
<1>8. CASE UNCHANGED vars
  BY <1>1, <1>8 DEF vars, github
<1> QED BY <1>2, <1>3, <1>4, <1>5, <1>6, <1>7, <1>8 DEF Next, Fetch

----------------------------------------------------------------------------
(* Counting the files that slip. *)

\* What a list has is finite.
LEMMA ListsAreFinite ==
    ASSUME NEW S, NEW s \in Seq(S)
    PROVE  IsFiniteSet(Range(s))
<1>1. s \in Surjection(1 .. Len(s), Range(s))
  BY DEF Surjection, Range
<1>2. IsFiniteSet(1 .. Len(s))
  BY FS_Interval
<1> QED BY <1>1, <1>2, FS_Surjection

\* A set that has one element more than a set of n at most.
LEMMA OneMore ==
    ASSUME NEW S, IsFiniteSet(S), NEW n \in Nat, Cardinality(S) <= n,
           NEW T
    PROVE  /\ T \subseteq S => Cardinality(T) <= n
           /\ \A x : T \subseteq S \cup {x} => Cardinality(T) <= n + 1
<1>1. Cardinality(S) \in Nat
  BY FS_CardinalityType
<1>2. ASSUME T \subseteq S
      PROVE  Cardinality(T) <= n
  <2>1. Cardinality(T) <= Cardinality(S) /\ IsFiniteSet(T)
    BY <1>2, FS_Subset
  <2>2. Cardinality(T) \in Nat
    BY <2>1, FS_CardinalityType
  <2> QED BY <1>1, <2>1, <2>2
<1>3. ASSUME NEW x, T \subseteq S \cup {x}
      PROVE  Cardinality(T) <= n + 1
  <2>1. /\ IsFiniteSet(S \cup {x})
        /\ Cardinality(S \cup {x}) <= n + 1
    BY <1>1, FS_AddElement
  <2>2. Cardinality(T) <= Cardinality(S \cup {x}) /\ IsFiniteSet(T)
    BY <1>3, <2>1, FS_Subset
  <2>3. Cardinality(T) \in Nat /\ Cardinality(S \cup {x}) \in Nat
    BY <2>1, <2>2, FS_CardinalityType
  <2> QED BY <2>1, <2>2, <2>3
<1> QED BY <1>2, <1>3

\* A file that was read twice has two places among the files read.
LEMMA TwiceIsRepeated ==
    ASSUME files \in Seq(Files), NEW f, Twice(f)
    PROVE  Repeated(f)
<1> DEFINE P == {i \in DOMAIN files : files[i] = f}
<1>1. IsFiniteSet(P)
  <2>1. IsFiniteSet(1 .. Len(files)) /\ P \in SUBSET (1 .. Len(files))
    BY FS_Interval
  <2> HIDE DEF P
  <2> QED BY <2>1, FS_Subset
<1>2. Cardinality(P) > 1
  BY DEF Twice
<1> SUFFICES ASSUME ~Repeated(f)
             PROVE  FALSE
  OBVIOUS
<1>3. \A i, j \in P : i = j
  BY DEF Repeated
<1> HIDE DEF P
<1>4. P # {} /\ ~ \E i : P = {i}
  <2>1. Cardinality({}) = 0
    BY FS_EmptySet
  <2>2. ASSUME NEW i, P = {i}
        PROVE  FALSE
    <3>1. Cardinality({i}) = 1
      BY FS_Singleton
    <3>2. ~(1 > 1)
      OBVIOUS
    <3> QED BY <1>2, <2>2, <3>1, <3>2
  <2>3. ~(0 > 1)
    OBVIOUS
  <2> QED BY <1>2, <2>1, <2>2, <2>3
<1>5. PICK i : i \in P
  BY <1>4
<1>6. P = {i}
  BY <1>3, <1>5
<1> QED BY <1>4, <1>6

\* The sets that are counted are finite.
LEMMA CountedAreFinite ==
    ASSUME TypeOK, SlipInv
    PROVE  /\ IsFiniteSet(stayed)
           /\ IsFiniteSet(Missed)
           /\ IsFiniteSet(Again)
           /\ IsFiniteSet(Again \cup Due)
           /\ IsFiniteSet(stayed \ Range(files))
<1>1. IsFiniteSet(stayed)
  <2>1. IsFiniteSet(Range(content)) /\ stayed \in SUBSET Range(content)
    BY ListsAreFinite DEF TypeOK, SlipInv
  <2> QED BY <2>1, FS_Subset
<1>2. /\ Missed \in SUBSET stayed
      /\ Again \in SUBSET stayed
      /\ Again \cup Due \in SUBSET stayed
      /\ stayed \ Range(files) \in SUBSET stayed
  BY DEF Missed, Again, Due
<1> QED BY <1>1, <1>2, FS_Subset

\* A step that reads nothing and pushes nothing.
LEMMA NoSlip ==
    ASSUME SlipInv, UNCHANGED <<github, page, files>>,
           at' \in {"page", "sent"} => at \in {"page", "sent"},
           at' = "done" => at = "done"
    PROVE  SlipInv'
BY DEF SlipInv, github, Missed, Passed, Again, Due, Ahead, Repeated, Read

\* A file that is taken out may move the first file that is ahead.
LEMMA TakeOutSlips ==
    ASSUME TypeOK, SlipInv, NEW i \in DOMAIN content, TakeOut(i)
    PROVE  SlipInv'
<1> DEFINE R == Read(page)
<1>1. /\ content \in Seq(Files)
      /\ content' = RemoveAt(content, i)
      /\ stayed' = stayed \ {content[i]}
      /\ removals' = removals + 1
      /\ UNCHANGED <<page, files, at, additions>>
      /\ at \in {"page", "sent"}
  BY DEF TakeOut, PushBound, TypeOK
<1>2. Len(content) \in Nat /\ DOMAIN content = 1 .. Len(content) /\ i \in 1 .. Len(content)
  BY <1>1
<1>3. /\ DOMAIN content' = 1 .. Len(content) - 1
      /\ \A k \in DOMAIN content' :
            content'[k] = IF k < i THEN content[k] ELSE content[k + 1]
  <2>1. PICK f \in Files : TRUE
    BY <1>1
  <2>2. /\ DOMAIN RemoveAt(content, i) = 1 .. Len(content) - 1
        /\ \A k \in 1 .. Len(content) - 1 :
              RemoveAt(content, i)[k] = IF k < i THEN content[k] ELSE content[k + 1]
    BY <1>1, <2>1, PushPositions
  <2> QED BY <1>1, <2>2
<1>4. R \in Nat /\ Read(page)' = R
  BY <1>1, PagePositions DEF TypeOK, Read
<1> HIDE DEF R
<1>5. \A k \in DOMAIN content' : k \in DOMAIN content /\ k + 1 \in DOMAIN content
  BY <1>2, <1>3
<1>6. \A j, k \in DOMAIN content' : content'[j] = content'[k] => j = k
  <2>1. ASSUME NEW j \in DOMAIN content', NEW k \in DOMAIN content',
               content'[j] = content'[k]
        PROVE  j = k
    <3>1. /\ j \in Int /\ k \in Int /\ i \in Int
          /\ {j, j + 1, k, k + 1} \subseteq DOMAIN content
      BY <1>2, <1>3, <1>5
    <3>2. \A a, b \in DOMAIN content : content[a] = content[b] => a = b
      BY DEF SlipInv
    <3>3. CASE j < i /\ k < i
      BY <1>3, <2>1, <3>1, <3>2, <3>3
    <3>4. CASE j < i /\ ~(k < i)
      <4>1. j = k + 1
        BY <1>3, <2>1, <3>1, <3>2, <3>4
      <4> QED BY <3>1, <3>4, <4>1
    <3>5. CASE ~(j < i) /\ k < i
      <4>1. j + 1 = k
        BY <1>3, <2>1, <3>1, <3>2, <3>5
      <4> QED BY <3>1, <3>5, <4>1
    <3>6. CASE ~(j < i) /\ ~(k < i)
      <4>1. j + 1 = k + 1
        BY <1>3, <2>1, <3>1, <3>2, <3>6
      <4> QED BY <3>1, <4>1
    <3> QED BY <3>3, <3>4, <3>5, <3>6
  <2> QED BY <2>1
<1>7. stayed' \subseteq Range(content')
  <2>1. ASSUME NEW f \in stayed'
        PROVE  f \in Range(content')
    <3>1. PICK k \in DOMAIN content : content[k] = f
      BY <1>1, <2>1 DEF SlipInv, Range
    <3>2. k # i
      BY <1>1, <2>1, <3>1
    <3>3. CASE k < i
      <4>1. k \in DOMAIN content'
        BY <1>2, <1>3, <3>3
      <4> QED BY <1>3, <3>1, <3>3, <4>1 DEF Range
    <3>4. CASE k > i
      <4>1. k - 1 \in DOMAIN content' /\ ~(k - 1 < i) /\ (k - 1) + 1 = k
        BY <1>2, <1>3, <3>4
      <4> QED BY <1>3, <3>1, <4>1 DEF Range
    <3> QED BY <1>2, <3>2, <3>3, <3>4
  <2> QED BY <2>1
<1>8. Missed' \subseteq Missed \cup {content[R + 1]}
  <2>1. ASSUME NEW f \in Missed'
        PROVE  f \in Missed \cup {content[R + 1]}
    <3>1. /\ f \in stayed /\ f \notin Range(files)
          /\ \E k \in DOMAIN content' : k <= R /\ content'[k] = f
      BY <1>1, <1>4, <2>1 DEF Missed, Passed
    <3>2. PICK k \in DOMAIN content' : k <= R /\ content'[k] = f
      BY <3>1
    <3>3. PICK l \in DOMAIN content : content[l] = f /\ (l = k \/ l = k + 1)
      BY <1>3, <1>5, <3>2
    <3>4. l <= R \/ l = R + 1
      BY <1>2, <1>3, <1>4, <3>2, <3>3
    <3>5. CASE l <= R
      BY <3>1, <3>3, <3>5 DEF Missed, Passed, R
    <3> QED BY <3>3, <3>4, <3>5
  <2> QED BY <2>1
<1>9. Due' \subseteq Due
  <2>1. ASSUME NEW f \in Due'
        PROVE  f \in Due
    <3>1. /\ f \in stayed /\ f \in Range(files)
          /\ \E k \in DOMAIN content' : k > R /\ content'[k] = f
      BY <1>1, <1>4, <2>1 DEF Due, Ahead
    <3>2. PICK k \in DOMAIN content' : k > R /\ content'[k] = f
      BY <3>1
    <3>3. PICK l \in DOMAIN content : content[l] = f /\ (l = k \/ l = k + 1)
      BY <1>3, <1>5, <3>2
    <3>4. l > R
      BY <1>2, <1>3, <1>4, <3>2, <3>3
    <3> QED BY <3>1, <3>3, <3>4 DEF Due, Ahead, R
  <2> QED BY <2>1
<1>10. Again' \subseteq Again
  BY <1>1 DEF Again, Repeated
<1>11. Cardinality(Missed') <= removals'
  BY <1>1, <1>8, CountedAreFinite, OneMore DEF SlipInv, TypeOK
<1>12. Cardinality((Again \cup Due)') <= additions'
  <2>1. (Again \cup Due)' \subseteq Again \cup Due
    BY <1>9, <1>10
  <2> QED BY <1>1, <2>1, CountedAreFinite, OneMore DEF SlipInv, TypeOK
<1>13. Cardinality(Again') <= additions'
  BY <1>1, <1>10, CountedAreFinite, OneMore DEF SlipInv, TypeOK
<1> QED BY <1>1, <1>6, <1>7, <1>11, <1>12, <1>13 DEF SlipInv

\* A file that is put in may move the last file that was passed over.
LEMMA PutInSlips ==
    ASSUME TypeOK, SlipInv, NEW f \in Files, NEW i \in 1 .. Len(content) + 1,
           PutIn(f, i)
    PROVE  SlipInv'
<1> DEFINE R == Read(page)
<1>1. /\ content \in Seq(Files)
      /\ content' = InsertAt(content, i, f)
      /\ f \notin Range(content)
      /\ additions' = additions + 1
      /\ UNCHANGED <<page, files, at, stayed, removals>>
      /\ at \in {"page", "sent"}
  BY DEF PutIn, PushBound, TypeOK
<1>2. Len(content) \in Nat /\ DOMAIN content = 1 .. Len(content) /\ i \in Nat
  BY <1>1
<1>3. /\ DOMAIN content' = 1 .. Len(content) + 1
      /\ \A k \in DOMAIN content' :
            content'[k] = IF k < i THEN content[k]
                          ELSE IF k = i THEN f ELSE content[k - 1]
  <2>1. /\ DOMAIN InsertAt(content, i, f) = 1 .. Len(content) + 1
        /\ \A k \in 1 .. Len(content) + 1 :
              InsertAt(content, i, f)[k] = IF k < i THEN content[k]
                                           ELSE IF k = i THEN f ELSE content[k - 1]
    BY <1>1, PushPositions
  <2> QED BY <1>1, <2>1
<1>4. R \in Nat /\ Read(page)' = R
  BY <1>1, PagePositions DEF TypeOK, Read
<1> HIDE DEF R
<1>5. \A k \in DOMAIN content' :
          /\ k < i => k \in DOMAIN content
          /\ k > i => k - 1 \in DOMAIN content
  BY <1>2, <1>3
<1>6. \A k \in DOMAIN content : content[k] # f
  BY <1>1 DEF Range
<1>7. \A j, k \in DOMAIN content' : content'[j] = content'[k] => j = k
  <2>1. ASSUME NEW j \in DOMAIN content', NEW k \in DOMAIN content',
               content'[j] = content'[k], j < k
        PROVE  FALSE
    <3>1. j \in Int /\ k \in Int
      BY <1>2, <1>3
    <3>2. \A a, b \in DOMAIN content : content[a] = content[b] => a = b
      BY DEF SlipInv
    <3>3. CASE k < i
      <4>1. j < i
        BY <1>2, <2>1, <3>1, <3>3
      <4> QED BY <1>3, <1>5, <2>1, <3>1, <3>2, <3>3, <4>1
    <3>4. CASE k = i
      BY <1>2, <1>3, <1>5, <1>6, <2>1, <3>1, <3>4
    <3>5. CASE k > i
      <4>1. /\ content'[k] = content[k - 1]
            /\ k - 1 \in DOMAIN content
        BY <1>2, <1>3, <1>5, <3>1, <3>5
      <4>2. CASE j < i
        <5>1. j = k - 1
          BY <1>3, <1>5, <2>1, <3>2, <4>1, <4>2
        <5> QED BY <1>2, <3>1, <3>5, <4>2, <5>1
      <4>3. CASE j = i
        BY <1>2, <1>3, <1>6, <2>1, <3>1, <4>1, <4>3
      <4>4. CASE j > i
        <5>1. content'[j] = content[j - 1] /\ j - 1 \in DOMAIN content
          BY <1>2, <1>3, <1>5, <3>1, <4>4
        <5>2. j - 1 = k - 1
          BY <2>1, <3>2, <4>1, <5>1
        <5> QED BY <2>1, <3>1, <5>2
      <4> QED BY <1>2, <3>1, <4>2, <4>3, <4>4
    <3> QED BY <1>2, <3>1, <3>3, <3>4, <3>5
  <2>2. \A j \in DOMAIN content' : j \in Int
    BY <1>3
  <2>3. \A j, k \in DOMAIN content' : j < k \/ j = k \/ k < j
    BY <2>2
  <2> QED BY <2>1, <2>3
<1>8. stayed' \subseteq Range(content')
  <2>1. ASSUME NEW g \in stayed
        PROVE  g \in Range(content')
    <3>1. PICK k \in DOMAIN content : content[k] = g
      BY <2>1 DEF SlipInv, Range
    <3>2. CASE k < i
      <4>1. k \in DOMAIN content'
        BY <1>2, <1>3
      <4> QED BY <1>3, <3>1, <3>2, <4>1 DEF Range
    <3>3. CASE ~(k < i)
      <4>1. /\ k + 1 \in DOMAIN content' /\ ~(k + 1 < i) /\ k + 1 # i
            /\ (k + 1) - 1 = k
        BY <1>2, <1>3, <3>3
      <4> QED BY <1>3, <3>1, <4>1 DEF Range
    <3> QED BY <3>2, <3>3
  <2> QED BY <1>1, <2>1
<1>9. \A g \in stayed : g # f
  BY <1>1 DEF SlipInv
<1>10. ASSUME NEW k \in DOMAIN content', content'[k] \in stayed
       PROVE  \E l \in DOMAIN content :
                 content[l] = content'[k] /\ (l = k \/ l = k - 1)
  <2>1. k # i
    BY <1>3, <1>9, <1>10
  <2>2. k < i \/ k > i
    BY <1>2, <1>3, <2>1
  <2>3. CASE k < i
    BY <1>3, <1>5, <2>3
  <2>4. CASE k > i
    <3>1. ~(k < i)
      BY <1>2, <1>3, <2>4
    <3> QED BY <1>3, <1>5, <2>1, <2>4, <3>1
  <2> QED BY <2>2, <2>3, <2>4
<1>11. Missed' \subseteq Missed
  <2>1. ASSUME NEW g \in Missed'
        PROVE  g \in Missed
    <3>1. /\ g \in stayed /\ g \notin Range(files)
          /\ \E k \in DOMAIN content' : k <= R /\ content'[k] = g
      BY <1>1, <1>4, <2>1 DEF Missed, Passed
    <3>2. PICK k \in DOMAIN content' : k <= R /\ content'[k] = g
      BY <3>1
    <3>3. PICK l \in DOMAIN content : content[l] = g /\ (l = k \/ l = k - 1)
      BY <1>10, <3>1, <3>2
    <3>4. l <= R
      BY <1>2, <1>3, <1>4, <3>2, <3>3
    <3> QED BY <3>1, <3>3, <3>4 DEF Missed, Passed, R
  <2> QED BY <2>1
<1>12. Due' \subseteq Due \cup {content[R]}
  <2>1. ASSUME NEW g \in Due'
        PROVE  g \in Due \cup {content[R]}
    <3>1. /\ g \in stayed /\ g \in Range(files)
          /\ \E k \in DOMAIN content' : k > R /\ content'[k] = g
      BY <1>1, <1>4, <2>1 DEF Due, Ahead
    <3>2. PICK k \in DOMAIN content' : k > R /\ content'[k] = g
      BY <3>1
    <3>3. PICK l \in DOMAIN content : content[l] = g /\ (l = k \/ l = k - 1)
      BY <1>10, <3>1, <3>2
    <3>4. l > R \/ l = R
      BY <1>2, <1>3, <1>4, <3>2, <3>3
    <3>5. CASE l > R
      BY <3>1, <3>3, <3>5 DEF Due, Ahead, R
    <3> QED BY <3>3, <3>4, <3>5
  <2> QED BY <2>1
<1>13. Again' \subseteq Again
  BY <1>1 DEF Again, Repeated
<1>14. Cardinality(Missed') <= removals'
  BY <1>1, <1>11, CountedAreFinite, OneMore DEF SlipInv, TypeOK
<1>15. Cardinality((Again \cup Due)') <= additions'
  <2>1. (Again \cup Due)' \subseteq (Again \cup Due) \cup {content[R]}
    BY <1>12, <1>13
  <2> QED BY <1>1, <2>1, CountedAreFinite, OneMore DEF SlipInv, TypeOK
<1>16. Cardinality(Again') <= additions'
  <2>1. Again' \subseteq Again \cup {f}
    BY <1>13
  <2> QED BY <1>1, <2>1, CountedAreFinite, OneMore DEF SlipInv, TypeOK
<1> QED BY <1>1, <1>7, <1>8, <1>14, <1>15, <1>16 DEF SlipInv

\* A page shows again only what was due, and hides nothing that is ahead.
LEMMA ReadPageSlips ==
    ASSUME TypeOK, SlipInv, ReadPage
    PROVE  SlipInv'
<1> DEFINE R == Read(page)
           p == Page(page)
<1>1. /\ content \in Seq(Files)
      /\ files \in Seq(Files)
      /\ files' = files \o p
      /\ UNCHANGED <<content, stayed, removals, additions>>
      /\ at = "sent"
      /\ removals \in Nat /\ additions \in Nat
  BY DEF ReadPage, github, TypeOK
<1>2. /\ p \in Seq(Files)
      /\ R \in Nat
      /\ Read(page + 1) = R + PageSize
      /\ Len(p) <= PageSize
      /\ \A k \in 1 .. Len(p) : R + k \in DOMAIN content /\ p[k] = content[R + k]
      /\ \A i \in DOMAIN content :
            i > R /\ (Len(p) < PageSize \/ i <= R + PageSize) => i - R \in 1 .. Len(p)
  BY <1>1, PagePositions DEF TypeOK
<1>3. \/ Len(p) < PageSize /\ at' \in {"done", "failed"}
      \/ ~(Len(p) < PageSize) /\ at' = "page" /\ page' = page + 1
  BY DEF ReadPage, Bundle, NextPage
<1> HIDE DEF p
<1>4. Len(files) \in Nat /\ Len(p) \in Nat /\ Len(content) \in Nat /\ PageSize \in Nat
      /\ DOMAIN files = 1 .. Len(files) /\ DOMAIN content = 1 .. Len(content)
  BY <1>1, <1>2, PageAssumption
<1>5. /\ DOMAIN files' = 1 .. Len(files) + Len(p)
      /\ \A k \in 1 .. Len(files) + Len(p) :
            files'[k] = IF k <= Len(files) THEN files[k] ELSE p[k - Len(files)]
  <2>1. /\ files \o p \in Seq(Files)
        /\ Len(files \o p) = Len(files) + Len(p)
        /\ \A k \in 1 .. Len(files) + Len(p) :
              (files \o p)[k] = IF k <= Len(files) THEN files[k] ELSE p[k - Len(files)]
    BY <1>1, <1>2, ConcatProperties
  <2> QED BY <1>1, <2>1
<1> HIDE DEF R
<1>6. ASSUME NEW k \in DOMAIN files', ~(k <= Len(files))
      PROVE  /\ R + (k - Len(files)) \in DOMAIN content
             /\ files'[k] = content[R + (k - Len(files))]
  <2>1. k - Len(files) \in 1 .. Len(p)
    BY <1>4, <1>5, <1>6
  <2> QED BY <1>2, <1>5, <1>6, <2>1
<1>7. ASSUME NEW k \in DOMAIN files', k <= Len(files)
      PROVE  k \in DOMAIN files /\ files'[k] = files[k]
  BY <1>4, <1>5, <1>7
<1>8. \A k \in DOMAIN files' : k \in Int
  BY <1>5
<1>9. \A a, b \in DOMAIN content : content[a] = content[b] => a = b
  BY DEF SlipInv
<1>10. Range(files) \subseteq Range(files')
  <2>1. ASSUME NEW k \in DOMAIN files
        PROVE  k \in DOMAIN files' /\ files'[k] = files[k]
    <3>1. k \in 1 .. Len(files) + Len(p) /\ k <= Len(files)
      BY <1>4
    <3> QED BY <1>5, <3>1
  <2> QED BY <2>1 DEF Range
<1>11. ASSUME NEW i \in DOMAIN content, i - R \in 1 .. Len(p)
       PROVE  content[i] \in Range(files')
  <2> DEFINE k == Len(files) + (i - R)
  <2>1. /\ k \in 1 .. Len(files) + Len(p) /\ ~(k <= Len(files))
        /\ R + (k - Len(files)) = i
    BY <1>2, <1>4, <1>11
  <2> HIDE DEF k
  <2>2. k \in DOMAIN files'
    BY <1>5, <2>1
  <2>3. files'[k] = content[i]
    BY <1>6, <2>1, <2>2
  <2> QED BY <2>2, <2>3 DEF Range
<1>12. Again' \subseteq Again \cup Due
  <2>1. ASSUME NEW f \in Again'
        PROVE  f \in Again \cup Due
    <3>1. f \in stayed /\ \E i, j \in DOMAIN files' : i # j /\ files'[i] = f /\ files'[j] = f
      BY <1>1, <2>1 DEF Again, Repeated
    <3>2. PICK i, j \in DOMAIN files' : i # j /\ files'[i] = f /\ files'[j] = f
      BY <3>1
    <3>3. ASSUME NEW a \in DOMAIN files', NEW b \in DOMAIN files',
                 files'[a] = f, files'[b] = f, a <= Len(files), ~(b <= Len(files))
          PROVE  f \in Due
      <4>1. f \in Range(files)
        BY <1>7, <3>3 DEF Range
      <4>2. /\ R + (b - Len(files)) \in DOMAIN content
            /\ f = content[R + (b - Len(files))]
        BY <1>6, <3>3
      <4>3. R + (b - Len(files)) > R
        BY <1>2, <1>4, <1>8, <3>3
      <4>4. f \in Ahead
        BY <4>2, <4>3 DEF Ahead, R
      <4> QED BY <3>1, <4>1, <4>4 DEF Due
    <3>4. CASE i <= Len(files) /\ j <= Len(files)
      BY <1>7, <3>1, <3>2, <3>4 DEF Again, Repeated
    <3>5. CASE i <= Len(files) /\ ~(j <= Len(files))
      BY <3>2, <3>3, <3>5
    <3>6. CASE ~(i <= Len(files)) /\ j <= Len(files)
      BY <3>2, <3>3, <3>6
    <3>7. CASE ~(i <= Len(files)) /\ ~(j <= Len(files))
      <4>1. R + (i - Len(files)) = R + (j - Len(files))
        BY <1>6, <1>9, <3>2, <3>7
      <4>2. i = j
        BY <1>2, <1>4, <1>8, <4>1
      <4> QED BY <3>2, <4>2
    <3> QED BY <3>4, <3>5, <3>6, <3>7
  <2> QED BY <2>1
<1>13. Cardinality(Again') <= additions'
  BY <1>1, <1>12, CountedAreFinite, OneMore DEF SlipInv
<1>14. CASE Len(p) < PageSize
  <2>1. stayed' \ Range(files') \subseteq Missed
    <3>1. ASSUME NEW f \in stayed, f \notin Range(files')
          PROVE  f \in Missed
      <4>1. PICK i \in DOMAIN content : content[i] = f
        BY <3>1 DEF SlipInv, Range
      <4>2. ~(i > R)
        BY <1>2, <1>11, <1>14, <3>1, <4>1
      <4>3. i <= R
        BY <1>2, <1>4, <4>2
      <4> QED BY <1>10, <3>1, <4>1, <4>3 DEF Missed, Passed, R
    <3> QED BY <1>1, <3>1
  <2>2. Cardinality((stayed \ Range(files))') <= removals'
    BY <1>1, <2>1, CountedAreFinite, OneMore DEF SlipInv
  <2>3. at' \notin {"page", "sent"}
    BY <1>3, <1>14
  <2> QED BY <1>1, <1>13, <2>2, <2>3 DEF SlipInv
<1>15. CASE ~(Len(p) < PageSize)
  <2>1. page' = page + 1 /\ at' = "page"
    BY <1>3, <1>15
  <2>2. Read(page)' = R + PageSize
    BY <1>2, <2>1 DEF Read
  <2>3. Missed' \subseteq Missed
    <3>1. ASSUME NEW f \in Missed'
          PROVE  f \in Missed
      <4>1. /\ f \in stayed /\ f \notin Range(files')
            /\ \E i \in DOMAIN content : i <= R + PageSize /\ content[i] = f
        BY <1>1, <2>2, <3>1 DEF Missed, Passed
      <4>2. PICK i \in DOMAIN content : i <= R + PageSize /\ content[i] = f
        BY <4>1
      <4>3. ~(i > R)
        BY <1>2, <1>11, <4>1, <4>2
      <4>4. i <= R
        BY <1>2, <1>4, <4>3
      <4> QED BY <1>10, <4>1, <4>2, <4>4 DEF Missed, Passed, R
    <3> QED BY <3>1
  <2>4. Due' \subseteq Due
    <3>1. ASSUME NEW f \in Due'
          PROVE  f \in Due
      <4>1. /\ f \in stayed /\ f \in Range(files')
            /\ \E i \in DOMAIN content : i > R + PageSize /\ content[i] = f
        BY <1>1, <2>2, <3>1 DEF Due, Ahead
      <4>2. PICK i \in DOMAIN content : i > R + PageSize /\ content[i] = f
        BY <4>1
      <4>3. PICK k \in DOMAIN files' : files'[k] = f
        BY <4>1 DEF Range
      <4>4. k <= Len(files)
        <5> SUFFICES ASSUME ~(k <= Len(files))
                     PROVE  FALSE
          OBVIOUS
        <5>1. R + (k - Len(files)) = i
          BY <1>6, <1>9, <4>2, <4>3
        <5>2. k - Len(files) <= Len(p)
          BY <1>4, <1>5
        <5>3. k \in Int /\ i \in Int
          BY <1>4, <1>8
        <5> QED BY <1>2, <1>4, <4>2, <5>1, <5>2, <5>3
      <4>5. f \in Range(files)
        BY <1>7, <4>3, <4>4 DEF Range
      <4>6. i > R
        BY <1>2, <1>4, <4>2
      <4> QED BY <4>1, <4>2, <4>5, <4>6 DEF Due, Ahead, R
    <3> QED BY <3>1
  <2>5. Cardinality(Missed') <= removals'
    BY <1>1, <2>3, CountedAreFinite, OneMore DEF SlipInv
  <2>6. Cardinality((Again \cup Due)') <= additions'
    <3>1. (Again \cup Due)' \subseteq Again \cup Due
      BY <1>12, <2>4
    <3> QED BY <1>1, <3>1, CountedAreFinite, OneMore DEF SlipInv
  <2> QED BY <1>1, <1>13, <2>1, <2>5, <2>6 DEF SlipInv
<1> QED BY <1>14, <1>15

\* Every step keeps the count of slips within the count of the pushes.
LEMMA SlipStep ==
    ASSUME TypeOK, SlipInv, [Next]_vars
    PROVE  SlipInv'
<1>1. ASSUME UseCached \/ SendWithoutApp \/ \E dated \in BOOLEAN : RequestToken(dated)
      PROVE  SlipInv'
  BY <1>1, NoSlip DEF UseCached, SendWithoutApp, RequestToken, Send
<1>2. ASSUME TokenRefused \/ PageRefused
      PROVE  SlipInv'
  BY <1>2, NoSlip DEF TokenRefused, PageRefused, Fail
<1>3. ASSUME Tick \/ UNCHANGED vars
      PROVE  SlipInv'
  BY <1>3, NoSlip DEF Tick, vars
<1> QED BY <1>1, <1>2, <1>3, ReadPageSlips, TakeOutSlips, PutInSlips DEF Next, Fetch

----------------------------------------------------------------------------
(* The theorems. *)

\* In the beginning nothing was read and no token is held.
LEMMA InitIInv == Init => IInv
<1> SUFFICES ASSUME Init PROVE IInv
  OBVIOUS
<1>1. content \in Seq(Files)
  BY FilesAssumption DEF Init
<1>2. TypeOK
  <2>1. stayed \subseteq Files
    BY <1>1 DEF Init, Range
  <2>2. result \in Seq(Textual) /\ files \in Seq(Files)
    BY DEF Init
  <2> QED BY <1>1, <2>1, <2>2 DEF Init, TypeOK
<1>3. OnTheWay
  BY DEF Init, OnTheWay
<1>4. Read(page) = 0
  BY PageAssumption DEF Init, Read
<1>5. SubSeq(content, 1, 0) = <<>>
  BY SubSeqEmpty
<1>6. QuietInv
  BY <1>1, <1>4, <1>5 DEF Init, QuietInv
<1>7. SlipInv
  <2>1. /\ \A i, j \in DOMAIN content : content[i] = content[j] => i = j
        /\ stayed = Range(content)
    BY FilesAssumption DEF Init
  <2>2. files = <<>> /\ Range(files) = {}
    BY DEF Init, Range
  <2>3. Missed = {} /\ Again = {} /\ Due = {}
    <3>1. Passed = {}
      BY <1>1, <1>4 DEF Passed
    <3>2. Again = {}
      BY <2>2 DEF Again, Repeated
    <3> QED BY <2>2, <3>1, <3>2 DEF Missed, Due
  <2>4. Again \cup Due = {} /\ Cardinality({}) = 0
    BY <2>3, FS_EmptySet
  <2> QED BY <2>1, <2>3, <2>4 DEF Init, SlipInv
<1> QED BY <1>2, <1>3, <1>6, <1>7 DEF IInv

\* The invariant holds in every state.
THEOREM Invariance == Spec => []IInv
<1>1. IInv /\ [Next]_vars => IInv'
  BY TypeStep, OnTheWayStep, QuietStep, SlipStep DEF IInv
<1> QED BY InitIInv, <1>1, PTL DEF Spec

\* Every variable has its type; the bundle is made of patches only.
THEOREM TypeCorrect == Spec => []TypeOK
<1>1. IInv => TypeOK
  BY DEF IInv
<1> QED BY Invariance, <1>1, PTL

\* No request reaches GitHub with a token that has expired by its own date.
THEOREM TokensAreGood == Spec => []TokenOutlivesRequest
<1>1. IInv => TokenOutlivesRequest
  <2> SUFFICES ASSUME IInv, at = "sent", sent.token # None, sent.token.dated
               PROVE  clock < sent.token.expires
    BY DEF TokenOutlivesRequest
  <2>1. /\ clock \in Nat /\ sent.since \in Nat /\ Delay \in Nat
        /\ sent.token.expires \in Nat
    BY TimeAssumption DEF IInv, TypeOK, Tokens
  <2>2. clock <= sent.since + Delay /\ sent.since + Delay < sent.token.expires
    BY DEF IInv, OnTheWay
  <2> QED BY <2>1, <2>2
<1> QED BY Invariance, <1>1, PTL

\* Every patch of a pull request that does not change is fetched, in order.
THEOREM QuietFetchesAreExact == Spec => []QuietFetchIsExact
<1>1. IInv => QuietFetchIsExact
  BY PatchesKept DEF IInv, TypeOK, QuietInv, QuietFetchIsExact
<1> QED BY Invariance, <1>1, PTL

\* Every push hides one file at most of those that stay, or shows one twice.
THEOREM SlipsAreFew == Spec => []SlipsAreBounded
<1>1. IInv => SlipsAreBounded
  <2> SUFFICES ASSUME IInv
               PROVE  SlipsAreBounded
    OBVIOUS
  <2>1. TypeOK /\ SlipInv /\ files \in Seq(Files)
    BY DEF IInv, TypeOK
  <2>2. {f \in stayed : Twice(f)} \subseteq Again
    BY <2>1, TwiceIsRepeated DEF Again
  <2>3. Cardinality({f \in stayed : Twice(f)}) <= additions
    BY <2>1, <2>2, CountedAreFinite, OneMore DEF SlipInv, TypeOK
  <2> QED BY <2>1, <2>3 DEF SlipInv, SlipsAreBounded
<1> QED BY Invariance, <1>1, PTL
=============================================================================
