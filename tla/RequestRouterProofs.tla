------------------------ MODULE RequestRouterProofs ------------------------
(***************************************************************************)
(* Proofs about RequestRouter, for any tables that an application may      *)
(* register, any request, and any number of late calls of next.            *)
(***************************************************************************)
EXTENDS RequestRouter, SequenceTheorems, WellFoundedInduction, TLAPS

----------------------------------------------------------------------------
(* Numbers and tables.                                                     *)

LEMMA HasMinimum ==
  ASSUME NEW S, S \subseteq Nat, S # {}
  PROVE  \E j \in S : \A k \in S : j <= k
<1> DEFINE R == {ss \in Nat \X Nat : ss[1] < ss[2]}
<1>1. IsWellFoundedOn(R, Nat)
  BY NatLessThanWellFounded DEF OpToRel
<1> HIDE DEF R
<1>2. PICK j \in S : \A k \in S : <<k, j>> \notin R
  BY <1>1, WFMin
<1>3. \A k \in S : ~(k < j)
  BY <1>2 DEF R
<1>. QED
  BY <1>2, <1>3

LEMMA HasMaximum ==
  ASSUME NEW n \in Nat, NEW S, S \subseteq 0 .. n, S # {}
  PROVE  \E j \in S : \A k \in S : j >= k
<1> DEFINE T == {n - k : k \in S}
<1>1. T \subseteq Nat /\ T # {}
  <2>1. \A k \in S : n - k \in Nat
    OBVIOUS
  <2>2. PICK k : k \in S
    OBVIOUS
  <2>3. n - k \in T
    BY <2>2
  <2>. QED
    BY <2>1, <2>3
<1>2. PICK m \in T : \A l \in T : m <= l
  <2> HIDE DEF T
  <2>. QED
    BY <1>1, HasMinimum
<1>3. PICK j \in S : m = n - j
  OBVIOUS
<1>4. \A k \in S : n - j <= n - k
  BY <1>2, <1>3
<1>. QED
  BY <1>4

\* The next entry of a router is one of its entries, or there is none.
LEMMA FirstFromIs ==
  ASSUME NEW t, WellFormed(t), NEW r, NEW i \in Nat
  PROVE  LET j == FirstFrom(t, r, i)
         IN  /\ j = End(t) \/ (j \in Entries(t) /\ t[j].router = r /\ j >= i)
             /\ j \in Nat
<1> DEFINE rest == {j \in EntriesOf(t, r) : j >= i}
<1>1. Len(t) \in Nat
  BY DEF WellFormed
<1>2. rest \subseteq Nat
  BY DEF EntriesOf, Entries
<1>3. CASE rest = {}
  BY <1>1, <1>3 DEF FirstFrom, End
<1>4. CASE rest # {}
  <2>1. \E j \in rest : \A k \in rest : j <= k
    <3> HIDE DEF rest
    <3>. QED
      BY <1>2, <1>4, HasMinimum
  <2>2. FirstFrom(t, r, i) \in rest
    BY <1>4, <2>1 DEF FirstFrom
  <2>. QED
    BY <2>2 DEF EntriesOf, Entries
<1>. QED
  BY <1>3, <1>4

LEMMA EntryIs ==
  ASSUME NEW t, WellFormed(t), NEW i \in Entries(t)
  PROVE  /\ t[i] \in Entry /\ i \in Nat /\ i # End(t)
         /\ t[i].last \in Nat /\ i <= t[i].last
         /\ t[i].handlers = 0 => t[i].sub # NoRouter
         /\ t[i].sub # NoRouter => t[i].path # NoPathname
<1>1. t \in Seq(Entry) /\ Len(t) \in Nat
  BY DEF WellFormed
<1>2. t[i] \in Entry
  BY <1>1, ElementOfSeq DEF Entries
<1>3. t[i].last \in i .. Len(t) /\ i \in 1 .. Len(t)
  BY DEF WellFormed, Entries
<1>4. /\ t[i].handlers = 0 => t[i].sub # NoRouter
      /\ t[i].sub # NoRouter => t[i].path # NoPathname
  BY DEF WellFormed
<1>. QED
  BY <1>1, <1>2, <1>3, <1>4 DEF End

\* The next entry of a router is behind all that is below its entry before.
LEMMA NextIsBeyond ==
  ASSUME NEW t, WellFormed(t), NEW i \in Entries(t), NEW j \in Entries(t),
         t[i].router = t[j].router, i < j
  PROVE  t[i].last < j
BY DEF WellFormed

\* The entries of a sub-router are behind its mount, and what is below them below it.
LEMMA ChildrenAreBelow ==
  ASSUME NEW t, WellFormed(t), NEW i \in Entries(t), t[i].sub # NoRouter,
         NEW j \in Entries(t), t[j].router = t[i].sub
  PROVE  i < j /\ t[j].last <= t[i].last
BY DEF WellFormed

----------------------------------------------------------------------------
(* Frames.                                                                 *)

IsFrame(f) ==
  /\ f \in [router : Routers, entry : Nat, function : Nat, forward : BOOLEAN, error : Errors,
            rest : Seq(STRING), above : {f.above}, route : Seq(Pathname)]
  /\ DOMAIN f.above \subseteq STRING

\* A loop is at a function of an entry of its router.
At(f) == /\ f.entry \in Entries(table) /\ table[f.entry].router = f.router
         /\ f.function \in 1 .. Size(f.entry)

Placed(f) == IsFrame(f) /\ (f.entry = End(table) \/ At(f))

\* A loop awaits the sub-router behind the functions of its entry.
Awaits(f, r) == /\ f.entry \in Entries(table) /\ table[f.entry].sub = r /\ r # NoRouter
                /\ f.function = Size(f.entry)

\* Every frame but the top one awaits the one on top of it, whose entry is below its own.
Framed(s) ==
  /\ \E S : s \in Seq(S)
  /\ \A d \in 1 .. Len(s) : Placed(s[d])
  /\ \A d \in 1 .. Len(s) - 1 : Awaits(s[d], s[d + 1].router)
  /\ \A d, e \in 1 .. Len(s) :
       d < e /\ s[e].entry \in Entries(table) =>
         table[s[e].entry].last <= table[s[d].entry].last

LEMMA FramesTyped ==
  ASSUME NEW s, Framed(s), NEW d \in 1 .. Len(s)
  PROVE  /\ IsFrame(s[d]) /\ Placed(s[d]) /\ Len(s) \in Nat
         /\ d < Len(s) => Awaits(s[d], s[d + 1].router)
BY DEF Framed, Placed

\* Only the top frame moves.
LEMMA TopMoves ==
  ASSUME WellFormed(table), NEW s, Framed(s), Len(s) > 0, NEW f, Placed(f),
         f.router = s[Len(s)].router
  PROVE  LET t == [s EXCEPT ![Len(s)] = f]
         IN  /\ Framed(t) /\ Len(t) = Len(s) /\ t[Len(s)] = f
             /\ \A d \in 1 .. Len(s) : d # Len(s) => t[d] = s[d]
<1> DEFINE n == Len(s)
           t == [s EXCEPT ![n] = f]
<1>0. PICK S : s \in Seq(S)
  BY DEF Framed
<1>1. n \in Nat /\ n \in 1 .. n /\ s \in Seq(S \cup {f})
  BY <1>0, SeqMonotonic
<1>2. /\ t \in Seq(S \cup {f}) /\ Len(t) = n /\ t[n] = f
      /\ \A d \in 1 .. n : d # n => t[d] = s[d]
  BY <1>1, ExceptSeq
<1> HIDE DEF t
<1>3. \A d \in 1 .. n : Placed(t[d])
  BY <1>2 DEF Framed
<1>4. \A d \in 1 .. n - 1 : Awaits(t[d], t[d + 1].router)
  <2>1. ASSUME NEW d \in 1 .. n - 1 PROVE t[d] = s[d] /\ t[d + 1].router = s[d + 1].router
    BY <1>1, <1>2, <2>1
  <2>. QED
    BY <2>1 DEF Framed
<1>5. ASSUME NEW d \in 1 .. n, NEW e \in 1 .. n, d < e, t[e].entry \in Entries(table)
      PROVE  table[t[e].entry].last <= table[t[d].entry].last
  <2>1. t[d] = s[d]
    BY <1>1, <1>2, <1>5
  <2>2. CASE e # n
    BY <1>2, <1>5, <2>1, <2>2 DEF Framed
  <2>3. CASE e = n
    <3>1. n - 1 \in 1 .. n - 1 /\ n - 1 \in 1 .. n /\ n - 1 + 1 = n /\ n - 1 < n
      BY <1>1, <1>5
    <3>2. Awaits(s[n - 1], f.router)
      BY <3>1 DEF Framed
    <3>3. At(f)
      BY <1>2, <1>5, <2>3, EntryIs DEF Placed
    <3>4. table[f.entry].last <= table[s[n - 1].entry].last
      BY <3>2, <3>3, ChildrenAreBelow DEF Awaits, At
    <3>5. table[s[n - 1].entry].last <= table[s[d].entry].last
      <4>1. CASE d = n - 1
        <5>1. table[s[d].entry].last \in Nat
          BY <3>2, <4>1, EntryIs DEF Awaits
        <5>. QED
          BY <4>1, <5>1
      <4>2. CASE d # n - 1
        BY <1>1, <1>5, <2>3, <3>1, <3>2, <4>2 DEF Framed, Awaits
      <4>. QED
        BY <4>1, <4>2
    <3>6. d \in 1 .. n - 1
      BY <1>1, <1>5, <2>3
    <3>7. /\ table[s[n - 1].entry].last \in Nat /\ table[s[d].entry].last \in Nat
          /\ table[f.entry].last \in Nat
      BY <3>1, <3>2, <3>3, <3>6, EntryIs DEF Framed, Awaits, At
    <3>. QED
      BY <1>2, <2>1, <2>3, <3>4, <3>5, <3>7
  <2>. QED
    BY <2>2, <2>3
<1>6. Framed(t)
  BY <1>2, <1>3, <1>4, <1>5 DEF Framed
<1>. QED
  BY <1>2, <1>6 DEF t

\* The frames below one are what they were.
LEMMA FramesBelow ==
  ASSUME NEW s, Framed(s), NEW n \in 0 .. Len(s)
  PROVE  LET t == SubSeq(s, 1, n)
         IN  Framed(t) /\ Len(t) = n /\ \A d \in 1 .. n : t[d] = s[d]
<1> DEFINE t == SubSeq(s, 1, n)
<1>0. PICK S : s \in Seq(S)
  BY DEF Framed
<1>1. s \in Seq(S) /\ Len(s) \in Nat /\ n \in Nat /\ n <= Len(s)
  BY <1>0
<1>2. \A d \in 1 .. n : s[d] \in S
  BY <1>1, ElementOfSeq
<1>3. /\ t \in Seq(S) /\ Len(t) = (IF 1 <= n THEN n - 1 + 1 ELSE 0)
      /\ \A d \in 1 .. n - 1 + 1 : t[d] = s[1 + d - 1]
  BY <1>1, <1>2, SubSeqProperties
<1> HIDE DEF t
<1>4. Len(t) = n /\ \A d \in 1 .. n : t[d] = s[d]
  BY <1>1, <1>3
<1>5. Framed(t)
  <2>1. \A d \in 1 .. n : d \in 1 .. Len(s) /\ (d \in 1 .. n - 1 => d \in 1 .. Len(s) - 1)
    BY <1>1
  <2>2. \A d \in 1 .. n : Placed(t[d])
    BY <1>4, <2>1 DEF Framed
  <2>3. \A d \in 1 .. n - 1 : d \in 1 .. n /\ d + 1 \in 1 .. n
    BY <1>1
  <2>4. \A d \in 1 .. n - 1 : Awaits(t[d], t[d + 1].router)
    BY <1>4, <2>1, <2>3 DEF Framed
  <2>5. \A d, e \in 1 .. n :
          d < e /\ t[e].entry \in Entries(table) =>
            table[t[e].entry].last <= table[t[d].entry].last
    BY <1>4, <2>1 DEF Framed
  <2>. QED
    BY <1>3, <1>4, <2>2, <2>4, <2>5 DEF Framed
<1>. QED
  BY <1>4, <1>5 DEF t

\* A frame is put on one that awaits it.
LEMMA FrameAbove ==
  ASSUME WellFormed(table), NEW s, Framed(s), Len(s) > 0, NEW f, Placed(f),
         Awaits(s[Len(s)], f.router)
  PROVE  LET t == Append(s, f)
         IN  /\ Framed(t) /\ Len(t) = Len(s) + 1 /\ t[Len(s) + 1] = f
             /\ \A d \in 1 .. Len(s) : t[d] = s[d]
<1> DEFINE n == Len(s)
           t == Append(s, f)
<1>0. PICK S : s \in Seq(S)
  BY DEF Framed
<1>1. n \in Nat /\ n \in 1 .. n /\ s \in Seq(S \cup {f})
  BY <1>0, SeqMonotonic
<1>2. /\ t \in Seq(S \cup {f}) /\ Len(t) = n + 1 /\ t[n + 1] = f
      /\ \A d \in 1 .. n : t[d] = s[d]
  BY <1>1, AppendProperties
<1> HIDE DEF t
<1>3. \A d \in 1 .. n + 1 : Placed(t[d])
  BY <1>1, <1>2 DEF Framed
<1>4. \A d \in 1 .. n : Awaits(t[d], t[d + 1].router)
  <2>1. ASSUME NEW d \in 1 .. n - 1 PROVE Awaits(t[d], t[d + 1].router)
    <3>1. d \in 1 .. n /\ d + 1 \in 1 .. n
      BY <1>1
    <3>. QED
      BY <1>2, <3>1 DEF Framed
  <2>2. Awaits(t[n], t[n + 1].router)
    BY <1>1, <1>2
  <2>. QED
    BY <1>1, <2>1, <2>2
<1>5. ASSUME NEW d \in 1 .. n + 1, NEW e \in 1 .. n + 1, d < e, t[e].entry \in Entries(table)
      PROVE  table[t[e].entry].last <= table[t[d].entry].last
  <2>1. d \in 1 .. n /\ t[d] = s[d]
    BY <1>1, <1>2, <1>5
  <2>2. CASE e # n + 1
    <3>1. e \in 1 .. n
      BY <1>1, <2>2
    <3>. QED
      BY <1>2, <1>5, <2>1, <3>1 DEF Framed
  <2>3. CASE e = n + 1
    <3>1. At(f)
      BY <1>2, <1>5, <2>3, EntryIs DEF Placed
    <3>2. table[f.entry].last <= table[s[n].entry].last
      BY <3>1, ChildrenAreBelow DEF Awaits, At
    <3>3. CASE d = n
      BY <1>2, <2>1, <2>3, <3>2, <3>3
    <3>4. CASE d # n
      <4>1. table[s[n].entry].last <= table[s[d].entry].last
        BY <1>1, <2>1, <3>4 DEF Framed, Awaits
      <4>2. d \in 1 .. n - 1
        BY <1>1, <2>1, <3>4
      <4>3. /\ table[s[n].entry].last \in Nat /\ table[s[d].entry].last \in Nat
            /\ table[f.entry].last \in Nat
        BY <3>1, <4>2, EntryIs DEF Framed, Awaits, At
      <4>. QED
        BY <1>2, <2>1, <2>3, <3>2, <4>1, <4>3
    <3>. QED
      BY <3>3, <3>4
  <2>. QED
    BY <2>2, <2>3
<1>6. Framed(t)
  BY <1>1, <1>2, <1>3, <1>4, <1>5 DEF Framed
<1>. QED
  BY <1>2, <1>6 DEF t

----------------------------------------------------------------------------
(* Pathnames.                                                              *)

LEMMA NormalizeIsASeq ==
  ASSUME NEW S, NEW p \in Seq(S)
  PROVE  Normalize(p) \in Seq(S)
<1> DEFINE kept == {i \in DOMAIN p : p[i] # Slash}
<1>1. Len(p) \in Nat /\ DOMAIN p = 1 .. Len(p) /\ \A i \in DOMAIN p : p[i] \in S
  BY LenProperties, ElementOfSeq
<1>2. CASE kept = {}
  BY <1>2, EmptySeq DEF Normalize
<1>3. CASE kept # {}
  <2>1. kept \subseteq 1 .. Len(p) /\ kept \subseteq 0 .. Len(p) /\ kept \subseteq Nat
    BY <1>1
  <2>2. Min(kept) \in kept /\ Max(kept) \in kept
    <3>1. \E j \in kept : \A k \in kept : j <= k
      <4> HIDE DEF kept
      <4>. QED
        BY <1>3, <2>1, HasMinimum
    <3>2. \E j \in kept : \A k \in kept : j >= k
      <4> HIDE DEF kept
      <4>. QED
        BY <1>1, <1>3, <2>1, HasMaximum
    <3> HIDE DEF kept
    <3>. QED
      BY <3>1, <3>2 DEF Min, Max
  <2> DEFINE a == Min(kept)
             b == Max(kept)
  <2>3. a \in 1 .. Len(p) /\ b \in 1 .. Len(p)
    BY <2>1, <2>2
  <2>4. Normalize(p) = SubSeq(p, a, b)
    BY <1>3 DEF Normalize
  <2> HIDE DEF a, b, kept
  <2>5. \A i \in a .. b : p[i] \in S
    BY <1>1, <2>3
  <2>. QED
    BY <2>3, <2>4, <2>5, SubSeqProperties
<1>. QED
  BY <1>2, <1>3

LEMMA StripIsASeq ==
  ASSUME NEW pat \in Pathname, NEW p \in Seq(STRING)
  PROVE  Strip(pat, p) \in Seq(STRING)
<1>1. Beyond(pat, p) \in Seq(STRING)
  <2>1. pat.segs \in Seq(Segment) /\ Len(pat.segs) + 1 \in Nat \ {0} /\ Len(p) \in Nat
    BY DEF Pathname
  <2>2. \A i \in Len(pat.segs) + 1 .. Len(p) : p[i] \in STRING
    BY <2>1, ElementOfSeq
  <2>. QED
    BY <2>1, <2>2, SubSeqProperties DEF Beyond
<1>2. <<Slash>> \in Seq(STRING) /\ <<>> \in Seq(STRING)
  <2>1. ASSUME NEW S, NEW x \in S PROVE <<x>> \in Seq(S) /\ <<>> \in Seq(S)
    OBVIOUS
  <2>. QED
    BY <2>1, PlainAssumption
<1>. QED
  BY <1>1, <1>2, ConcatProperties DEF Strip

LEMMA SpreadNames ==
  ASSUME NEW f, NEW g, DOMAIN f \subseteq STRING, DOMAIN g \subseteq STRING
  PROVE  DOMAIN Over(f, g) \subseteq STRING
BY DEF Over

LEMMA GroupsAreNamed ==
  ASSUME NEW pat \in Pathname, NEW p
  PROVE  DOMAIN Groups(pat, p) \subseteq STRING
<1>1. \A i \in Slots(pat) : pat.segs[i].name \in STRING
  <2>1. pat.segs \in Seq(Segment) /\ DOMAIN pat.segs = 1 .. Len(pat.segs)
    BY LenProperties DEF Pathname
  <2>2. \A i \in DOMAIN pat.segs : pat.segs[i] \in Segment
    BY <2>1, ElementOfSeq
  <2>. QED
    BY <2>2 DEF Slots, Segment
<1>2. pat.wild \in STRING
  BY DEF Pathname
<1> DEFINE names == {pat.segs[i].name : i \in Slots(pat)}
<1>3. names \subseteq STRING
  BY <1>1
<1>. QED
  BY <1>2, <1>3 DEF Groups

\* Two sequences are the same if their lengths and their elements are.
LEMMA SameSequence ==
  ASSUME NEW S, NEW p \in Seq(S), NEW q \in Seq(S), Len(p) = Len(q),
         \A i \in 1 .. Len(p) : p[i] = q[i]
  PROVE  p = q
BY SeqEqual

\* Where a run of slashes in front and at the end stops.
LEMMA NormalizeCuts ==
  ASSUME NEW p, NEW n \in Nat, NEW a \in 1 .. n, NEW b \in 1 .. n, DOMAIN p = 1 .. n,
         p[a] # Slash, p[b] # Slash,
         \A i \in 1 .. n : i < a \/ i > b => p[i] = Slash
  PROVE  Normalize(p) = SubSeq(p, a, b)
<1> DEFINE kept == {i \in DOMAIN p : p[i] # Slash}
<1>1. a \in kept /\ b \in kept /\ \A i \in kept : i \in Nat /\ a <= i /\ i <= b
  OBVIOUS
<1>2. kept # {} /\ Normalize(p) = SubSeq(p, Min(kept), Max(kept))
  BY <1>1 DEF Normalize
<1> HIDE DEF kept
<1>3. Min(kept) = a
  <2>1. \A j \in kept : (\A k \in kept : j <= k) => j = a
    BY <1>1
  <2>. QED
    BY <1>1, <2>1 DEF Min
<1>4. Max(kept) = b
  <2>1. \A j \in kept : (\A k \in kept : j >= k) => j = b
    BY <1>1
  <2>. QED
    BY <1>1, <2>1 DEF Max
<1>. QED
  BY <1>2, <1>3, <1>4

LEMMA NormalizeOfNone ==
  ASSUME NEW p, DOMAIN p = {}
  PROVE  Normalize(p) = <<>>
BY DEF Normalize

\* A pathname without slashes in front and at the end is normalized.
LEMMA NormalizeIdle ==
  ASSUME NEW S, Slash \notin S, NEW p \in Seq(S)
  PROVE  Normalize(p) = p
<1>1. Len(p) \in Nat /\ DOMAIN p = 1 .. Len(p) /\ \A i \in 1 .. Len(p) : p[i] \in S
  BY LenProperties, ElementOfSeq
<1>2. CASE Len(p) = 0
  <2>1. p = <<>>
    BY <1>2, EmptySeq
  <2>2. DOMAIN p = {}
    BY <1>1, <1>2
  <2>. QED
    BY <2>1, <2>2, NormalizeOfNone
<1>3. CASE Len(p) # 0
  <2>1. 1 \in 1 .. Len(p) /\ Len(p) \in 1 .. Len(p)
    BY <1>1, <1>3
  <2>2. Normalize(p) = SubSeq(p, 1, Len(p))
    <3>1. p[1] # Slash /\ p[Len(p)] # Slash
      BY <1>1, <2>1
    <3>2. \A i \in 1 .. Len(p) : ~(i < 1 \/ i > Len(p))
      BY <1>1
    <3>. QED
      BY <1>1, <2>1, <3>1, <3>2, NormalizeCuts
  <2>3. SubSeq(p, 1, Len(p)) = p
    OBVIOUS
  <2>. QED
    BY <2>2, <2>3
<1>. QED
  BY <1>2, <1>3

\* A slash in front of such a pathname is taken off.
LEMMA NormalizeSlash ==
  ASSUME NEW S, Slash \notin S, NEW p \in Seq(S)
  PROVE  Normalize(<<Slash>> \o p) = p
<1> DEFINE T == S \cup {Slash}
           q == <<Slash>> \o p
           n == Len(p)
<1>1. n \in Nat /\ \A i \in 1 .. n : p[i] \in S
  BY LenProperties, ElementOfSeq
<1>2. p \in Seq(T)
  BY SeqMonotonic
<1>3. <<Slash>> \in Seq(T) /\ Len(<<Slash>>) = 1 /\ <<Slash>>[1] = Slash
  OBVIOUS
<1>4. /\ q \in Seq(T) /\ Len(q) = n + 1
      /\ q[1] = Slash
      /\ \A i \in 1 .. n : q[i + 1] = p[i]
  <2> HIDE DEF T
  <2> DEFINE h == <<Slash>>
  <2>0. h \in Seq(T) /\ Len(h) = 1 /\ h[1] = Slash
    BY <1>3
  <2> HIDE DEF h
  <2>1. /\ h \o p \in Seq(T) /\ Len(h \o p) = Len(h) + Len(p)
        /\ \A i \in 1 .. Len(h) + Len(p) :
             (h \o p)[i] = IF i <= Len(h) THEN h[i] ELSE p[i - Len(h)]
    BY <1>2, <2>0, ConcatProperties
  <2>2. \A i \in 1 .. n : i + 1 \in 1 .. 1 + n /\ ~(i + 1 <= 1) /\ i + 1 - 1 = i
    BY <1>1
  <2>3. (h \o p)[1] = Slash
    BY <1>1, <2>0, <2>1
  <2>4. \A i \in 1 .. n : (h \o p)[i + 1] = p[i]
    BY <1>1, <2>0, <2>1, <2>2
  <2>. QED
    BY <1>1, <2>0, <2>1, <2>3, <2>4 DEF h
<1>5. DOMAIN q = 1 .. n + 1
  BY <1>4, LenProperties
<1> HIDE DEF q
<1>6. CASE n = 0
  <2>1. p = <<>>
    BY <1>6, EmptySeq
  <2>2. {i \in DOMAIN q : q[i] # Slash} = {}
    BY <1>4, <1>5, <1>6
  <2>. QED
    BY <2>1, <2>2 DEF Normalize, q
<1>7. CASE n # 0
  <2>1. 2 \in 1 .. n + 1 /\ n + 1 \in 1 .. n + 1 /\ 1 \in 1 .. n /\ n \in 1 .. n
    BY <1>1, <1>7
  <2>2. q[2] = p[1] /\ q[n + 1] = p[n]
    <3>1. q[1 + 1] = p[1]
      BY <1>4, <2>1
    <3>. QED
      BY <1>4, <2>1, <3>1
  <2>3. Normalize(q) = SubSeq(q, 2, n + 1)
    <3>1. q[2] # Slash /\ q[n + 1] # Slash
      BY <1>1, <2>1, <2>2
    <3>2. \A i \in 1 .. n + 1 : i < 2 \/ i > n + 1 => q[i] = Slash
      BY <1>1, <1>4
    <3>3. n + 1 \in Nat
      BY <1>1
    <3>. QED
      BY <1>5, <2>1, <3>1, <3>2, <3>3, NormalizeCuts
  <2>4. /\ SubSeq(q, 2, n + 1) \in Seq(T) /\ Len(SubSeq(q, 2, n + 1)) = n
        /\ \A i \in 1 .. n : SubSeq(q, 2, n + 1)[i] = q[2 + i - 1]
    <3>1. \A i \in 2 .. n + 1 : q[i] \in T
      BY <1>1, <1>4, ElementOfSeq
    <3>2. n + 1 \in Nat /\ 2 \in Nat \ {0} /\ 2 <= n + 1 /\ n + 1 - 2 + 1 = n
      BY <1>1, <2>1
    <3> HIDE DEF T
    <3> DEFINE u == SubSeq(q, 2, n + 1)
    <3>3. /\ u \in Seq(T)
          /\ Len(u) = IF 2 <= n + 1 THEN n + 1 - 2 + 1 ELSE 0
          /\ \A i \in 1 .. n + 1 - 2 + 1 : u[i] = q[2 + i - 1]
      BY <1>4, <3>1, <3>2, SubSeqProperties
    <3>. QED
      BY <3>2, <3>3
  <2>5. \A i \in 1 .. n : SubSeq(q, 2, n + 1)[i] = p[i]
    <3>1. \A i \in 1 .. n : 2 + i - 1 = i + 1
      BY <1>1
    <3>. QED
      BY <1>4, <2>4, <3>1
  <2>6. SubSeq(q, 2, n + 1) = p
    BY <1>2, <2>4, <2>5, SameSequence
  <2>. QED
    BY <2>3, <2>6 DEF q
<1>. QED
  BY <1>6, <1>7

\* What is left of a pathname behind its first segments.
Bare(segs) == [segs |-> segs, wild |-> NoWildcard]

LEMMA BeyondIs ==
  ASSUME NEW S, NEW p \in Seq(S), NEW x \in Seq(Segment)
  PROVE  LET q == Beyond(Bare(x), p)
             n == Len(x)
         IN  /\ q \in Seq(S)
             /\ n <= Len(p) => /\ Len(q) = Len(p) - n
                               /\ \A i \in 1 .. Len(p) - n : q[i] = p[n + i]
             /\ n = 0 => q = p
<1> DEFINE n == Len(x)
           m == Len(p)
           q == SubSeq(p, n + 1, m)
<1>1. n \in Nat /\ m \in Nat /\ n + 1 \in Nat \ {0}
  BY LenProperties
<1>2. \A i \in n + 1 .. m : p[i] \in S
  BY <1>1, ElementOfSeq
<1>3. /\ q \in Seq(S)
      /\ Len(q) = IF n + 1 <= m THEN m - (n + 1) + 1 ELSE 0
      /\ \A i \in 1 .. m - (n + 1) + 1 : q[i] = p[n + 1 + i - 1]
  <2> HIDE DEF n
  <2>. QED
    BY <1>1, <1>2, SubSeqProperties
<1>4. q = Beyond(Bare(x), p)
  BY DEF Beyond, Bare
<1> HIDE DEF q, n
<1>5. n <= m => Len(q) = m - n /\ \A i \in 1 .. m - n : q[i] = p[n + i]
  <2>1. ASSUME n <= m PROVE Len(q) = m - n
    BY <1>1, <1>3, <2>1
  <2>2. ASSUME n <= m, NEW i \in 1 .. m - n PROVE q[i] = p[n + i]
    <3>1. i \in 1 .. m - (n + 1) + 1 /\ n + 1 + i - 1 = n + i
      BY <1>1, <2>2
    <3>. QED
      BY <1>3, <3>1
  <2>. QED
    BY <2>1, <2>2
<1>6. n = 0 => q = p
  <2>1. ASSUME n = 0 PROVE q = p
    <3>1. Len(q) = m /\ \A i \in 1 .. m : q[i] = p[i]
      BY <1>1, <1>5, <2>1
    <3>. QED
      BY <1>3, <3>1, SameSequence
  <2>. QED
    BY <2>1
<1>. QED
  BY <1>3, <1>4, <1>5, <1>6 DEF n

\* The segments of two pathnames, one behind the other, take what the first takes and then
\* what the second takes of what is left.
LEMMA BeginsInTurn ==
  ASSUME NEW S, NEW p \in Seq(S), NEW x \in Seq(Segment), NEW y \in Seq(Segment)
  PROVE  LET u == Bare(x)
             v == Bare(y)
             w == Bare(x \o y)
         IN  /\ Begins(w, p) <=> Begins(u, p) /\ Begins(v, Beyond(u, p))
             /\ Begins(u, p) /\ Begins(v, Beyond(u, p)) =>
                  Beyond(w, p) = Beyond(v, Beyond(u, p))
<1> DEFINE u == Bare(x)
           v == Bare(y)
           z == x \o y
           w == Bare(z)
           a == Len(x)
           b == Len(y)
           c == Len(z)
           m == Len(p)
           q == Beyond(u, p)
           Takes(s, e) == IF s.slot THEN e \in Plain ELSE e = s.name
<1>1. a \in Nat /\ b \in Nat /\ m \in Nat
  BY LenProperties
<1>2. /\ z \in Seq(Segment) /\ c = a + b
      /\ \A i \in 1 .. a + b : z[i] = IF i <= a THEN x[i] ELSE y[i - a]
  BY ConcatProperties
<1>3. DOMAIN x = 1 .. a /\ DOMAIN y = 1 .. b /\ DOMAIN z = 1 .. c
  BY <1>2, LenProperties
<1>4. u.segs = x /\ v.segs = y /\ w.segs = z
  BY DEF Bare
<1>5. /\ q \in Seq(S)
      /\ a <= m => Len(q) = m - a /\ \A i \in 1 .. m - a : q[i] = p[a + i]
  BY BeyondIs
<1>6. /\ Begins(u, p) <=> a <= m /\ \A i \in 1 .. a : Takes(x[i], p[i])
      /\ Begins(v, q) <=> b <= Len(q) /\ \A i \in 1 .. b : Takes(y[i], q[i])
      /\ Begins(w, p) <=> c <= m /\ \A i \in 1 .. c : Takes(z[i], p[i])
  <2> HIDE DEF u, v, w, z, q
  <2>. QED
    BY <1>3, <1>4 DEF Begins
<1> HIDE DEF q, z
<1>7. /\ Beyond(w, p) \in Seq(S)
      /\ c <= m => /\ Len(Beyond(w, p)) = m - c
                   /\ \A i \in 1 .. m - c : Beyond(w, p)[i] = p[c + i]
  BY <1>2, BeyondIs
<1>8. /\ Beyond(v, q) \in Seq(S)
      /\ b <= Len(q) => /\ Len(Beyond(v, q)) = Len(q) - b
                        /\ \A i \in 1 .. Len(q) - b : Beyond(v, q)[i] = q[b + i]
  BY <1>5, BeyondIs
<1> HIDE DEF a, b, c, m, u, v, w, Takes
<1>9. ASSUME Begins(w, p) PROVE Begins(u, p) /\ Begins(v, q)
  <2>1. a + b <= m /\ \A i \in 1 .. a + b : Takes(z[i], p[i])
    BY <1>2, <1>6, <1>9
  <2>2. a <= m /\ b <= m - a
    BY <1>1, <2>1
  <2>3. \A i \in 1 .. a : i \in 1 .. a + b /\ i <= a
    BY <1>1
  <2>4. \A i \in 1 .. b : /\ a + i \in 1 .. a + b /\ ~(a + i <= a) /\ a + i - a = i
                         /\ i \in 1 .. m - a
    BY <1>1, <2>2
  <2>5. \A i \in 1 .. a : Takes(x[i], p[i])
    BY <1>2, <2>1, <2>3
  <2>6. ASSUME NEW i \in 1 .. b PROVE Takes(y[i], q[i])
    <3>1. q[i] = p[a + i] /\ Takes(z[a + i], p[a + i])
      BY <1>5, <2>1, <2>2, <2>4
    <3>2. z[a + i] = y[i]
      <4> DEFINE k == a + i
      <4>1. k \in 1 .. a + b /\ ~(k <= a) /\ k - a = i
        BY <1>1
      <4> HIDE DEF k
      <4>2. z[k] = y[k - a]
        BY <1>2, <4>1
      <4>. QED
        BY <4>1, <4>2 DEF k
    <3>. QED
      BY <3>1, <3>2
  <2>. QED
    BY <1>5, <1>6, <2>2, <2>5, <2>6
<1>10. ASSUME Begins(u, p), Begins(v, q) PROVE Begins(w, p) /\ Beyond(w, p) = Beyond(v, q)
  <2>1. a <= m /\ b <= m - a /\ Len(q) = m - a
    BY <1>5, <1>6, <1>10
  <2>2. ASSUME NEW i \in 1 .. a + b PROVE Takes(z[i], p[i])
    <3>1. CASE i <= a
      <4>1. i \in 1 .. a
        BY <1>1, <3>1
      <4>. QED
        BY <1>2, <1>6, <1>10, <3>1, <4>1
    <3>2. CASE ~(i <= a)
      <4>1. i - a \in 1 .. b /\ i - a \in 1 .. m - a /\ a + (i - a) = i
        BY <1>1, <2>1, <3>2
      <4>2. Takes(y[i - a], q[i - a])
        BY <1>6, <1>10, <4>1
      <4>3. z[i] = y[i - a] /\ q[i - a] = p[a + (i - a)]
        BY <1>2, <1>5, <2>1, <3>2, <4>1
      <4>. QED
        BY <4>1, <4>2, <4>3
    <3>. QED
      BY <3>1, <3>2
  <2>3. c <= m /\ m - c = m - a - b
    BY <1>1, <1>2, <2>1
  <2>4. Begins(w, p)
    BY <1>2, <1>6, <2>2, <2>3
  <2>5. ASSUME NEW i \in 1 .. m - c PROVE Beyond(w, p)[i] = Beyond(v, q)[i]
    <3>1. b + i \in 1 .. m - a /\ a + (b + i) = c + i /\ i \in 1 .. m - a - b
      BY <1>1, <1>2, <2>1, <2>5
    <3>2. Beyond(v, q)[i] = q[b + i] /\ q[b + i] = p[a + (b + i)]
      BY <1>5, <1>8, <2>1, <3>1
    <3>. QED
      BY <1>7, <2>3, <3>1, <3>2
  <2>6. Len(Beyond(w, p)) = m - c /\ Len(Beyond(v, q)) = m - c
    BY <1>7, <1>8, <2>1, <2>3
  <2>. QED
    BY <1>7, <1>8, <2>4, <2>5, <2>6, SameSequence
<1>. QED
  BY <1>9, <1>10 DEF q, u, v, w, z

\* What is taken of a pathname depends on the segments only.
LEMMA BeginsBySegments ==
  ASSUME NEW u, NEW w, u.segs = w.segs, NEW p
  PROVE  (Begins(u, p) <=> Begins(w, p)) /\ Beyond(u, p) = Beyond(w, p)
BY DEF Begins, Beyond

----------------------------------------------------------------------------
(* Mounts.                                                                 *)

\* The innermost mount above an entry comes before it, and all others enclose that one too.
LEMMA AboveIs ==
  ASSUME NEW t, WellFormed(t), NEW i \in Entries(t)
  PROVE  /\ Above(t, i) \in 0 .. i - 1
         /\ Above(t, i) # 0 => Above(t, i) \in Entries(t) /\ Encloses(t, Above(t, i), i)
         /\ \A m \in Entries(t) : Encloses(t, m, i) => m <= Above(t, i)
<1> DEFINE S == {0} \cup {m \in Entries(t) : Encloses(t, m, i)}
<1>1. Len(t) \in Nat /\ i \in 1 .. Len(t) /\ Entries(t) = 1 .. Len(t)
  BY DEF WellFormed, Entries
<1>2. S \subseteq 0 .. Len(t) /\ S # {}
  BY <1>1
<1>3. \E j \in S : \A k \in S : j >= k
  <2> HIDE DEF S
  <2>. QED
    BY <1>1, <1>2, HasMaximum
<1>4. Above(t, i) = CHOOSE j \in S : \A k \in S : j >= k
  BY DEF Above, Max
<1>5. Above(t, i) \in S /\ \A k \in S : Above(t, i) >= k
  <2> HIDE DEF S
  <2>. QED
    BY <1>3, <1>4
<1>. QED
  BY <1>1, <1>5 DEF Encloses

\* What holds of no entry at all, and of an entry whenever it does of the mount above it.
LEMMA DownTheMounts ==
  ASSUME NEW t, WellFormed(t), NEW S, 0 \in S,
         \A i \in Entries(t) : Above(t, i) \in S => i \in S
  PROVE  0 .. Len(t) \subseteq S
<1> DEFINE T == (0 .. Len(t)) \ S
<1>1. Len(t) \in Nat /\ Entries(t) = 1 .. Len(t)
  BY DEF WellFormed, Entries
<1>2. SUFFICES ASSUME T # {} PROVE FALSE
  OBVIOUS
<1>3. PICK j \in T : \A k \in T : j <= k
  <2>1. T \subseteq Nat
    BY <1>1
  <2> HIDE DEF T
  <2>. QED
    BY <1>2, <2>1, HasMinimum
<1>4. j \in Entries(t)
  BY <1>1
<1>5. Above(t, j) \in 0 .. j - 1
  BY <1>4, AboveIs
<1>6. Above(t, j) \in S
  BY <1>1, <1>3, <1>5
<1>. QED
  BY <1>4, <1>6

\* The entry that mounts the router of another one.
Mounts(t, m, i) == m \in Entries(t) /\ t[m].sub = t[i].router

LEMMA MountIs ==
  ASSUME NEW t, WellFormed(t), NEW i \in Entries(t), NEW m, Mounts(t, m, i)
  PROVE  /\ m \in Entries(t) /\ t[m].sub # NoRouter
         /\ m < i /\ Encloses(t, m, i) /\ t[i].last <= t[m].last
         /\ t[i].router # Root
<1>1. m \in Entries(t) /\ t[i] \in Entry /\ t[m] \in Entry
  BY EntryIs DEF Mounts
<1>2. t[m].sub # NoRouter
  BY <1>1, RootAssumption DEF Mounts, Entry
<1>3. m < i /\ t[i].last <= t[m].last
  BY <1>1, <1>2 DEF WellFormed, Mounts
<1>4. /\ t[i].last \in Nat /\ t[m].last \in Nat /\ i <= t[i].last
      /\ i \in Nat /\ m \in Nat
  BY <1>1, EntryIs
<1>5. Encloses(t, m, i)
  BY <1>3, <1>4 DEF Encloses
<1>. QED
  BY <1>1, <1>2, <1>3, <1>5 DEF WellFormed

LEMMA MountExists ==
  ASSUME NEW t, WellFormed(t), NEW i \in Entries(t), t[i].router # Root
  PROVE  \E m \in Entries(t) : Mounts(t, m, i)
BY DEF WellFormed, Mounts

\* No entry between an entry and its mount encloses the entry.
LEMMA NothingBetween ==
  ASSUME NEW t, WellFormed(t), NEW i \in Entries(t), NEW m, Mounts(t, m, i),
         NEW x \in Entries(t), m < x, Encloses(t, x, i)
  PROVE  FALSE
<1> DEFINE Bad(k, y) == y \in Entries(t) /\ Encloses(t, y, k)
                        /\ \E b \in Entries(t) : Mounts(t, b, k) /\ b < y
           T == {k \in Entries(t) : \E y \in Entries(t) : Bad(k, y)}
<1>1. Entries(t) \subseteq Nat
  BY EntryIs
<1>2. T \subseteq Nat /\ T # {}
  <2>1. Bad(i, x)
    BY DEF Mounts
  <2>. QED
    BY <1>1, <2>1
<1>3. PICK k \in T : \A l \in T : k <= l
  <2> HIDE DEF T
  <2>. QED
    BY <1>2, HasMinimum
<1>4. k \in Entries(t) /\ \A l \in Entries(t), y \in Entries(t) : l < k => ~Bad(l, y)
  BY <1>1, <1>3
<1> DEFINE U == {y \in Entries(t) : Bad(k, y)}
<1>5. PICK y \in U : \A z \in U : y <= z
  <2>1. U \subseteq Nat /\ U # {}
    BY <1>1, <1>3
  <2> HIDE DEF U
  <2>. QED
    BY <2>1, HasMinimum
<1>6. PICK b \in Entries(t) : Mounts(t, b, k) /\ b < y
  BY <1>5
<1>7. /\ y \in Entries(t) /\ Encloses(t, y, k)
      /\ \A z \in Entries(t) : z < y => ~Bad(k, z)
  BY <1>1, <1>5
<1> HIDE DEF T, U
<1>8. /\ b < y /\ y < k /\ k <= t[y].last /\ k <= t[b].last
      /\ t[y].last \in Nat /\ t[b].last \in Nat /\ y \in Nat /\ b \in Nat /\ k \in Nat
  BY <1>4, <1>6, <1>7, MountIs, EntryIs DEF Encloses
<1>9. Encloses(t, b, y)
  BY <1>8 DEF Encloses
<1>10. t[y].router # Root
  BY <1>6, <1>7, <1>9 DEF WellFormed
<1>11. PICK c \in Entries(t) : Mounts(t, c, y)
  BY <1>7, <1>10, MountExists
<1>12. c < y /\ t[y].last <= t[c].last /\ c \in Nat /\ t[c].last \in Nat
  BY <1>7, <1>11, MountIs, EntryIs
<1>13. CASE c = b
  <2>1. t[y].router = t[k].router
    BY <1>6, <1>11, <1>13 DEF Mounts
  <2>2. t[y].last < k
    BY <1>4, <1>7, <1>8, <2>1, NextIsBeyond
  <2>. QED
    BY <1>8, <2>2
<1>14. CASE c > b
  <2>1. Encloses(t, c, k)
    BY <1>8, <1>12 DEF Encloses
  <2>2. Bad(k, c)
    BY <1>6, <1>14, <2>1
  <2>. QED
    BY <1>7, <1>12, <2>2
<1>15. CASE c < b
  <2>1. Encloses(t, c, b)
    BY <1>8, <1>12, <1>15 DEF Encloses
  <2>2. t[b].router # Root
    BY <1>6, <1>11, <2>1 DEF WellFormed
  <2>3. PICK d \in Entries(t) : Mounts(t, d, b)
    BY <1>6, <2>2, MountExists
  <2>4. d < b /\ t[b].last <= t[d].last /\ d \in Nat /\ t[d].last \in Nat
    BY <1>6, <2>3, MountIs, EntryIs
  <2>5. CASE d = c
    <3>1. t[b].router = t[y].router
      BY <1>11, <2>3, <2>5 DEF Mounts
    <3>2. t[b].last < y
      BY <1>6, <1>7, <1>8, <3>1, NextIsBeyond
    <3>. QED
      BY <1>8, <3>2
  <2>6. CASE d > c
    <3>1. Encloses(t, d, y)
      BY <1>8, <2>4 DEF Encloses
    <3>2. Bad(y, d)
      BY <1>11, <2>3, <2>6, <3>1
    <3>. QED
      BY <1>4, <1>7, <1>8, <2>3, <3>2
  <2>7. CASE d < c
    <3>1. Bad(b, c)
      BY <1>11, <2>1, <2>3, <2>7
    <3>2. b < k /\ b \in Entries(t) /\ c \in Entries(t)
      BY <1>6, <1>8, <1>11
    <3> HIDE DEF Bad
    <3>. QED
      BY <1>4, <3>1, <3>2
  <2>. QED
    BY <1>8, <1>12, <2>4, <2>5, <2>6, <2>7
<1>. QED
  BY <1>8, <1>12, <1>13, <1>14, <1>15

\* The mount of an entry is the innermost entry that encloses it; the entries of the root
\* router have none.
LEMMA MountIsAbove ==
  ASSUME NEW t, WellFormed(t), NEW i \in Entries(t), NEW m, Mounts(t, m, i)
  PROVE  Above(t, i) = m
<1>1. m \in Entries(t) /\ Encloses(t, m, i) /\ m \in Nat
  BY MountIs, EntryIs
<1>2. /\ Above(t, i) \in Nat /\ m <= Above(t, i)
      /\ Above(t, i) # 0 => Above(t, i) \in Entries(t) /\ Encloses(t, Above(t, i), i)
  <2>1. i \in Nat /\ Above(t, i) \in 0 .. i - 1
    BY AboveIs, EntryIs
  <2>2. m <= Above(t, i)
    BY <1>1, AboveIs
  <2>. QED
    BY <2>1, <2>2, AboveIs
<1>3. CASE m < Above(t, i)
  <2>1. Above(t, i) \in Entries(t) /\ Encloses(t, Above(t, i), i)
    BY <1>1, <1>2, <1>3
  <2>. QED
    BY <1>3, <2>1, NothingBetween
<1>. QED
  BY <1>1, <1>2, <1>3

LEMMA AboveOfRouter ==
  ASSUME NEW t, WellFormed(t), NEW i \in Entries(t)
  PROVE  IF t[i].router = Root THEN Above(t, i) = 0
         ELSE Above(t, i) # 0 /\ Mounts(t, Above(t, i), i)
<1>1. CASE t[i].router = Root
  <2>1. \A m \in Entries(t) : ~Encloses(t, m, i)
    BY <1>1 DEF WellFormed
  <2>. QED
    BY <1>1, <2>1, AboveIs
<1>2. CASE t[i].router # Root
  <2>1. PICK m \in Entries(t) : Mounts(t, m, i)
    BY <1>2, MountExists
  <2>2. m # 0 /\ Above(t, i) = m
    BY <2>1, MountIsAbove DEF Entries
  <2>. QED
    BY <1>2, <2>1, <2>2
<1>. QED
  BY <1>1, <1>2

\* What encloses an entry ends behind all that is below the entry.
LEMMA Nested ==
  ASSUME NEW t, WellFormed(t), NEW i \in Entries(t), NEW m \in Entries(t),
         Encloses(t, m, i)
  PROVE  t[i].last <= t[m].last
<1> DEFINE S == {x \in 0 .. Len(t) : x # 0 => \A k \in Entries(t) :
                   Encloses(t, k, x) => t[x].last <= t[k].last}
<1>1. Len(t) \in Nat /\ Entries(t) = 1 .. Len(t)
  BY DEF WellFormed, Entries
<1>2. 0 \in S
  BY <1>1
<1>3. ASSUME NEW x \in Entries(t), Above(t, x) \in S PROVE x \in S
  <2>1. SUFFICES ASSUME NEW k \in Entries(t), Encloses(t, k, x)
                 PROVE  t[x].last <= t[k].last
    BY <1>1
  <2> DEFINE a == Above(t, x)
  <2>2. k <= a /\ a \in Nat /\ a < x
    BY <1>1, <2>1, AboveIs
  <2>3. a \in Entries(t) /\ Encloses(t, a, x) /\ a # 0
    BY <1>1, <2>2, AboveIs
  <2>4. t[x].last <= t[a].last
    BY <2>3, AboveOfRouter, MountIs
  <2>5. t[x].last \in Nat /\ t[a].last \in Nat /\ t[k].last \in Nat /\ x \in Nat /\ k \in Nat
    BY <2>3, EntryIs
  <2>6. CASE k # a
    <3>1. Encloses(t, k, a)
      BY <2>1, <2>2, <2>5, <2>6 DEF Encloses
    <3>2. t[a].last <= t[k].last
      BY <1>3, <2>3, <3>1
    <3>. QED
      BY <2>4, <2>5, <3>2
  <2>. QED
    BY <2>4, <2>6
<1> HIDE DEF S
<1>4. 0 .. Len(t) \subseteq S
  BY <1>2, <1>3, DownTheMounts
<1>5. i \in S /\ i # 0
  BY <1>1, <1>4
<1>. QED
  BY <1>5 DEF S

\* An entry is enclosed by the innermost mount above it, and by what encloses that one.
LEMMA Enclosers ==
  ASSUME NEW t, WellFormed(t), NEW i \in Entries(t), NEW m \in Entries(t)
  PROVE  Encloses(t, m, i) <=>
           Above(t, i) \in Entries(t) /\ (m = Above(t, i) \/ Encloses(t, m, Above(t, i)))
<1> DEFINE a == Above(t, i)
<1>1. /\ a \in 0 .. i - 1 /\ (a # 0 => a \in Entries(t) /\ Encloses(t, a, i))
      /\ \A k \in Entries(t) : Encloses(t, k, i) => k <= a
  BY AboveIs
<1>2. i \in Nat /\ m \in Nat /\ i # 0 /\ m # 0 /\ 0 \notin Entries(t) /\ t[m].last \in Nat
      /\ i <= t[i].last /\ t[i].last \in Nat
  <2>1. 0 \notin Entries(t)
    BY DEF WellFormed, Entries
  <2>. QED
    BY <2>1, EntryIs
<1> HIDE DEF a
<1>3. ASSUME Encloses(t, m, i) PROVE a \in Entries(t) /\ (m = a \/ Encloses(t, m, a))
  <2>1. m <= a
    BY <1>1, <1>3
  <2>. QED
    BY <1>1, <1>2, <1>3, <2>1 DEF Encloses
<1>4. ASSUME a \in Entries(t), m = a \/ Encloses(t, m, a) PROVE Encloses(t, m, i)
  <2>1. Encloses(t, a, i) /\ a # 0
    BY <1>1, <1>2, <1>4
  <2>2. CASE Encloses(t, m, a)
    <3>1. t[a].last <= t[m].last /\ t[a].last \in Nat /\ a \in Nat
      BY <1>4, <2>2, Nested, EntryIs
    <3>. QED
      BY <1>1, <1>2, <2>1, <2>2, <3>1 DEF Encloses
  <2>. QED
    BY <1>4, <2>1, <2>2
<1>. QED
  BY <1>3, <1>4 DEF a

\* Whatever is below a mount is an entry of its router or below one.
LEMMA Ancestor ==
  ASSUME NEW t, WellFormed(t), NEW j \in Entries(t), NEW m,
         m = 0 \/ (m \in Entries(t) /\ Encloses(t, m, j))
  PROVE  \E c \in Entries(t) : Above(t, c) = m /\ c <= j /\ j <= t[c].last
<1> DEFINE In(k, x) == k = 0 \/ (k \in Entries(t) /\ Encloses(t, k, x))
           S == {x \in 0 .. Len(t) : x # 0 => \A k \in 0 .. Len(t) : In(k, x) =>
                  \E c \in Entries(t) : Above(t, c) = k /\ c <= x /\ x <= t[c].last}
<1>1. Len(t) \in Nat /\ Entries(t) = 1 .. Len(t)
  BY DEF WellFormed, Entries
<1>2. 0 \in S
  BY <1>1
<1>3. ASSUME NEW x \in Entries(t), Above(t, x) \in S PROVE x \in S
  <2>1. SUFFICES ASSUME NEW k \in 0 .. Len(t), In(k, x)
                 PROVE  \E c \in Entries(t) : Above(t, c) = k /\ c <= x /\ x <= t[c].last
    BY <1>1
  <2> DEFINE a == Above(t, x)
  <2>2. a \in Nat /\ (a # 0 => a \in Entries(t) /\ Encloses(t, a, x)) /\ x \in Nat
        /\ x <= t[x].last /\ t[x].last \in Nat
    BY <1>1, AboveIs, EntryIs
  <2>3. CASE k = a
    BY <2>2, <2>3
  <2>4. CASE k # a
    <3>1. a \in Entries(t) /\ a # 0 /\ In(k, a)
      <4>1. CASE k = 0
        BY <1>1, <2>2, <2>4, <4>1
      <4>2. CASE k # 0
        <5>1. k \in Entries(t) /\ Encloses(t, k, x)
          BY <2>1, <4>2
        <5>2. a \in Entries(t) /\ Encloses(t, k, a)
          BY <2>4, <5>1, Enclosers
        <5>. QED
          BY <1>1, <5>1, <5>2
      <4>. QED
        BY <4>1, <4>2
    <3>2. PICK c \in Entries(t) : Above(t, c) = k /\ c <= a /\ a <= t[c].last
      BY <1>3, <3>1
    <3>3. c \in Nat /\ a < x /\ x <= t[a].last
      BY <1>1, <2>2, <3>1, EntryIs DEF Encloses
    <3>4. x <= t[c].last
      <4>1. CASE c = a
        BY <3>3, <4>1
      <4>2. CASE c # a
        <5>1. Encloses(t, c, a)
          BY <2>2, <3>2, <3>3, <4>2 DEF Encloses
        <5>2. Encloses(t, c, x)
          BY <3>1, <5>1, Enclosers
        <5>. QED
          BY <5>2 DEF Encloses
      <4>. QED
        BY <4>1, <4>2
    <3>. QED
      BY <2>2, <3>2, <3>3, <3>4
  <2>. QED
    BY <2>3, <2>4
<1>4. 0 .. Len(t) \subseteq S
  <2> HIDE DEF S
  <2>. QED
    BY <1>2, <1>3, DownTheMounts
<1>5. j \in S /\ j # 0 /\ m \in 0 .. Len(t) /\ In(m, j)
  <2> HIDE DEF S
  <2>. QED
    BY <1>1, <1>4
<1>. QED
  BY <1>5

\* The loop of a router, going on from an entry on, does not pass an entry in its reach
\* that was not below the entries before.
LEMMA NoneIsPassed ==
  ASSUME NEW t, WellFormed(t), NEW j \in Entries(t), NEW m, NEW r,
         IF m = 0 THEN r = Root
         ELSE m \in Entries(t) /\ t[m].sub = r /\ r # NoRouter /\ Encloses(t, m, j),
         NEW e \in Nat,
         \A k \in Entries(t) : t[k].router = r /\ k < e => t[k].last < j
  PROVE  FirstFrom(t, r, e) <= j
<1>1. PICK c \in Entries(t) : Above(t, c) = m /\ c <= j /\ j <= t[c].last
  BY Ancestor
<1>2. t[c].router = r
  BY <1>1, AboveOfRouter DEF Mounts
<1>3. c \in Nat /\ t[c].last \in Nat /\ j \in Nat
  BY EntryIs
<1>4. c >= e
  BY <1>1, <1>2, <1>3
<1> DEFINE rest == {k \in EntriesOf(t, r) : k >= e}
<1>5. c \in rest /\ rest \subseteq Nat
  BY <1>2, <1>4, EntryIs DEF EntriesOf
<1>6. \E k \in rest : \A l \in rest : k <= l
  <2> HIDE DEF rest
  <2>. QED
    BY <1>5, HasMinimum
<1>7. FirstFrom(t, r, e) \in rest /\ FirstFrom(t, r, e) <= c
  BY <1>5, <1>6 DEF FirstFrom
<1>. QED
  BY <1>1, <1>3, <1>5, <1>7

----------------------------------------------------------------------------
(* What is handed down the mounts: the recursion of Pathnames and the like.*)

\* A function that is given by its value at the innermost mount above is defined.
Descends(f, t, base, step) ==
  f[0] = base /\ \A i \in Entries(t) : f[i] = step[<<i, f[Above(t, i)]>>]

LEMMA DownExists ==
  ASSUME NEW t, WellFormed(t), NEW V, NEW base \in V,
         NEW step \in [Entries(t) \X V -> V]
  PROVE  \E f \in [0 .. Len(t) -> V] : Descends(f, t, base, step)
<1> DEFINE To(k) == \E f \in [0 .. k -> V] :
             f[0] = base /\ \A i \in 1 .. k : f[i] = step[<<i, f[Above(t, i)]>>]
           T == {k \in 0 .. Len(t) : ~To(k)}
<1>1. Len(t) \in Nat /\ Entries(t) = 1 .. Len(t)
  BY DEF WellFormed, Entries
<1>2. SUFFICES ASSUME T # {} PROVE FALSE
  <2>1. Len(t) \in 0 .. Len(t)
    BY <1>1
  <2>. QED
    BY <1>1, <1>2, <2>1 DEF Descends
<1>3. PICK j \in T : \A k \in T : j <= k
  <2>1. T \subseteq Nat
    BY <1>1
  <2> HIDE DEF T
  <2>. QED
    BY <1>2, <2>1, HasMinimum
<1>4. j # 0
  <2>1. To(0)
    <3> DEFINE f == [x \in 0 .. 0 |-> base]
    <3>1. f \in [0 .. 0 -> V] /\ f[0] = base /\ 1 .. 0 = {}
      OBVIOUS
    <3> HIDE DEF f
    <3>. QED
      BY <3>1
  <2>. QED
    BY <2>1
<1>5. j \in Entries(t) /\ j - 1 \in 0 .. Len(t) /\ j \in Nat /\ ~To(j)
  BY <1>1, <1>4
<1>6. To(j - 1)
  BY <1>3, <1>5
<1>7. PICK f \in [0 .. j - 1 -> V] :
         f[0] = base /\ \A i \in 1 .. j - 1 : f[i] = step[<<i, f[Above(t, i)]>>]
  BY <1>6
<1>8. \A i \in 1 .. j : i \in Entries(t) /\ Above(t, i) \in 0 .. i - 1
  BY <1>1, <1>5, AboveIs
<1> DEFINE g == [x \in 0 .. j |-> IF x = j THEN step[<<j, f[Above(t, j)]>>] ELSE f[x]]
<1>9. f[Above(t, j)] \in V /\ <<j, f[Above(t, j)]>> \in Entries(t) \X V
  BY <1>5, <1>8
<1>10. g \in [0 .. j -> V] /\ g[0] = base
  BY <1>4, <1>5, <1>7, <1>9
<1>11. ASSUME NEW i \in 1 .. j PROVE g[i] = step[<<i, g[Above(t, i)]>>]
  <2>1. g[Above(t, i)] = f[Above(t, i)]
    BY <1>5, <1>8
  <2>2. CASE i = j
    <3>1. g[j] = step[<<j, f[Above(t, j)]>>]
      BY <1>5
    <3> HIDE DEF g
    <3>. QED
      BY <2>1, <2>2, <3>1
  <2>3. CASE i # j
    <3>1. i \in 1 .. j - 1 /\ g[i] = f[i]
      BY <1>5, <2>3
    <3>. QED
      BY <1>7, <2>1, <3>1
  <2>. QED
    BY <2>2, <2>3
<1> HIDE DEF g
<1>. QED
  BY <1>5, <1>10, <1>11

\* The pathnames above an entry, and its own, are what the definition says.
LEMMA PathnamesAre ==
  ASSUME NEW t, WellFormed(t)
  PROVE  /\ Pathnames(t) \in [0 .. Len(t) -> Seq(Pathname)]
         /\ Pathnames(t)[0] = <<>>
         /\ \A i \in Entries(t) :
              Pathnames(t)[i] = IF t[i].path = NoPathname THEN Pathnames(t)[Above(t, i)]
                                ELSE Append(Pathnames(t)[Above(t, i)], t[i].path)
<1> DEFINE V == Seq(Pathname)
           Body(i, v) == IF t[i].path = NoPathname THEN v ELSE Append(v, t[i].path)
           step == [x \in Entries(t) \X V |-> Body(x[1], x[2])]
           Fun(f) == [i \in 0 .. Len(t) |-> IF i = 0 THEN <<>> ELSE Body(i, f[Above(t, i)])]
<1>1. Len(t) \in Nat /\ Entries(t) = 1 .. Len(t) /\ <<>> \in V
  BY EmptySeq DEF WellFormed, Entries
<1>2. ASSUME NEW i \in Entries(t), NEW v \in V PROVE Body(i, v) \in V
  <2>1. t[i].path \in Pathname \cup {NoPathname}
    BY EntryIs DEF Entry
  <2>2. t[i].path \in Pathname => Append(v, t[i].path) \in V
    BY AppendProperties
  <2>. QED
    BY <2>1, <2>2
<1>3. step \in [Entries(t) \X V -> V]
  BY <1>2
<1>4. PICK f \in [0 .. Len(t) -> V] :
        f[0] = <<>> /\ \A i \in Entries(t) : f[i] = step[<<i, f[Above(t, i)]>>]
  <2> DEFINE base == <<>>
  <2>1. base \in V
    BY <1>1
  <2> HIDE DEF V, step, base, Body
  <2>2. \E f \in [0 .. Len(t) -> V] : Descends(f, t, base, step)
    BY <1>3, <2>1, DownExists
  <2>. QED
    BY <2>2 DEF base, Descends
<1>5. \A i \in Entries(t) : Above(t, i) \in 0 .. Len(t)
  BY <1>1, AboveIs
<1>6. \A i \in Entries(t) : f[i] = Body(i, f[Above(t, i)])
  <2>1. \A i \in Entries(t) : <<i, f[Above(t, i)]>> \in Entries(t) \X V
    BY <1>5
  <2> HIDE DEF V
  <2>. QED
    BY <1>4, <2>1
<1>7. f = Fun(f)
  <2> HIDE DEF Body, V
  <2>1. \A i \in 0 .. Len(t) : f[i] = Fun(f)[i]
    BY <1>1, <1>4, <1>6
  <2>2. f = [i \in 0 .. Len(t) |-> f[i]]
    OBVIOUS
  <2>. QED
    BY <2>1, <2>2
<1>8. Pathnames(t) = CHOOSE g : g = Fun(g)
  BY DEF Pathnames
<1>9. Pathnames(t) = Fun(Pathnames(t))
  <2> HIDE DEF Fun
  <2>. QED
    BY <1>7, <1>8
<1> DEFINE p == Pathnames(t)
<1>10. p[0] = <<>> /\ DOMAIN p = 0 .. Len(t)
       /\ \A i \in Entries(t) : p[i] = Body(i, p[Above(t, i)])
  <2> HIDE DEF Body, p
  <2>1. p = Fun(p)
    BY <1>9 DEF p
  <2>2. DOMAIN p = 0 .. Len(t)
    BY <2>1
  <2>3. \A i \in 0 .. Len(t) : p[i] = IF i = 0 THEN <<>> ELSE Body(i, p[Above(t, i)])
    BY <2>1
  <2>. QED
    BY <1>1, <2>2, <2>3
<1> HIDE DEF p
<1>11. 0 .. Len(t) \subseteq {i \in 0 .. Len(t) : p[i] \in V}
  <2> DEFINE S == {i \in 0 .. Len(t) : p[i] \in V}
  <2>1. 0 \in S
    <3>1. p[0] \in V /\ 0 \in 0 .. Len(t)
      BY <1>1, <1>10
    <3>. QED
      BY <3>1
  <2>2. \A i \in Entries(t) : Above(t, i) \in S => i \in S
    <3> HIDE DEF Body
    <3>. QED
      BY <1>1, <1>2, <1>10
  <2> HIDE DEF S
  <2>3. 0 .. Len(t) \subseteq S
    BY <2>1, <2>2, DownTheMounts
  <2>. QED
    BY <2>3 DEF S
<1>12. p \in [0 .. Len(t) -> V]
  <2>1. p = [i \in 0 .. Len(t) |-> p[i]]
    BY <1>9 DEF p
  <2>. QED
    BY <1>11, <2>1
<1>. QED
  BY <1>10, <1>12 DEF p
\* So are their segments.
LEMMA SegmentsAre ==
  ASSUME NEW t, WellFormed(t)
  PROVE  /\ Segments(t) \in [0 .. Len(t) -> Seq(Segment)]
         /\ Segments(t)[0] = <<>>
         /\ \A i \in Entries(t) :
              Segments(t)[i] = IF t[i].path = NoPathname THEN Segments(t)[Above(t, i)]
                                ELSE Segments(t)[Above(t, i)] \o t[i].path.segs
<1> DEFINE V == Seq(Segment)
           Body(i, v) == IF t[i].path = NoPathname THEN v ELSE v \o t[i].path.segs
           step == [x \in Entries(t) \X V |-> Body(x[1], x[2])]
           Fun(f) == [i \in 0 .. Len(t) |-> IF i = 0 THEN <<>> ELSE Body(i, f[Above(t, i)])]
<1>1. Len(t) \in Nat /\ Entries(t) = 1 .. Len(t) /\ <<>> \in V
  BY EmptySeq DEF WellFormed, Entries
<1>2. ASSUME NEW i \in Entries(t), NEW v \in V PROVE Body(i, v) \in V
  <2>1. t[i].path \in Pathname \cup {NoPathname}
    BY EntryIs DEF Entry
  <2>2. t[i].path \in Pathname => v \o t[i].path.segs \in V
    BY ConcatProperties DEF Pathname
  <2>. QED
    BY <2>1, <2>2
<1>3. step \in [Entries(t) \X V -> V]
  BY <1>2
<1>4. PICK f \in [0 .. Len(t) -> V] :
        f[0] = <<>> /\ \A i \in Entries(t) : f[i] = step[<<i, f[Above(t, i)]>>]
  <2> DEFINE base == <<>>
  <2>1. base \in V
    BY <1>1
  <2> HIDE DEF V, step, base, Body
  <2>2. \E f \in [0 .. Len(t) -> V] : Descends(f, t, base, step)
    BY <1>3, <2>1, DownExists
  <2>. QED
    BY <2>2 DEF base, Descends
<1>5. \A i \in Entries(t) : Above(t, i) \in 0 .. Len(t)
  BY <1>1, AboveIs
<1>6. \A i \in Entries(t) : f[i] = Body(i, f[Above(t, i)])
  <2>1. \A i \in Entries(t) : <<i, f[Above(t, i)]>> \in Entries(t) \X V
    BY <1>5
  <2> HIDE DEF V
  <2>. QED
    BY <1>4, <2>1
<1>7. f = Fun(f)
  <2> HIDE DEF Body, V
  <2>1. \A i \in 0 .. Len(t) : f[i] = Fun(f)[i]
    BY <1>1, <1>4, <1>6
  <2>2. f = [i \in 0 .. Len(t) |-> f[i]]
    OBVIOUS
  <2>. QED
    BY <2>1, <2>2
<1>8. Segments(t) = CHOOSE g : g = Fun(g)
  BY DEF Segments
<1>9. Segments(t) = Fun(Segments(t))
  <2> HIDE DEF Fun
  <2>. QED
    BY <1>7, <1>8
<1> DEFINE p == Segments(t)
<1>10. p[0] = <<>> /\ DOMAIN p = 0 .. Len(t)
       /\ \A i \in Entries(t) : p[i] = Body(i, p[Above(t, i)])
  <2> HIDE DEF Body, p
  <2>1. p = Fun(p)
    BY <1>9 DEF p
  <2>2. DOMAIN p = 0 .. Len(t)
    BY <2>1
  <2>3. \A i \in 0 .. Len(t) : p[i] = IF i = 0 THEN <<>> ELSE Body(i, p[Above(t, i)])
    BY <2>1
  <2>. QED
    BY <1>1, <2>2, <2>3
<1> HIDE DEF p
<1>11. 0 .. Len(t) \subseteq {i \in 0 .. Len(t) : p[i] \in V}
  <2> DEFINE S == {i \in 0 .. Len(t) : p[i] \in V}
  <2>1. 0 \in S
    <3>1. p[0] \in V /\ 0 \in 0 .. Len(t)
      BY <1>1, <1>10
    <3>. QED
      BY <3>1
  <2>2. \A i \in Entries(t) : Above(t, i) \in S => i \in S
    <3> HIDE DEF Body
    <3>. QED
      BY <1>1, <1>2, <1>10
  <2> HIDE DEF S
  <2>3. 0 .. Len(t) \subseteq S
    BY <2>1, <2>2, DownTheMounts
  <2>. QED
    BY <2>3 DEF S
<1>12. p \in [0 .. Len(t) -> V]
  <2>1. p = [i \in 0 .. Len(t) |-> p[i]]
    BY <1>9 DEF p
  <2>. QED
    BY <1>11, <2>1
<1>. QED
  BY <1>10, <1>12 DEF p
\* And so are the parameters of a pathname.
LEMMA ParametersAre ==
  ASSUME NEW t, WellFormed(t), NEW p
  PROVE  /\ Parameters(t, p)[0] = <<>>
         /\ \A i \in Entries(t) :
              Parameters(t, p)[i] =
                IF t[i].path = NoPathname THEN Parameters(t, p)[Above(t, i)]
                ELSE Over(Groups(t[i].path, Beyond(Mounted(t, i), p)),
                          Parameters(t, p)[Above(t, i)])
<1> DEFINE Own(i) == Groups(t[i].path, Beyond(Mounted(t, i), p))
           Names == STRING
           W == {Own(m)[x] : m \in Entries(t), x \in Names}
           V == UNION {[N -> W] : N \in SUBSET STRING}
           Body(i, v) == IF t[i].path = NoPathname THEN v ELSE Over(Own(i), v)
           step == [x \in Entries(t) \X V |-> Body(x[1], x[2])]
           Fun(f) == [i \in 0 .. Len(t) |-> IF i = 0 THEN <<>> ELSE Body(i, f[Above(t, i)])]
<1>1. Len(t) \in Nat /\ Entries(t) = 1 .. Len(t) /\ <<>> \in V
  <2>1. <<>> \in [{} -> W]
    OBVIOUS
  <2>2. {} \in SUBSET STRING
    OBVIOUS
  <2> HIDE DEF W
  <2>3. <<>> \in V
    BY <2>1, <2>2
  <2> HIDE DEF V
  <2>. QED
    BY <2>3 DEF WellFormed, Entries
<1>2. ASSUME NEW i \in Entries(t), NEW v \in V PROVE Body(i, v) \in V
  <2>1. SUFFICES ASSUME t[i].path # NoPathname PROVE Over(Own(i), v) \in V
    OBVIOUS
  <2>2. t[i].path \in Pathname
    BY <2>1, EntryIs DEF Entry
  <2>3. DOMAIN Own(i) \subseteq STRING
    BY <2>2, GroupsAreNamed
  <2>4. \A n \in DOMAIN Own(i) : Own(i)[n] \in W
    <3>1. ASSUME NEW n \in DOMAIN Own(i) PROVE Own(i)[n] \in W
      <4>1. n \in Names
        BY <2>3
      <4> HIDE DEF Own, Names
      <4>. QED
        BY <4>1
    <3> HIDE DEF W, Own
    <3>. QED
      BY <3>1
  <2>5. DOMAIN v \subseteq STRING /\ \A n \in DOMAIN v : v[n] \in W
    <3> HIDE DEF W
    <3>. QED
      OBVIOUS
  <2> DEFINE N == DOMAIN Own(i) \cup DOMAIN v
  <2>6. Over(Own(i), v) \in [N -> W]
    <3> HIDE DEF Own, W
    <3>. QED
      BY <2>4, <2>5 DEF Over
  <2>7. N \in SUBSET STRING
    BY <2>3, <2>5
  <2> HIDE DEF N, W, Own
  <2>. QED
    BY <2>6, <2>7
<1>3. step \in [Entries(t) \X V -> V]
  <2> HIDE DEF V, W, Body
  <2>. QED
    BY <1>2
<1>4. PICK f \in [0 .. Len(t) -> V] :
        f[0] = <<>> /\ \A i \in Entries(t) : f[i] = step[<<i, f[Above(t, i)]>>]
  <2> DEFINE base == <<>>
  <2>1. base \in V
    <3> HIDE DEF V
    <3>. QED
      BY <1>1
  <2> HIDE DEF V, W, Own, step, base, Body
  <2>2. \E f \in [0 .. Len(t) -> V] : Descends(f, t, base, step)
    BY <1>3, <2>1, DownExists
  <2>. QED
    BY <2>2 DEF base, Descends
<1>5. \A i \in Entries(t) : Above(t, i) \in 0 .. Len(t)
  BY <1>1, AboveIs
<1>6. \A i \in Entries(t) : f[i] = Body(i, f[Above(t, i)])
  <2>1. \A i \in Entries(t) : <<i, f[Above(t, i)]>> \in Entries(t) \X V
    BY <1>5
  <2> HIDE DEF V
  <2>. QED
    BY <1>4, <2>1
<1>7. f = Fun(f)
  <2> HIDE DEF Body, V
  <2>1. \A i \in 0 .. Len(t) : f[i] = Fun(f)[i]
    BY <1>1, <1>4, <1>6
  <2>2. f = [i \in 0 .. Len(t) |-> f[i]]
    OBVIOUS
  <2>. QED
    BY <2>1, <2>2
<1>8. Parameters(t, p) = CHOOSE g : g = Fun(g)
  BY DEF Parameters
<1>9. Parameters(t, p) = Fun(Parameters(t, p))
  <2> HIDE DEF Fun
  <2>. QED
    BY <1>7, <1>8
<1>10. /\ Parameters(t, p)[0] = <<>>
       /\ \A i \in Entries(t) :
            Parameters(t, p)[i] = Body(i, Parameters(t, p)[Above(t, i)])
  <2> HIDE DEF Body
  <2> DEFINE q == Parameters(t, p)
  <2>1. q = Fun(q)
    BY <1>9 DEF q
  <2> HIDE DEF q
  <2>2. \A i \in 0 .. Len(t) : q[i] = IF i = 0 THEN <<>> ELSE Body(i, q[Above(t, i)])
    BY <2>1
  <2>3. q[0] = <<>> /\ \A i \in Entries(t) : q[i] = Body(i, q[Above(t, i)])
    BY <1>1, <2>2
  <2>. QED
    BY <2>3 DEF q
<1>. QED
  BY <1>10

----------------------------------------------------------------------------
(* The inductive invariant.                                                *)

ValuesTyped ==
  /\ WellFormed(table) /\ request \in Request
  /\ phase \in Phases
  /\ DOMAIN params \subseteq STRING /\ route \in Seq(Pathname)
  /\ outcome \in Outcomes
  /\ called \in Seq(Nat \X Nat)
  /\ late \in Nat

\* The frames: where there are some, and which of them await one.
FramesFit ==
  /\ Framed(stack)
  /\ phase \in {"looking", "running"} => Depth > 0
  /\ phase = "running" => At(Top)
  /\ phase = "returning" /\ Depth > 0 => Awaits(Top, table[Top.entry].sub)
  /\ phase \in {"parsing", "waiting", "answered"} => stack = <<>>
  /\ phase = "parsing" => called = <<>>

\* A handler that was called is before the function that a loop is at, or it is that one;
\* or it is of an entry below the mount that a loop is at.
Before(c, f) == c[1] < f.entry \/ (c[1] = f.entry /\ c[2] < f.function)
UpTo(c, f)   == c[1] < f.entry \/ (c[1] = f.entry /\ c[2] <= f.function)
Below(c, f)  == c[1] <= table[f.entry].last

CalledBefore(f) == \A n \in 1 .. Len(called) : Before(called[n], f)
CalledUpTo(f)   == \A n \in 1 .. Len(called) : UpTo(called[n], f)
CalledBelow(f)  == \A n \in 1 .. Len(called) : Below(called[n], f)

LoopsInOrder ==
  /\ phase = "looking" /\ ~AtEnd => CalledBefore(Top)
  /\ phase = "running" => CalledUpTo(Top)
  /\ \A d \in 1 .. Depth : d < Depth \/ phase = "returning" => CalledBelow(stack[d])

IInv == ValuesTyped /\ FramesFit /\ LoopsInOrder /\ CalledInOrder

LEMMA IInvGivesTypeOK == IInv => TypeOK
<1> SUFFICES ASSUME IInv PROVE TypeOK
  OBVIOUS
<1>1. ASSUME NEW d \in 1 .. Depth
      PROVE  LET f == stack[d]
             IN  /\ LoopOf(f) \in Loop
                 /\ f.rest \in Seq(STRING)
                 /\ DOMAIN f.above \subseteq STRING
                 /\ f.route \in Seq(Pathname)
                 /\ f.entry <= Len(table) =>
                      table[f.entry].router = f.router /\ f.function \in 1 .. Size(f.entry)
  <2> DEFINE f == stack[d]
  <2>1. IsFrame(f) /\ Placed(f)
    BY FramesTyped DEF IInv, FramesFit, Depth
  <2> HIDE DEF f
  <2>2. LoopOf(f) \in Loop
    <3>1. LoopOf(f) = [router |-> f.router, entry |-> f.entry, function |-> f.function,
                       forward |-> f.forward, error |-> f.error]
      BY DEF LoopOf
    <3>. QED
      BY <2>1, <3>1 DEF IsFrame, Loop
  <2>3. f.entry <= Len(table) => At(f)
    <3>1. Len(table) \in Nat
      BY DEF IInv, ValuesTyped, WellFormed
    <3>. QED
      BY <2>1, <3>1 DEF Placed, End
  <2>. QED
    BY <2>1, <2>2, <2>3 DEF IsFrame, At, f
<1>. QED
  BY <1>1 DEF IInv, ValuesTyped, TypeOK

LEMMA InitIInv == Init => IInv
<1> SUFFICES ASSUME Init PROVE IInv
  OBVIOUS
<1>1. WellFormed(table) /\ request \in Request
  BY CasesAssumption DEF Init
<1>2. /\ phase = "parsing" /\ stack = <<>> /\ params = <<>> /\ route = <<>>
      /\ outcome = "pending" /\ called = <<>> /\ late = 0
  BY DEF Init
<1>3. ValuesTyped
  <2>1. DOMAIN params \subseteq STRING
    BY <1>2
  <2>. QED
    BY <1>1, <1>2, <2>1, EmptySeq DEF ValuesTyped, Phases, Outcomes
<1>4. Framed(stack)
  BY <1>2, EmptySeq DEF Framed
<1>. QED
  BY <1>2, <1>3, <1>4 DEF IInv, FramesFit, LoopsInOrder, CalledInOrder, Depth

\* A new frame is at the first entry of its router, and the next one at a later entry than
\* all that is below the one before.
LEMMA NewFrame ==
  ASSUME WellFormed(table), NEW r \in Routers, NEW rest \in Seq(STRING),
         NEW above, DOMAIN above \subseteq STRING, NEW parts \in Seq(Pathname)
  PROVE  LET f == Frame(r, rest, above, parts)
         IN  Placed(f) /\ f.router = r
<1> DEFINE f == Frame(r, rest, above, parts)
<1>1. /\ f.entry = End(table) \/ (f.entry \in Entries(table) /\ table[f.entry].router = r)
      /\ f.entry \in Nat
  BY FirstFromIs DEF Frame
<1>2. IsFrame(f) /\ f.router = r /\ f.function = 1
  BY <1>1 DEF Frame, IsFrame, Errors
<1> HIDE DEF f
<1>3. f.entry \in Entries(table) => 1 \in 1 .. Size(f.entry)
  BY EntryIs DEF Size, Entry
<1>. QED
  BY <1>1, <1>2, <1>3 DEF Placed, At, f

LEMMA NextEntryIs ==
  ASSUME WellFormed(table), NEW f, Placed(f), At(f)
  PROVE  LET g == NextEntry(f)
         IN  /\ Placed(g) /\ g.router = f.router
             /\ g.entry # End(table) => f.entry < g.entry /\ table[f.entry].last < g.entry
<1> DEFINE g == NextEntry(f)
           j == FirstFrom(table, f.router, f.entry + 1)
<1>0. f.entry \in Entries(table) /\ f.entry \in Nat /\ f.entry + 1 \in Nat
  BY EntryIs DEF At
<1>1. /\ j = End(table) \/ (j \in Entries(table) /\ table[j].router = f.router /\ j > f.entry)
      /\ j \in Nat
  BY <1>0, FirstFromIs
<1> HIDE DEF j
<1>2. IsFrame(g) /\ g.router = f.router /\ g.function = 1 /\ g.entry = j
  BY <1>1 DEF NextEntry, Placed, IsFrame, j
<1> HIDE DEF g
<1>3. j \in Entries(table) => 1 \in 1 .. Size(j)
  BY EntryIs DEF Size, Entry
<1>4. j # End(table) => f.entry < j /\ table[f.entry].last < j
  BY <1>0, <1>1, NextIsBeyond DEF At
<1>. QED
  BY <1>1, <1>2, <1>3, <1>4 DEF Placed, At, g

LEMMA NextedIs ==
  ASSUME NEW f, Placed(f), NEW e \in Errors
  PROVE  LET g == Nexted(f, e)
         IN  /\ Placed(g) /\ g.router = f.router
             /\ g.entry = f.entry /\ g.function = f.function
             /\ At(f) => At(g)
<1> DEFINE g == Nexted(f, e)
<1>1. IsFrame(g) /\ g.router = f.router /\ g.entry = f.entry /\ g.function = f.function
  BY DEF Nexted, Placed, IsFrame
<1> HIDE DEF g
<1>. QED
  BY <1>1 DEF Placed, At, g

\* A frame that stays where it was.
LEMMA FrameStays ==
  ASSUME NEW s, Framed(s), NEW d \in 1 .. Len(s), NEW f, Placed(f),
         f.router = s[d].router, f.entry = s[d].entry, f.function = s[d].function
  PROVE  LET t == [s EXCEPT ![d] = f]
         IN  /\ Framed(t) /\ Len(t) = Len(s)
             /\ \A c \in 1 .. Len(s) : /\ t[c].router = s[c].router
                                       /\ t[c].entry = s[c].entry
                                       /\ t[c].function = s[c].function
<1> DEFINE t == [s EXCEPT ![d] = f]
<1>0. PICK S : s \in Seq(S)
  BY DEF Framed
<1>1. s \in Seq(S \cup {f}) /\ Len(s) \in Nat
  BY <1>0, SeqMonotonic
<1>2. /\ t \in Seq(S \cup {f}) /\ Len(t) = Len(s) /\ t[d] = f
      /\ \A c \in 1 .. Len(s) : c # d => t[c] = s[c]
  BY <1>1, ExceptSeq
<1> HIDE DEF t
<1>4. \A c \in 1 .. Len(s) : /\ Placed(t[c])
                             /\ t[c].router = s[c].router
                             /\ t[c].entry = s[c].entry
                             /\ t[c].function = s[c].function
  BY <1>2 DEF Framed
<1>5. \A c \in 1 .. Len(s) - 1 : Awaits(t[c], t[c + 1].router)
  <2>1. ASSUME NEW c \in 1 .. Len(s) - 1 PROVE Awaits(t[c], t[c + 1].router)
    <3>1. c \in 1 .. Len(s) /\ c + 1 \in 1 .. Len(s)
      BY <1>1
    <3>2. Awaits(s[c], s[c + 1].router)
      BY DEF Framed
    <3>. QED
      BY <1>4, <3>1, <3>2 DEF Awaits
  <2>. QED
    BY <2>1
<1>6. Framed(t)
  BY <1>2, <1>4, <1>5 DEF Framed
<1>. QED
  BY <1>2, <1>4, <1>6 DEF t

\* A frame whose handler or sub-router calls next stays where it was.
LEMMA FrameNexted ==
  ASSUME NEW s, Framed(s), NEW d \in 1 .. Len(s), NEW e \in Errors
  PROVE  LET t == [s EXCEPT ![d] = Nexted(s[d], e)]
         IN  /\ Framed(t) /\ Len(t) = Len(s)
             /\ \A c \in 1 .. Len(s) : /\ t[c].router = s[c].router
                                       /\ t[c].entry = s[c].entry
                                       /\ t[c].function = s[c].function
<1> DEFINE f == Nexted(s[d], e)
<1>1. Placed(s[d])
  BY FramesTyped
<1>2. /\ Placed(f) /\ f.router = s[d].router
      /\ f.entry = s[d].entry /\ f.function = s[d].function
  BY <1>1, NextedIs
<1> HIDE DEF f
<1>3. LET t == [s EXCEPT ![d] = f]
      IN  /\ Framed(t) /\ Len(t) = Len(s)
          /\ \A c \in 1 .. Len(s) : /\ t[c].router = s[c].router
                                    /\ t[c].entry = s[c].entry
                                    /\ t[c].function = s[c].function
  BY <1>2, FrameStays
<1>. QED
  BY <1>3 DEF f

LEMMA FramedNext ==
  ASSUME table' = table, Framed(stack')
  PROVE  Framed(stack)'
BY DEF Framed, Placed, IsFrame, At, Awaits, Size

LEMMA DepthIs ==
  ASSUME IInv
  PROVE  /\ WellFormed(table) /\ Framed(stack) /\ Depth \in Nat
         /\ Depth > 0 => Placed(Top) /\ Depth \in 1 .. Depth
<1>1. WellFormed(table) /\ Framed(stack)
  BY DEF IInv, ValuesTyped, FramesFit
<1>2. Depth \in Nat
  BY <1>1 DEF Framed, Depth
<1>. QED
  BY <1>1, <1>2 DEF Framed, Depth, Top

----------------------------------------------------------------------------
(* The steps.                                                              *)

\* The loop on top goes on behind the handlers that were called.
LEMMA LooksOn ==
  ASSUME IInv, Depth > 0, NEW f, Placed(f), f.router = Top.router,
         f.entry # End(table) => CalledBefore(f),
         stack' = SetTop(f), phase' = "looking", outcome' \in Outcomes,
         UNCHANGED <<table, request, params, route, called, late>>
  PROVE  IInv'
<1>1. /\ Framed(stack') /\ Len(stack') = Depth /\ stack'[Depth] = f
      /\ \A d \in 1 .. Depth : d # Depth => stack'[d] = stack[d]
  <2>1. LET t == [stack EXCEPT ![Len(stack)] = f]
        IN  /\ Framed(t) /\ Len(t) = Len(stack) /\ t[Len(stack)] = f
            /\ \A d \in 1 .. Len(stack) : d # Len(stack) => t[d] = stack[d]
    BY DepthIs, TopMoves DEF Depth, Top
  <2>. QED
    BY <2>1 DEF SetTop, Depth
<1>2. Framed(stack)' /\ Depth' = Depth /\ Top' = f
  BY <1>1, FramedNext DEF Depth, Top
<1>3. ValuesTyped'
  BY DEF IInv, ValuesTyped, Phases
<1>4. FramesFit'
  BY <1>2 DEF FramesFit
<1>5. LoopsInOrder'
  <2>1. ~AtEnd' => CalledBefore(Top)'
    BY <1>2 DEF AtEnd, CalledBefore, Before
  <2>2. ASSUME NEW d \in 1 .. Depth, d < Depth PROVE CalledBelow(stack[d])'
    <3>1. stack'[d] = stack[d] /\ CalledBelow(stack[d])
      BY <1>1, <2>2, DepthIs DEF IInv, LoopsInOrder
    <3>. QED
      BY <3>1 DEF CalledBelow, Below
  <2>. QED
    BY <1>2, <2>1, <2>2 DEF LoopsInOrder
<1>6. CalledInOrder'
  BY DEF IInv, CalledInOrder
<1>. QED
  BY <1>3, <1>4, <1>5, <1>6 DEF IInv

\* A next is called, by the handler that runs or late.
LEMMA NextedInv ==
  ASSUME IInv, NEW d \in 1 .. Depth, NEW e \in Errors,
         stack' = [stack EXCEPT ![d] = Nexted(stack[d], e)], late' \in Nat,
         UNCHANGED <<table, request, phase, params, route, outcome, called>>
  PROVE  IInv'
<1>1. /\ Framed(stack') /\ Len(stack') = Depth
      /\ \A c \in 1 .. Depth : /\ stack'[c].router = stack[c].router
                               /\ stack'[c].entry = stack[c].entry
                               /\ stack'[c].function = stack[c].function
  <2>1. Framed(stack) /\ d \in 1 .. Len(stack) /\ e \in Errors
    BY DepthIs DEF Depth
  <2> DEFINE t == [stack EXCEPT ![d] = Nexted(stack[d], e)]
  <2>2. /\ Framed(t) /\ Len(t) = Len(stack)
        /\ \A c \in 1 .. Len(stack) : /\ t[c].router = stack[c].router
                                      /\ t[c].entry = stack[c].entry
                                      /\ t[c].function = stack[c].function
    BY ONLY <2>1, FrameNexted
  <2>. QED
    BY <2>2 DEF Depth
<1>2. Framed(stack)' /\ Depth' = Depth
  BY <1>1, FramedNext DEF Depth
<1>3. Depth > 0 => /\ Top'.router = Top.router /\ Top'.entry = Top.entry
                   /\ Top'.function = Top.function
  BY <1>1, <1>2, DepthIs DEF Top
<1>4. ValuesTyped'
  BY DEF IInv, ValuesTyped
<1>5. FramesFit'
  <2>1. d \in 1 .. Depth /\ Depth > 0 /\ Depth \in Nat
    BY DepthIs
  <2>2. stack # <<>>
    BY <2>1 DEF Depth
  <2>. QED
    BY <1>2, <1>3, <2>1, <2>2 DEF IInv, FramesFit, At, Awaits, Size
<1>6. LoopsInOrder'
  <2>0. Depth > 0
    BY DepthIs
  <2>1. /\ CalledBefore(Top) => CalledBefore(Top)'
        /\ CalledUpTo(Top) => CalledUpTo(Top)'
        /\ AtEnd' <=> AtEnd
    BY <1>3, <2>0 DEF AtEnd, CalledBefore, Before, CalledUpTo, UpTo
  <2>2. \A c \in 1 .. Depth : CalledBelow(stack[c]) => CalledBelow(stack[c])'
    BY <1>1 DEF CalledBelow, Below
  <2>. QED
    BY <1>2, <2>1, <2>2 DEF IInv, LoopsInOrder
<1>7. CalledInOrder'
  BY DEF IInv, CalledInOrder
<1>. QED
  BY <1>4, <1>5, <1>6, <1>7 DEF IInv

\* The loop on top goes to the next entry: all calls were made at the entry or below it.
LEMMA GoesToNextEntry ==
  ASSUME IInv, Depth > 0, NEW f, Placed(f), At(f), f.router = Top.router, CalledBelow(f),
         stack' = SetTop(NextEntry(f)), phase' = "looking", outcome' \in Outcomes,
         UNCHANGED <<table, request, params, route, called, late>>
  PROVE  IInv'
<1> DEFINE g == NextEntry(f)
<1>1. /\ Placed(g) /\ g.router = Top.router
      /\ g.entry # End(table) => table[f.entry].last < g.entry
  BY DepthIs, NextEntryIs
<1>2. g.entry \in Nat /\ table[f.entry].last \in Nat
  <2>1. g.entry \in Nat
    BY <1>1 DEF Placed, IsFrame
  <2>. QED
    BY <2>1, DepthIs, EntryIs DEF At
<1> HIDE DEF g
<1>3. g.entry # End(table) => CalledBefore(g)
  <2>1. ASSUME NEW n \in 1 .. Len(called) PROVE called[n][1] \in Nat
    <3>1. called[n] \in Nat \X Nat
      BY ElementOfSeq DEF IInv, ValuesTyped
    <3>. QED
      BY <3>1
  <2>. QED
    BY <1>1, <1>2, <2>1 DEF CalledBefore, CalledBelow, Before, Below
<1>. QED
  BY <1>1, <1>3, LooksOn DEF g

\* What was called up to a function is at an entry up to the frame's, or below it.
LEMMA UpToIsBelow ==
  ASSUME IInv, NEW f, At(f), CalledUpTo(f) \/ CalledBefore(f)
  PROVE  CalledBelow(f) /\ \A n \in 1 .. Len(called) : called[n][1] <= f.entry
<1>1. f.entry \in Nat /\ table[f.entry].last \in Nat /\ f.entry <= table[f.entry].last
  BY DepthIs, EntryIs DEF At
<1>2. ASSUME NEW n \in 1 .. Len(called) PROVE called[n][1] \in Nat
  <2>1. called[n] \in Nat \X Nat
    BY ElementOfSeq DEF IInv, ValuesTyped
  <2>. QED
    BY <2>1
<1>3. \A n \in 1 .. Len(called) : called[n][1] <= f.entry
  BY <1>1, <1>2 DEF CalledUpTo, CalledBefore, UpTo, Before
<1>. QED
  BY <1>1, <1>2, <1>3 DEF CalledBelow, Below

\* A loop that is not through is at one of its functions.
LEMMA LoopIsAt ==
  ASSUME IInv, Depth > 0, ~AtEnd
  PROVE  At(Top)
BY DepthIs DEF Placed, AtEnd

LEMMA SkipEntryInv == IInv /\ SkipEntry => IInv'
<1> SUFFICES ASSUME IInv, SkipEntry PROVE IInv'
  OBVIOUS
<1>1. Depth > 0 /\ ~AtEnd /\ CalledBefore(Top)
  BY DEF SkipEntry, IInv, FramesFit, LoopsInOrder
<1>2. Placed(Top) /\ At(Top) /\ CalledBelow(Top)
  BY <1>1, DepthIs, LoopIsAt, UpToIsBelow
<1>3. outcome \in Outcomes
  BY DEF IInv, ValuesTyped
<1>. QED
  BY <1>1, <1>2, <1>3, GoesToNextEntry DEF SkipEntry

LEMMA ThrowsInv == IInv /\ (\E e \in ErrorValues : Throws(e)) => IInv'
<1> SUFFICES ASSUME IInv, NEW e \in ErrorValues, Throws(e) PROVE IInv'
  OBVIOUS
<1> DEFINE f == Nexted(Top, e)
<1>1. Depth > 0 /\ At(Top) /\ CalledUpTo(Top)
  BY DEF Throws, IInv, FramesFit, LoopsInOrder
<1>2. Placed(Top) /\ CalledBelow(Top) /\ e \in Errors
  BY <1>1, DepthIs, UpToIsBelow DEF Errors
<1>3. Placed(f) /\ At(f) /\ f.router = Top.router /\ f.entry = Top.entry
  BY <1>1, <1>2, NextedIs
<1>4. outcome \in Outcomes
  BY DEF IInv, ValuesTyped
<1>5. stack' = SetTop(NextEntry(f)) /\ phase' = "looking"
  BY DEF Throws
<1> HIDE DEF f
<1>6. CalledBelow(f)
  BY <1>2, <1>3 DEF CalledBelow, Below
<1>. QED
  BY <1>1, <1>3, <1>4, <1>5, <1>6, GoesToNextEntry DEF Throws

\* The loop on top goes on after a handler or a sub-router that forwarded.
LEMMA OnwardInv ==
  ASSUME IInv, Depth > 0, At(Top), CalledBelow(Top),
         CalledUpTo(Top) \/ Top.function = Size(Top.entry),
         stack' = SetTop(Onward(Top)), phase' = "looking", outcome' \in Outcomes,
         UNCHANGED <<table, request, params, route, called, late>>
  PROVE  IInv'
<1>1. Placed(Top)
  BY DepthIs
<1>2. CASE Top.error = "truthy" \/ Top.function = Size(Top.entry)
  <2>1. stack' = SetTop(NextEntry(Top))
    BY <1>2 DEF Onward
  <2>. QED
    BY <1>1, <2>1, GoesToNextEntry
<1>3. CASE ~(Top.error = "truthy" \/ Top.function = Size(Top.entry))
  <2> DEFINE f == [Top EXCEPT !.function = Top.function + 1]
  <2>1. stack' = SetTop(f)
    BY <1>3 DEF Onward
  <2>2. IsFrame(f) /\ f.router = Top.router /\ f.entry = Top.entry
        /\ f.function = Top.function + 1
    BY <1>1 DEF Placed, IsFrame
  <2> HIDE DEF f
  <2>3. Top.function \in Nat /\ Size(Top.entry) \in Nat
    BY <1>1, DepthIs, EntryIs DEF At, Placed, IsFrame, Size, Entry
  <2>4. At(f)
    BY <1>3, <2>2, <2>3 DEF At
  <2>5. CalledBefore(f)
    <3>1. ASSUME NEW n \in 1 .. Len(called) PROVE called[n][2] \in Nat
      <4>1. called[n] \in Nat \X Nat
        BY ElementOfSeq DEF IInv, ValuesTyped
      <4>. QED
        BY <4>1
    <3>. QED
      BY <1>3, <2>2, <2>3, <3>1 DEF CalledBefore, CalledUpTo, Before, UpTo
  <2>. QED
    BY <2>1, <2>2, <2>4, <2>5, LooksOn DEF Placed
<1>. QED
  BY <1>2, <1>3

\* The frame on top is gone, and the one below, which awaited it, returns.
LEMMA PopInv ==
  ASSUME IInv, Depth > 0, phase \in {"running", "returning"},
         stack' = Pop, phase' = "returning", outcome' \in Outcomes,
         UNCHANGED <<table, request, params, route, called, late>>
  PROVE  IInv'
<1>0. Framed(stack) /\ Depth \in Nat /\ Depth = Len(stack)
  BY DepthIs DEF Depth
<1>1. /\ Framed(stack') /\ Len(stack') = Depth - 1
      /\ \A d \in 1 .. Depth - 1 : stack'[d] = stack[d]
  <2>1. Depth - 1 \in 0 .. Len(stack)
    BY <1>0
  <2>2. LET t == SubSeq(stack, 1, Depth - 1)
        IN  Framed(t) /\ Len(t) = Depth - 1 /\ \A d \in 1 .. Depth - 1 : t[d] = stack[d]
    BY ONLY <1>0, <2>1, FramesBelow
  <2>. QED
    BY <2>2 DEF Pop
<1>2. Framed(stack)' /\ Depth' = Depth - 1
  BY <1>1, FramedNext DEF Depth
<1>3. ValuesTyped'
  BY DEF IInv, ValuesTyped, Phases
<1>4. Depth' > 0 => Awaits(Top, table[Top.entry].sub)'
  <2>1. SUFFICES ASSUME Depth' > 0 PROVE Awaits(Top, table[Top.entry].sub)'
    OBVIOUS
  <2>2. Depth - 1 \in 1 .. Depth - 1 /\ Depth - 1 \in 1 .. Len(stack) /\ Depth - 1 < Len(stack)
    BY <1>0, <1>2, <2>1
  <2>3. Awaits(stack[Depth - 1], stack[Depth].router)
    BY <1>0, <2>2 DEF Framed
  <2>4. Top' = stack[Depth - 1]
    BY <1>1, <1>2, <2>2 DEF Top
  <2>. QED
    BY <2>3, <2>4 DEF Awaits, Size
<1>5. FramesFit'
  BY <1>2, <1>4 DEF FramesFit
<1>6. LoopsInOrder'
  <2>1. ASSUME NEW d \in 1 .. Depth - 1 PROVE CalledBelow(stack[d])'
    <3>1. d \in 1 .. Depth /\ d < Depth /\ stack'[d] = stack[d]
      BY <1>0, <1>1
    <3>. QED
      BY <3>1 DEF IInv, LoopsInOrder, CalledBelow, Below
  <2>. QED
    BY <1>2, <2>1 DEF LoopsInOrder
<1>7. CalledInOrder'
  BY DEF IInv, CalledInOrder
<1>. QED
  BY <1>3, <1>5, <1>6, <1>7 DEF IInv

LEMMA ReturnsInv == IInv /\ (\E v \in {"something", "nothing"} : Returns(v)) => IInv'
<1> SUFFICES ASSUME IInv, NEW v \in {"something", "nothing"}, Returns(v) PROVE IInv'
  OBVIOUS
<1>1. Depth > 0 /\ At(Top) /\ CalledUpTo(Top) /\ CalledBelow(Top)
  BY UpToIsBelow DEF Returns, IInv, FramesFit, LoopsInOrder
<1>2. CASE Top.forward
  BY <1>1, <1>2, OnwardInv DEF Returns, IInv, ValuesTyped
<1>3. CASE ~Top.forward
  BY <1>1, <1>3, PopInv DEF Returns, Outcomes
<1>. QED
  BY <1>2, <1>3

LEMMA NoFrames ==
  ASSUME ValuesTyped', CalledInOrder', stack' = <<>>,
         phase' \in {"parsing", "returning", "waiting", "answered"}, phase' # "parsing"
  PROVE  IInv'
<1>1. Framed(stack)' /\ Depth' = 0
  BY EmptySeq DEF Framed, Depth
<1>. QED
  BY <1>1 DEF IInv, FramesFit, LoopsInOrder

LEMMA ReturnInv == IInv /\ Return => IInv'
<1> SUFFICES ASSUME IInv, Return PROVE IInv'
  OBVIOUS
<1>0. Depth \in Nat /\ phase = "returning" /\ outcome \in Outcomes
  BY DepthIs DEF Return, IInv, ValuesTyped
<1>1. CASE Depth > 0 /\ Top.forward
  <2>0. CalledBelow(Top)
    BY <1>0, <1>1, DepthIs DEF IInv, LoopsInOrder, Top
  <2>1. Awaits(Top, table[Top.entry].sub) /\ CalledBelow(Top)
    BY <1>0, <1>1, <2>0 DEF IInv, FramesFit
  <2>2. At(Top)
    <3>1. Placed(Top) /\ Top.entry # End(table)
      BY <1>1, <2>1, DepthIs, EntryIs DEF Awaits
    <3>. QED
      BY <3>1 DEF Placed
  <2>3. stack' = SetTop(Onward(Top)) /\ phase' = "looking" /\ outcome' = "pending"
    BY <1>1 DEF Return
  <2>. QED
    BY <1>1, <2>1, <2>2, <2>3, OnwardInv DEF Return, Awaits, Outcomes
<1>2. CASE Depth > 0 /\ ~Top.forward
  BY <1>0, <1>2, PopInv DEF Return
<1>3. CASE Depth = 0
  <2>1. stack' = <<>> /\ phase' \in {"waiting", "answered"}
    BY <1>3 DEF Return
  <2>2. ValuesTyped'
    BY <1>3, <2>1 DEF Return, IInv, ValuesTyped, Phases
  <2>3. CalledInOrder'
    BY DEF Return, IInv, CalledInOrder
  <2>. QED
    BY <2>1, <2>2, <2>3, NoFrames
<1>. QED
  BY <1>0, <1>1, <1>2, <1>3

LEMMA AnswerInv == IInv /\ (RejectBody \/ EndRoot \/ TimeOut) => IInv'
<1> SUFFICES ASSUME IInv, RejectBody \/ EndRoot \/ TimeOut PROVE IInv'
  OBVIOUS
<1>1. stack' = <<>> /\ phase' = "answered"
  BY DEF RejectBody, EndRoot, TimeOut, IInv, FramesFit
<1>2. ValuesTyped'
  BY DEF RejectBody, EndRoot, TimeOut, IInv, ValuesTyped, Phases, Outcomes
<1>3. CalledInOrder'
  BY DEF RejectBody, EndRoot, TimeOut, IInv, CalledInOrder
<1>. QED
  BY <1>1, <1>2, <1>3, NoFrames

LEMMA ParseInv == IInv /\ Parse => IInv'
<1> SUFFICES ASSUME IInv, Parse PROVE IInv'
  OBVIOUS
<1> DEFINE f == Frame(Root, Normalize(request.path), <<>>, <<>>)
<1>1. Placed(f)
  <2>1. request.path \in Seq(STRING)
    <3>1. request.path \in Seq(STRING \ {Slash})
      BY DEF IInv, ValuesTyped, Request
    <3>2. ASSUME NEW S, NEW T, S \subseteq T, NEW p \in Seq(S) PROVE p \in Seq(T)
      BY <3>2, SeqMonotonic
    <3>. QED
      BY <3>1, <3>2
  <2>2. Normalize(request.path) \in Seq(STRING)
    BY <2>1, NormalizeIsASeq
  <2>3. <<>> \in Seq(Pathname) /\ DOMAIN <<>> \subseteq STRING
    BY EmptySeq
  <2>. QED
    BY <2>2, <2>3, NewFrame, RootAssumption DEF IInv, ValuesTyped
<1>2. stack' = <<f>> /\ table' = table
  BY DEF Parse
<1> HIDE DEF f
<1>3. Framed(stack')
  <2>1. stack' \in Seq({f}) /\ Len(stack') = 1 /\ stack'[1] = f
    BY <1>2
  <2>. QED
    BY <1>1, <2>1 DEF Framed
<1>4. Framed(stack)' /\ Depth' = 1
  BY <1>2, <1>3, FramedNext DEF Depth
<1>5. called = <<>> /\ Len(called) = 0
  BY DEF Parse, IInv, FramesFit
<1>6. LoopsInOrder'
  BY <1>4, <1>5 DEF Parse, LoopsInOrder, CalledBefore
<1>. QED
  BY <1>4, <1>6 DEF Parse, IInv, ValuesTyped, FramesFit, CalledInOrder, Phases

\* A sub-router that is through tells the frame below, and that one returns.
LEMMA EndSubRouterInv == IInv /\ EndSubRouter => IInv'
<1> SUFFICES ASSUME IInv, EndSubRouter PROVE IInv'
  OBVIOUS
<1> DEFINE n == Depth - 1
           s == Pop
           e == Top.error
<1>0. /\ Framed(stack) /\ Depth \in Nat /\ Depth = Len(stack) /\ Depth > 1
      /\ n \in 1 .. Depth /\ n \in 0 .. Depth /\ n \in 1 .. n /\ n < Depth
      /\ \A d \in 1 .. n : d \in 1 .. Depth /\ d < Depth
  BY DepthIs DEF EndSubRouter, Depth
<1>1. Framed(s) /\ Len(s) = n /\ \A d \in 1 .. n : s[d] = stack[d]
  <2>1. LET t == SubSeq(stack, 1, n)
        IN  Framed(t) /\ Len(t) = n /\ \A d \in 1 .. n : t[d] = stack[d]
    BY ONLY <1>0, FramesBelow
  <2>. QED
    BY <2>1 DEF Pop
<1>2. e \in Errors
  BY <1>0, DepthIs DEF Placed, IsFrame
<1>3. stack' = [s EXCEPT ![n] = Nexted(s[n], e)]
  BY <1>0, <1>1 DEF EndSubRouter
<1> HIDE DEF n, s, e
<1>4. /\ Framed(stack') /\ Len(stack') = n
      /\ \A d \in 1 .. n : /\ stack'[d].router = stack[d].router
                           /\ stack'[d].entry = stack[d].entry
                           /\ stack'[d].function = stack[d].function
  <2> DEFINE t == [s EXCEPT ![n] = Nexted(s[n], e)]
  <2>0. Framed(s) /\ n \in 1 .. Len(s) /\ e \in Errors
    BY <1>0, <1>1, <1>2
  <2>1. /\ Framed(t) /\ Len(t) = Len(s)
        /\ \A d \in 1 .. Len(s) : /\ t[d].router = s[d].router
                                  /\ t[d].entry = s[d].entry
                                  /\ t[d].function = s[d].function
    BY ONLY <2>0, FrameNexted
  <2>. QED
    BY <1>1, <1>3, <2>1
<1>5. table' = table /\ called' = called
  BY DEF EndSubRouter
<1>6. Framed(stack)' /\ Depth' = n
  BY <1>4, <1>5, FramedNext DEF Depth
<1>7. ValuesTyped'
  BY DEF IInv, ValuesTyped, EndSubRouter, Phases, Outcomes
<1>8. Awaits(Top, table[Top.entry].sub)'
  <2>1. n \in 1 .. Len(stack) - 1
    BY <1>0 DEF n
  <2>2. Awaits(stack[n], stack[n + 1].router)
    BY <1>0, <2>1 DEF Framed
  <2>3. Top'.entry = stack[n].entry /\ Top'.function = stack[n].function
    BY <1>0, <1>4, <1>6 DEF Top
  <2>. QED
    BY <1>5, <2>2, <2>3 DEF Awaits, Size
<1>9. FramesFit'
  BY <1>6, <1>8 DEF FramesFit, EndSubRouter
<1>10. LoopsInOrder'
  <2>1. ASSUME NEW d \in 1 .. n PROVE CalledBelow(stack[d])'
    <3>1. d \in 1 .. Depth /\ d < Depth
      BY <1>0
    <3>2. CalledBelow(stack[d])
      BY <3>1 DEF IInv, LoopsInOrder
    <3>. QED
      BY <1>4, <1>5, <3>2 DEF CalledBelow, Below
  <2>2. phase' = "returning"
    BY DEF EndSubRouter
  <2>. QED
    BY <1>6, <2>1, <2>2 DEF LoopsInOrder
<1>11. CalledInOrder'
  BY DEF IInv, CalledInOrder, EndSubRouter
<1>. QED
  BY <1>7, <1>9, <1>10, <1>11 DEF IInv

\* What an entry writes to the request, and gives to its sub-router.
LEMMA SetParamsTyped ==
  ASSUME IInv, Depth > 0, At(Top), SetParams
  PROVE  /\ DOMAIN EntryParams \subseteq STRING /\ DOMAIN params' \subseteq STRING
         /\ route' \in Seq(Pathname)
<1>1. /\ IsFrame(Top) /\ Here.path \in Pathname \cup {NoPathname}
      /\ DOMAIN params \subseteq STRING /\ route \in Seq(Pathname)
  BY DepthIs, EntryIs DEF IInv, ValuesTyped, Placed, At, Here, Entry
<1>2. DOMAIN EntryParams \subseteq STRING
  <2>1. CASE Here.path = NoPathname
    BY <1>1, <2>1 DEF EntryParams, IsFrame
  <2>2. CASE Here.path # NoPathname
    <3>1. DOMAIN Groups(Here.path, Top.rest) \subseteq STRING
      BY <1>1, <2>2, GroupsAreNamed
    <3>2. DOMAIN Top.above \subseteq STRING
      BY <1>1 DEF IsFrame
    <3>. QED
      BY <2>2, <3>1, <3>2, SpreadNames DEF EntryParams
  <2>. QED
    BY <2>1, <2>2
<1>3. Here.path # NoPathname => Append(Top.route, Here.path) \in Seq(Pathname)
  <2>1. Top.route \in Seq(Pathname)
    BY <1>1 DEF IsFrame
  <2>. QED
    BY <1>1, <2>1, AppendProperties
<1>. QED
  BY <1>1, <1>2, <1>3 DEF SetParams

\* The loop on top awaits a handler or a sub-router, and has no word of it yet.
Awaiting(f) == [f EXCEPT !.forward = FALSE]

LEMMA FrameAwaits ==
  ASSUME IInv, Depth > 0, At(Top)
  PROVE  LET t == SetTop(Awaiting(Top))
         IN  /\ Framed(t) /\ Len(t) = Depth
             /\ \A d \in 1 .. Depth : /\ t[d].router = stack[d].router
                                      /\ t[d].entry = stack[d].entry
                                      /\ t[d].function = stack[d].function
<1> DEFINE f == Awaiting(Top)
           s == stack
           n == Depth
<1>1. Placed(Top)
  BY DepthIs
<1>2. /\ IsFrame(f) /\ f.router = Top.router
      /\ f.entry = Top.entry /\ f.function = Top.function
  BY <1>1 DEF Placed, IsFrame, Awaiting
<1> HIDE DEF f
<1>3. Placed(f)
  BY <1>2 DEF Placed, At
<1>4. /\ Framed(s) /\ n \in 1 .. Len(s) /\ Placed(f)
      /\ f.router = s[n].router /\ f.entry = s[n].entry /\ f.function = s[n].function
  BY <1>2, <1>3, DepthIs DEF Depth, Top
<1> HIDE DEF s, n
<1>5. LET t == [s EXCEPT ![n] = f]
      IN  /\ Framed(t) /\ Len(t) = Len(s)
          /\ \A c \in 1 .. Len(s) : /\ t[c].router = s[c].router
                                    /\ t[c].entry = s[c].entry
                                    /\ t[c].function = s[c].function
  BY ONLY <1>4, FrameStays
<1>. QED
  BY <1>5 DEF SetTop, Depth, s, n, f

LEMMA CallHandlerInv == IInv /\ CallHandler => IInv'
<1> SUFFICES ASSUME IInv, CallHandler PROVE IInv'
  OBVIOUS
<1> DEFINE c == <<Top.entry, Top.function>>
<1>1. /\ Depth > 0 /\ ~AtEnd /\ CalledBefore(Top) /\ At(Top) /\ Depth \in Nat
      /\ Depth \in 1 .. Depth
  BY DepthIs, LoopIsAt DEF CallHandler, IInv, FramesFit, LoopsInOrder
<1>2. /\ Framed(stack') /\ Len(stack') = Depth
      /\ \A d \in 1 .. Depth : /\ stack'[d].router = stack[d].router
                               /\ stack'[d].entry = stack[d].entry
                               /\ stack'[d].function = stack[d].function
  BY <1>1, FrameAwaits DEF CallHandler, Awaiting
<1>3. table' = table /\ phase' = "running" /\ called' = Append(called, c)
  BY DEF CallHandler
<1>4. Framed(stack)' /\ Depth' = Depth
  BY <1>2, <1>3, FramedNext DEF Depth
<1>5. Top'.router = Top.router /\ Top'.entry = Top.entry /\ Top'.function = Top.function
  BY <1>1, <1>2, <1>4 DEF Top
<1>6. At(Top)'
  BY <1>1, <1>3, <1>5 DEF At, Size
<1>7. /\ c \in Nat \X Nat /\ c[1] = Top.entry /\ c[2] = Top.function
      /\ Top.entry \in Nat /\ Top.function \in Nat
      /\ table[Top.entry].last \in Nat /\ Top.entry <= table[Top.entry].last
  <2>1. Top.entry \in Nat /\ Top.function \in Nat
    BY <1>1, DepthIs DEF Placed, IsFrame
  <2>. QED
    BY <1>1, <2>1, DepthIs, EntryIs DEF At
<1> HIDE DEF c
<1>8. /\ called \in Seq(Nat \X Nat) /\ Len(called) \in Nat
      /\ called' \in Seq(Nat \X Nat) /\ Len(called') = Len(called) + 1
      /\ called'[Len(called) + 1] = c
      /\ \A n \in 1 .. Len(called) : called'[n] = called[n]
  <2>1. called \in Seq(Nat \X Nat) /\ Len(called) \in Nat
    BY DEF IInv, ValuesTyped
  <2>. QED
    BY <1>3, <1>7, <2>1, AppendProperties
<1>9. ValuesTyped'
  <2>1. DOMAIN params' \subseteq STRING /\ route' \in Seq(Pathname)
    BY <1>1, SetParamsTyped DEF CallHandler
  <2>. QED
    BY <1>8, <2>1 DEF CallHandler, IInv, ValuesTyped, Phases
<1>10. FramesFit'
  BY <1>1, <1>3, <1>4, <1>6 DEF FramesFit
<1>11. ASSUME NEW n \in 1 .. Len(called)
       PROVE  called[n][1] \in Nat /\ called[n][2] \in Nat
  <2>1. called[n] \in Nat \X Nat
    BY <1>8, ElementOfSeq
  <2>. QED
    BY <2>1
<1>12. LoopsInOrder'
  <2>1. CalledUpTo(Top)'
    <3>1. ASSUME NEW n \in 1 .. Len(called) + 1 PROVE UpTo(called'[n], Top')
      <4>1. CASE n \in 1 .. Len(called)
        <5>1. Before(called[n], Top) /\ called'[n] = called[n]
          BY <1>1, <1>8, <4>1 DEF CalledBefore
        <5>2. called[n][1] \in Nat /\ called[n][2] \in Nat
          BY <1>11, <4>1
        <5>. QED
          BY <1>5, <1>7, <5>1, <5>2 DEF Before, UpTo
      <4>2. CASE n = Len(called) + 1
        BY <1>5, <1>7, <1>8, <4>2 DEF UpTo
      <4>. QED
        BY <1>8, <4>1, <4>2
    <3>. QED
      BY <1>8, <3>1 DEF CalledUpTo, UpTo
  <2>2. ASSUME NEW d \in 1 .. Depth, d < Depth PROVE CalledBelow(stack[d])'
    <3>1. CalledBelow(stack[d])
      BY <2>2 DEF IInv, LoopsInOrder
    <3>2. table[Top.entry].last <= table[stack[d].entry].last
      <4>1. Framed(stack) /\ Depth = Len(stack) /\ Top.entry \in Entries(table)
        BY <1>1, DepthIs DEF At, Depth
      <4>. QED
        BY <1>1, <2>2, <4>1 DEF Framed, Top
    <3>3. table[stack[d].entry].last \in Nat
      <4>1. Framed(stack) /\ Depth = Len(stack) /\ d \in 1 .. Len(stack) - 1
        BY <1>1, <2>2, DepthIs DEF Depth
      <4>. QED
        BY <4>1, DepthIs, EntryIs DEF Framed, Awaits
    <3>4. ASSUME NEW n \in 1 .. Len(called) + 1
          PROVE  called'[n][1] <= table[stack[d].entry].last
      <4>1. CASE n \in 1 .. Len(called)
        BY <1>8, <3>1, <4>1 DEF CalledBelow, Below
      <4>2. CASE n = Len(called) + 1
        BY <1>7, <1>8, <3>2, <3>3, <4>2
      <4>. QED
        BY <1>8, <4>1, <4>2
    <3>. QED
      BY <1>2, <1>3, <1>8, <3>4 DEF CalledBelow, Below
  <2>. QED
    BY <1>3, <1>4, <2>1, <2>2 DEF LoopsInOrder
<1>13. CalledInOrder'
  <2>1. ASSUME NEW m \in 1 .. Len(called) + 1, NEW n \in 1 .. Len(called) + 1, m < n
        PROVE  \/ called'[m][1] < called'[n][1]
               \/ called'[m][1] = called'[n][1] /\ called'[m][2] < called'[n][2]
    <3>1. m \in 1 .. Len(called) /\ called'[m] = called[m]
      <4>1. ASSUME NEW l \in Nat, NEW i \in 1 .. l + 1, NEW j \in 1 .. l + 1, i < j
            PROVE  i \in 1 .. l
        BY <4>1
      <4>2. Len(called) \in Nat
        BY <1>8
      <4>3. m \in 1 .. Len(called)
        BY <2>1, <4>1, <4>2
      <4>. QED
        BY <1>8, <4>3
    <3>2. CASE n \in 1 .. Len(called)
      <4>1. called'[n] = called[n]
        BY <1>8, <3>2
      <4>. QED
        BY <2>1, <3>1, <3>2, <4>1 DEF IInv, CalledInOrder
    <3>3. CASE n = Len(called) + 1
      BY <1>1, <1>7, <1>8, <3>1, <3>3 DEF CalledBefore, Before
    <3>. QED
      BY <1>8, <3>2, <3>3
  <2>. QED
    BY <1>8, <2>1 DEF CalledInOrder
<1>. QED
  BY <1>9, <1>10, <1>12, <1>13 DEF IInv

LEMMA EnterSubRouterInv == IInv /\ EnterSubRouter => IInv'
<1> SUFFICES ASSUME IInv, EnterSubRouter PROVE IInv'
  OBVIOUS
<1> DEFINE s == SetTop(Awaiting(Top))
           f == Frame(Here.sub, Strip(Here.path, Top.rest), EntryParams, route')
<1>1. /\ Depth > 0 /\ ~AtEnd /\ CalledBefore(Top) /\ At(Top) /\ Depth \in Nat
      /\ Depth \in 1 .. Depth /\ Placed(Top) /\ WellFormed(table)
  BY DepthIs, LoopIsAt DEF EnterSubRouter, IInv, FramesFit, LoopsInOrder
<1>2. /\ Framed(s) /\ Len(s) = Depth
      /\ \A d \in 1 .. Depth : /\ s[d].router = stack[d].router
                               /\ s[d].entry = stack[d].entry
                               /\ s[d].function = stack[d].function
  BY <1>1, FrameAwaits
<1>3. /\ table' = table /\ phase' = "looking" /\ called' = called
      /\ stack' = Append(s, f)
  BY DEF EnterSubRouter, Awaiting
<1>4. /\ Here.sub \in Routers /\ Here.sub # NoRouter /\ Here.path \in Pathname
      /\ Top.function = Size(Top.entry) /\ Top.entry \in Entries(table)
  <2>1. Top.function = Here.handlers + 1 /\ Top.function \in 1 .. Size(Top.entry)
    BY <1>1 DEF EnterSubRouter, At
  <2>2. Here \in Entry /\ (Here.sub # NoRouter => Here.path # NoPathname)
    BY <1>1, EntryIs DEF At, Here
  <2>3. Here.sub # NoRouter
    BY <2>1, <2>2 DEF Size, Here, Entry
  <2>. QED
    BY <1>1, <2>1, <2>2, <2>3 DEF Size, Here, Entry, At
<1>5. Placed(f) /\ f.router = Here.sub
  <2>1. Strip(Here.path, Top.rest) \in Seq(STRING)
    BY <1>1, <1>4, StripIsASeq DEF Placed, IsFrame
  <2>2. DOMAIN EntryParams \subseteq STRING /\ route' \in Seq(Pathname)
    BY <1>1, SetParamsTyped DEF EnterSubRouter
  <2>. QED
    BY <1>1, <1>4, <2>1, <2>2, NewFrame
<1> HIDE DEF s, f
<1>6. Awaits(s[Len(s)], f.router)
  BY <1>1, <1>2, <1>4, <1>5 DEF Awaits, Here, Top
<1>7. /\ Framed(stack') /\ Len(stack') = Depth + 1 /\ stack'[Depth + 1] = f
      /\ \A d \in 1 .. Depth : stack'[d] = s[d]
  <2>1. LET t == Append(s, f)
        IN  /\ Framed(t) /\ Len(t) = Len(s) + 1 /\ t[Len(s) + 1] = f
            /\ \A d \in 1 .. Len(s) : t[d] = s[d]
    <3>1. WellFormed(table) /\ Framed(s) /\ Len(s) > 0 /\ Placed(f)
      BY <1>1, <1>2, <1>5
    <3>. QED
      BY ONLY <1>6, <3>1, FrameAbove
  <2>. QED
    BY <1>2, <1>3, <2>1
<1>8. Framed(stack)' /\ Depth' = Depth + 1 /\ Top' = f
  BY <1>3, <1>7, FramedNext DEF Depth, Top
<1>9. ValuesTyped'
  <2>1. DOMAIN params' \subseteq STRING /\ route' \in Seq(Pathname)
    BY <1>1, SetParamsTyped DEF EnterSubRouter
  <2>. QED
    BY <2>1 DEF EnterSubRouter, IInv, ValuesTyped
<1>10. FramesFit'
  BY <1>1, <1>3, <1>8 DEF FramesFit
<1>11. ASSUME NEW n \in 1 .. Len(called)
       PROVE  /\ called[n][1] \in Nat /\ called[n][1] <= Top.entry
              /\ called[n][1] <= table[Top.entry].last
  <2>1. called[n] \in Nat \X Nat
    BY ElementOfSeq DEF IInv, ValuesTyped
  <2>2. CalledBelow(Top) /\ \A m \in 1 .. Len(called) : called[m][1] <= Top.entry
    BY <1>1, UpToIsBelow
  <2>. QED
    BY <2>1, <2>2 DEF CalledBelow, Below
<1>12. ~AtEnd' => CalledBefore(f)
  <2>1. SUFFICES ASSUME f.entry # End(table) PROVE CalledBefore(f)
    BY <1>3, <1>8 DEF AtEnd
  <2>2. At(f) /\ f.entry \in Nat /\ Top.entry \in Nat
    BY <1>1, <1>5, <2>1 DEF Placed, IsFrame
  <2>3. Top.entry < f.entry
    BY <1>1, <1>4, <1>5, <2>2, ChildrenAreBelow DEF At, Here
  <2>. QED
    BY <1>11, <2>2, <2>3 DEF CalledBefore, Before
<1>13. LoopsInOrder'
  <2>1. ASSUME NEW d \in 1 .. Depth PROVE CalledBelow(stack[d])'
    <3>1. stack'[d].entry = stack[d].entry
      BY <1>2, <1>7
    <3>2. CASE d < Depth
      BY <1>3, <3>1, <3>2 DEF IInv, LoopsInOrder, CalledBelow, Below
    <3>3. CASE d = Depth
      BY <1>3, <1>11, <3>1, <3>3 DEF CalledBelow, Below, Top
    <3>. QED
      BY <1>1, <3>2, <3>3
  <2>2. ~AtEnd' => CalledBefore(Top)'
    BY <1>3, <1>8, <1>12 DEF CalledBefore, Before
  <2>3. \A d \in 1 .. Depth' : d < Depth' => d \in 1 .. Depth
    BY <1>1, <1>8
  <2>4. phase' = "looking"
    BY <1>3
  <2>. QED
    BY <2>1, <2>2, <2>3, <2>4 DEF LoopsInOrder
<1>14. CalledInOrder'
  BY DEF IInv, CalledInOrder, EnterSubRouter
<1>. QED
  BY <1>9, <1>10, <1>13, <1>14 DEF IInv

LEMMA NextCallsInv ==
  IInv /\ (\/ \E e \in Errors : CallsNext(e)
           \/ \E d \in 1 .. Depth, e \in Errors : LateNext(d, e)) => IInv'
<1>1. ASSUME IInv, NEW e \in Errors, CallsNext(e) PROVE IInv'
  <2>1. Depth \in 1 .. Depth
    BY <1>1, DepthIs DEF CallsNext, IInv, FramesFit
  <2>2. stack' = [stack EXCEPT ![Depth] = Nexted(stack[Depth], e)]
    BY <1>1 DEF CallsNext, SetTop, Top
  <2>3. late' \in Nat
    BY <1>1 DEF CallsNext, IInv, ValuesTyped
  <2>. QED
    BY <1>1, <2>1, <2>2, <2>3, NextedInv DEF CallsNext
<1>2. ASSUME IInv, NEW d \in 1 .. Depth, NEW e \in Errors, LateNext(d, e) PROVE IInv'
  <2>1. late' \in Nat
    BY <1>2 DEF LateNext, IInv, ValuesTyped
  <2>. QED
    BY <1>2, <2>1, NextedInv DEF LateNext
<1>. QED
  BY <1>1, <1>2

LEMMA StutterInv == IInv /\ UNCHANGED vars => IInv'
<1> SUFFICES ASSUME IInv, UNCHANGED vars PROVE IInv'
  OBVIOUS
<1>1. ValuesTyped' /\ CalledInOrder'
  BY DEF vars, IInv, ValuesTyped, CalledInOrder
<1>2. Framed(stack)'
  BY DepthIs, FramedNext DEF vars
<1>3. FramesFit'
  BY <1>2 DEF vars, IInv, FramesFit, Depth, Top, At, Awaits, Size
<1>4. LoopsInOrder'
  BY DEF vars, IInv, LoopsInOrder, AtEnd, Depth, Top, CalledBefore, CalledUpTo, CalledBelow,
         Before, UpTo, Below
<1>. QED
  BY <1>1, <1>3, <1>4 DEF IInv

LEMMA StepIInv == IInv /\ [Next]_vars => IInv'
<1> SUFFICES ASSUME IInv, [Next]_vars PROVE IInv'
  OBVIOUS
<1>1. CASE Loops
  BY <1>1, ParseInv, SkipEntryInv, CallHandlerInv, EnterSubRouterInv, EndSubRouterInv,
     ReturnInv, AnswerInv DEF Loops
<1>2. CASE Handler
  BY <1>2, ThrowsInv, ReturnsInv, NextCallsInv DEF Handler, Settles
<1>3. CASE \E d \in 1 .. Depth, e \in Errors : LateNext(d, e)
  BY <1>3, NextCallsInv
<1>4. CASE UNCHANGED vars
  BY <1>4, StutterInv
<1>. QED
  BY <1>1, <1>2, <1>3, <1>4 DEF Next

LEMMA AlwaysIInv == Spec => []IInv
BY InitIInv, StepIInv, PTL DEF Spec

----------------------------------------------------------------------------
(* What the frames and the entries are given.                              *)

\* The entry that a frame is below, 0 for the frame of the root router, and the segments
\* that are taken off the pathname before the frame sees it.
Up(d)    == IF d = 1 THEN 0 ELSE stack[d - 1].entry
Upper(d) == Bare(Segments(table)[Up(d)])

\* The first frame is that of the root router.
RootFirst == Depth > 0 => stack[1].router = Root

\* The functions of an entry are under way.
Settled == phase = "running" \/ (phase = "looking" /\ ~AtEnd /\ Top.function > 1)

\* A frame has what the mounts above it leave of the pathname, and what they give.
FrameIsGiven(d) ==
  /\ Begins(Upper(d), request.path)
  /\ Normalize(stack[d].rest) = Beyond(Upper(d), request.path)
  /\ d = 1 => stack[d].rest = request.path
  /\ stack[d].above = Parameters(table, request.path)[Up(d)]
  /\ stack[d].route = Pathnames(table)[Up(d)]

\* An entry whose functions are under way fits the request, and has been given what its
\* place in the table says.
EntryIsGiven ==
  Settled /\ ~Here.error =>
    /\ IsFor(table, Top.entry, request)
    /\ params = Parameters(table, request.path)[Top.entry]
    /\ Here.path # NoPathname => route = Pathnames(table)[Top.entry]

\* The entries of the frames that await another one fit the request.
MountsFit == \A d \in 1 .. Depth - 1 : IsFor(table, stack[d].entry, request)

GivenInv == /\ RootFirst
            /\ NothingToTakeBelow => /\ \A d \in 1 .. Depth : FrameIsGiven(d)
                                     /\ MountsFit /\ EntryIsGiven

LEMMA PathIs ==
  ASSUME IInv
  PROVE  request.path \in Seq(STRING \ {Slash}) /\ Normalize(request.path) = request.path
<1>1. request.path \in Seq(STRING \ {Slash})
  BY DEF IInv, ValuesTyped, Request
<1>2. ASSUME NEW S, Slash \notin S, NEW p \in Seq(S) PROVE Normalize(p) = p
  BY <1>2, NormalizeIdle
<1>3. Slash \notin STRING \ {Slash}
  OBVIOUS
<1>. QED
  BY <1>1, <1>2, <1>3

\* The frame on top is below the mount that is right above its entry.
LEMMA UpIsAbove ==
  ASSUME IInv, RootFirst, NEW d \in 1 .. Depth, At(stack[d])
  PROVE  /\ Above(table, stack[d].entry) = Up(d)
         /\ d = 1 <=> table[stack[d].entry].router = Root
         /\ d # 1 => /\ Up(d) \in Entries(table) /\ d - 1 \in 1 .. Depth
                     /\ table[Up(d)].sub = stack[d].router
<1>1. /\ WellFormed(table) /\ Framed(stack) /\ Depth \in Nat /\ Depth = Len(stack)
      /\ stack[d].entry \in Entries(table)
      /\ table[stack[d].entry].router = stack[d].router
  BY DepthIs DEF At, Depth
<1>2. CASE d = 1
  <2>1. Depth > 0
    BY <1>1, <1>2
  <2>2. table[stack[d].entry].router = Root
    BY <1>1, <1>2, <2>1 DEF RootFirst
  <2>. QED
    BY <1>1, <1>2, <2>2, AboveOfRouter DEF Up
<1>3. CASE d # 1
  <2>1. d - 1 \in 1 .. Len(stack) - 1 /\ d - 1 + 1 = d
    BY <1>1, <1>3
  <2>2. Awaits(stack[d - 1], stack[d].router)
    BY <1>1, <2>1 DEF Framed
  <2>3. Mounts(table, stack[d - 1].entry, stack[d].entry)
    BY <1>1, <2>2 DEF Awaits, Mounts
  <2>4. /\ stack[d - 1].entry \in Entries(table)
        /\ table[stack[d - 1].entry].sub = stack[d].router
    BY <2>2 DEF Awaits
  <2>5. /\ Above(table, stack[d].entry) = stack[d - 1].entry
        /\ table[stack[d].entry].router # Root
    BY <1>1, <2>3, MountIsAbove, MountIs
  <2>. QED
    BY <1>1, <1>3, <2>1, <2>4, <2>5 DEF Up
<1>. QED
  BY <1>2, <1>3

\* The same, of the frame on top.
LEMMA TopIsAbove ==
  ASSUME IInv, RootFirst, Depth > 0, At(Top)
  PROVE  /\ Above(table, Top.entry) = Up(Depth) /\ Depth \in 1 .. Depth
         /\ Depth = 1 <=> Here.router = Root
         /\ Upper(Depth) = Mounted(table, Top.entry)
         /\ Segments(table)[Up(Depth)] \in Seq(Segment)
<1>1. Depth \in 1 .. Depth /\ Top.entry \in Entries(table) /\ WellFormed(table)
  BY DepthIs DEF At
<1>2. Above(table, Top.entry) = Up(Depth) /\ (Depth = 1 <=> Here.router = Root)
  BY <1>1, UpIsAbove DEF Top, Here
<1>3. Up(Depth) \in 0 .. Len(table)
  <2>1. Up(Depth) \in 0 .. Top.entry - 1
    BY <1>1, <1>2, AboveIs
  <2>2. Len(table) \in Nat /\ Top.entry \in 1 .. Len(table)
    BY <1>1 DEF Entries, WellFormed
  <2>. QED
    BY <2>1, <2>2
<1>4. Segments(table)[Up(Depth)] \in Seq(Segment)
  BY <1>1, <1>3, SegmentsAre
<1>. QED
  BY <1>1, <1>2, <1>4 DEF Upper, Mounted, Bare

\* What encloses the entry of a frame is the entries of the frames below it.
LEMMA FramesEnclose ==
  ASSUME IInv, RootFirst, NEW c \in 1 .. Depth, At(stack[c]), NEW m \in Entries(table)
  PROVE  Encloses(table, m, stack[c].entry) <=> \E d \in 1 .. c - 1 : m = stack[d].entry
<1> DEFINE Good(k) == Encloses(table, m, stack[k].entry) <=>
                        \E d \in 1 .. k - 1 : m = stack[d].entry
           T == {k \in 1 .. Depth : At(stack[k]) /\ ~Good(k)}
<1>1. SUFFICES ASSUME T # {} PROVE FALSE
  OBVIOUS
<1>2. Depth \in Nat /\ WellFormed(table) /\ Framed(stack) /\ Depth = Len(stack)
  BY DepthIs DEF Depth
<1>3. PICK k \in T : \A l \in T : k <= l
  <2>1. T \subseteq Nat
    BY <1>2
  <2> HIDE DEF T
  <2>. QED
    BY <1>1, <2>1, HasMinimum
<1>4. k \in 1 .. Depth /\ At(stack[k]) /\ ~Good(k) /\ stack[k].entry \in Entries(table)
  BY DEF At
<1>5. /\ Above(table, stack[k].entry) = Up(k)
      /\ k # 1 => Up(k) \in Entries(table) /\ k - 1 \in 1 .. Depth
  BY <1>4, UpIsAbove
<1>6. Encloses(table, m, stack[k].entry) <=>
        Up(k) \in Entries(table) /\ (m = Up(k) \/ Encloses(table, m, Up(k)))
  BY <1>2, <1>4, <1>5, Enclosers
<1>7. CASE k = 1
  <2>1. Up(k) = 0 /\ 0 \notin Entries(table) /\ 1 .. k - 1 = {}
    BY <1>2, <1>7 DEF Up, Entries, WellFormed
  <2>. QED
    BY <1>4, <1>6, <2>1
<1>8. CASE k # 1
  <2>1. /\ Up(k) = stack[k - 1].entry /\ k - 1 \in 1 .. Depth /\ Up(k) \in Entries(table)
        /\ k - 1 < k /\ k - 1 \in 1 .. k - 1 /\ k \in Nat
    BY <1>2, <1>4, <1>5, <1>8 DEF Up
  <2>2. At(stack[k - 1])
    <3>1. Placed(stack[k - 1]) /\ stack[k - 1].entry # End(table)
      BY <1>2, <2>1, FramesTyped, EntryIs
    <3>. QED
      BY <3>1 DEF Placed
  <2>3. Good(k - 1)
    <3>1. k - 1 \notin T
      BY <1>3, <2>1
    <3>. QED
      BY <2>1, <2>2, <3>1
  <2>4. \A d \in 1 .. k - 1 : d = k - 1 \/ d \in 1 .. k - 1 - 1
    BY <2>1
  <2>5. \A d \in 1 .. k - 1 - 1 : d \in 1 .. k - 1
    BY <2>1
  <2>6. Good(k)
    BY <1>6, <2>1, <2>3, <2>4, <2>5
  <2>. QED
    BY <1>4, <2>6
<1>. QED
  BY <1>7, <1>8

\* The mounts that wait enclose the entry of the frame on top, and those only.
LEMMA TopIsEnclosed ==
  ASSUME IInv, RootFirst, Depth > 0, At(Top)
  PROVE  /\ \A d \in 1 .. Depth - 1 : /\ stack[d].entry \in Entries(table)
                                      /\ Encloses(table, stack[d].entry, Top.entry)
         /\ \A m \in Entries(table) : Encloses(table, m, Top.entry) =>
                                        \E d \in 1 .. Depth - 1 : m = stack[d].entry
<1>1. Depth \in 1 .. Depth /\ At(stack[Depth]) /\ Framed(stack) /\ Depth = Len(stack)
  BY DepthIs DEF Top, Depth
<1>2. \A m \in Entries(table) : Encloses(table, m, stack[Depth].entry) <=>
                                  \E d \in 1 .. Depth - 1 : m = stack[d].entry
  BY <1>1, FramesEnclose
<1>3. \A d \in 1 .. Depth - 1 : stack[d].entry \in Entries(table)
  BY <1>1 DEF Framed, Awaits
<1>. QED
  BY <1>2, <1>3 DEF Top

\* A request comes to the entry on top if that fits.
LEMMA TopAllFits ==
  ASSUME IInv, RootFirst, MountsFit, Depth > 0, At(Top), IsFor(table, Top.entry, request)
  PROVE  AllFit(table, Top.entry, request)
<1>1. \A m \in Entries(table) : Encloses(table, m, Top.entry) =>
                                \E d \in 1 .. Depth - 1 : m = stack[d].entry
  BY TopIsEnclosed
<1>. QED
  BY <1>1 DEF AllFit, MountsFit

\* What a pathname gives depends on what is left of it when it is normalized.
LEMMA MatchesNormalized ==
  ASSUME NEW pat, NEW p, NEW q, Normalize(p) = Normalize(q), NEW open
  PROVE  (Matches(pat, p, open) <=> Matches(pat, q, open)) /\ Groups(pat, p) = Groups(pat, q)
BY DEF Matches, Groups

\* A frame that has what is left matches its entry with it as the whole pathname of the
\* entry is matched with the whole pathname of the request.
LEMMA MatchesAtItsPlace ==
  ASSUME IInv, RootFirst, Depth > 0, At(Top), FrameIsGiven(Depth)
  PROVE  HereMatches <=> IsFor(table, Top.entry, request)
<1> DEFINE p == request.path
           e == Top.entry
           x == Segments(table)[Up(Depth)]
           y == Here.path.segs
           q == Beyond(Upper(Depth), p)
<1>1. SUFFICES ASSUME Here.path # NoPathname
               PROVE  Matches(Here.path, Top.rest, Open(Here)) <=>
                        Matches(Located(table, e), p, Open(Here))
  BY DEF HereMatches, IsFor, Here
<1>2. e \in Entries(table) /\ WellFormed(table) /\ Here.path \in Pathname /\ y \in Seq(Segment)
  <2>1. e \in Entries(table) /\ WellFormed(table)
    BY DepthIs DEF At
  <2>2. Here.path \in Pathname
    BY <1>1, <2>1, EntryIs DEF Here, Entry
  <2>. QED
    BY <2>1, <2>2 DEF Pathname
<1>3. x \in Seq(Segment) /\ Above(table, e) = Up(Depth)
  BY TopIsAbove
<1>4. Segments(table)[e] = x \o y
  BY <1>1, <1>2, <1>3, SegmentsAre DEF Here
<1>5. /\ p \in Seq(STRING \ {Slash}) /\ Normalize(p) = p
      /\ Normalize(Top.rest) = q /\ Begins(Bare(x), p) /\ q = Beyond(Bare(x), p)
  BY PathIs DEF FrameIsGiven, Upper, Top
<1>6. /\ Begins(Located(table, e), p) <=> Begins(Bare(x \o y), p)
      /\ Beyond(Located(table, e), p) = Beyond(Bare(x \o y), p)
      /\ Begins(Here.path, q) <=> Begins(Bare(y), q)
      /\ Beyond(Here.path, q) = Beyond(Bare(y), q)
      /\ Located(table, e).wild = Here.path.wild
  <2> DEFINE l == Located(table, e)
             h == Here.path
  <2>1. l.segs = Bare(x \o y).segs /\ h.segs = Bare(y).segs /\ l.wild = h.wild
    BY <1>4 DEF Located, Bare, Here
  <2> HIDE DEF l, h, q
  <2>2. /\ Begins(l, p) <=> Begins(Bare(x \o y), p)
        /\ Beyond(l, p) = Beyond(Bare(x \o y), p)
    BY <2>1, BeginsBySegments
  <2>3. /\ Begins(h, q) <=> Begins(Bare(y), q)
        /\ Beyond(h, q) = Beyond(Bare(y), q)
    BY <2>1, BeginsBySegments
  <2>. QED
    BY <2>1, <2>2, <2>3 DEF l, h
<1> HIDE DEF x, y, q, p, e
<1>7. /\ Begins(Bare(x \o y), p) <=> Begins(Bare(y), q)
      /\ Begins(Bare(y), q) => Beyond(Bare(x \o y), p) = Beyond(Bare(y), q)
  BY <1>2, <1>3, <1>5, BeginsInTurn
<1>. QED
  BY <1>5, <1>6, <1>7 DEF Matches, p, e

\* What an entry is given is what its place in the table says.
LEMMA GivenAtItsPlace ==
  ASSUME IInv, RootFirst, Depth > 0, At(Top), FrameIsGiven(Depth)
  PROVE  /\ EntryParams = Parameters(table, request.path)[Top.entry]
         /\ Here.path # NoPathname =>
              Append(Top.route, Here.path) = Pathnames(table)[Top.entry]
<1> DEFINE p == request.path
           e == Top.entry
           q == Beyond(Mounted(table, e), p)
<1>1. e \in Entries(table) /\ WellFormed(table)
  BY DepthIs DEF At
<1>2. Above(table, e) = Up(Depth) /\ Upper(Depth) = Mounted(table, e)
  BY TopIsAbove
<1>3. /\ Normalize(Top.rest) = q
      /\ Top.above = Parameters(table, p)[Up(Depth)]
      /\ Top.route = Pathnames(table)[Up(Depth)]
  BY <1>2 DEF FrameIsGiven, Top
<1>4. Normalize(q) = q
  <2>1. q \in Seq(STRING \ {Slash})
    <3>1. Segments(table)[Up(Depth)] \in Seq(Segment) /\ p \in Seq(STRING \ {Slash})
      BY TopIsAbove, PathIs
    <3>2. Mounted(table, e) = Bare(Segments(table)[Up(Depth)])
      BY <1>2 DEF Upper
    <3>. QED
      BY <3>1, <3>2, BeyondIs
  <2>2. ASSUME NEW S, Slash \notin S, NEW s \in Seq(S) PROVE Normalize(s) = s
    BY <2>2, NormalizeIdle
  <2>3. Slash \notin STRING \ {Slash}
    OBVIOUS
  <2>. QED
    BY <2>1, <2>2, <2>3
<1>5. Groups(Here.path, Top.rest) = Groups(Here.path, q)
  BY <1>3, <1>4, MatchesNormalized
<1>6. /\ Parameters(table, p)[e] = IF table[e].path = NoPathname
                                  THEN Parameters(table, p)[Above(table, e)]
                                  ELSE Over(Groups(table[e].path, q),
                                            Parameters(table, p)[Above(table, e)])
      /\ Pathnames(table)[e] = IF table[e].path = NoPathname
                               THEN Pathnames(table)[Above(table, e)]
                               ELSE Append(Pathnames(table)[Above(table, e)], table[e].path)
  BY <1>1, ParametersAre, PathnamesAre
<1> HIDE DEF q
<1>. QED
  BY <1>2, <1>3, <1>5, <1>6 DEF EntryParams, Here

----------------------------------------------------------------------------
(* What the steps do to the frames.                                        *)

LEMMA FrameChanges ==
  ASSUME IInv, NEW d \in 1 .. Depth, NEW f, stack' = [stack EXCEPT ![d] = f]
  PROVE  /\ Depth' = Depth /\ stack'[d] = f
         /\ \A c \in 1 .. Depth : c # d => stack'[c] = stack[c]
<1>1. PICK S : stack \in Seq(S)
  BY DepthIs DEF Framed
<1>2. stack \in Seq(S \cup {f}) /\ f \in S \cup {f} /\ d \in 1 .. Len(stack)
  BY <1>1, SeqMonotonic DEF Depth
<1>. QED
  BY <1>2, ExceptSeq DEF Depth

LEMMA TopChanges ==
  ASSUME IInv, Depth > 0, NEW f, stack' = SetTop(f)
  PROVE  /\ Depth' = Depth /\ Top' = f /\ stack'[Depth] = f
         /\ \A c \in 1 .. Depth : c # Depth => stack'[c] = stack[c]
<1>1. Depth \in 1 .. Depth
  BY DepthIs
<1>2. /\ Depth' = Depth /\ stack'[Depth] = f
      /\ \A c \in 1 .. Depth : c # Depth => stack'[c] = stack[c]
  BY <1>1, FrameChanges DEF SetTop
<1>. QED
  BY <1>2 DEF Top

LEMMA TopGoes ==
  ASSUME IInv, Depth > 0, stack' = Pop
  PROVE  /\ Depth' = Depth - 1 /\ Depth' \in Nat
         /\ \A c \in 1 .. Depth - 1 : stack'[c] = stack[c]
<1>1. Framed(stack) /\ Depth = Len(stack) /\ Depth \in Nat /\ Depth - 1 \in 0 .. Len(stack)
  BY DepthIs DEF Depth
<1>2. LET t == SubSeq(stack, 1, Depth - 1)
      IN  Framed(t) /\ Len(t) = Depth - 1 /\ \A d \in 1 .. Depth - 1 : t[d] = stack[d]
  BY ONLY <1>1, FramesBelow
<1>. QED
  BY <1>1, <1>2 DEF Pop, Depth

\* The frame below is told to forward.
LEMMA TopTells ==
  ASSUME IInv, Depth > 1, NEW f, stack' = [Pop EXCEPT ![Depth - 1] = f]
  PROVE  /\ Depth' = Depth - 1 /\ Depth' \in Nat /\ Top' = f /\ stack'[Depth - 1] = f
         /\ \A c \in 1 .. Depth - 1 : c # Depth - 1 => stack'[c] = stack[c]
<1> DEFINE t == SubSeq(stack, 1, Depth - 1)
<1>1. /\ Framed(stack) /\ Depth = Len(stack) /\ Depth \in Nat /\ Depth - 1 \in 0 .. Len(stack)
      /\ Depth - 1 \in 1 .. Depth - 1
  BY DepthIs DEF Depth
<1>2. Framed(t) /\ Len(t) = Depth - 1 /\ \A d \in 1 .. Depth - 1 : t[d] = stack[d]
  BY ONLY <1>1, FramesBelow
<1>3. stack' = [t EXCEPT ![Depth - 1] = f]
  BY DEF Pop
<1> HIDE DEF t
<1>4. PICK S : t \in Seq(S)
  BY <1>2 DEF Framed
<1>5. t \in Seq(S \cup {f}) /\ f \in S \cup {f} /\ Depth - 1 \in 1 .. Len(t)
  BY <1>1, <1>2, <1>4, SeqMonotonic
<1>6. /\ Len(stack') = Depth - 1 /\ stack'[Depth - 1] = f
      /\ \A c \in 1 .. Depth - 1 : c # Depth - 1 => stack'[c] = t[c]
  BY <1>2, <1>3, <1>5, ExceptSeq
<1>. QED
  BY <1>1, <1>2, <1>6 DEF Depth, Top

LEMMA FrameOnTop ==
  ASSUME IInv, Depth > 0, NEW f, NEW g, stack' = Append(SetTop(f), g)
  PROVE  /\ Depth' = Depth + 1 /\ Top' = g
         /\ stack'[Depth + 1] = g /\ stack'[Depth] = f
         /\ \A c \in 1 .. Depth : c # Depth => stack'[c] = stack[c]
<1> DEFINE t == SetTop(f)
<1>1. PICK S : stack \in Seq(S)
  BY DepthIs DEF Framed
<1>2. stack \in Seq(S \cup {f, g}) /\ Depth \in 1 .. Len(stack) /\ Depth \in Nat
  BY <1>1, SeqMonotonic, DepthIs DEF Depth
<1>3. /\ t \in Seq(S \cup {f, g}) /\ Len(t) = Depth /\ t[Depth] = f
      /\ \A c \in 1 .. Depth : c # Depth => t[c] = stack[c]
  BY <1>2, ExceptSeq DEF SetTop, Depth
<1> HIDE DEF t
<1>4. /\ Len(Append(t, g)) = Depth + 1 /\ Append(t, g)[Depth + 1] = g
      /\ \A c \in 1 .. Depth : Append(t, g)[c] = t[c]
  BY <1>3, AppendProperties
<1>5. Depth' = Depth + 1
  BY <1>4 DEF Depth, t
<1>. QED
  BY <1>2, <1>3, <1>4, <1>5 DEF Top, t

\* Frames that have to match the same, and are given the same.
Alike(f, g) == g.router = f.router /\ g.rest = f.rest /\ g.above = f.above /\ g.route = f.route

LEMMA NextEntryKeeps ==
  ASSUME NEW f, IsFrame(f)
  PROVE  LET g == NextEntry(f)
         IN  /\ Alike(f, g) /\ g.function = 1
             /\ g.entry = FirstFrom(table, f.router, f.entry + 1)
             /\ g.forward = f.forward /\ g.error = f.error
BY DEF NextEntry, IsFrame, Alike

LEMMA NextedKeeps ==
  ASSUME NEW f, IsFrame(f), NEW e
  PROVE  LET g == Nexted(f, e)
         IN  /\ Alike(f, g) /\ g.function = f.function /\ g.entry = f.entry
             /\ g.forward = TRUE /\ g.error = e
BY DEF Nexted, IsFrame, Alike

LEMMA AwaitingKeeps ==
  ASSUME NEW f, IsFrame(f)
  PROVE  LET g == Awaiting(f)
         IN  /\ Alike(f, g) /\ g.function = f.function /\ g.entry = f.entry
             /\ g.forward = FALSE /\ g.error = f.error
BY DEF Awaiting, IsFrame, Alike

LEMMA OnwardKeeps ==
  ASSUME NEW f, IsFrame(f)
  PROVE  LET g == Onward(f)
         IN  /\ Alike(f, g) /\ g.forward = f.forward /\ g.error = f.error
             /\ IF f.error = "truthy" \/ f.function = Size(f.entry) THEN g = NextEntry(f)
                ELSE g.entry = f.entry /\ g.function = f.function + 1
<1>1. CASE f.error = "truthy" \/ f.function = Size(f.entry)
  BY <1>1, NextEntryKeeps DEF Onward
<1>2. CASE ~(f.error = "truthy" \/ f.function = Size(f.entry))
  BY <1>2 DEF Onward, IsFrame, Alike
<1>. QED
  BY <1>1, <1>2

----------------------------------------------------------------------------
(* The steps, and what is given.                                           *)

\* Frames that stay have what they had.
LEMMA FramesStayGiven ==
  ASSUME RootFirst, table' = table, request' = request, Depth' \in Nat, Depth' <= Depth,
         Depth \in Nat,
         \A d \in 1 .. Depth' : Alike(stack[d], stack'[d]),
         \A d \in 1 .. Depth' : d < Depth' => stack'[d].entry = stack[d].entry
  PROVE  /\ RootFirst'
         /\ (\A d \in 1 .. Depth : FrameIsGiven(d)) =>
              \A d \in 1 .. Depth' : FrameIsGiven(d)'
         /\ MountsFit => MountsFit'
<1>1. RootFirst'
  BY DEF RootFirst, Alike
<1>2. ASSUME \A d \in 1 .. Depth : FrameIsGiven(d), NEW d \in 1 .. Depth'
      PROVE  FrameIsGiven(d)'
  <2>1. d \in 1 .. Depth /\ (d # 1 => d - 1 \in 1 .. Depth' /\ d - 1 < Depth')
    OBVIOUS
  <2>2. FrameIsGiven(d) /\ Alike(stack[d], stack'[d])
    BY <1>2, <2>1
  <2>3. Up(d)' = Up(d)
    BY <2>1 DEF Up
  <2>4. Upper(d)' = Upper(d)
    BY <2>3 DEF Upper
  <2>. QED
    BY <2>2, <2>3, <2>4 DEF FrameIsGiven, Alike
<1>3. ASSUME MountsFit PROVE MountsFit'
  <2>1. ASSUME NEW d \in 1 .. Depth' - 1 PROVE IsFor(table', stack'[d].entry, request')
    <3>1. d \in 1 .. Depth - 1 /\ d \in 1 .. Depth' /\ d < Depth'
      OBVIOUS
    <3>. QED
      BY <1>3, <3>1 DEF MountsFit
  <2>. QED
    BY <2>1 DEF MountsFit
<1>. QED
  BY <1>1, <1>2, <1>3

LEMMA GivenStays ==
  ASSUME GivenInv, table' = table, request' = request, Depth' \in Nat, Depth' <= Depth,
         Depth \in Nat,
         \A d \in 1 .. Depth' : Alike(stack[d], stack'[d]),
         \A d \in 1 .. Depth' : d < Depth' => stack'[d].entry = stack[d].entry,
         NothingToTakeBelow => EntryIsGiven'
  PROVE  GivenInv'
<1>1. /\ RootFirst'
      /\ (\A d \in 1 .. Depth : FrameIsGiven(d)) =>
           \A d \in 1 .. Depth' : FrameIsGiven(d)'
      /\ MountsFit => MountsFit'
  BY FramesStayGiven DEF GivenInv
<1>2. NothingToTakeBelow' <=> NothingToTakeBelow
  BY DEF NothingToTakeBelow
<1>. QED
  BY <1>1, <1>2 DEF GivenInv

LEMMA NotSettled ==
  ASSUME phase' = "looking" => Top'.function = 1, phase' # "running"
  PROVE  EntryIsGiven'
BY DEF EntryIsGiven, Settled

\* The loop on top looks on at an entry.
LEMMA LooksAtEntryGiven ==
  ASSUME IInv, GivenInv, Depth > 0, NEW f, Alike(Top, f), f.function = 1,
         stack' = SetTop(f), phase' = "looking", table' = table, request' = request
  PROVE  GivenInv'
<1>1. /\ Depth' = Depth /\ Top' = f /\ stack'[Depth] = f
      /\ \A c \in 1 .. Depth : c # Depth => stack'[c] = stack[c]
  BY TopChanges
<1>2. Depth \in Nat
  BY DepthIs
<1>3. \A d \in 1 .. Depth : Alike(stack[d], stack'[d])
  BY <1>1 DEF Alike, Top
<1>4. EntryIsGiven'
  BY <1>1, NotSettled
<1>. QED
  BY <1>1, <1>2, <1>3, <1>4, GivenStays

LEMMA SkipEntryGiven == IInv /\ GivenInv /\ SkipEntry => GivenInv'
<1> SUFFICES ASSUME IInv, GivenInv, SkipEntry PROVE GivenInv'
  OBVIOUS
<1>1. Depth > 0 /\ IsFrame(Top)
  BY DepthIs DEF SkipEntry, IInv, FramesFit, Placed
<1>2. LET g == NextEntry(Top) IN Alike(Top, g) /\ g.function = 1
  BY <1>1, NextEntryKeeps
<1>. QED
  BY <1>1, <1>2, LooksAtEntryGiven DEF SkipEntry

LEMMA ThrowsGiven == IInv /\ GivenInv /\ (\E e \in ErrorValues : Throws(e)) => GivenInv'
<1> SUFFICES ASSUME IInv, GivenInv, NEW e \in ErrorValues, Throws(e) PROVE GivenInv'
  OBVIOUS
<1> DEFINE f == Nexted(Top, e)
           g == NextEntry(f)
<1>1. Depth > 0 /\ Placed(Top) /\ IsFrame(Top) /\ e \in Errors
  BY DepthIs DEF Throws, IInv, FramesFit, Placed, Errors
<1>2. Placed(f) /\ Alike(Top, f)
  BY <1>1, NextedIs, NextedKeeps
<1> HIDE DEF f
<1>3. Alike(f, g) /\ g.function = 1
  BY <1>2, NextEntryKeeps DEF Placed
<1> HIDE DEF g
<1>4. Alike(Top, g)
  BY <1>2, <1>3 DEF Alike
<1>. QED
  BY <1>1, <1>3, <1>4, LooksAtEntryGiven DEF Throws, f, g

\* The entry on top stays, and its functions are under way before and after.
LEMMA EntryStaysGiven ==
  ASSUME GivenInv, phase = "running", Top'.entry = Top.entry,
         UNCHANGED <<table, request, params, route>>
  PROVE  NothingToTakeBelow => EntryIsGiven'
BY DEF GivenInv, EntryIsGiven, Settled, Here

\* The loop on top goes on after a handler or a sub-router that forwarded.
LEMMA OnwardGiven ==
  ASSUME IInv, GivenInv, Depth > 0,
         phase = "running" \/ Top.function = Size(Top.entry),
         stack' = SetTop(Onward(Top)), phase' = "looking",
         UNCHANGED <<table, request, params, route>>
  PROVE  GivenInv'
<1> DEFINE g == Onward(Top)
<1>1. Depth \in Nat /\ IsFrame(Top)
  BY DepthIs DEF Placed
<1>2. /\ Alike(Top, g)
      /\ IF Top.error = "truthy" \/ Top.function = Size(Top.entry) THEN g = NextEntry(Top)
         ELSE g.entry = Top.entry /\ g.function = Top.function + 1
  BY <1>1, OnwardKeeps
<1> HIDE DEF g
<1>3. /\ Depth' = Depth /\ Top' = g /\ stack'[Depth] = g
      /\ \A c \in 1 .. Depth : c # Depth => stack'[c] = stack[c]
  BY TopChanges DEF g
<1>4. CASE Top.error = "truthy" \/ Top.function = Size(Top.entry)
  <2>1. g.function = 1
    BY <1>1, <1>2, <1>4, NextEntryKeeps
  <2>. QED
    BY <1>2, <2>1, LooksAtEntryGiven DEF g
<1>5. CASE ~(Top.error = "truthy" \/ Top.function = Size(Top.entry))
  <2>1. \A d \in 1 .. Depth : Alike(stack[d], stack'[d])
    BY <1>2, <1>3 DEF Alike, Top
  <2>2. NothingToTakeBelow => EntryIsGiven'
    BY <1>2, <1>3, <1>5, EntryStaysGiven
  <2>. QED
    BY <1>1, <1>3, <2>1, <2>2, GivenStays
<1>. QED
  BY <1>4, <1>5

LEMMA PopGiven ==
  ASSUME IInv, GivenInv, Depth > 0, stack' = Pop, phase' = "returning",
         table' = table, request' = request
  PROVE  GivenInv'
<1>1. /\ Depth' = Depth - 1 /\ Depth' \in Nat /\ Depth \in Nat
      /\ \A c \in 1 .. Depth - 1 : stack'[c] = stack[c]
  BY TopGoes, DepthIs
<1>2. EntryIsGiven'
  BY NotSettled
<1>. QED
  BY <1>1, <1>2, GivenStays DEF Alike

LEMMA ReturnsGiven ==
  IInv /\ GivenInv /\ (\E v \in {"something", "nothing"} : Returns(v)) => GivenInv'
<1> SUFFICES ASSUME IInv, GivenInv, NEW v \in {"something", "nothing"}, Returns(v)
             PROVE  GivenInv'
  OBVIOUS
<1>1. Depth > 0 /\ phase = "running"
  BY DEF Returns, IInv, FramesFit
<1>2. CASE Top.forward
  BY <1>1, <1>2, OnwardGiven DEF Returns
<1>3. CASE ~Top.forward
  BY <1>1, <1>3, PopGiven DEF Returns
<1>. QED
  BY <1>2, <1>3

LEMMA NoFramesGiven ==
  ASSUME GivenInv, stack' = <<>>, phase' \notin {"looking", "running"}
  PROVE  GivenInv'
<1>1. Depth' = 0 /\ 1 .. 0 = {} /\ 1 .. 0 - 1 = {}
  BY DEF Depth
<1>2. EntryIsGiven'
  BY NotSettled
<1>. QED
  BY <1>1, <1>2 DEF GivenInv, RootFirst, MountsFit

LEMMA ReturnGiven == IInv /\ GivenInv /\ Return => GivenInv'
<1> SUFFICES ASSUME IInv, GivenInv, Return PROVE GivenInv'
  OBVIOUS
<1>0. Depth \in Nat /\ phase = "returning"
  BY DepthIs DEF Return
<1>1. CASE Depth > 0 /\ Top.forward
  <2>1. Top.function = Size(Top.entry)
    BY <1>0, <1>1 DEF IInv, FramesFit, Awaits
  <2>. QED
    BY <1>1, <2>1, OnwardGiven DEF Return
<1>2. CASE Depth > 0 /\ ~Top.forward
  BY <1>0, <1>2, PopGiven DEF Return
<1>3. CASE Depth = 0
  BY <1>3, NoFramesGiven DEF Return
<1>. QED
  BY <1>0, <1>1, <1>2, <1>3

LEMMA AnswerGiven == IInv /\ GivenInv /\ (RejectBody \/ EndRoot \/ TimeOut) => GivenInv'
<1> SUFFICES ASSUME IInv, GivenInv, RejectBody \/ EndRoot \/ TimeOut PROVE GivenInv'
  OBVIOUS
<1>1. stack' = <<>> /\ phase' = "answered"
  BY DEF RejectBody, EndRoot, TimeOut, IInv, FramesFit
<1>. QED
  BY <1>1, NoFramesGiven

LEMMA EndSubRouterGiven == IInv /\ GivenInv /\ EndSubRouter => GivenInv'
<1> SUFFICES ASSUME IInv, GivenInv, EndSubRouter PROVE GivenInv'
  OBVIOUS
<1> DEFINE f == stack[Depth - 1]
           g == Nexted(f, Top.error)
<1>1. Depth \in Nat /\ Depth > 1 /\ Depth - 1 \in 1 .. Depth
  BY DepthIs DEF EndSubRouter
<1>2. /\ Depth' = Depth - 1 /\ Depth' \in Nat /\ Top' = g /\ stack'[Depth - 1] = g
      /\ \A c \in 1 .. Depth - 1 : c # Depth - 1 => stack'[c] = stack[c]
  BY <1>1, TopTells DEF EndSubRouter
<1>3. Alike(f, g) /\ g.entry = f.entry
  <2>1. IsFrame(f)
    BY <1>1, FramesTyped, DepthIs DEF Depth
  <2> HIDE DEF f
  <2>. QED
    BY <2>1, NextedKeeps
<1> HIDE DEF g
<1>4. \A d \in 1 .. Depth' : Alike(stack[d], stack'[d])
  BY <1>2, <1>3 DEF Alike
<1>5. EntryIsGiven' /\ table' = table /\ request' = request
  BY NotSettled DEF EndSubRouter
<1>. QED
  BY <1>1, <1>2, <1>4, <1>5, GivenStays

\* A next is called, by the handler that runs or late.
LEMMA NextCallsGiven ==
  IInv /\ GivenInv /\ (\/ \E e \in Errors : CallsNext(e)
                       \/ \E d \in 1 .. Depth, e \in Errors : LateNext(d, e)) => GivenInv'
<1>1. ASSUME IInv, GivenInv, NEW d \in 1 .. Depth, NEW e \in Errors,
             phase = "running" \/ phase = "returning", phase' = phase,
             stack' = [stack EXCEPT ![d] = Nexted(stack[d], e)],
             UNCHANGED <<table, request, params, route>>
      PROVE  GivenInv'
  <2>1. Depth \in Nat /\ Depth = Len(stack) /\ Framed(stack) /\ Depth \in 1 .. Depth
    BY <1>1, DepthIs DEF Depth
  <2>2. /\ Depth' = Depth /\ stack'[d] = Nexted(stack[d], e)
        /\ \A c \in 1 .. Depth : c # d => stack'[c] = stack[c]
    BY <1>1, FrameChanges
  <2>3. Alike(stack[d], stack'[d]) /\ stack'[d].entry = stack[d].entry
    <3> DEFINE f == stack[d]
    <3>1. IsFrame(f)
      BY <2>1, FramesTyped
    <3>2. stack'[d] = Nexted(f, e)
      BY <2>2
    <3> HIDE DEF f
    <3>3. Alike(f, Nexted(f, e)) /\ Nexted(f, e).entry = f.entry
      BY <3>1, NextedKeeps
    <3>. QED
      BY <3>2, <3>3 DEF f
  <2>4. \A c \in 1 .. Depth : Alike(stack[c], stack'[c]) /\ stack'[c].entry = stack[c].entry
    BY <2>2, <2>3 DEF Alike
  <2>5. NothingToTakeBelow => EntryIsGiven'
    <3>1. CASE phase = "running"
      BY <1>1, <2>1, <2>2, <2>4, <3>1, EntryStaysGiven DEF Top
    <3>2. CASE phase = "returning"
      BY <1>1, <3>2, NotSettled
    <3>. QED
      BY <1>1, <3>1, <3>2
  <2>. QED
    BY <1>1, <2>1, <2>2, <2>4, <2>5, GivenStays
<1>2. ASSUME IInv, GivenInv, NEW e \in Errors, CallsNext(e) PROVE GivenInv'
  <2>1. Depth \in 1 .. Depth /\ phase = "running"
    BY <1>2, DepthIs DEF CallsNext, IInv, FramesFit
  <2>2. stack' = [stack EXCEPT ![Depth] = Nexted(stack[Depth], e)]
    BY <1>2 DEF CallsNext, SetTop, Top
  <2>. QED
    BY <1>1, <1>2, <2>1, <2>2 DEF CallsNext
<1>3. ASSUME IInv, GivenInv, NEW d \in 1 .. Depth, NEW e \in Errors, LateNext(d, e)
      PROVE  GivenInv'
  BY <1>1, <1>3 DEF LateNext
<1>. QED
  BY <1>2, <1>3

\* The whole pathname is left for the root router.
LEMMA ParseGiven == IInv /\ Parse => GivenInv'
<1> SUFFICES ASSUME IInv, Parse PROVE GivenInv'
  OBVIOUS
<1> DEFINE p == request.path
           f == Frame(Root, Normalize(p), <<>>, <<>>)
<1>1. p \in Seq(STRING \ {Slash}) /\ Normalize(p) = p
  BY PathIs
<1>2. /\ f.router = Root /\ f.rest = p /\ f.above = <<>> /\ f.route = <<>> /\ f.function = 1
  BY <1>1 DEF Frame
<1>3. stack' = <<f>> /\ table' = table /\ request' = request /\ phase' = "looking"
  BY DEF Parse
<1> HIDE DEF f
<1>4. Depth' = 1 /\ stack'[1] = f /\ Top' = f /\ 1 .. 1 = {1} /\ 1 .. 1 - 1 = {}
  BY <1>3 DEF Depth, Top
<1>5. Up(1)' = 0
  BY DEF Up
<1>6. WellFormed(table) /\ Segments(table)[0] = <<>>
      /\ Pathnames(table)[0] = <<>> /\ Parameters(table, p)[0] = <<>>
  BY DepthIs, SegmentsAre, PathnamesAre, ParametersAre
<1>7. Upper(1)' = Bare(<<>>)
  BY <1>3, <1>5, <1>6 DEF Upper
<1>8. Begins(Bare(<<>>), p) /\ Beyond(Bare(<<>>), p) = p
  <2> DEFINE x == <<>>
  <2>1. x \in Seq(Segment) /\ Len(x) = 0 /\ DOMAIN x = {}
    BY EmptySeq
  <2>2. Bare(x).segs = x
    BY DEF Bare
  <2> HIDE DEF x
  <2>3. Beyond(Bare(x), p) = p
    BY <1>1, <2>1, BeyondIs
  <2>4. Len(p) \in Nat
    BY <1>1, LenProperties
  <2>5. Begins(Bare(x), p)
    BY <2>1, <2>2, <2>4 DEF Begins
  <2>. QED
    BY <2>3, <2>5 DEF x
<1>9. FrameIsGiven(1)'
  BY <1>1, <1>2, <1>3, <1>4, <1>5, <1>6, <1>7, <1>8 DEF FrameIsGiven
<1>10. EntryIsGiven'
  BY <1>2, <1>3, <1>4, NotSettled
<1>. QED
  BY <1>2, <1>4, <1>9, <1>10 DEF GivenInv, RootFirst, MountsFit

\* Before its first function an entry is looked at; when it is found to fit, its functions
\* see what it is given.
LEMMA FitsIsFor ==
  ASSUME IInv, GivenInv, NothingToTakeBelow, phase = "looking", ~AtEnd,
         Top.function = 1 => Fits, ~Here.error
  PROVE  IsFor(table, Top.entry, request)
<1>1. Depth > 0 /\ At(Top) /\ Depth \in 1 .. Depth
  BY LoopIsAt, DepthIs DEF IInv, FramesFit
<1>2. FrameIsGiven(Depth) /\ EntryIsGiven /\ RootFirst
  BY <1>1 DEF GivenInv
<1>3. CASE Top.function = 1
  <2>1. HereMatches
    BY <1>3 DEF Fits
  <2>. QED
    BY <1>1, <1>2, <2>1, MatchesAtItsPlace
<1>4. CASE Top.function # 1
  <2>1. Top.function > 1
    BY <1>1, <1>4, DepthIs DEF At, Placed, IsFrame
  <2>. QED
    BY <1>2, <2>1 DEF EntryIsGiven, Settled
<1>. QED
  BY <1>3, <1>4

LEMMA SetParamsGives ==
  ASSUME IInv, GivenInv, NothingToTakeBelow, phase = "looking", ~AtEnd,
         Top.function = 1 => Fits, ~Here.error, SetParams
  PROVE  /\ params' = Parameters(table, request.path)[Top.entry]
         /\ EntryParams = Parameters(table, request.path)[Top.entry]
         /\ Here.path # NoPathname => route' = Pathnames(table)[Top.entry]
<1>1. Depth > 0 /\ At(Top) /\ Depth \in 1 .. Depth
  BY LoopIsAt, DepthIs DEF IInv, FramesFit
<1>2. FrameIsGiven(Depth) /\ EntryIsGiven /\ RootFirst
  BY <1>1 DEF GivenInv
<1>3. /\ EntryParams = Parameters(table, request.path)[Top.entry]
      /\ Here.path # NoPathname =>
           Append(Top.route, Here.path) = Pathnames(table)[Top.entry]
  BY <1>1, <1>2, GivenAtItsPlace
<1>4. CASE Top.function = 1
  BY <1>3, <1>4 DEF SetParams
<1>5. CASE Top.function # 1
  <2>1. Top.function > 1
    BY <1>1, <1>5, DepthIs DEF At, Placed, IsFrame
  <2>. QED
    BY <1>2, <1>3, <1>5, <2>1 DEF SetParams, EntryIsGiven, Settled
<1>. QED
  BY <1>4, <1>5

LEMMA CallHandlerGiven == IInv /\ GivenInv /\ CallHandler => GivenInv'
<1> SUFFICES ASSUME IInv, GivenInv, CallHandler PROVE GivenInv'
  OBVIOUS
<1> DEFINE g == Awaiting(Top)
<1>1. Depth > 0 /\ ~AtEnd /\ Depth \in Nat /\ IsFrame(Top) /\ phase = "looking"
  BY DepthIs DEF CallHandler, IInv, FramesFit, Placed
<1>2. Alike(Top, g) /\ g.entry = Top.entry
  BY <1>1, AwaitingKeeps
<1>3. stack' = SetTop(g) /\ table' = table /\ request' = request /\ phase' = "running"
  BY DEF CallHandler, Awaiting
<1> HIDE DEF g
<1>4. /\ Depth' = Depth /\ Top' = g /\ stack'[Depth] = g
      /\ \A c \in 1 .. Depth : c # Depth => stack'[c] = stack[c]
  BY <1>1, <1>3, TopChanges
<1>5. \A d \in 1 .. Depth : Alike(stack[d], stack'[d])
  BY <1>2, <1>4 DEF Alike, Top
<1>6. ASSUME NothingToTakeBelow PROVE EntryIsGiven'
  <2>1. Here' = Here /\ Top'.entry = Top.entry
    BY <1>2, <1>3, <1>4 DEF Here
  <2>2. SUFFICES ASSUME ~Here.error
                 PROVE  /\ IsFor(table, Top.entry, request)
                        /\ params' = Parameters(table, request.path)[Top.entry]
                        /\ Here.path # NoPathname => route' = Pathnames(table)[Top.entry]
    BY <1>3, <2>1 DEF EntryIsGiven
  <2>3. SetParams /\ (Top.function = 1 => Fits)
    BY DEF CallHandler
  <2>. QED
    BY <1>1, <1>6, <2>2, <2>3, FitsIsFor, SetParamsGives
<1>. QED
  BY <1>1, <1>3, <1>4, <1>5, <1>6, GivenStays

\* What a sub-router is handed is what the pathnames of its mount and above leave.
LEMMA HandedIsLeft ==
  ASSUME IInv, GivenInv, NothingToTakeBelow, Depth > 0, At(Top), Here.sub # NoRouter,
         IsFor(table, Top.entry, request)
  PROVE  LET u == Bare(Segments(table)[Top.entry])
         IN  /\ Begins(u, request.path)
             /\ Normalize(Strip(Here.path, Top.rest)) = Beyond(u, request.path)
<1> DEFINE p == request.path
           e == Top.entry
           x == Segments(table)[Up(Depth)]
           y == Here.path.segs
           q == Beyond(Bare(x), p)
           w == Bare(x \o y)
           T == STRING \ {Slash}
<1>1. /\ e \in Entries(table) /\ WellFormed(table) /\ Here.path \in Pathname
      /\ Here.path # NoPathname /\ y \in Seq(Segment) /\ Depth \in 1 .. Depth
  <2>1. e \in Entries(table) /\ WellFormed(table) /\ Depth \in 1 .. Depth
    BY DepthIs DEF At
  <2>2. Here.path \in Pathname /\ Here.path # NoPathname
    BY <2>1, EntryIs DEF Here, Entry
  <2>. QED
    BY <2>1, <2>2 DEF Pathname
<1>2. FrameIsGiven(Depth) /\ RootFirst /\ AllFit(table, e, request)
  BY <1>1, TopAllFits DEF GivenInv
<1>3. /\ x \in Seq(Segment) /\ Above(table, e) = Up(Depth)
      /\ Depth = 1 <=> Here.router = Root
  BY <1>2, TopIsAbove
<1>4. Segments(table)[e] = x \o y
  BY <1>1, <1>3, SegmentsAre DEF Here
<1>5. /\ p \in Seq(T) /\ Slash \notin T
      /\ Begins(Bare(x), p) /\ Normalize(Top.rest) = q
      /\ Depth = 1 => Top.rest = p
  BY <1>2, PathIs DEF FrameIsGiven, Upper, Top
<1>6. Begins(w, p)
  <2>1. Matches(Located(table, e), p, Open(Here)) /\ Normalize(p) = p
    BY <1>1, PathIs DEF IsFor, Here
  <2>2. Begins(Located(table, e), p)
    BY <2>1 DEF Matches
  <2>3. Located(table, e).segs = w.segs
    BY <1>4 DEF Located, Bare
  <2> HIDE DEF w
  <2>. QED
    BY <2>2, <2>3, BeginsBySegments
<1> HIDE DEF x, y, p, e, T
<1>7. Begins(Bare(y), q) /\ Beyond(w, p) = Beyond(Bare(y), q) /\ q \in Seq(T)
  <2>1. /\ Begins(w, p) <=> Begins(Bare(x), p) /\ Begins(Bare(y), q)
        /\ Begins(Bare(x), p) /\ Begins(Bare(y), q) => Beyond(w, p) = Beyond(Bare(y), q)
    BY <1>1, <1>3, <1>5, BeginsInTurn
  <2>2. q \in Seq(T)
    BY <1>3, <1>5, BeyondIs
  <2>. QED
    BY <1>5, <1>6, <2>1, <2>2
<1> DEFINE r == Beyond(Bare(y), q)
<1>8. r \in Seq(T) /\ Normalize(r) = r /\ Normalize(<<Slash>> \o r) = r
  <2>1. r \in Seq(T)
    BY <1>1, <1>7, BeyondIs
  <2> HIDE DEF r
  <2>. QED
    BY <1>5, <2>1, NormalizeIdle, NormalizeSlash
<1>9. Normalize(Strip(Here.path, Top.rest)) = r
  <2>1. CASE y = <<>>
    <3>1. Strip(Here.path, Top.rest) = Top.rest
      BY <2>1 DEF Strip, y
    <3>2. r = q
      <4> DEFINE z == <<>>
      <4>1. Len(z) = 0 /\ y = z
        BY <2>1
      <4> HIDE DEF z, q
      <4>. QED
        BY <1>1, <1>7, <4>1, BeyondIs
    <3>. QED
      BY <1>5, <3>1, <3>2
  <2>2. CASE y # <<>>
    <3>1. Here.router = Root
      BY <1>1, <1>2, <2>2 DEF NothingToTakeBelow, Here, y, e
    <3>2. Top.rest = p /\ Up(Depth) = 0
      BY <1>3, <1>5, <3>1 DEF Up
    <3>3. q = p
      <4>1. Len(x) = 0
        BY <1>1, <3>2, SegmentsAre DEF x
      <4>. QED
        BY <1>3, <1>5, <4>1, BeyondIs
    <3>4. Begins(Here.path, p) /\ Beyond(Here.path, p) = r
      <4>1. Here.path.segs = Bare(y).segs
        BY DEF Bare, y
      <4>. QED
        BY <1>7, <3>3, <4>1, BeginsBySegments
    <3>5. Strip(Here.path, p) = IF r = <<>> THEN <<>> ELSE <<Slash>> \o r
      BY <2>2, <3>4 DEF Strip, y
    <3>6. Normalize(<<>>) = <<>>
      BY NormalizeOfNone
    <3> HIDE DEF r
    <3>. QED
      BY <1>8, <3>2, <3>5, <3>6
  <2>. QED
    BY <2>1, <2>2
<1>. QED
  BY <1>4, <1>6, <1>7, <1>9 DEF p, e

LEMMA EnterSubRouterGiven == IInv /\ GivenInv /\ EnterSubRouter => GivenInv'
<1> SUFFICES ASSUME IInv, GivenInv, EnterSubRouter PROVE GivenInv'
  OBVIOUS
<1> DEFINE g == Awaiting(Top)
           f == Frame(Here.sub, Strip(Here.path, Top.rest), EntryParams, route')
<1>1. /\ Depth > 0 /\ ~AtEnd /\ Depth \in Nat /\ IsFrame(Top) /\ phase = "looking"
      /\ At(Top) /\ Depth \in 1 .. Depth
  BY DepthIs, LoopIsAt DEF EnterSubRouter, IInv, FramesFit, Placed
<1>2. /\ Here.sub # NoRouter /\ Here.path # NoPathname /\ ~Here.error
  <2>1. Top.function = Here.handlers + 1 /\ Top.function \in 1 .. Size(Top.entry)
    BY <1>1 DEF EnterSubRouter, At
  <2>2. Here \in Entry /\ (Here.sub # NoRouter => Here.path # NoPathname)
    BY <1>1, DepthIs, EntryIs DEF At, Here
  <2>3. Here.sub # NoRouter
    BY <2>1, <2>2 DEF Size, Here, Entry
  <2>4. Here.error => Here.sub = NoRouter
    BY <1>1, DepthIs DEF At, Here, WellFormed
  <2>. QED
    BY <2>2, <2>3, <2>4
<1>3. Alike(Top, g) /\ g.entry = Top.entry
  BY <1>1, AwaitingKeeps
<1>4. /\ stack' = Append(SetTop(g), f) /\ phase' = "looking"
      /\ table' = table /\ request' = request
      /\ SetParams /\ (Top.function = 1 => Fits)
  BY DEF EnterSubRouter, Awaiting
<1>5. /\ f.rest = Strip(Here.path, Top.rest) /\ f.above = EntryParams /\ f.route = route'
      /\ f.function = 1
  BY DEF Frame
<1> HIDE DEF f, g
<1>6. /\ Depth' = Depth + 1 /\ Top' = f
      /\ stack'[Depth + 1] = f /\ stack'[Depth] = g
      /\ \A c \in 1 .. Depth : c # Depth => stack'[c] = stack[c]
  BY <1>1, <1>4, FrameOnTop
<1>7. EntryIsGiven'
  BY <1>4, <1>5, <1>6, NotSettled
<1>8. \A d \in 1 .. Depth : Alike(stack[d], stack'[d]) /\ stack'[d].entry = stack[d].entry
  BY <1>3, <1>6 DEF Alike, Top
<1>9. RootFirst'
  <2>1. 1 \in 1 .. Depth
    BY <1>1
  <2>. QED
    BY <1>1, <1>8, <2>1 DEF GivenInv, RootFirst, Alike
<1>10. ASSUME NothingToTakeBelow, NEW d \in 1 .. Depth PROVE FrameIsGiven(d)'
  <2>1. d # 1 => d - 1 \in 1 .. Depth
    BY <1>1
  <2>2. FrameIsGiven(d) /\ Alike(stack[d], stack'[d])
    BY <1>8, <1>10 DEF GivenInv
  <2>3. Up(d)' = Up(d)
    BY <1>8, <2>1 DEF Up
  <2>4. Upper(d)' = Upper(d)
    BY <1>4, <2>3 DEF Upper
  <2>. QED
    BY <1>4, <2>2, <2>3, <2>4 DEF FrameIsGiven, Alike
<1>11. ASSUME NothingToTakeBelow, NEW n, n = Depth + 1 PROVE FrameIsGiven(n)'
  <2>1. IsFor(table, Top.entry, request)
    BY <1>1, <1>2, <1>4, <1>11, FitsIsFor
  <2>2. /\ EntryParams = Parameters(table, request.path)[Top.entry]
        /\ route' = Pathnames(table)[Top.entry]
    BY <1>1, <1>2, <1>4, <1>11, SetParamsGives
  <2> DEFINE u == Bare(Segments(table)[Top.entry])
  <2>3. /\ Begins(u, request.path)
        /\ Normalize(Strip(Here.path, Top.rest)) = Beyond(u, request.path)
    BY <1>1, <1>2, <1>11, <2>1, HandedIsLeft
  <2>4. n # 1 /\ n - 1 = Depth
    BY <1>1, <1>11
  <2>5. Up(n)' = Top.entry
    BY <1>3, <1>6, <2>4 DEF Up
  <2>6. Upper(n)' = u
    BY <1>4, <2>5 DEF Upper
  <2>7. stack'[n] = f
    BY <1>6, <1>11
  <2> HIDE DEF u
  <2>. QED
    BY <1>4, <1>5, <2>2, <2>3, <2>4, <2>5, <2>6, <2>7 DEF FrameIsGiven
<1>12. ASSUME NothingToTakeBelow, NEW d \in 1 .. Depth' PROVE FrameIsGiven(d)'
  <2>1. d \in 1 .. Depth \/ d = Depth + 1
    BY <1>1, <1>6
  <2>. QED
    BY <1>10, <1>11, <1>12, <2>1
<1>13. ASSUME NothingToTakeBelow, NEW d \in 1 .. Depth' - 1
       PROVE  IsFor(table, stack'[d].entry, request)
  <2>1. d \in 1 .. Depth /\ (d = Depth \/ d \in 1 .. Depth - 1)
    BY <1>1, <1>6
  <2>2. stack'[d].entry = stack[d].entry
    BY <1>8, <2>1
  <2>3. CASE d = Depth
    <3>1. IsFor(table, Top.entry, request)
      BY <1>1, <1>2, <1>4, <1>13, FitsIsFor
    <3>. QED
      BY <2>2, <2>3, <3>1 DEF Top
  <2>4. CASE d \in 1 .. Depth - 1
    BY <1>13, <2>2, <2>4 DEF GivenInv, MountsFit
  <2>. QED
    BY <2>1, <2>3, <2>4
<1>14. NothingToTakeBelow' <=> NothingToTakeBelow
  BY <1>4 DEF NothingToTakeBelow
<1>15. NothingToTakeBelow => MountsFit'
  BY <1>4, <1>13 DEF MountsFit
<1>. QED
  BY <1>7, <1>9, <1>12, <1>14, <1>15 DEF GivenInv

LEMMA StutterGiven == GivenInv /\ UNCHANGED vars => GivenInv'
BY DEF vars, GivenInv, RootFirst, FrameIsGiven, Upper, Up, Depth, MountsFit, EntryIsGiven,
       Settled, Here, Top, AtEnd, NothingToTakeBelow

LEMMA StepGiven == IInv /\ GivenInv /\ [Next]_vars => GivenInv'
<1> SUFFICES ASSUME IInv, GivenInv, [Next]_vars PROVE GivenInv'
  OBVIOUS
<1>1. CASE Loops
  BY <1>1, ParseGiven, SkipEntryGiven, CallHandlerGiven, EnterSubRouterGiven,
     EndSubRouterGiven, ReturnGiven, AnswerGiven DEF Loops
<1>2. CASE Handler
  BY <1>2, ThrowsGiven, ReturnsGiven, NextCallsGiven DEF Handler, Settles
<1>3. CASE \E d \in 1 .. Depth, e \in Errors : LateNext(d, e)
  BY <1>3, NextCallsGiven
<1>4. CASE UNCHANGED vars
  BY <1>4, StutterGiven
<1>. QED
  BY <1>1, <1>2, <1>3, <1>4 DEF Next

LEMMA InitGiven == Init => GivenInv
<1> SUFFICES ASSUME Init PROVE GivenInv
  OBVIOUS
<1>1. Depth = 0 /\ 1 .. 0 = {} /\ 1 .. 0 - 1 = {} /\ phase = "parsing"
  BY DEF Init, Depth
<1>. QED
  BY <1>1 DEF GivenInv, RootFirst, MountsFit, EntryIsGiven, Settled

LEMMA AlwaysGiven == Spec => [](IInv /\ GivenInv)
<1>1. Init => IInv /\ GivenInv
  BY InitIInv, InitGiven
<1>2. IInv /\ GivenInv /\ [Next]_vars => (IInv /\ GivenInv)'
  BY StepIInv, StepGiven
<1>. QED
  BY <1>1, <1>2, PTL DEF Spec

----------------------------------------------------------------------------
(* The chain of handlers.                                                  *)

\* The operators of RouteTable are the same in the instance.
LEMMA ChainSegments == \A t : Chain!Segments(t) = Segments(t)
<1>1. \A t, i : Chain!Above(t, i) = Above(t, i)
  BY DEF Chain!Above, Above, Chain!Max, Max, Chain!Entries, Entries, Chain!Encloses, Encloses
<1>. QED
  BY <1>1 DEF Chain!Segments, Segments

LEMMA ChainIsFor == \A t, i, r : Chain!IsFor(t, i, r) <=> IsFor(t, i, r)
<1>1. \A pat, p, open : Chain!Matches(pat, p, open) <=> Matches(pat, p, open)
  BY DEF Chain!Matches, Matches, Chain!Normalize, Normalize, Chain!Begins, Begins,
         Chain!Beyond, Beyond, Chain!Min, Min, Chain!Max, Max,
         Chain!NoWildcard, NoWildcard, Chain!Slash, Slash
<1>. QED
  BY <1>1, ChainSegments
     DEF Chain!IsFor, IsFor, Chain!Located, Located, Chain!Open, Open,
         Chain!AnyMethod, AnyMethod

\* The variables of the chain, in the state of the router.
LastCall   == IF called = <<>> THEN <<0, 0>> ELSE called[Len(called)]
ErrorNow   == IF (phase = "looking" /\ ~Forgotten) \/ Forwarded THEN Top.error ELSE "none"
OutcomeNow == IF Forwarded THEN "pending" ELSE outcome

\* Function n of entry i comes after the last call, and is for an error e or for none.
MayBeNext(i, n, last, e) ==
  /\ i \in Entries(table) /\ n \in 1 .. table[i].handlers
  /\ last[1] < i \/ (last[1] = i /\ last[2] < n)
  /\ IF e = "none"
     THEN /\ ~table[i].error /\ IsFor(table, i, request)
          /\ \A m \in Entries(table) : Encloses(table, m, i) => IsFor(table, m, request)
     ELSE /\ table[i].error
          /\ \A m \in Entries(table) : Encloses(table, m, i) => Encloses(table, m, last[1])

LEMMA AheadIs ==
  /\ \A g \in Chain!Ahead : /\ g = <<g[1], g[2]>>
                            /\ MayBeNext(g[1], g[2], LastCall, ErrorNow)
  /\ \A i, n : MayBeNext(i, n, LastCall, ErrorNow) => <<i, n>> \in Chain!Ahead
<1>1. \A g : g \in Chain!Handlers <=>
               \E i \in Entries(table) : \E n \in 1 .. table[i].handlers : g = <<i, n>>
  BY DEF Chain!Handlers, Chain!Entries, Entries
<1>2. \A i, n : Chain!Takes(<<i, n>>) <=>
        IF ErrorNow = "none"
        THEN /\ ~table[i].error
             /\ \A m \in Entries(table) : m = i \/ Encloses(table, m, i) =>
                                            IsFor(table, m, request)
        ELSE /\ table[i].error
             /\ \A m \in Entries(table) : Encloses(table, m, i) =>
                                            Encloses(table, m, LastCall[1])
  BY ChainIsFor DEF Chain!Takes, Chain!AllFit, Chain!InReach, Chain!Entries, Entries,
                    Chain!Encloses, Encloses, ErrorNow, LastCall
<1>3. \A i, n : Chain!Before(LastCall, <<i, n>>) <=>
                  LastCall[1] < i \/ (LastCall[1] = i /\ LastCall[2] < n)
  BY DEF Chain!Before
<1>4. \A g : g \in Chain!Ahead <=>
               g \in Chain!Handlers /\ Chain!Before(LastCall, g) /\ Chain!Takes(g)
  BY DEF Chain!Ahead, LastCall
<1>5. \A i, n : <<i, n>> \in Chain!Ahead <=> MayBeNext(i, n, LastCall, ErrorNow)
  <2>1. \A i, n : <<i, n>> \in Chain!Handlers <=>
                    i \in Entries(table) /\ n \in 1 .. table[i].handlers
    BY <1>1
  <2>2. ASSUME NEW i, NEW n
        PROVE  <<i, n>> \in Chain!Ahead <=> MayBeNext(i, n, LastCall, ErrorNow)
    <3>1. <<i, n>> \in Chain!Ahead <=>
            /\ i \in Entries(table) /\ n \in 1 .. table[i].handlers
            /\ Chain!Before(LastCall, <<i, n>>) /\ Chain!Takes(<<i, n>>)
      BY <1>4, <2>1
    <3>2. CASE ErrorNow = "none"
      <4>1. Chain!Takes(<<i, n>>) <=>
              /\ ~table[i].error
              /\ \A m \in Entries(table) : m = i \/ Encloses(table, m, i) =>
                                             IsFor(table, m, request)
        BY <1>2, <3>2
      <4>. QED
        BY <1>3, <3>1, <3>2, <4>1 DEF MayBeNext
    <3>3. CASE ErrorNow # "none"
      <4>1. Chain!Takes(<<i, n>>) <=>
              /\ table[i].error
              /\ \A m \in Entries(table) : Encloses(table, m, i) =>
                                             Encloses(table, m, LastCall[1])
        BY <1>2, <3>3
      <4>. QED
        BY <1>3, <3>1, <3>3, <4>1 DEF MayBeNext
    <3>. QED
      BY <3>2, <3>3
  <2>. QED
    BY <2>2
<1>6. \A g \in Chain!Ahead : g = <<g[1], g[2]>>
  BY <1>1, <1>4
<1>. QED
  BY <1>5, <1>6

----------------------------------------------------------------------------
(* What holds between the loops and the chain.                             *)

\* An answer is pending while the loops run, and there is one when they do not go on.
OutcomeByPhase ==
  IF phase \in {"parsing", "looking", "running"} THEN outcome = "pending"
  ELSE Forwarded \/ outcome # "pending"

\* A loop that is through is at no function, and a handler that runs was called last.
FunctionByPhase ==
  /\ phase = "looking" /\ AtEnd => Top.function = 1
  /\ phase = "running" =>
       LastCall = <<Top.entry, Top.function>> /\ Top.function <= Here.handlers

\* A frame that awaits another one was not told to forward.
FramesWait == \A d \in 1 .. Depth - 1 : ~stack[d].forward

\* An error that is to be handled came from below all the mounts that wait.
ErrorIsBelow ==
  ((phase = "looking" /\ ~Forgotten) \/ Forwarded) /\ Top.error # "none" =>
    \A d \in 1 .. Depth - 1 : Encloses(table, stack[d].entry, LastCall[1])

\* The loops have not passed a handler that may be next.
NotPassed(i, n) ==
  /\ phase = "looking" =>
       IF AtEnd THEN Depth > 1 /\ table[stack[Depth - 1].entry].last < i
       ELSE Top.entry < i \/ (Top.entry = i /\ Top.function <= n)
  /\ Forwarded => table[Top.entry].last < i

NothingPassed ==
  \A i \in Entries(table), n \in Nat : MayBeNext(i, n, LastCall, ErrorNow) => NotPassed(i, n)

Chained == OutcomeByPhase /\ FunctionByPhase /\ FramesWait /\ ErrorIsBelow /\ NothingPassed

\* As long as handlers call next before they come back.
ChainInv == late = 0 /\ NothingToTakeBelow => Chained

----------------------------------------------------------------------------
(* The frames and the mounts above an entry.                               *)

LEMMA LastCallIs ==
  ASSUME IInv
  PROVE  /\ LastCall \in Nat \X Nat
         /\ called # <<>> => Len(called) \in 1 .. Len(called)
                             /\ LastCall = called[Len(called)]
<1>1. called \in Seq(Nat \X Nat)
  BY DEF IInv, ValuesTyped
<1>2. CASE called = <<>>
  BY <1>2 DEF LastCall
<1>3. CASE called # <<>>
  <2>1. Len(called) \in 1 .. Len(called)
    BY <1>1, <1>3, EmptySeq
  <2>2. called[Len(called)] \in Nat \X Nat
    BY <1>1, <2>1, ElementOfSeq
  <2>. QED
    BY <1>3, <2>1, <2>2 DEF LastCall
<1>. QED
  BY <1>2, <1>3

\* The loop on top stops at the next of its entries, or goes back to the frame below if what
\* may be next is not below the mount.
LEMMA LandsBefore ==
  ASSUME NEW t, WellFormed(t), NEW j \in Entries(t), NEW m, NEW r,
         IF m = 0 THEN r = Root
         ELSE m \in Entries(t) /\ t[m].sub = r /\ r # NoRouter /\ m < j,
         NEW e \in Nat,
         \A k \in Entries(t) : t[k].router = r /\ k < e => t[k].last < j
  PROVE  LET f == FirstFrom(t, r, e)
         IN  IF f = End(t) THEN m # 0 /\ t[m].last < j ELSE f <= j
<1> DEFINE f == FirstFrom(t, r, e)
<1>1. /\ f = End(t) \/ (f \in Entries(t) /\ t[f].router = r)
      /\ f \in Nat /\ j \in Nat /\ j < End(t)
  <2>1. j \in Nat /\ j < End(t)
    BY DEF Entries, End, WellFormed
  <2>. QED
    BY <2>1, FirstFromIs
<1>2. CASE m = 0
  <2>1. f <= j
    BY <1>2, NoneIsPassed
  <2>2. End(t) \in Nat
    BY DEF End, WellFormed
  <2> HIDE DEF f
  <2>3. f # End(t)
    BY <1>1, <2>1, <2>2
  <2>. QED
    BY <2>1, <2>3 DEF f
<1>3. CASE m # 0
  <2>1. m \in Entries(t) /\ t[m].sub = r /\ r # NoRouter /\ m < j /\ t[m].last \in Nat
    BY <1>3, EntryIs
  <2>2. CASE j <= t[m].last
    <3>1. Encloses(t, m, j)
      BY <2>1, <2>2 DEF Encloses
    <3>2. f <= j
      BY <1>3, <2>1, <3>1, NoneIsPassed
    <3>3. End(t) \in Nat
      BY DEF End, WellFormed
    <3> HIDE DEF f
    <3>4. f # End(t)
      BY <1>1, <3>2, <3>3
    <3>. QED
      BY <3>2, <3>4 DEF f
  <2>3. CASE ~(j <= t[m].last)
    <3>1. t[m].last < j
      BY <1>1, <2>1, <2>3
    <3>2. ASSUME f # End(t) PROVE f <= j
      <4> HIDE DEF f
      <4>1. f \in Entries(t) /\ t[f].router = t[m].sub
        BY <1>1, <2>1, <3>2
      <4>2. t[f].last <= t[m].last /\ f <= t[f].last /\ t[f].last \in Nat
        BY <2>1, <4>1, ChildrenAreBelow, EntryIs
      <4>. QED
        BY <1>1, <2>1, <3>1, <4>2
    <3>. QED
      BY <1>3, <3>1, <3>2
  <2>. QED
    BY <2>2, <2>3
<1>. QED
  BY <1>2, <1>3

\* So it does when it goes on from an entry that what may be next is behind.
LEMMA NextLandsBefore ==
  ASSUME IInv, RootFirst, NEW f, f.router = Top.router, f.entry = Top.entry,
         Depth > 0, At(Top), NEW j \in Entries(table), table[Top.entry].last < j
  PROVE  LET n == FirstFrom(table, f.router, f.entry + 1)
         IN  IF n = End(table) THEN Depth > 1 /\ table[stack[Depth - 1].entry].last < j
             ELSE n <= j
<1> DEFINE e == Top.entry
           m == Up(Depth)
           r == Top.router
<1>1. /\ WellFormed(table) /\ e \in Entries(table) /\ table[e].router = r
      /\ Depth \in 1 .. Depth /\ Depth \in Nat
  BY DepthIs DEF At
<1>2. /\ e \in Nat /\ e + 1 \in Nat /\ e <= table[e].last /\ table[e].last \in Nat
      /\ j \in Nat /\ e < j
  <2>1. e \in Nat /\ e <= table[e].last /\ table[e].last \in Nat /\ j \in Nat
    BY <1>1, EntryIs
  <2>. QED
    BY <2>1
<1>3. IF m = 0 THEN r = Root
      ELSE /\ m \in Entries(table) /\ table[m].sub = r /\ r # NoRouter /\ m < j
           /\ Depth > 1 /\ m = stack[Depth - 1].entry
  <2>1. CASE Depth = 1
    <3>1. m = 0 /\ r = Root
      BY <1>1, <2>1 DEF Up, RootFirst, Top
    <3>. QED
      BY <3>1
  <2>2. CASE Depth # 1
    <3>1. m \in Entries(table) /\ table[m].sub = r /\ m = stack[Depth - 1].entry
      BY <1>1, <2>2, UpIsAbove DEF Up, Top
    <3>2. m < e /\ m \in Nat /\ m # 0 /\ r # NoRouter
      <4>1. Mounts(table, m, e)
        BY <1>1, <3>1 DEF Mounts
      <4>2. m < e /\ table[m].sub # NoRouter
        BY <1>1, <4>1, MountIs
      <4>3. m \in Nat /\ m # 0
        BY <1>1, <3>1 DEF WellFormed, Entries
      <4>. QED
        BY <3>1, <4>2, <4>3
    <3>. QED
      BY <1>1, <1>2, <2>2, <3>1, <3>2
  <2>. QED
    BY <2>1, <2>2
<1>4. ASSUME NEW k \in Entries(table), table[k].router = r, k < e + 1
      PROVE  table[k].last < j
  <2>1. k \in Nat /\ table[k].last \in Nat
    BY <1>1, EntryIs
  <2>2. CASE k = e
    BY <2>2
  <2>3. CASE k # e
    <3>1. k < e
      BY <1>2, <1>4, <2>1, <2>3
    <3>2. table[k].last < e
      BY <1>1, <1>4, <3>1, NextIsBeyond
    <3>. QED
      BY <1>2, <2>1, <3>2
  <2>. QED
    BY <2>2, <2>3
<1> DEFINE n == FirstFrom(table, r, e + 1)
<1> HIDE DEF e, m, r
<1>5. IF n = End(table) THEN m # 0 /\ table[m].last < j ELSE n <= j
  BY <1>1, <1>2, <1>3, <1>4, LandsBefore
<1>. QED
  BY <1>3, <1>5 DEF e, m, r

----------------------------------------------------------------------------
(* The steps, and the chain.                                               *)

LEMMA ChainStutters ==
  ASSUME LastCall' = LastCall, (phase' = "running") <=> (phase = "running"),
         ErrorNow' = ErrorNow, OutcomeNow' = OutcomeNow, table' = table, request' = request
  PROVE  UNCHANGED Chain!chainVars
BY DEF Chain!chainVars, LastCall, ErrorNow, OutcomeNow

\* No loop looks for what is next.
LEMMA NoneLooks ==
  ASSUME phase' # "looking", ~Forwarded'
  PROVE  NothingPassed' /\ ErrorIsBelow' /\ ErrorNow' = "none" /\ OutcomeNow' = outcome'
BY DEF NothingPassed, NotPassed, ErrorIsBelow, ErrorNow, OutcomeNow

LEMMA FramesStillWait ==
  ASSUME FramesWait, Depth \in Nat, Depth' \in Nat, Depth' <= Depth,
         \A d \in 1 .. Depth' - 1 : stack'[d] = stack[d]
  PROVE  FramesWait'
<1>0. ASSUME NEW a \in Nat, NEW b \in Nat, a <= b, NEW d \in 1 .. a - 1
      PROVE  d \in 1 .. b - 1
  BY <1>0
<1>1. ASSUME NEW d \in 1 .. Depth' - 1
      PROVE  ~stack'[d].forward
  <2>1. d \in 1 .. Depth - 1
    BY <1>0
  <2>. QED
    BY <2>1 DEF FramesWait
<1>. QED
  BY <1>1 DEF FramesWait

LEMMA NothingIsPassed ==
  ASSUME table' = table, request' = request, NEW l, LastCall' = l, NEW e, ErrorNow' = e,
         \A i \in Entries(table), n \in Nat : MayBeNext(i, n, l, e) => NotPassed(i, n)'
  PROVE  NothingPassed'
BY DEF NothingPassed, MayBeNext

\* A loop has come to an entry.
LEMMA ComesTo ==
  ASSUME phase' = "looking", Top'.function = 1, Top'.entry \in Nat, NEW i \in Nat,
         NEW n \in Nat, n >= 1,
         IF AtEnd' THEN Depth' > 1 /\ table'[stack'[Depth' - 1].entry].last < i
         ELSE Top'.entry <= i
  PROVE  NotPassed(i, n)'
<1>1. ~Forwarded'
  BY DEF Forwarded
<1>. QED
  BY <1>1 DEF NotPassed

\* The loop on top goes to the next entry: what may be next is behind the entry.
LEMMA GoesOn ==
  ASSUME IInv, RootFirst, FramesWait, Depth > 0, At(Top),
         NEW f, IsFrame(f), f.router = Top.router, f.entry = Top.entry,
         stack' = SetTop(NextEntry(f)), phase' = "looking", outcome' = "pending",
         table' = table, request' = request, called' = called,
         f.error # "none" =>
           \A d \in 1 .. Depth - 1 : Encloses(table, stack[d].entry, LastCall[1]),
         \A i \in Entries(table), n \in Nat :
           MayBeNext(i, n, LastCall, f.error) => table[Top.entry].last < i
  PROVE  /\ Chained' /\ ErrorNow' = f.error /\ OutcomeNow' = "pending"
         /\ LastCall' = LastCall
<1> DEFINE g == NextEntry(f)
<1>1. /\ g.function = 1 /\ g.error = f.error
      /\ g.entry = FirstFrom(table, f.router, f.entry + 1)
  BY NextEntryKeeps
<1>2. /\ WellFormed(table) /\ Top.entry \in Entries(table) /\ Top.entry + 1 \in Nat
      /\ Depth \in Nat
  <2>1. WellFormed(table) /\ Top.entry \in Entries(table) /\ Depth \in Nat
    BY DepthIs DEF At
  <2>. QED
    BY <2>1, EntryIs
<1>3. g.entry \in Nat
  BY <1>1, <1>2, FirstFromIs
<1>4. stack' = SetTop(g)
  OBVIOUS
<1> HIDE DEF g
<1>5. /\ Depth' = Depth /\ Top' = g
      /\ \A d \in 1 .. Depth - 1 : stack'[d] = stack[d]
  <2>1. /\ Depth' = Depth /\ Top' = g
        /\ \A c \in 1 .. Depth : c # Depth => stack'[c] = stack[c]
    BY <1>4, TopChanges
  <2>2. \A d \in 1 .. Depth - 1 : d \in 1 .. Depth /\ d # Depth
    BY <1>2
  <2>. QED
    BY <2>1, <2>2
<1>6. ~Forwarded' /\ ~Forgotten'
  BY <1>1, <1>5 DEF Forwarded, Forgotten
<1>7. ErrorNow' = f.error /\ OutcomeNow' = "pending" /\ LastCall' = LastCall
  BY <1>1, <1>5, <1>6 DEF ErrorNow, OutcomeNow, LastCall
<1>8. OutcomeByPhase' /\ FunctionByPhase'
  BY <1>1, <1>5 DEF OutcomeByPhase, FunctionByPhase
<1>9. FramesWait'
  BY <1>2, <1>5, FramesStillWait
<1>10. ErrorIsBelow'
  BY <1>1, <1>5, <1>7 DEF ErrorIsBelow
<1>11. NothingPassed'
  <2>1. ASSUME NEW i \in Entries(table), NEW n \in Nat, MayBeNext(i, n, LastCall, f.error)
        PROVE  NotPassed(i, n)'
    <3>1. table[Top.entry].last < i /\ i \in Nat /\ n >= 1
      BY <1>2, <2>1, EntryIs DEF MayBeNext
    <3>2. IF g.entry = End(table) THEN Depth > 1 /\ table[stack[Depth - 1].entry].last < i
          ELSE g.entry <= i
      BY <1>1, <3>1, NextLandsBefore
    <3>3. Depth > 1 => stack'[Depth - 1] = stack[Depth - 1]
      <4>1. Depth > 1 => Depth - 1 \in 1 .. Depth - 1
        BY <1>2
      <4>. QED
        BY <1>5, <4>1
    <3>4. IF AtEnd' THEN Depth' > 1 /\ table'[stack'[Depth' - 1].entry].last < i
          ELSE Top'.entry <= i
      BY <1>5, <3>2, <3>3 DEF AtEnd
    <3>. QED
      BY <1>1, <1>3, <1>5, <3>1, <3>4, ComesTo
  <2>. QED
    BY <1>7, <2>1, NothingIsPassed
<1>. QED
  BY <1>7, <1>8, <1>9, <1>10, <1>11 DEF Chained
\* The call before is before the entry of a loop, and not below it.
LEMMA LastIsBefore ==
  ASSUME IInv, Depth > 0, At(Top), CalledBefore(Top)
  PROVE  /\ LastCall[1] < Top.entry \/ (LastCall[1] = Top.entry /\ LastCall[2] < Top.function)
         /\ ~Encloses(table, Top.entry, LastCall[1])
<1>1. Top.entry \in Nat /\ Top.entry # 0 /\ LastCall \in Nat \X Nat
  <2>1. Top.entry \in Entries(table) /\ WellFormed(table)
    BY DepthIs DEF At
  <2>. QED
    BY <2>1, LastCallIs DEF Entries, WellFormed
<1>2. LastCall[1] < Top.entry \/ (LastCall[1] = Top.entry /\ LastCall[2] < Top.function)
  <2>1. CASE called = <<>>
    BY <1>1, <2>1 DEF LastCall
  <2>2. CASE called # <<>>
    BY <2>2, LastCallIs DEF CalledBefore, Before
  <2>. QED
    BY <2>1, <2>2
<1>. QED
  BY <1>1, <1>2 DEF Encloses

LEMMA SkipEntryChained ==
  ASSUME IInv, GivenInv, Chained, NothingToTakeBelow, SkipEntry
  PROVE  Chained' /\ UNCHANGED Chain!chainVars
<1> DEFINE e == Top.entry
<1>1. /\ phase = "looking" /\ ~AtEnd /\ Top.function = 1 /\ ~Fits
      /\ Depth > 0 /\ At(Top) /\ CalledBefore(Top) /\ IsFrame(Top)
      /\ Depth \in 1 .. Depth /\ WellFormed(table) /\ e \in Entries(table)
  <2>1. Depth > 0 /\ ~AtEnd /\ CalledBefore(Top)
    BY DEF SkipEntry, IInv, FramesFit, LoopsInOrder
  <2>. QED
    BY <2>1, LoopIsAt, DepthIs DEF SkipEntry, Placed, At
<1>2. RootFirst /\ FrameIsGiven(Depth)
  BY <1>1 DEF GivenInv
<1>3. ~Forwarded /\ ~Forgotten /\ ErrorNow = Top.error /\ OutcomeNow = "pending"
      /\ outcome = "pending"
  <2>1. ~Forwarded /\ ~Forgotten
    BY <1>1 DEF Forwarded, Forgotten
  <2>. QED
    BY <1>1, <2>1 DEF ErrorNow, OutcomeNow, Chained, OutcomeByPhase
<1>4. Top.error # "none" =>
        \A d \in 1 .. Depth - 1 : Encloses(table, stack[d].entry, LastCall[1])
  BY <1>1, <1>3 DEF Chained, ErrorIsBelow
<1>5. ASSUME NEW i \in Entries(table), NEW n \in Nat, MayBeNext(i, n, LastCall, Top.error)
      PROVE  table[e].last < i
  <2>1. e < i \/ e = i
    <3>1. NotPassed(i, n)
      BY <1>3, <1>5 DEF Chained, NothingPassed
    <3>. QED
      BY <1>1, <3>1 DEF NotPassed
  <2>2. i \in Nat /\ e \in Nat /\ table[e].last \in Nat
    BY <1>1, EntryIs
  <2>3. SUFFICES ASSUME i <= table[e].last PROVE FALSE
    BY <2>2
  <2>4. e = i \/ Encloses(table, e, i)
    BY <2>1, <2>3 DEF Encloses
  <2>5. CASE Top.error = "none"
    <3>1. ~table[i].error /\ IsFor(table, e, request)
      BY <1>1, <1>5, <2>4, <2>5 DEF MayBeNext
    <3>2. HereMatches
      BY <1>1, <1>2, <3>1, MatchesAtItsPlace
    <3>3. Here.error
      BY <1>1, <2>5, <3>2 DEF Fits
    <3>4. table[e].last = e
      BY <1>1, <3>3 DEF WellFormed, Here
    <3>. QED
      BY <2>1, <2>2, <2>3, <3>1, <3>3, <3>4 DEF Here
  <2>6. CASE Top.error # "none"
    <3>1. /\ table[i].error
          /\ \A m \in Entries(table) : Encloses(table, m, i) => Encloses(table, m, LastCall[1])
      BY <1>5, <2>6 DEF MayBeNext
    <3>2. ~Here.error
      BY <1>1, <2>6 DEF Fits
    <3>3. Encloses(table, e, LastCall[1])
      BY <1>1, <2>4, <3>1, <3>2 DEF Here
    <3>. QED
      BY <1>1, <3>3, LastIsBefore
  <2>. QED
    BY <2>5, <2>6
<1>6. /\ stack' = SetTop(NextEntry(Top)) /\ phase' = "looking" /\ outcome' = "pending"
      /\ table' = table /\ request' = request /\ called' = called
  BY <1>1, <1>3 DEF SkipEntry
<1>7. /\ Chained' /\ ErrorNow' = Top.error /\ OutcomeNow' = "pending"
      /\ LastCall' = LastCall
  <2>1. FramesWait
    BY DEF Chained
  <2> DEFINE f == Top
  <2>2. /\ IsFrame(f) /\ f.router = Top.router /\ f.entry = Top.entry
        /\ stack' = SetTop(NextEntry(f))
        /\ f.error # "none" =>
             \A d \in 1 .. Depth - 1 : Encloses(table, stack[d].entry, LastCall[1])
        /\ \A i \in Entries(table), n \in Nat :
             MayBeNext(i, n, LastCall, f.error) => table[Top.entry].last < i
    BY <1>1, <1>4, <1>5, <1>6
  <2> HIDE DEF f
  <2>3. /\ Chained' /\ ErrorNow' = f.error /\ OutcomeNow' = "pending"
        /\ LastCall' = LastCall
    BY <1>1, <1>2, <1>6, <2>1, <2>2, GoesOn
  <2>. QED
    BY <2>3 DEF f
<1>. QED
  BY <1>1, <1>3, <1>6, <1>7, ChainStutters

\* The next handler of an error is behind the entry that the error is of.
LEMMA ErrorGoesBehind ==
  ASSUME IInv, Depth > 0, At(Top), LastCall = <<Top.entry, Top.function>>,
         NEW e, e # "none", NEW i \in Entries(table), NEW n \in Nat,
         MayBeNext(i, n, LastCall, e)
  PROVE  table[Top.entry].last < i
<1> DEFINE c == Top.entry
<1>1. /\ WellFormed(table) /\ c \in Entries(table) /\ c \in Nat /\ i \in Nat
      /\ table[c].last \in Nat /\ Top.function >= 1 /\ Top.function \in Nat
  <2>1. WellFormed(table) /\ c \in Entries(table) /\ Top.function \in 1 .. Size(c)
    BY DepthIs DEF At
  <2>2. Top.function \in Nat
    BY DepthIs DEF Placed, IsFrame
  <2>. QED
    BY <2>1, <2>2, EntryIs
<1>2. /\ c < i \/ (c = i /\ Top.function < n)
      /\ n <= table[i].handlers /\ table[i].error
      /\ Encloses(table, c, i) => Encloses(table, c, c)
  <2> DEFINE l == LastCall
  <2>1. l[1] = c /\ l[2] = Top.function /\ MayBeNext(i, n, l, e)
    OBVIOUS
  <2> HIDE DEF l, c
  <2>2. n \in 1 .. table[i].handlers
    BY <2>1 DEF MayBeNext
  <2>3. n <= table[i].handlers
    BY <2>2
  <2>. QED
    BY <1>1, <2>1, <2>3 DEF MayBeNext
<1>3. table[i].handlers = 1
  BY <1>1, <1>2 DEF WellFormed
<1>4. c < i
  BY <1>1, <1>2, <1>3
<1>5. ~Encloses(table, c, c)
  BY <1>1 DEF Encloses
<1>. QED
  BY <1>1, <1>2, <1>4, <1>5 DEF Encloses

LEMMA ThrowsChained ==
  ASSUME IInv, GivenInv, Chained, NEW e \in ErrorValues, Throws(e)
  PROVE  Chained' /\ Chain!Fail(e)
<1> DEFINE f == Nexted(Top, e)
           c == Top.entry
<1>1. /\ phase = "running" /\ Depth > 0 /\ At(Top) /\ Placed(Top) /\ IsFrame(Top)
      /\ Depth \in 1 .. Depth /\ WellFormed(table) /\ c \in Entries(table)
      /\ e \in Errors /\ e # "none" /\ RootFirst /\ FramesWait
  <2>1. phase = "running" /\ Depth > 0 /\ At(Top)
    BY DEF Throws, IInv, FramesFit
  <2>. QED
    BY <2>1, DepthIs, ErrorsAssumption DEF At, Placed, Errors, GivenInv, Chained
<1>2. /\ LastCall = <<c, Top.function>> /\ Top.function <= Here.handlers
      /\ outcome = "pending"
  BY <1>1 DEF Chained, FunctionByPhase, OutcomeByPhase
<1>3. Placed(f) /\ IsFrame(f) /\ f.router = Top.router /\ f.entry = Top.entry /\ f.error = e
  <2>1. Placed(f) /\ f.router = Top.router /\ f.entry = Top.entry
    BY <1>1, NextedIs
  <2>2. f.error = e
    BY <1>1, NextedKeeps
  <2>. QED
    BY <2>1, <2>2 DEF Placed
<1>4. \A d \in 1 .. Depth - 1 : Encloses(table, stack[d].entry, LastCall[1])
  BY <1>1, <1>2, TopIsEnclosed
<1>5. ASSUME NEW i \in Entries(table), NEW n \in Nat, MayBeNext(i, n, LastCall, e)
      PROVE  table[c].last < i
  BY <1>1, <1>2, <1>5, ErrorGoesBehind
<1>6. /\ stack' = SetTop(NextEntry(f)) /\ phase' = "looking" /\ outcome' = "pending"
      /\ table' = table /\ request' = request /\ called' = called
  BY <1>2 DEF Throws
<1> HIDE DEF f
<1>7. /\ Chained' /\ ErrorNow' = f.error /\ OutcomeNow' = "pending"
      /\ LastCall' = LastCall
  BY <1>1, <1>3, <1>4, <1>5, <1>6, GoesOn
<1>8. ~Forwarded
  BY <1>1 DEF Forwarded
<1>. QED
  BY <1>1, <1>2, <1>3, <1>6, <1>7, <1>8
     DEF Chain!Fail, LastCall, ErrorNow, OutcomeNow

\* What may be next after a handler that forwards to the next entry is behind its entry.
LEMMA ForwardGoesBehind ==
  ASSUME IInv, Depth > 0, At(Top), LastCall = <<Top.entry, Top.function>>,
         Top.function <= Here.handlers, Top.error = "truthy" \/ Top.function = Size(Top.entry),
         NEW i \in Entries(table), NEW n \in Nat, MayBeNext(i, n, LastCall, Top.error)
  PROVE  table[Top.entry].last < i
<1>1. CASE Top.error # "none"
  <2> DEFINE e == Top.error
  <2>1. e # "none" /\ MayBeNext(i, n, LastCall, e)
    BY <1>1
  <2> HIDE DEF e
  <2>. QED
    BY <2>1, ErrorGoesBehind
<1>2. CASE Top.error = "none"
  <2> DEFINE c == Top.entry
             l == LastCall
  <2>1. /\ WellFormed(table) /\ c \in Entries(table) /\ c \in Nat /\ i \in Nat
        /\ Top.function \in Nat /\ table[c].handlers \in Nat
    <3>1. WellFormed(table) /\ c \in Entries(table)
      BY DepthIs DEF At
    <3>2. Top.function \in Nat
      BY DepthIs DEF Placed, IsFrame
    <3>. QED
      BY <3>1, <3>2, EntryIs DEF Entry
  <2>2. table[c].sub = NoRouter /\ Top.function = table[c].handlers
    BY <1>2, <2>1 DEF Size, Here
  <2>3. table[c].last = c
    BY <2>1, <2>2 DEF WellFormed
  <2>4. l[1] = c /\ l[2] = Top.function /\ MayBeNext(i, n, l, "none")
    BY <1>2
  <2> HIDE DEF l, c
  <2>5. n <= table[i].handlers /\ (c < i \/ (c = i /\ Top.function < n))
    BY <2>1, <2>4 DEF MayBeNext
  <2>6. c < i
    BY <2>1, <2>2, <2>5
  <2>. QED
    BY <2>3, <2>6 DEF c
<1>. QED
  BY <1>1, <1>2

\* The frame on top is gone, and the one below was told nothing.
LEMMA PopChained ==
  ASSUME IInv, Chained, Depth > 0, stack' = Pop, phase' = "returning", outcome' # "pending",
         table' = table, request' = request, called' = called
  PROVE  /\ Chained' /\ LastCall' = LastCall
         /\ ErrorNow' = "none" /\ OutcomeNow' = outcome'
<1>1. /\ Depth' = Depth - 1 /\ Depth' \in Nat /\ Depth \in Nat
      /\ \A c \in 1 .. Depth - 1 : stack'[c] = stack[c]
  BY TopGoes, DepthIs
<1>2. ~Forwarded'
  <2>1. SUFFICES ASSUME Depth' > 0 PROVE ~Top'.forward
    BY DEF Forwarded
  <2>2. Depth - 1 \in 1 .. Depth - 1
    BY <1>1, <2>1
  <2>3. Top' = stack[Depth - 1]
    BY <1>1, <2>2 DEF Top
  <2>. QED
    BY <2>2, <2>3 DEF Chained, FramesWait
<1>3. /\ NothingPassed' /\ ErrorIsBelow' /\ ErrorNow' = "none" /\ OutcomeNow' = outcome'
  BY <1>2, NoneLooks
<1>4. \A d \in 1 .. Depth' - 1 : stack'[d] = stack[d]
  <2>1. ASSUME NEW a \in Nat, NEW d \in 1 .. a - 1 - 1 PROVE d \in 1 .. a - 1
    OBVIOUS
  <2>. QED
    BY <1>1, <2>1
<1>5. FramesWait'
  <2>1. FramesWait /\ Depth' <= Depth
    BY <1>1 DEF Chained
  <2>. QED
    BY <1>1, <1>4, <2>1, FramesStillWait
<1>6. OutcomeByPhase' /\ FunctionByPhase'
  BY DEF OutcomeByPhase, FunctionByPhase
<1>7. LastCall' = LastCall
  BY DEF LastCall
<1>. QED
  BY <1>3, <1>5, <1>6, <1>7 DEF Chained

LEMMA ReturnsChained ==
  ASSUME IInv, GivenInv, Chained, NEW v \in {"something", "nothing"}, Returns(v)
  PROVE  Chained' /\ (Chain!Give(v) \/ Chain!Forward(Top.error))
<1> DEFINE c == Top.entry
<1>1. /\ phase = "running" /\ Depth > 0 /\ At(Top) /\ Placed(Top) /\ IsFrame(Top)
      /\ Depth \in 1 .. Depth /\ Depth \in Nat /\ WellFormed(table) /\ c \in Entries(table)
      /\ RootFirst /\ FramesWait
  <2>1. phase = "running" /\ Depth > 0 /\ At(Top)
    BY DEF Returns, IInv, FramesFit
  <2>. QED
    BY <2>1, DepthIs DEF At, Placed, GivenInv, Chained
<1>2. /\ LastCall = <<c, Top.function>> /\ Top.function <= Here.handlers
      /\ outcome = "pending"
  BY <1>1 DEF Chained, FunctionByPhase, OutcomeByPhase
<1>3. ~Forwarded /\ ErrorNow = "none" /\ OutcomeNow = "pending"
  BY <1>1, <1>2 DEF Forwarded, ErrorNow, OutcomeNow
<1>4. CASE ~Top.forward
  <2>1. /\ stack' = Pop /\ phase' = "returning" /\ outcome' = v /\ v # "pending"
        /\ table' = table /\ request' = request /\ called' = called
    BY <1>4 DEF Returns
  <2>2. /\ Chained' /\ LastCall' = LastCall
        /\ ErrorNow' = "none" /\ OutcomeNow' = outcome'
    BY <1>1, <2>1, PopChained
  <2>. QED
    BY <1>1, <1>3, <2>1, <2>2 DEF Chain!Give, LastCall, ErrorNow, OutcomeNow
<1>5. /\ c \in Nat /\ Top.function \in Nat /\ Here.handlers \in Nat
      /\ Top.error \in {"none", "falsy", "truthy"}
      /\ Here.handlers <= Size(c)
      /\ Here.sub = NoRouter => Size(c) = Here.handlers
  <2>1. Here.handlers \in Nat /\ c \in Nat
    BY <1>1, EntryIs DEF Here, Entry
  <2>2. Top.function \in Nat /\ Top.error \in Errors
    BY <1>1 DEF IsFrame
  <2>3. Top.error \in {"none", "falsy", "truthy"}
    BY <2>2, ErrorsAssumption DEF Errors
  <2>. QED
    BY <2>1, <2>2, <2>3 DEF Size, Here
<1>6. Chain!More <=> Top.function < Here.handlers \/ Here.sub # NoRouter
  <2>1. Chain!More <=> LastCall[2] < table[LastCall[1]].handlers
                         \/ table[LastCall[1]].sub # NoRouter
    BY DEF Chain!More, LastCall
  <2>. QED
    BY <1>2, <2>1 DEF Here
<1>7. CASE Top.forward /\ (Top.error = "truthy" \/ Top.function = Size(c))
  <2>1. /\ stack' = SetTop(NextEntry(Top)) /\ phase' = "looking" /\ outcome' = "pending"
        /\ table' = table /\ request' = request /\ called' = called
    BY <1>2, <1>7 DEF Returns, Onward
  <2>2. \A d \in 1 .. Depth - 1 : Encloses(table, stack[d].entry, LastCall[1])
    BY <1>1, <1>2, TopIsEnclosed
  <2>3. ASSUME NEW i \in Entries(table), NEW n \in Nat, MayBeNext(i, n, LastCall, Top.error)
        PROVE  table[c].last < i
    BY <1>1, <1>2, <1>7, <2>3, ForwardGoesBehind
  <2>4. /\ Chained' /\ ErrorNow' = Top.error /\ OutcomeNow' = "pending"
        /\ LastCall' = LastCall
    <3> DEFINE f == Top
    <3>1. /\ IsFrame(f) /\ f.router = Top.router /\ f.entry = Top.entry
          /\ stack' = SetTop(NextEntry(f))
          /\ f.error # "none" =>
               \A d \in 1 .. Depth - 1 : Encloses(table, stack[d].entry, LastCall[1])
          /\ \A i \in Entries(table), n \in Nat :
               MayBeNext(i, n, LastCall, f.error) => table[Top.entry].last < i
      BY <1>1, <2>1, <2>2, <2>3
    <3> HIDE DEF f
    <3>2. /\ Chained' /\ ErrorNow' = f.error /\ OutcomeNow' = "pending"
          /\ LastCall' = LastCall
      BY <1>1, <2>1, <3>1, GoesOn
    <3>. QED
      BY <3>2 DEF f
  <2>5. Top.error = "falsy" => ~Chain!More
    <3>1. Top.error = "falsy" => Top.function = Here.handlers /\ Here.sub = NoRouter
      BY <1>1, <1>2, <1>5, <1>7 DEF Size, Here
    <3>. QED
      BY <1>5, <1>6, <3>1
  <2>. QED
    BY <1>1, <1>3, <2>1, <2>4, <2>5 DEF Chain!Forward, LastCall, ErrorNow, OutcomeNow
<1>8. CASE Top.forward /\ ~(Top.error = "truthy" \/ Top.function = Size(c))
  <2> DEFINE g == Onward(Top)
  <2>1. /\ stack' = SetTop(g) /\ phase' = "looking" /\ outcome' = "pending"
        /\ table' = table /\ request' = request /\ called' = called
    BY <1>2, <1>8 DEF Returns
  <2>2. g.entry = c /\ g.function = Top.function + 1
    BY <1>1, <1>8, OnwardKeeps
  <2> HIDE DEF g
  <2>3. /\ Depth' = Depth /\ Top' = g
        /\ \A d \in 1 .. Depth - 1 : stack'[d] = stack[d]
    <3>1. /\ Depth' = Depth /\ Top' = g
          /\ \A d \in 1 .. Depth : d # Depth => stack'[d] = stack[d]
      BY <1>1, <2>1, TopChanges
    <3>2. \A d \in 1 .. Depth - 1 : d \in 1 .. Depth /\ d # Depth
      BY <1>1
    <3>. QED
      BY <3>1, <3>2
  <2>4. ~Forwarded' /\ Forgotten' /\ ~AtEnd'
    <3>1. Top.function + 1 > 1
      BY <1>1, <1>5 DEF At
    <3>2. c # End(table)
      BY <1>1, EntryIs
    <3>. QED
      BY <2>1, <2>2, <2>3, <3>1, <3>2 DEF Forwarded, Forgotten, AtEnd
  <2>5. ErrorNow' = "none" /\ OutcomeNow' = "pending" /\ LastCall' = LastCall
    BY <2>1, <2>4 DEF ErrorNow, OutcomeNow, LastCall
  <2>6. OutcomeByPhase' /\ FunctionByPhase' /\ ErrorIsBelow'
    BY <2>1, <2>4 DEF OutcomeByPhase, FunctionByPhase, ErrorIsBelow
  <2>7. FramesWait'
    BY <1>1, <2>1, <2>3, FramesStillWait
  <2>8. NothingPassed'
    <3>1. ASSUME NEW i \in Entries(table), NEW n \in Nat, MayBeNext(i, n, LastCall, "none")
          PROVE  NotPassed(i, n)'
      <4> DEFINE l == LastCall
      <4>1. l[1] = c /\ l[2] = Top.function /\ MayBeNext(i, n, l, "none")
        BY <1>2, <3>1
      <4> HIDE DEF l
      <4>2. c < i \/ (c = i /\ Top.function < n)
        BY <4>1 DEF MayBeNext
      <4>3. c < i \/ (c = i /\ Top.function + 1 <= n)
        BY <1>5, <4>2
      <4>. QED
        BY <2>2, <2>3, <2>4, <4>3 DEF NotPassed
    <3>. QED
      BY <2>1, <2>5, <3>1, NothingIsPassed
  <2>9. Chained'
    BY <2>6, <2>7, <2>8 DEF Chained
  <2>10. Top.error = "none" \/ (Top.error = "falsy" /\ Chain!More)
    <3>1. Top.function < Here.handlers \/ Here.sub # NoRouter
      BY <1>2, <1>5, <1>8
    <3>. QED
      BY <1>5, <1>6, <1>8, <3>1
  <2>. QED
    BY <1>1, <1>3, <2>1, <2>5, <2>9, <2>10 DEF Chain!Forward, LastCall, ErrorNow, OutcomeNow
<1>. QED
  BY <1>4, <1>7, <1>8

\* A loop that is at an entry which it takes: the errors it has, and the entries around.
LEMMA TakesEntry ==
  ASSUME IInv, GivenInv, Chained, NothingToTakeBelow, phase = "looking", ~AtEnd,
         Top.function = 1 => Fits
  PROVE  /\ ErrorNow = (IF Top.function = 1 THEN Top.error ELSE "none")
         /\ (ErrorNow = "none") <=> ~Here.error
         /\ ~Here.error => IsFor(table, Top.entry, request)
         /\ OutcomeNow = "pending" /\ outcome = "pending"
<1>1. Depth > 0 /\ At(Top) /\ WellFormed(table) /\ Top.entry \in Entries(table)
      /\ Top.function \in Nat /\ Top.function >= 1 /\ Top.function <= Size(Top.entry)
  <2>1. Depth > 0 /\ At(Top) /\ WellFormed(table)
    BY LoopIsAt, DepthIs DEF IInv, FramesFit
  <2>2. Top.function \in Nat /\ Top.function \in 1 .. Size(Top.entry)
    BY <2>1, DepthIs DEF At, Placed, IsFrame
  <2>. QED
    BY <2>1, <2>2 DEF At
<1>2. ~Forwarded /\ outcome = "pending"
  BY DEF Forwarded, Chained, OutcomeByPhase
<1>3. OutcomeNow = "pending" /\ ErrorNow = (IF Forgotten THEN "none" ELSE Top.error)
  BY <1>2 DEF OutcomeNow, ErrorNow
<1>4. ErrorNow = (IF Top.function = 1 THEN Top.error ELSE "none")
  BY <1>1, <1>3 DEF Forgotten
<1>5. Here.error => Top.function = 1
  <2>1. Here.error => Here.handlers = 1 /\ Here.sub = NoRouter
    BY <1>1 DEF WellFormed, Here
  <2>2. Here.error => Size(Top.entry) = 1
    BY <2>1 DEF Size, Here
  <2>. QED
    BY <1>1, <2>2
<1>6. (ErrorNow = "none") <=> ~Here.error
  BY <1>4, <1>5 DEF Fits
<1>7. ~Here.error => IsFor(table, Top.entry, request)
  BY FitsIsFor
<1>. QED
  BY <1>2, <1>3, <1>4, <1>6, <1>7

LEMMA CallHandlerChained ==
  ASSUME IInv, GivenInv, Chained, NothingToTakeBelow, CallHandler
  PROVE  Chained' /\ Chain!Call
<1> DEFINE c == Top.entry
           k == Top.function
           g == Awaiting(Top)
<1>1. /\ phase = "looking" /\ ~AtEnd /\ k <= Here.handlers /\ (k = 1 => Fits)
      /\ Depth > 0 /\ At(Top) /\ CalledBefore(Top) /\ IsFrame(Top) /\ RootFirst
      /\ Depth \in 1 .. Depth /\ Depth \in Nat /\ WellFormed(table) /\ c \in Entries(table)
  <2>1. Depth > 0 /\ ~AtEnd /\ CalledBefore(Top)
    BY DEF CallHandler, IInv, FramesFit, LoopsInOrder
  <2>. QED
    BY <2>1, LoopIsAt, DepthIs DEF CallHandler, Placed, At, GivenInv
<1>2. /\ ErrorNow = (IF k = 1 THEN Top.error ELSE "none")
      /\ (ErrorNow = "none") <=> ~Here.error
      /\ ~Here.error => IsFor(table, c, request)
      /\ OutcomeNow = "pending" /\ outcome = "pending"
  BY <1>1, TakesEntry
<1>3. /\ phase' = "running" /\ stack' = SetTop(g) /\ outcome' = "pending"
      /\ table' = table /\ request' = request /\ called' = Append(called, <<c, k>>)
  BY <1>2 DEF CallHandler, Awaiting
<1>4. LastCall' = <<c, k>>
  <2>1. called \in Seq(Nat \X Nat) /\ c \in Nat /\ k \in Nat
    BY <1>1, EntryIs DEF IInv, ValuesTyped, IsFrame
  <2> DEFINE h == <<c, k>>
  <2>2. h \in Nat \X Nat
    BY <2>1
  <2> HIDE DEF h
  <2>3. /\ Len(Append(called, h)) = Len(called) + 1 /\ Len(called) \in Nat
        /\ Append(called, h)[Len(called) + 1] = h /\ Append(called, h) \in Seq(Nat \X Nat)
    BY <2>1, <2>2, AppendProperties
  <2>4. Append(called, h) # <<>>
    <3> DEFINE s == Append(called, h)
    <3>1. s \in Seq(Nat \X Nat) /\ Len(s) # 0
      BY <2>3
    <3> HIDE DEF s
    <3>2. s # <<>>
      BY <3>1, EmptySeq
    <3>. QED
      BY <3>2 DEF s
  <2>. QED
    BY <1>3, <2>3, <2>4 DEF LastCall, h
<1>5. g.entry = c /\ g.function = k
  BY <1>1, AwaitingKeeps
<1> HIDE DEF g
<1>6. /\ Depth' = Depth /\ Top' = g
      /\ \A d \in 1 .. Depth - 1 : stack'[d] = stack[d]
  <2>1. /\ Depth' = Depth /\ Top' = g
        /\ \A d \in 1 .. Depth : d # Depth => stack'[d] = stack[d]
    BY <1>1, <1>3, TopChanges
  <2>2. \A d \in 1 .. Depth - 1 : d \in 1 .. Depth /\ d # Depth
    BY <1>1
  <2>. QED
    BY <2>1, <2>2
<1>7. ~Forwarded'
  BY <1>3 DEF Forwarded
<1>8. NothingPassed' /\ ErrorIsBelow' /\ ErrorNow' = "none" /\ OutcomeNow' = "pending"
  BY <1>3, <1>7, NoneLooks
<1>9. FramesWait'
  BY <1>1, <1>3, <1>6, FramesStillWait DEF Chained
<1>10. OutcomeByPhase' /\ FunctionByPhase'
  BY <1>1, <1>3, <1>4, <1>5, <1>6 DEF OutcomeByPhase, FunctionByPhase, Here
<1>11. Chained'
  BY <1>8, <1>9, <1>10 DEF Chained
<1>12. MayBeNext(c, k, LastCall, ErrorNow)
  <2>1. k \in 1 .. table[c].handlers
    <3>1. k \in Nat /\ k >= 1 /\ table[c].handlers \in Nat
      <4>1. k \in 1 .. Size(c) /\ k \in Nat
        BY <1>1 DEF At, IsFrame
      <4>. QED
        BY <1>1, <4>1, EntryIs DEF Entry
    <3>. QED
      BY <1>1, <3>1 DEF Here
  <2>2. LastCall[1] < c \/ (LastCall[1] = c /\ LastCall[2] < k)
    BY <1>1, LastIsBefore
  <2>3. \A m \in Entries(table) : Encloses(table, m, c) =>
                                    \E d \in 1 .. Depth - 1 : m = stack[d].entry
    BY <1>1, TopIsEnclosed
  <2>4. CASE ErrorNow = "none"
    <3>1. \A d \in 1 .. Depth - 1 : IsFor(table, stack[d].entry, request)
      BY DEF GivenInv, MountsFit
    <3>. QED
      BY <1>1, <1>2, <2>1, <2>2, <2>3, <2>4, <3>1 DEF MayBeNext, Here
  <2>5. CASE ErrorNow # "none"
    <3>1. Top.error # "none" /\ ~Forgotten
      BY <1>2, <2>5 DEF Forgotten
    <3>2. \A d \in 1 .. Depth - 1 : Encloses(table, stack[d].entry, LastCall[1])
      BY <1>1, <3>1 DEF Chained, ErrorIsBelow
    <3>. QED
      BY <1>1, <1>2, <2>1, <2>2, <2>3, <2>5, <3>2 DEF MayBeNext, Here
  <2>. QED
    BY <2>4, <2>5
<1>13. <<c, k>> \in Chain!Ahead
  BY <1>12, AheadIs
<1>14. ASSUME NEW h \in Chain!Ahead PROVE h = <<c, k>> \/ Chain!Before(<<c, k>>, h)
  <2>1. h = <<h[1], h[2]>> /\ MayBeNext(h[1], h[2], LastCall, ErrorNow)
    BY AheadIs
  <2> DEFINE i == h[1]
             n == h[2]
  <2>2. i \in Entries(table) /\ n \in Nat
    <3>1. i \in Entries(table) /\ n \in 1 .. table[i].handlers
      BY <2>1 DEF MayBeNext
    <3>. QED
      BY <3>1
  <2>3. NotPassed(i, n)
    BY <2>1, <2>2 DEF Chained, NothingPassed
  <2>4. c < i \/ (c = i /\ k <= n)
    BY <1>1, <2>3 DEF NotPassed
  <2>5. k \in Nat
    BY <1>1 DEF IsFrame
  <2>6. h = <<i, n>>
    BY <2>1
  <2> HIDE DEF i, n
  <2>7. c < i \/ (c = i /\ k = n) \/ (c = i /\ k < n)
    BY <2>2, <2>4, <2>5
  <2>. QED
    BY <2>6, <2>7 DEF Chain!Before
<1>. QED
  <2> DEFINE h == <<c, k>>
  <2>1. h \in Chain!Ahead /\ (\A x \in Chain!Ahead : x = h \/ Chain!Before(h, x))
    BY <1>13, <1>14
  <2>2. LastCall' = h
    BY <1>4
  <2> HIDE DEF h
  <2>. QED
    BY <1>1, <1>2, <1>3, <1>8, <1>11, <2>1, <2>2
       DEF Chain!Call, LastCall, ErrorNow, OutcomeNow

LEMMA EnterSubRouterChained ==
  ASSUME IInv, GivenInv, Chained, NothingToTakeBelow, EnterSubRouter
  PROVE  Chained' /\ UNCHANGED Chain!chainVars
<1> DEFINE c == Top.entry
           g == Awaiting(Top)
           f == Frame(Here.sub, Strip(Here.path, Top.rest), EntryParams, route')
<1>1. /\ phase = "looking" /\ ~AtEnd /\ Top.function = Here.handlers + 1
      /\ (Top.function = 1 => Fits)
      /\ Depth > 0 /\ At(Top) /\ IsFrame(Top)
      /\ Depth \in 1 .. Depth /\ Depth \in Nat /\ WellFormed(table) /\ c \in Entries(table)
  <2>1. Depth > 0 /\ ~AtEnd
    BY DEF EnterSubRouter, IInv, FramesFit
  <2>. QED
    BY <2>1, LoopIsAt, DepthIs DEF EnterSubRouter, Placed, At
<1>2. /\ (ErrorNow = "none") <=> ~Here.error
      /\ ~Here.error => IsFor(table, c, request)
      /\ OutcomeNow = "pending" /\ outcome = "pending"
  BY <1>1, TakesEntry
<1>3. /\ Here.sub # NoRouter /\ ~Here.error /\ table[c].handlers \in Nat /\ c \in Nat
      /\ table[c].sub = Here.sub /\ table[c].handlers = Here.handlers
  <2>1. Top.function \in 1 .. Size(c) /\ Here.handlers \in Nat /\ c \in Nat
    BY <1>1, EntryIs DEF At, Here, Entry
  <2>2. Here.sub # NoRouter
    BY <1>1, <2>1 DEF Size, Here
  <2>3. Here.error => Here.sub = NoRouter
    BY <1>1 DEF WellFormed, Here
  <2>. QED
    BY <2>1, <2>2, <2>3 DEF Here
<1>4. /\ stack' = Append(SetTop(g), f) /\ phase' = "looking" /\ outcome' = "pending"
      /\ table' = table /\ request' = request /\ called' = called
  BY <1>2 DEF EnterSubRouter, Awaiting
<1>5. /\ f.error = "none" /\ f.function = 1 /\ f.entry = FirstFrom(table, Here.sub, 1)
  BY DEF Frame
<1>6. g.entry = c /\ ~g.forward
  BY <1>1, AwaitingKeeps
<1>7. f.entry \in Nat
  BY <1>1, <1>5, FirstFromIs
<1> HIDE DEF f, g
<1>8. /\ Depth' = Depth + 1 /\ Top' = f /\ stack'[Depth] = g
      /\ \A d \in 1 .. Depth : d # Depth => stack'[d] = stack[d]
  BY <1>1, <1>4, FrameOnTop
<1>9. ~Forwarded' /\ ~Forgotten'
  BY <1>4, <1>5, <1>8 DEF Forwarded, Forgotten
<1>10. ErrorNow' = "none" /\ OutcomeNow' = "pending" /\ LastCall' = LastCall
  BY <1>4, <1>5, <1>8, <1>9 DEF ErrorNow, OutcomeNow, LastCall
<1>11. OutcomeByPhase' /\ FunctionByPhase' /\ ErrorIsBelow'
  BY <1>4, <1>5, <1>8 DEF OutcomeByPhase, FunctionByPhase, ErrorIsBelow
<1>12. FramesWait'
  <2>1. ASSUME NEW d \in 1 .. Depth
        PROVE  ~stack'[d].forward
    <3>1. CASE d = Depth
      BY <1>2, <1>3, <1>6, <1>8, <3>1
    <3>2. CASE d # Depth
      <4>1. d \in 1 .. Depth - 1
        BY <1>1, <3>2
      <4>. QED
        BY <1>8, <3>2, <4>1 DEF Chained, FramesWait
    <3>. QED
      BY <3>1, <3>2
  <2>2. Depth' - 1 = Depth
    BY <1>1, <1>8
  <2>. QED
    BY <1>4, <2>1, <2>2 DEF FramesWait
<1>13. NothingPassed'
  <2>1. ASSUME NEW i \in Entries(table), NEW n \in Nat, MayBeNext(i, n, LastCall, "none")
        PROVE  NotPassed(i, n)'
    <3>1. MayBeNext(i, n, LastCall, ErrorNow) /\ n \in 1 .. table[i].handlers
      BY <1>2, <1>3, <2>1 DEF MayBeNext
    <3>2. c < i \/ (c = i /\ Top.function <= n)
      BY <1>1, <3>1 DEF Chained, NothingPassed, NotPassed
    <3>3. c < i /\ i \in Nat /\ n >= 1
      <4>1. i \in Nat /\ n <= table[i].handlers /\ n >= 1
        BY <1>1, <3>1, EntryIs
      <4>. QED
        BY <1>1, <1>3, <3>2, <4>1
    <3> DEFINE r == Here.sub
    <3>4. /\ c # 0 /\ 1 \in Nat /\ table[c].sub = r /\ r # NoRouter
          /\ \A k \in Entries(table) : table[k].router = r /\ k < 1 => table[k].last < i
      BY <1>1, <1>3, EntryIs DEF Entries, WellFormed
    <3> HIDE DEF r
    <3>5. LET x == FirstFrom(table, r, 1)
          IN  IF x = End(table) THEN c # 0 /\ table[c].last < i ELSE x <= i
      BY <1>1, <3>3, <3>4, LandsBefore
    <3>6. IF f.entry = End(table) THEN table[c].last < i ELSE f.entry <= i
      BY <1>5, <3>5 DEF r
    <3>7. Depth' > 1 /\ stack'[Depth' - 1].entry = c
      BY <1>1, <1>6, <1>8
    <3>8. IF AtEnd' THEN Depth' > 1 /\ table'[stack'[Depth' - 1].entry].last < i
          ELSE Top'.entry <= i
      BY <1>4, <1>8, <3>6, <3>7 DEF AtEnd
    <3>. QED
      BY <1>4, <1>5, <1>7, <1>8, <3>3, <3>8, ComesTo
  <2>. QED
    BY <1>4, <1>10, <2>1, NothingIsPassed
<1>14. Chained'
  BY <1>11, <1>12, <1>13 DEF Chained
<1>. QED
  BY <1>1, <1>2, <1>3, <1>4, <1>10, <1>14, ChainStutters

\* A loop that is through has an error that was not forgotten.
LEMMA EndIs ==
  ASSUME Chained, phase = "looking", AtEnd
  PROVE  /\ ErrorNow = Top.error /\ OutcomeNow = "pending" /\ outcome = "pending"
         /\ \A i \in Entries(table), n \in Nat : MayBeNext(i, n, LastCall, ErrorNow) =>
              Depth > 1 /\ table[stack[Depth - 1].entry].last < i
<1>1. ~Forwarded /\ ~Forgotten /\ outcome = "pending"
  BY DEF Forwarded, Forgotten, Chained, FunctionByPhase, OutcomeByPhase
<1>2. \A i \in Entries(table), n \in Nat : MayBeNext(i, n, LastCall, ErrorNow) =>
        Depth > 1 /\ table[stack[Depth - 1].entry].last < i
  BY DEF Chained, NothingPassed, NotPassed
<1>. QED
  BY <1>1, <1>2 DEF ErrorNow, OutcomeNow

LEMMA EndSubRouterChained ==
  ASSUME IInv, Chained, EndSubRouter
  PROVE  Chained' /\ UNCHANGED Chain!chainVars
<1> DEFINE b == stack[Depth - 1]
           g == Nexted(b, Top.error)
<1>1. /\ phase = "looking" /\ AtEnd /\ Depth > 1 /\ Depth \in Nat /\ Depth - 1 \in 1 .. Depth
      /\ Depth - 1 \in Nat /\ Depth - 1 > 0
  BY DepthIs DEF EndSubRouter
<1>2. /\ ErrorNow = Top.error /\ OutcomeNow = "pending" /\ outcome = "pending"
      /\ \A i \in Entries(table), n \in Nat : MayBeNext(i, n, LastCall, ErrorNow) =>
           table[b.entry].last < i
  BY <1>1, EndIs
<1>3. /\ stack' = [Pop EXCEPT ![Depth - 1] = g] /\ phase' = "returning"
      /\ table' = table /\ request' = request /\ called' = called
  BY DEF EndSubRouter
<1>4. g.entry = b.entry /\ g.forward /\ g.error = Top.error
  <2>1. IsFrame(b)
    BY <1>1, FramesTyped, DepthIs DEF Depth
  <2> HIDE DEF b
  <2>. QED
    BY <2>1, NextedKeeps
<1> HIDE DEF g, b
<1>5. /\ Depth' = Depth - 1 /\ Depth' \in Nat /\ Top' = g
      /\ \A d \in 1 .. Depth - 1 : d # Depth - 1 => stack'[d] = stack[d]
  BY <1>1, <1>3, TopTells
<1>6. \A d \in 1 .. Depth' - 1 : stack'[d] = stack[d] /\ d \in 1 .. Depth - 1
  <2>1. ASSUME NEW d \in 1 .. Depth - 1 - 1 PROVE d \in 1 .. Depth - 1 /\ d # Depth - 1
    BY <1>1
  <2>. QED
    BY <1>5, <2>1
<1>7. Forwarded'
  BY <1>1, <1>3, <1>4, <1>5 DEF Forwarded
<1>8. ErrorNow' = Top.error /\ OutcomeNow' = "pending" /\ LastCall' = LastCall
  BY <1>3, <1>4, <1>5, <1>7 DEF ErrorNow, OutcomeNow, LastCall
<1>9. OutcomeByPhase' /\ FunctionByPhase'
  BY <1>3, <1>7 DEF OutcomeByPhase, FunctionByPhase
<1>10. FramesWait'
  <2>1. FramesWait /\ Depth' <= Depth
    BY <1>1, <1>5 DEF Chained
  <2>. QED
    BY <1>1, <1>3, <1>5, <1>6, <2>1, FramesStillWait
<1>11. ErrorIsBelow'
  <2>1. SUFFICES ASSUME Top.error # "none", NEW d \in 1 .. Depth' - 1
                 PROVE  Encloses(table, stack'[d].entry, LastCall[1])
    BY <1>3, <1>4, <1>5, <1>8 DEF ErrorIsBelow
  <2>2. ~Forgotten
    BY <1>1 DEF Chained, FunctionByPhase, Forgotten
  <2>3. Encloses(table, stack[d].entry, LastCall[1])
    BY <1>1, <1>6, <2>1, <2>2 DEF Chained, ErrorIsBelow
  <2>. QED
    BY <1>6, <2>3
<1>12. NothingPassed'
  <2>1. ASSUME NEW i \in Entries(table), NEW n \in Nat, MayBeNext(i, n, LastCall, Top.error)
        PROVE  NotPassed(i, n)'
    BY <1>2, <1>3, <1>4, <1>5, <2>1 DEF NotPassed
  <2> DEFINE e == Top.error
  <2>2. /\ ErrorNow' = e
        /\ \A i \in Entries(table), n \in Nat : MayBeNext(i, n, LastCall, e) =>
             NotPassed(i, n)'
    BY <1>8, <2>1
  <2> HIDE DEF e
  <2>. QED
    BY <1>3, <1>8, <2>2, NothingIsPassed
<1>13. Chained'
  BY <1>9, <1>10, <1>11, <1>12 DEF Chained
<1>. QED
  BY <1>1, <1>2, <1>3, <1>8, <1>13, ChainStutters

\* No frame is left.
LEMMA NoFramesChained ==
  ASSUME stack' = <<>>, phase' \in {"returning", "waiting", "answered"}, outcome' # "pending"
  PROVE  Chained' /\ ErrorNow' = "none" /\ OutcomeNow' = outcome'
<1>1. Depth' = 0 /\ 1 .. 0 - 1 = {}
  BY DEF Depth
<1>2. ~Forwarded'
  BY <1>1 DEF Forwarded
<1>3. NothingPassed' /\ ErrorIsBelow' /\ ErrorNow' = "none" /\ OutcomeNow' = outcome'
  BY <1>2, NoneLooks
<1>4. OutcomeByPhase' /\ FunctionByPhase'
  BY DEF OutcomeByPhase, FunctionByPhase
<1>5. FramesWait'
  BY <1>1 DEF FramesWait
<1>. QED
  BY <1>3, <1>4, <1>5 DEF Chained

LEMMA EndRootChained ==
  ASSUME IInv, Chained, EndRoot
  PROVE  Chained' /\ Chain!Exhaust
<1>1. /\ phase = "looking" /\ AtEnd /\ Depth = 1
      /\ stack' = <<>> /\ phase' = "answered"
      /\ outcome' = (IF Top.error = "truthy" THEN "failed" ELSE "unmatched")
      /\ table' = table /\ request' = request /\ called' = called
  BY DEF EndRoot
<1>2. /\ ErrorNow = Top.error /\ OutcomeNow = "pending"
      /\ \A i \in Entries(table), n \in Nat : ~MayBeNext(i, n, LastCall, ErrorNow)
  BY <1>1, EndIs
<1>3. Chained' /\ ErrorNow' = "none" /\ OutcomeNow' = outcome'
  BY <1>1, NoFramesChained
<1>4. Chain!Ahead = {}
  <2>1. SUFFICES ASSUME NEW h \in Chain!Ahead PROVE FALSE
    OBVIOUS
  <2>2. MayBeNext(h[1], h[2], LastCall, ErrorNow)
    BY AheadIs
  <2>3. h[1] \in Entries(table) /\ h[2] \in 1 .. table[h[1]].handlers
    BY <2>2 DEF MayBeNext
  <2>4. h[2] \in Nat
    BY <2>3
  <2>. QED
    BY <1>2, <2>2, <2>3, <2>4
<1>5. LastCall' = LastCall
  BY <1>1 DEF LastCall
<1>. QED
  BY <1>1, <1>2, <1>3, <1>4, <1>5 DEF Chain!Exhaust, LastCall, ErrorNow, OutcomeNow

LEMMA ReturnChained ==
  ASSUME IInv, GivenInv, Chained, Return
  PROVE  Chained' /\ UNCHANGED Chain!chainVars
<1>1. /\ phase = "returning" /\ Depth \in Nat
      /\ table' = table /\ request' = request /\ called' = called
  BY DepthIs DEF Return
<1>2. CASE Depth > 0 /\ Top.forward
  <2> DEFINE f == Top
  <2>1. /\ Forwarded /\ ErrorNow = Top.error /\ OutcomeNow = "pending"
    BY <1>1, <1>2 DEF Forwarded, ErrorNow, OutcomeNow
  <2>2. /\ Top.function = Size(Top.entry) /\ At(Top) /\ IsFrame(Top) /\ RootFirst /\ FramesWait
    <3>1. Awaits(Top, table[Top.entry].sub)
      BY <1>1, <1>2 DEF IInv, FramesFit
    <3>2. Placed(Top) /\ Top.entry # End(table)
      BY <1>2, <3>1, DepthIs, EntryIs DEF Awaits
    <3>. QED
      BY <3>1, <3>2 DEF Awaits, Placed, GivenInv, Chained
  <2>3. phase' = "looking" /\ outcome' = "pending" /\ stack' = SetTop(NextEntry(Top))
    BY <1>2, <2>2 DEF Return, Onward
  <2>4. /\ IsFrame(f) /\ f.router = Top.router /\ f.entry = Top.entry
        /\ stack' = SetTop(NextEntry(f))
        /\ f.error # "none" =>
             \A d \in 1 .. Depth - 1 : Encloses(table, stack[d].entry, LastCall[1])
        /\ \A i \in Entries(table), n \in Nat :
             MayBeNext(i, n, LastCall, f.error) => table[Top.entry].last < i
    <3>1. Top.error # "none" =>
            \A d \in 1 .. Depth - 1 : Encloses(table, stack[d].entry, LastCall[1])
      BY <2>1 DEF Chained, ErrorIsBelow
    <3>2. \A i \in Entries(table), n \in Nat :
            MayBeNext(i, n, LastCall, Top.error) => table[Top.entry].last < i
      BY <2>1 DEF Chained, NothingPassed, NotPassed
    <3>. QED
      BY <2>2, <2>3, <3>1, <3>2
  <2> HIDE DEF f
  <2>5. /\ Chained' /\ ErrorNow' = f.error /\ OutcomeNow' = "pending"
        /\ LastCall' = LastCall
    BY <1>1, <1>2, <2>2, <2>3, <2>4, GoesOn
  <2>. QED
    BY <1>1, <2>1, <2>3, <2>5, ChainStutters DEF f
<1>3. CASE ~(Depth > 0 /\ Top.forward)
  <2>1. /\ ~Forwarded /\ ErrorNow = "none" /\ OutcomeNow = outcome /\ outcome # "pending"
    <3>1. ~Forwarded
      BY <1>3 DEF Forwarded
    <3>. QED
      BY <1>1, <3>1 DEF ErrorNow, OutcomeNow, Chained, OutcomeByPhase
  <2>2. outcome' = outcome /\ LastCall' = LastCall
    BY <1>1, <1>3 DEF Return, LastCall
  <2>3. CASE Depth > 0
    <3>1. stack' = Pop /\ phase' = "returning"
      BY <1>3, <2>3 DEF Return
    <3>2. /\ Chained' /\ ErrorNow' = "none" /\ OutcomeNow' = outcome'
      BY <1>1, <2>1, <2>2, <2>3, <3>1, PopChained
    <3>. QED
      BY <1>1, <2>1, <2>2, <3>1, <3>2, ChainStutters
  <2>4. CASE ~(Depth > 0)
    <3>1. stack' = <<>> /\ phase' \in {"waiting", "answered"}
      BY <1>3, <2>4 DEF Return
    <3>2. /\ Chained' /\ ErrorNow' = "none" /\ OutcomeNow' = outcome'
      BY <2>1, <2>2, <3>1, NoFramesChained
    <3>. QED
      BY <1>1, <2>1, <2>2, <3>1, <3>2, ChainStutters
  <2>. QED
    BY <2>3, <2>4
<1>. QED
  BY <1>2, <1>3

LEMMA TimeOutChained ==
  ASSUME IInv, Chained, TimeOut
  PROVE  Chained' /\ UNCHANGED Chain!chainVars
<1>1. /\ phase = "waiting" /\ stack = <<>> /\ stack' = <<>> /\ phase' = "answered"
      /\ table' = table /\ request' = request /\ called' = called /\ outcome' = outcome
  BY DEF TimeOut, IInv, FramesFit
<1>2. /\ ErrorNow = "none" /\ OutcomeNow = outcome /\ outcome # "pending"
      /\ LastCall' = LastCall
  BY <1>1 DEF Forwarded, ErrorNow, OutcomeNow, Chained, OutcomeByPhase, LastCall
<1>3. /\ Chained' /\ ErrorNow' = "none" /\ OutcomeNow' = outcome'
  BY <1>1, <1>2, NoFramesChained
<1>. QED
  BY <1>1, <1>2, <1>3, ChainStutters

\* Before the request has been read nothing was called.
LEMMA ParsingIs ==
  ASSUME IInv, Chained, phase = "parsing"
  PROVE  /\ called = <<>> /\ LastCall = <<0, 0>> /\ outcome = "pending"
         /\ ErrorNow = "none" /\ OutcomeNow = "pending" /\ stack = <<>>
BY DEF IInv, FramesFit, LastCall, Forwarded, ErrorNow, OutcomeNow, Chained, OutcomeByPhase

LEMMA RejectBodyChained ==
  ASSUME IInv, Chained, RejectBody
  PROVE  Chained' /\ Chain!Reject
<1>1. /\ phase = "parsing" /\ phase' = "answered" /\ outcome' = "unreadable"
      /\ table' = table /\ request' = request /\ called' = called /\ stack' = stack
  BY DEF RejectBody
<1>2. /\ called = <<>> /\ LastCall = <<0, 0>> /\ outcome = "pending"
      /\ ErrorNow = "none" /\ OutcomeNow = "pending" /\ stack = <<>>
  BY <1>1, ParsingIs
<1>3. /\ Chained' /\ ErrorNow' = "none" /\ OutcomeNow' = outcome'
  BY <1>1, <1>2, NoFramesChained
<1>. QED
  BY <1>1, <1>2, <1>3 DEF Chain!Reject, LastCall, ErrorNow, OutcomeNow

LEMMA ParseChained ==
  ASSUME IInv, Chained, Parse
  PROVE  Chained' /\ UNCHANGED Chain!chainVars
<1> DEFINE f == Frame(Root, Normalize(request.path), <<>>, <<>>)
<1>1. /\ phase = "parsing" /\ phase' = "looking" /\ outcome' = outcome /\ stack' = <<f>>
      /\ table' = table /\ request' = request /\ called' = called
  BY DEF Parse
<1>2. /\ called = <<>> /\ LastCall = <<0, 0>> /\ outcome = "pending"
      /\ ErrorNow = "none" /\ OutcomeNow = "pending"
  BY <1>1, ParsingIs
<1>3. f.error = "none" /\ f.function = 1 /\ f.entry = FirstFrom(table, Root, 1)
  BY DEF Frame
<1>4. WellFormed(table) /\ f.entry \in Nat
  BY <1>3, DepthIs, FirstFromIs
<1> HIDE DEF f
<1>5. Depth' = 1 /\ Top' = f /\ 1 .. 1 - 1 = {}
  BY <1>1 DEF Depth, Top
<1>6. ~Forwarded' /\ ~Forgotten'
  BY <1>1, <1>3, <1>5 DEF Forwarded, Forgotten
<1>7. ErrorNow' = "none" /\ OutcomeNow' = "pending" /\ LastCall' = LastCall
  BY <1>1, <1>2, <1>3, <1>5, <1>6 DEF ErrorNow, OutcomeNow, LastCall
<1>8. OutcomeByPhase' /\ FunctionByPhase' /\ ErrorIsBelow' /\ FramesWait'
  BY <1>1, <1>2, <1>3, <1>5 DEF OutcomeByPhase, FunctionByPhase, ErrorIsBelow, FramesWait
<1>9. NothingPassed'
  <2>1. ASSUME NEW i \in Entries(table), NEW n \in Nat, MayBeNext(i, n, LastCall, "none")
        PROVE  NotPassed(i, n)'
    <3>1. i \in Nat /\ n >= 1
      BY <1>4, <2>1, EntryIs DEF MayBeNext
    <3>2. \A k \in Entries(table) : ~(k < 1)
      BY DEF Entries
    <3>3. LET x == FirstFrom(table, Root, 1)
          IN  IF x = End(table) THEN 0 # 0 /\ table[0].last < i ELSE x <= i
      <4> DEFINE m == 0
                 a == 1
      <4>1. m = 0 /\ a \in Nat /\ \A k \in Entries(table) : ~(k < a)
        BY <3>2
      <4> HIDE DEF m, a
      <4>2. LET x == FirstFrom(table, Root, a)
            IN  IF x = End(table) THEN m # 0 /\ table[m].last < i ELSE x <= i
        BY <1>4, <4>1, LandsBefore
      <4>. QED
        BY <4>2 DEF m, a
    <3>4. ~AtEnd' /\ Top'.entry <= i
      BY <1>1, <1>3, <1>5, <3>3 DEF AtEnd
    <3>. QED
      BY <1>1, <1>3, <1>4, <1>5, <3>1, <3>4, ComesTo
  <2>. QED
    BY <1>1, <1>7, <2>1, NothingIsPassed
<1>10. Chained'
  BY <1>8, <1>9 DEF Chained
<1>. QED
  BY <1>1, <1>2, <1>7, <1>10, ChainStutters

LEMMA CallsNextChained ==
  ASSUME IInv, Chained, NEW e \in Errors, CallsNext(e)
  PROVE  Chained' /\ UNCHANGED Chain!chainVars
<1> DEFINE g == Nexted(Top, e)
<1>1. /\ phase = "running" /\ phase' = "running" /\ outcome' = outcome /\ stack' = SetTop(g)
      /\ table' = table /\ request' = request /\ called' = called
  BY DEF CallsNext
<1>2. Depth > 0 /\ IsFrame(Top) /\ Depth \in Nat
  BY <1>1, DepthIs DEF IInv, FramesFit, Placed
<1>3. g.entry = Top.entry /\ g.function = Top.function
  BY <1>2, NextedKeeps
<1> HIDE DEF g
<1>4. /\ Depth' = Depth /\ Top' = g
      /\ \A d \in 1 .. Depth - 1 : stack'[d] = stack[d]
  <2>1. /\ Depth' = Depth /\ Top' = g
        /\ \A d \in 1 .. Depth : d # Depth => stack'[d] = stack[d]
    BY <1>1, <1>2, TopChanges
  <2>2. \A d \in 1 .. Depth - 1 : d \in 1 .. Depth /\ d # Depth
    BY <1>2
  <2>. QED
    BY <2>1, <2>2
<1>5. ~Forwarded /\ ~Forwarded'
  BY <1>1 DEF Forwarded
<1>6. /\ ErrorNow = "none" /\ ErrorNow' = "none" /\ OutcomeNow' = OutcomeNow
      /\ LastCall' = LastCall
  BY <1>1, <1>5 DEF ErrorNow, OutcomeNow, LastCall
<1>7. NothingPassed' /\ ErrorIsBelow'
  BY <1>1, <1>5, NoneLooks
<1>8. OutcomeByPhase' /\ FunctionByPhase'
  BY <1>1, <1>3, <1>4, <1>6 DEF Chained, OutcomeByPhase, FunctionByPhase, Here
<1>9. FramesWait'
  BY <1>1, <1>2, <1>4, FramesStillWait DEF Chained
<1>10. Chained'
  BY <1>7, <1>8, <1>9 DEF Chained
<1>. QED
  BY <1>1, <1>6, <1>10, ChainStutters

\* A step is one of the chain's, or changes nothing that the chain is about.
LEMMA StepChained ==
  ASSUME IInv, GivenInv, Chained, NothingToTakeBelow, Loops \/ Handler
  PROVE  Chained' /\ [Chain!ChainNext(ErrorValues)]_Chain!chainVars
<1>1. CASE Loops
  BY <1>1, RejectBodyChained, ParseChained, SkipEntryChained, CallHandlerChained,
     EnterSubRouterChained, EndSubRouterChained, EndRootChained, ReturnChained,
     TimeOutChained DEF Loops, Chain!ChainNext
<1>2. CASE \E e \in ErrorValues : Throws(e)
  BY <1>2, ThrowsChained DEF Chain!ChainNext
<1>3. CASE \E v \in {"something", "nothing"} : Returns(v)
  <2>1. PICK v \in {"something", "nothing"} : Returns(v)
    BY <1>3
  <2>2. Chained' /\ (Chain!Give(v) \/ Chain!Forward(Top.error))
    BY <2>1, ReturnsChained
  <2>3. Top.error \in ErrorValues \cup {"none"}
    BY <2>1, DepthIs DEF Returns, IInv, FramesFit, Placed, IsFrame, Errors
  <2>. QED
    BY <2>2, <2>3 DEF Chain!ChainNext
<1>4. CASE \E e \in Errors : CallsNext(e)
  BY <1>4, CallsNextChained
<1>. QED
  BY <1>1, <1>2, <1>3, <1>4 DEF Handler, Settles

LEMMA NextIsChained ==
  ASSUME IInv, GivenInv, ChainInv, [Next]_vars
  PROVE  /\ ChainInv'
         /\ [late' > 0 \/ ~NothingToTakeBelow
              \/ Chain!ChainNext(ErrorValues)]_Chain!chainVars
<1>1. late \in Nat
  BY DEF IInv, ValuesTyped
<1>2. CASE UNCHANGED vars
  <2>1. UNCHANGED Chain!chainVars
    BY <1>2 DEF vars, Chain!chainVars, Forwarded, Forgotten, Depth, Top
  <2>2. ChainInv'
    BY <1>2 DEF vars, ChainInv, Chained, OutcomeByPhase, FunctionByPhase, FramesWait,
                ErrorIsBelow, NothingPassed, NotPassed, MayBeNext, LastCall, ErrorNow,
                Forwarded, Forgotten, Depth, Top, AtEnd, Here, NothingToTakeBelow
  <2>. QED
    BY <2>1, <2>2
<1>3. CASE \E d \in 1 .. Depth, e \in Errors : LateNext(d, e)
  <2>1. late' > 0
    BY <1>1, <1>3 DEF LateNext
  <2>. QED
    BY <2>1 DEF ChainInv
<1>4. CASE Loops \/ Handler
  <2>1. late' = late /\ table' = table /\ request' = request
    BY <1>4 DEF Loops, RejectBody, Parse, SkipEntry, CallHandler, EnterSubRouter,
                EndSubRouter, EndRoot, Return, TimeOut, Handler, Settles, Throws, Returns,
                CallsNext
  <2>2. NothingToTakeBelow' <=> NothingToTakeBelow
    BY <2>1 DEF NothingToTakeBelow
  <2>3. CASE late = 0 /\ NothingToTakeBelow
    BY <1>4, <2>3, StepChained DEF ChainInv
  <2>4. CASE late # 0
    BY <1>1, <2>1, <2>4 DEF ChainInv
  <2>5. CASE ~NothingToTakeBelow
    BY <2>2, <2>5 DEF ChainInv
  <2>. QED
    BY <2>3, <2>4, <2>5
<1>. QED
  BY <1>2, <1>3, <1>4 DEF Next

LEMMA InitChained == Init => ChainInv /\ Chain!ChainInit
<1> SUFFICES ASSUME Init PROVE ChainInv /\ Chain!ChainInit
  OBVIOUS
<1>1. /\ phase = "parsing" /\ stack = <<>> /\ called = <<>> /\ outcome = "pending"
      /\ Depth = 0 /\ 1 .. 0 - 1 = {} /\ ~Forwarded
  BY DEF Init, Depth, Forwarded
<1>2. OutcomeByPhase /\ FunctionByPhase /\ FramesWait /\ ErrorIsBelow /\ NothingPassed
  BY <1>1 DEF OutcomeByPhase, FunctionByPhase, FramesWait, ErrorIsBelow, NothingPassed,
              NotPassed
<1>3. Chain!ChainInit
  BY <1>1 DEF Chain!ChainInit
<1>. QED
  BY <1>2, <1>3 DEF ChainInv, Chained

----------------------------------------------------------------------------
(* The theorems.                                                           *)

\* The variables keep to their types, and every loop that is not through is at a function
\* of an entry of its router, for any tables and requests.
THEOREM TypeCorrect == Spec => []TypeOK
BY AlwaysIInv, IInvGivesTypeOK, PTL

\* No handler is ever called twice or out of the order of registration, however deep the
\* sub-routers are nested, whatever handlers return and throw, and however often the next
\* of a handler that has come back is called again.
THEOREM HandlersAreCalledInOrder == Spec => []CalledInOrder
<1>1. IInv => CalledInOrder
  BY DEF IInv
<1>. QED
  BY <1>1, AlwaysIInv, PTL

\* While a processing handler runs, request.params has what the pathnames of its entry and
\* of the mounts above it give at their places in the whole pathname, and no others, and
\* routePathname is those pathnames: for any table, any request that comes to no mount below
\* another which has something to take off, and whatever handlers do.
THEOREM ParametersAlwaysBelong == Spec => []ParamsBelong
<1>1. GivenInv => ParamsBelong
  BY DEF GivenInv, EntryIsGiven, Settled, ParamsBelong
<1>. QED
  BY <1>1, AlwaysGiven, PTL

\* Handlers are called as HandlerChain says, for any tables, any request that comes to no
\* mount below another which has something to take off, and whatever handlers return and
\* throw, as long as they call next before they come back: without an error the next function
\* of the next entry that fits the request with all its mounts, with an error the next error
\* handler in reach; no handler is passed over, and a request is unmatched or failed only
\* when none is left.
THEOREM RouterImplementsHandlerChain == Spec => ImplementsHandlerChain
<1>1. Init => IInv /\ GivenInv /\ ChainInv /\ Chain!ChainInit
  BY InitIInv, InitGiven, InitChained
<1>2. IInv /\ GivenInv /\ ChainInv /\ [Next]_vars =>
        /\ (IInv /\ GivenInv /\ ChainInv)'
        /\ [late' > 0 \/ ~NothingToTakeBelow
             \/ Chain!ChainNext(ErrorValues)]_Chain!chainVars
  BY StepIInv, StepGiven, NextIsChained
<1>. QED
  BY <1>1, <1>2, PTL DEF Spec, ImplementsHandlerChain

=============================================================================
