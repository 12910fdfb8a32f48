-------------------------- MODULE Delivery_proofs --------------------------
(***************************************************************************)
(* Proofs about what Wire.tla delivers while no send() is cut short: files *)
(* are whole, and under the conditions of its run it implements Courier,   *)
(* for any number of connections and any sizes.                            *)
(***************************************************************************)
EXTENDS Wire_proofs

(*                     The package that is to come next                    *)

Place(id, num) == [id |-> id, num |-> num]

HeadsAfter(s, i) == {k \in i + 1 .. Len(s) : s[k].t = "head"}

(* The package whose head is the first after position i of s; when none is *)
(* there, the one that is to be sent next.                                 *)
Awaited(s, i, due) ==
  IF HeadsAfter(s, i) = {} THEN due
  ELSE LET x == s[Min(HeadsAfter(s, i))] IN Place(x.id, x.num)

LEMMA MinLeast ==
  ASSUME NEW S \in SUBSET Nat, NEW x \in S, \A y \in S : x <= y
  PROVE  Min(S) = x
<1>1. Min(S) \in S /\ \A y \in S : Min(S) <= y
  BY MinIsMember
<1>2. Min(S) <= x /\ x <= Min(S) /\ x \in Nat /\ Min(S) \in Nat
  BY <1>1
<1> QED BY <1>2

LEMMA AwaitedHead ==
  ASSUME NEW s \in Seq(Tokens), NEW i \in 0 .. Len(s), NEW due,
         NEW j \in HeadsAfter(s, i), \A k \in HeadsAfter(s, i) : j <= k
  PROVE  Awaited(s, i, due) = Place(s[j].id, s[j].num)
<1>1. HeadsAfter(s, i) \in SUBSET Nat
  BY DEF HeadsAfter
<1>2. Min(HeadsAfter(s, i)) = j
  BY <1>1, MinLeast
<1> QED BY <1>2 DEF Awaited

LEMMA FirstHead ==
  ASSUME NEW s \in Seq(Tokens), NEW i \in 0 .. Len(s), HeadsAfter(s, i) # {}
  PROVE  \E j \in HeadsAfter(s, i) : \A k \in HeadsAfter(s, i) : j <= k
<1>1. HeadsAfter(s, i) \in SUBSET Nat
  BY DEF HeadsAfter
<1> QED BY <1>1, MinIsMember

(* The stream moved forward by k.                                          *)
Forward(s, r, k) ==
  k \in 0 .. Len(s) /\ Len(r) = Len(s) - k /\ \A i \in 1 .. Len(s) - k : r[i] = s[i + k]

LEMMA AwaitedForward ==
  ASSUME NEW s \in Seq(Tokens), NEW r \in Seq(Tokens), NEW k, Forward(s, r, k),
         NEW due, NEW i \in 0 .. Len(r), NEW at, at = i + k
  PROVE  Awaited(r, i, due) = Awaited(s, at, due)
<1>1. Len(s) \in Nat /\ Len(r) \in Nat /\ k \in 0 .. Len(s) /\ i + k \in 0 .. Len(s)
      /\ Len(r) = Len(s) - k /\ \A j \in 1 .. Len(s) - k : r[j] = s[j + k]
  BY DEF Forward
<1>2. ASSUME NEW j \in HeadsAfter(r, i) PROVE j + k \in HeadsAfter(s, i + k)
  BY <1>1, <1>2 DEF HeadsAfter
<1>3. ASSUME NEW j \in HeadsAfter(s, i + k) PROVE j - k \in HeadsAfter(r, i)
  <2>1. j \in Nat /\ j - k \in i + 1 .. Len(r) /\ (j - k) + k = j
    BY <1>1, <1>3 DEF HeadsAfter
  <2> QED BY <1>1, <1>3, <2>1 DEF HeadsAfter
<1>4. Awaited(s, at, due) = Awaited(s, i + k, due)
  OBVIOUS
<1>5. CASE HeadsAfter(r, i) = {}
  <2>1. HeadsAfter(s, i + k) = {}
    BY <1>3, <1>5
  <2> QED BY <1>5, <1>4, <2>1 DEF Awaited
<1>6. CASE HeadsAfter(r, i) # {}
  <2>1. PICK j \in HeadsAfter(r, i) : \A l \in HeadsAfter(r, i) : j <= l
    BY <1>6, FirstHead
  <2>2. j + k \in HeadsAfter(s, i + k) /\ r[j] = s[j + k]
    BY <1>1, <1>2, <2>1 DEF HeadsAfter
  <2>3. ASSUME NEW l \in HeadsAfter(s, i + k) PROVE j + k <= l
    <3>1. j <= l - k /\ j \in Nat /\ l \in Nat
      BY <1>1, <1>3, <2>1 DEF HeadsAfter
    <3> QED BY <1>1, <3>1
  <2>4. Awaited(r, i, due) = Place(r[j].id, r[j].num)
    BY <2>1, AwaitedHead
  <2>5. Awaited(s, i + k, due) = Place(s[j + k].id, s[j + k].num)
    BY <1>1, <2>2, <2>3, AwaitedHead
  <2> QED BY <1>4, <2>2, <2>4, <2>5
<1> QED BY <1>5, <1>6

(* No head between the positions.                                          *)
LEMMA AwaitedSkip ==
  ASSUME NEW s \in Seq(Tokens), NEW k \in 0 .. Len(s), NEW i \in 0 .. k, NEW due,
         \A j \in i + 1 .. k : s[j].t # "head"
  PROVE  Awaited(s, i, due) = Awaited(s, k, due)
<1>1. HeadsAfter(s, i) = HeadsAfter(s, k)
  <2>1. Len(s) \in Nat
    OBVIOUS
  <2> QED BY <2>1 DEF HeadsAfter
<1> QED BY <1>1 DEF Awaited

(* The stream grew: by the package that was due, or by no head at all.     *)
LEMMA AwaitedGrown ==
  ASSUME NEW s \in Seq(Tokens), NEW r \in Seq(Tokens), Len(s) <= Len(r),
         \A i \in 1 .. Len(s) : r[i] = s[i],
         NEW due, NEW next,
         \A k \in HeadsAfter(r, Len(s)) :
           k = Len(s) + 1 /\ due = Place(r[k].id, r[k].num),
         HeadsAfter(r, Len(s)) = {} => next = due,
         NEW i \in 0 .. Len(s)
  PROVE  Awaited(r, i, next) = Awaited(s, i, due)
<1>1. Len(s) \in Nat /\ Len(r) \in Nat /\ i \in 0 .. Len(r)
  OBVIOUS
<1>2. HeadsAfter(r, i) = HeadsAfter(s, i) \cup HeadsAfter(r, Len(s))
  BY <1>1 DEF HeadsAfter
<1>3. CASE HeadsAfter(s, i) # {}
  <2>1. PICK j \in HeadsAfter(s, i) : \A l \in HeadsAfter(s, i) : j <= l
    BY <1>3, FirstHead
  <2>2. j \in HeadsAfter(r, i) /\ r[j] = s[j] /\ j \in 1 .. Len(s)
    BY <1>1, <1>2, <2>1 DEF HeadsAfter
  <2>3. ASSUME NEW l \in HeadsAfter(r, i) PROVE j <= l
    BY <1>1, <1>2, <2>1, <2>2
  <2>4. Awaited(s, i, due) = Place(s[j].id, s[j].num)
    BY <2>1, AwaitedHead
  <2>5. Awaited(r, i, next) = Place(r[j].id, r[j].num)
    BY <1>1, <2>2, <2>3, AwaitedHead
  <2> QED BY <2>2, <2>4, <2>5
<1>4. CASE HeadsAfter(s, i) = {} /\ HeadsAfter(r, Len(s)) = {}
  BY <1>2, <1>4 DEF Awaited
<1>5. CASE HeadsAfter(s, i) = {} /\ HeadsAfter(r, Len(s)) # {}
  <2>1. PICK j \in HeadsAfter(r, Len(s)) : TRUE
    BY <1>5
  <2>2. j \in HeadsAfter(r, i) /\ \A l \in HeadsAfter(r, i) : j <= l
    BY <1>1, <1>2, <1>5, <2>1
  <2>3. Awaited(r, i, next) = Place(r[j].id, r[j].num)
    BY <1>1, <2>2, AwaitedHead
  <2> QED BY <1>5, <2>1, <2>3 DEF Awaited
<1> QED BY <1>3, <1>4, <1>5
-----------------------------------------------------------------------------
(*                        What an uncut stream holds                       *)

(* Token for the items sent so far.                                        *)
TokenOf(t, c, items, id, num) ==
  [t |-> t, c |-> c, id |-> id, num |-> num, kind |-> items[id].kind,
   allnum |-> PackageCount(items[id].size)]

(* What the sender sends after the package of head x.                      *)
Follows(x, y) ==
  y = IF x.kind = "file" /\ x.num < x.allnum THEN Place(x.id, x.num + 1)
      ELSE Place(x.id + 1, 1)

(* Every head is followed by its content and its tail.                     *)
Packed(s, c, items) ==
  \A i \in 1 .. Len(s) : s[i].t = "head" =>
    /\ s[i].num > 0 /\ i + 2 <= Len(s)
    /\ s[i] = TokenOf("head", c, items, s[i].id, s[i].num)
    /\ s[i + 1] = TokenOf("content", c, items, s[i].id, s[i].num)
    /\ s[i + 2] = TokenOf("tail", c, items, s[i].id, s[i].num)

(* No package is missing between two others, nor at the end.               *)
Chained(s, due) ==
  \A i \in 1 .. Len(s) : s[i].t = "head" => Follows(s[i], Awaited(s, i, due))

Intact(s, c, items, due) == Packed(s, c, items) /\ Chained(s, due)

(* The chunk Process is to write comes from the package before y.          *)
ChunkIntact(ch, y, c, items) ==
  ch # <<>> =>
    /\ ch[1].num > 0 /\ ch[1] = TokenOf("head", c, items, ch[1].id, ch[1].num)
    /\ ch[2] = TokenOf("content", c, items, ch[1].id, ch[1].num)
    /\ Follows(ch[1], y)

(* The first n chunks of the file sent as id.                              *)
Beginning(c, items, id, n) ==
  [num \in 1 .. n |-> TokenOf("content", c, items, id, num)]

(* f holds some of the first n chunks of the file sent as id, in order.    *)
Chunked(f, c, items, id, n) ==
  \A j \in 1 .. Len(f) :
    /\ f[j] = TokenOf("content", c, items, id, f[j].num) /\ f[j].num \in 1 .. n
    /\ \A i \in 1 .. j - 1 : f[i].num < f[j].num

(* Some of them when an open failed, otherwise all.                        *)
Kept(f, c, items, id, n, part) ==
  Chunked(f, c, items, id, n) /\ (~ part => f = Beginning(c, items, id, n))

(* f is the beginning of the file that goes on with the chunk, or with y.  *)
FileFits(f, ch, y, c, items, part) ==
  IF ch # <<>> THEN Kept(f, c, items, ch[1].id, ch[1].num - 1, part)
  ELSE y.num = 1 \/ Kept(f, c, items, y.id, y.num - 1, part)

LEMMA SingleElement ==
  ASSUME NEW S, NEW q \in Seq(S), NEW x \in S, Len(q) = 1, q[1] = x
  PROVE  q = <<x>>
<1>1. <<x>> \in Seq(S) /\ Len(<<x>>) = 1 /\ <<x>>[1] = x
  OBVIOUS
<1>2. PICK r \in Seq(S) : r = <<x>>
  BY <1>1
<1>3. Len(r) = 1 /\ r[1] = x
  BY <1>1, <1>2
<1>4. q = r
  BY <1>3, SeqEqual
<1> QED BY <1>2, <1>4

(* Process takes the whole first package.                                  *)
LEMMA PackageWhole ==
  ASSUME NEW m \in Seq(Tokens), NEW w \in Seq(Tokens), NEW c, NEW items,
         Packed(m \o w, c, items), HasPackage(m)
  PROVE  /\ HeadAt(m) \in 1 .. Len(m) /\ m[HeadAt(m)].t = "head"
         /\ TailAt(m) = HeadAt(m) + 2 /\ TailAt(m) \in 1 .. Len(m)
         /\ HeadAt(m) \in HeadsAfter(m \o w, 0)
         /\ \A k \in HeadsAfter(m \o w, 0) : HeadAt(m) <= k
         /\ ContentOf(m) = <<m[HeadAt(m) + 1]>>
<1> DEFINE s == m \o w
           h == HeadAt(m)
<1>1. /\ Len(m) \in Nat /\ Len(w) \in Nat /\ Len(s) = Len(m) + Len(w)
      /\ \A i \in 1 .. Len(m) : s[i] = m[i]
  BY ConcatProperties
<1>2. /\ h \in 1 .. Len(m) /\ m[h].t = "head"
      /\ TailAt(m) \in h .. Len(m) /\ TailAt(m) # h
  BY PackagePlaces
<1>3. At(m, "head", 1) \in SUBSET Nat /\ At(m, "head", 1) # {}
  <2>1. h \in At(m, "head", 1)
    BY <1>2 DEF At
  <2>2. At(m, "head", 1) \subseteq Nat
    BY <1>1 DEF At
  <2> QED BY <2>1, <2>2
<1>4. \A k \in At(m, "head", 1) : h <= k
  BY <1>3, MinIsMember DEF HeadAt
<1>5. At(m, "tail", h) \in SUBSET Nat /\ At(m, "tail", h) # {}
  BY <1>1, <1>2 DEF At, HasPackage
<1>6. TailAt(m) \in At(m, "tail", h) /\ \A k \in At(m, "tail", h) : TailAt(m) <= k
  BY <1>5, MinIsMember DEF TailAt
<1>7. Packed(s, c, items)
  OBVIOUS
<1> HIDE DEF s, h
<1>8. /\ h \in 1 .. Len(s) /\ s[h].t = "head" /\ h + 2 <= Len(s)
      /\ s[h + 1].t = "content" /\ s[h + 2].t = "tail"
  <2>1. h \in 1 .. Len(s) /\ s[h].t = "head"
    BY <1>1, <1>2
  <2>2. /\ h + 2 <= Len(s)
        /\ s[h + 1] = TokenOf("content", c, items, s[h].id, s[h].num)
        /\ s[h + 2] = TokenOf("tail", c, items, s[h].id, s[h].num)
    BY <1>7, <2>1 DEF Packed
  <2> QED BY <2>1, <2>2 DEF TokenOf
<1>9. TailAt(m) = h + 2
  <2>1. TailAt(m) \in h .. Len(m) /\ m[TailAt(m)].t = "tail"
    BY <1>6 DEF At
  <2>2. TailAt(m) # h + 1
    BY <1>1, <1>2, <1>8, <2>1
  <2>3. h + 2 \in h .. Len(m)
    BY <1>1, <1>2, <2>1, <2>2
  <2>4. m[h + 2].t = "tail"
    BY <1>1, <1>2, <1>8, <2>3
  <2>5. h + 2 \in At(m, "tail", h)
    BY <2>3, <2>4 DEF At
  <2> QED BY <1>1, <1>2, <1>6, <2>1, <2>2, <2>5
<1>10. h \in HeadsAfter(s, 0) /\ \A k \in HeadsAfter(s, 0) : h <= k
  <2>1. h \in HeadsAfter(s, 0)
    BY <1>1, <1>2, <1>8 DEF HeadsAfter
  <2>2. ASSUME NEW k \in HeadsAfter(s, 0) PROVE h <= k
    <3>1. k \in 1 .. Len(s) /\ s[k].t = "head"
      BY <2>2 DEF HeadsAfter
    <3>2. CASE k <= Len(m)
      BY <1>1, <1>4, <3>1, <3>2 DEF At
    <3> QED BY <1>1, <1>2, <3>1, <3>2
  <2> QED BY <2>1, <2>2
<1>11. ContentOf(m) = <<m[h + 1]>>
  <2>1. ContentOf(m) = SubSeq(m, h + 1, h + 1)
    <3>1. (h + 2) - 1 = h + 1
      BY <1>1, <1>2
    <3> QED BY <1>9, <3>1 DEF ContentOf, h
  <2>2. h + 1 \in 1 .. Len(m) /\ m[h + 1] \in Tokens
    BY <1>1, <1>2, <1>9
  <2>3. \A i \in h + 1 .. h + 1 : m[i] \in Tokens
    BY <2>2
  <2>4. /\ SubSeq(m, h + 1, h + 1) \in Seq(Tokens)
        /\ Len(SubSeq(m, h + 1, h + 1)) = 1
        /\ SubSeq(m, h + 1, h + 1)[1] = m[h + 1]
    <3> DEFINE p == h + 1
    <3>1. p \in Int /\ \A i \in p .. p : m[i] \in Tokens
      BY <2>2, <2>3
    <3> HIDE DEF p
    <3>2. /\ SubSeq(m, p, p) \in Seq(Tokens)
          /\ Len(SubSeq(m, p, p)) = IF p <= p THEN p - p + 1 ELSE 0
          /\ \A i \in 1 .. p - p + 1 : SubSeq(m, p, p)[i] = m[p + i - 1]
      BY <3>1, SubSeqProperties
    <3>3. SubSeq(m, p, p) \in Seq(Tokens) /\ Len(SubSeq(m, p, p)) = 1 /\ SubSeq(m, p, p)[1] = m[p]
      BY <3>1, <3>2
    <3> QED BY <3>3 DEF p
  <2>5. PICK q \in Seq(Tokens) : q = SubSeq(m, h + 1, h + 1)
    BY <2>4
  <2>6. q = <<m[h + 1]>>
    <3>1. Len(q) = 1 /\ q[1] = m[h + 1] /\ m[h + 1] \in Tokens
      BY <2>2, <2>4, <2>5
    <3> QED BY <3>1, SingleElement
  <2> QED BY <2>1, <2>5, <2>6
<1> QED BY <1>1, <1>2, <1>9, <1>10, <1>11 DEF s, h

(* What Process leaves of the stream is whole and goes on where it took    *)
(* the package.                                                            *)
IntactTaken(m, w, c, items, due) ==
  LET x == m[HeadAt(m)]
  IN  /\ x.num > 0 /\ x = TokenOf("head", c, items, x.id, x.num)
      /\ ContentOf(m) = <<TokenOf("content", c, items, x.id, x.num)>>
      /\ Awaited(m \o w, 0, due) = Place(x.id, x.num)
      /\ Intact(Rest(m) \o w, c, items, due)
      /\ Follows(x, Awaited(Rest(m) \o w, 0, due))

LEMMA PackageRemoved ==
  ASSUME NEW m \in Seq(Tokens), NEW w \in Seq(Tokens), NEW c, NEW items, NEW due,
         Intact(m \o w, c, items, due), HasPackage(m)
  PROVE  IntactTaken(m, w, c, items, due)
<1> DEFINE s == m \o w
           r == Rest(m) \o w
           h == HeadAt(m)
           k == TailAt(m)
<1>1. /\ Len(m) \in Nat /\ Len(w) \in Nat /\ Len(s) = Len(m) + Len(w) /\ s \in Seq(Tokens)
      /\ \A i \in 1 .. Len(m) : s[i] = m[i]
  BY ConcatProperties
<1>2. Packed(s, c, items) /\ Chained(s, due)
  BY DEF Intact
<1>3. /\ h \in 1 .. Len(m) /\ m[h].t = "head" /\ k = h + 2 /\ k \in 1 .. Len(m)
      /\ h \in HeadsAfter(s, 0) /\ \A j \in HeadsAfter(s, 0) : h <= j
      /\ ContentOf(m) = <<m[h + 1]>>
  BY <1>2, PackageWhole
<1>4. /\ r \in Seq(Tokens) /\ Len(r) = Len(s) - k
      /\ \A i \in 1 .. Len(s) - k : r[i] = s[i + k]
  <2>1. k \in 1 .. Len(m)
    BY <1>3
  <2> HIDE DEF k
  <2>2. /\ SubSeq(m, k + 1, Len(m)) \in Seq(Tokens)
        /\ Len(SubSeq(m, k + 1, Len(m)) \o w) = Len(m \o w) - k
        /\ \A i \in 1 .. Len(m \o w) - k :
             (SubSeq(m, k + 1, Len(m)) \o w)[i] = (m \o w)[i + k]
    BY <2>1, SuffixPlaces
  <2>3. SubSeq(m, k + 1, Len(m)) = Rest(m)
    BY Zenon DEF k, Rest
  <2>4. Rest(m) \o w \in Seq(Tokens)
    BY <2>2, <2>3, ConcatProperties
  <2> QED BY <2>2, <2>3, <2>4, Zenon
<1>5. Awaited(s, 0, due) = Place(s[h].id, s[h].num)
  <2>1. 0 \in 0 .. Len(s)
    BY <1>1
  <2> QED BY <1>1, <1>3, <2>1, AwaitedHead
<1> HIDE DEF s, r, h, k
<1>6. /\ s[h] = m[h] /\ h \in 1 .. Len(s) /\ s[h].t = "head" /\ k \in 0 .. Len(s)
      /\ h \in 0 .. k /\ h + 1 \in 1 .. Len(m)
  <2>1. h \in 1 .. Len(m) /\ m[h].t = "head" /\ k = h + 2 /\ k \in 1 .. Len(m)
    BY <1>3
  <2>2. s[h] = m[h]
    BY <1>1, <2>1
  <2>3. h \in 1 .. Len(s) /\ k \in 0 .. Len(s)
    BY <1>1, <2>1
  <2>4. h \in 0 .. k /\ h + 1 \in 1 .. Len(m)
    BY <1>1, <2>1
  <2> QED BY <2>1, <2>2, <2>3, <2>4
<1>7. /\ s[h].num > 0 /\ s[h] = TokenOf("head", c, items, s[h].id, s[h].num)
      /\ s[h + 1] = TokenOf("content", c, items, s[h].id, s[h].num)
      /\ s[h + 2] = TokenOf("tail", c, items, s[h].id, s[h].num)
  BY <1>2, <1>6 DEF Packed
<1>8. ContentOf(m) = <<TokenOf("content", c, items, s[h].id, s[h].num)>>
  <2>1. m[h + 1] = TokenOf("content", c, items, s[h].id, s[h].num)
    BY <1>1, <1>6, <1>7
  <2>2. ContentOf(m) = <<m[h + 1]>>
    BY <1>3
  <2> QED BY <2>1, <2>2, Zenon
<1>9. ASSUME NEW i \in 0 .. Len(r)
      PROVE  Awaited(r, i, due) = Awaited(s, i + k, due)
  <2>1. s \in Seq(Tokens) /\ r \in Seq(Tokens) /\ Forward(s, r, k)
    BY <1>1, <1>4, <1>6 DEF Forward
  <2> QED BY <2>1, AwaitedForward
<1>10. Packed(r, c, items)
  <2> SUFFICES ASSUME NEW i \in 1 .. Len(r), r[i].t = "head"
               PROVE  /\ r[i].num > 0 /\ i + 2 <= Len(r)
                      /\ r[i] = TokenOf("head", c, items, r[i].id, r[i].num)
                      /\ r[i + 1] = TokenOf("content", c, items, r[i].id, r[i].num)
                      /\ r[i + 2] = TokenOf("tail", c, items, r[i].id, r[i].num)
    BY DEF Packed
  <2>1. i + k \in 1 .. Len(s) /\ r[i] = s[i + k]
    BY <1>1, <1>4, <1>6
  <2>2. /\ s[i + k].num > 0 /\ (i + k) + 2 <= Len(s)
        /\ s[i + k] = TokenOf("head", c, items, s[i + k].id, s[i + k].num)
        /\ s[i + k + 1] = TokenOf("content", c, items, s[i + k].id, s[i + k].num)
        /\ s[i + k + 2] = TokenOf("tail", c, items, s[i + k].id, s[i + k].num)
    BY <1>2, <2>1 DEF Packed
  <2>3. i + 2 <= Len(r) /\ i + 1 \in 1 .. Len(s) - k /\ i + 2 \in 1 .. Len(s) - k
    <3>1. /\ Len(s) \in Nat /\ k \in Nat /\ i \in Nat /\ i >= 1
          /\ Len(r) = Len(s) - k /\ (i + k) + 2 <= Len(s)
      <4>1. Len(s) \in Nat /\ k \in 0 .. Len(s) /\ Len(r) = Len(s) - k
        BY <1>1, <1>4, <1>6
      <4> QED BY <2>2, <4>1
    <3> QED BY <3>1
  <2>4. r[i + 1] = s[i + k + 1] /\ r[i + 2] = s[i + k + 2]
    <3>1. r[i + 1] = s[(i + 1) + k] /\ r[i + 2] = s[(i + 2) + k]
      BY <1>4, <2>3
    <3>2. (i + 1) + k = i + k + 1 /\ (i + 2) + k = i + k + 2
      BY <1>6
    <3> QED BY <3>1, <3>2
  <2> QED BY <2>1, <2>2, <2>3, <2>4
<1>11. Chained(r, due)
  <2> SUFFICES ASSUME NEW i \in 1 .. Len(r), r[i].t = "head"
               PROVE  Follows(r[i], Awaited(r, i, due))
    BY DEF Chained
  <2>1. i + k \in 1 .. Len(s) /\ r[i] = s[i + k] /\ i \in 0 .. Len(r)
    BY <1>1, <1>4, <1>6
  <2>2. Follows(s[i + k], Awaited(s, i + k, due))
    BY <1>2, <2>1 DEF Chained
  <2> QED BY <1>9, <2>1, <2>2
<1>12. Follows(s[h], Awaited(r, 0, due))
  <2>1. Follows(s[h], Awaited(s, h, due))
    BY <1>2, <1>6 DEF Chained
  <2>2. \A j \in h + 1 .. k : s[j].t # "head"
    <3>1. s[h + 1].t # "head" /\ s[h + 2].t # "head"
      BY <1>7 DEF TokenOf
    <3>2. \A j \in h + 1 .. k : j = h + 1 \/ j = h + 2
      BY <1>3, <1>6
    <3> QED BY <3>1, <3>2
  <2>3. Awaited(s, h, due) = Awaited(s, k, due)
    BY <1>1, <1>6, <2>2, AwaitedSkip
  <2>4. Awaited(r, 0, due) = Awaited(s, k, due)
    <3>1. 0 \in 0 .. Len(r) /\ 0 + k = k
      BY <1>1, <1>4, <1>6
    <3> QED BY <1>9, <3>1
  <2> QED BY <2>1, <2>3, <2>4
<1>13. m[h] = s[h] /\ Intact(r, c, items, due)
  BY <1>6, <1>10, <1>11 DEF Intact
<1>14. /\ m[h].num > 0 /\ m[h] = TokenOf("head", c, items, m[h].id, m[h].num)
       /\ ContentOf(m) = <<TokenOf("content", c, items, m[h].id, m[h].num)>>
       /\ Awaited(s, 0, due) = Place(m[h].id, m[h].num)
       /\ Intact(r, c, items, due) /\ Follows(m[h], Awaited(r, 0, due))
  BY <1>5, <1>7, <1>8, <1>12, <1>13
<1> QED BY <1>14 DEF IntactTaken, s, r, h

Grown(s, r) == Len(s) <= Len(r) /\ \A i \in 1 .. Len(s) : r[i] = s[i]

(* The package that was due is at k of s, and next is due after it.        *)
NextPackage(s, k, c, items, due, next) ==
  /\ due = Place(s[k].id, s[k].num)
  /\ s[k].num > 0 /\ k + 2 <= Len(s)
  /\ s[k] = TokenOf("head", c, items, s[k].id, s[k].num)
  /\ s[k + 1] = TokenOf("content", c, items, s[k].id, s[k].num)
  /\ s[k + 2] = TokenOf("tail", c, items, s[k].id, s[k].num)
  /\ Follows(s[k], next)

(* The stream is as whole as it was, and the same package comes first.     *)
StaysIntact(s, r, c, items, due, next) ==
  Intact(r, c, items, next) /\ Awaited(r, 0, next) = Awaited(s, 0, due)

(* The stream grew: by a whole package, the one due, or by no head at all. *)
LEMMA IntactGrown ==
  ASSUME NEW s \in Seq(Tokens), NEW r \in Seq(Tokens), Grown(s, r),
         NEW c, NEW items, NEW due, NEW next,
         \A k \in HeadsAfter(r, Len(s)) :
           k = Len(s) + 1 /\ NextPackage(r, k, c, items, due, next),
         HeadsAfter(r, Len(s)) = {} => next = due,
         Intact(s, c, items, due)
  PROVE  StaysIntact(s, r, c, items, due, next)
<1>1. /\ Len(s) \in Nat /\ Len(r) \in Nat /\ 0 \in 0 .. Len(s)
      /\ Len(s) <= Len(r) /\ \A i \in 1 .. Len(s) : r[i] = s[i]
  BY DEF Grown
<1>2. ASSUME NEW i \in 0 .. Len(s)
      PROVE  Awaited(r, i, next) = Awaited(s, i, due)
  BY <1>1, AwaitedGrown DEF NextPackage
<1>3. ASSUME NEW i \in 1 .. Len(r), r[i].t = "head"
      PROVE  i \in 1 .. Len(s) \/ i \in HeadsAfter(r, Len(s))
  BY <1>1, <1>3 DEF HeadsAfter
<1>4. Packed(r, c, items)
  <2> SUFFICES ASSUME NEW i \in 1 .. Len(r), r[i].t = "head"
               PROVE  /\ r[i].num > 0 /\ i + 2 <= Len(r)
                      /\ r[i] = TokenOf("head", c, items, r[i].id, r[i].num)
                      /\ r[i + 1] = TokenOf("content", c, items, r[i].id, r[i].num)
                      /\ r[i + 2] = TokenOf("tail", c, items, r[i].id, r[i].num)
    BY DEF Packed
  <2>1. CASE i \in 1 .. Len(s)
    <3>1. r[i] = s[i] /\ s[i].t = "head"
      BY <1>1, <2>1
    <3>2. /\ s[i].num > 0 /\ i + 2 <= Len(s)
          /\ s[i] = TokenOf("head", c, items, s[i].id, s[i].num)
          /\ s[i + 1] = TokenOf("content", c, items, s[i].id, s[i].num)
          /\ s[i + 2] = TokenOf("tail", c, items, s[i].id, s[i].num)
      BY <2>1, <3>1 DEF Intact, Packed
    <3>3. i + 2 <= Len(r) /\ i + 1 \in 1 .. Len(s) /\ i + 2 \in 1 .. Len(s)
      BY <1>1, <2>1, <3>2
    <3>4. r[i + 1] = s[i + 1] /\ r[i + 2] = s[i + 2]
      BY <1>1, <3>3
    <3> QED BY <3>1, <3>2, <3>3, <3>4
  <2>2. CASE i \in HeadsAfter(r, Len(s))
    BY <2>2 DEF NextPackage
  <2> QED BY <1>3, <2>1, <2>2
<1>5. Chained(r, next)
  <2> SUFFICES ASSUME NEW i \in 1 .. Len(r), r[i].t = "head"
               PROVE  Follows(r[i], Awaited(r, i, next))
    BY DEF Chained
  <2>1. CASE i \in 1 .. Len(s)
    <3>1. r[i] = s[i] /\ i \in 0 .. Len(s)
      BY <1>1, <2>1
    <3>2. Follows(s[i], Awaited(s, i, due))
      BY <2>1, <3>1 DEF Intact, Chained
    <3> QED BY <1>2, <3>1, <3>2
  <2>2. CASE i \in HeadsAfter(r, Len(s))
    <3>1. Follows(r[i], next) /\ i = Len(s) + 1
      BY <2>2 DEF NextPackage
    <3>2. HeadsAfter(r, i) = {}
      <4>1. \A k \in HeadsAfter(r, i) : k \in HeadsAfter(r, Len(s)) /\ k # Len(s) + 1
        BY <1>1, <3>1 DEF HeadsAfter
      <4> QED BY <4>1
    <3> QED BY <3>1, <3>2 DEF Awaited
  <2> QED BY <1>3, <2>1, <2>2
<1>6. Awaited(r, 0, next) = Awaited(s, 0, due)
  BY <1>1, <1>2
<1> QED BY <1>4, <1>5, <1>6 DEF Intact, StaysIntact

LEMMA TokenTypes ==
  ASSUME NEW c \in Conns, NEW items \in Seq(Items), NEW id \in 1 .. Len(items),
         NEW num \in Nat, NEW t \in {"head", "content", "tail"}
  PROVE  TokenOf(t, c, items, id, num) \in Tokens
<1>1. items[id] \in Items /\ id \in Nat
  OBVIOUS
<1>2. items[id].kind \in {"msg", "file"} /\ items[id].size \in Nat
  BY <1>1, WireAssumption DEF Items
<1>3. PackageCount(items[id].size) \in Nat
  BY <1>2, Counts
<1> QED BY <1>1, <1>2, <1>3 DEF TokenOf, Tokens

LEMMA BeginningNone ==
  ASSUME NEW c, NEW items, NEW id
  PROVE  Beginning(c, items, id, 0) = <<>>
<1>1. 1 .. 0 = {}
  OBVIOUS
<1>2. Beginning(c, items, id, 0) = [num \in {} |-> TokenOf("content", c, items, id, num)]
  BY <1>1 DEF Beginning
<1>3. Beginning(c, items, id, 0) \in Seq({}) /\ Len(Beginning(c, items, id, 0)) = 0
  BY DEF Beginning
<1> QED BY <1>3

(* The next chunk is appended to the file.                                 *)
LEMMA BeginningGrows ==
  ASSUME NEW c \in Conns, NEW items \in Seq(Items), NEW id \in 1 .. Len(items),
         NEW num \in Nat \ {0}
  PROVE  Append(Beginning(c, items, id, num - 1), TokenOf("content", c, items, id, num))
           = Beginning(c, items, id, num)
<1> DEFINE T(k) == TokenOf("content", c, items, id, k)
           f == Beginning(c, items, id, num - 1)
           g == Beginning(c, items, id, num)
<1>1. \A k \in Nat : T(k) \in Tokens
  BY TokenTypes
<1>2. f = [k \in 1 .. num - 1 |-> T(k)] /\ g = [k \in 1 .. num |-> T(k)]
  BY DEF Beginning
<1> HIDE DEF f, g, T
<1>3. /\ f \in Seq(Tokens) /\ Len(f) = num - 1 /\ \A k \in 1 .. num - 1 : f[k] = T(k)
  BY <1>1, <1>2
<1>4. /\ g \in Seq(Tokens) /\ Len(g) = num /\ \A k \in 1 .. num : g[k] = T(k)
  BY <1>1, <1>2
<1>5. PICK h \in Seq(Tokens) :
        /\ h = Append(f, T(num)) /\ Len(h) = num /\ h[num] = T(num)
        /\ \A k \in 1 .. num - 1 : h[k] = T(k)
  <2>1. T(num) \in Tokens
    BY <1>1
  <2>2. /\ Append(f, T(num)) \in Seq(Tokens) /\ Len(Append(f, T(num))) = Len(f) + 1
        /\ \A i \in 1 .. Len(f) : Append(f, T(num))[i] = f[i]
        /\ Append(f, T(num))[Len(f) + 1] = T(num)
    BY <1>3, <2>1, AppendProperties
  <2>3. Len(f) + 1 = num
    BY <1>3
  <2> QED BY <1>3, <2>2, <2>3
<1>6. \A k \in 1 .. num : h[k] = g[k]
  <2>1. \A k \in 1 .. num : k \in 1 .. num - 1 \/ k = num
    OBVIOUS
  <2> QED BY <1>4, <1>5, <2>1
<1>7. h = g
  BY <1>4, <1>5, <1>6, SeqEqual
<1> QED BY <1>5, <1>7 DEF f, g, T

LEMMA KeptNone ==
  ASSUME NEW c, NEW items, NEW id, NEW part
  PROVE  Kept(<<>>, c, items, id, 0, part)
<1>1. Chunked(<<>>, c, items, id, 0)
  BY DEF Chunked
<1> QED BY <1>1, BeginningNone DEF Kept

(* The file with the next chunk ...                                        *)
LEMMA KeptGrows ==
  ASSUME NEW c \in Conns, NEW items \in Seq(Items), NEW id \in 1 .. Len(items),
         NEW num \in Nat \ {0}, NEW part, NEW f \in Seq(Tokens),
         Kept(f, c, items, id, num - 1, part)
  PROVE  Kept(Append(f, TokenOf("content", c, items, id, num)), c, items, id, num, part)
<1> DEFINE x == TokenOf("content", c, items, id, num)
           g == Append(f, x)
<1>1. x \in Tokens /\ x.num = num /\ x = TokenOf("content", c, items, id, x.num)
  <2>1. x.num = num
    BY DEF TokenOf
  <2>2. x \in Tokens
    BY TokenTypes
  <2> QED BY <2>1, <2>2
<1>2. ~ part => g = Beginning(c, items, id, num)
  BY BeginningGrows DEF Kept
<1>3. Chunked(f, c, items, id, num - 1)
  BY DEF Kept
<1> HIDE DEF x, g
<1>4. /\ g \in Seq(Tokens) /\ Len(f) \in Nat /\ Len(g) = Len(f) + 1 /\ g[Len(f) + 1] = x
      /\ \A j \in 1 .. Len(f) : g[j] = f[j]
  BY <1>1 DEF g
<1>5. \A j \in 1 .. Len(f) :
        /\ f[j] = TokenOf("content", c, items, id, f[j].num) /\ f[j].num \in 1 .. num - 1
        /\ \A i \in 1 .. j - 1 : f[i].num < f[j].num
  BY <1>3 DEF Chunked
<1>6. ASSUME NEW j \in 1 .. Len(g)
      PROVE  /\ g[j] = TokenOf("content", c, items, id, g[j].num) /\ g[j].num \in 1 .. num
             /\ \A i \in 1 .. j - 1 : g[i].num < g[j].num
  <2>1. CASE j \in 1 .. Len(f)
    <3>1. g[j] = f[j] /\ \A i \in 1 .. j - 1 : i \in 1 .. Len(f) /\ g[i] = f[i]
      BY <1>4, <2>1
    <3>2. f[j].num \in 1 .. num
      BY <1>5, <2>1
    <3>3. \A i \in 1 .. j - 1 : g[i].num < g[j].num
      BY <1>5, <2>1, <3>1
    <3>4. f[j] = TokenOf("content", c, items, id, f[j].num)
      BY <1>5, <2>1
    <3>5. g[j] = TokenOf("content", c, items, id, g[j].num)
      BY <3>1, <3>4, Zenon
    <3> QED BY <3>1, <3>2, <3>3, <3>5
  <2>2. CASE j = Len(f) + 1
    <3>1. g[j] = x /\ \A i \in 1 .. j - 1 : i \in 1 .. Len(f) /\ g[i] = f[i]
      BY <1>4, <2>2
    <3>2. \A i \in 1 .. j - 1 : g[i].num < g[j].num
      <4>1. \A i \in 1 .. Len(f) : f[i].num < num
        BY <1>5
      <4> QED BY <1>1, <3>1, <4>1
    <3>3. g[j].num \in 1 .. num
      BY <1>1, <3>1
    <3> QED BY <1>1, <3>1, <3>2, <3>3, Zenon
  <2> QED BY <1>4, <2>1, <2>2
<1>7. Chunked(g, c, items, id, num)
  BY <1>6 DEF Chunked
<1> QED BY <1>2, <1>7 DEF Kept, g, x

(* ... and without it.                                                     *)
LEMMA KeptMissed ==
  ASSUME NEW c, NEW items, NEW id, NEW num \in Nat, NEW part, NEW f,
         Kept(f, c, items, id, num - 1, part)
  PROVE  Kept(f, c, items, id, num, TRUE)
<1>1. \A k \in 1 .. num - 1 : k \in 1 .. num
  OBVIOUS
<1> QED BY <1>1 DEF Kept, Chunked

(* What is awaited is a package sent before, or the one due.               *)
LEMMA AwaitedWhich ==
  ASSUME NEW s \in Seq(Tokens), NEW items, NEW next, NEW due, StreamFits(s, items, next)
  PROVE  \/ Awaited(s, 0, due) = due
         \/ \E x \in Tokens : HeadFits(x, items, next) /\ Awaited(s, 0, due) = Place(x.id, x.num)
<1>1. 0 \in 0 .. Len(s) /\ Len(s) \in Nat
  OBVIOUS
<1>2. CASE HeadsAfter(s, 0) = {}
  BY <1>2 DEF Awaited
<1>3. CASE HeadsAfter(s, 0) # {}
  <2>1. PICK j \in HeadsAfter(s, 0) : \A k \in HeadsAfter(s, 0) : j <= k
    BY <1>1, <1>3, FirstHead
  <2>2. Awaited(s, 0, due) = Place(s[j].id, s[j].num)
    BY <1>1, <2>1, AwaitedHead
  <2>3. j \in 1 .. Len(s) /\ s[j].t = "head"
    BY <1>1 DEF HeadsAfter
  <2>4. s[j] \in Tokens /\ HeadFits(s[j], items, next)
    BY <2>3 DEF StreamFits
  <2> QED BY <2>2, <2>4
<1> QED BY <1>2, <1>3

(* One more message or file to send changes nothing of what was sent.      *)
LEMMA IntactBegun ==
  ASSUME NEW s \in Seq(Tokens), NEW items \in Seq(Items), NEW x \in Items, NEW c,
         NEW ch \in Held, NEW f, NEW next, NEW due, due.num = 1,
         NEW y, y = Awaited(s, 0, due),
         StreamFits(s, items, next), ChunkFits(ch, s, items, next),
         Intact(s, c, items, due), ChunkIntact(ch, y, c, items)
  PROVE  /\ Intact(s, c, Append(items, x), due)
         /\ ChunkIntact(ch, y, c, Append(items, x))
         /\ \A part : FileFits(f, ch, y, c, items, part)
                        => FileFits(f, ch, y, c, Append(items, x), part)
<1> DEFINE more == Append(items, x)
<1>1. \A id \in 1 .. Len(items) : more[id] = items[id]
  OBVIOUS
<1> HIDE DEF more
<1>2. ASSUME NEW id \in 1 .. Len(items)
      PROVE  /\ \A t, num : TokenOf(t, c, more, id, num) = TokenOf(t, c, items, id, num)
             /\ \A n, part : Kept(f, c, more, id, n, part) <=> Kept(f, c, items, id, n, part)
  <2>1. \A t, num : TokenOf(t, c, more, id, num) = TokenOf(t, c, items, id, num)
    BY <1>1 DEF TokenOf
  <2>2. \A n : Beginning(c, more, id, n) = Beginning(c, items, id, n)
    BY <2>1 DEF Beginning
  <2>3. \A n : Chunked(f, c, more, id, n) <=> Chunked(f, c, items, id, n)
    BY <2>1 DEF Chunked
  <2> QED BY <2>1, <2>2, <2>3 DEF Kept
<1>3. \A i \in 1 .. Len(s) : s[i].t = "head" => s[i].id \in 1 .. Len(items)
  BY DEF StreamFits, HeadFits
<1>4. Packed(s, c, more)
  <2> SUFFICES ASSUME NEW i \in 1 .. Len(s), s[i].t = "head"
               PROVE  /\ s[i].num > 0 /\ i + 2 <= Len(s)
                      /\ s[i] = TokenOf("head", c, more, s[i].id, s[i].num)
                      /\ s[i + 1] = TokenOf("content", c, more, s[i].id, s[i].num)
                      /\ s[i + 2] = TokenOf("tail", c, more, s[i].id, s[i].num)
    BY DEF Packed
  <2>1. /\ s[i].num > 0 /\ i + 2 <= Len(s)
        /\ s[i] = TokenOf("head", c, items, s[i].id, s[i].num)
        /\ s[i + 1] = TokenOf("content", c, items, s[i].id, s[i].num)
        /\ s[i + 2] = TokenOf("tail", c, items, s[i].id, s[i].num)
    BY DEF Intact, Packed
  <2>2. s[i].id \in 1 .. Len(items)
    BY <1>3
  <2>3. \A t : TokenOf(t, c, more, s[i].id, s[i].num) = TokenOf(t, c, items, s[i].id, s[i].num)
    BY <1>2, <2>2
  <2> QED BY <2>1, <2>3
<1>5. ASSUME ch # <<>> PROVE ch[1].id \in 1 .. Len(items)
  BY <1>5 DEF ChunkFits, HeadFits
<1>6. ChunkIntact(ch, y, c, more)
  <2> SUFFICES ASSUME ch # <<>> PROVE ChunkIntact(ch, y, c, more)
    BY DEF ChunkIntact
  <2>1. \A t : TokenOf(t, c, more, ch[1].id, ch[1].num) = TokenOf(t, c, items, ch[1].id, ch[1].num)
    BY <1>2, <1>5
  <2> QED BY <2>1 DEF ChunkIntact
<1>7. ASSUME NEW part, FileFits(f, ch, y, c, items, part)
      PROVE  FileFits(f, ch, y, c, more, part)
  <2>1. CASE ch # <<>>
    <3>1. Kept(f, c, items, ch[1].id, ch[1].num - 1, part)
      BY <1>7, <2>1 DEF FileFits
    <3>2. Kept(f, c, more, ch[1].id, ch[1].num - 1, part)
      BY <1>2, <1>5, <2>1, <3>1
    <3> QED BY <2>1, <3>2 DEF FileFits
  <2>2. CASE ch = <<>>
    <3>1. y.num = 1 \/ Kept(f, c, items, y.id, y.num - 1, part)
      BY <1>7, <2>2 DEF FileFits
    <3>2. y = due \/ y.id \in 1 .. Len(items)
      BY AwaitedWhich DEF HeadFits, Place
    <3>3. y.num = 1 \/ Kept(f, c, more, y.id, y.num - 1, part)
      BY <1>2, <3>1, <3>2
    <3> QED BY <2>2, <3>3 DEF FileFits
  <2> QED BY <2>1, <2>2
<1> QED BY <1>4, <1>6, <1>7 DEF Intact, more
-----------------------------------------------------------------------------
(*                     One connection, step by step                        *)

Due(c) ==
  IF sending[c] > 0 THEN Place(Len(sent[c]), sending[c]) ELSE Place(Len(sent[c]) + 1, 1)

(* The package Process takes next from c, or will.                         *)
Coming(c) == Awaited(Stream(c), 0, Due(c))

StreamIntact(c) == Intact(Stream(c), c, sent[c], Due(c))

(* A message or file is begun.                                             *)
LEMMA DueBegun ==
  ASSUME WireInv, NEW c \in Conns, NEW kind \in {"msg", "file"},
         NEW size \in MsgSizes \cup FileSizes, Send(c, kind, size)
  PROVE  /\ [kind |-> kind, size |-> size] \in Items
         /\ sent' = [sent EXCEPT ![c] = Append(@, [kind |-> kind, size |-> size])]
         /\ sent'[c] = Append(sent[c], [kind |-> kind, size |-> size])
         /\ Due(c).num = 1 /\ Due(c)' = Due(c) /\ Stream(c)' = Stream(c)
         /\ Coming(c)' = Coming(c)
         /\ \A d \in Conns \ {c} : sent'[d] = sent[d] /\ sending'[d] = sending[d]
         /\ UNCHANGED <<cut, beats, wire, m_strData, m_strMsgContent, processing, chunk,
                        file, alone, missed, executed>>
<1> DEFINE x == [kind |-> kind, size |-> size]
<1>1. /\ sent' = [sent EXCEPT ![c] = Append(@, x)]
      /\ sending' = [sending EXCEPT ![c] = 1] /\ sending[c] = 0
      /\ UNCHANGED <<cut, beats, wire, m_strData, m_strMsgContent, processing, chunk,
                     file, alone, missed, executed>>
  BY DEF Send, recvVars
<1>2. x \in Items
  BY DEF Items
<1> HIDE DEF x
<1>3. /\ sent \in [Conns -> Seq(Items)] /\ sending \in [Conns -> Nat]
  BY DEF WireInv, TypeOK, Items
<1>4. /\ sent'[c] = Append(sent[c], x) /\ sending'[c] = 1
      /\ \A d \in Conns \ {c} : sent'[d] = sent[d] /\ sending'[d] = sending[d]
  BY <1>1, <1>2, <1>3
<1>5. Len(sent'[c]) = Len(sent[c]) + 1
  BY <1>2, <1>3, <1>4
<1>6. Due(c) = Place(Len(sent[c]) + 1, 1) /\ Due(c)' = Place(Len(sent[c]) + 1, 1)
  BY <1>1, <1>4, <1>5 DEF Due
<1>7. Stream(c)' = Stream(c)
  BY <1>1 DEF Stream
<1>8. Coming(c)' = Coming(c) /\ Due(c).num = 1 /\ Due(c)' = Due(c)
  BY <1>6, <1>7 DEF Coming, Place
<1> QED BY <1>1, <1>2, <1>4, <1>7, <1>8 DEF x

(* The package sent whole is the one that was due.                         *)
LEMMA PackageSent ==
  ASSUME WireInv, NEW c \in Conns, SendPackage(c), ~ cut'[c], StreamIntact(c)
  PROVE  ~ cut[c] /\ StreamIntact(c)' /\ Coming(c)' = Coming(c)
<1> DEFINE id == Len(sent[c])
           num == sending[c]
           package == Package(c, id, num)
           item == sent[c][id]
           T(t) == TokenOf(t, c, sent[c], id, num)
           s == Stream(c)
           r == s \o package
           more == item.kind = "file" /\ num < PackageCount(item.size)
           next == IF more THEN Place(id, num + 1) ELSE Place(id + 1, 1)
<1>1. num > 0 /\ num \in Nat \ {0} /\ id \in Nat \ {0} /\ item \in Items
  BY ConnTypes, EmptySeq DEF SendPackage
<1>2. /\ id \in 1 .. Len(sent[c]) /\ sent[c] \in Seq(Items) /\ num \in Nat
      /\ \A t \in {"head", "content", "tail"} : T(t) \in Tokens /\ T(t).t = t
  <2>1. id \in 1 .. Len(sent[c]) /\ sent[c] \in Seq(Items) /\ num \in Nat
    BY <1>1, ConnTypes
  <2>2. \A t \in {"head", "content", "tail"} : T(t) \in Tokens
    BY <2>1, TokenTypes
  <2> QED BY <2>1, <2>2 DEF TokenOf
<1>3. package = <<T("head"), T("content"), T("tail")>>
  BY DEF Package, Token, TokenOf
<1>4. cut \in [Conns -> BOOLEAN]
  BY DEF WireInv, TypeOK
<1>5. ~ cut[c] /\ Sendable(c, package) = package
  BY <1>4 DEF SendPackage
<1>6. package # <<>>
  BY <1>3
<1>7. more <=> /\ GoesOn(item.kind, IF package = <<>> THEN -1 ELSE 0)
               /\ MoreToSend(num, item.size)
  BY <1>6 DEF GoesOn, MoreToSend
<1>8. /\ wire' = [wire EXCEPT ![c] = @ \o package]
      /\ sending' = [sending EXCEPT ![c] = IF more THEN num + 1 ELSE 0]
      /\ sent' = sent /\ m_strData' = m_strData
  BY <1>5, <1>7 DEF SendPackage, recvVars
<1> HIDE DEF package
<1>9. /\ package \in Seq(Tokens) /\ Len(package) = 3 /\ package[1] = T("head")
      /\ package[2] = T("content") /\ package[3] = T("tail")
  BY <1>2, <1>3
<1>10. /\ wire'[c] = wire[c] \o package /\ sending'[c] = IF more THEN num + 1 ELSE 0
  BY <1>8 DEF WireInv, TypeOK
<1>11. Stream(c)' = r /\ Due(c)' = next /\ Due(c) = Place(id, num)
  <2>1. m_strData[c] \o (wire[c] \o package) = s \o package
    BY <1>9, StreamGrows
  <2>2. Stream(c)' = r
    BY <1>8, <1>10, <2>1 DEF Stream
  <2>3. Due(c) = Place(id, num)
    BY <1>1 DEF Due
  <2>4. CASE more
    BY <1>1, <1>8, <1>10, <2>2, <2>3, <2>4 DEF Due
  <2>5. CASE ~ more
    BY <1>1, <1>8, <1>10, <2>2, <2>3, <2>5 DEF Due
  <2> QED BY <2>4, <2>5
<1>12. T("head").num = num /\ T("head").id = id /\ Follows(T("head"), next)
  BY DEF TokenOf, Follows
<1>13. s \in Seq(Tokens) /\ Intact(s, c, sent[c], Place(id, num))
  BY <1>11, ConnTypes DEF StreamIntact
<1> HIDE DEF T, s, next, item, more
<1>14. /\ r \in Seq(Tokens) /\ Len(s) \in Nat /\ Len(r) = Len(s) + 3
       /\ \A i \in 1 .. Len(s) : r[i] = s[i]
       /\ r[Len(s) + 1] = T("head") /\ r[Len(s) + 2] = T("content") /\ r[Len(s) + 3] = T("tail")
  <2>1. /\ r \in Seq(Tokens) /\ Len(r) = Len(s) + Len(package)
        /\ \A i \in 1 .. Len(s) + Len(package) :
             r[i] = IF i <= Len(s) THEN s[i] ELSE package[i - Len(s)]
    BY <1>9, <1>13, ConcatProperties
  <2>2. Len(s) \in Nat
    BY <1>13
  <2> HIDE DEF r
  <2>3. r[Len(s) + 1] = package[1] /\ r[Len(s) + 2] = package[2] /\ r[Len(s) + 3] = package[3]
    BY <1>9, <2>1, <2>2
  <2> QED BY <1>9, <2>1, <2>2, <2>3
<1> HIDE DEF r
<1>15. HeadsAfter(r, Len(s)) = {Len(s) + 1}
  <2>1. r[Len(s) + 1].t = "head" /\ r[Len(s) + 2].t # "head" /\ r[Len(s) + 3].t # "head"
    BY <1>2, <1>14
  <2>2. \A k \in Len(s) + 1 .. Len(r) : k = Len(s) + 1 \/ k = Len(s) + 2 \/ k = Len(s) + 3
    BY <1>14
  <2>3. Len(s) + 1 \in Len(s) + 1 .. Len(r)
    BY <1>14
  <2> QED BY <2>1, <2>2, <2>3 DEF HeadsAfter
<1>16. Intact(r, c, sent[c], next) /\ Awaited(r, 0, next) = Awaited(s, 0, Place(id, num))
  <2> DEFINE k == Len(s) + 1
  <2>1. /\ k + 1 = Len(s) + 2 /\ k + 2 = Len(s) + 3 /\ k + 2 <= Len(r) /\ Len(s) <= Len(r)
    BY <1>14
  <2>2. r[k] = T("head") /\ r[k + 1] = T("content") /\ r[k + 2] = T("tail")
    BY <1>14, <2>1
  <2>3. r[k].id = id /\ r[k].num = num
    BY <1>12, <2>2
  <2>4. /\ r[k] = TokenOf("head", c, sent[c], r[k].id, r[k].num)
        /\ r[k + 1] = TokenOf("content", c, sent[c], r[k].id, r[k].num)
        /\ r[k + 2] = TokenOf("tail", c, sent[c], r[k].id, r[k].num)
    BY <2>2, <2>3 DEF T
  <2>5. Place(id, num) = Place(r[k].id, r[k].num) /\ r[k].num > 0 /\ Follows(r[k], next)
    BY <1>1, <1>12, <2>2, <2>3
  <2>6. \A j \in HeadsAfter(r, Len(s)) : j = k
    BY <1>15
  <2> HIDE DEF k
  <2>7. HeadsAfter(r, Len(s)) # {} /\ k = Len(s) + 1
    BY <1>15 DEF k
  <2>8. \A j \in HeadsAfter(r, Len(s)) :
           j = Len(s) + 1 /\ NextPackage(r, j, c, sent[c], Place(id, num), next)
    BY <2>1, <2>4, <2>5, <2>6, <2>7 DEF NextPackage
  <2>9. Grown(s, r)
    BY <1>14, <2>1 DEF Grown
  <2>10. r \in Seq(Tokens) /\ s \in Seq(Tokens) /\ Intact(s, c, sent[c], Place(id, num))
    BY <1>13, <1>14
  <2>11. HeadsAfter(r, Len(s)) = {} => next = Place(id, num)
    BY <2>7
  <2>12. StaysIntact(s, r, c, sent[c], Place(id, num), next)
    BY <2>8, <2>9, <2>10, <2>11, IntactGrown
  <2> QED BY <2>12 DEF StaysIntact
<1>17. StreamIntact(c)'
  BY <1>8, <1>11, <1>16 DEF StreamIntact
<1>18. Coming(c)' = Coming(c)
  BY <1>11, <1>16 DEF Coming, s
<1> QED BY <1>5, <1>17, <1>18

LEMMA BeatSent ==
  ASSUME WireInv, NEW c \in Conns, SendBeat(c), StreamIntact(c)
  PROVE  StreamIntact(c)' /\ Coming(c)' = Coming(c)
<1> DEFINE accepted == Sendable(c, <<Beat(c)>>)
           s == Stream(c)
           r == s \o accepted
<1>1. Beat(c) \in Tokens /\ Beat(c).t = "beat"
  BY DEF Beat, Tokens
<1>2. accepted \in Seq(Tokens) /\ \A i \in 1 .. Len(accepted) : accepted[i].t # "head"
  <2>1. <<Beat(c)>> \in Seq(Tokens) /\ Len(<<Beat(c)>>) = 1 /\ <<Beat(c)>>[1] = Beat(c)
    BY <1>1
  <2>2. CASE accepted = <<Beat(c)>>
    <3>1. accepted \in Seq(Tokens) /\ Len(accepted) = 1 /\ accepted[1] = Beat(c)
      BY <2>1, <2>2, Zenon
    <3> HIDE DEF accepted
    <3> QED BY <1>1, <3>1
  <2>3. CASE accepted = SubSeq(<<Beat(c)>>, 1, SockBuf - Len(wire[c])) /\ SockBuf - Len(wire[c]) < 1
    <3>1. wire[c] \in Seq(Tokens) /\ SockBuf - Len(wire[c]) \in Int
      BY ConnTypes, WireAssumption
    <3>2. accepted = <<>>
      BY <2>3, <3>1, SubSeqEmpty
    <3> QED BY <3>2
  <2> QED BY <2>1, <2>2, <2>3 DEF Sendable
<1>3. /\ wire' = [wire EXCEPT ![c] = @ \o accepted]
      /\ sent' = sent /\ sending' = sending /\ m_strData' = m_strData
  BY DEF SendBeat, recvVars
<1> HIDE DEF accepted
<1>4. Stream(c)' = r
  <2>1. wire'[c] = wire[c] \o accepted
    BY <1>3 DEF WireInv, TypeOK
  <2>2. m_strData[c] \o (wire[c] \o accepted) = s \o accepted
    BY <1>2, StreamGrows
  <2> QED BY <1>3, <2>1, <2>2 DEF Stream
<1>5. s \in Seq(Tokens) /\ Intact(s, c, sent[c], Due(c))
  BY ConnTypes DEF StreamIntact
<1> HIDE DEF s
<1>6. /\ r \in Seq(Tokens) /\ Len(s) \in Nat /\ Len(accepted) \in Nat
      /\ Len(r) = Len(s) + Len(accepted)
      /\ \A i \in 1 .. Len(s) + Len(accepted) :
           r[i] = IF i <= Len(s) THEN s[i] ELSE accepted[i - Len(s)]
  BY <1>2, <1>5, ConcatProperties
<1> HIDE DEF r
<1>7. HeadsAfter(r, Len(s)) = {}
  <2>1. ASSUME NEW k \in Len(s) + 1 .. Len(r) PROVE r[k].t # "head"
    <3>1. k - Len(s) \in 1 .. Len(accepted) /\ r[k] = accepted[k - Len(s)]
      BY <1>6
    <3> QED BY <1>2, <3>1
  <2> QED BY <2>1 DEF HeadsAfter
<1>8. Grown(s, r)
  BY <1>6 DEF Grown
<1>9. StaysIntact(s, r, c, sent[c], Due(c), Due(c))
  <2> DEFINE due == Due(c)
  <2>1. Intact(s, c, sent[c], due)
    BY <1>5
  <2> HIDE DEF due
  <2>2. \A k \in HeadsAfter(r, Len(s)) :
          k = Len(s) + 1 /\ NextPackage(r, k, c, sent[c], due, due)
    BY <1>7
  <2>3. StaysIntact(s, r, c, sent[c], due, due)
    BY <1>5, <1>6, <1>8, <2>1, <2>2, IntactGrown
  <2> QED BY <2>3 DEF due
<1>10. Due(c)' = Due(c)
  BY <1>3 DEF Due
<1> QED BY <1>3, <1>4, <1>9, <1>10 DEF StaysIntact, StreamIntact, Coming, s

LEMMA StreamReceived ==
  ASSUME WireInv, NEW c \in Conns, Receive(c), StreamIntact(c)
  PROVE  StreamIntact(c)' /\ Coming(c)' = Coming(c)
<1>1. PICK n \in 1 .. Len(wire[c]) :
        /\ m_strData' = [m_strData EXCEPT ![c] = @ \o SubSeq(wire[c], 1, n)]
        /\ wire' = [wire EXCEPT ![c] = SubSeq(@, n + 1, Len(@))]
  BY DEF Receive
<1>2. PICK t \in Seq(Tokens) : t = m_strData[c]
  BY ConnTypes
<1>3. PICK u \in Seq(Tokens) : u = wire[c]
  BY ConnTypes
<1>4. m_strData'[c] = t \o SubSeq(u, 1, n) /\ wire'[c] = SubSeq(u, n + 1, Len(u))
  BY <1>1, <1>2, <1>3 DEF WireInv, TypeOK
<1>5. (t \o SubSeq(u, 1, n)) \o SubSeq(u, n + 1, Len(u)) = t \o u
  <2>1. n \in 1 .. Len(u)
    BY <1>3
  <2> QED BY <2>1, CutInTwo, ZenonT(40)
<1>6. Stream(c)' = Stream(c)
  BY <1>2, <1>3, <1>4, <1>5, Zenon DEF Stream
<1>7. Due(c)' = Due(c) /\ sent' = sent
  BY DEF Receive, sendVars, Due
<1> QED BY <1>6, <1>7 DEF StreamIntact, Coming

(* x is the head of a whole package.                                       *)
WholeHead(x, c, items) ==
  /\ x \in Tokens /\ x.id \in 1 .. Len(items) /\ x.num \in Nat \ {0}
  /\ x.allnum = PackageCount(items[x.id].size) /\ x.num <= x.allnum
  /\ x = TokenOf("head", c, items, x.id, x.num)

(* The package taken is the one that comes first.                          *)
LEMMA PackageIsComing ==
  ASSUME WireInv, NEW c \in Conns, chunk[c] = <<>>, HasPackage(m_strData[c]),
         m_strData' = [m_strData EXCEPT ![c] = Rest(@)],
         UNCHANGED <<sent, sending, wire>>, StreamIntact(c)
  PROVE  LET x == NextHead(c)
         IN  /\ WholeHead(x, c, sent[c])
             /\ ContentOf(m_strData[c]) = <<TokenOf("content", c, sent[c], x.id, x.num)>>
             /\ Coming(c) = Place(x.id, x.num)
             /\ StreamIntact(c)' /\ Follows(x, Coming(c)')
<1> DEFINE x == NextHead(c)
<1>1. PICK m \in Seq(Tokens) : m = m_strData[c]
  BY ConnTypes
<1>2. PICK w \in Seq(Tokens) : w = wire[c]
  BY ConnTypes
<1>3. IntactTaken(m, w, c, sent[c], Due(c))
  <2>1. Intact(m \o w, c, sent[c], Due(c))
    BY <1>1, <1>2 DEF StreamIntact, Stream
  <2> QED BY <1>1, <2>1, PackageRemoved
<1>4. m[HeadAt(m)] = x
  BY <1>1 DEF NextHead
<1>5. /\ x.num > 0 /\ x = TokenOf("head", c, sent[c], x.id, x.num)
      /\ ContentOf(m) = <<TokenOf("content", c, sent[c], x.id, x.num)>>
      /\ Awaited(m \o w, 0, Due(c)) = Place(x.id, x.num)
      /\ Intact(Rest(m) \o w, c, sent[c], Due(c))
      /\ Follows(x, Awaited(Rest(m) \o w, 0, Due(c)))
  BY <1>3, <1>4 DEF IntactTaken
<1>6. x \in Tokens /\ HeadFits(x, sent[c], sending[c])
  <2>1. /\ x \in Tokens
        /\ \A y \in Tokens :
             Fits(Rest(m_strData[c]) \o wire[c], sent[c], sending[c], <<x, y>>, executed[c])
    BY ConnTypes, PackageOf
  <2> HIDE DEF x
  <2>2. Fits(Rest(m_strData[c]) \o wire[c], sent[c], sending[c], <<x, x>>, executed[c])
    BY <2>1
  <2>3. <<x, x>> # <<>> /\ <<x, x>>[1] = x
    OBVIOUS
  <2> QED BY <2>1, <2>2, <2>3 DEF Fits, ChunkFits
<1> HIDE DEF x
<1>7. WholeHead(x, c, sent[c])
  <2>1. x.num \in Nat
    BY <1>6 DEF Tokens
  <2> QED BY <1>5, <1>6, <2>1 DEF WholeHead, HeadFits
<1>8. Stream(c)' = Rest(m) \o w
  <2>1. m_strData'[c] = Rest(m_strData[c])
    BY DEF WireInv, TypeOK
  <2> QED BY <1>1, <1>2, <2>1 DEF Stream
<1>9. Due(c)' = Due(c)
  BY DEF Due
<1>10. StreamIntact(c)' /\ Follows(x, Coming(c)')
  BY <1>5, <1>8, <1>9 DEF StreamIntact, Coming
<1>11. Coming(c) = Place(x.id, x.num)
  BY <1>1, <1>2, <1>5 DEF Coming, Stream
<1> QED BY <1>1, <1>5, <1>7, <1>10, <1>11 DEF x
-----------------------------------------------------------------------------
(*                            Files are whole                              *)

ConnIntact(c) ==
  ~ cut[c] =>
    /\ StreamIntact(c)
    /\ ChunkIntact(chunk[c], Coming(c), c, sent[c])
    /\ alone[c] => FileFits(file, chunk[c], Coming(c), c, sent[c], missed[c])

DoneIntact(c) ==
  \A k \in 1 .. Len(executed[c]) :
    LET e == executed[c][k]
    IN  e.kind = "file" /\ e.alone /\ ~ cut[c] =>
          Kept(e.content, c, sent[c], e.id, PackageCount(sent[c][e.id].size), e.missed)

DeliveryInv == \A c \in Conns : ConnIntact(c) /\ DoneIntact(c)

(* What the invariant says of c stays as it is.                            *)
Aside(c) ==
  /\ Untouched(c) /\ cut'[c] = cut[c] /\ missed'[c] = missed[c]
  /\ alone'[c] => alone[c] /\ file' = file

LEMMA OneDelivers ==
  ASSUME DeliveryInv, NEW c \in Conns, ConnIntact(c)', DoneIntact(c)',
         \A d \in Conns \ {c} : Aside(d)
  PROVE  DeliveryInv'
<1>1. ASSUME NEW d \in Conns \ {c} PROVE ConnIntact(d)' /\ DoneIntact(d)'
  <2>1. ConnIntact(d) /\ DoneIntact(d) /\ Aside(d)
    BY DEF DeliveryInv
  <2>2. Stream(d)' = Stream(d) /\ Due(d)' = Due(d)
    BY <2>1 DEF Aside, Untouched, Stream, Due
  <2>3. Coming(d)' = Coming(d) /\ (StreamIntact(d) => StreamIntact(d)')
    BY <2>1, <2>2 DEF Coming, StreamIntact, Aside, Untouched
  <2>4. ConnIntact(d)'
    BY <2>1, <2>3 DEF ConnIntact, Aside, Untouched
  <2>5. DoneIntact(d)'
    BY <2>1 DEF DoneIntact, Aside, Untouched
  <2> QED BY <2>4, <2>5
<1> QED BY <1>1 DEF DeliveryInv

LEMMA ChunkHead ==
  ASSUME WireInv, NEW c \in Conns, chunk[c] # <<>>,
         ChunkIntact(chunk[c], Coming(c), c, sent[c])
  PROVE  /\ WholeHead(chunk[c][1], c, sent[c]) /\ chunk[c][1].kind = "file"
         /\ chunk[c][2] = TokenOf("content", c, sent[c], chunk[c][1].id, chunk[c][1].num)
         /\ Follows(chunk[c][1], Coming(c))
<1> DEFINE x == chunk[c][1]
<1>1. x \in Tokens
  <2>1. chunk[c] \in Tokens \X Tokens
    BY ConnTypes DEF Held
  <2> QED BY <2>1
<1>2. HeadFits(x, sent[c], sending[c])
  BY ConnTypes DEF Fits, ChunkFits
<1>3. /\ x.num > 0 /\ x = TokenOf("head", c, sent[c], x.id, x.num)
      /\ chunk[c][2] = TokenOf("content", c, sent[c], x.id, x.num)
      /\ Follows(x, Coming(c))
  BY DEF ChunkIntact
<1>4. x.kind = "file"
  BY DEF WireInv, ConnOK
<1> HIDE DEF x
<1>5. x.num \in Nat
  BY <1>1 DEF Tokens
<1>6. WholeHead(x, c, sent[c])
  BY <1>1, <1>2, <1>3, <1>5 DEF WholeHead, HeadFits
<1> QED BY <1>3, <1>4, <1>6 DEF x

LEMMA InitDelivery == ASSUME Init PROVE DeliveryInv
<1> SUFFICES ASSUME NEW c \in Conns PROVE ConnIntact(c) /\ DoneIntact(c)
  BY DEF DeliveryInv
<1>1. Stream(c) = <<>> /\ chunk[c] = <<>> /\ executed[c] = <<>> /\ ~ alone[c]
  BY DEF Init, Stream
<1>2. Intact(<<>>, c, sent[c], Due(c))
  BY DEF Intact, Packed, Chained
<1> QED BY <1>1, <1>2 DEF ConnIntact, DoneIntact, StreamIntact, ChunkIntact

LEMMA DeliversSend ==
  ASSUME WireInv, DeliveryInv, NEW c \in Conns, NEW kind \in {"msg", "file"},
         NEW size \in MsgSizes \cup FileSizes, Send(c, kind, size)
  PROVE  DeliveryInv'
<1> DEFINE x == [kind |-> kind, size |-> size]
<1>1. /\ x \in Items /\ sent'[c] = Append(sent[c], x)
      /\ Due(c).num = 1 /\ Due(c)' = Due(c) /\ Stream(c)' = Stream(c) /\ Coming(c)' = Coming(c)
      /\ \A d \in Conns \ {c} : sent'[d] = sent[d] /\ sending'[d] = sending[d]
      /\ UNCHANGED <<cut, wire, m_strData, chunk, file, alone, missed, executed>>
  BY DueBegun
<1> HIDE DEF x
<1>2. /\ Stream(c) \in Seq(Tokens) /\ sent[c] \in Seq(Items) /\ chunk[c] \in Held
      /\ StreamFits(Stream(c), sent[c], sending[c])
      /\ ChunkFits(chunk[c], Stream(c), sent[c], sending[c])
      /\ executed[c] \in Seq(Dones)
  BY ConnTypes DEF Fits
<1>3. ConnIntact(c)'
  <2> SUFFICES ASSUME ~ cut[c] PROVE ConnIntact(c)'
    BY <1>1 DEF ConnIntact
  <2>1. /\ Intact(Stream(c), c, sent[c], Due(c))
        /\ ChunkIntact(chunk[c], Coming(c), c, sent[c])
        /\ alone[c] => FileFits(file, chunk[c], Coming(c), c, sent[c], missed[c])
    BY DEF DeliveryInv, ConnIntact, StreamIntact
  <2>2. Coming(c) = Awaited(Stream(c), 0, Due(c))
    BY DEF Coming
  <2> DEFINE s == Stream(c)
             due == Due(c)
             y == Coming(c)
             items == sent[c]
             ch == chunk[c]
  <2>3. /\ s \in Seq(Tokens) /\ items \in Seq(Items) /\ ch \in Held
        /\ StreamFits(s, items, sending[c]) /\ ChunkFits(ch, s, items, sending[c])
        /\ due.num = 1 /\ y = Awaited(s, 0, due)
        /\ Intact(s, c, items, due) /\ ChunkIntact(ch, y, c, items)
    BY <1>1, <1>2, <2>1, <2>2
  <2> HIDE DEF s, due, y, items, ch
  <2>4. /\ Intact(s, c, Append(items, x), due) /\ ChunkIntact(ch, y, c, Append(items, x))
        /\ FileFits(file, ch, y, c, items, missed[c])
             => FileFits(file, ch, y, c, Append(items, x), missed[c])
    BY <1>1, <2>3, IntactBegun
  <2> QED BY <1>1, <2>1, <2>4 DEF s, due, y, items, ch, ConnIntact, StreamIntact
<1>4. DoneIntact(c)'
  <2> SUFFICES ASSUME NEW k \in 1 .. Len(executed[c]), executed[c][k].kind = "file",
                      executed[c][k].alone, ~ cut[c]
               PROVE  LET e == executed[c][k]
                      IN  Kept(e.content, c, sent'[c], e.id,
                               PackageCount(sent'[c][e.id].size), e.missed)
    BY <1>1 DEF DoneIntact
  <2> DEFINE e == executed[c][k]
  <2>1. Kept(e.content, c, sent[c], e.id, PackageCount(sent[c][e.id].size), e.missed)
    BY DEF DeliveryInv, DoneIntact
  <2>2. e.id \in 1 .. Len(sent[c])
    <3>1. e \in Dones
      BY <1>2
    <3>2. e.id \in Nat \ {0}
      BY <3>1 DEF Dones
    <3>3. e.id <= Len(sent[c]) /\ Len(sent[c]) \in Nat
      BY <1>2, ConnTypes DEF Fits, DoneFits
    <3> QED BY <3>2, <3>3
  <2> HIDE DEF e
  <2>3. sent'[c][e.id] = sent[c][e.id]
    BY <1>1, <1>2, <2>2
  <2> QED BY <2>1, <2>3 DEF Kept, Chunked, Beginning, TokenOf, e
<1>5. \A d \in Conns \ {c} : Aside(d)
  BY <1>1 DEF Aside, Untouched
<1> QED BY <1>3, <1>4, <1>5, OneDelivers

(* Nothing is taken out of the stream.                                     *)
LEMMA DeliversStream ==
  ASSUME WireInv, DeliveryInv, NEW c \in Conns,
         SendPackage(c) \/ SendBeat(c) \/ Receive(c)
  PROVE  DeliveryInv'
<1>1. /\ UNCHANGED <<sent, chunk, file, alone, missed, executed>>
      /\ cut \in [Conns -> BOOLEAN] /\ sending \in [Conns -> Nat]
      /\ wire \in [Conns -> Seq(Tokens)] /\ m_strData \in [Conns -> Seq(Tokens)]
  BY DEF SendPackage, SendBeat, Receive, sendVars, recvVars, WireInv, TypeOK
<1>2. /\ \A d \in Conns \ {c} : cut'[d] = cut[d] /\ sending'[d] = sending[d]
      /\ \A d \in Conns \ {c} : wire'[d] = wire[d] /\ m_strData'[d] = m_strData[d]
      /\ cut[c] => cut'[c]
  <2>1. CASE SendPackage(c)
    BY <1>1, <2>1 DEF SendPackage, recvVars
  <2>2. CASE SendBeat(c)
    BY <1>1, <2>2 DEF SendBeat, recvVars
  <2>3. CASE Receive(c)
    BY <1>1, <2>3 DEF Receive, sendVars
  <2> QED BY <2>1, <2>2, <2>3
<1>3. ConnIntact(c)'
  <2> SUFFICES ASSUME ~ cut'[c] PROVE ConnIntact(c)'
    BY DEF ConnIntact
  <2>1. /\ StreamIntact(c) /\ ChunkIntact(chunk[c], Coming(c), c, sent[c])
        /\ alone[c] => FileFits(file, chunk[c], Coming(c), c, sent[c], missed[c])
    BY <1>2 DEF DeliveryInv, ConnIntact
  <2>2. StreamIntact(c)' /\ Coming(c)' = Coming(c)
    BY <2>1, PackageSent, BeatSent, StreamReceived
  <2> QED BY <1>1, <2>1, <2>2 DEF ConnIntact
<1>4. DoneIntact(c)'
  BY <1>1, <1>2 DEF DeliveryInv, DoneIntact
<1>5. \A d \in Conns \ {c} : Aside(d)
  BY <1>1, <1>2 DEF Aside, Untouched
<1> QED BY <1>3, <1>4, <1>5, OneDelivers

LEMMA DeliversProcessMsg ==
  ASSUME WireInv, DeliveryInv, NEW c \in Conns, ProcessMsg(c)
  PROVE  DeliveryInv'
<1> DEFINE x == NextHead(c)
           content == m_strMsgContent[c] \o ContentOf(m_strData[c])
           e == [kind |-> x.kind, id |-> x.id, content |-> content, alone |-> TRUE,
                 missed |-> FALSE]
<1>1. /\ chunk[c] = <<>> /\ HasPackage(m_strData[c]) /\ x.kind = "msg"
      /\ m_strData' = [m_strData EXCEPT ![c] = Rest(@)]
      /\ UNCHANGED <<sent, sending, cut, wire, chunk, file, alone, missed>>
  BY DEF ProcessMsg, Taking, sendVars
<1>2. executed' = executed \/ executed' = [executed EXCEPT ![c] = Append(@, e)]
  BY DEF ProcessMsg, Execute
<1> HIDE DEF content
<1>3. e.kind = "msg"
  BY <1>1
<1> HIDE DEF e
<1>4. ConnIntact(c)'
  <2> SUFFICES ASSUME ~ cut[c] PROVE ConnIntact(c)'
    BY <1>1 DEF ConnIntact
  <2>1. StreamIntact(c)
    BY DEF DeliveryInv, ConnIntact
  <2>2. StreamIntact(c)' /\ Follows(x, Coming(c)')
    BY <1>1, <2>1, PackageIsComing
  <2>3. Coming(c)'.num = 1
    BY <1>1, <2>2 DEF Follows, Place
  <2>4. ChunkIntact(chunk[c], Coming(c)', c, sent[c])
    BY <1>1 DEF ChunkIntact
  <2>5. FileFits(file, chunk[c], Coming(c)', c, sent[c], missed[c])
    BY <1>1, <2>3 DEF FileFits
  <2> QED BY <1>1, <2>2, <2>4, <2>5 DEF ConnIntact
<1> HIDE DEF x
<1>5. executed \in [Conns -> Seq(Dones)] /\ executed' \in [Conns -> Seq(Dones)]
  <2>1. WireInv'
    BY KeepsProcessMsg
  <2> QED BY <2>1 DEF WireInv, TypeOK, Dones
<1>6. DoneIntact(c)'
  <2>1. CASE executed' = executed
    BY <1>1, <2>1 DEF DeliveryInv, DoneIntact
  <2>2. CASE executed' = [executed EXCEPT ![c] = Append(@, e)]
    <3>1. executed'[c] = Append(executed[c], e) /\ e.kind = "msg"
      BY <1>3, <1>5, <2>2
    <3>2. /\ Len(executed'[c]) = Len(executed[c]) + 1 /\ Len(executed[c]) \in Nat
          /\ executed'[c][Len(executed[c]) + 1] = e
          /\ \A k \in 1 .. Len(executed[c]) : executed'[c][k] = executed[c][k]
      <4>1. Len(executed[c]) \in Nat /\ executed[c] \in Seq(Dones)
        BY <1>5
      <4> QED BY <3>1, <4>1
    <3>3. \A k \in 1 .. Len(executed'[c]) :
            k \in 1 .. Len(executed[c]) \/ executed'[c][k].kind = "msg"
      BY <3>1, <3>2
    <3> QED BY <1>1, <3>2, <3>3 DEF DeliveryInv, DoneIntact
  <2> QED BY <1>2, <2>1, <2>2
<1>7. \A d \in Conns \ {c} : Aside(d)
  <2>1. \A d \in Conns \ {c} : m_strData'[d] = m_strData[d]
    BY <1>1 DEF WireInv, TypeOK
  <2>2. \A d \in Conns \ {c} : executed'[d] = executed[d]
    BY <1>2, <1>5
  <2> QED BY <1>1, <2>1, <2>2 DEF Aside, Untouched
<1> QED BY <1>4, <1>6, <1>7, OneDelivers

LEMMA DeliversProcessFile ==
  ASSUME WireInv, DeliveryInv, NEW c \in Conns, ProcessFile(c)
  PROVE  DeliveryInv'
<1> DEFINE x == NextHead(c)
           content == ContentOf(m_strData[c])
           isJson == content # <<>> /\ content[1].t = "content" /\ content[1].kind = "file"
<1>1. /\ chunk[c] = <<>> /\ HasPackage(m_strData[c]) /\ x.kind = "file"
      /\ m_strData' = [m_strData EXCEPT ![c] = Rest(@)]
      /\ UNCHANGED <<sent, sending, cut, wire, executed>>
  BY DEF ProcessFile, Taking, sendVars
<1>2. IF isJson THEN /\ chunk' = [chunk EXCEPT ![c] = <<x, content[1]>>]
                     /\ file' = IF x.num = 1 THEN <<>> ELSE file
                     /\ Use(c, x.num = 1)
                     /\ missed' = [missed EXCEPT ![c] = @ /\ x.num # 1]
      ELSE chunk' = chunk /\ file' = file /\ alone' = alone /\ missed' = missed
  BY DEF ProcessFile, DeletesOld
<1>3. /\ chunk \in [Conns -> Held] /\ m_strData \in [Conns -> Seq(Tokens)]
      /\ missed \in [Conns -> BOOLEAN]
  BY DEF WireInv, TypeOK, Held
<1>4. ConnIntact(c)'
  <2> SUFFICES ASSUME ~ cut[c] PROVE ConnIntact(c)'
    BY <1>1 DEF ConnIntact
  <2>1. /\ StreamIntact(c)
        /\ alone[c] => FileFits(file, chunk[c], Coming(c), c, sent[c], missed[c])
    BY DEF DeliveryInv, ConnIntact
  <2>2. /\ WholeHead(x, c, sent[c])
        /\ content = <<TokenOf("content", c, sent[c], x.id, x.num)>>
        /\ Coming(c) = Place(x.id, x.num)
        /\ StreamIntact(c)' /\ Follows(x, Coming(c)')
    BY <1>1, <2>1, PackageIsComing
  <2> DEFINE token == TokenOf("content", c, sent[c], x.id, x.num)
  <2>3. x.kind = sent[c][x.id].kind
    <3>1. x = TokenOf("head", c, sent[c], x.id, x.num)
      BY <2>2 DEF WholeHead
    <3>2. TokenOf("head", c, sent[c], x.id, x.num).kind = sent[c][x.id].kind
      BY DEF TokenOf
    <3> QED BY <3>1, <3>2
  <2>4. content # <<>> /\ content[1] = token /\ token.t = "content" /\ token.kind = "file"
    <3>1. token.t = "content" /\ token.kind = "file"
      BY <1>1, <2>3 DEF TokenOf
    <3> HIDE DEF token
    <3>2. content = <<token>>
      BY <2>2 DEF token
    <3> HIDE DEF content
    <3> QED BY <3>1, <3>2
  <2>5. /\ chunk' = [chunk EXCEPT ![c] = <<x, token>>]
        /\ file' = IF x.num = 1 THEN <<>> ELSE file
        /\ Use(c, x.num = 1)
        /\ missed' = [missed EXCEPT ![c] = @ /\ x.num # 1]
    BY <1>2, <2>4
  <2> HIDE DEF token, content, x, isJson
  <2>6. /\ chunk'[c] = <<x, token>> /\ chunk'[c] # <<>> /\ chunk'[c][1] = x /\ chunk'[c][2] = token
        /\ alone'[c] => x.num = 1 \/ alone[c]
        /\ x.num # 1 => missed'[c] = missed[c]
    BY <1>3, <2>5 DEF Use
  <2>7. ChunkIntact(chunk'[c], Coming(c)', c, sent[c])
    BY <2>2, <2>6 DEF ChunkIntact, WholeHead, token
  <2>8. ASSUME alone'[c] PROVE Kept(file', c, sent[c], x.id, x.num - 1, missed'[c])
    <3>1. CASE x.num = 1
      BY <2>5, <3>1, KeptNone
    <3>2. CASE x.num # 1
      <4>1. FileFits(file, <<>>, Place(x.id, x.num), c, sent[c], missed[c])
        BY <1>1, <2>1, <2>2, <2>6, <2>8, <3>2
      <4> QED BY <2>5, <2>6, <3>2, <4>1 DEF FileFits, Place
    <3> QED BY <3>1, <3>2
  <2> QED BY <1>1, <2>2, <2>6, <2>7, <2>8 DEF ConnIntact, FileFits
<1>5. DoneIntact(c)'
  BY <1>1 DEF DeliveryInv, DoneIntact
<1>6. \A d \in Conns \ {c} : Aside(d)
  <2>1. \A d \in Conns \ {c} : /\ m_strData'[d] = m_strData[d] /\ chunk'[d] = chunk[d]
                               /\ missed'[d] = missed[d]
    BY <1>1, <1>2, <1>3
  <2>2. \A d \in Conns \ {c} : alone'[d] => alone[d] /\ file' = file
    BY <1>2 DEF Use
  <2> QED BY <1>1, <2>1, <2>2 DEF Aside, Untouched
<1> QED BY <1>4, <1>5, <1>6, OneDelivers

LEMMA DeliversWriteChunk ==
  ASSUME WireInv, DeliveryInv, NEW c \in Conns, WriteChunk(c)
  PROVE  DeliveryInv'
<1> DEFINE x == chunk[c][1]
           e == [kind |-> x.kind, id |-> x.id, content |-> file', alone |-> alone[c],
                 missed |-> missed[c]]
<1>1. /\ chunk[c] # <<>> /\ file' = Append(file, chunk[c][2])
      /\ chunk' = [chunk EXCEPT ![c] = <<>>] /\ Use(c, FALSE)
      /\ UNCHANGED <<sent, sending, cut, wire, m_strData, missed>>
  BY DEF WriteChunk, sendVars
<1>2. \/ x.num < x.allnum /\ executed' = executed
      \/ ~ (x.num < x.allnum) /\ executed' = [executed EXCEPT ![c] = Append(@, e)]
  BY DEF WriteChunk, Execute
<1>3. /\ chunk \in [Conns -> Held] /\ executed \in [Conns -> Seq(Dones)]
      /\ executed' \in [Conns -> Seq(Dones)]
  <2>1. WireInv'
    BY KeepsWriteChunk
  <2> QED BY <2>1 DEF WireInv, TypeOK, Held, Dones
<1>4. chunk'[c] = <<>> /\ (alone'[c] => alone[c])
  BY <1>1, <1>3 DEF Use
<1>5. Coming(c)' = Coming(c) /\ (StreamIntact(c) => StreamIntact(c)')
  BY <1>1 DEF Coming, StreamIntact, Stream, Due
<1> HIDE DEF x
<1>6. ASSUME ~ cut[c], alone[c]
      PROVE  /\ WholeHead(x, c, sent[c]) /\ x.kind = "file" /\ Follows(x, Coming(c))
             /\ Kept(file', c, sent[c], x.id, x.num, missed[c])
  <2>1. /\ ChunkIntact(chunk[c], Coming(c), c, sent[c])
        /\ FileFits(file, chunk[c], Coming(c), c, sent[c], missed[c])
    BY <1>6 DEF DeliveryInv, ConnIntact
  <2>2. /\ WholeHead(x, c, sent[c]) /\ x.kind = "file" /\ Follows(x, Coming(c))
        /\ chunk[c][2] = TokenOf("content", c, sent[c], x.id, x.num)
    BY <1>1, <2>1, ChunkHead DEF x
  <2>3. Kept(file, c, sent[c], x.id, x.num - 1, missed[c]) /\ file \in Seq(Tokens)
    BY <1>1, <2>1 DEF FileFits, x, WireInv, TypeOK
  <2>4. sent[c] \in Seq(Items) /\ x.id \in 1 .. Len(sent[c]) /\ x.num \in Nat \ {0}
    BY <2>2, ConnTypes DEF WholeHead
  <2>5. Kept(file', c, sent[c], x.id, x.num, missed[c])
    BY <1>1, <2>2, <2>3, <2>4, KeptGrows
  <2> QED BY <2>2, <2>5
<1>7. ConnIntact(c)'
  <2> SUFFICES ASSUME ~ cut[c] PROVE ConnIntact(c)'
    BY <1>1 DEF ConnIntact
  <2>1. StreamIntact(c)'
    BY <1>5 DEF DeliveryInv, ConnIntact
  <2>2. ChunkIntact(chunk'[c], Coming(c), c, sent[c])
    BY <1>4 DEF ChunkIntact
  <2>3. ASSUME alone'[c]
        PROVE  FileFits(file', chunk'[c], Coming(c), c, sent[c], missed[c])
    <3>1. /\ WholeHead(x, c, sent[c]) /\ x.kind = "file" /\ Follows(x, Coming(c))
          /\ Kept(file', c, sent[c], x.id, x.num, missed[c])
      BY <1>4, <1>6, <2>3
    <3>2. x.num \in Nat
      BY <3>1 DEF WholeHead
    <3>3. CASE x.num < x.allnum
      <4>1. Coming(c).id = x.id /\ Coming(c).num = x.num + 1
        BY <3>1, <3>3 DEF Follows, Place
      <4>2. Coming(c).num - 1 = x.num
        BY <3>2, <4>1
      <4> QED BY <1>4, <3>1, <4>1, <4>2 DEF FileFits
    <3>4. CASE ~ (x.num < x.allnum)
      BY <1>4, <3>1, <3>4 DEF FileFits, Follows, Place
    <3> QED BY <3>3, <3>4
  <2> QED BY <1>1, <1>5, <2>1, <2>2, <2>3 DEF ConnIntact
<1>8. DoneIntact(c)'
  <2>1. CASE executed' = executed
    BY <1>1, <2>1 DEF DeliveryInv, DoneIntact
  <2>2. CASE ~ (x.num < x.allnum) /\ executed' = [executed EXCEPT ![c] = Append(@, e)]
    <3>1. ASSUME alone[c], ~ cut[c]
          PROVE  Kept(e.content, c, sent[c], x.id, PackageCount(sent[c][x.id].size), e.missed)
      <4>1. WholeHead(x, c, sent[c]) /\ Kept(e.content, c, sent[c], x.id, x.num, e.missed)
        BY <1>6, <3>1
      <4>2. x.num = x.allnum /\ x.allnum = PackageCount(sent[c][x.id].size)
        <5>1. x.num \in Nat /\ x.allnum \in Nat /\ x.num <= x.allnum
          BY <4>1 DEF WholeHead, Tokens
        <5> QED BY <2>2, <4>1, <5>1 DEF WholeHead
      <4> QED BY <4>1, <4>2
    <3>2. e.alone = alone[c] /\ e.id = x.id
      OBVIOUS
    <3> HIDE DEF e
    <3>3. /\ executed'[c] = Append(executed[c], e) /\ executed[c] \in Seq(Dones)
          /\ Len(executed[c]) \in Nat
      BY <1>3, <2>2
    <3>4. /\ Len(executed'[c]) = Len(executed[c]) + 1
          /\ executed'[c][Len(executed[c]) + 1] = e
          /\ \A k \in 1 .. Len(executed[c]) : executed'[c][k] = executed[c][k]
      BY <3>3
    <3>5. \A k \in 1 .. Len(executed'[c]) :
            k \in 1 .. Len(executed[c]) \/ executed'[c][k] = e
      BY <3>3, <3>4
    <3> QED BY <1>1, <3>1, <3>2, <3>4, <3>5, ZenonT(30) DEF DeliveryInv, DoneIntact
  <2> QED BY <1>2, <2>1, <2>2
<1> HIDE DEF e
<1>9. \A d \in Conns \ {c} : Aside(d)
  <2>1. \A d \in Conns \ {c} : chunk'[d] = chunk[d] /\ executed'[d] = executed[d]
    BY <1>1, <1>2, <1>3
  <2>2. \A d \in Conns \ {c} : ~ alone'[d]
    BY <1>1 DEF Use
  <2> QED BY <1>1, <2>1, <2>2 DEF Aside, Untouched
<1> QED BY <1>7, <1>8, <1>9, OneDelivers

LEMMA DeliversOpenFailed ==
  ASSUME WireInv, DeliveryInv, NEW c \in Conns, OpenFailed(c)
  PROVE  DeliveryInv'
<1> DEFINE x == chunk[c][1]
<1>1. /\ UNCHANGED <<sent, sending, cut, wire, m_strData, file, alone, executed>>
      /\ chunk[c] # <<>> /\ chunk' = [chunk EXCEPT ![c] = <<>>]
      /\ missed' = [missed EXCEPT ![c] = TRUE]
  BY DEF OpenFailed, sendVars
<1>2. /\ chunk'[c] = <<>> /\ missed'[c] = TRUE
      /\ \A d \in Conns \ {c} : chunk'[d] = chunk[d] /\ missed'[d] = missed[d]
  <2>1. chunk \in [Conns -> Held] /\ missed \in [Conns -> BOOLEAN]
    BY DEF WireInv, TypeOK, Held
  <2> QED BY <1>1, <2>1
<1>3. Coming(c)' = Coming(c) /\ (StreamIntact(c) => StreamIntact(c)')
  BY <1>1 DEF Coming, StreamIntact, Stream, Due
<1> HIDE DEF x
<1>4. ASSUME ~ cut[c], alone[c]
      PROVE  FileFits(file, <<>>, Coming(c), c, sent[c], TRUE)
  <2>1. /\ ChunkIntact(chunk[c], Coming(c), c, sent[c])
        /\ FileFits(file, chunk[c], Coming(c), c, sent[c], missed[c])
    BY <1>4 DEF DeliveryInv, ConnIntact
  <2>2. WholeHead(x, c, sent[c]) /\ x.kind = "file" /\ Follows(x, Coming(c))
    BY <1>1, <2>1, ChunkHead DEF x
  <2>3. Kept(file, c, sent[c], x.id, x.num - 1, missed[c]) /\ x.num \in Nat
    BY <1>1, <2>1, <2>2 DEF FileFits, WholeHead, x
  <2>4. CASE x.num < x.allnum
    <3>1. Coming(c).id = x.id /\ Coming(c).num = x.num + 1
      BY <2>2, <2>4 DEF Follows, Place
    <3>2. Coming(c).num - 1 = x.num
      BY <2>3, <3>1
    <3>3. Kept(file, c, sent[c], x.id, x.num, TRUE)
      BY <2>3, KeptMissed
    <3> QED BY <3>1, <3>2, <3>3 DEF FileFits
  <2>5. CASE ~ (x.num < x.allnum)
    BY <2>2, <2>5 DEF FileFits, Follows, Place
  <2> QED BY <2>4, <2>5
<1>5. ConnIntact(c)'
  BY <1>1, <1>2, <1>3, <1>4 DEF DeliveryInv, ConnIntact, ChunkIntact
<1>6. DoneIntact(c)'
  BY <1>1 DEF DeliveryInv, DoneIntact
<1>7. \A d \in Conns \ {c} : Aside(d)
  BY <1>1, <1>2 DEF Aside, Untouched
<1> QED BY <1>5, <1>6, <1>7, OneDelivers

LEMMA DeliversEnd ==
  ASSUME WireInv, DeliveryInv, NEW c \in Conns, ProcessEnd(c)
  PROVE  DeliveryInv'
<1>1. UNCHANGED <<sent, sending, cut, wire, m_strData, chunk, file, alone, missed, executed>>
  BY DEF ProcessEnd, sendVars
<1>2. Coming(c)' = Coming(c) /\ (StreamIntact(c) => StreamIntact(c)')
  BY <1>1 DEF Coming, StreamIntact, Stream, Due
<1>3. ConnIntact(c)' /\ DoneIntact(c)'
  BY <1>1, <1>2 DEF DeliveryInv, ConnIntact, DoneIntact
<1>4. \A d \in Conns \ {c} : Aside(d)
  BY <1>1 DEF Aside, Untouched
<1> QED BY <1>3, <1>4, OneDelivers

LEMMA NextDelivery == ASSUME WireInv, DeliveryInv, [Next]_vars PROVE DeliveryInv'
<1>1. CASE UNCHANGED vars
  BY <1>1 DEF vars, DeliveryInv, ConnIntact, DoneIntact, StreamIntact, Coming, Stream, Due
<1>2. ASSUME NEW c \in Conns, SendMsgTo(c) \/ SendFileTo(c) PROVE DeliveryInv'
  BY <1>2, DeliversSend DEF SendMsgTo, SendFileTo
<1>3. ASSUME NEW c \in Conns, Process(c) PROVE DeliveryInv'
  BY <1>3, DeliversProcessMsg, DeliversProcessFile, DeliversWriteChunk, DeliversOpenFailed,
     DeliversEnd DEF Process
<1>4. CASE Quiet
  BY <1>1, <1>4 DEF Quiet
<1> QED BY <1>1, <1>2, <1>3, <1>4, DeliversStream DEF Next

LEMMA DeliveryInductive == Spec => []DeliveryInv
<1>1. Init => DeliveryInv
  BY InitDelivery
<1>2. WireInv /\ DeliveryInv /\ [Next]_vars => DeliveryInv'
  BY NextDelivery
<1> QED BY <1>1, <1>2, WireInductive, PTL DEF Spec

(* Process (function.cpp:103-148) executes a file whose path no other      *)
(* connection used meanwhile, when no send() of its own was cut, with all  *)
(* its chunks, in order and nothing else, and after a failed open with     *)
(* fewer, but with no chunk of another file, none twice and none moved: for*)
(* any number of connections, any sizes, whichever opens fail and every    *)
(* order in which the threads run.                                         *)
THEOREM FileWholeCorrect == Spec => []FileWhole
<1>1. WireInv /\ DeliveryInv => FileWhole
  <2> SUFFICES ASSUME WireInv, DeliveryInv, NEW c \in Conns, NEW e \in ToSet(executed[c]),
                      e.kind = "file", e.alone, ~ cut[c]
               PROVE  IF e.missed THEN ChunksOf(c, e.id, e.content)
                      ELSE e.content = Whole(c, e.id)
    BY DEF FileWhole
  <2>1. PICK k \in 1 .. Len(executed[c]) : executed[c][k] = e
    <3>1. executed[c] \in Seq(Dones)
      BY ConnTypes
    <3> QED BY <3>1 DEF ToSet
  <2>2. Kept(e.content, c, sent[c], e.id, PackageCount(sent[c][e.id].size), e.missed)
    BY <2>1 DEF DeliveryInv, DoneIntact
  <2>3. \A id, num : Token("content", c, id, num) = TokenOf("content", c, sent[c], id, num)
    BY DEF Token, TokenOf
  <2>4. DOMAIN e.content = 1 .. Len(e.content)
    <3>1. executed[c] \in Seq(Dones)
      BY ConnTypes
    <3>2. e \in Dones
      BY <2>1, <3>1
    <3> QED BY <3>2 DEF Dones
  <2>5. ChunksOf(c, e.id, e.content)
    BY <2>2, <2>3, <2>4 DEF Kept, Chunked, ChunksOf
  <2>6. ~ e.missed => e.content = Whole(c, e.id)
    <3>1. ~ e.missed
            => e.content = Beginning(c, sent[c], e.id, PackageCount(sent[c][e.id].size))
      BY <2>2 DEF Kept
    <3>2. Whole(c, e.id) = Beginning(c, sent[c], e.id, PackageCount(sent[c][e.id].size))
      BY <2>3 DEF Whole, Beginning
    <3> QED BY <3>1, <3>2
  <2> QED BY <2>5, <2>6
<1> QED BY <1>1, WireInductive, DeliveryInductive, PTL
-----------------------------------------------------------------------------
(*                   Wire implements Courier's safety part                 *)

SmallMessages == \A size \in MsgSizes : size < PAGSIZE

(* No send() was cut short or refused.                                     *)
NeverCut == \A c \in Conns : ~ cut[c]

UsesPath(c) == \E id \in 1 .. Len(sent[c]) : sent[c][id].kind = "file"

(* At most one connection sends files, so uses the upload path.            *)
OnePathUser == \A c, d \in Conns : UsesPath(c) /\ UsesPath(d) => c = d

SizesFit ==
  \A c \in Conns : \A id \in 1 .. Len(sent[c]) :
    sent[c][id].kind = "msg" => sent[c][id].size \in MsgSizes

(* What was executed is all that was sent before what Process takes next.  *)
InTurn(c) ==
  /\ m_strMsgContent[c] = <<>>
  /\ \A k \in 1 .. Len(executed[c]) :
       /\ executed[c][k].id = k /\ executed[c][k].kind = sent[c][k].kind
       /\ executed[c][k].content = Beginning(c, sent[c], k, PackageCount(sent[c][k].size))
  /\ IF chunk[c] = <<>>
     THEN Coming(c).id = Len(executed[c]) + 1 /\ (Coming(c).num > 1 => alone[c])
     ELSE chunk[c][1].id = Len(executed[c]) + 1 /\ alone[c]

CourierInv == \A c \in Conns : InTurn(c)

(* No open failed.                                                         *)
NeverMissed == \A c \in Conns : ~ missed[c]

(* What a step of the conditional theorem starts from.                     *)
Undisturbed ==
  /\ WireInv /\ DeliveryInv /\ SizesFit /\ NeverCut /\ NeverMissed /\ OnePathUser
  /\ CourierInv

LEMMA InitCourier == ASSUME Init PROVE SizesFit /\ CourierInv
<1>1. ASSUME NEW c \in Conns
      PROVE  /\ sent[c] = <<>> /\ executed[c] = <<>> /\ m_strMsgContent[c] = <<>>
             /\ chunk[c] = <<>> /\ Coming(c) = Place(1, 1)
  <2>1. Stream(c) = <<>> /\ Due(c) = Place(1, 1) /\ HeadsAfter(<<>>, 0) = {}
    BY DEF Init, Stream, Due, HeadsAfter
  <2>2. Coming(c) = Place(1, 1)
    BY <2>1 DEF Coming, Awaited
  <2> QED BY <2>2 DEF Init
<1>2. SizesFit
  BY <1>1 DEF SizesFit
<1>3. ASSUME NEW c \in Conns PROVE InTurn(c)
  <2>1. Coming(c).id = Len(executed[c]) + 1 /\ ~ (Coming(c).num > 1)
    BY <1>1 DEF Place
  <2> QED BY <1>1, <2>1 DEF InTurn
<1> QED BY <1>2, <1>3 DEF CourierInv

LEMMA NextSizes ==
  ASSUME WireInv, SizesFit, [Next]_vars
  PROVE  SizesFit'
<1>1. ASSUME NEW c \in Conns, NEW kind \in {"msg", "file"},
             NEW size \in MsgSizes \cup FileSizes, Send(c, kind, size),
             kind = "msg" => size \in MsgSizes
      PROVE  SizesFit'
  <2> DEFINE x == [kind |-> kind, size |-> size]
  <2>1. x \in Items /\ sent' = [sent EXCEPT ![c] = Append(@, x)]
    BY <1>1 DEF Items, Send
  <2>2. x.kind = "msg" => x.size \in MsgSizes
    BY <1>1
  <2> HIDE DEF x
  <2>3. sent \in [Conns -> Seq(Items)]
    BY DEF WireInv, TypeOK, Items
  <2>4. /\ sent'[c] = Append(sent[c], x) /\ sent[c] \in Seq(Items)
        /\ \A d \in Conns \ {c} : sent'[d] = sent[d]
    BY <2>1, <2>3
  <2>5. ASSUME NEW id \in 1 .. Len(sent'[c]), sent'[c][id].kind = "msg"
        PROVE  sent'[c][id].size \in MsgSizes
    <3>1. CASE id \in 1 .. Len(sent[c])
      BY <2>4, <2>5, <3>1 DEF SizesFit
    <3>2. CASE id = Len(sent[c]) + 1
      BY <2>1, <2>2, <2>4, <2>5, <3>2
    <3>3. Len(sent'[c]) = Len(sent[c]) + 1 /\ Len(sent[c]) \in Nat
      BY <2>1, <2>4
    <3> QED BY <3>1, <3>2, <3>3
  <2> QED BY <2>4, <2>5 DEF SizesFit
<1>2. ASSUME NEW c \in Conns, SendMsgTo(c) \/ SendFileTo(c) PROVE SizesFit'
  BY <1>1, <1>2 DEF SendMsgTo, SendFileTo
<1>3. CASE sent' = sent
  BY <1>3 DEF SizesFit
<1>4. ASSUME \/ UNCHANGED vars \/ Quiet
             \/ \E c \in Conns : SendPackage(c) \/ SendBeat(c) \/ Receive(c) \/ Process(c)
      PROVE  sent' = sent
  BY <1>4 DEF vars, Quiet, SendPackage, SendBeat, Receive, Process, ProcessMsg,
     ProcessFile, WriteChunk, OpenFailed, ProcessEnd, sendVars
<1> QED BY <1>2, <1>3, <1>4 DEF Next

LEMMA NextMissed ==
  ASSUME WireInv, NeverMissed, ~ OpenFails, [Next]_vars
  PROVE  NeverMissed'
<1>1. missed \in [Conns -> BOOLEAN]
  BY DEF WireInv, TypeOK
<1>2. CASE missed' = missed
  BY <1>2 DEF NeverMissed
<1>3. ASSUME NEW c \in Conns, ProcessFile(c) PROVE NeverMissed'
  <2>1. missed' = [missed EXCEPT ![c] = @ /\ NextHead(c).num # 1] \/ missed' = missed
    BY <1>3 DEF ProcessFile
  <2> QED BY <1>1, <2>1 DEF NeverMissed
<1>4. ASSUME \/ UNCHANGED vars \/ Quiet
             \/ \E c \in Conns : \/ SendMsgTo(c) \/ SendFileTo(c) \/ SendPackage(c)
                                \/ SendBeat(c) \/ Receive(c) \/ ProcessMsg(c)
                                \/ WriteChunk(c) \/ OpenFailed(c) \/ ProcessEnd(c)
      PROVE  missed' = missed
  BY <1>4 DEF vars, Quiet, SendMsgTo, SendFileTo, Send, SendPackage, SendBeat, Receive,
     ProcessMsg, WriteChunk, OpenFailed, ProcessEnd, sendVars, recvVars
<1> QED BY <1>2, <1>3, <1>4 DEF Next, Process

(* Messages below PAGSIZE are one package.                                 *)
LEMMA OnePackage ==
  ASSUME WireInv, SizesFit, SmallMessages, NEW c \in Conns, NEW id \in 1 .. Len(sent[c]),
         sent[c][id].kind = "msg"
  PROVE  PackageCount(sent[c][id].size) = 1
<1> DEFINE size == sent[c][id].size
<1>1. size \in Nat /\ size < PAGSIZE /\ PAGSIZE \in Nat \ {0}
  BY WireAssumption DEF SizesFit, SmallMessages
<1> HIDE DEF size
<1>2. size \div PAGSIZE = 0
  BY <1>1
<1> QED BY <1>2 DEF PackageCount, size

LEMMA NoPathNoChunk ==
  ASSUME Undisturbed, SmallMessages, NEW c \in Conns, ~ UsesPath(c)
  PROVE  chunk[c] = <<>> /\ ~ (Coming(c).num > 1)
<1>1. /\ sent[c] \in Seq(Items) /\ Stream(c) \in Seq(Tokens) /\ sending[c] \in Nat
      /\ StreamFits(Stream(c), sent[c], sending[c])
      /\ sending[c] > 0 =>
           sent[c] # <<>> /\ sending[c] <= PackageCount(sent[c][Len(sent[c])].size)
  BY ConnTypes DEF Undisturbed, Fits
<1>2. ASSUME NEW id \in 1 .. Len(sent[c])
      PROVE  sent[c][id].kind = "msg" /\ PackageCount(sent[c][id].size) = 1
  <2>1. sent[c][id] \in Items
    BY <1>1
  <2>2. sent[c][id].kind = "msg"
    BY <2>1 DEF Items, UsesPath
  <2> QED BY <2>2, OnePackage DEF Undisturbed
<1>3. chunk[c] = <<>>
  <2> SUFFICES ASSUME chunk[c] # <<>> PROVE FALSE
    OBVIOUS
  <2> DEFINE x == chunk[c][1]
  <2>1. ChunkIntact(chunk[c], Coming(c), c, sent[c])
    BY DEF Undisturbed, DeliveryInv, ConnIntact, NeverCut
  <2>2. WholeHead(x, c, sent[c]) /\ x.kind = "file"
    BY <2>1, ChunkHead DEF Undisturbed
  <2> HIDE DEF x
  <2>3. x = TokenOf("head", c, sent[c], x.id, x.num) /\ x.id \in 1 .. Len(sent[c])
    BY <2>2 DEF WholeHead
  <2>4. TokenOf("head", c, sent[c], x.id, x.num).kind = sent[c][x.id].kind
    BY DEF TokenOf
  <2>5. x.kind = sent[c][x.id].kind
    BY <2>3, <2>4
  <2> QED BY <1>2, <2>2, <2>3, <2>5
<1>4. ~ (Due(c).num > 1)
  <2>1. CASE sending[c] > 0
    <3>1. Len(sent[c]) \in 1 .. Len(sent[c])
      BY <1>1, <2>1, EmptySeq
    <3>2. sending[c] <= 1
      BY <1>1, <1>2, <2>1, <3>1
    <3> QED BY <1>1, <2>1, <3>2 DEF Due, Place
  <2>2. CASE ~ (sending[c] > 0)
    BY <2>2 DEF Due, Place
  <2> QED BY <2>1, <2>2
<1>5. \/ Coming(c) = Due(c)
      \/ \E x \in Tokens : HeadFits(x, sent[c], sending[c]) /\ Coming(c) = Place(x.id, x.num)
  BY <1>1, AwaitedWhich DEF Coming
<1>6. ASSUME NEW x \in Tokens, HeadFits(x, sent[c], sending[c]), Coming(c) = Place(x.id, x.num)
      PROVE  ~ (Coming(c).num > 1)
  <2>1. x.num <= 1
    BY <1>2, <1>6 DEF HeadFits
  <2>2. x.num \in Nat /\ Coming(c).num = x.num
    BY <1>6 DEF Tokens, Place
  <2> QED BY <2>1, <2>2
<1> QED BY <1>3, <1>4, <1>5, <1>6

(* What a step of one connection leaves of the others.                     *)
LEMMA OneInTurn ==
  ASSUME Undisturbed, SmallMessages, NEW c \in Conns, InTurn(c)',
         \A d \in Conns \ {c} :
           /\ Untouched(d) /\ m_strMsgContent'[d] = m_strMsgContent[d]
           /\ alone'[d] = alone[d] \/ UsesPath(c)
  PROVE  CourierInv'
<1>1. ASSUME NEW d \in Conns \ {c} PROVE InTurn(d)'
  <2>1. /\ InTurn(d) /\ Untouched(d) /\ m_strMsgContent'[d] = m_strMsgContent[d]
        /\ alone'[d] = alone[d] \/ UsesPath(c)
    BY DEF Undisturbed, CourierInv
  <2>2. Coming(d)' = Coming(d)
    BY <2>1 DEF Untouched, Coming, Stream, Due
  <2>3. CASE alone'[d] = alone[d]
    BY <2>1, <2>2, <2>3 DEF InTurn, Untouched
  <2>4. CASE UsesPath(c)
    <3>1. ~ UsesPath(d)
      BY <2>4 DEF Undisturbed, OnePathUser
    <3>2. chunk[d] = <<>> /\ ~ (Coming(d).num > 1)
      BY <3>1, NoPathNoChunk
    <3> QED BY <2>1, <2>2, <3>2 DEF InTurn, Untouched
  <2> QED BY <2>1, <2>3, <2>4
<1> QED BY <1>1 DEF CourierInv

(* What Undisturbed says of one connection.                                *)
LEMMA UndisturbedConn ==
  ASSUME Undisturbed, NEW c \in Conns
  PROVE  /\ StreamIntact(c) /\ ChunkIntact(chunk[c], Coming(c), c, sent[c])
         /\ alone[c] => FileFits(file, chunk[c], Coming(c), c, sent[c], missed[c])
         /\ InTurn(c) /\ sent[c] \in Seq(Items) /\ executed[c] \in Seq(Dones)
         /\ Len(sent[c]) \in Nat /\ Len(executed[c]) \in Nat
         /\ Len(executed[c]) <= Len(sent[c])
<1>1. /\ StreamIntact(c) /\ ChunkIntact(chunk[c], Coming(c), c, sent[c]) /\ InTurn(c)
      /\ alone[c] => FileFits(file, chunk[c], Coming(c), c, sent[c], missed[c])
  BY DEF Undisturbed, DeliveryInv, ConnIntact, NeverCut, CourierInv
<1>2. /\ sent[c] \in Seq(Items) /\ executed[c] \in Seq(Dones)
      /\ \A k \in 1 .. Len(executed[c]) : executed[c][k].id <= Len(sent[c])
  BY ConnTypes DEF Undisturbed, Fits, DoneFits
<1>3. Len(sent[c]) \in Nat /\ Len(executed[c]) \in Nat
  BY <1>2
<1>4. Len(executed[c]) <= Len(sent[c])
  <2>1. CASE Len(executed[c]) = 0
    BY <1>3, <2>1
  <2>2. CASE Len(executed[c]) # 0
    <3>1. Len(executed[c]) \in 1 .. Len(executed[c])
      BY <1>3, <2>2
    <3> QED BY <1>1, <1>2, <3>1 DEF InTurn
  <2> QED BY <2>1, <2>2
<1> QED BY <1>1, <1>2, <1>3, <1>4

LEMMA InTurnSend ==
  ASSUME Undisturbed, SmallMessages, NEW c \in Conns, NEW kind \in {"msg", "file"},
         NEW size \in MsgSizes \cup FileSizes, Send(c, kind, size)
  PROVE  CourierInv'
<1> DEFINE x == [kind |-> kind, size |-> size]
<1>1. /\ x \in Items /\ sent'[c] = Append(sent[c], x) /\ Coming(c)' = Coming(c)
      /\ \A d \in Conns \ {c} : sent'[d] = sent[d] /\ sending'[d] = sending[d]
      /\ UNCHANGED <<wire, m_strData, m_strMsgContent, chunk, alone, missed, executed>>
  BY DueBegun DEF Undisturbed
<1> HIDE DEF x
<1>2. \A k \in 1 .. Len(executed[c]) : sent'[c][k] = sent[c][k]
  <2>1. /\ sent[c] \in Seq(Items) /\ Len(sent[c]) \in Nat /\ Len(executed[c]) \in Nat
        /\ Len(executed[c]) <= Len(sent[c])
    BY UndisturbedConn
  <2>2. \A k \in 1 .. Len(sent[c]) : sent'[c][k] = sent[c][k]
    BY <1>1, <2>1
  <2> QED BY <2>1, <2>2
<1>3. InTurn(c)'
  <2>1. InTurn(c)
    BY UndisturbedConn
  <2>2. \A k \in 1 .. Len(executed[c]) :
          Beginning(c, sent'[c], k, PackageCount(sent'[c][k].size))
            = Beginning(c, sent[c], k, PackageCount(sent[c][k].size))
    BY <1>2 DEF Beginning, TokenOf
  <2> QED BY <1>1, <1>2, <2>1, <2>2, ZenonT(30) DEF InTurn
<1>4. \A d \in Conns \ {c} :
        Untouched(d) /\ m_strMsgContent'[d] = m_strMsgContent[d] /\ alone'[d] = alone[d]
  BY <1>1 DEF Untouched
<1> QED BY <1>3, <1>4, OneInTurn

LEMMA InTurnStream ==
  ASSUME Undisturbed, NeverCut', SmallMessages, NEW c \in Conns,
         SendPackage(c) \/ SendBeat(c) \/ Receive(c)
  PROVE  CourierInv'
<1>1. /\ UNCHANGED <<sent, chunk, file, alone, executed, m_strMsgContent>>
      /\ sending \in [Conns -> Nat]
      /\ wire \in [Conns -> Seq(Tokens)] /\ m_strData \in [Conns -> Seq(Tokens)]
  BY DEF SendPackage, SendBeat, Receive, sendVars, recvVars, Undisturbed, WireInv, TypeOK
<1>2. /\ \A d \in Conns \ {c} : sending'[d] = sending[d]
      /\ \A d \in Conns \ {c} : wire'[d] = wire[d] /\ m_strData'[d] = m_strData[d]
  <2>1. CASE SendPackage(c)
    BY <1>1, <2>1 DEF SendPackage, recvVars
  <2>2. CASE SendBeat(c)
    BY <1>1, <2>2 DEF SendBeat, recvVars
  <2>3. CASE Receive(c)
    BY <1>1, <2>3 DEF Receive, sendVars
  <2> QED BY <2>1, <2>2, <2>3
<1>3. Coming(c)' = Coming(c)
  <2>1. StreamIntact(c) /\ ~ cut'[c] /\ WireInv
    BY UndisturbedConn DEF NeverCut, Undisturbed
  <2> QED BY <2>1, PackageSent, BeatSent, StreamReceived
<1>4. InTurn(c)'
  BY <1>1, <1>3, UndisturbedConn DEF InTurn
<1>5. \A d \in Conns \ {c} :
        Untouched(d) /\ m_strMsgContent'[d] = m_strMsgContent[d] /\ alone'[d] = alone[d]
  BY <1>1, <1>2 DEF Untouched
<1> QED BY <1>4, <1>5, OneInTurn

(* One more is executed.                                                   *)
LEMMA InTurnExecuted ==
  ASSUME Undisturbed, NEW c \in Conns, NEW e \in Dones, NEW id \in 1 .. Len(sent[c]),
         id = Len(executed[c]) + 1,
         e.id = id, e.kind = sent[c][id].kind,
         e.content = Beginning(c, sent[c], id, PackageCount(sent[c][id].size)),
         sent'[c] = sent[c], executed'[c] = Append(executed[c], e),
         m_strMsgContent'[c] = <<>>, chunk'[c] = <<>>,
         Coming(c)'.id = id + 1, Coming(c)'.num = 1
  PROVE  InTurn(c)'
<1>1. executed[c] \in Seq(Dones) /\ Len(executed[c]) \in Nat
  BY UndisturbedConn
<1>2. /\ Len(executed'[c]) = id /\ executed'[c][id] = e
      /\ \A k \in 1 .. Len(executed[c]) : executed'[c][k] = executed[c][k]
  BY <1>1
<1>3. ASSUME NEW k \in 1 .. Len(executed'[c])
      PROVE  /\ executed'[c][k].id = k /\ executed'[c][k].kind = sent[c][k].kind
             /\ executed'[c][k].content
                  = Beginning(c, sent[c], k, PackageCount(sent[c][k].size))
  <2>1. k \in 1 .. Len(executed[c]) \/ k = id
    BY <1>1, <1>2
  <2>2. CASE k \in 1 .. Len(executed[c])
    BY <1>2, <2>2, UndisturbedConn DEF InTurn
  <2>3. CASE k = id
    BY <1>2, <2>3
  <2> QED BY <2>1, <2>2, <2>3
<1>4. Coming(c)'.id = Len(executed'[c]) + 1 /\ ~ (Coming(c)'.num > 1)
  BY <1>2
<1> QED BY <1>3, <1>4 DEF InTurn

LEMMA BeginningOne ==
  ASSUME NEW c \in Conns, NEW items \in Seq(Items), NEW id \in 1 .. Len(items)
  PROVE  Beginning(c, items, id, 1) = <<TokenOf("content", c, items, id, 1)>>
<1> DEFINE token == TokenOf("content", c, items, id, 1)
<1>1. Append(Beginning(c, items, id, 0), token) = Beginning(c, items, id, 1)
  <2>1. 1 \in Nat \ {0} /\ 1 - 1 = 0
    OBVIOUS
  <2>2. Append(Beginning(c, items, id, 1 - 1), token) = Beginning(c, items, id, 1)
    BY <2>1, BeginningGrows
  <2> QED BY <2>1, <2>2
<1>2. Append(<<>>, token) = <<token>>
  <2> HIDE DEF token
  <2> QED OBVIOUS
<1> QED BY <1>1, <1>2, BeginningNone

LEMMA InTurnProcessMsg ==
  ASSUME Undisturbed, SmallMessages, NEW c \in Conns, ProcessMsg(c)
  PROVE  CourierInv'
<1> DEFINE x == NextHead(c)
           content == m_strMsgContent[c] \o ContentOf(m_strData[c])
           e == [kind |-> x.kind, id |-> x.id, content |-> content, alone |-> TRUE,
                 missed |-> FALSE]
<1>1. /\ chunk[c] = <<>> /\ HasPackage(m_strData[c]) /\ x.kind = "msg"
      /\ m_strData' = [m_strData EXCEPT ![c] = Rest(@)]
      /\ UNCHANGED <<sent, sending, cut, wire, chunk, file, alone, missed>>
  BY DEF ProcessMsg, Taking, sendVars
<1>2. /\ WireInv /\ WireInv' /\ InTurn(c)
      /\ sent[c] \in Seq(Items) /\ StreamIntact(c)
  <2>1. WireInv
    BY DEF Undisturbed
  <2> QED BY <2>1, UndisturbedConn, KeepsProcessMsg
<1>3. /\ WholeHead(x, c, sent[c])
      /\ ContentOf(m_strData[c]) = <<TokenOf("content", c, sent[c], x.id, x.num)>>
      /\ Coming(c) = Place(x.id, x.num) /\ Follows(x, Coming(c)')
  BY <1>1, <1>2, PackageIsComing
<1>4. IF x.num < x.allnum
      THEN m_strMsgContent' = [m_strMsgContent EXCEPT ![c] = content] /\ executed' = executed
      ELSE /\ m_strMsgContent' = [m_strMsgContent EXCEPT ![c] = <<>>]
           /\ executed' = [executed EXCEPT ![c] = Append(@, e)]
  BY DEF ProcessMsg, Execute
<1>5. e.id = x.id /\ e.kind = x.kind /\ e.content = content
  OBVIOUS
<1> HIDE DEF x, e
<1>6. x.id \in 1 .. Len(sent[c]) /\ x.id = Len(executed[c]) + 1 /\ sent[c][x.id].kind = "msg"
  <2>1. x.id \in 1 .. Len(sent[c])
    BY <1>3 DEF WholeHead
  <2>2. x.id = Len(executed[c]) + 1
    BY <1>1, <1>2, <1>3 DEF InTurn, Place
  <2>3. x.kind = sent[c][x.id].kind
    <3>1. x = TokenOf("head", c, sent[c], x.id, x.num)
      BY <1>3 DEF WholeHead
    <3>2. TokenOf("head", c, sent[c], x.id, x.num).kind = sent[c][x.id].kind
      BY DEF TokenOf
    <3> QED BY <3>1, <3>2
  <2> QED BY <1>1, <2>1, <2>2, <2>3
<1>7. PackageCount(sent[c][x.id].size) = 1
  BY <1>6, OnePackage DEF Undisturbed
<1>8. x.num = 1 /\ ~ (x.num < x.allnum)
  <2>1. x.num \in Nat \ {0} /\ x.allnum = 1 /\ x.num <= x.allnum
    BY <1>3, <1>7 DEF WholeHead
  <2> QED BY <2>1
<1>9. content = Beginning(c, sent[c], x.id, 1)
  <2> DEFINE token == TokenOf("content", c, sent[c], x.id, 1)
  <2>1. token \in Tokens
    BY <1>2, <1>6, TokenTypes
  <2>2. Beginning(c, sent[c], x.id, 1) = <<token>> /\ ContentOf(m_strData[c]) = <<token>>
    BY <1>2, <1>3, <1>6, <1>8, BeginningOne
  <2>3. m_strMsgContent[c] = <<>>
    BY <1>2 DEF InTurn
  <2> HIDE DEF token
  <2>4. <<>> \o <<token>> = <<token>>
    <3>1. <<token>> \in Seq(Tokens)
      BY <2>1
    <3> QED BY <3>1, ConcatEmptySeq
  <2> QED BY <2>2, <2>3, <2>4
<1> HIDE DEF content
<1>10. executed'[c] = Append(executed[c], e) /\ m_strMsgContent'[c] = <<>>
  <2>1. executed \in [Conns -> Seq(Dones)] /\ m_strMsgContent \in [Conns -> Seq(Tokens)]
    BY <1>2 DEF WireInv, TypeOK, Dones
  <2> QED BY <1>4, <1>8, <2>1
<1>11. Coming(c)'.id = x.id + 1 /\ Coming(c)'.num = 1
  BY <1>1, <1>3 DEF Follows, Place
<1>12. e \in Dones
  <2>1. executed'[c] \in Seq(Dones) /\ executed[c] \in Seq(Dones)
    BY <1>2 DEF WireInv, TypeOK, Dones
  <2>2. Len(executed[c]) \in Nat /\ Len(executed[c]) + 1 \in 1 .. Len(executed'[c])
    BY <1>10, <2>1
  <2>3. executed'[c][Len(executed[c]) + 1] = e
    BY <1>10, <2>1
  <2>4. executed'[c][Len(executed[c]) + 1] \in Dones
    BY <2>1, <2>2
  <2> QED BY <2>3, <2>4
<1>13. InTurn(c)'
  <2>1. sent'[c] = sent[c] /\ chunk'[c] = <<>>
    BY <1>1
  <2>2. e.id = x.id /\ e.kind = sent[c][x.id].kind
        /\ e.content = Beginning(c, sent[c], x.id, PackageCount(sent[c][x.id].size))
    BY <1>1, <1>5, <1>6, <1>7, <1>9
  <2> QED BY <1>6, <1>10, <1>11, <1>12, <2>1, <2>2, InTurnExecuted
<1>14. \A d \in Conns \ {c} :
         Untouched(d) /\ m_strMsgContent'[d] = m_strMsgContent[d] /\ alone'[d] = alone[d]
  <2>1. \A d \in Conns \ {c} :
          /\ m_strData'[d] = m_strData[d] /\ executed'[d] = executed[d]
          /\ m_strMsgContent'[d] = m_strMsgContent[d]
    BY <1>1, <1>2, <1>4, <1>8 DEF WireInv, TypeOK
  <2> QED BY <1>1, <2>1 DEF Untouched
<1> QED BY <1>13, <1>14, OneInTurn

LEMMA InTurnProcessFile ==
  ASSUME Undisturbed, SmallMessages, NEW c \in Conns, ProcessFile(c)
  PROVE  CourierInv'
<1> DEFINE x == NextHead(c)
           content == ContentOf(m_strData[c])
           token == TokenOf("content", c, sent[c], x.id, x.num)
<1>1. /\ chunk[c] = <<>> /\ HasPackage(m_strData[c]) /\ x.kind = "file"
      /\ m_strData' = [m_strData EXCEPT ![c] = Rest(@)]
      /\ UNCHANGED <<sent, sending, cut, wire, executed, m_strMsgContent>>
  BY DEF ProcessFile, Taking, sendVars
<1>2. WireInv /\ InTurn(c) /\ StreamIntact(c)
  BY UndisturbedConn DEF Undisturbed
<1>3. /\ WholeHead(x, c, sent[c]) /\ content = <<token>> /\ Coming(c) = Place(x.id, x.num)
  BY <1>1, <1>2, PackageIsComing
<1>4. token.t = "content" /\ token.kind = "file" /\ sent[c][x.id].kind = "file"
  <2>1. x = TokenOf("head", c, sent[c], x.id, x.num)
    BY <1>3 DEF WholeHead
  <2>2. TokenOf("head", c, sent[c], x.id, x.num).kind = sent[c][x.id].kind
    BY DEF TokenOf
  <2>3. x.kind = sent[c][x.id].kind
    BY <2>1, <2>2
  <2>4. token.t = "content" /\ token.kind = sent[c][x.id].kind
    BY DEF TokenOf
  <2> QED BY <1>1, <2>3, <2>4
<1>5. UsesPath(c)
  BY <1>3, <1>4 DEF UsesPath, WholeHead
<1>6. chunk' = [chunk EXCEPT ![c] = <<x, content[1]>>] /\ Use(c, x.num = 1)
  <2> HIDE DEF token
  <2>1. content # <<>> /\ content[1].t = "content" /\ content[1].kind = "file"
    <3>1. content = <<token>>
      BY <1>3
    <3> HIDE DEF content
    <3> QED BY <1>4, <3>1
  <2> QED BY <2>1 DEF ProcessFile
<1> HIDE DEF x, content, token
<1>7. /\ chunk'[c] # <<>> /\ chunk'[c][1] = x /\ (alone'[c] <=> x.num = 1 \/ alone[c])
      /\ \A d \in Conns \ {c} : chunk'[d] = chunk[d] /\ m_strData'[d] = m_strData[d]
  <2>1. chunk \in [Conns -> Held] /\ m_strData \in [Conns -> Seq(Tokens)]
    BY <1>2 DEF WireInv, TypeOK, Held
  <2>2. chunk'[c] = <<x, content[1]>> /\ \A d \in Conns \ {c} : chunk'[d] = chunk[d]
    BY <1>6, <2>1
  <2>3. <<x, content[1]>> # <<>> /\ <<x, content[1]>>[1] = x
    OBVIOUS
  <2>4. chunk'[c] # <<>> /\ chunk'[c][1] = x
    BY <2>2, <2>3, Zenon
  <2>5. alone'[c] <=> x.num = 1 \/ alone[c]
    BY <1>6 DEF Use
  <2>6. \A d \in Conns \ {c} : m_strData'[d] = m_strData[d]
    BY <1>1, <2>1
  <2> QED BY <2>2, <2>4, <2>5, <2>6
<1>8. x.id = Len(executed[c]) + 1 /\ (x.num = 1 \/ alone[c])
  <2>1. Coming(c).id = Len(executed[c]) + 1 /\ (Coming(c).num > 1 => alone[c])
    BY <1>1, <1>2 DEF InTurn
  <2>2. x.num \in Nat \ {0}
    BY <1>3 DEF WholeHead
  <2> QED BY <1>3, <2>1, <2>2 DEF Place
<1>9. InTurn(c)'
  BY <1>1, <1>2, <1>7, <1>8 DEF InTurn
<1>10. \A d \in Conns \ {c} :
         Untouched(d) /\ m_strMsgContent'[d] = m_strMsgContent[d]
  BY <1>1, <1>7 DEF Untouched
<1> QED BY <1>5, <1>9, <1>10, OneInTurn

LEMMA InTurnWriteChunk ==
  ASSUME Undisturbed, SmallMessages, NEW c \in Conns, WriteChunk(c)
  PROVE  CourierInv'
<1> DEFINE x == chunk[c][1]
           e == [kind |-> x.kind, id |-> x.id, content |-> file', alone |-> alone[c],
                 missed |-> missed[c]]
<1>1. /\ chunk[c] # <<>> /\ file' = Append(file, chunk[c][2])
      /\ chunk' = [chunk EXCEPT ![c] = <<>>] /\ Use(c, FALSE)
      /\ UNCHANGED <<sent, sending, cut, wire, m_strData, m_strMsgContent>>
  BY DEF WriteChunk, sendVars
<1>2. IF x.num < x.allnum THEN executed' = executed
      ELSE executed' = [executed EXCEPT ![c] = Append(@, e)]
  BY DEF WriteChunk, Execute
<1>3. /\ WireInv /\ WireInv' /\ InTurn(c) /\ sent[c] \in Seq(Items)
      /\ ChunkIntact(chunk[c], Coming(c), c, sent[c])
      /\ alone[c] => FileFits(file, chunk[c], Coming(c), c, sent[c], missed[c])
  <2>1. WireInv
    BY DEF Undisturbed
  <2> QED BY <2>1, UndisturbedConn, KeepsWriteChunk
<1>4. /\ WholeHead(x, c, sent[c]) /\ x.kind = "file" /\ Follows(x, Coming(c))
      /\ chunk[c][2] = TokenOf("content", c, sent[c], x.id, x.num)
  BY <1>1, <1>3, ChunkHead
<1>5. x.id = Len(executed[c]) + 1 /\ alone[c]
  BY <1>1, <1>3 DEF InTurn
<1>6. file = Beginning(c, sent[c], x.id, x.num - 1)
  BY <1>1, <1>3, <1>5 DEF FileFits, Kept, Undisturbed, NeverMissed
<1>7. e.id = x.id /\ e.kind = x.kind /\ e.content = file'
  OBVIOUS
<1> HIDE DEF x, e
<1>8. x.id \in 1 .. Len(sent[c]) /\ x.num \in Nat \ {0} /\ x.num <= x.allnum
      /\ x.allnum = PackageCount(sent[c][x.id].size) /\ x.allnum \in Nat
  BY <1>4 DEF WholeHead, Tokens
<1>9. file' = Beginning(c, sent[c], x.id, x.num)
  BY <1>1, <1>3, <1>4, <1>6, <1>8, BeginningGrows
<1>10. sent[c][x.id].kind = "file" /\ UsesPath(c)
  <2>1. x = TokenOf("head", c, sent[c], x.id, x.num)
    BY <1>4 DEF WholeHead
  <2>2. TokenOf("head", c, sent[c], x.id, x.num).kind = sent[c][x.id].kind
    BY DEF TokenOf
  <2> QED BY <1>4, <1>8, <2>1, <2>2 DEF UsesPath
<1>11. /\ chunk'[c] = <<>> /\ alone'[c] = alone[c] /\ Coming(c)' = Coming(c)
       /\ \A d \in Conns \ {c} : chunk'[d] = chunk[d]
  <2>1. chunk \in [Conns -> Held] /\ alone \in [Conns -> BOOLEAN]
    BY <1>3 DEF WireInv, TypeOK, Held
  <2>2. alone'[c] = alone[c]
    BY <1>1, <2>1 DEF Use
  <2>3. Coming(c)' = Coming(c)
    BY <1>1 DEF Coming, Stream, Due
  <2> QED BY <1>1, <2>1, <2>2, <2>3
<1>12. InTurn(c)'
  <2>1. CASE x.num < x.allnum
    <3>1. Coming(c).id = x.id
      BY <1>4, <2>1 DEF Follows, Place
    <3>2. executed' = executed
      BY <1>2, <2>1
    <3> QED BY <1>1, <1>3, <1>5, <1>11, <3>1, <3>2 DEF InTurn
  <2>2. CASE ~ (x.num < x.allnum)
    <3>1. x.num = PackageCount(sent[c][x.id].size)
      BY <1>8, <2>2
    <3>2. Coming(c)'.id = x.id + 1 /\ Coming(c)'.num = 1
      BY <1>4, <1>11, <2>2 DEF Follows, Place
    <3>3. executed \in [Conns -> Seq(Dones)] /\ executed' \in [Conns -> Seq(Dones)]
      BY <1>3 DEF WireInv, TypeOK, Dones
    <3>4. executed'[c] = Append(executed[c], e)
      BY <1>2, <2>2, <3>3
    <3>5. e \in Dones
      <4>1. executed'[c] \in Seq(Dones) /\ executed[c] \in Seq(Dones)
        BY <3>3
      <4>2. Len(executed[c]) \in Nat /\ Len(executed[c]) + 1 \in 1 .. Len(executed'[c])
        BY <3>4, <4>1
      <4>3. executed'[c][Len(executed[c]) + 1] = e
        BY <3>4, <4>1
      <4>4. executed'[c][Len(executed[c]) + 1] \in Dones
        BY <4>1, <4>2
      <4> QED BY <4>3, <4>4
    <3>6. /\ sent'[c] = sent[c] /\ m_strMsgContent'[c] = <<>> /\ chunk'[c] = <<>>
      BY <1>1, <1>3, <1>11 DEF InTurn
    <3>7. /\ e.id = x.id /\ e.kind = sent[c][x.id].kind
          /\ e.content = Beginning(c, sent[c], x.id, PackageCount(sent[c][x.id].size))
      BY <1>4, <1>7, <1>9, <1>10, <3>1
    <3> QED BY <1>5, <1>8, <3>2, <3>4, <3>5, <3>6, <3>7, InTurnExecuted
  <2> QED BY <2>1, <2>2
<1>13. \A d \in Conns \ {c} :
         Untouched(d) /\ m_strMsgContent'[d] = m_strMsgContent[d]
  <2>1. \A d \in Conns \ {c} : executed'[d] = executed[d]
    BY <1>2, <1>3 DEF WireInv, TypeOK
  <2> QED BY <1>1, <1>11, <2>1 DEF Untouched
<1> QED BY <1>10, <1>12, <1>13, OneInTurn

LEMMA NextCourier ==
  ASSUME Undisturbed, NeverCut', SmallMessages, ~ OpenFails, [Next]_vars
  PROVE  CourierInv'
<1>1. CASE UNCHANGED vars
  BY <1>1 DEF vars, Undisturbed, CourierInv, InTurn, Coming, Stream, Due
<1>2. ASSUME NEW c \in Conns, SendMsgTo(c) \/ SendFileTo(c) PROVE CourierInv'
  BY <1>2, InTurnSend DEF SendMsgTo, SendFileTo
<1>3. ASSUME NEW c \in Conns, ProcessEnd(c) PROVE CourierInv'
  <2>1. UNCHANGED <<sent, sending, wire, m_strData, m_strMsgContent, chunk, file, alone,
                    executed>>
    BY <1>3 DEF ProcessEnd, sendVars
  <2> QED BY <2>1 DEF Undisturbed, CourierInv, InTurn, Coming, Stream, Due
<1>4. ASSUME NEW c \in Conns, Process(c) PROVE CourierInv'
  BY <1>3, <1>4, InTurnProcessMsg, InTurnProcessFile, InTurnWriteChunk
     DEF Process, OpenFailed
<1>5. CASE Quiet
  BY <1>1, <1>5 DEF Quiet
<1> QED BY <1>1, <1>2, <1>4, <1>5, InTurnStream DEF Next

(* What was handed over, and the beginning of it that was delivered.       *)
HandedOf(items) == [id \in DOMAIN items |-> <<items[id].kind, id, TRUE>>]

FirstOf(f, n) == [k \in 1 .. n |-> f[k]]

HandedBar == [c \in Conns |-> HandedOf(sent[c])]

DeliveredBar ==
  [c \in Conns |->
    [k \in DOMAIN executed[c] |->
      LET e == executed[c][k] IN <<e.kind, e.id, e.content = Whole(c, e.id)>>]]

Handable == {"msg", "file"} \X Nat \X {TRUE}

LEMMA FirstGrows ==
  ASSUME NEW S, NEW f \in Seq(S), NEW n \in Nat, n < Len(f)
  PROVE  FirstOf(f, n + 1) = Append(FirstOf(f, n), f[n + 1]) /\ Len(FirstOf(f, n)) = n
<1>1. Len(f) \in Nat /\ \A k \in 1 .. n + 1 : k \in 1 .. Len(f) /\ f[k] \in S
  OBVIOUS
<1>2. PICK g \in Seq(S) :
        g = FirstOf(f, n) /\ Len(g) = n /\ \A k \in 1 .. n : g[k] = f[k]
  <2>1. FirstOf(f, n) \in Seq(S) /\ Len(FirstOf(f, n)) = n
    BY <1>1 DEF FirstOf
  <2> QED BY <2>1 DEF FirstOf
<1>3. PICK h \in Seq(S) :
        h = FirstOf(f, n + 1) /\ Len(h) = n + 1 /\ \A k \in 1 .. n + 1 : h[k] = f[k]
  <2>1. FirstOf(f, n + 1) \in Seq(S) /\ Len(FirstOf(f, n + 1)) = n + 1
    BY <1>1 DEF FirstOf
  <2> QED BY <2>1 DEF FirstOf
<1>4. n + 1 \in 1 .. n + 1 /\ f[n + 1] \in S
  BY <1>1
<1>5. PICK a \in Seq(S) :
        /\ a = Append(g, f[n + 1]) /\ Len(a) = n + 1 /\ a[n + 1] = f[n + 1]
        /\ \A k \in 1 .. n : a[k] = f[k]
  <2> DEFINE y == f[n + 1]
  <2>1. y \in S
    BY <1>4
  <2> HIDE DEF y
  <2>2. /\ Append(g, y) \in Seq(S) /\ Len(Append(g, y)) = Len(g) + 1
        /\ \A i \in 1 .. Len(g) : Append(g, y)[i] = g[i]
        /\ Append(g, y)[Len(g) + 1] = y
    BY <1>2, <2>1, AppendProperties
  <2> QED BY <1>2, <2>2 DEF y
<1>6. \A k \in 1 .. n + 1 : h[k] = a[k]
  <2>1. \A k \in 1 .. n + 1 : k \in 1 .. n \/ k = n + 1
    OBVIOUS
  <2> QED BY <1>3, <1>5, <2>1
<1>7. h = a
  BY <1>3, <1>5, <1>6, SeqEqual
<1> QED BY <1>2, <1>3, <1>5, <1>7

LEMMA HandedTypes ==
  ASSUME NEW items \in Seq(Items)
  PROVE  /\ HandedOf(items) \in Seq(Handable) /\ Len(HandedOf(items)) = Len(items)
         /\ \A k \in 1 .. Len(items) : HandedOf(items)[k] = <<items[k].kind, k, TRUE>>
<1>1. Len(items) \in Nat /\ DOMAIN items = 1 .. Len(items)
  OBVIOUS
<1>2. \A k \in 1 .. Len(items) : <<items[k].kind, k, TRUE>> \in Handable
  <2>1. \A k \in 1 .. Len(items) : items[k] \in Items
    OBVIOUS
  <2>2. \A k \in 1 .. Len(items) : items[k].kind \in {"msg", "file"} /\ k \in Nat
    BY <2>1 DEF Items
  <2>3. ASSUME NEW k \in 1 .. Len(items) PROVE <<items[k].kind, k, TRUE>> \in Handable
    BY <2>2 DEF Handable
  <2> QED BY <2>3
<1>3. HandedOf(items) = [k \in 1 .. Len(items) |-> <<items[k].kind, k, TRUE>>]
  BY <1>1 DEF HandedOf
<1>4. HandedOf(items) \in [1 .. Len(items) -> Handable]
  BY <1>2, <1>3
<1>5. HandedOf(items) \in Seq(Handable) /\ Len(HandedOf(items)) = Len(items)
  BY <1>1, <1>4
<1> QED BY <1>3, <1>5

LEMMA HandedGrows ==
  ASSUME NEW items \in Seq(Items), NEW x \in Items
  PROVE  HandedOf(Append(items, x))
           = Append(HandedOf(items), <<x.kind, Len(items) + 1, TRUE>>)
<1>1. PICK more \in Seq(Items) :
        /\ more = Append(items, x) /\ Len(more) = Len(items) + 1 /\ Len(items) \in Nat
        /\ more[Len(items) + 1] = x /\ \A k \in 1 .. Len(items) : more[k] = items[k]
  <2>1. /\ Append(items, x) \in Seq(Items) /\ Len(Append(items, x)) = Len(items) + 1
        /\ \A i \in 1 .. Len(items) : Append(items, x)[i] = items[i]
        /\ Append(items, x)[Len(items) + 1] = x
    BY AppendProperties
  <2>2. Len(items) \in Nat
    OBVIOUS
  <2> QED BY <2>1, <2>2
<1> DEFINE n == Len(items)
           f == HandedOf(more)
           g == HandedOf(items)
<1>2. /\ f \in Seq(Handable) /\ Len(f) = n + 1
      /\ \A k \in 1 .. n + 1 : f[k] = <<more[k].kind, k, TRUE>>
  BY <1>1, HandedTypes
<1>3. /\ g \in Seq(Handable) /\ Len(g) = n
      /\ \A k \in 1 .. n : g[k] = <<items[k].kind, k, TRUE>>
  BY HandedTypes
<1> HIDE DEF f, g, n
<1>4. /\ n \in Nat /\ Len(more) = n + 1 /\ more[n + 1] = x
      /\ \A k \in 1 .. n : more[k] = items[k]
  BY <1>1 DEF n
<1>5. FirstOf(f, n) = g
  <2>1. PICK h \in Seq(Handable) :
          h = FirstOf(f, n) /\ Len(h) = n /\ \A k \in 1 .. n : h[k] = f[k]
    <3>1. FirstOf(f, n) \in Seq(Handable) /\ Len(FirstOf(f, n)) = n
      BY <1>2, <1>4 DEF FirstOf
    <3> QED BY <3>1 DEF FirstOf
  <2>2. ASSUME NEW k \in 1 .. n PROVE h[k] = g[k]
    <3>1. k \in 1 .. n + 1
      BY <1>4
    <3>2. h[k] = <<more[k].kind, k, TRUE>> /\ more[k] = items[k]
      BY <1>2, <1>4, <2>1, <3>1
    <3> QED BY <1>3, <3>2
  <2>3. h = g
    BY <1>3, <2>1, <2>2, SeqEqual
  <2> QED BY <2>1, <2>3
<1>6. FirstOf(f, n + 1) = f
  <2>1. PICK h \in Seq(Handable) :
          h = FirstOf(f, n + 1) /\ Len(h) = n + 1 /\ \A k \in 1 .. n + 1 : h[k] = f[k]
    <3>1. FirstOf(f, n + 1) \in Seq(Handable) /\ Len(FirstOf(f, n + 1)) = n + 1
      BY <1>2, <1>4 DEF FirstOf
    <3> QED BY <3>1 DEF FirstOf
  <2>2. h = f
    BY <1>2, <2>1, SeqEqual
  <2> QED BY <2>1, <2>2
<1>7. FirstOf(f, n + 1) = Append(FirstOf(f, n), f[n + 1])
  BY <1>2, <1>4, FirstGrows
<1>8. f[n + 1] = <<x.kind, n + 1, TRUE>>
  <2>1. n + 1 \in 1 .. n + 1
    BY <1>4
  <2>2. f[n + 1] = <<more[n + 1].kind, n + 1, TRUE>>
    BY <1>2, <2>1
  <2> QED BY <1>4, <2>2
<1> QED BY <1>1, <1>5, <1>6, <1>7, <1>8 DEF f, g, n

(* Undisturbed, the beginning of what was handed over is delivered.        *)
LEMMA DeliveredIsFirst ==
  ASSUME Undisturbed
  PROVE  DeliveredBar = [c \in Conns |-> FirstOf(HandedOf(sent[c]), Len(executed[c]))]
<1> SUFFICES ASSUME NEW c \in Conns
             PROVE  DeliveredBar[c] = FirstOf(HandedOf(sent[c]), Len(executed[c]))
  BY DEF DeliveredBar
<1> DEFINE n == Len(executed[c])
           D(k) == LET e == executed[c][k] IN <<e.kind, e.id, e.content = Whole(c, e.id)>>
<1>1. /\ sent[c] \in Seq(Items) /\ executed[c] \in Seq(Dones) /\ n \in Nat
      /\ Len(sent[c]) \in Nat /\ n <= Len(sent[c]) /\ InTurn(c)
  BY UndisturbedConn
<1>2. DeliveredBar[c] = [k \in 1 .. n |-> D(k)]
  <2>1. DOMAIN executed[c] = 1 .. n
    BY <1>1
  <2> QED BY <2>1 DEF DeliveredBar
<1>3. ASSUME NEW k \in 1 .. n PROVE D(k) = HandedOf(sent[c])[k]
  <2>1. /\ executed[c][k].id = k /\ executed[c][k].kind = sent[c][k].kind
        /\ executed[c][k].content = Beginning(c, sent[c], k, PackageCount(sent[c][k].size))
    BY <1>1 DEF InTurn
  <2>2. Whole(c, k) = Beginning(c, sent[c], k, PackageCount(sent[c][k].size))
    BY DEF Whole, Beginning, Token, TokenOf
  <2>3. (executed[c][k].content = Whole(c, executed[c][k].id)) = TRUE
    BY <2>1, <2>2
  <2>4. D(k) = <<sent[c][k].kind, k, TRUE>>
    BY <2>1, <2>3
  <2>5. k \in 1 .. Len(sent[c])
    BY <1>1
  <2> QED BY <1>1, <2>4, <2>5, HandedTypes
<1> HIDE DEF D
<1> QED BY <1>2, <1>3 DEF FirstOf

LEMMA CourierStep ==
  ASSUME WireInv, [Next]_vars
  PROVE  \/ sent' = sent /\ executed' = executed
         \/ \E c \in Conns, x \in Items :
              /\ Len(sent[c]) < MaxSent[c]
              /\ sent' = [sent EXCEPT ![c] = Append(@, x)] /\ executed' = executed
         \/ \E c \in Conns : \E e :
              executed' = [executed EXCEPT ![c] = Append(@, e)] /\ sent' = sent
<1>1. ASSUME NEW c \in Conns, NEW kind \in {"msg", "file"},
             NEW size \in MsgSizes \cup FileSizes, Send(c, kind, size)
      PROVE  \E x \in Items :
               /\ Len(sent[c]) < MaxSent[c]
               /\ sent' = [sent EXCEPT ![c] = Append(@, x)] /\ executed' = executed
  <2> DEFINE x == [kind |-> kind, size |-> size]
  <2>1. x \in Items
    BY DEF Items
  <2>2. /\ Len(sent[c]) < MaxSent[c]
        /\ sent' = [sent EXCEPT ![c] = Append(@, x)] /\ executed' = executed
    BY <1>1 DEF Send, recvVars
  <2> QED BY <2>1, <2>2
<1>2. ASSUME NEW c \in Conns, SendMsgTo(c) \/ SendFileTo(c)
      PROVE  \E x \in Items :
               /\ Len(sent[c]) < MaxSent[c]
               /\ sent' = [sent EXCEPT ![c] = Append(@, x)] /\ executed' = executed
  BY <1>1, <1>2 DEF SendMsgTo, SendFileTo
<1>3. ASSUME NEW c \in Conns, ProcessMsg(c) \/ WriteChunk(c)
      PROVE  /\ sent' = sent
             /\ executed' = executed \/ \E e : executed' = [executed EXCEPT ![c] = Append(@, e)]
  BY <1>3 DEF ProcessMsg, WriteChunk, Execute, sendVars
<1>4. ASSUME \/ UNCHANGED vars \/ Quiet
             \/ \E c \in Conns : \/ SendPackage(c) \/ SendBeat(c) \/ Receive(c)
                                 \/ ProcessFile(c) \/ OpenFailed(c) \/ ProcessEnd(c)
      PROVE  sent' = sent /\ executed' = executed
  BY <1>4 DEF vars, Quiet, SendPackage, SendBeat, Receive, ProcessFile, OpenFailed,
     ProcessEnd, sendVars, recvVars
<1> QED BY <1>2, <1>3, <1>4 DEF Next, Process

LEMMA RefinesCourier ==
  ASSUME Undisturbed, Undisturbed', [Next]_vars
  PROVE  [C!CNext]_(C!courierVars)
<1>1. /\ DeliveredBar = [c \in Conns |-> FirstOf(HandedOf(sent[c]), Len(executed[c]))]
      /\ DeliveredBar' = [c \in Conns |-> FirstOf(HandedOf(sent'[c]), Len(executed'[c]))]
  <2>1. DeliveredBar = [c \in Conns |-> FirstOf(HandedOf(sent[c]), Len(executed[c]))]
    BY DeliveredIsFirst
  <2>2. (DeliveredBar = [c \in Conns |-> FirstOf(HandedOf(sent[c]), Len(executed[c]))])'
    BY DeliveredIsFirst, PTL
  <2> QED BY <2>1, <2>2
<1>2. /\ sent \in [Conns -> Seq(Items)] /\ executed \in [Conns -> Seq(Dones)]
      /\ sent' \in [Conns -> Seq(Items)]
  BY DEF Undisturbed, WireInv, TypeOK, Items, Dones
<1>3. CASE sent' = sent /\ executed' = executed
  <2>1. HandedBar' = HandedBar /\ DeliveredBar' = DeliveredBar
    BY <1>1, <1>3 DEF HandedBar
  <2>2. UNCHANGED C!courierVars
    BY <2>1 DEF C!courierVars, HandedBar, DeliveredBar, HandedOf
  <2> QED BY <2>2, Zenon
<1>4. ASSUME NEW c \in Conns, NEW x \in Items, Len(sent[c]) < MaxSent[c],
             sent' = [sent EXCEPT ![c] = Append(@, x)], executed' = executed
      PROVE  C!CNext
  <2>0. PICK item : item = <<x.kind, Len(sent[c]) + 1, TRUE>>
    BY Zenon
  <2>1. /\ sent'[c] = Append(sent[c], x) /\ sent[c] \in Seq(Items)
        /\ \A d \in Conns \ {c} : sent'[d] = sent[d]
    BY <1>2, <1>4
  <2>2. HandedOf(sent'[c]) = Append(HandedOf(sent[c]), item)
    BY <2>0, <2>1, HandedGrows
  <2>3. item \in {"msg", "file"} \X (UNION {1 .. MaxSent[d] : d \in Conns}) \X {TRUE}
    <3>1. Len(sent[c]) \in Nat /\ MaxSent[c] \in Nat
      BY <2>1, WireAssumption
    <3>2. Len(sent[c]) + 1 \in 1 .. MaxSent[c]
      BY <1>4, <3>1
    <3>3. x.kind \in {"msg", "file"}
      BY DEF Items
    <3> QED BY <2>0, <3>2, <3>3
  <2>4. HandedBar' = [HandedBar EXCEPT ![c] = Append(@, item)]
    BY <2>1, <2>2 DEF HandedBar
  <2>5. DeliveredBar' = DeliveredBar
    <3>1. FirstOf(HandedOf(sent'[c]), Len(executed[c])) = FirstOf(HandedOf(sent[c]), Len(executed[c]))
      <4>1. /\ Len(executed[c]) \in Nat /\ Len(sent[c]) \in Nat
            /\ Len(executed[c]) <= Len(sent[c])
        BY UndisturbedConn
      <4>2. \A k \in 1 .. Len(executed[c]) : HandedOf(sent'[c])[k] = HandedOf(sent[c])[k]
        <5> DEFINE f == HandedOf(sent[c])
        <5>1. f \in Seq(Handable) /\ Len(f) = Len(sent[c])
          BY <2>1, HandedTypes
        <5> HIDE DEF f
        <5>2. \A k \in 1 .. Len(f) : Append(f, item)[k] = f[k]
          BY <5>1
        <5> QED BY <2>2, <4>1, <5>1, <5>2 DEF f
      <4> QED BY <4>2 DEF FirstOf
    <3>2. \A d \in Conns :
            FirstOf(HandedOf(sent'[d]), Len(executed[d])) = FirstOf(HandedOf(sent[d]), Len(executed[d]))
      BY <2>1, <3>1
    <3> QED BY <1>1, <1>4, <3>2
  <2>6. C!Hand(c, item)
    BY <2>4, <2>5 DEF C!Hand, HandedBar, DeliveredBar, HandedOf
  <2> QED BY <2>3, <2>6, Zenon DEF C!CNext
<1>5. ASSUME NEW c \in Conns, NEW e, executed' = [executed EXCEPT ![c] = Append(@, e)],
             sent' = sent
      PROVE  C!CNext
  <2> DEFINE f == HandedOf(sent[c])
             n == Len(executed[c])
  <2>1. /\ executed'[c] = Append(executed[c], e) /\ executed[c] \in Seq(Dones)
        /\ \A d \in Conns \ {c} : executed'[d] = executed[d]
        /\ Len(executed'[c]) = n + 1 /\ n \in Nat
    BY <1>2, <1>5
  <2>2. n < Len(sent[c]) /\ Len(sent[c]) \in Nat
    <3>1. (Len(executed[c]) <= Len(sent[c]) /\ Len(sent[c]) \in Nat)'
      BY UndisturbedConn, PTL
    <3> QED BY <1>5, <2>1, <3>1
  <2>3. f \in Seq(Handable) /\ Len(f) = Len(sent[c])
    BY <1>2, HandedTypes
  <2> HIDE DEF f, n
  <2>4. FirstOf(f, n + 1) = Append(FirstOf(f, n), f[n + 1]) /\ Len(FirstOf(f, n)) = n
    BY <2>1, <2>2, <2>3, FirstGrows
  <2>5. DeliveredBar[c] = FirstOf(f, n) /\ HandedBar[c] = f
    BY <1>1 DEF HandedBar, f, n
  <2>6. DeliveredBar' = [DeliveredBar EXCEPT ![c] = Append(@, HandedBar[c][Len(@) + 1])]
    <3>1. DeliveredBar'[c] = Append(DeliveredBar[c], HandedBar[c][Len(DeliveredBar[c]) + 1])
      BY <1>1, <1>5, <2>1, <2>4, <2>5 DEF f
    <3>2. \A d \in Conns \ {c} : DeliveredBar'[d] = DeliveredBar[d]
      BY <1>1, <1>5, <2>1
    <3> QED BY <1>1, <3>1, <3>2
  <2>7. HandedBar' = HandedBar /\ Len(DeliveredBar[c]) < Len(HandedBar[c])
    BY <1>5, <2>2, <2>3, <2>4, <2>5, SMTT(40) DEF HandedBar
  <2>8. C!Deliver(c)
    BY <2>6, <2>7, Zenon DEF C!Deliver, HandedBar, DeliveredBar, HandedOf
  <2> QED BY <2>8 DEF C!CNext
<1> QED BY <1>3, <1>4, <1>5, CourierStep DEF Undisturbed

(* As long as no send() is cut or refused and one connection uses the      *)
(* upload path, sender and receiver (function.cpp:82-157, 175-375) are the *)
(* safety part of Courier: each message below PAGSIZE and each file is     *)
(* executed at most once, whole and in the order sent, none skipped, with  *)
(* any number of packages, heartbeats between them and any cuts in what    *)
(* the socket delivers.                                                    *)
THEOREM CourierImplemented ==
  ASSUME SmallMessages, ~ OpenFails
  PROVE  Spec /\ []NeverCut /\ []OnePathUser => C!CSafeSpec
<1>1. Init => SizesFit /\ CourierInv
  BY InitCourier
<1>2. WireInv /\ SizesFit /\ [Next]_vars => SizesFit'
  BY NextSizes
<1>3. Undisturbed /\ NeverCut' /\ [Next]_vars => CourierInv'
  BY NextCourier
<1>4. Undisturbed /\ Undisturbed' /\ [Next]_vars => [C!CNext]_(C!courierVars)
  BY RefinesCourier
<1>5. Init => C!CInit
  BY DEF Init, C!CInit
<1>6. Undisturbed <=>
        /\ WireInv /\ DeliveryInv /\ SizesFit /\ NeverCut /\ NeverMissed /\ OnePathUser
        /\ CourierInv
  BY DEF Undisturbed
<1>7. Init => NeverMissed
  BY DEF Init, NeverMissed
<1>8. WireInv /\ NeverMissed /\ [Next]_vars => NeverMissed'
  BY NextMissed
<1> QED BY <1>1, <1>2, <1>3, <1>4, <1>5, <1>6, <1>7, <1>8, WireInductive, DeliveryInductive, PTL
    DEF Spec, C!CSafeSpec
=============================================================================
