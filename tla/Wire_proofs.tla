------------------------------ MODULE Wire_proofs ------------------------------
(***************************************************************************)
(* Proofs about Wire.tla for any number of connections, any sizes and any  *)
(* socket buffer: types, and that nothing is executed twice or out of      *)
(* order.                                                                  *)
(***************************************************************************)
EXTENDS Wire, SequenceTheorems, WellFoundedInduction, TLAPS

(*                         Sequences and packages                          *)

LEMMA MinIsMember ==
  ASSUME NEW S \in SUBSET Nat, S # {}
  PROVE  Min(S) \in S /\ \A y \in S : Min(S) <= y
<1> DEFINE Less == {ss \in Nat \X Nat : ss[1] < ss[2]}
<1>1. IsWellFoundedOn(Less, Nat)
  BY NatLessThanWellFounded DEF OpToRel
<1>2. ASSUME NEW x \in Nat, NEW y \in Nat, y < x PROVE <<y, x>> \in Less
  BY <1>2
<1> HIDE DEF Less
<1>3. PICK x \in S : \A y \in S : ~ (<<y, x>> \in Less)
  BY <1>1, WFMin
<1>4. ASSUME NEW y \in S PROVE x <= y
  <2>1. x \in Nat /\ y \in Nat /\ ~ (<<y, x>> \in Less)
    BY <1>3
  <2>2. ~ (y < x)
    BY <1>2, <2>1
  <2> QED BY <2>1, <2>2
<1> QED BY <1>4 DEF Min

(* A package's head and tail are where GetPackage looks for them.          *)
LEMMA PackagePlaces ==
  ASSUME NEW S, NEW s \in Seq(S), HasPackage(s)
  PROVE  /\ HeadAt(s) \in 1 .. Len(s) /\ s[HeadAt(s)].t = "head"
         /\ TailAt(s) \in HeadAt(s) .. Len(s) /\ TailAt(s) # HeadAt(s)
<1>1. Len(s) \in Nat
  OBVIOUS
<1>2. HeadAt(s) \in At(s, "head", 1)
  <2>1. At(s, "head", 1) \in SUBSET Nat /\ At(s, "head", 1) # {}
    BY <1>1 DEF At, HasPackage
  <2> QED BY <2>1, MinIsMember DEF HeadAt
<1>3. HeadAt(s) \in 1 .. Len(s) /\ s[HeadAt(s)].t = "head"
  BY <1>2 DEF At
<1>4. TailAt(s) \in At(s, "tail", HeadAt(s))
  <2>1. At(s, "tail", HeadAt(s)) \in SUBSET Nat /\ At(s, "tail", HeadAt(s)) # {}
    BY <1>1, <1>3 DEF At, HasPackage
  <2> QED BY <2>1, MinIsMember DEF TailAt
<1>5. TailAt(s) \in HeadAt(s) .. Len(s) /\ s[TailAt(s)].t = "tail"
  BY <1>4 DEF At
<1> QED BY <1>3, <1>5

(* What Process leaves is the stream moved forward.                        *)
LEMMA SuffixPlaces ==
  ASSUME NEW S, NEW s \in Seq(S), NEW w \in Seq(S), NEW k \in 1 .. Len(s)
  PROVE  /\ SubSeq(s, k + 1, Len(s)) \in Seq(S)
         /\ Len(SubSeq(s, k + 1, Len(s)) \o w) = Len(s \o w) - k
         /\ \A i \in 1 .. Len(s \o w) - k :
              (SubSeq(s, k + 1, Len(s)) \o w)[i] = (s \o w)[i + k]
<1> DEFINE r == SubSeq(s, k + 1, Len(s))
<1>1. /\ Len(s) \in Nat /\ Len(w) \in Nat /\ \A i \in k + 1 .. Len(s) : s[i] \in S
  OBVIOUS
<1>2. /\ r \in Seq(S) /\ Len(r) = Len(s) - k
      /\ \A i \in 1 .. Len(s) - k : r[i] = s[i + k]
  <2>1. /\ r \in Seq(S) /\ Len(r) = (IF k + 1 <= Len(s) THEN Len(s) - (k + 1) + 1 ELSE 0)
        /\ \A i \in 1 .. Len(s) - (k + 1) + 1 : r[i] = s[(k + 1) + i - 1]
    BY <1>1, SubSeqProperties
  <2> QED BY <1>1, <2>1
<1> HIDE DEF r
<1>3. /\ Len(s \o w) = Len(s) + Len(w)
      /\ \A i \in 1 .. Len(s) + Len(w) :
           (s \o w)[i] = IF i <= Len(s) THEN s[i] ELSE w[i - Len(s)]
  BY ConcatProperties
<1>4. /\ Len(r \o w) = Len(r) + Len(w)
      /\ \A i \in 1 .. Len(r) + Len(w) :
           (r \o w)[i] = IF i <= Len(r) THEN r[i] ELSE w[i - Len(r)]
  BY <1>2, ConcatProperties
<1>5. ASSUME NEW i \in 1 .. Len(s \o w) - k PROVE (r \o w)[i] = (s \o w)[i + k]
  <2>1. i \in 1 .. Len(r) + Len(w) /\ i + k \in 1 .. Len(s) + Len(w)
    BY <1>1, <1>2, <1>3
  <2>2. CASE i <= Len(r)
    BY <1>1, <1>2, <1>3, <1>4, <2>1, <2>2
  <2>3. CASE ~ (i <= Len(r))
    <3>1. (r \o w)[i] = w[i - Len(r)] /\ (s \o w)[i + k] = w[(i + k) - Len(s)]
      BY <1>1, <1>2, <1>3, <1>4, <2>1, <2>3
    <3>2. (i + k) - Len(s) = i - Len(r)
      BY <1>1, <1>2
    <3> QED BY <3>1, <3>2
  <2> QED BY <2>2, <2>3
<1>6. Len(r \o w) = Len(s \o w) - k
  BY <1>1, <1>2, <1>3, <1>4
<1> QED BY <1>2, <1>5, <1>6 DEF r

(* A sequence cut in two is the same stream.                              *)
LEMMA CutInTwo ==
  ASSUME NEW S, NEW s \in Seq(S), NEW w \in Seq(S), NEW n \in 1 .. Len(w)
  PROVE  /\ SubSeq(w, n + 1, Len(w)) \in Seq(S)
         /\ s \o SubSeq(w, 1, n) \in Seq(S)
         /\ (s \o SubSeq(w, 1, n)) \o SubSeq(w, n + 1, Len(w)) = s \o w
<1>1. Len(w) \in Nat /\ n \in Nat /\ \A i \in 1 .. Len(w) : w[i] \in S
  OBVIOUS
<1>2. SubSeq(w, 1, n) \in Seq(S) /\ SubSeq(w, n + 1, Len(w)) \in Seq(S)
  <2>1. \A i \in 1 .. n : w[i] \in S
    BY <1>1
  <2>2. \A i \in n + 1 .. Len(w) : w[i] \in S
    BY <1>1
  <2>3. SubSeq(w, 1, n) \in Seq(S)
    BY <1>1, <2>1, SubSeqProperties
  <2>4. SubSeq(w, n + 1, Len(w)) \in Seq(S)
    BY <1>1, <2>2, SubSeqProperties, SMTT(30)
  <2> QED BY <2>3, <2>4
<1>3. SubSeq(w, 1, n) \o SubSeq(w, n + 1, Len(w)) = w
  <2>1. 1 \in 1 .. Len(w) + 1 /\ n \in 1 - 1 .. Len(w) /\ Len(w) \in n .. Len(w)
    BY <1>1
  <2>2. \A m \in 1 .. Len(w) + 1 : \A k \in m - 1 .. Len(w) : \A l \in k .. Len(w) :
          SubSeq(w, m, k) \o SubSeq(w, k + 1, l) = SubSeq(w, m, l)
    BY ConcatAdjacentSubSeq
  <2>3. SubSeq(w, 1, n) \o SubSeq(w, n + 1, Len(w)) = SubSeq(w, 1, Len(w))
    BY <2>1, <2>2
  <2>4. SubSeq(w, 1, Len(w)) = w
    BY SubSeqFull
  <2> QED BY <2>3, <2>4
<1>4. s \o SubSeq(w, 1, n) \in Seq(S)
  BY <1>2, ConcatProperties
<1>5. (s \o SubSeq(w, 1, n)) \o SubSeq(w, n + 1, Len(w))
        = s \o (SubSeq(w, 1, n) \o SubSeq(w, n + 1, Len(w)))
  <2>1. PICK a \in Seq(S) : a = SubSeq(w, 1, n)
    BY <1>2, Zenon
  <2>2. PICK b \in Seq(S) : b = SubSeq(w, n + 1, Len(w))
    BY <1>2, Zenon
  <2>3. (s \o a) \o b = s \o (a \o b)
    OBVIOUS
  <2> QED BY <2>1, <2>2, <2>3, Zenon
<1> QED BY <1>2, <1>3, <1>4, <1>5

(* Rest moves the stream s \o w forward, past the first head in it.        *)
Taken(s, w) ==
  /\ HeadAt(s) \in 1 .. Len(s) /\ s[HeadAt(s)].t = "head"
  /\ (s \o w)[HeadAt(s)] = s[HeadAt(s)]
  /\ \E k \in 1 .. Len(s) :
       /\ HeadAt(s) \in 1 .. k
       /\ Len(Rest(s) \o w) = Len(s \o w) - k
       /\ \A i \in 1 .. Len(s \o w) - k : (Rest(s) \o w)[i] = (s \o w)[i + k]

(* Processed: what follows the package is left, what it held is content.   *)
LEMMA PackageTaken ==
  ASSUME NEW S, NEW s \in Seq(S), NEW w \in Seq(S), HasPackage(s)
  PROVE  Rest(s) \in Seq(S) /\ ContentOf(s) \in Seq(S) /\ Taken(s, w)
<1>1. /\ HeadAt(s) \in 1 .. Len(s) /\ s[HeadAt(s)].t = "head"
      /\ TailAt(s) \in HeadAt(s) .. Len(s)
  BY PackagePlaces
<1>2. Len(s) \in Nat /\ TailAt(s) \in 1 .. Len(s) /\ HeadAt(s) \in 1 .. TailAt(s)
  BY <1>1
<1>3. /\ Rest(s) \in Seq(S)
      /\ Len(Rest(s) \o w) = Len(s \o w) - TailAt(s)
      /\ \A i \in 1 .. Len(s \o w) - TailAt(s) :
           (Rest(s) \o w)[i] = (s \o w)[i + TailAt(s)]
  <2> DEFINE k == TailAt(s)
  <2>1. k \in 1 .. Len(s)
    BY <1>2
  <2> HIDE DEF k
  <2>2. /\ SubSeq(s, k + 1, Len(s)) \in Seq(S)
        /\ Len(SubSeq(s, k + 1, Len(s)) \o w) = Len(s \o w) - k
        /\ \A i \in 1 .. Len(s \o w) - k :
             (SubSeq(s, k + 1, Len(s)) \o w)[i] = (s \o w)[i + k]
    BY <2>1, SuffixPlaces
  <2> QED BY <2>2, Zenon DEF k, Rest
<1>4. ContentOf(s) \in Seq(S)
  <2>1. \A i \in HeadAt(s) + 1 .. TailAt(s) - 1 : s[i] \in S
    BY <1>2, ElementOfSeq
  <2>2. HeadAt(s) + 1 \in Int /\ TailAt(s) - 1 \in Int
    BY <1>2
  <2> QED BY <2>1, <2>2, SubSeqProperties DEF ContentOf
<1>5. (s \o w)[HeadAt(s)] = s[HeadAt(s)]
  BY <1>2, ConcatProperties
<1> QED BY <1>1, <1>2, <1>3, <1>4, <1>5 DEF Taken
-----------------------------------------------------------------------------
(*                        What a connection holds                          *)

Items == [kind : {"msg", "file"}, size : MsgSizes \cup FileSizes]
Dones == [kind : {"msg", "file"}, id : Nat \ {0}, content : Seq(Tokens),
          alone : BOOLEAN, missed : BOOLEAN]
Held == {<<>>} \cup (Tokens \X Tokens)

(* x is the head of a package sent before the one to send next.            *)
HeadFits(x, items, next) ==
  /\ x.id \in 1 .. Len(items)
  /\ x.allnum = PackageCount(items[x.id].size)
  /\ x.num <= x.allnum
  /\ x.id = Len(items) /\ next > 0 => x.num < next

Before(x, y) == x.id < y.id \/ (x.id = y.id /\ x.num < y.num)

(* The heads on their way are in the order they were sent.                 *)
StreamFits(s, items, next) ==
  \A i \in 1 .. Len(s) : s[i].t = "head" =>
    /\ HeadFits(s[i], items, next)
    /\ \A j \in i + 1 .. Len(s) : s[j].t = "head" => Before(s[i], s[j])

(* The chunk being written was sent before them.                           *)
ChunkFits(ch, s, items, next) ==
  ch # <<>> =>
    /\ HeadFits(ch[1], items, next)
    /\ \A i \in 1 .. Len(s) : s[i].t = "head" => Before(ch[1], s[i])

(* What was executed is older than all of them, and in order.              *)
DoneFits(done, ch, s, items, next) ==
  \A k \in 1 .. Len(done) :
    /\ done[k].id <= Len(items)
    /\ next > 0 => done[k].id < Len(items)
    /\ ch # <<>> => done[k].id < ch[1].id
    /\ \A i \in 1 .. Len(s) : s[i].t = "head" => done[k].id < s[i].id
    /\ \A j \in k + 1 .. Len(done) : done[k].id < done[j].id

Fits(s, items, next, ch, done) ==
  /\ StreamFits(s, items, next)
  /\ ChunkFits(ch, s, items, next)
  /\ DoneFits(done, ch, s, items, next)

(* The stream moves forward.                                               *)
LEMMA FitsForward ==
  ASSUME NEW s \in Seq(Tokens), NEW r \in Seq(Tokens), NEW items \in Seq(Items),
         NEW next \in Nat, NEW ch \in Held, NEW done \in Seq(Dones),
         NEW k \in 0 .. Len(s), Len(r) = Len(s) - k,
         \A i \in 1 .. Len(s) - k : r[i] = s[i + k],
         Fits(s, items, next, ch, done)
  PROVE  Fits(r, items, next, ch, done)
<1>1. Len(s) \in Nat /\ \A i \in 1 .. Len(r) : i + k \in 1 .. Len(s) /\ r[i] = s[i + k]
  OBVIOUS
<1>2. StreamFits(r, items, next)
  <2>1. ASSUME NEW i \in 1 .. Len(r), r[i].t = "head"
        PROVE  /\ HeadFits(r[i], items, next)
               /\ \A j \in i + 1 .. Len(r) : r[j].t = "head" => Before(r[i], r[j])
    <3>1. /\ HeadFits(s[i + k], items, next)
          /\ \A j \in i + k + 1 .. Len(s) : s[j].t = "head" => Before(s[i + k], s[j])
      BY <1>1, <2>1 DEF Fits, StreamFits
    <3>2. ASSUME NEW j \in i + 1 .. Len(r) PROVE j + k \in i + k + 1 .. Len(s) /\ r[j] = s[j + k]
      BY <1>1
    <3> QED BY <1>1, <3>1, <3>2
  <2> QED BY <2>1 DEF StreamFits
<1>3. ChunkFits(ch, r, items, next)
  BY <1>1 DEF Fits, ChunkFits
<1>4. DoneFits(done, ch, r, items, next)
  BY <1>1 DEF Fits, DoneFits
<1> QED BY <1>2, <1>3, <1>4 DEF Fits

(* The chunk is given up.                                                  *)
LEMMA FitsDropped ==
  ASSUME NEW s, NEW items, NEW next, NEW ch, NEW done, Fits(s, items, next, ch, done)
  PROVE  Fits(s, items, next, <<>>, done)
BY DEF Fits, ChunkFits, DoneFits

(* A package is taken out of the stream, its head kept.                    *)
LEMMA FitsTaken ==
  ASSUME NEW s \in Seq(Tokens), NEW r \in Seq(Tokens), NEW items \in Seq(Items),
         NEW next \in Nat, NEW done \in Seq(Dones), NEW y \in Tokens,
         NEW k \in 1 .. Len(s), Len(r) = Len(s) - k,
         \A i \in 1 .. Len(s) - k : r[i] = s[i + k],
         NEW h \in 1 .. k, s[h].t = "head",
         Fits(s, items, next, <<>>, done)
  PROVE  Fits(r, items, next, <<s[h], y>>, done)
<1>1. Len(s) \in Nat /\ h \in 1 .. Len(s)
      /\ \A i \in 1 .. Len(r) : i + k \in h + 1 .. Len(s) /\ r[i] = s[i + k]
  OBVIOUS
<1>2. Fits(r, items, next, <<>>, done)
  <2>1. <<>> \in Held /\ k \in 0 .. Len(s)
    BY DEF Held
  <2> QED BY <2>1, FitsForward
<1>3. ChunkFits(<<s[h], y>>, r, items, next)
  <2>1. /\ HeadFits(s[h], items, next)
        /\ \A j \in h + 1 .. Len(s) : s[j].t = "head" => Before(s[h], s[j])
    BY <1>1 DEF Fits, StreamFits
  <2> QED BY <1>1, <2>1 DEF ChunkFits
<1>4. DoneFits(done, <<s[h], y>>, r, items, next)
  <2>1. \A j \in 1 .. Len(done) : done[j].id < s[h].id
    BY <1>1 DEF Fits, DoneFits
  <2> QED BY <1>2, <2>1 DEF Fits, DoneFits
<1> QED BY <1>2, <1>3, <1>4 DEF Fits

(* The last package of a message or file executes it.                      *)
LEMMA FitsExecuted ==
  ASSUME NEW s \in Seq(Tokens), NEW items \in Seq(Items), NEW next \in Nat,
         NEW ch \in Tokens \X Tokens, NEW done \in Seq(Dones), NEW e \in Dones,
         e.id = ch[1].id, ~ (ch[1].num < ch[1].allnum),
         next > 0 => items # <<>> /\ next <= PackageCount(items[Len(items)].size),
         Fits(s, items, next, ch, done)
  PROVE  Fits(s, items, next, <<>>, Append(done, e))
<1> DEFINE x == ch[1]
           more == Append(done, e)
<1>1. x \in Tokens /\ ch # <<>> /\ Len(done) \in Nat /\ Len(s) \in Nat /\ Len(items) \in Nat
  <2>1. PICK a \in Tokens, b \in Tokens : ch = <<a, b>>
    OBVIOUS
  <2>2. ch # <<>>
    BY <2>1
  <2>3. x \in Tokens
    BY <2>1
  <2> QED BY <2>2, <2>3
<1>2. /\ x.id \in Nat /\ x.num \in Nat /\ x.allnum \in Nat /\ x.num = x.allnum
      /\ x.id \in 1 .. Len(items) /\ HeadFits(x, items, next)
  BY <1>1 DEF Fits, ChunkFits, HeadFits, Tokens
<1>3. next > 0 => x.id < Len(items)
  BY <1>1, <1>2 DEF HeadFits
<1>4. ASSUME NEW i \in 1 .. Len(s), s[i].t = "head" PROVE x.id < s[i].id
  <2>1. Before(x, s[i]) /\ HeadFits(s[i], items, next)
    BY <1>1, <1>4 DEF Fits, ChunkFits, StreamFits
  <2>2. s[i] \in Tokens
    OBVIOUS
  <2>3. s[i].id \in Nat /\ s[i].num \in Nat /\ s[i].allnum \in Nat
    BY <2>2 DEF Tokens
  <2>4. x.id = s[i].id => s[i].num <= x.num
    BY <1>2, <2>1 DEF HeadFits
  <2> QED BY <1>2, <2>1, <2>3, <2>4 DEF Before
<1>5. /\ Len(more) = Len(done) + 1 /\ more[Len(done) + 1] = e
      /\ \A k \in 1 .. Len(done) : more[k] = done[k]
  OBVIOUS
<1>6. DoneFits(more, <<>>, s, items, next)
  <2>1. ASSUME NEW k \in 1 .. Len(more)
        PROVE  /\ more[k].id <= Len(items)
               /\ next > 0 => more[k].id < Len(items)
               /\ \A i \in 1 .. Len(s) : s[i].t = "head" => more[k].id < s[i].id
               /\ \A j \in k + 1 .. Len(more) : more[k].id < more[j].id
    <3>1. CASE k = Len(done) + 1
      BY <1>1, <1>2, <1>3, <1>4, <1>5, <3>1
    <3>2. CASE k \in 1 .. Len(done)
      <4>1. /\ done[k].id <= Len(items)
            /\ next > 0 => done[k].id < Len(items)
            /\ done[k].id < x.id
            /\ \A i \in 1 .. Len(s) : s[i].t = "head" => done[k].id < s[i].id
            /\ \A j \in k + 1 .. Len(done) : done[k].id < done[j].id
        BY <1>1, <3>2 DEF Fits, DoneFits
      <4>2. ASSUME NEW j \in k + 1 .. Len(more)
            PROVE  j \in k + 1 .. Len(done) \/ j = Len(done) + 1
        BY <1>1, <1>5
      <4> QED BY <1>1, <1>5, <3>2, <4>1, <4>2
    <3> QED BY <1>1, <1>5, <3>1, <3>2
  <2> QED BY <2>1 DEF DoneFits
<1>7. StreamFits(s, items, next) /\ ChunkFits(<<>>, s, items, next)
  BY DEF Fits, ChunkFits
<1> QED BY <1>6, <1>7 DEF Fits

(* A message or file is begun.                                             *)
LEMMA FitsBegun ==
  ASSUME NEW s \in Seq(Tokens), NEW items \in Seq(Items), NEW ch \in Held,
         NEW done \in Seq(Dones), NEW x \in Items, Fits(s, items, 0, ch, done)
  PROVE  Fits(s, Append(items, x), 1, ch, done)
<1> DEFINE more == Append(items, x)
<1>1. /\ Len(items) \in Nat /\ Len(more) = Len(items) + 1
      /\ \A k \in 1 .. Len(items) : more[k] = items[k]
  OBVIOUS
<1>2. ASSUME NEW y, HeadFits(y, items, 0) PROVE HeadFits(y, more, 1)
  BY <1>1, <1>2 DEF HeadFits
<1>3. StreamFits(s, more, 1) /\ ChunkFits(ch, s, more, 1)
  BY <1>2 DEF Fits, StreamFits, ChunkFits
<1>4. DoneFits(done, ch, s, more, 1)
  <2>1. \A k \in 1 .. Len(done) : done[k].id \in Nat
    <3>1. \A k \in 1 .. Len(done) : done[k] \in Dones
      OBVIOUS
    <3> QED BY <3>1 DEF Dones
  <2> QED BY <1>1, <2>1 DEF Fits, DoneFits
<1> QED BY <1>3, <1>4 DEF Fits

(* A package goes out, or as much of it as the socket takes.               *)
LEMMA FitsSent ==
  ASSUME NEW s \in Seq(Tokens), NEW a \in Seq(Tokens), NEW items \in Seq(Items),
         NEW num \in Nat \ {0}, NEW next \in {0, num + 1},
         NEW ch \in Held, NEW done \in Seq(Dones),
         items # <<>>, num <= PackageCount(items[Len(items)].size),
         \A i \in 1 .. Len(a) : a[i].t = "head" =>
           /\ i = 1 /\ a[i].id = Len(items) /\ a[i].num = num
           /\ a[i].allnum = PackageCount(items[Len(items)].size),
         Fits(s, items, num, ch, done)
  PROVE  Fits(s \o a, items, next, ch, done)
<1> DEFINE r == s \o a
           n == Len(s)
           last == Len(items)
<1>1. /\ n \in Nat /\ Len(a) \in Nat /\ last \in Nat \ {0}
      /\ Len(r) = n + Len(a)
      /\ \A i \in 1 .. n + Len(a) : r[i] = IF i <= n THEN s[i] ELSE a[i - n]
  BY ConcatProperties, EmptySeq
<1> HIDE DEF r
<1>2. ASSUME NEW i \in 1 .. Len(r), r[i].t = "head"
      PROVE  \/ i \in 1 .. n /\ r[i] = s[i]
             \/ /\ i = n + 1 /\ r[i].id = last /\ r[i].num = num
                /\ r[i].allnum = PackageCount(items[last].size)
  <2>1. CASE i <= n
    BY <1>1, <2>1
  <2>2. CASE ~ (i <= n)
    <3>1. r[i] = a[i - n] /\ i - n \in 1 .. Len(a)
      BY <1>1, <2>2
    <3>2. i - n = 1 => i = n + 1
      BY <1>1
    <3> QED BY <1>2, <3>1, <3>2
  <2> QED BY <2>1, <2>2
<1>3. ASSUME NEW y \in Tokens, HeadFits(y, items, num)
      PROVE  HeadFits(y, items, next) /\ (y.id < last \/ (y.id = last /\ y.num < num))
  <2>1. y.num \in Nat
    BY DEF Tokens
  <2>2. /\ y.id \in 1 .. last
        /\ y.allnum = PackageCount(items[y.id].size)
        /\ y.num <= y.allnum
        /\ y.id = last => y.num < num
    BY <1>3 DEF HeadFits
  <2>3. next > 0 => next = num + 1
    OBVIOUS
  <2> QED BY <1>1, <2>1, <2>2, <2>3 DEF HeadFits
<1>4. ASSUME NEW i \in 1 .. n, r[i].t = "head"
      PROVE  s[i] \in Tokens /\ r[i] = s[i] /\ HeadFits(s[i], items, num)
  BY <1>1, <1>4 DEF Fits, StreamFits
<1>5. ASSUME NEW y \in Tokens, HeadFits(y, items, num), NEW i \in 1 .. Len(r), r[i].t = "head", i = n + 1
      PROVE  Before(y, r[i])
  <2>1. r[i].id = last /\ r[i].num = num
    BY <1>1, <1>2, <1>5
  <2> QED BY <1>3, <1>5, <2>1 DEF Before
<1>6. StreamFits(r, items, next)
  <2>1. ASSUME NEW i \in 1 .. Len(r), r[i].t = "head" PROVE HeadFits(r[i], items, next)
    <3>1. CASE i \in 1 .. n
      BY <1>3, <1>4, <2>1, <3>1
    <3>2. CASE i = n + 1
      <4>1. r[i].id = last /\ r[i].num = num /\ r[i].allnum = PackageCount(items[last].size)
        BY <1>1, <1>2, <2>1, <3>2
      <4> QED BY <1>1, <4>1 DEF HeadFits
    <3> QED BY <1>2, <2>1, <3>1, <3>2
  <2>2. ASSUME NEW i \in 1 .. Len(r), r[i].t = "head",
               NEW j \in i + 1 .. Len(r), r[j].t = "head"
        PROVE  Before(r[i], r[j])
    <3>1. j \in 1 .. Len(r) /\ i < j
      BY <1>1
    <3>2. CASE j \in 1 .. n
      <4>1. i \in 1 .. n /\ j \in i + 1 .. n
        BY <1>1, <3>1, <3>2
      <4>2. r[i] = s[i] /\ r[j] = s[j]
        BY <1>4, <2>2, <3>2, <4>1
      <4> QED BY <2>2, <4>1, <4>2 DEF Fits, StreamFits
    <3>3. CASE j = n + 1
      <4>1. i \in 1 .. n
        BY <1>1, <3>1, <3>3
      <4> QED BY <1>4, <1>5, <2>2, <3>1, <3>3, <4>1
    <3> QED BY <1>2, <2>2, <3>1, <3>2, <3>3
  <2> QED BY <2>1, <2>2 DEF StreamFits
<1>7. ChunkFits(ch, r, items, next)
  <2>1. ASSUME ch # <<>> PROVE ch[1] \in Tokens /\ HeadFits(ch[1], items, num)
    <3>1. HeadFits(ch[1], items, num)
      BY <2>1 DEF Fits, ChunkFits
    <3>2. ch \in Tokens \X Tokens
      BY <2>1 DEF Held
    <3> QED BY <3>1, <3>2
  <2>2. ASSUME ch # <<>>, NEW i \in 1 .. Len(r), r[i].t = "head" PROVE Before(ch[1], r[i])
    <3>1. CASE i \in 1 .. n
      BY <1>4, <2>2, <3>1 DEF Fits, ChunkFits
    <3>2. CASE i = n + 1
      BY <1>5, <2>1, <2>2, <3>2
    <3> QED BY <1>2, <2>2, <3>1, <3>2
  <2>3. ch # <<>> => HeadFits(ch[1], items, next)
    BY <1>3, <2>1
  <2> QED BY <2>2, <2>3 DEF ChunkFits
<1>8. DoneFits(done, ch, r, items, next)
  <2>1. ASSUME NEW k \in 1 .. Len(done)
        PROVE  /\ done[k].id < last
               /\ ch # <<>> => done[k].id < ch[1].id
               /\ \A i \in 1 .. n : s[i].t = "head" => done[k].id < s[i].id
               /\ \A j \in k + 1 .. Len(done) : done[k].id < done[j].id
    BY DEF Fits, DoneFits
  <2>2. ASSUME NEW k \in 1 .. Len(done), NEW i \in 1 .. Len(r), r[i].t = "head"
        PROVE  done[k].id < r[i].id
    BY <1>2, <2>1, <2>2
  <2>3. \A k \in 1 .. Len(done) : done[k].id \in Nat
    <3>1. \A k \in 1 .. Len(done) : done[k] \in Dones
      OBVIOUS
    <3> QED BY <3>1 DEF Dones
  <2> QED BY <1>1, <2>1, <2>2, <2>3 DEF DoneFits
<1> QED BY <1>6, <1>7, <1>8 DEF Fits, r

(* A heartbeat goes out.                                                   *)
LEMMA FitsBeat ==
  ASSUME NEW s \in Seq(Tokens), NEW a \in Seq(Tokens), NEW items \in Seq(Items),
         NEW next \in Nat, NEW ch \in Held, NEW done \in Seq(Dones),
         \A i \in 1 .. Len(a) : a[i].t # "head",
         Fits(s, items, next, ch, done)
  PROVE  Fits(s \o a, items, next, ch, done)
<1> DEFINE r == s \o a
<1>1. /\ Len(s) \in Nat /\ Len(a) \in Nat
      /\ Len(r) = Len(s) + Len(a)
      /\ \A i \in 1 .. Len(s) + Len(a) : r[i] = IF i <= Len(s) THEN s[i] ELSE a[i - Len(s)]
  BY ConcatProperties
<1> HIDE DEF r
<1>2. ASSUME NEW i \in 1 .. Len(r), r[i].t = "head"
      PROVE  i \in 1 .. Len(s) /\ r[i] = s[i]
  <2>1. CASE i <= Len(s)
    BY <1>1, <2>1
  <2>2. CASE ~ (i <= Len(s))
    <3>1. r[i] = a[i - Len(s)] /\ i - Len(s) \in 1 .. Len(a)
      BY <1>1, <2>2
    <3> QED BY <1>2, <3>1
  <2> QED BY <2>1, <2>2
<1>3. StreamFits(r, items, next)
  <2>1. ASSUME NEW i \in 1 .. Len(r), r[i].t = "head",
               NEW j \in i + 1 .. Len(r), r[j].t = "head"
        PROVE  Before(r[i], r[j])
    <3>1. i \in 1 .. Len(s) /\ r[i] = s[i]
      BY <1>2, <2>1
    <3>2. j \in 1 .. Len(r) /\ i < j
      BY <1>1, <3>1
    <3>3. j \in i + 1 .. Len(s) /\ r[j] = s[j]
      BY <1>1, <1>2, <2>1, <3>1, <3>2
    <3> QED BY <2>1, <3>1, <3>3 DEF Fits, StreamFits
  <2> QED BY <1>2, <2>1 DEF Fits, StreamFits
<1>4. ChunkFits(ch, r, items, next)
  BY <1>2 DEF Fits, ChunkFits
<1>5. DoneFits(done, ch, r, items, next)
  BY <1>2 DEF Fits, DoneFits
<1> QED BY <1>3, <1>4, <1>5 DEF Fits, r
-----------------------------------------------------------------------------
(*                             The invariant                               *)

Stream(c) == m_strData[c] \o wire[c]

ConnOK(c) ==
  /\ sending[c] > 0 => sent[c] # <<>>
  /\ chunk[c] # <<>> => chunk[c][1].kind = "file"
  /\ Fits(Stream(c), sent[c], sending[c], chunk[c], executed[c])

WireInv == TypeOK /\ \A c \in Conns : ConnOK(c)

(* What the invariant says of c stays as it is.                            *)
Untouched(c) ==
  /\ sent'[c] = sent[c] /\ sending'[c] = sending[c]
  /\ m_strData'[c] = m_strData[c] /\ wire'[c] = wire[c]
  /\ chunk'[c] = chunk[c] /\ executed'[c] = executed[c]

LEMMA OneAtATime ==
  ASSUME WireInv, TypeOK', NEW c \in Conns, ConnOK(c)',
         \A d \in Conns \ {c} : Untouched(d)
  PROVE  WireInv'
<1>1. ASSUME NEW d \in Conns \ {c} PROVE ConnOK(d)'
  BY <1>1 DEF WireInv, ConnOK, Stream, Untouched
<1> QED BY <1>1 DEF WireInv

(* The types of one connection.                                            *)
LEMMA ConnTypes ==
  ASSUME WireInv, NEW c \in Conns
  PROVE  /\ sent[c] \in Seq(Items) /\ sending[c] \in Nat
         /\ wire[c] \in Seq(Tokens) /\ m_strData[c] \in Seq(Tokens)
         /\ Stream(c) \in Seq(Tokens) /\ m_strMsgContent[c] \in Seq(Tokens)
         /\ chunk[c] \in Held /\ executed[c] \in Seq(Dones) /\ alone[c] \in BOOLEAN
         /\ sending[c] > 0 =>
              sent[c] # <<>> /\ sending[c] <= PackageCount(sent[c][Len(sent[c])].size)
         /\ Fits(Stream(c), sent[c], sending[c], chunk[c], executed[c])
<1>1. wire[c] \in Seq(Tokens) /\ m_strData[c] \in Seq(Tokens)
  BY DEF WireInv, TypeOK
<1>2. Stream(c) \in Seq(Tokens)
  BY <1>1, ConcatProperties DEF Stream
<1> QED BY <1>1, <1>2 DEF WireInv, ConnOK, TypeOK, Items, Held, Dones

LEMMA StreamGrows ==
  ASSUME WireInv, NEW c \in Conns, NEW a \in Seq(Tokens)
  PROVE  m_strData[c] \o (wire[c] \o a) = Stream(c) \o a
<1>1. PICK m \in Seq(Tokens) : m = m_strData[c]
  BY ConnTypes
<1>2. PICK w \in Seq(Tokens) : w = wire[c]
  BY ConnTypes
<1>3. (m \o w) \o a = m \o (w \o a)
  OBVIOUS
<1> QED BY <1>1, <1>2, <1>3, Zenon DEF Stream

LEMMA Counts == ASSUME NEW size \in Nat PROVE PackageCount(size) \in Nat \ {0}
BY WireAssumption DEF PackageCount

LEMMA InitWire == ASSUME Init PROVE WireInv
<1>1. TypeOK
  <2>1. /\ <<>> \in Seq(Items) /\ <<>> \in Seq(Tokens) /\ <<>> \in Seq(Dones)
    OBVIOUS
  <2>2. \A c \in Conns : sending[c] = 0
    BY DEF Init
  <2> QED BY <2>1, <2>2 DEF Init, TypeOK, Items, Dones
<1>2. ASSUME NEW c \in Conns PROVE ConnOK(c)
  <2>1. /\ sent[c] = <<>> /\ sending[c] = 0 /\ chunk[c] = <<>> /\ executed[c] = <<>>
        /\ Stream(c) = <<>>
    BY DEF Init, Stream
  <2>2. Fits(<<>>, <<>>, 0, <<>>, <<>>)
    BY DEF Fits, StreamFits, ChunkFits, DoneFits
  <2> QED BY <2>1, <2>2 DEF ConnOK
<1> QED BY <1>1, <1>2 DEF WireInv

LEMMA KeepsSend ==
  ASSUME WireInv, NEW c \in Conns, NEW kind \in {"msg", "file"},
         NEW size \in MsgSizes \cup FileSizes, Send(c, kind, size)
  PROVE  WireInv'
<1> DEFINE x == [kind |-> kind, size |-> size]
<1>1. /\ sent' = [sent EXCEPT ![c] = Append(@, x)]
      /\ sending' = [sending EXCEPT ![c] = 1] /\ sending[c] = 0
      /\ UNCHANGED <<cut, beats, wire, m_strData, m_strMsgContent, processing, chunk,
                     file, alone, missed, executed>>
  BY DEF Send, recvVars
<1>2. x \in Items
  BY DEF Items
<1> HIDE DEF x
<1>3. /\ sent \in [Conns -> Seq(Items)] /\ sending \in [Conns -> Nat]
  BY DEF WireInv, TypeOK, Items
<1>4. /\ sent'[c] = Append(sent[c], x) /\ sending'[c] = 1
      /\ \A d \in Conns \ {c} : sent'[d] = sent[d] /\ sending'[d] = sending[d]
      /\ sent' \in [Conns -> Seq(Items)] /\ sending' \in [Conns -> Nat]
  BY <1>1, <1>2, <1>3
<1>5. /\ sent'[c] # <<>> /\ Len(sent'[c]) \in Nat /\ sent'[c][Len(sent'[c])] = x
      /\ 1 <= PackageCount(x.size)
  <2>1. 1 <= PackageCount(x.size)
    BY Counts, WireAssumption DEF x
  <2>2. sent[c] \in Seq(Items)
    BY <1>3
  <2> QED BY <1>2, <1>4, <2>1, <2>2
<1>6. TypeOK'
  <2>1. \A d \in Conns :
          sending'[d] > 0 => sending'[d] <= PackageCount(sent'[d][Len(sent'[d])].size)
    BY <1>4, <1>5 DEF WireInv, TypeOK
  <2>2. sent' \in [Conns -> Seq([kind : {"msg", "file"}, size : MsgSizes \cup FileSizes])]
    BY <1>4 DEF Items
  <2> QED BY <1>1, <1>4, <2>1, <2>2 DEF WireInv, TypeOK
<1>7. ConnOK(c)'
  <2>1. Fits(Stream(c), Append(sent[c], x), 1, chunk[c], executed[c])
    BY <1>1, <1>2, ConnTypes, FitsBegun
  <2> QED BY <1>1, <1>4, <1>5, <2>1 DEF WireInv, ConnOK, Stream
<1>8. \A d \in Conns \ {c} : Untouched(d)
  BY <1>1, <1>4 DEF Untouched
<1> QED BY <1>6, <1>7, <1>8, OneAtATime

LEMMA KeepsSendPackage ==
  ASSUME WireInv, NEW c \in Conns, SendPackage(c)
  PROVE  WireInv'
<1> DEFINE id == Len(sent[c])
           num == sending[c]
           package == Package(c, id, num)
           accepted == Sendable(c, package)
<1>1. num > 0 /\ num \in Nat \ {0} /\ id \in Nat \ {0} /\ sent[c][id] \in Items
      /\ num <= PackageCount(sent[c][id].size)
  BY ConnTypes, EmptySeq DEF SendPackage
<1>2. sent[c][id].kind \in {"msg", "file"} /\ PackageCount(sent[c][id].size) \in Nat
  BY <1>1, Counts, WireAssumption DEF Items
<1>3. \A t \in {"head", "content", "tail"} :
        /\ Token(t, c, id, num) \in Tokens /\ Token(t, c, id, num).t = t
        /\ Token(t, c, id, num).id = id /\ Token(t, c, id, num).num = num
        /\ Token(t, c, id, num).allnum = PackageCount(sent[c][id].size)
  BY <1>1, <1>2 DEF Token, Tokens
<1>4. /\ package \in Seq(Tokens) /\ Len(package) = 3
      /\ package[1] = Token("head", c, id, num)
      /\ package[2].t = "content" /\ package[3].t = "tail"
  BY <1>3 DEF Package
<1> HIDE DEF package
<1>5. /\ accepted \in Seq(Tokens)
      /\ \A i \in 1 .. Len(accepted) : i \in 1 .. 3 /\ accepted[i] = package[i]
  <2>1. CASE accepted = package
    BY <1>4, <2>1
  <2>2. CASE accepted = SubSeq(package, 1, SockBuf - Len(wire[c])) /\ SockBuf - Len(wire[c]) < 3
    <3>1. wire[c] \in Seq(Tokens) /\ SockBuf - Len(wire[c]) \in Int
      BY ConnTypes, WireAssumption
    <3>2. \A i \in 1 .. SockBuf - Len(wire[c]) : i \in 1 .. 3 /\ package[i] \in Tokens
      BY <1>4, <2>2, <3>1
    <3> DEFINE room == SockBuf - Len(wire[c])
    <3> HIDE DEF room
    <3>3. /\ SubSeq(package, 1, room) \in Seq(Tokens)
          /\ Len(SubSeq(package, 1, room)) = IF 1 <= room THEN room - 1 + 1 ELSE 0
          /\ \A i \in 1 .. room - 1 + 1 : SubSeq(package, 1, room)[i] = package[1 + i - 1]
      BY <3>1, <3>2, SubSeqProperties DEF room
    <3> QED BY <2>2, <3>1, <3>2, <3>3 DEF room
  <2> QED BY <1>4, <2>1, <2>2 DEF Sendable
<1> HIDE DEF accepted
<1>6. PICK next \in {0, num + 1} :
        /\ sending' = [sending EXCEPT ![c] = next]
        /\ next > 0 => next <= PackageCount(sent[c][id].size)
  <2>1. MoreToSend(num, sent[c][id].size) => num + 1 <= PackageCount(sent[c][id].size)
    BY <1>1, <1>2 DEF MoreToSend
  <2>2. \/ sending' = [sending EXCEPT ![c] = 0]
        \/ /\ sending' = [sending EXCEPT ![c] = num + 1]
           /\ MoreToSend(num, sent[c][id].size)
    BY DEF SendPackage
  <2> QED BY <2>1, <2>2
<1>7. /\ wire' = [wire EXCEPT ![c] = @ \o accepted]
      /\ UNCHANGED <<sent, beats, m_strData, m_strMsgContent, processing, chunk,
                     file, alone, missed, executed>>
  BY DEF SendPackage, recvVars, accepted, package
<1>8. cut' \in [Conns -> BOOLEAN]
  BY DEF SendPackage, WireInv, TypeOK
<1>9. /\ wire'[c] = wire[c] \o accepted /\ wire[c] \in Seq(Tokens)
      /\ sending'[c] = next /\ next \in Nat
      /\ \A d \in Conns \ {c} : wire'[d] = wire[d] /\ sending'[d] = sending[d]
      /\ wire' \in [Conns -> Seq(Tokens)] /\ sending' \in [Conns -> Nat]
  BY <1>1, <1>5, <1>6, <1>7, SMTT(30) DEF WireInv, TypeOK
<1>10. TypeOK'
  <2>1. \A d \in Conns :
          sending'[d] > 0 => sending'[d] <= PackageCount(sent'[d][Len(sent'[d])].size)
    BY <1>6, <1>7, <1>9 DEF WireInv, TypeOK
  <2> QED BY <1>7, <1>8, <1>9, <2>1 DEF WireInv, TypeOK
<1>11. ConnOK(c)'
  <2>1. Fits(Stream(c) \o accepted, sent[c], next, chunk[c], executed[c])
    <3>1. \A i \in 1 .. Len(accepted) : accepted[i].t = "head" =>
            /\ i = 1 /\ accepted[i].id = Len(sent[c]) /\ accepted[i].num = num
            /\ accepted[i].allnum = PackageCount(sent[c][Len(sent[c])].size)
      BY <1>3, <1>4, <1>5
    <3>2. /\ Stream(c) \in Seq(Tokens) /\ sent[c] \in Seq(Items) /\ chunk[c] \in Held
          /\ executed[c] \in Seq(Dones) /\ sent[c] # <<>>
          /\ Fits(Stream(c), sent[c], num, chunk[c], executed[c])
      BY <1>1, ConnTypes
    <3> QED BY <1>1, <1>5, <3>1, <3>2, FitsSent, ZenonT(30)
  <2>2. Stream(c)' = Stream(c) \o accepted
    <3>1. m_strData[c] \o (wire[c] \o accepted) = Stream(c) \o accepted
      BY <1>5, StreamGrows
    <3> QED BY <1>7, <1>9, <3>1 DEF Stream
  <2>3. sent'[c] # <<>> /\ chunk'[c] = chunk[c] /\ (chunk[c] # <<>> => chunk[c][1].kind = "file")
    BY <1>1, <1>7, ConnTypes DEF WireInv, ConnOK
  <2> QED BY <1>7, <1>9, <2>1, <2>2, <2>3 DEF ConnOK
<1>12. \A d \in Conns \ {c} : Untouched(d)
  BY <1>7, <1>9 DEF Untouched
<1> QED BY <1>10, <1>11, <1>12, OneAtATime

LEMMA KeepsSendBeat ==
  ASSUME WireInv, NEW c \in Conns, SendBeat(c)
  PROVE  WireInv'
<1> DEFINE accepted == Sendable(c, <<Beat(c)>>)
<1>1. Beat(c) \in Tokens /\ Beat(c).t = "beat"
  BY DEF Beat, Tokens
<1>2. /\ accepted \in Seq(Tokens)
      /\ \A i \in 1 .. Len(accepted) : accepted[i].t # "head"
  <2>1. <<Beat(c)>> \in Seq(Tokens) /\ Len(<<Beat(c)>>) = 1 /\ <<Beat(c)>>[1] = Beat(c)
    BY <1>1
  <2>2. CASE accepted = <<Beat(c)>>
    <3>1. accepted \in Seq(Tokens) /\ Len(accepted) = 1 /\ accepted[1] = Beat(c)
      BY <2>1, <2>2, Zenon
    <3> HIDE DEF accepted
    <3> QED BY <1>1, <3>1
  <2>3. CASE accepted = SubSeq(<<Beat(c)>>, 1, SockBuf - Len(wire[c])) /\ SockBuf - Len(wire[c]) < 1
    <3>1. wire[c] \in Seq(Tokens) /\ SockBuf - Len(wire[c]) \in Int
      BY ConnTypes, WireAssumption
    <3>2. accepted = <<>>
      BY <2>3, <3>1, SubSeqEmpty
    <3> QED BY <3>2
  <2> QED BY <2>1, <2>2, <2>3 DEF Sendable
<1> HIDE DEF accepted
<1>3. /\ wire' = [wire EXCEPT ![c] = @ \o accepted]
      /\ beats' = [beats EXCEPT ![c] = @ + 1]
      /\ UNCHANGED <<sent, sending, cut, m_strData, m_strMsgContent, processing, chunk,
                     file, alone, missed, executed>>
  BY DEF SendBeat, recvVars, accepted
<1>4. /\ wire'[c] = wire[c] \o accepted /\ wire[c] \in Seq(Tokens)
      /\ \A d \in Conns \ {c} : wire'[d] = wire[d]
      /\ wire' \in [Conns -> Seq(Tokens)] /\ beats' \in [Conns -> Nat]
  BY <1>2, <1>3, SMTT(30) DEF WireInv, TypeOK
<1>5. TypeOK'
  BY <1>3, <1>4 DEF WireInv, TypeOK
<1>6. ConnOK(c)'
  <2>1. Fits(Stream(c) \o accepted, sent[c], sending[c], chunk[c], executed[c])
    BY <1>2, ConnTypes, FitsBeat
  <2>2. Stream(c)' = Stream(c) \o accepted
    <3>1. m_strData[c] \o (wire[c] \o accepted) = Stream(c) \o accepted
      BY <1>2, StreamGrows
    <3> QED BY <1>3, <1>4, <3>1 DEF Stream
  <2> QED BY <1>3, <2>1, <2>2 DEF WireInv, ConnOK
<1>7. \A d \in Conns \ {c} : Untouched(d)
  BY <1>3, <1>4 DEF Untouched
<1> QED BY <1>5, <1>6, <1>7, OneAtATime

LEMMA KeepsReceive ==
  ASSUME WireInv, NEW c \in Conns, Receive(c)
  PROVE  WireInv'
<1>1. PICK n \in 1 .. Len(wire[c]) :
        /\ m_strData' = [m_strData EXCEPT ![c] = @ \o SubSeq(wire[c], 1, n)]
        /\ wire' = [wire EXCEPT ![c] = SubSeq(@, n + 1, Len(@))]
  BY DEF Receive
<1>2. /\ processing' \in [Conns -> BOOLEAN]
      /\ UNCHANGED <<sent, sending, cut, beats, m_strMsgContent, chunk, file, alone,
                     missed, executed>>
  BY DEF Receive, sendVars, WireInv, TypeOK
<1> DEFINE w == SubSeq(wire[c], n + 1, Len(wire[c]))
           m == m_strData[c] \o SubSeq(wire[c], 1, n)
<1>3. w \in Seq(Tokens) /\ m \in Seq(Tokens) /\ m \o w = Stream(c)
  <2>1. PICK t \in Seq(Tokens) : t = m_strData[c]
    BY ConnTypes
  <2>2. PICK u \in Seq(Tokens) : u = wire[c]
    BY ConnTypes
  <2>3. n \in 1 .. Len(u)
    BY <2>2
  <2>4. /\ SubSeq(u, n + 1, Len(u)) \in Seq(Tokens)
        /\ t \o SubSeq(u, 1, n) \in Seq(Tokens)
        /\ (t \o SubSeq(u, 1, n)) \o SubSeq(u, n + 1, Len(u)) = t \o u
    BY <2>3, CutInTwo, ZenonT(40)
  <2> QED BY <2>1, <2>2, <2>4, Zenon DEF Stream
<1>4. m_strData' = [m_strData EXCEPT ![c] = m] /\ wire' = [wire EXCEPT ![c] = w]
  BY <1>1
<1> HIDE DEF w, m
<1>5. /\ m_strData'[c] = m /\ wire'[c] = w
      /\ \A d \in Conns \ {c} : m_strData'[d] = m_strData[d] /\ wire'[d] = wire[d]
      /\ m_strData' \in [Conns -> Seq(Tokens)] /\ wire' \in [Conns -> Seq(Tokens)]
  BY <1>3, <1>4 DEF WireInv, TypeOK
<1>6. TypeOK'
  BY <1>2, <1>5 DEF WireInv, TypeOK
<1>7. ConnOK(c)'
  <2>1. Stream(c)' = Stream(c)
    BY <1>3, <1>5 DEF Stream
  <2> QED BY <1>2, <2>1 DEF WireInv, ConnOK
<1>8. \A d \in Conns \ {c} : Untouched(d)
  BY <1>2, <1>5 DEF Untouched
<1> QED BY <1>6, <1>7, <1>8, OneAtATime

(* The head Process takes, and the stream without its package.             *)
LEMMA PackageOf ==
  ASSUME WireInv, NEW c \in Conns, HasPackage(m_strData[c])
  PROVE  /\ Rest(m_strData[c]) \in Seq(Tokens) /\ ContentOf(m_strData[c]) \in Seq(Tokens)
         /\ NextHead(c) \in Tokens
         /\ Rest(m_strData[c]) \o wire[c] \in Seq(Tokens)
         /\ Fits(Stream(c), sent[c], sending[c], <<>>, executed[c]) =>
              /\ Fits(Rest(m_strData[c]) \o wire[c], sent[c], sending[c], <<>>, executed[c])
              /\ \A y \in Tokens :
                   Fits(Rest(m_strData[c]) \o wire[c], sent[c], sending[c],
                        <<NextHead(c), y>>, executed[c])
<1>1. PICK m \in Seq(Tokens) : m = m_strData[c]
  BY ConnTypes
<1>2. PICK w \in Seq(Tokens) : w = wire[c]
  BY ConnTypes
<1>3. /\ Rest(m) \in Seq(Tokens) /\ ContentOf(m) \in Seq(Tokens) /\ Taken(m, w)
  <2>1. HasPackage(m)
    BY <1>1
  <2> QED BY <2>1, PackageTaken
<1>4. PICK k \in 1 .. Len(m) :
        /\ HeadAt(m) \in 1 .. k
        /\ Len(Rest(m) \o w) = Len(m \o w) - k
        /\ \A i \in 1 .. Len(m \o w) - k : (Rest(m) \o w)[i] = (m \o w)[i + k]
  BY <1>3 DEF Taken
<1> DEFINE s == m \o w
           r == Rest(m) \o w
           h == HeadAt(m)
<1>5. s \in Seq(Tokens) /\ r \in Seq(Tokens) /\ Len(s) = Len(m) + Len(w)
  BY <1>3, ConcatProperties
<1>6. k \in 1 .. Len(s) /\ k \in 0 .. Len(s) /\ h \in 1 .. k /\ s[h].t = "head"
      /\ s[h] = m[h] /\ m[h] \in Tokens
  <2>1. h \in 1 .. Len(m) /\ m[h].t = "head" /\ s[h] = m[h]
    BY <1>3 DEF Taken
  <2>2. m[h] \in Tokens
    BY <2>1
  <2> QED BY <1>4, <1>5, <2>1, <2>2
<1>7. Len(r) = Len(s) - k /\ \A i \in 1 .. Len(s) - k : r[i] = s[i + k]
  BY <1>4
<1> HIDE DEF s, r, h
<1>8. ASSUME Fits(s, sent[c], sending[c], <<>>, executed[c])
      PROVE  /\ Fits(r, sent[c], sending[c], <<>>, executed[c])
             /\ \A y \in Tokens : Fits(r, sent[c], sending[c], <<m[h], y>>, executed[c])
  <2>1. sent[c] \in Seq(Items) /\ sending[c] \in Nat /\ executed[c] \in Seq(Dones)
    BY ConnTypes
  <2>2. <<>> \in Held
    BY DEF Held
  <2>3. Fits(r, sent[c], sending[c], <<>>, executed[c])
    BY <1>5, <1>6, <1>7, <1>8, <2>1, <2>2, FitsForward
  <2>4. ASSUME NEW y \in Tokens
        PROVE  Fits(r, sent[c], sending[c], <<s[h], y>>, executed[c])
    BY <1>5, <1>6, <1>7, <1>8, <2>1, FitsTaken
  <2> QED BY <1>6, <2>3, <2>4
<1>9. NextHead(c) = m[h] /\ Stream(c) = s /\ Rest(m_strData[c]) \o wire[c] = r
  BY <1>1, <1>2 DEF NextHead, Stream, s, r, h
<1> QED BY <1>1, <1>3, <1>5, <1>6, <1>8, <1>9

LEMMA KeepsProcessMsg ==
  ASSUME WireInv, NEW c \in Conns, ProcessMsg(c)
  PROVE  WireInv'
<1> DEFINE head == NextHead(c)
           rest == Rest(m_strData[c])
           content == m_strMsgContent[c] \o ContentOf(m_strData[c])
           e == [kind |-> head.kind, id |-> head.id, content |-> content, alone |-> TRUE,
                 missed |-> FALSE]
<1>1. /\ chunk[c] = <<>> /\ HasPackage(m_strData[c]) /\ head.kind = "msg"
      /\ m_strData' = [m_strData EXCEPT ![c] = rest]
      /\ UNCHANGED <<sent, sending, cut, beats, wire, processing, chunk, file, alone,
                     missed>>
  BY DEF ProcessMsg, Taking, sendVars
<1>2. /\ rest \in Seq(Tokens) /\ ContentOf(m_strData[c]) \in Seq(Tokens)
      /\ head \in Tokens /\ rest \o wire[c] \in Seq(Tokens)
      /\ Fits(rest \o wire[c], sent[c], sending[c], <<>>, executed[c])
      /\ \A y \in Tokens :
           Fits(rest \o wire[c], sent[c], sending[c], <<head, y>>, executed[c])
  BY <1>1, ConnTypes, PackageOf
<1>3. content \in Seq(Tokens)
  BY <1>2, ConnTypes, ConcatProperties
<1>4. \/ /\ m_strMsgContent' = [m_strMsgContent EXCEPT ![c] = content]
         /\ executed' = executed
      \/ /\ ~ (head.num < head.allnum)
         /\ m_strMsgContent' = [m_strMsgContent EXCEPT ![c] = <<>>]
         /\ executed' = [executed EXCEPT ![c] = Append(@, e)]
  BY DEF ProcessMsg, Execute
<1> HIDE DEF head, rest, content
<1>5. e \in Dones
  <2>1. Fits(rest \o wire[c], sent[c], sending[c], <<head, head>>, executed[c])
    BY <1>2
  <2>2. HeadFits(head, sent[c], sending[c])
    <3>1. <<head, head>> # <<>> /\ <<head, head>>[1] = head
      OBVIOUS
    <3> QED BY <2>1, <3>1 DEF Fits, ChunkFits
  <2>3. head.id \in 1 .. Len(sent[c]) /\ Len(sent[c]) \in Nat
    BY <2>2, ConnTypes DEF HeadFits
  <2> QED BY <1>1, <1>3, <2>3 DEF Dones
<1> HIDE DEF e
<1>6. /\ m_strData' \in [Conns -> Seq(Tokens)] /\ m_strData'[c] = rest
      /\ \A d \in Conns \ {c} : m_strData'[d] = m_strData[d]
      /\ m_strMsgContent' \in [Conns -> Seq(Tokens)]
  <2>1. <<>> \in Seq(Tokens)
    OBVIOUS
  <2> QED BY <1>1, <1>2, <1>3, <1>4, <2>1, ZenonT(40) DEF WireInv, TypeOK
<1>7. executed \in [Conns -> Seq(Dones)]
  BY DEF WireInv, TypeOK, Dones
<1>8. /\ executed' \in [Conns -> Seq(Dones)]
      /\ \A d \in Conns \ {c} : executed'[d] = executed[d]
  <2>1. Append(executed[c], e) \in Seq(Dones)
    BY <1>5, <1>7
  <2> QED BY <1>4, <1>7, <2>1
<1>9. Fits(rest \o wire[c], sent[c], sending[c], <<>>, executed'[c])
  <2>1. CASE executed' = executed
    BY <1>2, <2>1
  <2>2. CASE ~ (head.num < head.allnum) /\ executed' = [executed EXCEPT ![c] = Append(@, e)]
    <3>1. Fits(rest \o wire[c], sent[c], sending[c], <<head, head>>, executed[c])
      BY <1>2
    <3>2. PICK ch \in Tokens \X Tokens : ch = <<head, head>> /\ ch[1] = head
      <4>1. <<head, head>> \in Tokens \X Tokens /\ <<head, head>>[1] = head
        BY <1>2
      <4> QED BY <4>1
    <3>3. e.id = head.id
      BY DEF e
    <3>4. /\ sent[c] \in Seq(Items) /\ sending[c] \in Nat /\ executed[c] \in Seq(Dones)
          /\ sending[c] > 0 =>
               sent[c] # <<>> /\ sending[c] <= PackageCount(sent[c][Len(sent[c])].size)
      BY ConnTypes
    <3>5. Fits(rest \o wire[c], sent[c], sending[c], <<>>, Append(executed[c], e))
      BY <1>2, <1>5, <2>2, <3>1, <3>2, <3>3, <3>4, FitsExecuted
    <3> QED BY <1>7, <2>2, <3>5
  <2> QED BY <1>4, <2>1, <2>2
<1>10. TypeOK'
  BY <1>1, <1>6, <1>8 DEF WireInv, TypeOK, Dones
<1>11. ConnOK(c)'
  <2>1. /\ Stream(c)' = rest \o wire[c] /\ chunk'[c] = <<>>
        /\ sent'[c] = sent[c] /\ sending'[c] = sending[c]
    BY <1>1, <1>6 DEF Stream
  <2>2. sending[c] > 0 => sent[c] # <<>>
    BY ConnTypes
  <2> QED BY <1>9, <2>1, <2>2 DEF ConnOK
<1>12. \A d \in Conns \ {c} : Untouched(d)
  BY <1>1, <1>6, <1>8 DEF Untouched
<1> QED BY <1>10, <1>11, <1>12, OneAtATime

LEMMA KeepsProcessFile ==
  ASSUME WireInv, NEW c \in Conns, ProcessFile(c)
  PROVE  WireInv'
<1> DEFINE head == NextHead(c)
           rest == Rest(m_strData[c])
           content == ContentOf(m_strData[c])
<1>1. /\ chunk[c] = <<>> /\ HasPackage(m_strData[c]) /\ head.kind = "file"
      /\ m_strData' = [m_strData EXCEPT ![c] = rest]
      /\ UNCHANGED <<sent, sending, cut, beats, wire, m_strMsgContent, processing, executed>>
  BY DEF ProcessFile, Taking, sendVars
<1>2. /\ rest \in Seq(Tokens) /\ content \in Seq(Tokens)
      /\ head \in Tokens /\ rest \o wire[c] \in Seq(Tokens)
      /\ Fits(rest \o wire[c], sent[c], sending[c], <<>>, executed[c])
      /\ \A y \in Tokens :
           Fits(rest \o wire[c], sent[c], sending[c], <<head, y>>, executed[c])
  BY <1>1, ConnTypes, PackageOf
<1>3. \/ chunk' = chunk /\ file' = file /\ alone' = alone /\ missed' = missed
      \/ /\ content # <<>>
         /\ chunk' = [chunk EXCEPT ![c] = <<head, content[1]>>]
         /\ file' \in {<<>>, file}
         /\ Use(c, head.num = 1)
         /\ missed' = [missed EXCEPT ![c] = @ /\ head.num # 1]
  BY DEF ProcessFile
<1> HIDE DEF head, rest, content
<1>4. PICK ch \in Held :
        /\ chunk' = [chunk EXCEPT ![c] = ch]
        /\ ch # <<>> => ch[1].kind = "file"
        /\ Fits(rest \o wire[c], sent[c], sending[c], ch, executed[c])
  <2>1. CASE chunk' = chunk
    <3>1. chunk' = [chunk EXCEPT ![c] = <<>>] /\ <<>> \in Held
      BY <1>1, <2>1 DEF WireInv, TypeOK, Held
    <3> QED BY <1>2, <3>1
  <2>2. CASE content # <<>> /\ chunk' = [chunk EXCEPT ![c] = <<head, content[1]>>]
    <3>1. content[1] \in Tokens
      BY <1>2, <2>2
    <3>2. <<head, content[1]>> \in Held /\ <<head, content[1]>>[1] = head
      BY <1>2, <3>1 DEF Held
    <3> QED BY <1>1, <1>2, <2>2, <3>1, <3>2
  <2> QED BY <1>3, <2>1, <2>2
<1>5. /\ file' \in Seq(Tokens) /\ alone' \in [Conns -> BOOLEAN]
      /\ missed' \in [Conns -> BOOLEAN]
  <2>1. /\ file \in Seq(Tokens) /\ <<>> \in Seq(Tokens) /\ alone \in [Conns -> BOOLEAN]
        /\ missed \in [Conns -> BOOLEAN]
    BY DEF WireInv, TypeOK
  <2>2. file' \in Seq(Tokens) /\ alone' \in [Conns -> BOOLEAN]
    BY <1>3, <2>1 DEF Use
  <2>3. missed' \in [Conns -> BOOLEAN]
    BY <1>3, <2>1, Zenon
  <2> QED BY <2>2, <2>3
<1>6. /\ m_strData' \in [Conns -> Seq(Tokens)] /\ m_strData'[c] = rest
      /\ \A d \in Conns \ {c} : m_strData'[d] = m_strData[d]
      /\ chunk' \in [Conns -> Held] /\ chunk'[c] = ch
      /\ \A d \in Conns \ {c} : chunk'[d] = chunk[d]
  <2>1. m_strData \in [Conns -> Seq(Tokens)] /\ chunk \in [Conns -> Held]
    BY DEF WireInv, TypeOK, Held
  <2> QED BY <1>1, <1>2, <1>4, <2>1
<1>7. TypeOK'
  BY <1>1, <1>5, <1>6 DEF WireInv, TypeOK, Held
<1>8. ConnOK(c)'
  <2>1. /\ Stream(c)' = rest \o wire[c] /\ executed'[c] = executed[c]
        /\ sent'[c] = sent[c] /\ sending'[c] = sending[c]
    BY <1>1, <1>6 DEF Stream
  <2>2. sending[c] > 0 => sent[c] # <<>>
    BY ConnTypes
  <2> QED BY <1>4, <1>6, <2>1, <2>2 DEF ConnOK
<1>9. \A d \in Conns \ {c} : Untouched(d)
  BY <1>1, <1>6 DEF Untouched
<1> QED BY <1>7, <1>8, <1>9, OneAtATime

LEMMA KeepsWriteChunk ==
  ASSUME WireInv, NEW c \in Conns, WriteChunk(c)
  PROVE  WireInv'
<1> DEFINE head == chunk[c][1]
           e == [kind |-> head.kind, id |-> head.id, content |-> file', alone |-> alone[c],
                 missed |-> missed[c]]
<1>1. /\ chunk[c] # <<>> /\ file' = Append(file, chunk[c][2])
      /\ chunk' = [chunk EXCEPT ![c] = <<>>] /\ Use(c, FALSE)
      /\ UNCHANGED <<sent, sending, cut, beats, wire, m_strData, m_strMsgContent, processing,
                     missed>>
  BY DEF WriteChunk, sendVars
<1>2. \/ executed' = executed
      \/ /\ ~ (head.num < head.allnum)
         /\ executed' = [executed EXCEPT ![c] = Append(@, e)]
  BY DEF WriteChunk, Execute
<1>3. /\ chunk[c] \in Tokens \X Tokens /\ head \in Tokens /\ chunk[c][2] \in Tokens
      /\ head.kind = "file"
  <2>1. chunk[c] \in Tokens \X Tokens
    BY <1>1, ConnTypes DEF Held
  <2> QED BY <1>1, <2>1 DEF WireInv, ConnOK
<1>4. /\ file' \in Seq(Tokens) /\ alone' \in [Conns -> BOOLEAN]
      /\ alone[c] \in BOOLEAN /\ missed[c] \in BOOLEAN
  <2>1. /\ file \in Seq(Tokens) /\ alone \in [Conns -> BOOLEAN]
        /\ missed \in [Conns -> BOOLEAN]
    BY DEF WireInv, TypeOK
  <2> QED BY <1>1, <1>3, <2>1 DEF Use
<1>5. /\ sent[c] \in Seq(Items) /\ sending[c] \in Nat /\ executed[c] \in Seq(Dones)
      /\ Stream(c) \in Seq(Tokens)
      /\ sending[c] > 0 =>
           sent[c] # <<>> /\ sending[c] <= PackageCount(sent[c][Len(sent[c])].size)
      /\ Fits(Stream(c), sent[c], sending[c], chunk[c], executed[c])
  BY ConnTypes
<1>6. e \in Dones
  <2>1. head.id \in 1 .. Len(sent[c]) /\ Len(sent[c]) \in Nat
    BY <1>1, <1>5 DEF Fits, ChunkFits, HeadFits
  <2> QED BY <1>3, <1>4, <2>1 DEF Dones
<1>7. e.id = head.id
  OBVIOUS
<1> HIDE DEF e
<1>8. /\ executed' \in [Conns -> Seq(Dones)]
      /\ \A d \in Conns \ {c} : executed'[d] = executed[d]
      /\ executed'[c] \in {executed[c], Append(executed[c], e)}
      /\ head.num < head.allnum => executed'[c] = executed[c]
  <2>1. executed \in [Conns -> Seq(Dones)]
    BY DEF WireInv, TypeOK, Dones
  <2>2. Append(executed[c], e) \in Seq(Dones)
    BY <1>6, <2>1
  <2> QED BY <1>2, <2>1, <2>2
<1>9. Fits(Stream(c), sent[c], sending[c], <<>>, executed'[c])
  <2>1. CASE executed'[c] = executed[c]
    BY <1>5, <2>1, FitsDropped
  <2>2. CASE executed'[c] = Append(executed[c], e) /\ ~ (head.num < head.allnum)
    BY <1>3, <1>5, <1>6, <1>7, <2>2, FitsExecuted
  <2> QED BY <1>8, <2>1, <2>2
<1>10. /\ chunk' \in [Conns -> Held] /\ chunk'[c] = <<>>
       /\ \A d \in Conns \ {c} : chunk'[d] = chunk[d]
  <2>1. chunk \in [Conns -> Held] /\ <<>> \in Held
    BY DEF WireInv, TypeOK, Held
  <2> QED BY <1>1, <2>1
<1>11. TypeOK'
  BY <1>1, <1>4, <1>8, <1>10 DEF WireInv, TypeOK, Held, Dones
<1>12. ConnOK(c)'
  <2>1. /\ Stream(c)' = Stream(c) /\ sent'[c] = sent[c] /\ sending'[c] = sending[c]
    BY <1>1 DEF Stream
  <2> QED BY <1>5, <1>9, <1>10, <2>1 DEF ConnOK
<1>13. \A d \in Conns \ {c} : Untouched(d)
  BY <1>1, <1>8, <1>10 DEF Untouched
<1> QED BY <1>11, <1>12, <1>13, OneAtATime

LEMMA KeepsOpenFailed ==
  ASSUME WireInv, NEW c \in Conns, OpenFailed(c)
  PROVE  WireInv'
<1>1. /\ chunk' = [chunk EXCEPT ![c] = <<>>]
      /\ UNCHANGED <<sent, sending, cut, beats, wire, m_strData, m_strMsgContent,
                     file, alone, executed>>
  BY DEF OpenFailed, sendVars
<1>2. missed' \in [Conns -> BOOLEAN] /\ processing' \in [Conns -> BOOLEAN]
  BY DEF OpenFailed, WireInv, TypeOK
<1>3. /\ chunk' \in [Conns -> Held] /\ chunk'[c] = <<>>
      /\ \A d \in Conns \ {c} : chunk'[d] = chunk[d]
  <2>1. chunk \in [Conns -> Held] /\ <<>> \in Held
    BY DEF WireInv, TypeOK, Held
  <2> QED BY <1>1, <2>1
<1>4. TypeOK'
  BY <1>1, <1>2, <1>3 DEF WireInv, TypeOK, Held
<1>5. ConnOK(c)'
  <2>1. /\ Stream(c)' = Stream(c) /\ sent'[c] = sent[c] /\ sending'[c] = sending[c]
        /\ executed'[c] = executed[c]
    BY <1>1 DEF Stream
  <2>2. Fits(Stream(c), sent[c], sending[c], <<>>, executed[c])
    BY ConnTypes, FitsDropped
  <2>3. sending[c] > 0 => sent[c] # <<>>
    BY ConnTypes
  <2> QED BY <1>3, <2>1, <2>2, <2>3 DEF ConnOK
<1>6. \A d \in Conns \ {c} : Untouched(d)
  BY <1>1, <1>3 DEF Untouched
<1> QED BY <1>4, <1>5, <1>6, OneAtATime

LEMMA KeepsProcessEnd ==
  ASSUME WireInv, NEW c \in Conns, ProcessEnd(c)
  PROVE  WireInv'
<1>1. /\ processing' \in [Conns -> BOOLEAN]
      /\ UNCHANGED <<sent, sending, cut, beats, wire, m_strData, m_strMsgContent, chunk,
                     file, alone, missed, executed>>
  BY DEF ProcessEnd, sendVars, WireInv, TypeOK
<1>2. TypeOK'
  BY <1>1 DEF WireInv, TypeOK
<1>3. \A d \in Conns : Untouched(d)
  BY <1>1 DEF Untouched
<1>4. ConnOK(c)'
  BY <1>1 DEF WireInv, ConnOK, Stream
<1> QED BY <1>2, <1>3, <1>4, OneAtATime

LEMMA NextWire == ASSUME WireInv, [Next]_vars PROVE WireInv'
<1>1. CASE UNCHANGED vars
  BY <1>1 DEF vars, WireInv, TypeOK, ConnOK, Stream
<1>2. ASSUME NEW c \in Conns, SendMsgTo(c) PROVE WireInv'
  BY <1>2, KeepsSend DEF SendMsgTo
<1>3. ASSUME NEW c \in Conns, SendFileTo(c) PROVE WireInv'
  BY <1>3, KeepsSend DEF SendFileTo
<1>4. ASSUME NEW c \in Conns, Process(c) PROVE WireInv'
  BY <1>4, KeepsProcessMsg, KeepsProcessFile, KeepsWriteChunk, KeepsOpenFailed,
     KeepsProcessEnd DEF Process
<1>5. CASE Quiet
  BY <1>1, <1>5 DEF Quiet
<1> QED BY <1>1, <1>2, <1>3, <1>4, <1>5, KeepsSendPackage, KeepsSendBeat, KeepsReceive
    DEF Next
-----------------------------------------------------------------------------
LEMMA WireInductive == Spec => []WireInv
<1>1. Init => WireInv
  BY InitWire
<1>2. WireInv /\ [Next]_vars => WireInv'
  BY NextWire
<1> QED BY <1>1, <1>2, PTL DEF Spec

(* Sender and receiver keep their variables in the sets TypeOK gives, and  *)
(* a send in progress is never past its last package (function.cpp:82-157).*)
THEOREM TypeCorrect == Spec => []TypeOK
<1>1. WireInv => TypeOK
  BY DEF WireInv
<1> QED BY <1>1, WireInductive, PTL

(* Whatever send() cuts, an open that fails leaves behind and heartbeats   *)
(* come between, Process (function.cpp:175-375) executes no message or file*)
(* twice and none after a later one.                                       *)
THEOREM ExecutedInOrderCorrect == Spec => []ExecutedInOrder
<1>1. WireInv => ExecutedInOrder
  <2> SUFFICES ASSUME WireInv, NEW c \in Conns, NEW j \in DOMAIN executed[c],
                      NEW k \in DOMAIN executed[c], j < k
               PROVE  executed[c][j].id < executed[c][k].id
    BY DEF ExecutedInOrder
  <2>1. executed[c] \in Seq(Dones) /\ DoneFits(executed[c], chunk[c], Stream(c), sent[c], sending[c])
    BY ConnTypes DEF Fits
  <2>2. j \in 1 .. Len(executed[c]) /\ k \in j + 1 .. Len(executed[c])
    BY <2>1
  <2> QED BY <2>1, <2>2 DEF DoneFits
<1> QED BY <1>1, WireInductive, PTL
=============================================================================
