----------------------------- MODULE VmaProofs -----------------------------
(***************************************************************************)
(* Proofs about Vma, for every size of pages, every layout of the address  *)
(* space and every program file.                                           *)
(***************************************************************************)
EXTENDS Vma, Iteration

-----------------------------------------------------------------------------
(* Pages.                                                                  *)

\* remove_flag goes back to the beginning of the page.
LEMMA PageIs ==
    ASSUME NEW a \in Nat
    PROVE  /\ Page(a) \in 0..a /\ a < Page(a) + PAGE_SIZE
           /\ \E k \in Nat : Page(a) = PAGE_SIZE * k
           /\ Page(a) % PAGE_SIZE = 0 /\ Page(Page(a)) = Page(a)
  <1> DEFINE q == a \div PAGE_SIZE
             r == a % PAGE_SIZE
  <1>1. PAGE_SIZE \in Nat \ {0}
    BY LayoutAssumption
  <1>2. q \in Int /\ r \in 0..(PAGE_SIZE - 1) /\ a = PAGE_SIZE * q + r
    BY <1>1
  <1>3. Page(a) = a - r
    BY DEF Page
  <1> HIDE DEF q, r
  <1>4. q >= 0
    <2>1. q <= -1 => PAGE_SIZE * q <= -PAGE_SIZE
      BY <1>1, <1>2, Multiples
    <2> QED BY <1>1, <1>2, <2>1
  <1>5. Page(a) = PAGE_SIZE * q
    BY <1>1, <1>2, <1>3
  <1>6. PAGE_SIZE * q >= 0
    <2>1. q = 0 => PAGE_SIZE * q = 0
      BY <1>1
    <2>2. q >= 1 => PAGE_SIZE * q >= PAGE_SIZE
      BY <1>1, <1>2, Multiples
    <2> QED BY <1>1, <1>2, <1>4, <2>1, <2>2
  <1>7. Page(a) \in 0..a /\ a < Page(a) + PAGE_SIZE
    BY <1>1, <1>2, <1>3, <1>5, <1>6
  <1>8. Page(a) % PAGE_SIZE = 0
    <2>1. Page(a) \in Int /\ 0 \in 0..(PAGE_SIZE - 1) /\ Page(a) = PAGE_SIZE * q + 0
      BY <1>1, <1>5, <1>7, <1>2
    <2> QED BY <1>1, <1>2, <2>1, DivUnique
  <1>9. Page(Page(a)) = Page(a)
    BY <1>7, <1>8 DEF Page
  <1>10. \E k \in Nat : Page(a) = PAGE_SIZE * k
    BY <1>2, <1>4, <1>5
  <1> QED BY <1>7, <1>8, <1>9, <1>10

\* An address on a lower page is lower.
LEMMA PageOrder ==
    ASSUME NEW a \in Nat, NEW b \in Nat, Page(a) < Page(b)
    PROVE  a < b
  <1>1. PAGE_SIZE \in Nat \ {0}
    BY LayoutAssumption
  <1>2. PICK j \in Nat : Page(a) = PAGE_SIZE * j
    BY PageIs
  <1>3. PICK k \in Nat : Page(b) = PAGE_SIZE * k
    BY PageIs
  <1>4. /\ Page(a) \in Nat /\ a < Page(a) + PAGE_SIZE
        /\ Page(b) \in Nat /\ Page(b) <= b
    BY PageIs
  <1>5. PAGE_SIZE * (k - j) = Page(b) - Page(a)
    BY <1>1, <1>2, <1>3
  <1>6. k - j >= 1
    <2>1. k - j <= -1 => PAGE_SIZE * (k - j) <= -PAGE_SIZE
      BY <1>1, Multiples
    <2>2. k - j = 0 => PAGE_SIZE * (k - j) = 0
      BY <1>1
    <2> QED BY <1>1, <1>4, <1>5, <2>1, <2>2
  <1>7. PAGE_SIZE * (k - j) >= PAGE_SIZE
    BY <1>1, <1>6, Multiples
  <1> QED BY <1>1, <1>4, <1>5, <1>7

-----------------------------------------------------------------------------
(* The list.                                                               *)

\* The ends of an area are numbers.
LEMMA AreaNumbers ==
    ASSUME NEW a \in Areas
    PROVE  a.start \in Nat /\ a.end \in Nat
  <1>1. a.start \in Addresses /\ a.end \in Addresses
    BY DEF Areas
  <1> QED BY <1>1, LayoutAssumption DEF Addresses

\* add_mmstruct puts an area somewhere in the list.
LEMMA AddStays ==
    ASSUME NEW X, X \subseteq Areas, NEW list \in Seq(X), NEW v \in X
    PROVE  /\ Position(list, v) \in 1..(Len(list) + 1)
           /\ AddMmstruct(list, v) \in Seq(X) /\ AddAndCut(list, v) \in Seq(X)
  <1> DEFINE above == {i \in 2..Len(list) : list[i].start >= v.end}
             k == Position(list, v)
  <1>1. k \in 1..(Len(list) + 1)
    <2>1. CASE list = <<>> \/ v.end <= list[1].end
      BY <2>1 DEF Position
    <2>2. CASE ~(list = <<>> \/ v.end <= list[1].end)
      <3>1. CASE above = {}
        BY <2>2, <3>1 DEF Position
      <3>2. CASE above # {}
        <4>1. above \subseteq Nat
          OBVIOUS
        <4>2. \E i \in above : \A j \in above : i <= j
          <5> HIDE DEF above
          <5> QED BY <3>2, <4>1, LeastNumber
        <4>3. k \in above
          BY <2>2, <3>2, <4>2 DEF Position
        <4> QED BY <4>3
      <3> QED BY <3>1, <3>2
    <2> QED BY <2>1, <2>2
  <1> HIDE DEF k
  <1>2. AddMmstruct(list, v) = SubSeq(list, 1, k - 1) \o <<v>> \o SubSeq(list, k, Len(list))
    BY DEF AddMmstruct, InsertAt, k
  <1>3. SubSeq(list, 1, k - 1) \in Seq(X) /\ SubSeq(list, k, Len(list)) \in Seq(X)
    BY <1>1
  <1>4. AddMmstruct(list, v) \in Seq(X) /\ Len(AddMmstruct(list, v)) = Len(list) + 1
    <2> DEFINE a == SubSeq(list, 1, k - 1)
               b == SubSeq(list, k, Len(list))
               av == a \o <<v>>
    <2>1. Len(a) = k - 1 /\ Len(b) = Len(list) - k + 1
      BY <1>1
    <2> HIDE DEF a, b
    <2>2. av \in Seq(X) /\ Len(av) = k
      BY <1>1, <1>3, <2>1 DEF a
    <2> HIDE DEF av
    <2>3. av \o b \in Seq(X) /\ Len(av \o b) = Len(list) + 1
      BY <1>1, <1>3, <2>1, <2>2 DEF b
    <2> QED BY <1>2, <2>3 DEF av, a, b
  <1>5. AddAndCut(list, v) = SubSeq(AddMmstruct(list, v), 1, k)
    BY DEF AddAndCut, k
  <1>6. AddAndCut(list, v) \in Seq(X)
    BY <1>1, <1>4, <1>5
  <1> QED BY <1>1, <1>4, <1>6 DEF k

\* An area that ends above the first one and above the beginning of the others
\* goes to the end, and nothing is cut off.
LEMMA AddLast ==
    ASSUME NEW list \in Seq(Areas), NEW v \in Areas,
           list # <<>> => list[1].end < v.end,
           \A i \in DOMAIN list : list[i].start < v.end
    PROVE  AddMmstruct(list, v) = Append(list, v) /\ AddAndCut(list, v) = Append(list, v)
  <1> DEFINE n == Len(list)
  <1>0. /\ n \in Nat /\ v.end \in Nat
        /\ \A i \in 1..n : list[i].start \in Nat /\ list[i].end \in Nat
    <2>1. \A a \in Areas : a.start \in Nat /\ a.end \in Nat
      BY AreaNumbers
    <2>2. n \in Nat /\ \A i \in 1..n : list[i] \in Areas
      OBVIOUS
    <2> QED BY <2>1, <2>2
  <1>1. Position(list, v) = n + 1
    <2>1. CASE list = <<>>
      BY <2>1 DEF Position
    <2>2. CASE list # <<>>
      <3>1. 1 \in 1..n /\ ~(v.end <= list[1].end)
        BY <1>0, <2>2
      <3>2. {i \in 2..n : list[i].start >= v.end} = {}
        BY <1>0
      <3> QED BY <2>2, <3>1, <3>2 DEF Position
    <2> QED BY <2>1, <2>2
  <1>2. AddMmstruct(list, v) = SubSeq(list, 1, n) \o <<v>> \o SubSeq(list, n + 1, n)
    BY <1>0, <1>1 DEF AddMmstruct, InsertAt
  <1>3. SubSeq(list, 1, n) = list /\ SubSeq(list, n + 1, n) = <<>>
    BY <1>0
  <1>4. AddMmstruct(list, v) = Append(list, v)
    <2>1. list \o <<v>> = Append(list, v) /\ Append(list, v) \in Seq(Areas)
      OBVIOUS
    <2>2. Append(list, v) \o <<>> = Append(list, v)
      BY <2>1
    <2> QED BY <1>2, <1>3, <2>1, <2>2
  <1>5. SubSeq(Append(list, v), 1, n + 1) = Append(list, v)
    BY <1>0
  <1> QED BY <1>1, <1>4, <1>5 DEF AddAndCut

\* The area of a segment.
LEMMA SegmentArea ==
    ASSUME NEW s \in Segments
    PROVE  /\ s.start \in Nat /\ s.size \in Nat \ {0} /\ SegmentType(s.flags) \in {"TEXT", "DATA"}
           /\ s.start + s.size + PAGE_SIZE <= HEAP_ADDR
           /\ Area(s.start, s.start + s.size, SegmentType(s.flags)) \in Areas
  <1>1. /\ s.start \in Nat /\ s.size \in Nat \ {0} /\ SegmentType(s.flags) \in {"TEXT", "DATA"}
        /\ s.start + s.size + PAGE_SIZE <= HEAP_ADDR
    BY LayoutAssumption DEF SegmentType
  <1>2. s.start \in Addresses /\ s.start + s.size \in Addresses
    BY <1>1, LayoutAssumption DEF Addresses
  <1> QED BY <1>1, <1>2 DEF Area, Areas

\* load_binaries, segment by segment.
LEMMA LoadFold ==
    ASSUME NEW hdrs \in Seq(Segments)
    PROVE  \E w \in [0..Len(hdrs) -> Seq(Areas)] :
              /\ w[0] = <<>> /\ LoadSegments(hdrs) = w[Len(hdrs)]
              /\ \A k \in 1..Len(hdrs) : w[k] = LoadSegment(w[k - 1], hdrs[k])
  <1> DEFINE X == Seq(Areas)
             n == Len(hdrs)
             R(it) == [z \in SUBSET (1..n) |->
                         IF z = {} THEN <<>> ELSE LoadSegment(it[z \ {Max(z)}], hdrs[Max(z)])]
             g == [w \in X \X (1..n) |-> LoadSegment(w[1], hdrs[w[2]])]
             iter == CHOOSE it : it = R(it)
  <1>1. n \in Nat /\ DOMAIN hdrs = 1..n /\ \A i \in 1..n : hdrs[i] \in Segments
    OBVIOUS
  <1>2. LoadSegments(hdrs) = iter[1..n]
    BY <1>1 DEF LoadSegments, FoldLeft, MapThenFoldSet
  <1>a. <<>> \in X /\ \A v \in X, i \in 1..n : LoadSegment(v, hdrs[i]) \in X
    BY <1>1, SegmentArea, AddStays DEF LoadSegment
  <1> HIDE DEF X
  <1>3. \A v \in X, i \in 1..n : /\ g[<<v, i>>] = LoadSegment(v, hdrs[i])
                                 /\ g[<<v, i>>] \in X
    BY <1>1, <1>a
  <1>4. \E it : it = R(it)
    <2> HIDE DEF n, g
    <2>1. PICK it \in [SUBSET (1..n) -> X] : IsFold(it, <<>>, n, g)
      BY <1>1, <1>a, <1>3, FoldExists
    <2>2. ASSUME NEW z \in SUBSET (1..n)
          PROVE  it[z] = IF z = {} THEN <<>> ELSE LoadSegment(it[z \ {Max(z)}], hdrs[Max(z)])
      <3>1. it[z] = IF z = {} THEN <<>> ELSE g[<<it[z \ {Max(z)}], Max(z)>>]
        BY <2>1 DEF IsFold
      <3>2. CASE z # {}
        <4>1. Max(z) \in 1..n /\ z \ {Max(z)} \in SUBSET (1..n)
          BY <1>1, <3>2, MaxIsPlace
        <4>2. it[z \ {Max(z)}] \in X
          BY <2>1, <4>1
        <4> QED BY <1>3, <3>1, <3>2, <4>1, <4>2
      <3> QED BY <3>1, <3>2
    <2> QED BY <2>1, <2>2
  <1> HIDE DEF g
  <1>5. iter = R(iter)
    BY <1>4
  <1> HIDE DEF iter
  <1>6. iter[{}] \in X
    BY <1>5, <1>a
  <1>7. ASSUME NEW k \in 1..n PROVE iter[1..k] = LoadSegment(iter[1..(k - 1)], hdrs[k])
    <2> HIDE DEF n
    <2>1. 1..k \in SUBSET (1..n) /\ 1..k # {} /\ Max(1..k) = k /\ (1..k) \ {k} = 1..(k - 1)
      BY <1>1, FoldPlaces
    <2>2. iter[1..k] = R(iter)[1..k]
      BY <1>5
    <2> QED BY <2>1, <2>2
  <1>8. \A k \in 1..n : iter[1..(k - 1)] \in X => iter[1..k] \in X
    BY <1>1, <1>a, <1>7
  <1> HIDE DEF n
  <1>9. \A k \in 0..n : iter[1..k] \in X
    BY <1>1, <1>6, <1>8, FoldStays
  <1> DEFINE w == [k \in 0..n |-> iter[1..k]]
  <1>10. w \in [0..n -> X]
    BY <1>9
  <1>11. w[0] = <<>> /\ LoadSegments(hdrs) = w[n]
    <2>1. 1..0 = {} /\ 0 \in 0..n /\ n \in 0..n
      BY <1>1
    <2>2. iter[{}] = <<>>
      BY <1>5
    <2> QED BY <1>2, <2>1, <2>2
  <1>12. \A k \in 1..n : w[k] = LoadSegment(w[k - 1], hdrs[k])
    <2> TAKE k \in 1..n
    <2>1. k \in 0..n /\ k - 1 \in 0..n
      BY <1>1
    <2> QED BY <1>7, <2>1
  <1> HIDE DEF w
  <1> QED BY <1>10, <1>11, <1>12 DEF n, X

\* The copy of a list, area by area.
LEMMA CopyFold ==
    ASSUME NEW list \in Seq(Areas)
    PROVE  \E w \in [0..Len(list) -> Seq(Areas)] :
              /\ w[0] = <<>> /\ CopyVma(list) = w[Len(list)]
              /\ \A k \in 1..Len(list) : w[k] = AddMmstruct(w[k - 1], list[k])
  <1> DEFINE X == Seq(Areas)
             n == Len(list)
             R(it) == [z \in SUBSET (1..n) |->
                         IF z = {} THEN <<>> ELSE AddMmstruct(it[z \ {Max(z)}], list[Max(z)])]
             g == [w \in X \X (1..n) |-> AddMmstruct(w[1], list[w[2]])]
             iter == CHOOSE it : it = R(it)
  <1>1. n \in Nat /\ DOMAIN list = 1..n /\ \A i \in 1..n : list[i] \in Areas
    OBVIOUS
  <1>2. CopyVma(list) = iter[1..n]
    BY <1>1 DEF CopyVma, FoldLeft, MapThenFoldSet
  <1>a. <<>> \in X /\ \A v \in X, i \in 1..n : AddMmstruct(v, list[i]) \in X
    BY <1>1, AddStays
  <1> HIDE DEF X
  <1>3. \A v \in X, i \in 1..n : /\ g[<<v, i>>] = AddMmstruct(v, list[i])
                                 /\ g[<<v, i>>] \in X
    BY <1>1, <1>a
  <1>4. \E it : it = R(it)
    <2> HIDE DEF n, g
    <2>1. PICK it \in [SUBSET (1..n) -> X] : IsFold(it, <<>>, n, g)
      BY <1>1, <1>a, <1>3, FoldExists
    <2>2. ASSUME NEW z \in SUBSET (1..n)
          PROVE  it[z] = IF z = {} THEN <<>> ELSE AddMmstruct(it[z \ {Max(z)}], list[Max(z)])
      <3>1. it[z] = IF z = {} THEN <<>> ELSE g[<<it[z \ {Max(z)}], Max(z)>>]
        BY <2>1 DEF IsFold
      <3>2. CASE z # {}
        <4>1. Max(z) \in 1..n /\ z \ {Max(z)} \in SUBSET (1..n)
          BY <1>1, <3>2, MaxIsPlace
        <4>2. it[z \ {Max(z)}] \in X
          BY <2>1, <4>1
        <4> QED BY <1>3, <3>1, <3>2, <4>1, <4>2
      <3> QED BY <3>1, <3>2
    <2> QED BY <2>1, <2>2
  <1> HIDE DEF g
  <1>5. iter = R(iter)
    BY <1>4
  <1> HIDE DEF iter
  <1>6. iter[{}] \in X
    BY <1>5, <1>a
  <1>7. ASSUME NEW k \in 1..n PROVE iter[1..k] = AddMmstruct(iter[1..(k - 1)], list[k])
    <2> HIDE DEF n
    <2>1. 1..k \in SUBSET (1..n) /\ 1..k # {} /\ Max(1..k) = k /\ (1..k) \ {k} = 1..(k - 1)
      BY <1>1, FoldPlaces
    <2>2. iter[1..k] = R(iter)[1..k]
      BY <1>5
    <2> QED BY <2>1, <2>2
  <1>8. \A k \in 1..n : iter[1..(k - 1)] \in X => iter[1..k] \in X
    BY <1>1, <1>a, <1>7
  <1> HIDE DEF n
  <1>9. \A k \in 0..n : iter[1..k] \in X
    BY <1>1, <1>6, <1>8, FoldStays
  <1> DEFINE w == [k \in 0..n |-> iter[1..k]]
  <1>10. w \in [0..n -> X]
    BY <1>9
  <1>11. w[0] = <<>> /\ CopyVma(list) = w[n]
    <2>1. 1..0 = {} /\ 0 \in 0..n /\ n \in 0..n
      BY <1>1
    <2>2. iter[{}] = <<>>
      BY <1>5
    <2> QED BY <1>2, <2>1, <2>2
  <1>12. \A k \in 1..n : w[k] = AddMmstruct(w[k - 1], list[k])
    <2> TAKE k \in 1..n
    <2>1. k \in 0..n /\ k - 1 \in 0..n
      BY <1>1
    <2> QED BY <1>7, <2>1
  <1> HIDE DEF w
  <1> QED BY <1>10, <1>11, <1>12 DEF n, X

\* Every area ends before the ones behind it begin.
Ordered(list) ==
    /\ \A i \in DOMAIN list : list[i].start <= list[i].end
    /\ \A i, j \in DOMAIN list : i < j => list[i].end < list[j].start

\* An ordered list is copied link by link.
LEMMA CopyIs ==
    ASSUME NEW list \in Seq(Areas), Ordered(list)
    PROVE  CopyVma(list) = list
  <1> DEFINE n == Len(list)
  <1>1. n \in Nat /\ DOMAIN list = 1..n /\ \A i \in 1..n : list[i] \in Areas
    OBVIOUS
  <1>2. PICK w \in [0..n -> Seq(Areas)] :
           /\ w[0] = <<>> /\ CopyVma(list) = w[n]
           /\ \A k \in 1..n : w[k] = AddMmstruct(w[k - 1], list[k])
    BY CopyFold
  <1> DEFINE S == {k \in 0..n : w[k] = SubSeq(list, 1, k)}
  <1>3. 0 \in S
    BY <1>1, <1>2
  <1>4. \A k \in 1..n : k - 1 \in S => k \in S
    <2> SUFFICES ASSUME NEW k \in 1..n, k - 1 \in S PROVE w[k] = SubSeq(list, 1, k)
      BY <1>1
    <2> DEFINE front == SubSeq(list, 1, k - 1)
               v == list[k]
    <2>1. /\ front \in Seq(Areas) /\ Len(front) = k - 1
          /\ \A i \in 1..(k - 1) : front[i] = list[i] /\ i \in 1..n /\ i < k
      BY <1>1
    <2>2. w[k - 1] = front /\ v \in Areas /\ w[k] = AddMmstruct(front, v)
      BY <1>1, <1>2
    <2>3. Append(front, v) = SubSeq(list, 1, k)
      BY <1>1
    <2>4. \A i \in 1..(k - 1) : list[i].start <= list[i].end /\ list[i].end < v.start /\ v.start <= v.end
      BY <1>1, <2>1 DEF Ordered
    <2>5. v.start \in Nat /\ v.end \in Nat
      BY <2>2, AreaNumbers
    <2>6. \A i \in 1..(k - 1) : list[i].start \in Nat /\ list[i].end \in Nat
      BY <1>1, <2>1, AreaNumbers
    <2>7. \A i \in 1..(k - 1) : list[i].start < v.end /\ list[i].end < v.end
      BY <2>4, <2>5, <2>6
    <2> HIDE DEF front, v
    <2>8. DOMAIN front = 1..(k - 1) /\ (front # <<>> => 1 \in 1..(k - 1))
      BY <2>1
    <2>9. (front # <<>> => front[1].end < v.end) /\ \A i \in DOMAIN front : front[i].start < v.end
      BY <2>1, <2>7, <2>8
    <2>10. AddMmstruct(front, v) = Append(front, v)
      BY <2>1, <2>2, <2>9, AddLast
    <2> QED BY <2>2, <2>3, <2>10
  <1> HIDE DEF S
  <1>5. \A k \in 0..n : k \in S
    BY <1>1, <1>3, <1>4, BoundedInduction
  <1>6. w[n] = SubSeq(list, 1, n)
    BY <1>1, <1>5, SMTT(20) DEF S
  <1> QED BY <1>1, <1>2, <1>6

-----------------------------------------------------------------------------
(* load_binaries.                                                          *)

\* The areas of the segments, in the order of the file.
SegmentList(hdrs) == [i \in DOMAIN hdrs |-> Area(hdrs[i].start, hdrs[i].start + hdrs[i].size, SegmentType(hdrs[i].flags))]

\* A program file, and the order of its segments.
LEMMA ProgramIs ==
    ASSUME NEW hdrs \in Programs, Loadable(hdrs)
    PROVE  /\ hdrs \in Seq(Segments) /\ Len(hdrs) \in {1, 2}
           /\ SegmentList(hdrs) \in Seq(Areas) /\ Ordered(SegmentList(hdrs))
           /\ Len(SegmentList(hdrs)) = Len(hdrs)
  <1> DEFINE L == SegmentList(hdrs)
  <1>1. hdrs \in Seq(Segments) /\ Len(hdrs) \in {1, 2}
    <2>1. CASE \E t \in Segments : hdrs = <<t>>
      BY <2>1
    <2>2. CASE \E t \in Segments, d \in Segments : hdrs = <<t, d>>
      BY <2>2
    <2> QED BY <2>1, <2>2 DEF Programs
  <1>2. \A i \in 1..Len(hdrs) :
           /\ hdrs[i].start \in Nat /\ hdrs[i].size \in Nat \ {0}
           /\ Area(hdrs[i].start, hdrs[i].start + hdrs[i].size, SegmentType(hdrs[i].flags)) \in Areas
    BY <1>1, SegmentArea
  <1>3. L = [i \in 1..Len(hdrs) |-> Area(hdrs[i].start, hdrs[i].start + hdrs[i].size, SegmentType(hdrs[i].flags))]
    BY <1>1 DEF SegmentList
  <1>4. L \in Seq(Areas) /\ Len(L) = Len(hdrs)
    BY <1>1, <1>2, <1>3
  <1>5. \A i \in 1..Len(hdrs) : L[i].start = hdrs[i].start /\ L[i].end = hdrs[i].start + hdrs[i].size
    BY <1>3 DEF Area
  <1>6. \A i, j \in 1..Len(hdrs) : i < j => L[i].end < L[j].start
    <2> SUFFICES ASSUME NEW i \in 1..Len(hdrs), NEW j \in 1..Len(hdrs), i < j
                 PROVE  L[i].end < L[j].start
      OBVIOUS
    <2>1. Len(hdrs) = 2 /\ i = 1 /\ j = 2
      <3>1. CASE Len(hdrs) = 1
        BY <3>1
      <3>2. CASE Len(hdrs) = 2
        BY <3>2
      <3> QED BY <1>1, <3>1, <3>2
    <2>2. Page(hdrs[1].start + hdrs[1].size) < Page(hdrs[2].start)
      BY <2>1 DEF Loadable
    <2>3. hdrs[1].start + hdrs[1].size \in Nat /\ hdrs[2].start \in Nat
      BY <1>2, <2>1
    <2>4. hdrs[1].start + hdrs[1].size < hdrs[2].start
      BY <2>2, <2>3, PageOrder
    <2> QED BY <1>5, <2>1, <2>4
  <1>7. \A i \in 1..Len(hdrs) : L[i].start <= L[i].end
    BY <1>2, <1>5
  <1> HIDE DEF L
  <1>8. DOMAIN L = 1..Len(hdrs)
    BY <1>3
  <1>9. Ordered(L)
    BY <1>6, <1>7, <1>8 DEF Ordered
  <1> QED BY <1>1, <1>4, <1>9 DEF L

\* An area above an ordered list goes to its end.
LEMMA AddAbove ==
    ASSUME NEW list \in Seq(Areas), Ordered(list), NEW v \in Areas,
           v.start <= v.end, \A i \in DOMAIN list : list[i].end < v.start
    PROVE  /\ AddMmstruct(list, v) = Append(list, v) /\ AddAndCut(list, v) = Append(list, v)
           /\ Append(list, v) \in Seq(Areas) /\ Ordered(Append(list, v))
           /\ Len(Append(list, v)) = Len(list) + 1
  <1> DEFINE n == Len(list)
             L == Append(list, v)
  <1>1. n \in Nat /\ DOMAIN list = 1..n /\ \A i \in 1..n : list[i] \in Areas
    OBVIOUS
  <1>2. /\ v.start \in Nat /\ v.end \in Nat
        /\ \A i \in 1..n : list[i].start \in Nat /\ list[i].end \in Nat
    BY <1>1, AreaNumbers
  <1>3. \A i \in 1..n : list[i].start <= list[i].end
    BY <1>1 DEF Ordered
  <1>4. \A i \in 1..n : list[i].start < v.end /\ list[i].end < v.end
    BY <1>1, <1>2, <1>3
  <1>5. (list # <<>> => list[1].end < v.end) /\ \A i \in DOMAIN list : list[i].start < v.end
    BY <1>1, <1>4
  <1>6. AddMmstruct(list, v) = L /\ AddAndCut(list, v) = L
    BY <1>5, AddLast
  <1>7. L \in Seq(Areas) /\ Len(L) = n + 1 /\ DOMAIN L = 1..(n + 1)
        /\ L[n + 1] = v /\ \A i \in 1..n : L[i] = list[i]
    BY <1>1
  <1> HIDE DEF L
  <1>8. \A i \in 1..(n + 1) : L[i].start <= L[i].end
    BY <1>1, <1>3, <1>7
  <1>9. \A i, j \in 1..(n + 1) : i < j => L[i].end < L[j].start
    <2> SUFFICES ASSUME NEW i \in 1..(n + 1), NEW j \in 1..(n + 1), i < j
                 PROVE  L[i].end < L[j].start
      OBVIOUS
    <2>1. i \in 1..n
      BY <1>1
    <2>2. CASE j = n + 1
      BY <1>1, <1>7, <2>1, <2>2
    <2>3. CASE j \in 1..n
      <3>1. list[i].end < list[j].start
        BY <1>1, <2>1, <2>3 DEF Ordered
      <3> QED BY <1>7, <2>1, <2>3, <3>1
    <2> QED BY <1>1, <2>2, <2>3
  <1>10. Ordered(L)
    BY <1>7, <1>8, <1>9 DEF Ordered
  <1> QED BY <1>6, <1>7, <1>10 DEF L

\* The segments are added one behind the other and none is cut off.
LEMMA SegmentsLoaded ==
    ASSUME NEW hdrs \in Programs, Loadable(hdrs)
    PROVE  LoadSegments(hdrs) = SegmentList(hdrs)
  <1> DEFINE n == Len(hdrs)
             L == SegmentList(hdrs)
  <1>1. /\ hdrs \in Seq(Segments) /\ n \in {1, 2} /\ DOMAIN hdrs = 1..n
        /\ L \in Seq(Areas) /\ Ordered(L) /\ Len(L) = n
    BY ProgramIs
  <1>2. PICK w \in [0..n -> Seq(Areas)] :
           /\ w[0] = <<>> /\ LoadSegments(hdrs) = w[n]
           /\ \A k \in 1..n : w[k] = LoadSegment(w[k - 1], hdrs[k])
    BY <1>1, LoadFold
  <1>3. \A k \in 1..n : w[k] = AddAndCut(w[k - 1], L[k])
    BY <1>1, <1>2 DEF LoadSegment, SegmentList
  <1> HIDE DEF L
  <1>4. DOMAIN L = 1..n /\ L[1] \in Areas /\ 1 \in 1..n
    BY <1>1
  <1>5. w[1] = <<L[1]>>
    <2>1. <<>> \in Seq(Areas) /\ \A i \in DOMAIN <<>> : <<>>[i].start < L[1].end
      OBVIOUS
    <2>2. AddAndCut(<<>>, L[1]) = Append(<<>>, L[1])
      BY <1>4, <2>1, AddLast
    <2>3. w[1] = AddAndCut(w[0], L[1])
      BY <1>3, <1>4
    <2> QED BY <1>2, <2>2, <2>3
  <1>6. CASE n = 1
    <2>1. L = <<L[1]>>
      BY <1>1, <1>6
    <2> QED BY <1>2, <1>5, <1>6, <2>1 DEF L
  <1>7. CASE n = 2
    <2> DEFINE one == <<L[1]>>
    <2>0. 2 \in 1..2 /\ Len(L) = 2 /\ DOMAIN L = 1..2
      BY <1>1, <1>7
    <2>1. 2 \in 1..n /\ L[2] \in Areas /\ L = <<L[1], L[2]>>
      <3>1. L[2] \in Areas
        <4>1. L \in Seq(Areas)
          BY <1>1
        <4>2. \A i \in DOMAIN L : L[i] \in Areas
          BY <4>1
        <4> QED BY <2>0, <4>2
      <3>2. L = <<L[1], L[2]>>
        BY <1>1, <2>0
      <3> QED BY <1>7, <2>0, <3>1, <3>2
    <2>2. L[1].end < L[2].start /\ L[2].start <= L[2].end /\ L[1].start <= L[1].end
      BY <1>1, <1>4, <2>1 DEF Ordered
    <2>3. one \in Seq(Areas) /\ DOMAIN one = {1} /\ one[1] = L[1]
      BY <1>4
    <2>4. Ordered(one)
      BY <2>2, <2>3 DEF Ordered
    <2> HIDE DEF one
    <2>5. \A i \in DOMAIN one : one[i].end < L[2].start
      BY <2>2, <2>3
    <2>6. AddAndCut(one, L[2]) = Append(one, L[2])
      BY <2>1, <2>2, <2>3, <2>4, <2>5, AddAbove
    <2>7. Append(one, L[2]) = L
      BY <2>1 DEF one
    <2>8. w[2] = AddAndCut(w[1], L[2])
      BY <1>3, <2>1
    <2> QED BY <1>2, <1>5, <1>7, <2>6, <2>7, <2>8 DEF L, one
  <1> QED BY <1>1, <1>6, <1>7

\* The list that load_binaries leaves: the segments, the heap and the stack.
LEMMA AreasLoaded ==
    ASSUME NEW hdrs \in Programs, Loadable(hdrs)
    PROVE  /\ LoadAreas(hdrs) \in Seq(Areas) /\ Ordered(LoadAreas(hdrs))
           /\ Len(LoadAreas(hdrs)) = Len(hdrs) + 2
           /\ \A i \in DOMAIN LoadAreas(hdrs) : LoadAreas(hdrs)[i].type = "TEXT" =>
                /\ i \in DOMAIN hdrs
                /\ LoadAreas(hdrs)[i].start = hdrs[i].start
                /\ LoadAreas(hdrs)[i].end = hdrs[i].start + hdrs[i].size
  <1> DEFINE n == Len(hdrs)
             L == SegmentList(hdrs)
             page == Area(HEAP_ADDR, HEAP_ADDR + PAGE_SIZE, "HEAP")
             whole == Area(HEAP_ADDR, HEAP_END, "HEAP")
             top == Area(STACK_ADDR, STACK_END, "STACK")
             H == Append(L, page)
             T == Append(H, top)
             R == LoadAreas(hdrs)
  <1>1. /\ n \in {1, 2} /\ DOMAIN hdrs = 1..n
        /\ L \in Seq(Areas) /\ Ordered(L) /\ Len(L) = n /\ DOMAIN L = 1..n
    BY ProgramIs
  <1>2. \A i \in 1..n : /\ L[i].start = hdrs[i].start /\ L[i].end = hdrs[i].start + hdrs[i].size
                        /\ L[i].end + PAGE_SIZE <= HEAP_ADDR /\ L[i].end \in Nat
                        /\ L[i].type \in {"TEXT", "DATA"} /\ L[i] \in Areas
    <2> TAKE i \in 1..n
    <2>1. hdrs[i] \in Segments
      BY ProgramIs
    <2>2. L[i] = Area(hdrs[i].start, hdrs[i].start + hdrs[i].size, SegmentType(hdrs[i].flags))
      BY <1>1 DEF SegmentList
    <2>3. L[i].start = hdrs[i].start /\ L[i].end = hdrs[i].start + hdrs[i].size /\ L[i].type = SegmentType(hdrs[i].flags)
      BY <2>2 DEF Area
    <2>4. /\ hdrs[i].start \in Nat /\ hdrs[i].size \in Nat \ {0} /\ SegmentType(hdrs[i].flags) \in {"TEXT", "DATA"}
          /\ hdrs[i].start + hdrs[i].size + PAGE_SIZE <= HEAP_ADDR
          /\ Area(hdrs[i].start, hdrs[i].start + hdrs[i].size, SegmentType(hdrs[i].flags)) \in Areas
      BY <2>1, SegmentArea
    <2> QED BY <2>2, <2>3, <2>4
  <1>3. /\ page \in Areas /\ whole \in Areas /\ top \in Areas
        /\ page.start = HEAP_ADDR /\ page.end = HEAP_ADDR + PAGE_SIZE /\ page.type = "HEAP"
        /\ whole.start = HEAP_ADDR /\ whole.end = HEAP_END /\ whole.type = "HEAP"
        /\ top.start = STACK_ADDR /\ top.end = STACK_END /\ top.type = "STACK"
    <2>1. {HEAP_ADDR, HEAP_ADDR + PAGE_SIZE, HEAP_END, STACK_ADDR, STACK_END} \subseteq Addresses
      BY LayoutAssumption DEF Addresses
    <2> QED BY <2>1 DEF Area, Areas
  <1>4. LoadSegments(hdrs) = L
    BY SegmentsLoaded
  <1> HIDE DEF L, page, whole, top, n
  <1>5. /\ AddAndCut(L, page) = H /\ H \in Seq(Areas) /\ Ordered(H) /\ Len(H) = n + 1
    <2>1. page.start <= page.end /\ \A i \in DOMAIN L : L[i].end < page.start
      BY <1>1, <1>2, <1>3, LayoutAssumption
    <2> QED BY <1>1, <1>3, <2>1, AddAbove
  <1>6. n \in Nat /\ H[n + 1] = page /\ \A i \in 1..n : H[i] = L[i]
    BY <1>1
  <1>7. DOMAIN H = 1..(n + 1)
    BY <1>5, <1>6
  <1> HIDE DEF H
  <1>8. /\ AddMmstruct(H, top) = T /\ T \in Seq(Areas) /\ Len(T) = n + 2
    <2>1. top.start <= top.end /\ HEAP_ADDR + PAGE_SIZE < top.start
      BY <1>3, LayoutAssumption
    <2>2. \A i \in 1..n : H[i].end < top.start
      BY <1>2, <1>3, <1>6, LayoutAssumption
    <2>3. H[n + 1].end < top.start
      BY <1>3, <1>6, <2>1
    <2>4. \A i \in DOMAIN H : H[i].end < top.start
      BY <1>6, <1>7, <2>2, <2>3
    <2>5. AddMmstruct(H, top) = T /\ T \in Seq(Areas) /\ Len(T) = Len(H) + 1
      BY <1>3, <1>5, <2>1, <2>4, AddAbove
    <2> QED BY <1>5, <1>6, <2>5
  <1>9. T[n + 2] = top /\ T[n + 1] = page /\ \A i \in 1..n : T[i] = L[i]
    BY <1>5, <1>6
  <1>10. DOMAIN T = 1..(n + 2)
    BY <1>6, <1>8
  <1> HIDE DEF T
  <1>11. R = [i \in 1..(n + 2) |-> IF T[i].type = "HEAP" THEN whole ELSE T[i]]
    BY <1>4, <1>5, <1>8, <1>10 DEF LoadAreas, page, whole, top
  <1> HIDE DEF R
  <1>12. R[n + 2] = top /\ R[n + 1] = whole /\ \A i \in 1..n : R[i] = L[i]
    <2>1. n + 2 \in 1..(n + 2) /\ n + 1 \in 1..(n + 2) /\ \A i \in 1..n : i \in 1..(n + 2)
      BY <1>6
    <2> QED BY <1>2, <1>3, <1>9, <1>11, <2>1
  <1>13. \A i \in 1..(n + 2) : i \in 1..n \/ i = n + 1 \/ i = n + 2
    BY <1>6
  <1>14. R \in Seq(Areas) /\ Len(R) = n + 2 /\ DOMAIN R = 1..(n + 2)
    <2>1. \A i \in 1..(n + 2) : R[i] \in Areas
      BY <1>2, <1>3, <1>12, <1>13
    <2> QED BY <1>6, <1>11, <2>1
  <1>15. Ordered(R)
    <2>1. \A i \in 1..(n + 2) : R[i].start <= R[i].end
      <3>1. \A i \in 1..n : L[i].start <= L[i].end
        BY <1>1 DEF Ordered
      <3>2. whole.start <= whole.end /\ top.start <= top.end
        BY <1>3, LayoutAssumption
      <3> QED BY <1>12, <1>13, <3>1, <3>2
    <2>2. ASSUME NEW i \in 1..(n + 2), NEW j \in 1..(n + 2), i < j
          PROVE  R[i].end < R[j].start
      <3>1. CASE i \in 1..n /\ j \in 1..n
        BY <1>1, <1>12, <2>2, <3>1 DEF Ordered
      <3>2. CASE i \in 1..n /\ j = n + 1
        BY <1>2, <1>3, <1>12, <3>2, LayoutAssumption
      <3>3. CASE i \in 1..n /\ j = n + 2
        BY <1>2, <1>3, <1>12, <3>3, LayoutAssumption
      <3>4. CASE i = n + 1 /\ j = n + 2
        BY <1>3, <1>12, <3>4, LayoutAssumption
      <3> QED BY <1>6, <1>13, <2>2, <3>1, <3>2, <3>3, <3>4
    <2> QED BY <1>14, <2>1, <2>2 DEF Ordered
  <1>16. ASSUME NEW i \in 1..(n + 2), R[i].type = "TEXT"
         PROVE  i \in 1..n /\ R[i].start = hdrs[i].start /\ R[i].end = hdrs[i].start + hdrs[i].size
    <2>1. i \in 1..n
      BY <1>3, <1>12, <1>13, <1>16
    <2> QED BY <1>2, <1>12, <2>1
  <1> QED BY <1>1, <1>14, <1>15, <1>16 DEF R, n

\* The pages that load_binaries maps are addresses, and every page with an address
\* of a segment is among them.
LEMMA PagesLoaded ==
    ASSUME NEW hdrs \in Programs, Loadable(hdrs)
    PROVE  /\ LoadPages(hdrs) \subseteq Addresses
           /\ \A i \in DOMAIN hdrs, a \in Addresses :
                /\ Page(a) = a /\ hdrs[i].start <= a /\ a <= hdrs[i].start + hdrs[i].size
                => a \in LoadPages(hdrs)
  <1>1. {HEAP_ADDR, STACK_END - PAGE_SIZE} \subseteq Addresses
    BY LayoutAssumption DEF Addresses
  <1>2. LoadPages(hdrs) \subseteq Addresses
    BY <1>1 DEF LoadPages, SegmentPages
  <1>3. ASSUME NEW i \in DOMAIN hdrs, NEW a \in Addresses, Page(a) = a,
               hdrs[i].start <= a, a <= hdrs[i].start + hdrs[i].size
        PROVE  a \in LoadPages(hdrs)
    <2>1. a \in Nat
      BY LayoutAssumption DEF Addresses
    <2>2. a % PAGE_SIZE = 0
      BY <1>3, <2>1, PageIs
    <2>3. hdrs[i] \in Segments
      BY ProgramIs
    <2>4. hdrs[i].start \in Nat
      BY <2>3, SegmentArea
    <2>5. Page(hdrs[i].start) \in Nat /\ Page(hdrs[i].start) <= hdrs[i].start
      BY <2>4, PageIs
    <2>6. Page(hdrs[i].start) <= a
      BY <1>3, <2>1, <2>4, <2>5
    <2>7. a \in SegmentPages(hdrs[i])
      BY <1>3, <2>2, <2>6 DEF SegmentPages
    <2> QED BY <2>7 DEF LoadPages
  <1> QED BY <1>2, <1>3

-----------------------------------------------------------------------------
(***************************************************************************)
(* The inductive invariant.  The list stays the one that was loaded, and   *)
(* the pages that were loaded stay mapped, so that no fault is in a        *)
(* segment of text: the handler would loop there.                          *)
(***************************************************************************)
IInv ==
    /\ TypeOK
    /\ phdrs \in Programs /\ Loadable(phdrs) /\ vma = LoadAreas(phdrs)
    /\ LoadPages(phdrs) \subseteq mapped
    /\ pc \in {"user", "fault"}
    /\ pc = "fault" => addr \notin mapped /\ Page(addr) = addr

\* A program that has just been loaded.
LEMMA InitInv == Init => IInv
  <1> SUFFICES ASSUME Init PROVE IInv
    OBVIOUS
  <1>1. phdrs \in Programs /\ Loadable(phdrs) /\ vma = LoadAreas(phdrs) /\ mapped = LoadPages(phdrs)
    BY DEF Init
  <1>2. vma \in Seq(Areas)
    BY <1>1, AreasLoaded
  <1>3. mapped \subseteq Addresses
    BY <1>1, PagesLoaded
  <1>4. alloc \in HEAP_ADDR..HEAP_END /\ pc = "user" /\ addr \in Addresses
    BY LayoutAssumption DEF Init, Addresses
  <1> QED BY <1>1, <1>2, <1>3, <1>4 DEF IInv, TypeOK

\* The page of an address is an address.
LEMMA PageAddress ==
    ASSUME NEW a \in Addresses
    PROVE  Page(a) \in Addresses /\ Page(Page(a)) = Page(a)
  <1>1. a \in Nat /\ STACK_END + PAGE_SIZE \in Nat /\ a <= STACK_END + PAGE_SIZE
    BY LayoutAssumption DEF Addresses
  <1>2. Page(a) \in 0..a /\ Page(Page(a)) = Page(a)
    BY <1>1, PageIs
  <1> QED BY <1>1, <1>2 DEF Addresses

\* For a page that is not there the handler neither loops nor ends the process.
LEMMA OutcomeIs ==
    ASSUME IInv, pc = "fault"
    PROVE  /\ Outcome(vma, addr) \in {"user", "fault"}
           /\ Matching(vma, addr) # {} => Outcome(vma, addr) = "user"
  <1> DEFINE hits == Matching(vma, addr)
             i == CHOOSE k \in hits : \A j \in hits : k <= j
  <1>1. /\ phdrs \in Programs /\ Loadable(phdrs) /\ vma = LoadAreas(phdrs) /\ addr \in Addresses
        /\ LoadPages(phdrs) \subseteq mapped /\ addr \notin mapped /\ Page(addr) = addr
    BY DEF IInv, TypeOK
  <1>2. vma \in Seq(Areas) /\ Len(vma) = Len(phdrs) + 2 /\ Len(phdrs) \in {1, 2}
    BY <1>1, AreasLoaded, ProgramIs
  <1>3. vma # <<>>
    <2>1. Len(vma) = 3 \/ Len(vma) = 4
      <3>1. CASE Len(phdrs) = 1
        BY <1>2, <3>1
      <3>2. CASE Len(phdrs) = 2
        BY <1>2, <3>2
      <3> QED BY <1>2, <3>1, <3>2
    <2> QED BY <2>1
  <1>4. hits \subseteq Nat
    BY <1>2 DEF Matching
  <1>5. CASE hits = {}
    BY <1>3, <1>5 DEF Outcome
  <1>6. CASE hits # {}
    <2>1. \E k \in hits : \A j \in hits : k <= j
      <3> HIDE DEF hits
      <3> QED BY <1>4, <1>6, LeastNumber
    <2>2. i \in hits
      BY <2>1
    <2>3. Outcome(vma, addr) = IF vma[i].type = "TEXT" THEN "spin" ELSE "user"
      BY <1>3, <1>6 DEF Outcome
    <2> HIDE DEF i
    <2>4. i \in DOMAIN vma /\ vma[i].start <= addr /\ addr <= vma[i].end
      BY <2>2 DEF Matching
    <2>5. ASSUME vma[i].type = "TEXT" PROVE FALSE
      <3>1. /\ i \in DOMAIN phdrs /\ vma[i].start = phdrs[i].start
            /\ vma[i].end = phdrs[i].start + phdrs[i].size
        BY <1>1, <2>4, <2>5, AreasLoaded
      <3>2. addr \in LoadPages(phdrs)
        BY <1>1, <2>4, <3>1, PagesLoaded
      <3> QED BY <1>1, <3>2
    <2> QED BY <2>3, <2>5
  <1> QED BY <1>5, <1>6

\* Every step keeps the invariant.
LEMMA StepInv == IInv /\ [Next]_vars => IInv'
  <1> SUFFICES ASSUME IInv, [Next]_vars PROVE IInv'
    OBVIOUS
  <1>1. ASSUME NEW a \in Addresses, Access(a) PROVE IInv'
    BY <1>1, PageAddress DEF Access, IInv, TypeOK
  <1>2. CASE PageFault
    <2>1. Outcome(vma, addr) \in {"user", "fault"}
      BY <1>2, OutcomeIs DEF PageFault
    <2> QED BY <1>2, <2>1 DEF PageFault, IInv, TypeOK
  <1>3. ASSUME NEW n \in Sizes, Mmap(n) PROVE IInv'
    <2>1. CASE UNCHANGED <<alloc, mapped>>
      BY <1>3, <2>1 DEF Mmap, IInv, TypeOK
    <2>2. CASE /\ Room(n) /\ alloc' = alloc + n
               /\ mapped' = mapped \cup {Page(a) : a \in alloc..(alloc + n - 1)}
      <3>1. n \in Nat /\ alloc \in HEAP_ADDR..HEAP_END
        BY LayoutAssumption DEF IInv, TypeOK
      <3>2. alloc + n \in HEAP_ADDR..HEAP_END
        BY <2>2, <3>1, LayoutAssumption DEF Room
      <3>3. \A a \in alloc..(alloc + n - 1) : a \in Addresses
        BY <3>1, <3>2, LayoutAssumption DEF Addresses
      <3>4. {Page(a) : a \in alloc..(alloc + n - 1)} \subseteq Addresses
        BY <3>3, PageAddress
      <3> QED BY <1>3, <2>2, <3>2, <3>4 DEF Mmap, IInv, TypeOK
    <2> QED BY <1>3, <2>1, <2>2 DEF Mmap
  <1>4. CASE UNCHANGED vars
    BY <1>4 DEF vars, IInv, TypeOK
  <1> QED BY <1>1, <1>2, <1>3, <1>4 DEF Next

\* The invariant holds in every reachable state.
LEMMA Inductive == Spec => []IInv
  <1> QED BY InitInv, StepInv, PTL DEF Spec

\* The types; mmap's pointer never leaves the heap, whatever is asked for.
THEOREM VmaTypes == Spec => []TypeOK
  <1>1. IInv => TypeOK
    BY DEF IInv
  <1> QED BY <1>1, Inductive, PTL

\* Although the loader cuts the list behind each area that it adds, all areas of
\* the program are in it, in order, and fork copies it as it is.
THEOREM AreasAreComplete == Spec => []AreasComplete
  <1>1. IInv => AreasComplete
    <2> SUFFICES ASSUME IInv PROVE AreasComplete
      OBVIOUS
    <2>1. vma \in Seq(Areas) /\ Ordered(vma) /\ Len(vma) = Len(phdrs) + 2
      BY AreasLoaded DEF IInv
    <2>2. CopyVma(vma) = vma
      BY <2>1, CopyIs
    <2>3. Len(vma) \in Nat /\ DOMAIN vma = 1..Len(vma)
      BY <2>1
    <2>4. \A i \in 1..(Len(vma) - 1) : i \in DOMAIN vma /\ i + 1 \in DOMAIN vma /\ i < i + 1
      BY <2>3
    <2>5. \A i \in 1..(Len(vma) - 1) : vma[i].end < vma[i + 1].start
      BY <2>1, <2>4 DEF Ordered
    <2> QED BY <2>1, <2>2, <2>5 DEF AreasComplete
  <1> QED BY <1>1, Inductive, PTL

\* The page fault handler always returns to the process: the loader has mapped
\* every page of a text segment, for which it would loop.
THEOREM HandlerReturns == Spec => [](pc \in {"user", "fault"})
  <1>1. IInv => pc \in {"user", "fault"}
    BY DEF IInv
  <1> QED BY <1>1, Inductive, PTL

\* A fault in an area is over after one pass of the handler.
THEOREM FaultHandled ==
    Spec => [][pc = "fault" /\ Matching(vma, addr) # {} => pc' = "user" /\ addr' = addr /\ addr \in mapped']_vars
  <1>1. IInv /\ [Next]_vars =>
          [pc = "fault" /\ Matching(vma, addr) # {} => pc' = "user" /\ addr' = addr /\ addr \in mapped']_vars
    <2> SUFFICES ASSUME IInv, Next, pc = "fault", Matching(vma, addr) # {}
                 PROVE  pc' = "user" /\ addr' = addr /\ addr \in mapped'
      OBVIOUS
    <2>1. PageFault
      BY DEF Next, Access, Mmap
    <2>2. Outcome(vma, addr) = "user"
      BY OutcomeIs
    <2> QED BY <2>1, <2>2 DEF PageFault
  <1> QED BY <1>1, Inductive, PTL DEF Spec
=============================================================================
