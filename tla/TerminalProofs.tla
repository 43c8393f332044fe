--------------------------- MODULE TerminalProofs ---------------------------
(***************************************************************************)
(* Proofs about Terminal, for every size of the screen and of the buffers, *)
(* every key map, and whatever programs and the kernel print.              *)
(*                                                                         *)
(* kprintf is a fold over the characters it prints.  PlainStays and        *)
(* ArgumentFold reduce it to its step: a set of screens that one character *)
(* does not leave is not left by a text.  Steady, Above and Unspoilt are   *)
(* such sets, and the invariants about the rows follow from them.          *)
(***************************************************************************)
EXTENDS Terminal, Iteration

\* What a cell may show.
Cells == {Blank, Text, Clock} \cup Chars
Screens == [v : [Rows -> [Columns -> Cells]], x : 0..COLS, y : Nat]

\* kprintf stays in a set of screens that printing one character does not leave;
\* and what it leaves is what its last character left.
LEMMA PlainStays ==
    ASSUME NEW X, NEW C, NEW s \in X, NEW f \in Seq(C),
           \A t \in X, c \in C : PlainStep(t, c) \in X
    PROVE  /\ Plain(s, f) \in X
           /\ f # <<>> => \E t \in X : Plain(s, f) = PlainStep(t, f[Len(f)])
  <1> DEFINE n == Len(f)
             R(it) == [z \in SUBSET (1..n) |->
                         IF z = {} THEN s ELSE PlainStep(it[z \ {Max(z)}], f[Max(z)])]
             g == [w \in X \X (1..n) |-> PlainStep(w[1], f[w[2]])]
             iter == CHOOSE it : it = R(it)
  <1>1. n \in Nat /\ DOMAIN f = 1..n /\ \A i \in 1..n : f[i] \in C
    OBVIOUS
  <1>2. Plain(s, f) = iter[1..n]
    BY <1>1 DEF Plain, FoldLeft, MapThenFoldSet
  <1>3. \A v \in X, i \in 1..n : /\ g[<<v, i>>] = PlainStep(v, f[i])
                                 /\ g[<<v, i>>] \in X
    BY <1>1
  <1>4. \E it : it = R(it)
    <2> HIDE DEF n, g
    <2>1. PICK it \in [SUBSET (1..n) -> X] : IsFold(it, s, n, g)
      BY <1>1, <1>3, FoldExists
    <2>2. ASSUME NEW z \in SUBSET (1..n)
          PROVE  it[z] = IF z = {} THEN s ELSE PlainStep(it[z \ {Max(z)}], f[Max(z)])
      <3>1. it[z] = IF z = {} THEN s ELSE g[<<it[z \ {Max(z)}], Max(z)>>]
        BY <2>1 DEF IsFold
      <3>2. CASE z # {}
        <4>1. Max(z) \in 1..n /\ z \ {Max(z)} \in SUBSET (1..n)
          BY <1>1, <3>2, MaxIsPlace
        <4>2. it[z \ {Max(z)}] \in X
          BY <2>1, <4>1
        <4> QED BY <1>3, <3>1, <3>2, <4>1, <4>2
      <3> QED BY <3>1, <3>2
    <2> QED BY <2>1, <2>2
  <1> HIDE DEF g
  <1>5. iter = R(iter)
    BY <1>4
  <1> HIDE DEF iter
  <1>6. iter[{}] \in X
    BY <1>5
  <1>7. ASSUME NEW k \in 1..n PROVE iter[1..k] = PlainStep(iter[1..(k - 1)], f[k])
    <2> HIDE DEF n
    <2>1. 1..k \in SUBSET (1..n) /\ 1..k # {} /\ Max(1..k) = k /\ (1..k) \ {k} = 1..(k - 1)
      BY <1>1, FoldPlaces
    <2>2. iter[1..k] = R(iter)[1..k]
      BY <1>5
    <2> QED BY <2>1, <2>2
  <1>8. \A k \in 1..n : iter[1..(k - 1)] \in X => iter[1..k] \in X
    BY <1>1, <1>7
  <1> HIDE DEF n
  <1>9. \A k \in 0..n : iter[1..k] \in X
    BY <1>1, <1>6, <1>8, FoldStays
  <1>10. f # <<>> => \E t \in X : Plain(s, f) = PlainStep(t, f[n])
    <2> SUFFICES ASSUME f # <<>> PROVE \E t \in X : Plain(s, f) = PlainStep(t, f[n])
      OBVIOUS
    <2>1. n \in 1..n /\ n - 1 \in 0..n
      BY <1>1 DEF n
    <2> QED BY <1>2, <1>7, <1>9, <2>1
  <1> QED BY <1>1, <1>2, <1>9, <1>10 DEF n

\* The same for an argument.
LEMMA ArgumentFold ==
    ASSUME NEW X, NEW C, NEW a \in X, NEW f \in Seq(C),
           \A t \in X, c \in C : ArgumentStep(t, c) \in X
    PROVE  FoldLeft(ArgumentStep, a, f) \in X
  <1> DEFINE n == Len(f)
             R(it) == [z \in SUBSET (1..n) |->
                         IF z = {} THEN a ELSE ArgumentStep(it[z \ {Max(z)}], f[Max(z)])]
             g == [w \in X \X (1..n) |-> ArgumentStep(w[1], f[w[2]])]
             iter == CHOOSE it : it = R(it)
  <1>1. n \in Nat /\ DOMAIN f = 1..n /\ \A i \in 1..n : f[i] \in C
    OBVIOUS
  <1>2. FoldLeft(ArgumentStep, a, f) = iter[1..n]
    BY <1>1 DEF FoldLeft, MapThenFoldSet
  <1>3. \A v \in X, i \in 1..n : /\ g[<<v, i>>] = ArgumentStep(v, f[i])
                                 /\ g[<<v, i>>] \in X
    BY <1>1
  <1>4. \E it : it = R(it)
    <2> HIDE DEF n, g
    <2>1. PICK it \in [SUBSET (1..n) -> X] : IsFold(it, a, n, g)
      BY <1>1, <1>3, FoldExists
    <2>2. ASSUME NEW z \in SUBSET (1..n)
          PROVE  it[z] = IF z = {} THEN a ELSE ArgumentStep(it[z \ {Max(z)}], f[Max(z)])
      <3>1. it[z] = IF z = {} THEN a ELSE g[<<it[z \ {Max(z)}], Max(z)>>]
        BY <2>1 DEF IsFold
      <3>2. CASE z # {}
        <4>1. Max(z) \in 1..n /\ z \ {Max(z)} \in SUBSET (1..n)
          BY <1>1, <3>2, MaxIsPlace
        <4>2. it[z \ {Max(z)}] \in X
          BY <2>1, <4>1
        <4> QED BY <1>3, <3>1, <3>2, <4>1, <4>2
      <3> QED BY <3>1, <3>2
    <2> QED BY <2>1, <2>2
  <1> HIDE DEF g
  <1>5. iter = R(iter)
    BY <1>4
  <1> HIDE DEF iter
  <1>6. iter[{}] \in X
    BY <1>5
  <1>7. ASSUME NEW k \in 1..n PROVE iter[1..k] = ArgumentStep(iter[1..(k - 1)], f[k])
    <2> HIDE DEF n
    <2>1. 1..k \in SUBSET (1..n) /\ 1..k # {} /\ Max(1..k) = k /\ (1..k) \ {k} = 1..(k - 1)
      BY <1>1, FoldPlaces
    <2>2. iter[1..k] = R(iter)[1..k]
      BY <1>5
    <2> QED BY <2>1, <2>2
  <1>8. \A k \in 1..n : iter[1..(k - 1)] \in X => iter[1..k] \in X
    BY <1>1, <1>7
  <1> HIDE DEF n
  <1>9. \A k \in 0..n : iter[1..k] \in X
    BY <1>1, <1>6, <1>8, FoldStays
  <1> QED BY <1>1, <1>2, <1>9

\* What the sizes of the screen give.
LEMMA Numbers ==
    /\ COLS \in Nat /\ COLS >= 2 /\ LAST \in Nat /\ LAST >= 1
    /\ \A r \in 0..LAST : r \in Rows
    /\ ClockRow \in Rows /\ ClockRow = LAST + 1 /\ LAST \in Rows
    /\ \A c \in 0..COLS : c # COLS => c \in Columns
  BY ConsoleAssumption DEF Rows, Columns, ClockRow

\* Wrap goes to the next row from behind the last column.
LEMMA WrapIs ==
    ASSUME NEW s \in Screens
    PROVE  /\ Wrap(s) \in Screens /\ Wrap(s).v = s.v /\ Wrap(s).x \in Columns
           /\ s.x = COLS => Wrap(s).x = 0 /\ Wrap(s).y = s.y + 1
           /\ s.x # COLS => Wrap(s) = s
  <1>1. CASE s.x = COLS
    <2>1. Wrap(s) = [s EXCEPT !.x = 0, !.y = @ + 1]
      BY <1>1 DEF Wrap
    <2>2. Wrap(s) = [v |-> s.v, x |-> 0, y |-> s.y + 1]
      BY <2>1 DEF Screens
    <2> QED BY <1>1, <2>2, Numbers DEF Screens
  <1>2. CASE s.x # COLS
    BY <1>2, Numbers DEF Wrap, Screens
  <1> QED BY <1>1, <1>2

\* Scrolling moves the rows from 1 to LAST up, and the cursor with them.
LEMMA ScrollIs ==
    ASSUME NEW s \in Screens
    PROVE  /\ ScrollAtLast(s) \in Screens /\ ScrollAtLast(s).x = s.x
           /\ s.y # LAST => ScrollAtLast(s) = s
           /\ s.y = LAST => /\ ScrollAtLast(s).y = LAST - 1
                            /\ \A r \in Rows : ScrollAtLast(s).v[r] =
                                                 IF r < LAST THEN s.v[r + 1] ELSE s.v[r]
  <1>1. CASE s.y = LAST
    <2> DEFINE w == [r \in Rows |-> IF r < LAST THEN s.v[r + 1] ELSE s.v[r]]
    <2>1. ScrollAtLast(s) = [v |-> w, x |-> s.x, y |-> LAST - 1]
      BY <1>1 DEF ScrollAtLast, Scrolled, Screens
    <2>2. w \in [Rows -> [Columns -> Cells]]
      <3>1. \A r \in Rows : r < LAST => r + 1 \in Rows
        BY Numbers DEF Rows
      <3> QED BY <3>1 DEF Screens
    <2> QED BY <1>1, <2>1, <2>2, Numbers DEF Screens
  <1>2. CASE s.y # LAST
    BY <1>2 DEF ScrollAtLast
  <1> QED BY <1>1, <1>2

\* Put writes one cell, or none below the screen.
LEMMA PutIs ==
    ASSUME NEW s \in Screens, s.x \in Columns, NEW c \in Cells
    PROVE  /\ Put(s, c) \in Screens /\ Put(s, c).x = s.x + 1 /\ Put(s, c).y = s.y
           /\ \A r \in Rows, i \in Columns :
                Put(s, c).v[r][i] = IF r = s.y /\ i = s.x THEN c ELSE s.v[r][i]
  <1> DEFINE w == [s.v EXCEPT ![s.y][s.x] = c]
  <1>0. Put(s, c) = [s EXCEPT !.v = w, !.x = s.x + 1]
    BY DEF Put
  <1>1. Put(s, c) = [v |-> w, x |-> s.x + 1, y |-> s.y]
    <2> HIDE DEF w
    <2> QED BY <1>0 DEF Screens
  <1>2. w \in [Rows -> [Columns -> Cells]]
    BY DEF Screens
  <1>3. \A r \in Rows, i \in Columns : w[r][i] = IF r = s.y /\ i = s.x THEN c ELSE s.v[r][i]
    BY DEF Screens
  <1>4. s.x + 1 \in 0..COLS
    BY Numbers DEF Columns
  <1> QED BY <1>1, <1>2, <1>3, <1>4 DEF Screens

\* NewLine goes to the first column of the next row.
LEMMA NewLineIs ==
    ASSUME NEW s \in Screens
    PROVE  /\ NewLine(s) \in Screens /\ NewLine(s).x = 0
           /\ s.y + 1 # LAST => NewLine(s).v = s.v /\ NewLine(s).y = s.y + 1
           /\ s.y + 1 = LAST => /\ NewLine(s).y = LAST - 1
                                /\ \A r \in Rows : NewLine(s).v[r] =
                                                     IF r < LAST THEN s.v[r + 1] ELSE s.v[r]
  <1> DEFINE t == [s EXCEPT !.x = 0, !.y = @ + 1]
  <1>0. t = [v |-> s.v, x |-> 0, y |-> s.y + 1]
    <2>1. t = [s EXCEPT !.x = 0, !.y = @ + 1]
      OBVIOUS
    <2> HIDE DEF t
    <2> QED BY <2>1 DEF Screens
  <1>1. t = [v |-> s.v, x |-> 0, y |-> s.y + 1] /\ t \in Screens
    BY <1>0, Numbers DEF Screens
  <1>2. NewLine(s) = ScrollAtLast(t)
    BY DEF NewLine
  <1> HIDE DEF t
  <1> QED BY <1>1, <1>2, ScrollIs

\* Text that kprintf prints never stays in row LAST when the cursor was not at the
\* end of that row before.
LEMMA PutTextIs ==
    ASSUME NEW s \in Screens, NEW c \in Cells, s.y = LAST => s.x # COLS
    PROVE  LET p == PutText(s, c)
           IN  /\ p \in Screens /\ p.x >= 1 /\ p.y # LAST
               /\ p.y \in Rows => p.v[p.y][p.x - 1] = c
               /\ s.y <= LAST => p.y < LAST
               /\ p.y >= s.y - 1
               /\ \A r \in Rows, i \in Columns :
                    r >= LAST /\ r > s.y => p.v[r][i] = s.v[r][i]
  <1> DEFINE w == Wrap(s)
             t == ScrollAtLast(w)
             p == Put(t, c)
  <1>1. PutText(s, c) = p
    BY DEF PutText
  <1>2. w \in Screens /\ w.x \in Columns /\ w.v = s.v
        /\ (s.x = COLS => w.y = s.y + 1) /\ (s.x # COLS => w = s)
    BY WrapIs
  <1> HIDE DEF w
  <1>3. t \in Screens /\ t.x = w.x
    BY <1>2, ScrollIs
  <1>4. /\ w.y # LAST => t = w
        /\ w.y = LAST => /\ t.y = LAST - 1
                         /\ \A r \in Rows : r >= LAST => t.v[r] = w.v[r]
    BY <1>2, ScrollIs, Numbers DEF Rows
  <1> HIDE DEF t
  <1>5. /\ p \in Screens /\ p.x = t.x + 1 /\ p.y = t.y
        /\ \A r \in Rows, i \in Columns :
             p.v[r][i] = IF r = t.y /\ i = t.x THEN c ELSE t.v[r][i]
    BY <1>2, <1>3, PutIs
  <1> HIDE DEF p
  <1>6. s.y \in Nat /\ w.y \in Nat /\ t.y \in Nat /\ w.x \in Nat /\ t.x \in Columns
    BY <1>2, <1>3 DEF Screens, Columns
  <1>7. p.x >= 1 /\ p.y # LAST /\ p.x - 1 = t.x /\ p.y >= s.y - 1
        /\ (s.y <= LAST => p.y < LAST)
    BY <1>2, <1>3, <1>4, <1>5, <1>6, Numbers
  <1>8. p.y \in Rows => p.v[p.y][p.x - 1] = c
    BY <1>5, <1>6, <1>7
  <1>9. ASSUME NEW r \in Rows, NEW i \in Columns, r >= LAST /\ r > s.y
        PROVE  p.v[r][i] = s.v[r][i]
    <2>1. r \in Nat /\ t.v[r] = s.v[r]
      BY <1>2, <1>4, <1>9 DEF Rows
    <2>2. r # t.y
      <3>1. r <= LAST + 1
        BY Numbers DEF Rows, ClockRow
      <3>2. s.y <= LAST
        BY <1>6, <1>9, <2>1, <3>1, Numbers
      <3> QED BY <1>5, <1>6, <1>7, <1>9, <3>2, Numbers
    <2> QED BY <1>5, <2>1, <2>2
  <1> QED BY <1>1, <1>5, <1>7, <1>8, <1>9

Printed == {NUL, Text, Newline}

\* A cell may show whatever is printed.
LEMMA PrintedAreCells == Printed \subseteq Cells
  BY KeyboardAssumption DEF Printed, Cells

\* %s stays in a set of screens that neither a character nor a newline leaves.
LEMMA ArgumentStays ==
    ASSUME NEW X, NEW s \in X, NEW m \in Seq(Printed),
           \A t \in X, c \in Printed : PutText(t, c) \in X,
           \A t \in X : NewLine(t) \in X
    PROVE  Argument(s, m) \in X
  <1> DEFINE A == [s : X, at : {"next", "forced", "end"}]
  <1>1. [s |-> s, at |-> "next"] \in A
    OBVIOUS
  <1>2. ASSUME NEW a \in A, NEW c \in Printed PROVE ArgumentStep(a, c) \in A
    <2>1. a.s \in X /\ PutText(a.s, c) \in X /\ NewLine(a.s) \in X
      OBVIOUS
    <2>2. [a EXCEPT !.at = "end"] \in A
      OBVIOUS
    <2>3. a.at \in {"next", "forced", "end"}
      OBVIOUS
    <2> QED BY <2>1, <2>2, <2>3 DEF ArgumentStep
  <1>3. FoldLeft(ArgumentStep, [s |-> s, at |-> "next"], m) \in A
    <2> HIDE DEF A
    <2> QED BY <1>1, <1>2, ArgumentFold
  <1>4. Argument(s, m) = FoldLeft(ArgumentStep, [s |-> s, at |-> "next"], m).s
    BY DEF Argument
  <1> QED BY <1>3, <1>4

-----------------------------------------------------------------------------
(* Sets of screens that printing does not leave.                           *)

\* In row LAST the cursor has hardly begun.
Steady == {s \in Screens : s.y = LAST => s.x <= 1}

\* On the screen, and not at the end of row LAST.
Visible == {s \in Screens : s.y <= LAST /\ (s.y = LAST => s.x <= 1)}

\* Above row LAST, which is blank.
Above == {s \in Screens : s.y < LAST /\ \A c \in Columns : s.v[LAST][c] = Blank}

\* Above row LAST, with nothing in the row of the clock but the clock.
Unspoilt == {s \in Screens : s.y < LAST
                         /\ \A c \in Columns : s.v[ClockRow][c] \in {Blank, Clock}}

\* A character keeps to each of the sets.
LEMMA PutTextStays ==
    ASSUME NEW c \in Printed
    PROVE  /\ \A s \in Steady : PutText(s, c) \in Steady
           /\ \A s \in Visible : PutText(s, c) \in Visible
           /\ \A s \in Above : PutText(s, c) \in Above
           /\ \A s \in Unspoilt : PutText(s, c) \in Unspoilt
  <1>0. c \in Cells
    BY PrintedAreCells
  <1>1. ASSUME NEW s \in Steady PROVE PutText(s, c) \in Steady
    <2>1. s \in Screens /\ (s.y = LAST => s.x # COLS)
      BY Numbers DEF Steady
    <2> QED BY <1>0, <2>1, PutTextIs DEF Steady
  <1>2. ASSUME NEW s \in Visible PROVE PutText(s, c) \in Visible
    <2>1. s \in Screens /\ (s.y = LAST => s.x # COLS) /\ s.y <= LAST
      BY Numbers DEF Visible
    <2>2. PutText(s, c) \in Screens /\ PutText(s, c).y < LAST
      BY <1>0, <2>1, PutTextIs
    <2>3. PutText(s, c).y \in Nat
      BY <2>2 DEF Screens
    <2> QED BY <2>2, <2>3, Numbers DEF Visible
  <1>3. ASSUME NEW s \in Above PROVE PutText(s, c) \in Above
    <2>1. s \in Screens /\ s.y \in Nat /\ s.y # LAST /\ s.y <= LAST /\ LAST > s.y
      BY Numbers DEF Above, Screens
    <2>2. PutText(s, c) \in Screens /\ PutText(s, c).y < LAST
      BY <1>0, <2>1, PutTextIs
    <2>3. \A i \in Columns : PutText(s, c).v[LAST][i] = s.v[LAST][i]
      BY <1>0, <2>1, PutTextIs, Numbers
    <2> QED BY <2>2, <2>3 DEF Above
  <1>4. ASSUME NEW s \in Unspoilt PROVE PutText(s, c) \in Unspoilt
    <2>1. s \in Screens /\ s.y \in Nat /\ s.y # LAST /\ s.y <= LAST /\ ClockRow > s.y
          /\ ClockRow >= LAST
      BY Numbers DEF Unspoilt, Screens
    <2>2. PutText(s, c) \in Screens /\ PutText(s, c).y < LAST
      BY <1>0, <2>1, PutTextIs
    <2>3. \A i \in Columns : PutText(s, c).v[ClockRow][i] = s.v[ClockRow][i]
      BY <1>0, <2>1, PutTextIs, Numbers
    <2> QED BY <2>2, <2>3 DEF Unspoilt
  <1> QED BY <1>1, <1>2, <1>3, <1>4

\* And so does a newline.
LEMMA NewLineStays ==
    /\ \A s \in Steady : NewLine(s) \in Steady
    /\ \A s \in Above : NewLine(s) \in Above
    /\ \A s \in Unspoilt : NewLine(s) \in Unspoilt
  <1>1. ASSUME NEW s \in Steady PROVE NewLine(s) \in Steady
    BY NewLineIs DEF Steady
  <1>2. ASSUME NEW s \in Screens, s.y < LAST
        PROVE  /\ NewLine(s) \in Screens /\ NewLine(s).y < LAST
               /\ \A r \in Rows : r >= LAST => NewLine(s).v[r] = s.v[r]
    <2>1. s.y \in Nat
      BY DEF Screens
    <2>2. \A r \in Rows : r \in Nat
      BY DEF Rows
    <2> QED BY <1>2, <2>1, <2>2, NewLineIs, Numbers
  <1>3. LAST \in Rows /\ ClockRow \in Rows /\ LAST >= LAST /\ ClockRow >= LAST
    BY Numbers
  <1>4. ASSUME NEW s \in Above PROVE NewLine(s) \in Above
    BY <1>2, <1>3 DEF Above
  <1>5. ASSUME NEW s \in Unspoilt PROVE NewLine(s) \in Unspoilt
    BY <1>2, <1>3 DEF Unspoilt
  <1> QED BY <1>1, <1>4, <1>5

\* What kprintf prints keeps to these sets.
LEMMA PrintingStays ==
    ASSUME NEW X \in {Steady, Above, Unspoilt}, NEW s \in X
    PROVE  /\ \A f \in Seq({Text, Newline}) : Plain(s, f) \in X
           /\ \A m \in Seq(Printed) : Argument(s, m) \in X
  <1>1. \A t \in X, c \in Printed : PutText(t, c) \in X
    BY PutTextStays
  <1>2. \A t \in X : NewLine(t) \in X
    BY NewLineStays
  <1>3. \A t \in X, c \in {Text, Newline} : PlainStep(t, c) \in X
    BY <1>1, <1>2 DEF PlainStep, Printed
  <1>4. \A f \in Seq({Text, Newline}) : Plain(s, f) \in X
    <2> TAKE f \in Seq({Text, Newline})
    <2> QED BY <1>3, PlainStays
  <1>5. \A m \in Seq(Printed) : Argument(s, m) \in X
    <2> TAKE m \in Seq(Printed)
    <2> QED BY <1>1, <1>2, ArgumentStays
  <1> QED BY <1>4, <1>5

-----------------------------------------------------------------------------
(* The echo of a key.                                                      *)

\* Where the cursor is when the echo begins: in row LAST only if it comes from
\* the end of the row above, which is the last one with text.
LEMMA ReadyIs ==
    ASSUME NEW s \in Visible
    PROVE  LET t == Ready(s)
           IN  /\ t \in Screens /\ t.x \in Columns /\ t.y <= LAST
               /\ t.y = LAST => t.x = 0 /\ s.x = COLS /\ s.y = LAST - 1
               /\ s.x # COLS => t.x = s.x /\ t.v[t.y] = s.v[s.y]
               /\ \A r \in Rows : r >= LAST => t.v[r] = s.v[r]
  <1> DEFINE w == ScrollAtLast(s)
             t == Wrap(w)
  <1>1. s \in Screens /\ s.y \in Nat /\ s.x \in 0..COLS /\ s.y <= LAST
        /\ (s.y = LAST => s.x # COLS)
    BY Numbers DEF Visible, Screens
  <1>2. w \in Screens /\ w.x = s.x /\ (s.y # LAST => w = s)
        /\ (s.y = LAST => /\ w.y = LAST - 1
                          /\ \A r \in Rows : w.v[r] = IF r < LAST THEN s.v[r + 1] ELSE s.v[r])
    BY <1>1, ScrollIs
  <1> HIDE DEF w
  <1>3. t \in Screens /\ t.v = w.v /\ t.x \in Columns
        /\ (w.x = COLS => t.x = 0 /\ t.y = w.y + 1) /\ (w.x # COLS => t = w)
    BY <1>2, WrapIs
  <1> HIDE DEF t
  <1>4. t.y <= LAST /\ (t.y = LAST => t.x = 0 /\ s.x = COLS /\ s.y = LAST - 1)
    BY <1>1, <1>2, <1>3, Numbers
  <1>5. s.x # COLS => t.x = s.x /\ t.v[t.y] = s.v[s.y]
    <2>1. CASE s.y = LAST
      <3>1. LAST - 1 \in Rows /\ LAST - 1 < LAST /\ (LAST - 1) + 1 = LAST
        BY Numbers DEF Rows
      <3> QED BY <1>2, <1>3, <2>1, <3>1
    <2>2. CASE s.y # LAST
      BY <1>2, <1>3, <2>2
    <2> QED BY <2>1, <2>2
  <1>6. ASSUME NEW r \in Rows, r >= LAST PROVE t.v[r] = s.v[r]
    <2>1. r \in Nat /\ ~(r < LAST)
      BY <1>6, Numbers DEF Rows
    <2> QED BY <1>2, <1>3, <2>1
  <1>7. Ready(s) = t
    BY DEF Ready, t, w
  <1> QED BY <1>3, <1>4, <1>5, <1>6, <1>7

\* What every echo e of a key that finds the screen s leaves alone; end tells
\* whether it ends the line, over whether it goes to the clock's row.
Echoed(s, e, end, over) ==
    /\ e \in Steady
    /\ Ready(s).y # LAST => e.y < LAST /\ \A i \in Columns : e.v[LAST][i] = s.v[LAST][i]
    /\ ~over => \A i \in Columns : e.v[ClockRow][i] = s.v[ClockRow][i]
    /\ e.y > LAST => end /\ s.x = COLS /\ s.y = LAST - 1
    /\ end /\ ~(s.x = COLS /\ s.y = LAST - 1) => e.y < LAST

\* An arrow's or Delete's echo, which is where every echo begins.
LEMMA ReadyEchoed ==
    ASSUME NEW s \in Visible
    PROVE  Echoed(s, Ready(s), FALSE, FALSE)
  <1> DEFINE t == Ready(s)
  <1>1. /\ t \in Screens /\ t.x \in Columns /\ t.y <= LAST
        /\ t.y = LAST => t.x = 0
        /\ \A r \in Rows : r >= LAST => t.v[r] = s.v[r]
    BY ReadyIs
  <1> HIDE DEF t
  <1>2. t.y \in Nat /\ LAST >= LAST /\ ClockRow >= LAST
    BY <1>1, Numbers DEF Screens
  <1>3. t \in Steady
    BY <1>1 DEF Steady
  <1>4. Echoed(s, t, FALSE, FALSE)
    BY <1>1, <1>2, <1>3, Numbers, t = Ready(s) DEF Echoed, t
  <1> QED BY <1>4 DEF t

\* Backspace's echo takes the cursor back by one, never left of the prompt.
LEMMA EchoBackspaceIs ==
    ASSUME NEW s \in Visible, global_x \in 0..COLS
    PROVE  /\ Echoed(s, EchoBackspace(s), FALSE, FALSE)
           /\ s.x # COLS =>
                LET e == EchoBackspace(s)
                IN  /\ e.x = IF s.x > global_x THEN s.x - 1 ELSE s.x
                    /\ e.y < LAST
                    /\ \A i \in Columns : i < e.x => e.v[e.y][i] = s.v[s.y][i]
  <1> DEFINE t == Ready(s)
             e == EchoBackspace(s)
             w == [t.v EXCEPT ![t.y][t.x - 1] = Blank]
  <1>1. /\ t \in Screens /\ t.x \in Columns /\ t.y <= LAST
        /\ t.y = LAST => t.x = 0 /\ s.x = COLS /\ s.y = LAST - 1
        /\ s.x # COLS => t.x = s.x /\ t.v[t.y] = s.v[s.y]
        /\ \A r \in Rows : r >= LAST => t.v[r] = s.v[r]
    BY ReadyIs
  <1>2. e = IF t.x - 1 >= global_x THEN [t EXCEPT !.v[t.y][t.x - 1] = Blank, !.x = @ - 1] ELSE t
    BY DEF EchoBackspace, Erased
  <1>3. Echoed(s, t, FALSE, FALSE)
    BY ReadyEchoed
  <1>4. t = Ready(s)
    OBVIOUS
  <1> HIDE DEF t, e
  <1>5. t.y \in Nat /\ t.x \in Nat /\ s.x \in Nat /\ global_x \in Nat
        /\ LAST \in Rows /\ ClockRow \in Rows
        /\ ClockRow > LAST /\ LAST >= LAST /\ ClockRow >= LAST
    BY <1>1, Numbers DEF Screens, Columns, Visible
  <1>6. CASE t.x - 1 >= global_x
    <2>1. e = [t EXCEPT !.v = w, !.x = t.x - 1]
      BY <1>2, <1>6
    <2>2. w \in [Rows -> [Columns -> Cells]]
      BY <1>1 DEF Screens, Cells
    <2>3. \A r \in Rows, i \in Columns : w[r][i] = IF r = t.y /\ i = t.x - 1 THEN Blank
                                                   ELSE t.v[r][i]
      BY <1>1 DEF Screens
    <2> HIDE DEF w
    <2>4. e = [v |-> w, x |-> t.x - 1, y |-> t.y]
      BY <1>1, <2>1 DEF Screens
    <2>5. t.y < LAST
      BY <1>1, <1>5, <1>6, Numbers
    <2>6. t.x - 1 \in 0..COLS
      BY <1>1, <1>5, <1>6, Numbers DEF Columns
    <2>7. e \in Steady /\ e.y = t.y /\ e.x = t.x - 1
      BY <1>5, <2>2, <2>4, <2>5, <2>6, Numbers DEF Steady, Screens
    <2>8. \A r \in Rows, i \in Columns : r >= LAST => e.v[r][i] = s.v[r][i]
      <3>1. \A r \in Rows : r >= LAST => r # t.y
        BY <1>5, <2>5, Numbers DEF Rows
      <3> QED BY <1>1, <2>3, <2>4, <3>1
    <2>9. Echoed(s, e, FALSE, FALSE)
      BY <1>4, <1>5, <2>5, <2>7, <2>8, Numbers DEF Echoed
    <2>10. ASSUME s.x # COLS, NEW i \in Columns, i < e.x PROVE e.v[e.y][i] = s.v[s.y][i]
      <3>1. t.y \in Rows /\ i # t.x - 1
        BY <1>5, <2>5, <2>7, <2>10, Numbers DEF Rows, Columns
      <3> QED BY <1>1, <2>3, <2>4, <2>10, <3>1
    <2>11. s.x # COLS => e.x = IF s.x > global_x THEN s.x - 1 ELSE s.x
      BY <1>1, <1>5, <1>6, <2>7
    <2> QED BY <2>5, <2>7, <2>9, <2>10, <2>11 DEF e
  <1>7. CASE ~(t.x - 1 >= global_x)
    <2>1. e = t
      BY <1>2, <1>7
    <2>2. Echoed(s, e, FALSE, FALSE)
      BY <1>3, <2>1
    <2>3. s.x # COLS => e.y < LAST /\ e.x = IF s.x > global_x THEN s.x - 1 ELSE s.x
      BY <1>1, <1>5, <1>7, <2>1, Numbers
    <2>4. s.x # COLS => \A i \in Columns : e.v[e.y][i] = s.v[s.y][i]
      BY <1>1, <2>1
    <2> QED BY <2>2, <2>3, <2>4 DEF e
  <1> QED BY <1>6, <1>7

\* The echo of a character: with control off and inside the row it writes one cell,
\* unless it goes to the clock's row.
LEMMA EchoIs ==
    ASSUME NEW s \in Visible, NEW c \in Chars, NEW k \in {0, 1}, NEW h \in {0, 1},
           global_x \in 0..COLS
    PROVE  LET over == c = QUOTE /\ h = 1 /\ k # 1
           IN
           /\ Echoed(s, Echo(s, c, k, h), c = Newline, over)
           /\ c # Newline /\ k = 0 /\ s.x # COLS /\ ~over =>
                LET e == Echo(s, c, k, h)
                IN  /\ e.x = s.x + 1 /\ e.y < LAST
                    /\ \A i \in Columns : e.v[e.y][i] = IF i = s.x THEN c ELSE s.v[s.y][i]
  <1> DEFINE t == Ready(s)
             e == Echo(s, c, k, h)
             over == c = QUOTE /\ h = 1 /\ k # 1
  <1>1. /\ t \in Screens /\ t.x \in Columns /\ t.y <= LAST
        /\ t.y = LAST => t.x = 0 /\ s.x = COLS /\ s.y = LAST - 1
        /\ s.x # COLS => t.x = s.x /\ t.v[t.y] = s.v[s.y]
        /\ \A r \in Rows : r >= LAST => t.v[r] = s.v[r]
    BY ReadyIs
  <1>2. e = IF c = Newline THEN NewLine(t)
            ELSE IF k = 1 THEN EchoControl(t, c) ELSE IF h = 1 THEN EchoShift(t, c) ELSE Put(t, c)
    BY DEF Echo
  <1>3. Echoed(s, t, FALSE, FALSE)
    BY ReadyEchoed
  <1>4. t = Ready(s)
    OBVIOUS
  <1> HIDE DEF t, e
  <1>5. t.y \in Nat /\ t.x \in Nat /\ LAST \in Rows /\ ClockRow \in Rows
        /\ ClockRow > LAST /\ LAST >= LAST /\ ClockRow >= LAST
    BY <1>1, Numbers DEF Screens, Columns
  <1>6. CASE c = Newline
    <2>1. e = NewLine(t)
      BY <1>2, <1>6
    <2>2. /\ e \in Screens /\ e.x = 0
          /\ t.y + 1 # LAST => e.v = t.v /\ e.y = t.y + 1
          /\ t.y + 1 = LAST => /\ e.y = LAST - 1
                               /\ \A r \in Rows : e.v[r] = IF r < LAST THEN t.v[r + 1] ELSE t.v[r]
      BY <1>1, <2>1, NewLineIs
    <2>3. e \in Steady
      BY <2>2 DEF Steady
    <2>4. ASSUME NEW r \in Rows, r >= LAST PROVE e.v[r] = s.v[r]
      <3>1. ~(r < LAST) /\ t.v[r] = s.v[r]
        BY <1>1, <2>4, Numbers DEF Rows
      <3> QED BY <2>2, <3>1
    <2>5. /\ t.y # LAST => e.y < LAST
          /\ e.y > LAST => s.x = COLS /\ s.y = LAST - 1
          /\ ~(s.x = COLS /\ s.y = LAST - 1) => e.y < LAST
      BY <1>1, <1>5, <2>2, Numbers
    <2>6. Echoed(s, e, c = Newline, over)
      BY <1>4, <1>5, <1>6, <2>3, <2>4, <2>5 DEF Echoed
    <2> QED BY <1>6, <2>6 DEF e
  <1>7. CASE c # Newline /\ k = 1
    <2>1. e = IF c = ERASE THEN EchoBackspace(s) ELSE t
      BY <1>2, <1>4, <1>7 DEF EchoControl, EchoBackspace
    <2>2. Echoed(s, EchoBackspace(s), FALSE, FALSE)
      BY EchoBackspaceIs
    <2>3. Echoed(s, e, FALSE, FALSE)
      BY <1>3, <2>1, <2>2
    <2>4. Echoed(s, e, c = Newline, over)
      BY <1>7, <2>3 DEF Echoed
    <2> QED BY <1>7, <2>4 DEF e
  <1>8. CASE c # Newline /\ k # 1 /\ ~over
    <2>1. e = Put(t, c)
      BY <1>2, <1>8 DEF EchoShift
    <2>2. c \in Cells
      BY DEF Cells
    <2>3. /\ e \in Screens /\ e.x = t.x + 1 /\ e.y = t.y
          /\ \A r \in Rows, i \in Columns :
               e.v[r][i] = IF r = t.y /\ i = t.x THEN c ELSE t.v[r][i]
      BY <1>1, <2>1, <2>2, PutIs
    <2>4. e \in Steady
      BY <1>1, <1>5, <2>3 DEF Steady
    <2>5. \A r \in Rows, i \in Columns : r >= LAST /\ r # t.y => e.v[r][i] = s.v[r][i]
      BY <1>1, <2>3
    <2>6. Echoed(s, e, c = Newline, over)
      BY <1>1, <1>4, <1>5, <1>8, <2>3, <2>4, <2>5, Numbers DEF Echoed
    <2>7. ASSUME s.x # COLS
          PROVE  /\ e.x = s.x + 1 /\ e.y < LAST
                 /\ \A i \in Columns : e.v[e.y][i] = IF i = s.x THEN c ELSE s.v[s.y][i]
      <3>1. t.y \in Rows /\ e.y = t.y /\ t.y < LAST
        BY <1>1, <1>5, <2>3, <2>7, Numbers DEF Rows
      <3> QED BY <1>1, <2>3, <2>7, <3>1
    <2> QED BY <2>6, <2>7 DEF e
  <1>9. CASE c # Newline /\ over
    <2> DEFINE w == [t.v EXCEPT ![ClockRow][t.x] = Text]
    <2>1. e = [t EXCEPT !.v = w, !.x = t.x + 1]
      BY <1>2, <1>9 DEF EchoShift
    <2>2. w \in [Rows -> [Columns -> Cells]]
      BY <1>1 DEF Screens, Cells
    <2>3. \A r \in Rows, i \in Columns : r # ClockRow => w[r][i] = t.v[r][i]
      BY <1>1 DEF Screens
    <2> HIDE DEF w
    <2>4. e = [v |-> w, x |-> t.x + 1, y |-> t.y]
      BY <1>1, <2>1 DEF Screens
    <2>5. t.x + 1 \in 0..COLS
      BY <1>1, <1>5, Numbers DEF Columns
    <2>6. e \in Steady /\ e.y = t.y
      BY <1>1, <1>5, <2>2, <2>4, <2>5 DEF Steady, Screens
    <2>7. \A i \in Columns : e.v[LAST][i] = s.v[LAST][i]
      <3>1. LAST # ClockRow /\ t.v[LAST] = s.v[LAST] /\ e.v = w
        BY <1>1, <1>5, <2>4, Numbers
      <3> QED BY <1>5, <2>3, <3>1
    <2>8. Echoed(s, e, c = Newline, over)
      BY <1>1, <1>4, <1>5, <1>9, <2>6, <2>7, Numbers DEF Echoed
    <2> QED BY <1>9, <2>8 DEF e, over
  <1> QED BY <1>6, <1>7, <1>8, <1>9

-----------------------------------------------------------------------------
(* Types.                                                                  *)

\* Enter, or another key that has a character.
StoreStep(c) ==
    /\ Store(c) /\ (input_done' = input_done \/ (c = Newline /\ input_done' = 0))
    /\ UNCHANGED <<result, asked>>

\* A modifier.
QuietStep ==
    /\ shift' \in {0, 1} /\ control' \in {0, 1}
    /\ UNCHANGED <<pressed, count, input_done, pc, at, buf, screen, history, result, asked>>

\* An arrow or Delete.
MoveStep ==
    /\ shift' \in {0, 1} /\ control' \in {0, 1}
    /\ Echoes(Ready(Here), Blank)
    /\ UNCHANGED <<pressed, count, input_done, pc, at, buf, typed, raced, result, asked>>

EraseStep == Backspace /\ UNCHANGED <<result, asked>>

\* Every key is one of these.
LEMMA KeySteps ==
    ASSUME TypeOK, AnyKey
    PROVE  (\E c \in Chars : StoreStep(c)) \/ QuietStep \/ MoveStep \/ EraseStep
  <1>1. shift \in {0, 1} /\ control \in {0, 1}
    BY DEF TypeOK, KeyboardTypeOK
  <1>2. ASSUME NEW k \in Keys, Key(k) PROVE \E c \in Chars : StoreStep(c)
    <2>1. Characters(k) \subseteq Chars
      BY KeyboardAssumption DEF Characters
    <2> QED BY <1>2, <2>1 DEF Key, StoreStep, AnyKey
  <1>4. CASE Enter
    BY <1>4, KeyboardAssumption DEF Enter, StoreStep, AnyKey
  <1>5. ASSUME NEW x \in {0, 1}, ShiftKey(x) \/ ControlKey(x) PROVE QuietStep
    BY <1>1, <1>5 DEF ShiftKey, ControlKey, QuietStep, AnyKey
  <1>6. CASE Arrow
    BY <1>6 DEF Arrow, MoveStep, AnyKey
  <1>7. CASE Delete
    BY <1>1, <1>7 DEF Delete, MoveStep, AnyKey
  <1>8. CASE Backspace
    BY <1>8 DEF EraseStep, AnyKey
  <1> QED BY <1>2, <1>4, <1>5, <1>6, <1>7, <1>8 DEF AnyKey

TypeInv == TypeOK /\ (y_pos = LAST => x_pos <= 1)

\* The screen with its cursor, as the operators take it.
LEMMA HereIs ==
    ASSUME TypeInv
    PROVE  /\ Here \in Steady /\ Here.v = video /\ Here.x = x_pos /\ Here.y = y_pos
           /\ OnScreen => Here \in Visible
  BY DEF TypeInv, TypeOK, Here, Steady, Visible, Screens, Cells, OnScreen

\* A call that leaves a screen of these sets.
LEMMA ShownSteady ==
    ASSUME NEW s \in Steady, Show(s)
    PROVE  /\ video' \in [Rows -> [Columns -> {Blank, Text, Clock} \cup Chars]]
           /\ x_pos' \in 0..COLS /\ y_pos' \in Nat /\ (y_pos' = LAST => x_pos' <= 1)
  BY DEF Show, Steady, Screens, Cells

\* The prompt ends in text, above row LAST.
LEMMA PromptIs ==
    ASSUME NEW n \in Prompts, NEW s \in Visible
    PROVE  LET p == Plain(s, [i \in 1..n |-> Text])
           IN  /\ p \in Visible /\ p.y < LAST /\ p.x >= 1 /\ p.v[p.y][p.x - 1] = Text
               /\ s.y < LAST => \A X \in {Above, Unspoilt} : s \in X => p \in X
  <1> DEFINE f == [i \in 1..n |-> Text]
  <1>1. n \in Nat \ {0} /\ f \in Seq({Text}) /\ f # <<>> /\ Len(f) = n /\ f[n] = Text
        /\ f \in Seq({Text, Newline})
    BY TerminalAssumption
  <1> HIDE DEF f
  <1>2. Text \in Printed /\ Text \in Cells /\ Text # Newline
    BY ConsoleAssumption DEF Printed, Cells
  <1>3. \A t \in Visible, c \in {Text} : PlainStep(t, c) \in Visible
    BY <1>2, PutTextStays DEF PlainStep
  <1>4. PICK t \in Visible : Plain(s, f) = PlainStep(t, Text)
    <2> DEFINE C == {Text}
    <2>1. f \in Seq(C) /\ f # <<>> /\ \A t \in Visible, c \in C : PlainStep(t, c) \in Visible
      BY <1>1, <1>3
    <2> HIDE DEF C
    <2>2. \E t \in Visible : Plain(s, f) = PlainStep(t, f[Len(f)])
      BY <2>1, PlainStays
    <2> QED BY <1>1, <2>2
  <1>5. t \in Screens /\ t.y <= LAST /\ (t.y = LAST => t.x # COLS)
    BY Numbers DEF Visible
  <1>6. Plain(s, f) = PutText(t, Text)
    BY <1>2, <1>4 DEF PlainStep
  <1> DEFINE p == Plain(s, f)
  <1>7. p \in Screens /\ p.x >= 1 /\ p.y < LAST /\ (p.y \in Rows => p.v[p.y][p.x - 1] = Text)
    BY <1>2, <1>5, <1>6, PutTextIs
  <1>8. p \in Visible
    BY <1>2, <1>4, <1>3
  <1>9. \A X \in {Above, Unspoilt} : s \in X => p \in X
    BY <1>1, PrintingStays
  <1> HIDE DEF p
  <1>10. p.y \in Rows
    BY <1>7, Numbers DEF Screens, Rows
  <1> QED BY <1>7, <1>8, <1>9, <1>10 DEF p, f

ScreenType == /\ video \in [Rows -> [Columns -> {Blank, Text, Clock} \cup Chars]]
              /\ x_pos \in 0..COLS /\ y_pos \in Nat /\ global_x \in 0..COLS
              /\ y_pos = LAST => x_pos <= 1

Flags == raced \in BOOLEAN /\ astray \in BOOLEAN /\ spilled \in BOOLEAN /\ plain \in BOOLEAN

\* The line and the buffers.
LineType == /\ pressed \in [Index -> Chars] /\ count \in 0..PRESSED
            /\ input_done \in {0, 1} /\ shift \in {0, 1} /\ control \in {0, 1}
            /\ pc \in {"user", "wait", "end", "reset", "copy", "clear"} /\ at \in 0..PRESSED
            /\ buf \in Seq(Chars) /\ typed \in Seq(Chars)

Buffer == result \in [1..RESULT -> {NUL, Text, Newline}]

\* The type invariant in parts, one for each kind of state.
LEMMA TypeParts == TypeInv <=> ScreenType /\ Flags /\ LineType /\ Buffer /\ asked \in BOOLEAN
  BY DEF TypeInv, TypeOK, KeyboardTypeOK, ScreenType, Flags, LineType, Buffer

\* The same after a step.
LEMMA TypePartsNext ==
    ASSUME ScreenType', Flags', LineType', Buffer', asked' \in BOOLEAN
    PROVE  TypeInv'
  BY DEF TypeInv, TypeOK, KeyboardTypeOK, ScreenType, Flags, LineType, Buffer

\* What a program prints has no NUL and fits the buffer.
LEMMA OutputFacts ==
    ASSUME NEW text \in Outputs
    PROVE  /\ text \in Seq({Text, Newline}) /\ Len(text) \in Nat /\ Len(text) < RESULT
           /\ \A i \in 1..Len(text) : text[i] \in {Text, Newline} /\ text[i] # NUL
  <1>1. text \in Seq({Text, Newline}) /\ Len(text) < RESULT
    BY TerminalAssumption
  <1>2. \A i \in 1..Len(text) : text[i] \in {Text, Newline}
    BY <1>1
  <1> QED BY <1>1, <1>2, ConsoleAssumption

\* printf leaves a buffer of characters.
LEMMA FormattedType ==
    ASSUME Buffer, NEW text \in Outputs, result' = Formatted(result, text)
    PROVE  Buffer' /\ result' \in Seq(Printed)
  <1>1. DOMAIN result = 1..RESULT /\ RESULT \in Nat
    BY TerminalAssumption DEF Buffer
  <1>2. \A i \in 1..RESULT : i <= Len(text) => text[i] \in {Text, Newline}
    BY <1>1, OutputFacts
  <1>3. \A i \in 1..RESULT : result'[i] \in {NUL, Text, Newline}
    BY <1>1, <1>2 DEF Formatted, Buffer
  <1>4. result' = [i \in 1..RESULT |-> result'[i]]
    BY <1>1 DEF Formatted
  <1>5. Buffer'
    BY <1>3, <1>4 DEF Buffer
  <1> QED BY <1>1, <1>5 DEF Buffer, Printed

\* After an echo the screen has its type.
LEMMA EchoesType ==
    ASSUME TypeInv, NEW e \in Steady, NEW c, Echoes(e, c)
    PROVE  ScreenType' /\ astray' \in BOOLEAN /\ spilled' \in BOOLEAN /\ plain' \in BOOLEAN
  <1>1. ScreenType'
    BY ShownSteady DEF Echoes, ScreenType, TypeInv, TypeOK
  <1>2. astray' \in BOOLEAN
    BY DEF Echoes
  <1>3. spilled' \in BOOLEAN
    BY DEF Echoes
  <1>4. plain' \in BOOLEAN
    BY DEF Echoes
  <1> QED BY <1>1, <1>2, <1>3, <1>4

\* What a key finds, and what it leaves.
LEMMA EchoVisible ==
    ASSUME TypeInv, OnScreen
    PROVE  /\ Here \in Visible /\ global_x \in 0..COLS /\ control \in {0, 1} /\ shift \in {0, 1}
           /\ \A c \in Chars : Echo(Here, c, control, shift) \in Steady
           /\ Ready(Here) \in Steady /\ EchoBackspace(Here) \in Steady
  <1>1. Here \in Visible /\ global_x \in 0..COLS /\ control \in {0, 1} /\ shift \in {0, 1}
    BY HereIs DEF TypeInv, TypeOK, KeyboardTypeOK
  <1>2. \A c \in Chars : Echo(Here, c, control, shift) \in Steady
    BY <1>1, EchoIs DEF Echoed
  <1>3. Ready(Here) \in Steady
    BY <1>1, ReadyEchoed DEF Echoed
  <1>4. EchoBackspace(Here) \in Steady
    BY <1>1, EchoBackspaceIs DEF Echoed
  <1> QED BY <1>1, <1>2, <1>3, <1>4

\* Keys keep the types.
LEMMA KeyType ==
    ASSUME TypeInv, AnyKey
    PROVE  TypeInv'
  <1>0. ScreenType /\ Flags /\ LineType /\ Buffer /\ asked \in BOOLEAN /\ TypeOK
    BY TypeParts DEF TypeInv
  <1>1. ASSUME NEW c \in Chars, StoreStep(c) PROVE TypeInv'
    <2>1. Echoes(Echo(Here, c, control, shift), c)
      BY <1>1 DEF StoreStep, Store
    <2>2. Echo(Here, c, control, shift) \in Steady
      BY <2>1, EchoVisible DEF Echoes
    <2>3. ScreenType' /\ astray' \in BOOLEAN /\ spilled' \in BOOLEAN /\ plain' \in BOOLEAN
      BY <2>1, <2>2, EchoesType
    <2>4. raced' \in BOOLEAN
      BY <1>1 DEF StoreStep, Store
    <2>5. PRESSED \in Nat /\ count \in Nat /\ count < PRESSED /\ count \in Index
      BY <1>0, <1>1, KeyboardAssumption DEF StoreStep, Store, LineType, Index
    <2>6. pressed' \in [Index -> Chars] /\ count' \in 0..PRESSED /\ typed' \in Seq(Chars)
      BY <1>0, <1>1, <2>5 DEF StoreStep, Store, LineType
    <2>7. LineType'
      BY <1>0, <1>1, <2>6 DEF StoreStep, Store, LineType
    <2>8. Buffer' /\ asked' \in BOOLEAN
      BY <1>0, <1>1 DEF StoreStep, Buffer
    <2> QED BY <2>3, <2>4, <2>7, <2>8, TypePartsNext DEF Flags
  <1>2. CASE QuietStep
    <2>1. ScreenType'
      BY <1>0, <1>2 DEF QuietStep, ScreenType, screen
    <2>2. Flags'
      BY <1>0, <1>2 DEF QuietStep, Flags, history
    <2>3. LineType'
      BY <1>0, <1>2 DEF QuietStep, LineType, history
    <2>4. Buffer' /\ asked' \in BOOLEAN
      BY <1>0, <1>2 DEF QuietStep, Buffer
    <2> QED BY <2>1, <2>2, <2>3, <2>4, TypePartsNext
  <1>3. CASE MoveStep
    <2>1. Echoes(Ready(Here), Blank)
      BY <1>3 DEF MoveStep
    <2>2. Ready(Here) \in Steady
      BY <2>1, EchoVisible DEF Echoes
    <2>3. ScreenType' /\ astray' \in BOOLEAN /\ spilled' \in BOOLEAN /\ plain' \in BOOLEAN
      BY <2>1, <2>2, EchoesType
    <2>4. LineType' /\ raced' \in BOOLEAN
      BY <1>0, <1>3 DEF MoveStep, LineType, Flags
    <2>5. Buffer' /\ asked' \in BOOLEAN
      BY <1>0, <1>3 DEF MoveStep, Buffer
    <2> QED BY <2>3, <2>4, <2>5, TypePartsNext DEF Flags
  <1>4. CASE EraseStep
    <2>1. Echoes(EchoBackspace(Here), Blank)
      BY <1>4 DEF EraseStep, Backspace
    <2>2. EchoBackspace(Here) \in Steady
      BY <2>1, EchoVisible DEF Echoes
    <2>3. ScreenType' /\ astray' \in BOOLEAN /\ spilled' \in BOOLEAN /\ plain' \in BOOLEAN
      BY <2>1, <2>2, EchoesType
    <2>4. raced' \in BOOLEAN
      BY <1>4 DEF EraseStep, Backspace
    <2>5. typed' \in Seq(Chars)
      BY <1>0, <1>4 DEF EraseStep, Backspace, LineType, Front
    <2>6. count' \in 0..PRESSED
      BY <1>0, <1>4, KeyboardAssumption DEF EraseStep, Backspace, LineType, Backward
    <2>7. LineType'
      BY <1>0, <1>4, <2>5, <2>6 DEF EraseStep, Backspace, LineType
    <2>8. Buffer' /\ asked' \in BOOLEAN
      BY <1>0, <1>4 DEF EraseStep, Buffer
    <2> QED BY <2>3, <2>4, <2>7, <2>8, TypePartsNext DEF Flags
  <1> QED BY <1>0, <1>1, <1>2, <1>3, <1>4, KeySteps

\* The steps of scanf keep the types.
LEMMA ScanfType ==
    ASSUME TypeInv, Scanf, UNCHANGED <<result, asked>>
    PROVE  TypeInv'
  <1>0. ScreenType /\ Flags /\ LineType /\ Buffer /\ asked \in BOOLEAN
    BY TypeParts
  <1>1. ScreenType'
    BY <1>0 DEF Scanf, LoopEnds, EndLine, ResetCount, CopyCharacter, CopyEnds, ClearCharacter,
                Return, screen, ScreenType
  <1>2. Buffer' /\ asked' \in BOOLEAN
    BY <1>0 DEF Buffer
  <1>3. CASE LoopEnds \/ ResetCount \/ CopyEnds
    <2>1. Flags'
      BY <1>0, <1>3 DEF LoopEnds, ResetCount, CopyEnds, history, Flags
    <2>2. LineType'
      BY <1>0, <1>3, KeyboardAssumption DEF LoopEnds, ResetCount, CopyEnds, history, LineType
    <2> QED BY <1>1, <1>2, <2>1, <2>2, TypePartsNext
  <1>4. CASE EndLine
    <2>1. Flags'
      BY <1>0, <1>4 DEF EndLine, history, Flags
    <2>2. pressed' \in [Index -> Chars]
      BY <1>0, <1>4, KeyboardAssumption DEF EndLine, Terminated, LineType
    <2>3. shift' \in {0, 1} /\ control' \in {0, 1}
      BY <1>0, <1>4 DEF EndLine, LineType
    <2>4. LineType'
      BY <1>0, <1>4, <2>2, <2>3 DEF EndLine, history, LineType
    <2> QED BY <1>1, <1>2, <2>1, <2>4, TypePartsNext
  <1>5. ASSUME ~Stops PROVE at \in Index /\ at + 1 \in 0..PRESSED
    BY <1>0, <1>5, KeyboardAssumption DEF Stops, LineType, Index
  <1>6. CASE CopyCharacter
    <2>1. Flags'
      BY <1>0, <1>6 DEF CopyCharacter, history, Flags
    <2>2. at' \in 0..PRESSED /\ pressed[at] \in Chars
      BY <1>0, <1>5, <1>6 DEF CopyCharacter, LineType
    <2>3. buf' \in Seq(Chars)
      BY <1>0, <1>6, <2>2 DEF CopyCharacter, LineType
    <2>4. LineType'
      BY <1>0, <1>6, <2>2, <2>3 DEF CopyCharacter, history, LineType
    <2> QED BY <1>1, <1>2, <2>1, <2>4, TypePartsNext
  <1>7. CASE ClearCharacter
    <2>1. Flags'
      BY <1>0, <1>7 DEF ClearCharacter, history, Flags
    <2>2. at' \in 0..PRESSED /\ pressed' \in [Index -> Chars]
      BY <1>0, <1>5, <1>7, KeyboardAssumption DEF ClearCharacter, LineType
    <2>3. LineType'
      BY <1>0, <1>7, <2>2 DEF ClearCharacter, history, LineType
    <2> QED BY <1>1, <1>2, <2>1, <2>3, TypePartsNext
  <1>8. CASE Return
    <2>1. astray' \in BOOLEAN /\ spilled' \in BOOLEAN /\ plain' \in BOOLEAN
      BY <1>0, <1>8 DEF Return, Flags
    <2>2. raced' \in BOOLEAN
      BY <1>8 DEF Return
    <2>3. LineType'
      BY <1>0, <1>8, KeyboardAssumption DEF Return, LineType
    <2> QED BY <1>1, <1>2, <2>1, <2>2, <2>3, TypePartsNext DEF Flags
  <1> QED BY <1>3, <1>4, <1>6, <1>7, <1>8 DEF Scanf

\* What a program or the kernel prints is an output of one screen of the kind the
\* other one was.
LEMMA OutputStays ==
    ASSUME TypeInv, (\E t \in Outputs : Printf(t)) \/ (\E t \in Messages : Kprintf(t))
    PROVE  \E s : /\ Output(s) /\ Buffer'
                  /\ \A X \in {Steady, Above, Unspoilt} : Here \in X => s \in X
  <1>1. ASSUME NEW t \in Outputs, Printf(t)
        PROVE  \E s : /\ Output(s) /\ Buffer'
                      /\ \A X \in {Steady, Above, Unspoilt} : Here \in X => s \in X
    <2>1. Buffer' /\ result' \in Seq(Printed)
      BY <1>1, TypeParts, FormattedType DEF Printf
    <2>2. \A X \in {Steady, Above, Unspoilt} : Here \in X => Argument(Here, result') \in X
      BY <2>1, PrintingStays
    <2>3. Output(Argument(Here, result'))
      BY <1>1 DEF Printf
    <2> QED BY <2>1, <2>2, <2>3
  <1>2. ASSUME NEW t \in Messages, Kprintf(t)
        PROVE  \E s : /\ Output(s) /\ Buffer'
                      /\ \A X \in {Steady, Above, Unspoilt} : Here \in X => s \in X
    <2>1. Buffer'
      BY <1>2, TypeParts DEF Kprintf, Buffer
    <2>2. t \in Seq({Text, Newline})
      BY TerminalAssumption
    <2>3. \A X \in {Steady, Above, Unspoilt} : Here \in X => Plain(Here, t) \in X
      BY <2>2, PrintingStays
    <2>4. Output(Plain(Here, t))
      BY <1>2 DEF Kprintf
    <2> QED BY <2>1, <2>3, <2>4
  <1> QED BY <1>1, <1>2

\* clear_console blanks the text rows and, unless the cursor was in it, leaves the
\* clock's row alone.
LEMMA WipedIs ==
    ASSUME TypeInv
    PROVE  /\ Wiped \in Steady /\ Wiped.x = 0 /\ Wiped.y = 0
           /\ \A c \in Columns : Wiped.v[LAST][c] = Blank
           /\ ~OnClockRow => \A c \in Columns : Wiped.v[ClockRow][c] \in {Blank, Clock}
  <1> DEFINE w == [r \in Rows |-> [c \in Columns |->
              IF r <= LAST THEN Blank
              ELSE IF y_pos = ClockRow /\ c >= x_pos THEN Text ELSE video[r][c]]]
  <1>1. Wiped = [v |-> w, x |-> 0, y |-> 0]
    BY DEF Wiped
  <1>2. w \in [Rows -> [Columns -> Cells]]
    BY DEF Cells, TypeInv, TypeOK
  <1>3. \A c \in Columns : w[LAST][c] = Blank
    BY Numbers
  <1>4. ~OnClockRow => \A c \in Columns : w[ClockRow][c] \in {Blank, Clock}
    BY Numbers DEF OnClockRow
  <1> HIDE DEF w
  <1>5. Wiped \in Steady
    BY <1>1, <1>2, Numbers DEF Steady, Screens
  <1> QED BY <1>1, <1>3, <1>4, <1>5

\* The clock writes its own row.
LEMMA TickIs ==
    ASSUME TypeInv, Tick
    PROVE  /\ ScreenType'
           /\ \A r \in Rows : r # ClockRow => video'[r] = video[r]
           /\ \A c \in Columns : video'[ClockRow][c] \in {Clock, video[ClockRow][c]}
  <1>1. video \in [Rows -> [Columns -> {Blank, Text, Clock} \cup Chars]]
    BY DEF TypeInv, TypeOK
  <1>2. video' = [video EXCEPT ![ClockRow] =
                   [c \in Columns |-> IF c >= CLOCK THEN Clock ELSE @[c]]]
    BY DEF Tick, KprintfTimer
  <1>3. \A r \in Rows : r # ClockRow => video'[r] = video[r]
    BY <1>1, <1>2
  <1>4. \A c \in Columns : video'[ClockRow][c] = IF c >= CLOCK THEN Clock ELSE video[ClockRow][c]
    BY <1>1, <1>2, Numbers
  <1>5. video' \in [Rows -> [Columns -> {Blank, Text, Clock} \cup Chars]]
    BY <1>1, <1>2, Numbers
  <1>6. ScreenType'
    BY <1>5, TypeParts DEF Tick, KprintfTimer, ScreenType
  <1> QED BY <1>3, <1>4, <1>6

\* The types hold at the start.
LEMMA InitType == Init => TypeInv
  <1> SUFFICES ASSUME Init PROVE TypeInv
    OBVIOUS
  <1>1. ScreenType
    <2>1. video \in [Rows -> [Columns -> {Blank, Text, Clock} \cup Chars]]
      BY DEF Init, ScreenInit
    <2> QED BY <2>1, Numbers DEF Init, ScreenInit, ScreenType
  <1>2. Flags
    BY DEF Init, KeyboardInit, Flags
  <1>3. LineType
    BY KeyboardAssumption DEF Init, KeyboardInit, LineType, Index
  <1>4. Buffer /\ asked \in BOOLEAN
    BY DEF Init, Buffer
  <1> QED BY <1>1, <1>2, <1>3, <1>4, TypeParts

\* Every step keeps the types.
LEMMA StepType == TypeInv /\ [Next]_vars => TypeInv'
  <1> SUFFICES ASSUME TypeInv, [Next]_vars PROVE TypeInv'
    OBVIOUS
  <1>0. ScreenType /\ Flags /\ LineType /\ Buffer /\ asked \in BOOLEAN
    BY TypeParts
  <1>1. CASE AnyKey
    BY <1>1, KeyType
  <1>2. CASE Tick
    <2>1. ScreenType'
      BY <1>2, TickIs
    <2>2. Flags' /\ LineType'
      BY <1>0, <1>2 DEF Tick, keyboard, Flags, LineType
    <2>3. Buffer' /\ asked' \in BOOLEAN
      BY <1>0, <1>2 DEF Tick, Buffer
    <2> QED BY <2>1, <2>2, <2>3, TypePartsNext
  <1>3. ASSUME NEW n \in Prompts, Prompt(n) PROVE TypeInv'
    <2> DEFINE p == Plain(Here, [i \in 1..n |-> Text])
    <2>1. p \in Visible
      BY <1>3, HereIs, PromptIs DEF Prompt
    <2>2. Show(p) /\ global_x' = p.x
      BY <1>3 DEF Prompt
    <2> HIDE DEF p
    <2>3. p \in Steady /\ p.x \in 0..COLS
      BY <2>1 DEF Visible, Steady, Screens
    <2>4. ScreenType'
      BY <2>2, <2>3, ShownSteady DEF ScreenType
    <2>5. plain' \in BOOLEAN
      BY <1>3 DEF Prompt
    <2>6. Flags' /\ LineType'
      BY <1>0, <1>3, <2>5 DEF Prompt, keyboard, Flags, LineType
    <2>7. Buffer' /\ asked' \in BOOLEAN
      BY <1>0, <1>3 DEF Prompt, Buffer
    <2> QED BY <2>4, <2>6, <2>7, TypePartsNext
  <1>4. CASE CallScanf
    <2>1. ScreenType'
      BY <1>0, <1>4 DEF CallScanf, Call, ScreenType, screen
    <2>2. Flags' /\ LineType'
      BY <1>0, <1>4 DEF CallScanf, Call, Flags, LineType, history
    <2>3. Buffer' /\ asked' \in BOOLEAN
      BY <1>0, <1>4 DEF CallScanf, Buffer
    <2> QED BY <2>1, <2>2, <2>3, TypePartsNext
  <1>5. CASE Scanf /\ UNCHANGED <<result, asked>>
    BY <1>5, ScanfType
  <1>6. CASE (\E t \in Outputs : Printf(t)) \/ (\E t \in Messages : Kprintf(t))
    <2>1. PICK s : /\ Output(s) /\ Buffer'
                   /\ \A X \in {Steady, Above, Unspoilt} : Here \in X => s \in X
      BY <1>6, OutputStays
    <2>2. s \in Steady
      BY <2>1, HereIs
    <2>3. ScreenType'
      BY <1>0, <2>1, <2>2, ShownSteady DEF Output, ScreenType
    <2>4. Flags' /\ LineType' /\ asked' \in BOOLEAN
      BY <1>0, <2>1 DEF Output, keyboard, Flags, LineType
    <2> QED BY <2>1, <2>3, <2>4, TypePartsNext
  <1>7. CASE Clear
    <2>1. ScreenType'
      BY <1>0, <1>7, WipedIs, ShownSteady DEF Clear, ScreenType
    <2>2. spilled' \in BOOLEAN /\ astray' \in BOOLEAN
      BY <1>7 DEF Clear
    <2>3. Flags' /\ LineType'
      BY <1>0, <1>7, <2>2 DEF Clear, keyboard, Flags, LineType
    <2>4. Buffer' /\ asked' \in BOOLEAN
      BY <1>0, <1>7 DEF Clear, Buffer
    <2> QED BY <2>1, <2>3, <2>4, TypePartsNext
  <1>8. CASE UNCHANGED vars
    <2>1. ScreenType' /\ Flags' /\ LineType'
      BY <1>0, <1>8 DEF vars, screen, history, ScreenType, Flags, LineType
    <2>2. Buffer' /\ asked' \in BOOLEAN
      BY <1>0, <1>8 DEF vars, Buffer
    <2> QED BY <2>1, <2>2, TypePartsNext
  <1> QED BY <1>1, <1>2, <1>3, <1>4, <1>5, <1>6, <1>7, <1>8 DEF Next

\* The types, for every screen, every keyboard and every text.
THEOREM TerminalTypes == Spec => []TypeOK
  <1>1. TypeInv => TypeOK
    BY DEF TypeInv
  <1> QED BY <1>1, InitType, StepType, PTL DEF Spec

\* The types with the place of the cursor in row LAST, for the invariants below.
LEMMA TypeAlways == Spec => []TypeInv
  BY InitType, StepType, PTL DEF Spec

-----------------------------------------------------------------------------
(* The rows of the screen.                                                 *)

\* Every key but a modifier echoes something, of which the lemmas above tell what
\* it leaves alone.
LEMMA KeyEchoes ==
    ASSUME TypeInv, AnyKey, ~QuietStep
    PROVE  \E e, c : /\ Echoes(e, c) /\ Echoed(Here, e, c = Newline, Misplaced(c)) /\ pc' = pc
                     /\ input_done' = input_done \/ (c = Newline /\ input_done' = 0)
  <1>0. TypeOK
    BY DEF TypeInv
  <1>1. ASSUME NEW c \in Chars, StoreStep(c)
        PROVE  \E e : /\ Echoes(e, c) /\ Echoed(Here, e, c = Newline, Misplaced(c)) /\ pc' = pc
                      /\ input_done' = input_done \/ (c = Newline /\ input_done' = 0)
    <2>1. Echoes(Echo(Here, c, control, shift), c) /\ pc' = pc
      BY <1>1 DEF StoreStep, Store
    <2>2. Here \in Visible /\ control \in {0, 1} /\ shift \in {0, 1} /\ global_x \in 0..COLS
      BY <2>1, EchoVisible DEF Echoes
    <2>3. Echoed(Here, Echo(Here, c, control, shift), c = Newline,
                 c = QUOTE /\ shift = 1 /\ control # 1)
      BY <2>2, EchoIs
    <2> QED BY <1>1, <2>1, <2>3 DEF StoreStep, Misplaced
  <1>2. Blank # Newline /\ Blank # QUOTE
    BY KeyboardAssumption
  <1>3. ASSUME MoveStep \/ EraseStep
        PROVE  \E e : Echoes(e, Blank) /\ Echoed(Here, e, FALSE, FALSE) /\ pc' = pc
                      /\ input_done' = input_done
    <2>1. OnScreen /\ pc' = pc /\ input_done' = input_done
      BY <1>3 DEF MoveStep, EraseStep, Backspace, Echoes
    <2>2. Here \in Visible /\ global_x \in 0..COLS
      BY <2>1, EchoVisible
    <2>3. Echoed(Here, Ready(Here), FALSE, FALSE) /\ Echoed(Here, EchoBackspace(Here), FALSE, FALSE)
      BY <2>2, ReadyEchoed, EchoBackspaceIs
    <2> QED BY <1>3, <2>1, <2>3 DEF MoveStep, EraseStep, Backspace
  <1>4. CASE MoveStep \/ EraseStep
    <2>1. PICK e : Echoes(e, Blank) /\ Echoed(Here, e, FALSE, FALSE) /\ pc' = pc
                   /\ input_done' = input_done
      BY <1>3, <1>4
    <2>2. Echoed(Here, e, Blank = Newline, Misplaced(Blank))
      BY <1>2, <2>1 DEF Echoed, Misplaced
    <2> QED BY <2>1, <2>2
  <1> QED BY <1>0, <1>1, <1>4, KeySteps

\* Every step keeps output above row LAST; keys by what Ready says, output by Above.
LEMMA StepAboveLast ==
    ASSUME TypeInv, OutputAboveLast, [Next]_vars
    PROVE  OutputAboveLast'
  <1> SUFFICES ASSUME ~spilled'
               PROVE  y_pos' < LAST /\ \A c \in Columns : video'[LAST][c] = Blank
    BY DEF OutputAboveLast
  <1>1. CASE AnyKey /\ ~QuietStep
    <2>1. PICK e, c : Echoes(e, c) /\ Echoed(Here, e, c = Newline, Misplaced(c))
      BY <1>1, KeyEchoes
    <2>2. ~spilled /\ Ready(Here).y # LAST /\ Show(e)
      BY <2>1 DEF Echoes
    <2>3. e.y < LAST /\ \A i \in Columns : e.v[LAST][i] = video[LAST][i]
      BY <2>1, <2>2, HereIs DEF Echoed
    <2> QED BY <2>2, <2>3 DEF OutputAboveLast, Show
  <1>2. CASE QuietStep \/ CallScanf \/ (Scanf /\ UNCHANGED <<result, asked>>) \/ UNCHANGED vars
    <2>1. UNCHANGED <<spilled, video, y_pos>>
      BY <1>2 DEF QuietStep, CallScanf, Call, Scanf, LoopEnds, EndLine, ResetCount,
                  CopyCharacter, CopyEnds, ClearCharacter, Return, vars, screen, history
    <2> QED BY <2>1 DEF OutputAboveLast
  <1>3. CASE Tick
    <2>1. video'[LAST] = video[LAST]
      BY <1>3, TickIs, Numbers
    <2> QED BY <1>3, <2>1 DEF Tick, KprintfTimer, OutputAboveLast
  <1>4. ASSUME NEW n \in Prompts, Prompt(n)
        PROVE  y_pos' < LAST /\ \A c \in Columns : video'[LAST][c] = Blank
    <2> DEFINE p == Plain(Here, [i \in 1..n |-> Text])
    <2>1. Here \in Visible /\ ~spilled /\ Show(p)
      BY <1>4, HereIs DEF Prompt
    <2>2. Here \in Above /\ Here.y < LAST
      BY <2>1, HereIs DEF Above, OutputAboveLast, Visible
    <2>3. p \in Above
      BY <2>1, <2>2, PromptIs
    <2> HIDE DEF p
    <2> QED BY <2>1, <2>3 DEF Show, Above
  <1>5. CASE (\E t \in Outputs : Printf(t)) \/ (\E t \in Messages : Kprintf(t))
    <2>1. PICK s : Output(s) /\ \A X \in {Steady, Above, Unspoilt} : Here \in X => s \in X
      BY <1>5, OutputStays
    <2>2. Here \in Above
      BY <2>1, HereIs DEF Above, OutputAboveLast, Output, Steady
    <2>3. s \in Above
      BY <2>1, <2>2
    <2> QED BY <2>1, <2>3 DEF Output, Show, Above
  <1>6. CASE Clear
    BY <1>6, WipedIs, Numbers DEF Clear, Show
  <1> QED BY <1>1, <1>2, <1>3, <1>4, <1>5, <1>6 DEF Next

\* Whatever programs, the kernel and the shell print, in whatever order with keys
\* and the clock, scrolling brings blank lines only.
THEOREM OutputKeepsAbove == Spec => []OutputAboveLast
  <1>1. Init => OutputAboveLast
    BY Numbers DEF Init, ScreenInit, OutputAboveLast
  <1>2. TypeInv /\ OutputAboveLast /\ [Next]_vars => OutputAboveLast'
    BY StepAboveLast
  <1> QED BY <1>1, <1>2, TypeAlways, PTL DEF Spec

\* CursorReturns while a program runs needs it for the end of scanf: once Enter
\* was pressed the cursor is in the text rows.
CursorInv ==
    ~astray => /\ ~(pc = "wait" /\ input_done = 1) => y_pos < LAST
               /\ y_pos <= LAST
               /\ \A c \in Columns : video[ClockRow][c] \in {Blank, Clock}

\* Every step keeps CursorInv.
LEMMA StepCursor ==
    ASSUME TypeInv, CursorInv, [Next]_vars
    PROVE  CursorInv'
  <1> DEFINE Waits == pc = "wait" /\ input_done = 1
             Row == \A c \in Columns : video[ClockRow][c] \in {Blank, Clock}
  <1> SUFFICES ASSUME ~astray'
               PROVE  (~Waits' => y_pos' < LAST) /\ y_pos' <= LAST /\ Row'
    BY DEF CursorInv
  <1>0. y_pos \in Nat /\ LAST \in Nat
    BY Numbers DEF TypeInv, TypeOK
  <1>1. CASE AnyKey /\ ~QuietStep
    <2>1. PICK e, c : /\ Echoes(e, c) /\ Echoed(Here, e, c = Newline, Misplaced(c)) /\ pc' = pc
                      /\ input_done' = input_done \/ (c = Newline /\ input_done' = 0)
      BY <1>1, KeyEchoes
    <2>2. /\ ~astray /\ pc = "wait" /\ input_done # 0 /\ Show(e)
          /\ ~(c = Newline /\ x_pos = COLS /\ y_pos = LAST - 1) /\ ~Misplaced(c)
      BY <2>1 DEF Echoes
    <2>3. e.y \in Nat /\ \A i \in Columns : e.v[ClockRow][i] = video[ClockRow][i]
      BY <2>1, <2>2, HereIs DEF Echoed, Steady, Screens
    <2>4. Row'
      BY <2>2, <2>3 DEF CursorInv, Show
    <2>5. y_pos' <= LAST /\ (c = Newline => y_pos' < LAST)
      BY <1>0, <2>1, <2>2, <2>3, HereIs DEF Echoed, Show
    <2>6. input_done \in {0, 1}
      BY DEF TypeInv, TypeOK, KeyboardTypeOK
    <2> QED BY <2>1, <2>2, <2>4, <2>5, <2>6
  <1>2. CASE QuietStep \/ CallScanf \/ (Scanf /\ UNCHANGED <<result, asked>>) \/ UNCHANGED vars
    <2>1. UNCHANGED <<astray, video, y_pos>>
      BY <1>2 DEF QuietStep, CallScanf, Call, Scanf, LoopEnds, EndLine, ResetCount,
                  CopyCharacter, CopyEnds, ClearCharacter, Return, vars, screen, history
    <2>2. ~Waits' => ~Waits
      <3>1. CASE QuietStep \/ UNCHANGED vars
        BY <3>1 DEF QuietStep, vars
      <3>2. CASE CallScanf
        BY <3>2 DEF CallScanf, Call
      <3>3. CASE Scanf
        BY <3>3 DEF Scanf, LoopEnds, EndLine, ResetCount, CopyCharacter, CopyEnds,
                      ClearCharacter, Return, Polled
      <3> QED BY <1>2, <3>1, <3>2, <3>3
    <2> QED BY <2>1, <2>2 DEF CursorInv
  <1>3. CASE Tick
    <2>1. UNCHANGED <<astray, y_pos, pc, input_done>>
      BY <1>3 DEF Tick, KprintfTimer, keyboard
    <2>2. Row'
      BY <1>3, <2>1, TickIs DEF CursorInv
    <2> QED BY <2>1, <2>2 DEF CursorInv
  <1>4. ASSUME NEW n \in Prompts, Prompt(n) PROVE y_pos' < LAST /\ Row'
    <2> DEFINE p == Plain(Here, [i \in 1..n |-> Text])
    <2>1. Here \in Visible /\ ~astray /\ Show(p) /\ pc = "user"
      BY <1>4, HereIs DEF Prompt
    <2>2. Here \in Unspoilt /\ Here.y < LAST
      BY <2>1, HereIs DEF Unspoilt, CursorInv, Visible
    <2>3. p \in Unspoilt
      BY <2>1, <2>2, PromptIs
    <2> HIDE DEF p
    <2> QED BY <2>1, <2>3 DEF Show, Unspoilt
  <1>5. ASSUME (\E t \in Outputs : Printf(t)) \/ (\E t \in Messages : Kprintf(t))
        PROVE  y_pos' < LAST /\ Row'
    <2>1. PICK s : Output(s) /\ \A X \in {Steady, Above, Unspoilt} : Here \in X => s \in X
      BY <1>5, OutputStays
    <2>2. Here \in Unspoilt
      BY <2>1, HereIs DEF Unspoilt, CursorInv, Output, Steady
    <2>3. s \in Unspoilt
      BY <2>1, <2>2
    <2> QED BY <2>1, <2>3 DEF Output, Show, Unspoilt
  <1>6. ASSUME Clear PROVE y_pos' < LAST /\ Row'
    <2>1. ~OnClockRow
      <3>1. ~(astray /\ OnClockRow)
        BY <1>6 DEF Clear
      <3>2. CASE ~astray
        <4>1. y_pos <= LAST /\ Row
          BY <3>2 DEF CursorInv
        <4> QED BY <1>0, <4>1 DEF OnClockRow, ClockRow
      <3> QED BY <3>1, <3>2
    <2> QED BY <1>6, <2>1, WipedIs, Numbers DEF Clear, Show
  <1>7. CASE y_pos' < LAST /\ Row'
    <2>1. y_pos' \in Nat
      BY StepType DEF TypeInv, TypeOK
    <2> QED BY <1>0, <1>7, <2>1
  <1> QED BY <1>1, <1>2, <1>3, <1>4, <1>5, <1>6, <1>7 DEF Next

\* With keys pressed only while scanf waits, the cursor is back in the text rows
\* when scanf returns, and nothing is ever written over the clock.
THEOREM CursorComesBack == Spec => []CursorReturns
  <1>1. Init => CursorInv
    BY Numbers DEF Init, ScreenInit, KeyboardInit, CursorInv
  <1>2. TypeInv /\ CursorInv /\ [Next]_vars => CursorInv'
    BY StepCursor
  <1>3. TypeInv /\ CursorInv => CursorReturns
    BY Numbers DEF CursorInv, CursorReturns, OnClockRow, TypeInv, TypeOK
  <1> QED BY <1>1, <1>2, <1>3, TypeAlways, PTL DEF Spec

-----------------------------------------------------------------------------
(* The line.                                                               *)

\* EchoIsLine with where the cursor is, and that nobody but keys and the clock
\* writes between the prompt and Enter.
EchoInv ==
    /\ asked => pc = "user"
    /\ plain => /\ asked \/ (pc = "wait" /\ input_done = 1)
                /\ y_pos <= LAST /\ global_x >= 1
                /\ x_pos = global_x + Len(typed)
                /\ \A i \in DOMAIN typed : video[y_pos][global_x + i - 1] = typed[i]
                /\ video[y_pos][global_x - 1] = Text

\* Every step keeps EchoInv.
LEMMA StepEcho ==
    ASSUME TypeInv, EchoInv, [Next]_vars
    PROVE  EchoInv'
  <1>0. /\ x_pos \in 0..COLS /\ global_x \in 0..COLS /\ y_pos \in Nat
        /\ typed \in Seq(Chars) /\ Len(typed) \in Nat /\ DOMAIN typed = 1..Len(typed)
        /\ input_done \in {0, 1} /\ control \in {0, 1} /\ shift \in {0, 1} /\ TypeOK
    BY DEF TypeInv, TypeOK, KeyboardTypeOK
  <1> DEFINE Line1 == /\ y_pos <= LAST /\ global_x >= 1
                      /\ x_pos = global_x + Len(typed)
                      /\ \A i \in DOMAIN typed : video[y_pos][global_x + i - 1] = typed[i]
                      /\ video[y_pos][global_x - 1] = Text
             Open == asked \/ (pc = "wait" /\ input_done = 1)
  <1>a. (asked => pc = "user") /\ (plain => Open /\ Line1)
    BY DEF EchoInv
  <1>b. ASSUME asked' => pc' = "user", plain' => Open' /\ Line1' PROVE EchoInv'
    BY <1>b DEF EchoInv
  <1>1. ASSUME NEW c \in Chars, StoreStep(c) PROVE EchoInv'
    <2> DEFINE e == Echo(Here, c, control, shift)
    <2>1. Echoes(e, c) /\ pc' = pc /\ asked' = asked /\ typed' = Append(typed, c)
      BY <1>1 DEF StoreStep, Store
    <2>2. ASSUME plain' PROVE Open' /\ Line1'
      <3>1. plain /\ c # Newline /\ x_pos # COLS /\ Show(e) /\ global_x' = global_x
            /\ OnScreen /\ ~(c = QUOTE /\ shift = 1 /\ control # 1)
        BY <2>1, <2>2 DEF Echoes, Misplaced
      <3>2. control = 0
        BY <1>0, <2>1, <2>2, KeyboardAssumption DEF Echoes
      <3>3. Open'
        BY <1>1, <1>a, <2>1, <3>1 DEF StoreStep
      <3>4. Here \in Visible /\ Here.x = x_pos /\ Here.y = y_pos /\ Here.v = video
        BY <3>1, HereIs
      <3>5. /\ e.x = x_pos + 1 /\ e.y < LAST
            /\ \A i \in Columns : e.v[e.y][i] = IF i = x_pos THEN c ELSE video[y_pos][i]
        BY <1>0, <3>1, <3>2, <3>4, EchoIs
      <3>6. e \in Steady
        BY <3>1, EchoVisible
      <3> HIDE DEF e
      <3>7. e.y \in Nat /\ e.y <= LAST /\ COLS \in Nat
        BY <3>5, <3>6, Numbers DEF Steady, Screens
      <3>8. Line1
        BY <1>a, <3>1
      <3>9. /\ Len(typed') = Len(typed) + 1 /\ DOMAIN typed' = 1..(Len(typed) + 1)
            /\ \A i \in 1..Len(typed) : typed'[i] = typed[i]
            /\ typed'[Len(typed) + 1] = c
        BY <1>0, <2>1
      <3>10. x_pos' = global_x' + Len(typed') /\ y_pos' <= LAST /\ global_x' >= 1
        BY <1>0, <3>1, <3>5, <3>7, <3>8, <3>9 DEF Show
      <3>11. ASSUME NEW i \in 1..(Len(typed) + 1)
             PROVE  e.v[e.y][global_x + i - 1] = typed'[i]
        <4>1. CASE i = Len(typed) + 1
          <5>1. global_x + i - 1 = x_pos /\ x_pos \in Columns
            BY <1>0, <3>1, <3>7, <3>8, <4>1 DEF Columns
          <5> QED BY <3>5, <3>9, <4>1, <5>1
        <4>2. CASE i # Len(typed) + 1
          <5>1. i \in 1..Len(typed) /\ global_x + i - 1 \in Columns
                /\ global_x + i - 1 # x_pos
            BY <1>0, <3>1, <3>7, <3>8, <4>2 DEF Columns
          <5> QED BY <1>0, <3>5, <3>8, <3>9, <5>1
        <4> QED BY <4>1, <4>2
      <3>12. e.v[e.y][global_x - 1] = Text
        <4>1. global_x - 1 \in Columns /\ global_x - 1 # x_pos
          BY <1>0, <3>1, <3>7, <3>8 DEF Columns
        <4> QED BY <3>5, <3>8, <4>1
      <3> QED BY <3>1, <3>3, <3>9, <3>10, <3>11, <3>12 DEF Show
    <2> QED BY <1>a, <1>b, <2>1, <2>2
  <1>2. CASE QuietStep \/ UNCHANGED vars
    BY <1>2 DEF QuietStep, vars, screen, history, EchoInv
  <1>3. ASSUME MoveStep \/ EraseStep PROVE EchoInv'
    <2>1. PICK e \in {Ready(Here), EchoBackspace(Here)} :
            /\ Echoes(e, Blank) /\ pc' = pc /\ asked' = asked /\ input_done' = input_done
            /\ (e = Ready(Here) /\ typed' = typed) \/
               (e = EchoBackspace(Here) /\ typed' = IF typed = <<>> THEN <<>> ELSE Front(typed))
      BY <1>3 DEF MoveStep, EraseStep, Backspace
    <2>2. ASSUME plain' PROVE Open' /\ Line1'
      <3>1. plain /\ x_pos # COLS /\ Show(e) /\ global_x' = global_x /\ OnScreen
        BY <2>1, <2>2 DEF Echoes
      <3>2. Open'
        BY <1>a, <2>1, <3>1
      <3>3. Line1
        BY <1>a, <3>1
      <3>4. Here \in Visible /\ Here.x = x_pos /\ Here.y = y_pos /\ Here.v = video
        BY <3>1, HereIs
      <3>5. e \in Steady /\ COLS \in Nat
        BY <2>1, <3>1, EchoVisible, Numbers
      <3>6. e.y \in Nat
        BY <3>5 DEF Steady, Screens
      <3>7. /\ typed' \in Seq(Chars) /\ Len(typed') \in 0..Len(typed)
            /\ \A i \in 1..Len(typed') : typed'[i] = typed[i]
        <4>1. CASE typed' = typed
          BY <1>0, <4>1
        <4>2. CASE typed = <<>> /\ typed' = <<>>
          BY <1>0, <4>2
        <4>3. CASE typed # <<>> /\ typed' = Front(typed)
          BY <1>0, <4>3 DEF Front
        <4> QED BY <2>1, <4>1, <4>2, <4>3
      <3>8. /\ e.x = global_x + Len(typed') /\ e.y <= LAST
            /\ \A i \in Columns : i < e.x => e.v[e.y][i] = video[y_pos][i]
        <4>1. CASE e = Ready(Here) /\ typed' = typed
          <5>1. e.x = x_pos /\ e.v[e.y] = video[y_pos] /\ e.y <= LAST
            BY <3>1, <3>4, <4>1, ReadyIs
          <5> QED BY <3>3, <4>1, <5>1
        <4>2. CASE e = EchoBackspace(Here) /\ typed' = IF typed = <<>> THEN <<>> ELSE Front(typed)
          <5>1. /\ e.x = IF x_pos > global_x THEN x_pos - 1 ELSE x_pos
                /\ e.y < LAST
                /\ \A i \in Columns : i < e.x => e.v[e.y][i] = video[y_pos][i]
            BY <1>0, <3>1, <3>4, <4>2, EchoBackspaceIs
          <5>2. Len(typed') = IF Len(typed) = 0 THEN 0 ELSE Len(typed) - 1
            BY <1>0, <4>2 DEF Front
          <5>3. e.x = global_x + Len(typed')
            <6>1. x_pos = global_x + Len(typed) /\ global_x \in Nat /\ Len(typed) \in Nat
              BY <1>0, <3>3
            <6>2. x_pos > global_x <=> Len(typed) # 0
              BY <6>1
            <6>3. CASE Len(typed) = 0
              BY <5>1, <5>2, <6>1, <6>2, <6>3
            <6>4. CASE Len(typed) # 0
              BY <5>1, <5>2, <6>1, <6>2, <6>4
            <6> QED BY <6>3, <6>4
          <5>4. e.y <= LAST
            BY <3>6, <5>1, Numbers
          <5> QED BY <5>1, <5>3, <5>4
        <4> QED BY <2>1, <4>1, <4>2
      <3>9. ASSUME NEW i \in 1..Len(typed') PROVE e.v[e.y][global_x + i - 1] = typed'[i]
        <4>1. i \in 1..Len(typed) /\ global_x + i - 1 \in Columns /\ global_x + i - 1 < e.x
          BY <1>0, <3>1, <3>3, <3>5, <3>7, <3>8 DEF Columns
        <4> QED BY <1>0, <3>3, <3>7, <3>8, <4>1
      <3>10. e.v[e.y][global_x - 1] = Text
        <4>1. global_x - 1 \in Columns /\ global_x - 1 < e.x
          BY <1>0, <3>1, <3>3, <3>5, <3>7, <3>8 DEF Columns
        <4> QED BY <3>3, <3>8, <4>1
      <3> QED BY <3>1, <3>2, <3>3, <3>7, <3>8, <3>9, <3>10 DEF Show
    <2> QED BY <1>a, <1>b, <2>1, <2>2
  <1>4. CASE Tick
    <2>1. UNCHANGED <<asked, pc, input_done, plain, x_pos, y_pos, global_x, typed>>
      BY <1>4 DEF Tick, KprintfTimer, keyboard
    <2>2. y_pos <= LAST => video'[y_pos] = video[y_pos]
      <3>1. y_pos <= LAST => y_pos \in Rows /\ y_pos # ClockRow
        BY <1>0, Numbers DEF Rows
      <3> QED BY <1>4, <3>1, TickIs
    <2> QED BY <2>1, <2>2 DEF EchoInv
  <1>5. ASSUME NEW n \in Prompts, Prompt(n) PROVE EchoInv'
    <2> DEFINE p == Plain(Here, [i \in 1..n |-> Text])
    <2>1. Here \in Visible /\ Show(p) /\ pc = "user" /\ pc' = pc /\ asked' = TRUE
          /\ global_x' = p.x /\ typed' = typed
      BY <1>5, HereIs DEF Prompt, keyboard
    <2>2. p \in Visible /\ p.y < LAST /\ p.x >= 1 /\ p.v[p.y][p.x - 1] = Text
      BY <2>1, PromptIs
    <2> HIDE DEF p
    <2>3. plain' => typed = <<>>
      BY <1>5 DEF Prompt
    <2>4. p.y <= LAST /\ p.x \in Nat
      BY <2>2, Numbers DEF Visible, Screens
    <2>5. plain' => Line1'
      BY <2>1, <2>2, <2>3, <2>4 DEF Show
    <2> QED BY <1>b, <2>1, <2>5
  <1>6. CASE CallScanf
    <2>1. asked /\ ~asked' /\ pc' = "wait" /\ input_done' = 1
      BY <1>6 DEF CallScanf, Call
    <2>2. UNCHANGED <<plain, x_pos, y_pos, global_x, typed, video>>
      BY <1>6 DEF CallScanf, Call, screen, history
    <2> QED BY <2>1, <2>2 DEF EchoInv
  <1>7. CASE Scanf /\ UNCHANGED <<result, asked>>
    <2>1. pc # "user" /\ ~(pc = "wait" /\ input_done = 1) /\ plain' = plain /\ asked' = asked
      BY <1>7 DEF Scanf, LoopEnds, EndLine, ResetCount, CopyCharacter, CopyEnds,
                  ClearCharacter, Return, history, Polled
    <2>2. ~asked' /\ ~plain'
      BY <1>a, <2>1
    <2> QED BY <1>b, <2>2
  <1>8. ASSUME (\E t \in Outputs : Printf(t)) \/ (\E t \in Messages : Kprintf(t)) \/ Clear
        PROVE  EchoInv'
    <2>1. pc = "user" /\ ~asked /\ plain' = plain /\ asked' = asked
      BY <1>8 DEF Printf, Kprintf, Output, Clear
    <2>2. ~asked' /\ ~plain'
      BY <1>a, <2>1
    <2> QED BY <1>b, <2>2
  <1> QED BY <1>0, <1>1, <1>2, <1>3, <1>4, <1>5, <1>6, <1>7, <1>8, KeySteps DEF Next

\* What stands on the screen right of the prompt is the line that scanf returns.
THEOREM EchoShowsLine == Spec => []EchoIsLine
  <1>1. Init => EchoInv
    BY DEF Init, KeyboardInit, EchoInv
  <1>2. TypeInv /\ EchoInv /\ [Next]_vars => EchoInv'
    BY StepEcho
  <1>3. EchoInv => EchoIsLine
    BY DEF EchoInv, EchoIsLine
  <1> QED BY <1>1, <1>2, <1>3, TypeAlways, PTL DEF Spec

\* The characters that strcpy has copied so far.
Copied == /\ Len(buf) = at
          /\ \A i \in 1..at : buf[i] = pressed[i - 1] /\ pressed[i - 1] # NUL

\* While scanf waits the buffer holds what was typed, from the Enter to the copy
\* less the Enter, behind which there is a NUL.
LineInv ==
    ~raced =>
      /\ pc \in {"user", "wait", "end"} =>
           count = Len(typed) /\ \A i \in 1..Len(typed) : pressed[i - 1] = typed[i]
      /\ pc \in {"user", "wait", "end", "reset"} => at = 0 /\ buf = <<>>
      /\ pc = "end" \/ (pc = "wait" /\ input_done = 0) => typed # <<>>
      /\ pc \in {"reset", "copy"} =>
           /\ typed # <<>> /\ Len(typed) <= PRESSED
           /\ \A i \in 1..(Len(typed) - 1) : pressed[i - 1] = typed[i]
           /\ pressed[Len(typed) - 1] = NUL
      /\ pc = "copy" => Copied
      /\ pc = "clear" => buf = Typed

\* Front drops the last character.
LEMMA FrontIs ==
    ASSUME NEW C, NEW s \in Seq(C), s # <<>>
    PROVE  /\ Front(s) \in Seq(C) /\ Len(Front(s)) = Len(s) - 1
           /\ \A i \in 1..(Len(s) - 1) : Front(s)[i] = s[i]
  <1> DEFINE m == Len(s) - 1
  <1>1. Len(s) \in Nat \ {0} /\ m \in Nat /\ m = Len(s) - 1
    OBVIOUS
  <1>2. Front(s) = SubSeq(s, 1, m)
    BY DEF Front
  <1> HIDE DEF m
  <1>3. Front(s) \in Seq(C) /\ Len(Front(s)) = m
    BY <1>1, <1>2
  <1>4. \A i \in 1..m : Front(s)[i] = s[i]
    BY <1>1, <1>2
  <1> QED BY <1>1, <1>3, <1>4

\* Where strcpy stops in such a buffer, it has copied the typed line.
LEMMA CopiedIsTyped ==
    ASSUME pressed \in [Index -> Chars], typed \in Seq(Chars), typed # <<>>,
           Len(typed) <= PRESSED, pressed[Len(typed) - 1] = NUL,
           \A i \in 1..(Len(typed) - 1) : pressed[i - 1] = typed[i],
           buf \in Seq(Chars), at \in 0..PRESSED, Copied, Stops
    PROVE  buf = Typed
  <1> DEFINE s == Front(typed)
             m == Len(typed) - 1
             nuls == {i \in 1..Len(s) : s[i] = NUL}
             first == CHOOSE i \in nuls : \A j \in nuls : i <= j
             l == buf
  <1>1. Len(typed) \in Nat \ {0} /\ m \in Nat /\ m < PRESSED /\ PRESSED \in Nat /\ m \in Index
    BY KeyboardAssumption DEF Index
  <1>2. s \in Seq(Chars) /\ Len(s) = m /\ \A i \in 1..m : s[i] = typed[i]
    BY FrontIs
  <1>3. Typed = IF nuls = {} THEN s ELSE SubSeq(s, 1, first - 1)
    BY DEF Typed
  <1>4. /\ l \in Seq(Chars) /\ Len(l) \in 0..PRESSED
        /\ \A i \in 1..Len(l) : l[i] = pressed[i - 1]
        /\ \A i \in Index : i < Len(l) => pressed[i] # NUL
        /\ \A i \in Index : i = Len(l) => pressed[i] = NUL
    <2>1. Len(l) = at /\ \A i \in 1..at : l[i] = pressed[i - 1] /\ pressed[i - 1] # NUL
      BY DEF Copied
    <2>2. \A i \in Index : i = at => pressed[i] = NUL
      BY <1>1 DEF Stops, Index
    <2>3. ASSUME NEW i \in Index, i < at PROVE pressed[i] # NUL
      <3>1. i + 1 \in 1..at /\ (i + 1) - 1 = i
        BY <1>1, <2>3 DEF Index
      <3> QED BY <2>1, <3>1
    <2> QED BY <2>1, <2>2, <2>3
  <1> HIDE DEF s, l
  <1>5. \A i \in 1..m : i - 1 \in Index /\ pressed[i - 1] = s[i]
    BY <1>1, <1>2 DEF Index
  <1>6. Len(l) <= m
    BY <1>1, <1>4
  <1>7. Len(l) \in Index
    BY <1>1, <1>4, <1>6 DEF Index
  <1>8. \A i \in 1..Len(l) : i \in 1..m /\ l[i] = s[i] /\ s[i] # NUL
    <2> TAKE i \in 1..Len(l)
    <2>1. i \in 1..m /\ i - 1 < Len(l)
      BY <1>1, <1>4, <1>6
    <2> QED BY <1>4, <1>5, <2>1
  <1>9. Len(l) < m => Len(l) + 1 \in 1..m /\ s[Len(l) + 1] = NUL
    <2>1. Len(l) < m => Len(l) + 1 \in 1..m /\ (Len(l) + 1) - 1 = Len(l)
      BY <1>1, <1>4
    <2> QED BY <1>4, <1>5, <1>7, <2>1
  <1>10. CASE nuls = {}
    <2>1. \A i \in 1..m : s[i] # NUL
      BY <1>2, <1>10
    <2>2. Len(l) = m
      BY <1>1, <1>4, <1>6, <1>9, <2>1
    <2>3. l = s
      BY <1>2, <1>4, <1>8, <2>2
    <2> QED BY <1>3, <1>10, <2>3 DEF l
  <1>11. CASE nuls # {}
    <2>1. nuls \subseteq Nat
      BY <1>2
    <2>2. \E i \in nuls : \A j \in nuls : i <= j
      BY <1>11, <2>1, LeastNumber
    <2>3. first \in nuls /\ \A j \in nuls : first <= j
      BY <2>2
    <2> HIDE DEF first
    <2>4. first \in 1..m /\ s[first] = NUL /\ \A i \in 1..m : s[i] = NUL => first <= i
      BY <1>2, <2>3
    <2>5. Len(l) = first - 1
      <3>1. ~(first <= Len(l))
        BY <1>4, <1>8, <2>4
      <3>2. Len(l) < m
        BY <1>1, <1>4, <2>4, <3>1
      <3>3. first <= Len(l) + 1
        BY <1>9, <2>4, <3>2
      <3> QED BY <1>1, <1>4, <2>4, <3>1, <3>3
    <2>6. /\ SubSeq(s, 1, first - 1) \in Seq(Chars)
          /\ Len(SubSeq(s, 1, first - 1)) = first - 1
          /\ \A i \in 1..(first - 1) : SubSeq(s, 1, first - 1)[i] = s[i]
      BY <1>1, <1>2, <2>4
    <2>7. l = SubSeq(s, 1, first - 1)
      BY <1>4, <1>8, <2>5, <2>6
    <2> QED BY <1>3, <1>11, <2>7 DEF l
  <1> QED BY <1>10, <1>11

\* Every step keeps LineInv.
LEMMA StepLine ==
    ASSUME TypeInv, LineInv, [Next]_vars
    PROVE  LineInv'
  <1>0. /\ LineType /\ TypeOK /\ PRESSED \in Nat \ {0} /\ Len(typed) \in Nat
    BY TypeParts, KeyboardAssumption DEF TypeInv, LineType
  <1> SUFFICES ASSUME ~raced' PROVE LineInv'
    BY DEF LineInv
  <1>1. ASSUME NEW c \in Chars, StoreStep(c) PROVE LineInv'
    <2>1. ~raced /\ ~Finishing
      BY <1>1 DEF StoreStep, Store
    <2>2. pc \in {"user", "wait"} /\ (pc = "wait" => input_done = 1) /\ pc' = pc
          /\ at' = at /\ buf' = buf
      BY <1>0, <1>1, <2>1 DEF Finishing, LineType, StoreStep, Store
    <2>3. /\ count = Len(typed) /\ \A i \in 1..Len(typed) : pressed[i - 1] = typed[i]
          /\ at = 0 /\ buf = <<>>
      BY <2>1, <2>2 DEF LineInv
    <2>4. /\ count < PRESSED /\ count' = count + 1
          /\ pressed' = [pressed EXCEPT ![count] = c] /\ typed' = Append(typed, c)
      BY <1>1 DEF StoreStep, Store
    <2>5. /\ Len(typed') = Len(typed) + 1 /\ typed' # <<>>
          /\ \A i \in 1..Len(typed) : typed'[i] = typed[i]
          /\ typed'[Len(typed) + 1] = c
      BY <1>0, <2>4 DEF LineType
    <2>6. ASSUME NEW i \in 1..(Len(typed) + 1) PROVE pressed'[i - 1] = typed'[i]
      <3>1. i - 1 \in Index /\ (i - 1 = count <=> i = Len(typed) + 1)
        BY <1>0, <2>3, <2>4 DEF Index
      <3>2. pressed'[i - 1] = IF i - 1 = count THEN c ELSE pressed[i - 1]
        BY <1>0, <2>4, <3>1 DEF LineType
      <3>3. CASE i = Len(typed) + 1
        BY <2>5, <3>1, <3>2, <3>3
      <3>4. CASE i # Len(typed) + 1
        <4>1. i \in 1..Len(typed)
          BY <1>0, <3>4
        <4> QED BY <2>3, <2>5, <3>1, <3>2, <3>4, <4>1
      <3> QED BY <3>3, <3>4
    <2> QED BY <2>2, <2>3, <2>4, <2>5, <2>6 DEF LineInv
  <1>2. CASE QuietStep \/ MoveStep
    <2>1. UNCHANGED <<pressed, count, input_done, pc, at, buf, typed, raced>>
      BY <1>2 DEF QuietStep, MoveStep, history
    <2> QED BY <2>1 DEF LineInv, Typed, Copied
  <1>3. CASE EraseStep
    <2>1. ~raced /\ ~Finishing
      BY <1>3 DEF EraseStep, Backspace
    <2>2. pc \in {"user", "wait"} /\ (pc = "wait" => input_done = 1) /\ pc' = pc
          /\ input_done' = input_done /\ at' = at /\ buf' = buf
      BY <1>0, <1>3, <2>1 DEF Finishing, LineType, EraseStep, Backspace
    <2>3. /\ count = Len(typed) /\ \A i \in 1..Len(typed) : pressed[i - 1] = typed[i]
          /\ at = 0 /\ buf = <<>>
      BY <2>1, <2>2 DEF LineInv
    <2>4. /\ count' = Backward(count) /\ pressed' = pressed
          /\ typed' = IF typed = <<>> THEN <<>> ELSE Front(typed)
      BY <1>3 DEF EraseStep, Backspace
    <2>5. CASE typed = <<>>
      BY <2>2, <2>3, <2>4, <2>5 DEF LineInv, Backward
    <2>6. CASE typed # <<>>
      <3>1. /\ Len(typed') = Len(typed) - 1 /\ Len(typed) >= 1
            /\ \A i \in 1..(Len(typed) - 1) : typed'[i] = typed[i]
        <4>1. typed \in Seq(Chars) /\ typed' = Front(typed)
          BY <1>0, <2>4, <2>6 DEF LineType
        <4>2. Len(typed) >= 1
          BY <2>6, <4>1
        <4> QED BY <2>6, <4>1, <4>2, FrontIs
      <3>2. count' = Len(typed')
        BY <1>0, <2>3, <2>4, <3>1 DEF Backward
      <3>3. \A i \in 1..Len(typed') : pressed'[i - 1] = typed'[i]
        BY <1>0, <2>3, <2>4, <3>1
      <3> QED BY <2>2, <2>3, <3>2, <3>3 DEF LineInv
    <2> QED BY <2>5, <2>6
  <1>4. CASE CallScanf
    <2>1. pc = "user" /\ pc' = "wait" /\ input_done' = 1
          /\ UNCHANGED <<pressed, count, at, buf, typed, raced>>
      BY <1>4 DEF CallScanf, Call, history
    <2> QED BY <2>1 DEF LineInv
  <1>5. CASE LoopEnds
    <2>1. pc = "wait" /\ input_done # 1 /\ pc' = "end"
          /\ UNCHANGED <<pressed, count, at, buf, typed, raced>>
      BY <1>5 DEF LoopEnds, Polled, history
    <2>2. input_done = 0
      BY <1>0, <2>1 DEF LineType
    <2> QED BY <2>1, <2>2 DEF LineInv
  <1>6. CASE EndLine
    <2>1. pc = "end" /\ pc' = "reset" /\ pressed' = Terminated
          /\ UNCHANGED <<count, at, buf, typed, raced>>
      BY <1>6 DEF EndLine, history
    <2>2. /\ count = Len(typed) /\ typed # <<>>
          /\ \A i \in 1..Len(typed) : pressed[i - 1] = typed[i]
      BY <2>1 DEF LineInv
    <2>3. Len(typed) \in 1..PRESSED
      BY <1>0, <2>2 DEF LineType
    <2>4. ASSUME NEW i \in 1..(Len(typed) - 1) PROVE pressed'[i - 1] = typed[i]
      <3>1. i - 1 \in Index /\ i - 1 # count - 1 /\ i \in 1..Len(typed)
        BY <1>0, <2>2, <2>3 DEF Index
      <3> QED BY <2>1, <2>2, <3>1 DEF Terminated
    <2>5. pressed'[Len(typed) - 1] = NUL
      <3>1. Len(typed) - 1 \in Index
        BY <1>0, <2>3 DEF Index
      <3> QED BY <2>1, <2>2, <3>1 DEF Terminated
    <2> QED BY <2>1, <2>2, <2>3, <2>4, <2>5 DEF LineInv
  <1>7. CASE ResetCount
    <2>1. pc = "reset" /\ pc' = "copy" /\ UNCHANGED <<pressed, at, buf, typed, raced>>
      BY <1>7 DEF ResetCount, history
    <2>2. Copied'
      BY <1>0, <2>1 DEF LineInv, Copied
    <2> QED BY <2>1, <2>2 DEF LineInv
  <1>8. CASE CopyCharacter
    <2>1. /\ pc = "copy" /\ pc' = "copy" /\ ~Stops
          /\ buf' = Append(buf, pressed[at]) /\ at' = at + 1
          /\ UNCHANGED <<pressed, typed, raced>>
      BY <1>8 DEF CopyCharacter, history
    <2>2. at \in Nat /\ at < PRESSED /\ pressed[at] # NUL /\ buf \in Seq(Chars) /\ Copied
      BY <1>0, <2>1 DEF Stops, LineType, LineInv
    <2>3. /\ Len(buf') = at + 1 /\ buf'[at + 1] = pressed[at]
          /\ \A i \in 1..at : buf'[i] = buf[i]
      BY <2>1, <2>2 DEF Copied
    <2>4. ASSUME NEW i \in 1..(at + 1) PROVE buf'[i] = pressed[i - 1] /\ pressed[i - 1] # NUL
      <3>1. CASE i = at + 1
        BY <2>2, <2>3, <3>1
      <3>2. CASE i # at + 1
        <4>1. i \in 1..at
          BY <2>2, <3>2
        <4> QED BY <2>2, <2>3, <4>1 DEF Copied
      <3> QED BY <3>1, <3>2
    <2>5. Copied'
      BY <2>1, <2>3, <2>4 DEF Copied
    <2> QED BY <2>1, <2>5 DEF LineInv
  <1>9. CASE CopyEnds
    <2>1. pc = "copy" /\ Stops /\ pc' = "clear" /\ UNCHANGED <<buf, typed, raced>>
      BY <1>9 DEF CopyEnds, history
    <2>2. buf = Typed
      BY <1>0, <2>1, CopiedIsTyped DEF LineInv, LineType
    <2> QED BY <2>1, <2>2 DEF LineInv, Typed
  <1>10. CASE ClearCharacter
    <2>1. pc = "clear" /\ pc' = "clear" /\ UNCHANGED <<buf, typed, raced>>
      BY <1>10 DEF ClearCharacter, history
    <2> QED BY <2>1 DEF LineInv, Typed
  <1>11. CASE Return
    <2>1. pc' = "user" /\ typed' = <<>> /\ count' = count /\ count = 0 /\ at' = 0 /\ buf' = <<>>
      BY <1>11 DEF Return
    <2> QED BY <2>1 DEF LineInv
  <1>12. CASE \/ Tick \/ (\E n \in Prompts : Prompt(n)) \/ Clear \/ UNCHANGED vars
              \/ (\E t \in Outputs : Printf(t)) \/ (\E t \in Messages : Kprintf(t))
    <2>1. UNCHANGED <<pressed, count, input_done, pc, at, buf, typed, raced>>
      BY <1>12 DEF Tick, Prompt, Clear, vars, history, Printf, Kprintf, Output, keyboard
    <2> QED BY <2>1 DEF LineInv, Typed, Copied
  <1> QED BY <1>0, <1>1, <1>2, <1>3, <1>4, <1>5, <1>6, <1>7, <1>8, <1>9, <1>10, <1>11, <1>12,
             KeySteps
          DEF Next, Scanf

\* scanf returns what was typed, whatever was erased and whatever earlier lines
\* left in the buffer, unless a key came between Enter and its return.
THEOREM LineReturned == Spec => []LineIsTyped
  <1>1. Init => LineInv
    BY DEF Init, KeyboardInit, LineInv
  <1>2. TypeInv /\ LineInv /\ [Next]_vars => LineInv'
    BY StepLine
  <1>3. LineInv => LineIsTyped
    BY DEF LineInv, LineIsTyped
  <1> QED BY <1>1, <1>2, <1>3, TypeAlways, PTL DEF Spec

-----------------------------------------------------------------------------
(* printf's buffer.                                                        *)

\* NothingBehindText is inductive once the buffer is known to be one.
IInv == Buffer /\ NothingBehindText

\* printf leaves a buffer with the new text, and NULs behind it.
LEMMA FormattedClean ==
    ASSUME IInv, NEW text \in Outputs, result' = Formatted(result, text)
    PROVE  IInv'
  <1> DEFINE n == Len(text)
  <1>1. RESULT \in Nat /\ n \in Nat /\ DOMAIN result = 1..RESULT
    BY TerminalAssumption, OutputFacts DEF IInv, Buffer
  <1>2. /\ DOMAIN result' = 1..RESULT
        /\ \A i \in 1..RESULT :
             result'[i] = IF i <= n THEN text[i]
                          ELSE IF i = n + 1 \/ i \in CString(result) THEN NUL ELSE result[i]
    BY <1>1 DEF Formatted
  <1>3. ASSUME NEW i \in 1..RESULT, i <= n
        PROVE  result'[i] \in {Text, Newline} /\ result'[i] # NUL
    BY <1>1, <1>2, <1>3, OutputFacts
  <1>4. ASSUME NEW i \in 1..RESULT, ~(i <= n)
        PROVE  result'[i] = NUL
    <2>1. CASE i = n + 1 \/ i \in CString(result)
      BY <1>2, <1>4, <2>1
    <2>2. CASE ~(i = n + 1 \/ i \in CString(result))
      <3>1. result'[i] = result[i]
        BY <1>2, <1>4, <2>2
      <3>2. result[i] = NUL
        BY <1>1, <2>2 DEF IInv, NothingBehindText
      <3> QED BY <3>1, <3>2
    <2> QED BY <2>1, <2>2
  <1>5. Buffer'
    <2>1. \A i \in 1..RESULT : result'[i] \in {NUL, Text, Newline}
      BY <1>3, <1>4
    <2>2. result' = [i \in 1..RESULT |-> result'[i]]
      BY <1>1 DEF Formatted
    <2> QED BY <2>1, <2>2 DEF Buffer
  <1>6. NothingBehindText'
    <2> SUFFICES ASSUME NEW i \in 1..RESULT, result'[i] # NUL
                 PROVE  i \in CString(result')
      BY <1>2 DEF NothingBehindText
    <2>1. i <= n
      BY <1>4
    <2>2. \A j \in 1..i : j \in 1..RESULT /\ j <= n
      BY <1>1, <2>1
    <2>3. \A j \in 1..i : result'[j] # NUL
      BY <2>2, <1>3
    <2> QED BY <1>2, <2>3 DEF CString
  <1> QED BY <1>5, <1>6 DEF IInv

\* Whatever a program prints after whatever it printed before, kprintf, which
\* reads one character past the NUL behind a newline, finds nothing there.
THEOREM TextEndsClean == Spec => []NothingBehindText
  <1>1. Init => IInv
    <2> SUFFICES ASSUME Init PROVE IInv
      OBVIOUS
    <2>1. result = [i \in 1..RESULT |-> NUL]
      BY DEF Init
    <2> QED BY <2>1 DEF IInv, Buffer, NothingBehindText
  <1>2. IInv /\ [Next]_vars => IInv'
    <2> SUFFICES ASSUME IInv, [Next]_vars PROVE IInv'
      OBVIOUS
    <2> DEFINE Same == result' = result
    <2>1. ASSUME Same PROVE IInv'
      BY <2>1 DEF IInv, Buffer, NothingBehindText, CString
    <2>2. CASE AnyKey
      BY <2>1, <2>2 DEF AnyKey
    <2>3. CASE Tick
      BY <2>1, <2>3 DEF Tick
    <2>4. CASE \E n \in Prompts : Prompt(n)
      BY <2>1, <2>4 DEF Prompt
    <2>5. CASE CallScanf
      BY <2>1, <2>5 DEF CallScanf
    <2>6. CASE Scanf /\ UNCHANGED <<result, asked>>
      BY <2>1, <2>6
    <2>7. CASE \E t \in Outputs : Printf(t)
      BY <2>7, FormattedClean DEF Printf
    <2>8. CASE \E t \in Messages : Kprintf(t)
      BY <2>1, <2>8 DEF Kprintf
    <2>9. CASE Clear
      BY <2>1, <2>9 DEF Clear
    <2>10. CASE UNCHANGED vars
      BY <2>1, <2>10 DEF vars
    <2> QED BY <2>2, <2>3, <2>4, <2>5, <2>6, <2>7, <2>8, <2>9, <2>10 DEF Next
  <1>3. IInv => NothingBehindText
    BY DEF IInv
  <1> QED BY <1>1, <1>2, <1>3, PTL DEF Spec
=============================================================================
