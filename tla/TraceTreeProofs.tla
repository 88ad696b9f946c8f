--------------------------- MODULE TraceTreeProofs ---------------------------
(***************************************************************************)
(* The call trees of TraceScan: what is above a frame, the order of the    *)
(* depth-first walk, and what one step of the walk does to a stack that is *)
(* in that order.  Nothing here depends on a state; TraceScanProofs        *)
(* applies it to the steps of the scanner.                                 *)
(***************************************************************************)
EXTENDS TraceScan, TLAPS

-----------------------------------------------------------------------------
(* The tree: what is above a frame                                         *)

\* The calls of a node are frames.
LEMMA CallsType ==
  ASSUME NEW x \in Node
  PROVE  /\ Calls[x] \in Seq(Frame)
         /\ DOMAIN Calls[x] = 1 .. Len(Calls[x])
         /\ Range(Calls[x]) \subseteq Frame
         /\ \A f : f \in Range(Calls[x]) <=> \E i \in DOMAIN Calls[x] : f = Calls[x][i]
<1>1. Calls[x] \in Seq(Frame)
  BY TraceAssumption DEF Node
<1> QED BY <1>1 DEF Range

\* A frame has one caller.
LEMMA OneCaller ==
  ASSUME NEW x \in Node, NEW y \in Node, NEW f \in Range(Calls[x]), f \in Range(Calls[y])
  PROVE  x = y
<1>1. PICK i \in DOMAIN Calls[x] : f = Calls[x][i]
  BY CallsType
<1>2. PICK j \in DOMAIN Calls[y] : f = Calls[y][j]
  BY CallsType
<1> QED BY <1>1, <1>2, TreeAssumption, ZenonT(30) DEF Node

LEMMA AboveSelf ==
  ASSUME NEW f \in Node
  PROVE  f \in Above[f] /\ Above[f] \subseteq Node
BY DEF Above

\* With a frame, its caller is above.
LEMMA AboveClosed ==
  ASSUME NEW f \in Node, NEW x \in Node, NEW g \in Range(Calls[x]), g \in Above[f]
  PROVE  x \in Above[f]
<1>1. ASSUME NEW S \in UpClosed, f \in S PROVE x \in S
  BY <1>1 DEF Above, UpClosed
<1> QED BY <1>1 DEF Above

\* What is above a frame is in every set that holds it and is closed under callers.
LEMMA AboveLeast ==
  ASSUME NEW f \in Node, NEW S \in SUBSET Node, f \in S,
         \A x \in Node : \A g \in Range(Calls[x]) : g \in S => x \in S
  PROVE  Above[f] \subseteq S
<1>1. S \in UpClosed
  BY DEF UpClosed
<1> QED BY <1>1 DEF Above

LEMMA AboveTrans ==
  ASSUME NEW f \in Node, NEW g \in Above[f]
  PROVE  g \in Node /\ Above[g] \subseteq Above[f]
<1>1. g \in Node /\ Above[f] \in SUBSET Node
  BY AboveSelf
<1>2. \A x \in Node : \A h \in Range(Calls[x]) : h \in Above[f] => x \in Above[f]
  BY AboveClosed
<1> QED BY <1>1, <1>2, AboveLeast

\* Above a frame are the frame and what is above its caller.
LEMMA AboveStep ==
  ASSUME NEW x \in Node, NEW f \in Range(Calls[x])
  PROVE  f \in Node /\ Above[f] = {f} \cup Above[x]
<1>1. f \in Node
  BY CallsType DEF Node
<1> DEFINE S == {f} \cup Above[x]
<1>2. S \in SUBSET Node
  BY <1>1, AboveSelf
<1>3. ASSUME NEW y \in Node, NEW g \in Range(Calls[y]), g \in S PROVE y \in S
  <2>1. CASE g = f
    BY <2>1, <1>3, OneCaller, AboveSelf
  <2>2. CASE g \in Above[x]
    BY <2>2, <1>3, AboveClosed
  <2> QED BY <1>3, <2>1, <2>2
<1>4. Above[f] \subseteq S
  <2> HIDE DEF S
  <2> QED BY <1>1, <1>2, <1>3, AboveLeast DEF S
<1>5. x \in Above[f]
  BY <1>1, AboveSelf, AboveClosed
<1> QED BY <1>1, <1>4, <1>5, AboveTrans, AboveSelf

\* Nothing is above a transaction.
LEMMA AboveTx ==
  ASSUME NEW t \in Tx
  PROVE  t \in Node /\ Above[t] = {t}
<1> DEFINE S == {t}
<1>1. \A x \in Node : \A g \in Range(Calls[x]) : g \in S => x \in S
  BY CallsType, TraceAssumption
<1>2. t \in Node /\ S \in SUBSET Node /\ t \in S
  BY DEF Node
<1>3. Above[t] \subseteq S
  <2> HIDE DEF S
  <2> QED BY <1>1, <1>2, AboveLeast
<1> QED BY <1>2, <1>3, AboveSelf

\* The way down from x to f begins with a call of x.
LEMMA Kid ==
  ASSUME NEW f \in Node, NEW x \in Above[f], x # f
  PROVE  \E i \in DOMAIN Calls[x] : Calls[x][i] \in Above[f]
<1> SUFFICES ASSUME \A i \in DOMAIN Calls[x] : Calls[x][i] \notin Above[f] PROVE FALSE
  OBVIOUS
<1> DEFINE S == Above[f] \ {x}
<1>1. S \in SUBSET Node /\ f \in S /\ x \in Node
  BY AboveSelf
<1>2. ASSUME NEW y \in Node, NEW g \in Range(Calls[y]), g \in S PROVE y \in S
  <2>1. y \in Above[f]
    BY <1>2, AboveClosed
  <2>2. PICK i \in DOMAIN Calls[y] : g = Calls[y][i]
    BY CallsType
  <2>3. y # x
    BY <1>2, <2>2
  <2> QED BY <2>1, <2>3
<1>3. Above[f] \subseteq S
  <2> HIDE DEF S
  <2> QED BY <1>1, <1>2, AboveLeast
<1> QED BY <1>3

\* Of two nodes above a frame one is above the other.
LEMMA Comparable ==
  ASSUME NEW f \in Node, NEW a \in Above[f], NEW b \in Above[f]
  PROVE  a \in Above[b] \/ b \in Above[a]
<1> DEFINE S == {x \in Above[f] : \A y \in Above[f] : x \in Above[y] \/ y \in Above[x]}
<1>1. S \in SUBSET Node /\ f \in S
  BY AboveSelf
<1>2. ASSUME NEW x \in Node, NEW g \in Range(Calls[x]), g \in S PROVE x \in S
  <2>1. x \in Above[f]
    BY <1>2, AboveClosed
  <2>2. ASSUME NEW y \in Above[f] PROVE x \in Above[y] \/ y \in Above[x]
    <3>1. y \in Node
      BY AboveSelf
    <3>2. CASE g \in Above[y]
      BY <3>1, <3>2, AboveClosed
    <3>3. CASE y \in Above[g]
      BY <3>1, <3>3, AboveStep, AboveClosed, AboveSelf
    <3> QED BY <1>2, <2>2, <3>2, <3>3
  <2> QED BY <2>1, <2>2
<1>3. Above[f] \subseteq S
  <2> HIDE DEF S
  <2> QED BY <1>1, <1>2, AboveLeast
<1> QED BY <1>3

-----------------------------------------------------------------------------
(* Levels, and the order of the walk                                       *)

IsLevel(level) ==
  /\ \A t \in Tx : \A f \in Range(Calls[t]) : level[f] = 0
  /\ \A g \in Frame : \A f \in Range(Calls[g]) : level[f] = level[g] + 1

Level == CHOOSE level \in [Frame -> 0 .. MaxDepth] : IsLevel(level)

Lv(x) == IF x \in Tx THEN -1 ELSE Level[x]

LEMMA LevelType == Level \in [Frame -> 0 .. MaxDepth] /\ IsLevel(Level)
<1>1. \E level \in [Frame -> 0 .. MaxDepth] : IsLevel(level)
  BY TreeAssumption DEF IsLevel
<1> QED BY <1>1 DEF Level

LEMMA LvType ==
  ASSUME NEW x \in Node
  PROVE  Lv(x) \in Int
BY LevelType, TraceAssumption DEF Lv, Node

\* A call is one level below its caller.
LEMMA LvStep ==
  ASSUME NEW x \in Node, NEW f \in Range(Calls[x])
  PROVE  f \in Frame /\ Level[f] = Lv(x) + 1 /\ Lv(f) = Lv(x) + 1
<1>1. f \in Frame /\ f \notin Tx
  BY CallsType, TraceAssumption
<1>2. CASE x \in Tx
  BY <1>1, <1>2, LevelType DEF IsLevel, Lv
<1>3. CASE x \notin Tx
  BY <1>1, <1>3, LevelType DEF IsLevel, Lv, Node
<1> QED BY <1>2, <1>3

LEMMA Higher ==
  ASSUME NEW f \in Node, NEW x \in Above[f], x # f
  PROVE  Lv(x) < Lv(f)
<1> DEFINE S == {y \in Node : y = f \/ Lv(y) < Lv(f)}
<1>1. S \in SUBSET Node /\ f \in S
  OBVIOUS
<1>2. ASSUME NEW y \in Node, NEW g \in Range(Calls[y]), g \in S PROVE y \in S
  <2>1. Lv(g) = Lv(y) + 1
    BY LvStep
  <2>2. Lv(g) \in Int /\ Lv(y) \in Int /\ Lv(f) \in Int
    BY <1>2, LvType
  <2> QED BY <1>2, <2>1, <2>2
<1>3. Above[f] \subseteq S
  <2> HIDE DEF S
  <2> QED BY <1>1, <1>2, AboveLeast
<1> QED BY <1>3

\* What the walk goes through from left to right: the transactions of a block, and the
\* calls of a node.
Lists == {Calls[x] : x \in Node} \cup {Block[b] : b \in DOMAIN Block}

LEMMA BlockType ==
  ASSUME NEW b \in DOMAIN Block
  PROVE  /\ Block[b] \in Seq(Tx)
         /\ DOMAIN Block[b] = 1 .. Len(Block[b])
         /\ \A i \in DOMAIN Block[b] : Block[b][i] \in Tx
         /\ \A t : t \in Range(Block[b]) <=> \E i \in DOMAIN Block[b] : t = Block[b][i]
<1>1. Block[b] \in Seq(Tx)
  BY TraceAssumption
<1> QED BY <1>1 DEF Range

LEMMA ListCase ==
  ASSUME NEW s \in Lists
  PROVE  \/ \E x \in Node : s = Calls[x] /\ \A i \in DOMAIN s : s[i] \in Range(Calls[x])
         \/ \E b \in DOMAIN Block : s = Block[b] /\ \A i \in DOMAIN s : s[i] \in Tx
<1>1. CASE \E x \in Node : s = Calls[x]
  BY <1>1, CallsType
<1>2. CASE \E b \in DOMAIN Block : s = Block[b]
  BY <1>2, BlockType
<1> QED BY <1>1, <1>2 DEF Lists

LEMMA ListType ==
  ASSUME NEW s \in Lists, NEW i \in DOMAIN s
  PROVE  s[i] \in Node /\ i \in Nat
<1>1. s \in Seq(Frame) \/ s \in Seq(Tx)
  BY CallsType, BlockType DEF Lists
<1> QED BY <1>1 DEF Node

\* A node is in one list, at one place.
LEMMA OnePlace ==
  ASSUME NEW s \in Lists, NEW i \in DOMAIN s, NEW r \in Lists, NEW j \in DOMAIN r, s[i] = r[j]
  PROVE  s = r /\ i = j
<1>1. CASE s[i] \in Tx
  <2>1. PICK b \in DOMAIN Block : s = Block[b]
    BY <1>1, ListCase, CallsType, TraceAssumption
  <2>2. PICK c \in DOMAIN Block : r = Block[c]
    BY <1>1, ListCase, CallsType, TraceAssumption, ZenonT(30)
  <2> QED BY <2>1, <2>2, ChainAssumption
<1>2. CASE s[i] \notin Tx
  <2>1. PICK x \in Node : s = Calls[x]
    BY <1>2, ListCase
  <2>2. PICK y \in Node : r = Calls[y]
    BY <1>2, ListCase
  <2> QED BY <2>1, <2>2, TreeAssumption DEF Node
<1> QED BY <1>1, <1>2

\* The members of a list have the same nodes above them, and the same level.
LEMMA Siblings ==
  ASSUME NEW s \in Lists, NEW i \in DOMAIN s, NEW j \in DOMAIN s
  PROVE  Lv(s[i]) = Lv(s[j]) /\ Above[s[i]] \subseteq {s[i]} \cup Above[s[j]]
<1>1. CASE \E x \in Node : s = Calls[x] /\ \A k \in DOMAIN s : s[k] \in Range(Calls[x])
  BY <1>1, AboveStep, LvStep
<1>2. CASE \E b \in DOMAIN Block : s = Block[b] /\ \A k \in DOMAIN s : s[k] \in Tx
  BY <1>2, AboveTx DEF Lv
<1> QED BY <1>1, <1>2, ListCase

\* At most one member of a list is above a frame.
LEMMA OneBranch ==
  ASSUME NEW f \in Node, NEW s \in Lists, NEW i \in DOMAIN s, NEW j \in DOMAIN s,
         s[i] \in Above[f], s[j] \in Above[f]
  PROVE  i = j
<1> SUFFICES ASSUME i # j PROVE FALSE
  OBVIOUS
<1>1. s[i] \in Node /\ s[j] \in Node /\ s[i] # s[j]
  BY ListType, OnePlace
<1>2. Lv(s[i]) = Lv(s[j]) /\ Lv(s[i]) \in Int
  BY <1>1, Siblings, LvType
<1>3. Lv(s[i]) < Lv(s[j]) \/ Lv(s[j]) < Lv(s[i])
  BY <1>1, Comparable, Higher
<1> QED BY <1>2, <1>3

\* g is in a branch to the left of f.
Left(g, f) ==
  \E s \in Lists : \E i, j \in DOMAIN s : i < j /\ s[i] \in Above[g] /\ s[j] \in Above[f]

\* The order of the depth-first walk.
Precedes(g, f) == Left(g, f) \/ (g # f /\ g \in Above[f])

LEMMA LeftDown ==
  ASSUME NEW g \in Node, NEW h \in Node, NEW x \in Above[g], NEW y \in Above[h], Left(x, y)
  PROVE  Left(g, h)
BY AboveTrans DEF Left

LEMMA LeftNotAbove ==
  ASSUME NEW f \in Node, NEW g \in Node, Left(f, g)
  PROVE  f \notin Above[g] /\ g \notin Above[f]
<1>1. PICK s \in Lists : \E i, j \in DOMAIN s : i < j /\ s[i] \in Above[f] /\ s[j] \in Above[g]
  BY DEF Left
<1>2. PICK i \in DOMAIN s, j \in DOMAIN s : i < j /\ s[i] \in Above[f] /\ s[j] \in Above[g]
  BY <1>1
<1>3. i # j
  BY <1>2, ListType
<1>4. ASSUME f \in Above[g] PROVE FALSE
  BY <1>2, <1>3, <1>4, AboveTrans, OneBranch
<1>5. ASSUME g \in Above[f] PROVE FALSE
  BY <1>2, <1>3, <1>5, AboveTrans, OneBranch
<1> QED BY <1>4, <1>5

LEMMA LeftAsym ==
  ASSUME NEW f \in Node, NEW g \in Node, Left(f, g)
  PROVE  ~Left(g, f)
<1> SUFFICES ASSUME Left(g, f) PROVE FALSE
  OBVIOUS
<1>1. PICK s \in Lists : \E i, j \in DOMAIN s : i < j /\ s[i] \in Above[f] /\ s[j] \in Above[g]
  BY DEF Left
<1>2. PICK i \in DOMAIN s, j \in DOMAIN s : i < j /\ s[i] \in Above[f] /\ s[j] \in Above[g]
  BY <1>1
<1>3. PICK r \in Lists : \E k, l \in DOMAIN r : k < l /\ r[k] \in Above[g] /\ r[l] \in Above[f]
  BY DEF Left
<1>4. PICK k \in DOMAIN r, l \in DOMAIN r : k < l /\ r[k] \in Above[g] /\ r[l] \in Above[f]
  BY <1>3
<1>5. i \in Nat /\ j \in Nat /\ k \in Nat /\ l \in Nat /\ s[j] \in Node /\ r[k] \in Node
  BY ListType
<1>6. s # r
  <2>1. ASSUME s = r PROVE i = l /\ j = k
    BY <1>2, <1>4, <2>1, OneBranch
  <2> QED BY <1>2, <1>4, <1>5, <2>1
<1>7. s[i] # r[l]
  BY <1>6, OnePlace
<1>8. CASE s[i] \in Above[r[l]]
  <2>1. s[i] \in Above[r[k]]
    BY <1>7, <1>8, Siblings
  <2>2. s[i] \in Above[g]
    BY <1>4, <2>1, AboveTrans
  <2> QED BY <1>2, <1>5, <2>2, OneBranch
<1>9. CASE r[l] \in Above[s[i]]
  <2>1. r[l] \in Above[s[j]]
    BY <1>7, <1>9, Siblings
  <2>2. r[l] \in Above[g]
    BY <1>2, <2>1, AboveTrans
  <2> QED BY <1>4, <1>5, <2>2, OneBranch
<1> QED BY <1>2, <1>4, <1>8, <1>9, Comparable

LEMMA AboveAsym ==
  ASSUME NEW f \in Node, NEW g \in Above[f], f \in Above[g]
  PROVE  f = g
<1> SUFFICES ASSUME f # g PROVE FALSE
  OBVIOUS
<1>1. g \in Node
  BY AboveTrans
<1>2. Lv(g) < Lv(f) /\ Lv(f) < Lv(g)
  BY <1>1, Higher
<1> QED BY <1>1, <1>2, LvType

LEMMA PrecedesAsym ==
  ASSUME NEW f \in Node, NEW g \in Node, Precedes(f, g)
  PROVE  ~Precedes(g, f) /\ g \notin Above[f]
<1>1. CASE Left(f, g)
  BY <1>1, LeftAsym, LeftNotAbove DEF Precedes
<1>2. CASE f # g /\ f \in Above[g]
  <2>1. g \notin Above[f]
    BY <1>2, AboveAsym
  <2>2. ~Left(g, f)
    BY <1>2, LeftNotAbove
  <2> QED BY <2>1, <2>2 DEF Precedes
<1> QED BY <1>1, <1>2 DEF Precedes

LEMMA PrecedesDown ==
  ASSUME NEW g \in Node, NEW h \in Node, NEW x \in Above[h], Precedes(g, x)
  PROVE  Precedes(g, h)
<1>0. x \in Node
  BY AboveTrans
<1>1. CASE Left(g, x)
  BY <1>1, AboveSelf, LeftDown DEF Precedes
<1>2. CASE g # x /\ g \in Above[x]
  <2>1. g \in Above[h]
    BY <1>2, AboveTrans
  <2>2. g # h
    BY <1>0, <1>2, AboveAsym
  <2> QED BY <2>1, <2>2 DEF Precedes
<1> QED BY <1>1, <1>2 DEF Precedes

\* A frame belongs to one transaction.
LEMMA OneTx ==
  ASSUME NEW f \in Node, NEW t \in Tx, NEW u \in Tx, t \in Above[f], u \in Above[f]
  PROVE  t = u
<1>1. t \in Above[u] \/ u \in Above[t]
  BY Comparable
<1> QED BY <1>1, AboveTx

LEMMA MadeType ==
  ASSUME NEW b
  PROVE  Made(b) \subseteq Frame /\ Made(b) \in SUBSET Node
BY TraceAssumption DEF Made, Node

\* More accounts, more deposits.
LEMMA DueType ==
  ASSUME NEW b, NEW A, NEW B, A \subseteq B
  PROVE  /\ Due(b, A) \subseteq Made(b) /\ Due(b, A) \in SUBSET Node
         /\ Due(b, A) \subseteq Due(b, B)
BY MadeType DEF Due

\* The transaction of a key is the one its deposit was made in.
LEMMA KeyTx ==
  ASSUME NEW b \in DOMAIN Block, NEW f \in Made(b), NEW t \in Tx, t \in Above[f]
  PROVE  t \in Range(Block[b])
<1>1. PICK u \in Sent(b) : u \in Above[f]
  BY DEF Made
<1>2. u \in Tx /\ u \in Range(Block[b]) /\ f \in Node
  BY <1>1, BlockType, MadeType DEF Sent
<1> QED BY <1>1, <1>2, OneTx

LEMMA OneBlock ==
  ASSUME NEW b \in DOMAIN Block, NEW c \in DOMAIN Block, NEW t,
         t \in Range(Block[b]), t \in Range(Block[c])
  PROVE  b = c
<1>1. PICK i \in DOMAIN Block[b] : t = Block[b][i]
  BY BlockType
<1>2. PICK j \in DOMAIN Block[c] : t = Block[c][j]
  BY BlockType
<1> QED BY <1>1, <1>2, ChainAssumption

-----------------------------------------------------------------------------
(* The walk of a tree                                                      *)

\* M is to be found: a member of it has been found, or lies below what is still to be
\* entered; what has been found comes before that.
Walked(M, F, W) ==
  /\ \A f \in M : f \in F \/ W \cap Above[f] # {}
  /\ \A f \in F, w \in W : Precedes(f, w)

\* The walk enters node x: M is what it is to find, F and G what it has found before
\* and after, R what it has yet to enter besides x.
LEMMA EnterNode ==
  ASSUME NEW x \in Node, NEW W \in SUBSET Node, NEW R \in SUBSET Node, x \in W,
         W \subseteq {x} \cup R, R \subseteq W,
         NEW M \in SUBSET Node, NEW F \in SUBSET Node, NEW G \in SUBSET Node,
         F \subseteq G, G \subseteq F \cup {x}, x \in M => x \in G,
         x \in G => \A w \in R : Left(x, w),
         Walked(M, F, W)
  PROVE  Walked(M, G, R \cup Range(Calls[x]))
<1>1. ASSUME NEW f \in M, f \notin G PROVE (R \cup Range(Calls[x])) \cap Above[f] # {}
  <2>1. PICK w \in W : w \in Above[f]
    BY <1>1 DEF Walked
  <2>2. CASE w \in R
    BY <2>1, <2>2
  <2>3. CASE w = x
    <3>1. PICK i \in DOMAIN Calls[x] : Calls[x][i] \in Above[f]
      BY <1>1, <2>1, <2>3, Kid
    <3> QED BY <3>1, CallsType, ZenonT(30)
  <2> QED BY <2>2, <2>3
<1>2. ASSUME NEW f \in G, NEW w \in R PROVE Precedes(f, w)
  <2>1. CASE f = x
    BY <2>1 DEF Precedes
  <2>2. CASE f \in F
    BY <2>2 DEF Walked
  <2> QED BY <2>1, <2>2
<1>3. ASSUME NEW f \in G, NEW w \in Range(Calls[x]) PROVE Precedes(f, w)
  <2>1. w \in Node /\ x \in Above[w] /\ x # w
    <3>1. w \in Node /\ x \in Above[w]
      BY AboveStep, AboveSelf
    <3>2. Lv(w) = Lv(x) + 1 /\ Lv(x) \in Int
      BY LvStep, LvType
    <3> QED BY <3>1, <3>2
  <2>2. CASE f = x
    BY <2>1, <2>2 DEF Precedes
  <2>3. CASE f \in F
    BY <2>1, <2>3, PrecedesDown DEF Walked
  <2> QED BY <2>2, <2>3
<1> QED BY <1>1, <1>2, <1>3 DEF Walked

\* What the walk has found, once it comes to f, are the members of M that precede f.
LEMMA FoundBefore ==
  ASSUME NEW M \in SUBSET Node, NEW F \in SUBSET M, NEW W \in SUBSET Node, NEW f \in W,
         NEW R \in SUBSET W, W \subseteq {f} \cup R, \A w \in R : Left(f, w),
         Walked(M, F, W)
  PROVE  F = {g \in M : Precedes(g, f)} /\ f \notin F
<1>1. \A g \in F : Precedes(g, f)
  BY DEF Walked
<1>2. f \notin F
  BY <1>1, PrecedesAsym
<1>3. ASSUME NEW g \in M, Precedes(g, f), g \notin F PROVE FALSE
  <2>1. PICK w \in W : w \in Above[g]
    BY <1>3 DEF Walked
  <2>2. CASE w = f
    BY <1>3, <2>1, <2>2, PrecedesAsym
  <2>3. CASE w \in R
    <3>1. f \in Above[f]
      BY AboveSelf
    <3>2. Left(f, g)
      BY <2>1, <2>3, <3>1, LeftDown
    <3> QED BY <1>3, <3>2, PrecedesAsym DEF Precedes
  <2> QED BY <2>2, <2>3
<1> QED BY <1>1, <1>2, <1>3

\* A frame of the stack belongs to transaction t, no call around it reverted, and the
\* depth beside it is its own.
OnStack(t, f, depth) ==
  /\ t \in Above[f]
  /\ Above[f] \cap Reverted \subseteq {f}
  /\ depth = Level[f]

\* The stack holds such frames, in the order of the walk.
StackOf(t, s) ==
  /\ \A i \in 1 .. Len(s) : OnStack(t, s[i][1], s[i][2])
  /\ \A i, j \in 1 .. Len(s) : i < j => Left(s[i][1], s[j][1])

\* The depth limit cuts nothing off: the depth counted is the level.
LEMMA Entered ==
  ASSUME NEW x \in Node, NEW d \in Nat, d = Lv(x) + 1
  PROVE  /\ AtDepth(Calls[x], d) \in Seq(Frame \X (0 .. MaxDepth))
         /\ Len(AtDepth(Calls[x], d)) = Len(Calls[x])
         /\ \A i \in 1 .. Len(Calls[x]) : /\ AtDepth(Calls[x], d)[i] = <<Calls[x][i], d>>
                                          /\ i \in DOMAIN Calls[x]
                                          /\ Calls[x][i] \in Range(Calls[x])
<1>1. Calls[x] \in Seq(Frame) /\ Len(Calls[x]) \in Nat /\ DOMAIN Calls[x] = 1 .. Len(Calls[x])
  BY CallsType
<1>2. ASSUME NEW i \in 1 .. Len(Calls[x])
      PROVE  i \in DOMAIN Calls[x] /\ Calls[x][i] \in Range(Calls[x]) /\ Calls[x][i] \in Frame
  BY <1>1, CallsType, ZenonT(30)
<1>3. /\ Calls[x] \in Seq(Frame) /\ Len(Calls[x]) \in Nat
      /\ \A i \in 1 .. Len(Calls[x]) : i \in DOMAIN Calls[x] /\ Calls[x][i] \in Range(Calls[x])
                                      /\ Calls[x][i] \in Frame
  BY <1>1, <1>2
<1>4. CASE Len(Calls[x]) = 0
  <2>1. AtDepth(Calls[x], d) = <<>>
    BY <1>3, <1>4 DEF AtDepth
  <2> QED BY <1>3, <1>4, <2>1
<1>5. CASE Len(Calls[x]) # 0
  <2>1. 1 \in 1 .. Len(Calls[x])
    BY <1>3, <1>5
  <2>2. d = Level[Calls[x][1]]
    BY <1>3, <2>1, LvStep
  <2>3. d \in 0 .. MaxDepth /\ ~(d > MaxDepth)
    BY <1>3, <2>1, <2>2, LevelType, TraceAssumption
  <2>4. AtDepth(Calls[x], d) = [i \in 1 .. Len(Calls[x]) |-> <<Calls[x][i], d>>]
    BY <2>3 DEF AtDepth
  <2> QED BY <1>3, <2>3, <2>4
<1> QED BY <1>4, <1>5

\* The calls of x, as they come on the stack.
LEMMA Children ==
  ASSUME NEW x \in Node, Above[x] \cap Reverted = {}, NEW t \in Above[x]
  PROVE  /\ \A i \in DOMAIN Calls[x] : OnStack(t, Calls[x][i], Lv(x) + 1)
         /\ \A i, j \in DOMAIN Calls[x] : i < j => Left(Calls[x][i], Calls[x][j])
<1>1. ASSUME NEW i \in DOMAIN Calls[x] PROVE OnStack(t, Calls[x][i], Lv(x) + 1)
  <2>1. Calls[x][i] \in Range(Calls[x])
    BY CallsType
  <2> QED BY <2>1, AboveStep, LvStep DEF OnStack
<1>2. ASSUME NEW i \in DOMAIN Calls[x], NEW j \in DOMAIN Calls[x], i < j
      PROVE  Left(Calls[x][i], Calls[x][j])
  <2>1. Calls[x] \in Lists /\ Calls[x][i] \in Node /\ Calls[x][j] \in Node
    BY CallsType DEF Lists, Node
  <2> QED BY <1>2, <2>1, AboveSelf DEF Left
<1> QED BY <1>1, <1>2

\* The top of a sequence s replaced by a.
Push(a, s) == a \o Tail(s)

LEMMA Replaced ==
  ASSUME NEW S, NEW a \in Seq(S), NEW s \in Seq(S), s # <<>>
  PROVE  /\ Push(a, s) \in Seq(S) /\ Len(Push(a, s)) = Len(a) + (Len(s) - 1)
         /\ \A i \in 1 .. Len(a) : Push(a, s)[i] = a[i] /\ i \in 1 .. Len(Push(a, s))
         /\ \A i \in 1 .. Len(Push(a, s)) :
              i > Len(a) => Push(a, s)[i] = s[i - Len(a) + 1]
<1>1. Tail(s) \in Seq(S) /\ Len(Tail(s)) = Len(s) - 1 /\ Len(s) \in Nat /\ Len(s) >= 1
      /\ \A i \in 1 .. Len(s) - 1 : Tail(s)[i] = s[i + 1]
  OBVIOUS
<1> DEFINE t == Tail(s)
           r == a \o t
<1>2. t \in Seq(S) /\ Len(t) = Len(s) - 1
  BY <1>1
<1> HIDE DEF t
<1>3. r \in Seq(S) /\ Len(r) = Len(a) + Len(t) /\ Len(a) \in Nat
  BY <1>2
<1>4. ASSUME NEW i \in 1 .. Len(a) PROVE r[i] = a[i] /\ i \in 1 .. Len(r)
  BY <1>1, <1>2, <1>3
<1>5. ASSUME NEW i \in 1 .. Len(r), i > Len(a) PROVE r[i] = s[i - Len(a) + 1]
  <2>1. r[i] = t[i - Len(a)]
    BY <1>2, <1>3, <1>5
  <2>2. i - Len(a) \in 1 .. Len(s) - 1
    BY <1>1, <1>2, <1>3, <1>5
  <2> QED BY <1>1, <2>1, <2>2 DEF t
<1>6. Push(a, s) = r
  BY DEF Push, t
<1> HIDE DEF r
<1> QED BY <1>1, <1>2, <1>3, <1>4, <1>5, <1>6

\* Places before and after the top is replaced by n members.
LEMMA Shift ==
  ASSUME NEW n \in Nat, NEW l \in Nat, l >= 1
  PROVE  /\ \A i \in 1 .. n + (l - 1) : i \in 1 .. n \/ (i > n /\ i - n + 1 \in 2 .. l)
         /\ \A k \in 2 .. l : /\ n + k - 1 \in 1 .. n + (l - 1)
                              /\ n + k - 1 > n /\ (n + k - 1) - n + 1 = k
         /\ \A i, j \in 1 .. n + (l - 1) : i < j => i - n + 1 < j - n + 1
OBVIOUS

\* Frame f on the top of the stack, at depth d, and what comes in its place.
InPlaceOf(f, d) == IF Skipped(f) THEN <<>> ELSE Below(f, d)

LEMMA TopOfStack ==
  ASSUME NEW f \in Frame, NEW d \in Nat, NEW t, OnStack(t, f, d)
  PROVE  /\ f \in Node /\ d = Lv(f)
         /\ InPlaceOf(f, d) \in Seq(Frame \X (0 .. MaxDepth))
         /\ \A i \in 1 .. Len(InPlaceOf(f, d)) :
              /\ InPlaceOf(f, d)[i] = <<Calls[f][i], d + 1>> /\ i \in DOMAIN Calls[f]
              /\ Calls[f][i] \in Range(Calls[f]) /\ f \notin Reverted
         /\ f \notin Reverted => Len(InPlaceOf(f, d)) = Len(Calls[f])
<1>1. f \in Node /\ d = Lv(f) /\ d + 1 \in Nat /\ d + 1 = Lv(f) + 1
  BY TraceAssumption DEF OnStack, Lv, Node
<1>2. CASE Skipped(f)
  <2>1. InPlaceOf(f, d) = <<>> /\ f \in Reverted
    BY <1>2 DEF InPlaceOf, Skipped
  <2> QED BY <1>1, <2>1
<1>3. CASE ~Skipped(f)
  <2>1. InPlaceOf(f, d) = AtDepth(Calls[f], d + 1) /\ f \notin Reverted
    BY <1>3 DEF InPlaceOf, Below, Skipped
  <2> QED BY <1>1, <2>1, Entered
<1> QED BY <1>2, <1>3

\* The stack after the visit: the calls of f, unless it reverted, and the rest.
Visited(t, f, s, r) ==
  /\ r \in Seq(Frame \X (0 .. MaxDepth))
  /\ StackOf(t, r)
  /\ {r[i][1] : i \in 1 .. Len(r)} =
       {s[i][1] : i \in 2 .. Len(s)} \cup (IF f \in Reverted THEN {} ELSE Range(Calls[f]))

LEMMA VisitStack ==
  ASSUME NEW s \in Seq(Frame \X (0 .. MaxDepth)), s # <<>>, NEW t, StackOf(t, s),
         NEW f \in Frame, NEW d \in Nat, s[1] = <<f, d>>, NEW r, r = Push(InPlaceOf(f, d), s)
  PROVE  Visited(t, f, s, r)
<1> DEFINE new == InPlaceOf(f, d)
           n == Len(new)
           old(i) == i - n + 1
           S == Frame \X (0 .. MaxDepth)
<1>1. Len(s) \in Nat /\ Len(s) >= 1 /\ 1 \in 1 .. Len(s)
  OBVIOUS
<1>2. OnStack(t, f, d)
  <2>1. OnStack(t, s[1][1], s[1][2])
    BY <1>1 DEF StackOf
  <2> QED BY <2>1
<1>3. /\ f \in Node /\ t \in Above[f] /\ (f \notin Reverted => Above[f] \cap Reverted = {})
      /\ d = Lv(f)
  BY <1>2, TopOfStack DEF OnStack
<1>4. /\ new \in Seq(S) /\ n \in Nat
      /\ \A i \in 1 .. n : /\ new[i] = <<Calls[f][i], d + 1>> /\ i \in DOMAIN Calls[f]
                           /\ Calls[f][i] \in Range(Calls[f]) /\ f \notin Reverted
      /\ f \notin Reverted => n = Len(Calls[f])
  BY <1>2, TopOfStack
<1>5. s \in Seq(S)
  OBVIOUS
<1> HIDE DEF new, S
<1>6. /\ r \in Seq(S) /\ Len(r) = n + (Len(s) - 1)
      /\ \A i \in 1 .. n : r[i] = new[i] /\ i \in 1 .. Len(r)
      /\ \A i \in 1 .. Len(r) : i > n => r[i] = s[old(i)]
  <2>1. r = Push(new, s)
    BY DEF new
  <2>2. /\ Push(new, s) \in Seq(S) /\ Len(Push(new, s)) = n + (Len(s) - 1)
        /\ \A i \in 1 .. n : Push(new, s)[i] = new[i] /\ i \in 1 .. Len(Push(new, s))
        /\ \A i \in 1 .. Len(Push(new, s)) : i > n => Push(new, s)[i] = s[old(i)]
    BY <1>4, <1>5, Replaced
  <2> QED BY <2>1, <2>2
<1> HIDE DEF n
<1>7. ASSUME NEW i \in 1 .. n
      PROVE  /\ r[i][1] = Calls[f][i] /\ r[i][2] = Lv(f) + 1 /\ i \in DOMAIN Calls[f]
             /\ Calls[f][i] \in Range(Calls[f]) /\ f \notin Reverted /\ i \in 1 .. Len(r)
  <2>1. r[i] = new[i] /\ i \in 1 .. Len(r)
    BY <1>6
  <2>2. /\ new[i] = <<Calls[f][i], d + 1>> /\ i \in DOMAIN Calls[f]
        /\ Calls[f][i] \in Range(Calls[f]) /\ f \notin Reverted
    BY <1>4
  <2>3. r[i] = <<Calls[f][i], Lv(f) + 1>>
    BY <1>3, <2>1, <2>2
  <2> QED BY <2>1, <2>2, <2>3
<1>8. ASSUME NEW i \in 1 .. Len(r)
      PROVE  \/ i \in 1 .. n
             \/ i > n /\ old(i) \in 1 .. Len(s) /\ 1 < old(i) /\ r[i] = s[old(i)]
  <2>1. i \in 1 .. n \/ (i > n /\ old(i) \in 2 .. Len(s))
    BY <1>1, <1>4, <1>6, Shift
  <2>2. old(i) \in 2 .. Len(s) => old(i) \in 1 .. Len(s) /\ 1 < old(i)
    <3> HIDE DEF old
    <3> QED BY <1>1
  <2> QED BY <1>6, <2>1, <2>2
<1>9. ASSUME NEW i \in 1 .. Len(r), NEW j \in 1 .. Len(r), i < j
      PROVE  old(i) < old(j) /\ (i > n => j > n) /\ (j \in 1 .. n => i \in 1 .. n)
  <2>1. old(i) < old(j)
    BY <1>1, <1>4, <1>6, <1>9, Shift
  <2>2. i \in Int /\ j \in Int /\ i >= 1
    BY <1>1, <1>4, <1>6
  <2> QED BY <1>4, <1>9, <2>1, <2>2
<1> HIDE DEF old
<1>10. ASSUME NEW i \in 1 .. Len(r) PROVE OnStack(t, r[i][1], r[i][2])
  <2>1. CASE i \in 1 .. n
    BY <1>3, <1>7, <2>1, Children
  <2>2. CASE old(i) \in 1 .. Len(s) /\ r[i] = s[old(i)]
    BY <2>2 DEF StackOf
  <2> QED BY <1>8, <2>1, <2>2
<1>11. ASSUME NEW i \in 1 .. Len(r), NEW j \in 1 .. Len(r), i < j
       PROVE  Left(r[i][1], r[j][1])
  <2>1. CASE j \in 1 .. n
    <3>1. i \in 1 .. n
      BY <1>9, <1>11, <2>1
    <3> QED BY <1>3, <1>7, <1>11, <2>1, <3>1, Children, ZenonT(30)
  <2>2. CASE i \in 1 .. n /\ old(j) \in 1 .. Len(s) /\ 1 < old(j) /\ r[j] = s[old(j)]
    <3>1. Left(f, r[j][1]) /\ r[j][1] \in Node
      BY <1>1, <2>2 DEF StackOf, Node
    <3>2. r[i][1] = Calls[f][i] /\ Calls[f][i] \in Range(Calls[f])
      BY <1>7, <2>2
    <3>3. Calls[f][i] \in Node /\ f \in Above[Calls[f][i]]
      BY <1>3, <3>2, AboveStep, AboveSelf
    <3> QED BY <3>1, <3>2, <3>3, AboveSelf, LeftDown
  <2>3. CASE /\ old(i) \in 1 .. Len(s) /\ r[i] = s[old(i)]
             /\ old(j) \in 1 .. Len(s) /\ r[j] = s[old(j)]
    BY <1>9, <1>11, <2>3 DEF StackOf
  <2>4. i \in 1 .. n \/ (i > n /\ old(i) \in 1 .. Len(s) /\ r[i] = s[old(i)])
    BY <1>8
  <2>5. j \in 1 .. n \/ (j > n /\ old(j) \in 1 .. Len(s) /\ 1 < old(j) /\ r[j] = s[old(j)])
    BY <1>8
  <2> QED BY <2>1, <2>2, <2>3, <2>4, <2>5
<1> DEFINE kids == IF f \in Reverted THEN {} ELSE Range(Calls[f])
           tops == {r[i][1] : i \in 1 .. Len(r)}
<1>12. tops \subseteq {s[i][1] : i \in 2 .. Len(s)} \cup kids
  <2> SUFFICES ASSUME NEW i \in 1 .. Len(r)
               PROVE  r[i][1] \in {s[k][1] : k \in 2 .. Len(s)} \cup kids
    OBVIOUS
  <2>1. CASE i \in 1 .. n
    BY <1>7, <2>1
  <2>2. CASE old(i) \in 1 .. Len(s) /\ 1 < old(i) /\ r[i] = s[old(i)]
    <3>1. old(i) \in 2 .. Len(s)
      BY <1>1, <2>2
    <3> QED BY <2>2, <3>1
  <2> QED BY <1>8, <2>1, <2>2
<1>13. {s[i][1] : i \in 2 .. Len(s)} \subseteq tops
  <2> SUFFICES ASSUME NEW k \in 2 .. Len(s) PROVE s[k][1] \in tops
    OBVIOUS
  <2> DEFINE i == n + k - 1
  <2>1. i \in 1 .. Len(r) /\ i > n /\ old(i) = k
    BY <1>1, <1>4, <1>6, Shift DEF old
  <2> HIDE DEF i
  <2>2. r[i] = s[k]
    BY <1>6, <2>1
  <2> QED BY <2>1, <2>2
<1>14. kids \subseteq tops
  <2> SUFFICES ASSUME NEW g \in Range(Calls[f]), f \notin Reverted PROVE g \in tops
    OBVIOUS
  <2>1. PICK i \in DOMAIN Calls[f] : g = Calls[f][i]
    BY <1>3, CallsType, SMTT(20)
  <2>2. i \in 1 .. n
    BY <1>3, <1>4, CallsType
  <2>3. i \in 1 .. Len(r) /\ r[i][1] = g
    BY <1>7, <2>1, <2>2
  <2> QED BY <2>3
<1>15. tops = {s[i][1] : i \in 2 .. Len(s)} \cup kids
  <2> HIDE DEF tops, kids
  <2> QED BY <1>12, <1>13, <1>14
<1>16. StackOf(t, r)
  BY <1>10, <1>11 DEF StackOf
<1> QED BY <1>6, <1>15, <1>16 DEF Visited, S
=============================================================================
