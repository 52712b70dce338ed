---------------------------- MODULE ParserProofs ----------------------------
(***************************************************************************)
(* Theorems about ScriptParser, for scripts of any lines and any length:   *)
(* no line of a script is lost, and none is kept twice; and the tree has   *)
(* each node in the block, and the branch of it, that the text puts it in. *)
(***************************************************************************)
EXTENDS ScriptParser, FiniteSetTheorems, SequenceTheorems, WellFoundedInduction, TLAPS

BlockKinds == {"if", "loop", "batch", "script", "sqlblock"}
NodeKinds == BlockKinds \cup {"sql", "comment", "cmd"}

TreeNode == [kind : NodeKinds, lines : SUBSET Nat, from : Int, to : Int, parent : Nat, branch : Int]
Frame == [kind : BlockKinds, start : Nat, own : SUBSET Nat, elseifs : Nat,
          in_else : BOOLEAN, in_elseif : BOOLEAN, collecting_doc : BOOLEAN]
Modifier == [line : Nat, block : Nat, clause : Int]

Locals ==
  [recover : BOOLEAN, tree : Seq(TreeNode), stack : Seq(Frame),
   sql : SUBSET Nat, sql_start : Nat, comments : SUBSET Nat,
   in_comment : BOOLEAN, block : SUBSET Nat, in_statement : BOOLEAN, in_sql : BOOLEAN,
   modifiers : SUBSET Modifier,
   warned : SUBSET Nat, ignored : SUBSET Nat, doc : SUBSET Nat, refused : SUBSET Nat,
   errors : Nat]

----------------------------------------------------------------------------
(* Sets of lines, by the place they are in. *)

NodeSet(q) == UNION {q.tree[i].lines : i \in 1 .. Len(q.tree)}
FrameSet(q) == UNION {q.stack[i].own : i \in 1 .. Len(q.stack)}

PlaceNames == {"nodes", "frames", "sql", "comments", "block", "warned", "ignored", "doc", "refused"}
Places(q) ==
  [nodes |-> NodeSet(q), frames |-> FrameSet(q), sql |-> q.sql, comments |-> q.comments, block |-> q.block,
   warned |-> q.warned, ignored |-> q.ignored, doc |-> q.doc, refused |-> q.refused]

(* Each line of L is in one place, and no other is in any. *)
Splits(P, L) ==
  /\ \A k \in PlaceNames : P[k] \subseteq L
  /\ \A l \in L : \E k \in PlaceNames : l \in P[k]
  /\ \A j, k \in PlaceNames : j # k => P[j] \cap P[k] = {}

(* No line is in two nodes, or in two frames. *)
NodesApart(q) ==
  \A i, j \in 1 .. Len(q.tree) : i # j => q.tree[i].lines \cap q.tree[j].lines = {}
FramesApart(q) ==
  \A i, j \in 1 .. Len(q.stack) : i # j => q.stack[i].own \cap q.stack[j].own = {}

Sound(q, L) ==
  /\ q \in Locals
  /\ L \in SUBSET Nat /\ IsFiniteSet(L)
  /\ NodesApart(q) /\ FramesApart(q)
  /\ Splits(Places(q), L)
  /\ q.in_comment = TRUE <=> q.block # {}

(* What is accumulated or set aside stays as it is. *)
SameLines(q, r) ==
  /\ r.sql = q.sql /\ r.comments = q.comments /\ r.block = q.block
  /\ r.warned = q.warned /\ r.ignored = q.ignored /\ r.doc = q.doc /\ r.refused = q.refused

(* Lines that are in no place yet are put into one. *)
LEMMA Put ==
  ASSUME NEW P, NEW Q, NEW L, NEW X, NEW a \in PlaceNames,
         Splits(P, L), X \cap L = {},
         Q[a] = P[a] \cup X, \A k \in PlaceNames \ {a} : Q[k] = P[k]
  PROVE  Splits(Q, L \cup X)
<1>1. \A k \in PlaceNames : Q[k] = IF k = a THEN P[a] \cup X ELSE P[k]
  OBVIOUS
<1>2. \A k \in PlaceNames : Q[k] \subseteq L \cup X
  BY <1>1 DEF Splits
<1>3. ASSUME NEW l \in L \cup X PROVE \E k \in PlaceNames : l \in Q[k]
  <2>1. CASE l \in X
    BY <2>1
  <2>2. CASE l \in L
    <3>1. PICK k \in PlaceNames : l \in P[k]
      BY <2>2 DEF Splits
    <3>2. l \in Q[k]
      BY <3>1, <1>1
    <3>3. QED
      BY <3>2
  <2>3. QED
    BY <2>1, <2>2
<1>4. ASSUME NEW j \in PlaceNames, NEW k \in PlaceNames, j # k PROVE Q[j] \cap Q[k] = {}
  <2>1. P[j] \cap P[k] = {} /\ P[j] \subseteq L /\ P[k] \subseteq L
    BY <1>4 DEF Splits
  <2>2. CASE j = a
    BY <2>1, <2>2, <1>1, <1>4
  <2>3. CASE k = a
    BY <2>1, <2>3, <1>1, <1>4
  <2>4. CASE j # a /\ k # a
    BY <2>1, <2>4, <1>1
  <2>5. QED
    BY <2>2, <2>3, <2>4
<1>5. QED
  BY <1>2, <1>3, <1>4 DEF Splits

(* Lines are taken out of the place they are in. *)
LEMMA Take ==
  ASSUME NEW P, NEW Q, NEW L, NEW X, NEW a \in PlaceNames,
         Splits(P, L), X \subseteq P[a],
         Q[a] = P[a] \ X, \A k \in PlaceNames \ {a} : Q[k] = P[k]
  PROVE  Splits(Q, L \ X)
<1>1. \A k \in PlaceNames : Q[k] = IF k = a THEN P[a] \ X ELSE P[k]
  OBVIOUS
<1>2. ASSUME NEW k \in PlaceNames PROVE Q[k] \subseteq L \ X
  <2>1. P[k] \subseteq L /\ (k # a => P[k] \cap P[a] = {})
    BY DEF Splits
  <2>2. QED
    BY <2>1, <1>1
<1>3. ASSUME NEW l \in L \ X PROVE \E k \in PlaceNames : l \in Q[k]
  <2>1. PICK k \in PlaceNames : l \in P[k]
    BY DEF Splits
  <2>2. l \in Q[k]
    BY <2>1, <1>1
  <2>3. QED
    BY <2>2
<1>4. ASSUME NEW j \in PlaceNames, NEW k \in PlaceNames, j # k PROVE Q[j] \cap Q[k] = {}
  <2>1. P[j] \cap P[k] = {}
    BY <1>4 DEF Splits
  <2>2. QED
    BY <2>1, <1>1
<1>5. QED
  BY <1>2, <1>3, <1>4 DEF Splits

----------------------------------------------------------------------------
(* The tree and the stack. *)

(* Set S of naturals that is not empty has a first line. *)
LEMMA FirstLineIsFirst ==
  ASSUME NEW S \in SUBSET Nat, S # {}
  PROVE  FirstLine(S) \in S /\ \A m \in S : FirstLine(S) <= m
<1> DEFINE R == OpToRel(<, Nat)
<1>0. IsWellFoundedOn(R, Nat)
  BY NatLessThanWellFounded
<1>1. \A y, x \in Nat : y < x => <<y, x>> \in R
  BY DEF OpToRel
<1> HIDE DEF R
<1>2. PICK x \in S : \A y \in S : ~(<<y, x>> \in R)
  BY <1>0, WFMin
<1>3. \E l \in S : \A m \in S : l <= m
  <2>1. ASSUME NEW m \in S PROVE x <= m
    <3>1. ~(<<m, x>> \in R) /\ m \in Nat /\ x \in Nat
      BY <1>2
    <3>2. ~(m < x)
      BY <1>1, <3>1
    <3>3. QED
      BY <3>1, <3>2
  <2>2. QED
    BY <2>1
<1>4. QED
  BY <1>3 DEF FirstLine

LEMMA NodeTyped ==
  ASSUME NEW q \in Locals, NEW depth \in 0 .. Len(q.stack),
         NEW kind \in NodeKinds, NEW lines \in SUBSET Nat, NEW from \in Int, NEW to \in Int
  PROVE  /\ Node(q, depth, kind, lines, from, to) \in TreeNode
         /\ Node(q, depth, kind, lines, from, to).lines = lines
<1>1. q.stack \in Seq(Frame)
  BY DEF Locals
<1>2. depth # 0 => q.stack[depth] \in Frame
  BY <1>1, ElementOfSeq
<1>3. depth # 0 => Branch(q.stack[depth]) \in Int /\ q.stack[depth].start \in Nat
  BY <1>2 DEF Branch, Frame
<1>4. QED
  BY <1>3 DEF Node, TreeNode

(* Lines that are in no place yet go into a node of their own. *)
LEMMA EmitSound ==
  ASSUME NEW q, NEW L, Sound(q, L), NEW kind \in NodeKinds, NEW lines \in SUBSET Nat,
         lines \cap L = {}, IsFiniteSet(lines), NEW from \in Int, NEW to \in Int
  PROVE  Sound(Emit(q, kind, lines, from, to), L \cup lines)
<1> DEFINE r == Emit(q, kind, lines, from, to)
           node == Node(q, Len(q.stack), kind, lines, from, to)
<1>1. q \in Locals /\ q.tree \in Seq(TreeNode) /\ q.stack \in Seq(Frame) /\ Len(q.stack) \in Nat /\ Len(q.tree) \in Nat
  BY LenProperties DEF Sound, Locals
<1>2. node \in TreeNode /\ node.lines = lines
  BY <1>1, NodeTyped
<1>3. r = [q EXCEPT !.tree = Append(q.tree, node)]
  BY DEF Emit
<1> HIDE DEF r, node
<1>4. /\ Append(q.tree, node) \in Seq(TreeNode)
      /\ Len(Append(q.tree, node)) = Len(q.tree) + 1
      /\ \A i \in 1 .. Len(q.tree) : Append(q.tree, node)[i] = q.tree[i]
      /\ Append(q.tree, node)[Len(q.tree) + 1] = node
  BY <1>1, <1>2, AppendProperties
<1>5. r \in Locals
  BY <1>1, <1>3, <1>4 DEF Locals
<1>6. /\ r.tree = Append(q.tree, node) /\ SameLines(q, r) /\ r.stack = q.stack
      /\ r.in_comment = q.in_comment
  BY <1>1, <1>3 DEF Locals, SameLines
<1>7. \A k \in PlaceNames \ {"nodes"} : Places(r)[k] = Places(q)[k]
  <2>1. FrameSet(r) = FrameSet(q)
    BY <1>6 DEF FrameSet
  <2>2. QED
    BY <1>6, <2>1 DEF SameLines, Places, PlaceNames
<1>8. NodeSet(r) = NodeSet(q) \cup lines
  <2>1. \A l : l \in NodeSet(r) <=> \E i \in 1 .. Len(q.tree) + 1 : l \in r.tree[i].lines
    BY <1>4, <1>6 DEF NodeSet
  <2>2. \A l : l \in NodeSet(q) <=> \E i \in 1 .. Len(q.tree) : l \in q.tree[i].lines
    BY DEF NodeSet
  <2>3. ASSUME NEW l PROVE l \in NodeSet(r) <=> l \in NodeSet(q) \cup lines
    BY <1>1, <1>2, <1>4, <1>6, <2>1, <2>2
  <2>4. QED
    BY <2>3
<1>9. Splits(Places(r), L \cup lines)
  <2>1. Places(r)["nodes"] = Places(q)["nodes"] \cup lines
    BY <1>8 DEF Places
  <2>2. Splits(Places(q), L) /\ "nodes" \in PlaceNames
    BY DEF Sound, PlaceNames
  <2>3. QED
    BY <2>1, <2>2, <1>7, Put
<1>10. NodesApart(r)
  <2>1. NodesApart(q) /\ NodeSet(q) \subseteq L
    BY DEF Sound, Splits, Places, PlaceNames
  <2>2. \A i \in 1 .. Len(q.tree) : q.tree[i].lines \cap lines = {}
    BY <2>1 DEF NodeSet
  <2> DEFINE t == Len(q.tree)
  <2>3. t \in Nat /\ Len(r.tree) = t + 1 /\ \A i \in 1 .. t + 1 : i \in 1 .. t \/ i = t + 1
    BY <1>1, <1>4, <1>6
  <2>4. r.tree[t + 1].lines = lines /\ \A i \in 1 .. t : r.tree[i].lines = q.tree[i].lines
    BY <1>2, <1>4, <1>6
  <2>5. \A i, j \in 1 .. t : i # j => q.tree[i].lines \cap q.tree[j].lines = {}
    BY <2>1 DEF NodesApart
  <2> HIDE DEF t
  <2>6. SUFFICES ASSUME NEW i \in 1 .. t + 1, NEW j \in 1 .. t + 1, i # j
                 PROVE  r.tree[i].lines \cap r.tree[j].lines = {}
    BY <2>3 DEF NodesApart
  <2>7. CASE i \in 1 .. t /\ j \in 1 .. t
    BY <2>4, <2>5, <2>6, <2>7
  <2>8. CASE i = t + 1 /\ j \in 1 .. t
    BY <2>2, <2>4, <2>8 DEF t
  <2>9. CASE i \in 1 .. t /\ j = t + 1
    BY <2>2, <2>4, <2>9 DEF t
  <2>10. QED
    BY <2>3, <2>6, <2>7, <2>8, <2>9
<1>11. FramesApart(r)
  BY <1>6 DEF Sound, FramesApart
<1>12. L \cup lines \in SUBSET Nat /\ IsFiniteSet(L \cup lines)
  BY FS_Union DEF Sound
<1>13. QED
  BY <1>5, <1>6, <1>9, <1>10, <1>11, <1>12 DEF Sound, SameLines, r

(* A function on 1 .. n is a sequence of length n. *)
LEMMA FunctionIsSeq ==
  ASSUME NEW S, NEW n \in Nat, NEW f \in [1 .. n -> S]
  PROVE  f \in Seq(S) /\ Len(f) = n
<1>1. f \in Seq(S)
  BY SeqDef
<1>2. Len(f) \in Nat /\ DOMAIN f = 1 .. Len(f)
  BY <1>1, LenProperties
<1>3. DOMAIN f = 1 .. n
  OBVIOUS
<1>4. QED
  BY <1>1, <1>2, <1>3

(* The innermost blocks become nodes: their lines stay where they are known. *)
LEMMA CloseBlocksSound ==
  ASSUME NEW q, NEW L, Sound(q, L), NEW count \in 0 .. Len(q.stack), NEW n \in Int
  PROVE  Sound(CloseBlocks(q, count, n), L)
<1> DEFINE depth == Len(q.stack)
           keep == depth - count
           closed == [k \in 1 .. count |->
                       Node(q, (depth + 1 - k) - 1, q.stack[depth + 1 - k].kind, q.stack[depth + 1 - k].own,
                            q.stack[depth + 1 - k].start, n)]
           r == CloseBlocks(q, count, n)
           X == UNION {q.stack[i].own : i \in keep + 1 .. depth}
<1>1. /\ q \in Locals /\ q.tree \in Seq(TreeNode) /\ q.stack \in Seq(Frame)
      /\ depth \in Nat /\ Len(q.tree) \in Nat /\ count \in Nat /\ keep \in 0 .. depth
  BY LenProperties DEF Sound, Locals
<1>2. \A i \in 1 .. depth : q.stack[i] \in Frame
  BY <1>1, ElementOfSeq
<1>d. depth = Len(q.stack) /\ keep = depth - count
  OBVIOUS
<1>n. depth \in Nat /\ count \in Nat /\ count <= depth /\ keep \in Nat /\ keep <= depth /\ keep = depth - count
  BY <1>1, <1>d
<1>k. closed = [k \in 1 .. count |->
                 Node(q, (depth + 1 - k) - 1, q.stack[depth + 1 - k].kind, q.stack[depth + 1 - k].own,
                      q.stack[depth + 1 - k].start, n)]
  OBVIOUS
<1>5. r = [q EXCEPT !.tree = q.tree \o closed, !.stack = SubSeq(q.stack, 1, keep)]
  BY DEF CloseBlocks
<1> HIDE DEF r, closed, keep, depth
<1>3. ASSUME NEW k \in 1 .. count
      PROVE  closed[k] \in TreeNode /\ closed[k].lines = q.stack[depth + 1 - k].own
  <2>1. depth + 1 - k \in 1 .. depth /\ (depth + 1 - k) - 1 \in 0 .. depth
    BY <1>n
  <2>2. q.stack[depth + 1 - k] \in Frame
    BY <1>2, <2>1
  <2>3. /\ q.stack[depth + 1 - k].kind \in NodeKinds /\ q.stack[depth + 1 - k].own \in SUBSET Nat
        /\ q.stack[depth + 1 - k].start \in Int
    BY <2>2 DEF Frame, NodeKinds
  <2>4. closed[k] = Node(q, (depth + 1 - k) - 1, q.stack[depth + 1 - k].kind, q.stack[depth + 1 - k].own,
                         q.stack[depth + 1 - k].start, n)
    BY <1>k
  <2>5. QED
    BY <1>1, <1>d, <2>1, <2>3, <2>4, NodeTyped
<1>4. closed \in Seq(TreeNode) /\ Len(closed) = count
  <2>1. closed \in [1 .. count -> TreeNode]
    BY <1>3, <1>k
  <2>2. QED
    BY <1>1, <2>1, FunctionIsSeq
<1>6. /\ q.tree \o closed \in Seq(TreeNode)
      /\ Len(q.tree \o closed) = Len(q.tree) + count
      /\ \A i \in 1 .. Len(q.tree) : (q.tree \o closed)[i] = q.tree[i]
      /\ \A i \in 1 .. count : (q.tree \o closed)[Len(q.tree) + i] = closed[i]
  <2>1. /\ q.tree \o closed \in Seq(TreeNode)
        /\ Len(q.tree \o closed) = Len(q.tree) + count
        /\ \A i \in 1 .. Len(q.tree) + count :
             (q.tree \o closed)[i] = IF i <= Len(q.tree) THEN q.tree[i] ELSE closed[i - Len(q.tree)]
    BY <1>1, <1>4, ConcatProperties
  <2>2. ASSUME NEW i \in 1 .. count PROVE (q.tree \o closed)[Len(q.tree) + i] = closed[i]
    <3>1. Len(q.tree) + i \in 1 .. Len(q.tree) + count /\ ~(Len(q.tree) + i <= Len(q.tree)) /\ Len(q.tree) + i - Len(q.tree) = i
      BY <1>1, <1>n
    <3>2. QED
      BY <2>1, <3>1
  <2>3. ASSUME NEW i \in 1 .. Len(q.tree) PROVE (q.tree \o closed)[i] = q.tree[i]
    <3>1. i \in 1 .. Len(q.tree) + count /\ i <= Len(q.tree)
      BY <1>1, <1>n
    <3>2. QED
      BY <2>1, <3>1
  <2>4. QED
    BY <2>1, <2>2, <2>3
<1>7. /\ SubSeq(q.stack, 1, keep) \in Seq(Frame)
      /\ Len(SubSeq(q.stack, 1, keep)) = keep
      /\ \A i \in 1 .. keep : SubSeq(q.stack, 1, keep)[i] = q.stack[i]
  BY <1>1, <1>2, SubSeqProperties
<1>8. r \in Locals
  BY <1>1, <1>5, <1>6, <1>7 DEF Locals
<1>9. /\ r.tree = q.tree \o closed /\ r.stack = SubSeq(q.stack, 1, keep) /\ SameLines(q, r)
      /\ r.in_comment = q.in_comment
  BY <1>1, <1>5 DEF Locals, SameLines
<1>x. /\ \A l : l \in X <=> \E i \in keep + 1 .. depth : l \in q.stack[i].own
      /\ \A l : l \in FrameSet(q) <=> \E i \in 1 .. depth : l \in q.stack[i].own
      /\ \A i \in 1 .. depth : q.stack[i].own \subseteq FrameSet(q)
  BY <1>d DEF FrameSet
<1>f. \A i, j \in 1 .. depth : i # j => q.stack[i].own \cap q.stack[j].own = {}
  BY <1>d DEF Sound, FramesApart
<1> HIDE DEF X
<1>10. X \subseteq FrameSet(q) /\ FrameSet(q) \subseteq L /\ NodeSet(q) \cap FrameSet(q) = {} /\ NodeSet(q) \subseteq L
  <2>1. X \subseteq FrameSet(q)
    BY <1>n, <1>x
  <2>2. QED
    BY <2>1 DEF Sound, Splits, Places, PlaceNames
<1>11. FramesApart(r)
  <2>1. r.stack = SubSeq(q.stack, 1, keep) /\ Len(r.stack) = keep
    BY <1>7, <1>9
  <2>2. \A i \in 1 .. keep : i \in 1 .. depth /\ r.stack[i] = q.stack[i]
    BY <1>n, <1>7, <2>1
  <2>3. QED
    BY <1>f, <2>1, <2>2 DEF FramesApart
<1>12. FrameSet(r) = FrameSet(q) \ X
  <2>1. \A l : l \in FrameSet(r) <=> \E i \in 1 .. keep : l \in q.stack[i].own
    BY <1>7, <1>9 DEF FrameSet
  <2>2. ASSUME NEW l PROVE l \in FrameSet(r) <=> l \in FrameSet(q) /\ l \notin X
    <3>1. ASSUME NEW i \in 1 .. keep, l \in q.stack[i].own PROVE l \in FrameSet(q) /\ l \notin X
      BY <1>n, <1>x, <1>f, <3>1
    <3>2. ASSUME l \in FrameSet(q), l \notin X PROVE \E i \in 1 .. keep : l \in q.stack[i].own
      <4>1. PICK i \in 1 .. depth : l \in q.stack[i].own
        BY <1>x, <3>2
      <4>2. ~(i \in keep + 1 .. depth)
        BY <1>x, <3>2, <4>1
      <4>3. i \in 1 .. keep
        BY <1>n, <4>1, <4>2
      <4>4. QED
        BY <4>1, <4>3
    <3>3. QED
      BY <2>1, <3>1, <3>2
  <2>3. QED
    BY <2>2
<1>13. NodeSet(r) = NodeSet(q) \cup X
  <2>1. \A l : l \in NodeSet(r) <=> \E i \in 1 .. Len(q.tree) + count : l \in r.tree[i].lines
    BY <1>6, <1>9 DEF NodeSet
  <2>2. \A l : l \in NodeSet(q) <=> \E i \in 1 .. Len(q.tree) : l \in r.tree[i].lines
    <3>1. \A l : l \in NodeSet(q) <=> \E i \in 1 .. Len(q.tree) : l \in q.tree[i].lines
      BY DEF NodeSet
    <3>2. \A i \in 1 .. Len(q.tree) : r.tree[i] = q.tree[i]
      BY <1>6, <1>9
    <3>3. QED
      BY <3>1, <3>2
  <2>3. \A i \in 1 .. count : r.tree[Len(q.tree) + i].lines = q.stack[depth + 1 - i].own
    BY <1>3, <1>6, <1>9
  <2>5. ASSUME NEW l PROVE l \in NodeSet(r) <=> l \in NodeSet(q) \/ l \in X
    <3>1. ASSUME l \in NodeSet(r) PROVE l \in NodeSet(q) \/ l \in X
      <4>1. PICK i \in 1 .. Len(q.tree) + count : l \in r.tree[i].lines
        BY <3>1, <2>1
      <4>2. CASE i <= Len(q.tree)
        BY <1>1, <4>1, <4>2, <2>2
      <4>3. CASE i > Len(q.tree)
        <5>1. i - Len(q.tree) \in 1 .. count /\ i = Len(q.tree) + (i - Len(q.tree))
          BY <1>1, <1>n, <4>3
        <5>2. l \in q.stack[depth + 1 - (i - Len(q.tree))].own
          BY <4>1, <5>1, <2>3
        <5>3. depth + 1 - (i - Len(q.tree)) \in keep + 1 .. depth
          BY <1>n, <5>1
        <5>4. QED
          BY <5>2, <5>3, <1>x
      <4>4. QED
        BY <1>1, <4>2, <4>3
    <3>2. ASSUME l \in NodeSet(q) PROVE l \in NodeSet(r)
      BY <1>1, <3>2, <2>1, <2>2
    <3>3. ASSUME l \in X PROVE l \in NodeSet(r)
      <4>1. PICK i \in keep + 1 .. depth : l \in q.stack[i].own
        BY <3>3, <1>x
      <4>2. depth + 1 - i \in 1 .. count /\ depth + 1 - (depth + 1 - i) = i
        BY <1>n
      <4>3. l \in r.tree[Len(q.tree) + (depth + 1 - i)].lines
        BY <4>1, <4>2, <2>3
      <4>4. QED
        <5>1. Len(q.tree) + (depth + 1 - i) \in 1 .. Len(q.tree) + count
          <6> DEFINE j == depth + 1 - i
          <6>1. Len(q.tree) \in Nat /\ j \in 1 .. count
            BY <1>1, <4>2
          <6> HIDE DEF j
          <6>2. Len(q.tree) + j \in 1 .. Len(q.tree) + count
            BY <1>n, <6>1
          <6>3. QED
            BY <6>2 DEF j
        <5>2. QED
          BY <4>3, <5>1, <2>1
    <3>4. QED
      BY <3>1, <3>2, <3>3
  <2>6. QED
    BY <2>5
<1>14. Splits(Places(r), L)
  <2> DEFINE between == [Places(q) EXCEPT !["frames"] = @ \ X]
  <2>1. /\ between["frames"] = Places(q)["frames"] \ X
        /\ \A k \in PlaceNames \ {"frames"} : between[k] = Places(q)[k]
    BY DEF Places, PlaceNames
  <2>2. Splits(between, L \ X)
    <3>1. X \subseteq Places(q)["frames"] /\ "frames" \in PlaceNames /\ Splits(Places(q), L)
      BY <1>10 DEF Places, PlaceNames, Sound
    <3>2. QED
      BY <2>1, <3>1, Take
  <2>3. Places(r)["nodes"] = between["nodes"] \cup X /\ Places(r)["frames"] = between["frames"]
    BY <1>12, <1>13, <2>1 DEF Places, PlaceNames
  <2>4. \A k \in PlaceNames \ {"nodes", "frames"} : Places(r)[k] = between[k]
    BY <1>9, <2>1 DEF Places, PlaceNames, SameLines
  <2> HIDE DEF between
  <2>5. Splits(Places(r), (L \ X) \cup X)
    <3>1. "nodes" \in PlaceNames /\ X \cap (L \ X) = {} /\ \A k \in PlaceNames \ {"nodes"} : Places(r)[k] = between[k]
      BY <2>3, <2>4 DEF PlaceNames
    <3>2. QED
      BY <2>2, <2>3, <3>1, Put
  <2>6. (L \ X) \cup X = L
    BY <1>10
  <2>7. QED
    BY <2>5, <2>6
<1>15. NodesApart(r)
  <2>1. SUFFICES ASSUME NEW i \in 1 .. Len(q.tree) + count, NEW j \in 1 .. Len(q.tree) + count, i # j
                 PROVE  r.tree[i].lines \cap r.tree[j].lines = {}
    BY <1>6, <1>9 DEF NodesApart
  <2>2. ASSUME NEW m \in 1 .. Len(q.tree) + count
        PROVE  IF m <= Len(q.tree) THEN r.tree[m] = q.tree[m] /\ r.tree[m].lines \subseteq NodeSet(q)
               ELSE /\ depth + 1 - (m - Len(q.tree)) \in 1 .. depth
                    /\ r.tree[m].lines = q.stack[depth + 1 - (m - Len(q.tree))].own
    <3>1. CASE m <= Len(q.tree)
      BY <1>1, <1>6, <1>9, <3>1 DEF NodeSet
    <3>2. CASE ~(m <= Len(q.tree))
      <4>1. m - Len(q.tree) \in 1 .. count /\ m = Len(q.tree) + (m - Len(q.tree))
        BY <1>1, <3>2
      <4>2. r.tree[m].lines = q.stack[depth + 1 - (m - Len(q.tree))].own
        BY <1>3, <1>6, <1>9, <4>1
      <4>3. depth + 1 - (m - Len(q.tree)) \in 1 .. depth
        BY <1>n, <4>1
      <4>4. QED
        BY <3>2, <4>2, <4>3
    <3>3. QED
      BY <3>1, <3>2
  <2>3. \A f, g \in 1 .. depth : f # g => q.stack[f].own \cap q.stack[g].own = {}
    BY <1>f
  <2>4. \A f \in 1 .. depth : q.stack[f].own \cap NodeSet(q) = {}
    BY <1>10, <1>x
  <2>5. \A f, g \in 1 .. Len(q.tree) : f # g => q.tree[f].lines \cap q.tree[g].lines = {}
    BY DEF Sound, NodesApart
  <2> DEFINE t == Len(q.tree)
             at(m) == depth + 1 - (m - t)
  <2>n. t \in Nat /\ i \in Int /\ j \in Int
    BY <1>1
  <2>i. i <= t => i \in 1 .. t
    BY <2>n
  <2>j. j <= t => j \in 1 .. t
    BY <2>n
  <2>k. at(i) # at(j)
    BY <1>n, <2>1, <2>n
  <2>6. IF i <= t THEN r.tree[i].lines = q.tree[i].lines /\ r.tree[i].lines \subseteq NodeSet(q)
        ELSE at(i) \in 1 .. depth /\ r.tree[i].lines = q.stack[at(i)].own
    BY <2>2
  <2>7. IF j <= t THEN r.tree[j].lines = q.tree[j].lines /\ r.tree[j].lines \subseteq NodeSet(q)
        ELSE at(j) \in 1 .. depth /\ r.tree[j].lines = q.stack[at(j)].own
    BY <2>2
  <2> HIDE DEF t, at, depth
  <2>8. CASE i <= t /\ j <= t
    <3>1. q.tree[i].lines \cap q.tree[j].lines = {}
      BY <2>1, <2>5, <2>i, <2>j, <2>8 DEF t
    <3>2. QED
      BY <2>6, <2>7, <2>8, <3>1
  <2>9. CASE i <= t /\ ~(j <= t)
    BY <2>4, <2>6, <2>7, <2>9
  <2>10. CASE ~(i <= t) /\ j <= t
    BY <2>4, <2>6, <2>7, <2>10
  <2>11. CASE ~(i <= t) /\ ~(j <= t)
    BY <2>3, <2>6, <2>7, <2>11, <2>k
  <2>12. QED
    BY <2>8, <2>9, <2>10, <2>11
<1>16. QED
  BY <1>8, <1>9, <1>11, <1>14, <1>15 DEF Sound, SameLines, r

----------------------------------------------------------------------------
(* What is accumulated, and the blocks that are open. *)

(* The places of lines other than the tree and the stack. *)
FieldNames == PlaceNames \ {"nodes", "frames"}

SameTree(q, r) == r.tree = q.tree /\ r.stack = q.stack

LEMMA FieldChange ==
  ASSUME NEW q, NEW r, NEW L, Sound(q, L), r \in Locals, SameTree(q, r)
  PROVE  /\ NodesApart(r) /\ FramesApart(r)
         /\ Places(r)["nodes"] = Places(q)["nodes"] /\ Places(r)["frames"] = Places(q)["frames"]
<1>1. NodeSet(r) = NodeSet(q) /\ FrameSet(r) = FrameSet(q)
  BY DEF SameTree, NodeSet, FrameSet
<1>2. NodesApart(r) /\ FramesApart(r)
  BY DEF SameTree, NodesApart, FramesApart, Sound
<1>3. QED
  BY <1>1, <1>2 DEF Places

LEMMA PutSound ==
  ASSUME NEW q, NEW r, NEW L, NEW X \in SUBSET Nat, NEW a \in FieldNames,
         Sound(q, L), r \in Locals, SameTree(q, r), X \cap L = {}, IsFiniteSet(X),
         Places(r)[a] = Places(q)[a] \cup X,
         \A k \in FieldNames \ {a} : Places(r)[k] = Places(q)[k],
         r.in_comment = TRUE <=> r.block # {}
  PROVE  Sound(r, L \cup X)
<1>1. \A k \in PlaceNames \ {a} : Places(r)[k] = Places(q)[k]
  BY FieldChange DEF FieldNames
<1>2. Splits(Places(r), L \cup X)
  <2>1. a \in PlaceNames /\ Splits(Places(q), L)
    BY DEF FieldNames, Sound
  <2>2. QED
    BY <1>1, <2>1, Put
<1>3. L \cup X \in SUBSET Nat /\ IsFiniteSet(L \cup X)
  BY FS_Union DEF Sound
<1>4. QED
  BY <1>2, <1>3, FieldChange DEF Sound

LEMMA TakeSound ==
  ASSUME NEW q, NEW r, NEW L, NEW X, NEW a \in FieldNames,
         Sound(q, L), r \in Locals, SameTree(q, r), X \subseteq Places(q)[a],
         Places(r)[a] = Places(q)[a] \ X,
         \A k \in FieldNames \ {a} : Places(r)[k] = Places(q)[k],
         r.in_comment = TRUE <=> r.block # {}
  PROVE  Sound(r, L \ X)
<1>1. \A k \in PlaceNames \ {a} : Places(r)[k] = Places(q)[k]
  BY FieldChange DEF FieldNames
<1>2. Splits(Places(r), L \ X)
  <2>1. a \in PlaceNames /\ Splits(Places(q), L)
    BY DEF FieldNames, Sound
  <2>2. QED
    BY <1>1, <2>1, Take
<1>3. L \ X \in SUBSET L /\ L \in SUBSET Nat /\ IsFiniteSet(L)
  BY DEF Sound
<1>4. L \ X \in SUBSET Nat /\ IsFiniteSet(L \ X)
  BY <1>3, FS_Subset
<1>5. QED
  BY <1>2, <1>4, FieldChange DEF Sound

(* Nothing that has a place is changed. *)
LEMMA SameSound ==
  ASSUME NEW q, NEW r, NEW L, Sound(q, L), r \in Locals, SameTree(q, r), SameLines(q, r),
         r.in_comment = q.in_comment
  PROVE  Sound(r, L)
<1>1. \A k \in PlaceNames : Places(r)[k] = Places(q)[k]
  <2>1. \A k \in FieldNames : Places(r)[k] = Places(q)[k]
    BY DEF SameLines, Places, FieldNames, PlaceNames
  <2>2. QED
    BY <2>1, FieldChange DEF FieldNames
<1>2. Splits(Places(r), L)
  BY <1>1 DEF Sound, Splits
<1>3. QED
  BY <1>2, FieldChange DEF Sound, SameLines

(* What is not in the stack is as before. *)
SameBelow(q, r) ==
  r \in Locals /\ r.tree = q.tree /\ SameLines(q, r) /\ r.in_comment = q.in_comment

(* The frames are changed: lines that are in no place yet may get into them. *)
LEMMA StackSound ==
  ASSUME NEW q, NEW r, NEW L, NEW X \in SUBSET Nat, Sound(q, L), SameBelow(q, r),
         X \cap L = {}, IsFiniteSet(X),
         \A l : (\E i \in 1 .. Len(r.stack) : l \in r.stack[i].own) <=> l \in FrameSet(q) \/ l \in X,
         \A i, j \in 1 .. Len(r.stack) : i # j => r.stack[i].own \cap r.stack[j].own = {}
  PROVE  Sound(r, L \cup X)
<1>2. FrameSet(r) = FrameSet(q) \cup X
  <2>1. \A l : l \in FrameSet(r) <=> \E i \in 1 .. Len(r.stack) : l \in r.stack[i].own
    BY DEF FrameSet
  <2>2. QED
    BY <2>1
<1>3. NodeSet(r) = NodeSet(q)
  BY DEF NodeSet, SameBelow
<1>4. \A k \in PlaceNames \ {"frames"} : Places(r)[k] = Places(q)[k]
  BY <1>3 DEF Places, PlaceNames, SameLines, SameBelow
<1>5. Splits(Places(r), L \cup X)
  <2>1. Places(r)["frames"] = Places(q)["frames"] \cup X
    BY <1>2 DEF Places
  <2>2. "frames" \in PlaceNames /\ Splits(Places(q), L)
    BY DEF PlaceNames, Sound
  <2>3. QED
    BY <1>4, <2>1, <2>2, Put
<1>6. NodesApart(r) /\ FramesApart(r)
  BY DEF NodesApart, FramesApart, Sound, SameBelow
<1>7. L \cup X \in SUBSET Nat /\ IsFiniteSet(L \cup X)
  BY FS_Union DEF Sound
<1>8. QED
  BY <1>5, <1>6, <1>7 DEF Sound, SameLines, SameBelow

(* Lines become the innermost block's own, whatever else it changes of the block. *)
LEMMA TopSound ==
  ASSUME NEW q, NEW r, NEW L, NEW X \in SUBSET Nat, Sound(q, L), q.stack # <<>>, SameBelow(q, r),
         X \cap L = {}, IsFiniteSet(X),
         Len(r.stack) = Len(q.stack),
         \A i \in 1 .. Len(q.stack) - 1 : r.stack[i].own = q.stack[i].own,
         r.stack[Len(q.stack)].own = q.stack[Len(q.stack)].own \cup X
  PROVE  Sound(r, L \cup X)
<1> DEFINE d == Len(q.stack)
           s == r.stack
<1>1. q.stack \in Seq(Frame) /\ d \in Nat /\ d >= 1
  BY EmptySeq DEF Sound, Locals
<1>2. Len(s) = d /\ \A j \in 1 .. d : s[j].own = IF j = d THEN q.stack[d].own \cup X ELSE q.stack[j].own
  <2>1. \A j \in 1 .. d : j # d => j \in 1 .. d - 1
    BY <1>1
  <2>2. QED
    BY <2>1
<1>3. \A i \in 1 .. d : q.stack[i].own \subseteq L
  BY DEF Sound, Splits, Places, PlaceNames, FrameSet
<1>4. \A i, j \in 1 .. d : i # j => q.stack[i].own \cap q.stack[j].own = {}
  BY DEF Sound, FramesApart
<1>5. \A l : l \in FrameSet(q) <=> \E i \in 1 .. d : l \in q.stack[i].own
  BY DEF FrameSet
<1> HIDE DEF s, d
<1>6. \A i, j \in 1 .. Len(s) : i # j => s[i].own \cap s[j].own = {}
  BY <1>1, <1>2, <1>3, <1>4
<1>7. ASSUME NEW l
      PROVE  (\E i \in 1 .. Len(s) : l \in s[i].own) <=> l \in FrameSet(q) \/ l \in X
  BY <1>1, <1>2, <1>5
<1>8. QED
  BY <1>6, <1>7, StackSound DEF s

(* A block is opened by line n. *)
LEMMA PushSound ==
  ASSUME NEW q, NEW L, NEW n \in Nat, NEW kind \in BlockKinds, Sound(q, L), n \notin L
  PROVE  Sound(Push(q, kind, n), L \cup {n})
<1> DEFINE f == [kind |-> kind, start |-> n, own |-> {n}, elseifs |-> 0,
                 in_else |-> FALSE, in_elseif |-> FALSE, collecting_doc |-> kind = "script"]
           d == Len(q.stack)
           s == Append(q.stack, f)
<1>1. f \in Frame /\ f.own = {n}
  BY DEF Frame
<1>2. q.stack \in Seq(Frame) /\ d \in Nat
  BY LenProperties DEF Sound, Locals
<1> DEFINE r == Push(q, kind, n)
<1>3. r = [q EXCEPT !.stack = s]
  BY DEF Push
<1> HIDE DEF f
<1>4. s \in Seq(Frame) /\ Len(s) = d + 1 /\ s[d + 1] = f /\ \A i \in 1 .. d : s[i] = q.stack[i]
  BY <1>1, <1>2, AppendProperties
<1> HIDE DEF s, r
<1>r. SameBelow(q, r) /\ r.stack = s
  BY <1>3, <1>4 DEF Sound, Locals, SameBelow, SameLines
<1>5. \A i \in 1 .. d : q.stack[i].own \subseteq L
  BY DEF Sound, Splits, Places, PlaceNames, FrameSet
<1>6. \A i, j \in 1 .. Len(s) : i # j => s[i].own \cap s[j].own = {}
  <2>1. \A i, j \in 1 .. d : i # j => q.stack[i].own \cap q.stack[j].own = {}
    BY DEF Sound, FramesApart
  <2>2. \A i \in 1 .. d + 1 : i \in 1 .. d \/ i = d + 1
    BY <1>2
  <2>3. \A i \in 1 .. d : n \notin s[i].own /\ s[i].own = q.stack[i].own
    BY <1>4, <1>5
  <2>4. s[d + 1].own = {n} /\ Len(s) = d + 1
    BY <1>1, <1>4
  <2> HIDE DEF d
  <2>5. QED
    BY <2>1, <2>2, <2>3, <2>4
<1>7. ASSUME NEW l
      PROVE  (\E i \in 1 .. Len(s) : l \in s[i].own) <=> l \in FrameSet(q) \/ l \in {n}
  <2>1. l \in FrameSet(q) <=> \E i \in 1 .. d : l \in s[i].own
    BY <1>4 DEF FrameSet
  <2>2. l \in s[d + 1].own <=> l = n
    BY <1>1, <1>4
  <2>3. Len(s) = d + 1 /\ 1 .. d + 1 = 1 .. d \cup {d + 1}
    BY <1>2, <1>4
  <2>4. QED
    BY <2>1, <2>2, <2>3
<1>8. {n} \in SUBSET Nat /\ {n} \cap L = {} /\ IsFiniteSet({n})
  BY FS_Singleton
<1>9. QED
  BY <1>r, <1>6, <1>7, <1>8, StackSound DEF r

----------------------------------------------------------------------------
(* The parts of the machine. *)

(* The blocks that are open and the comment that is, if one is, are as before. *)
SameOpen(q, r) ==
  r.stack = q.stack /\ r.in_comment = q.in_comment /\ r.block = q.block

LEMMA EmitKeeps ==
  ASSUME NEW q \in Locals, NEW kind, NEW lines, NEW from, NEW to
  PROVE  /\ SameOpen(q, Emit(q, kind, lines, from, to))
         /\ SameLines(q, Emit(q, kind, lines, from, to))
BY DEF Emit, Locals, SameOpen, SameLines

LEMMA FlushSqlSound ==
  ASSUME NEW q, NEW L, NEW n \in Int, Sound(q, L)
  PROVE  Sound(_flush_sql(q, n), L) /\ SameOpen(q, _flush_sql(q, n)) /\ _flush_sql(q, n).sql = {}
<1>1. CASE q.sql = {}
  BY <1>1 DEF _flush_sql, SameOpen
<1>2. CASE q.sql # {}
  <2> DEFINE bare == [q EXCEPT !.sql = {}]
             r == Emit(bare, "sql", q.sql, q.sql_start, n)
  <2>1. q \in Locals /\ q.sql \in SUBSET Nat /\ q.sql_start \in Nat /\ q.tree \in Seq(TreeNode)
    BY DEF Sound, Locals
  <2>2. bare \in Locals /\ SameTree(q, bare) /\ SameOpen(q, bare) /\ bare.sql = {}
    BY <2>1 DEF Locals, SameTree, SameOpen
  <2>3. Sound(bare, L \ q.sql)
    <3>1. /\ "sql" \in FieldNames /\ Places(q)["sql"] = q.sql /\ Places(bare)["sql"] = q.sql \ q.sql
          /\ \A k \in FieldNames \ {"sql"} : Places(bare)[k] = Places(q)[k]
      BY <2>1 DEF Places, FieldNames, PlaceNames, Locals
    <3>2. bare.in_comment = TRUE <=> bare.block # {}
      BY <2>2 DEF Sound, SameOpen
    <3>3. QED
      BY <2>2, <3>1, <3>2, TakeSound
  <2>4. q.sql \subseteq L /\ IsFiniteSet(q.sql)
    <3>1. q.sql \in SUBSET L
      BY DEF Sound, Splits, Places, PlaceNames
    <3>2. QED
      BY <3>1, FS_Subset DEF Sound
  <2>5. Sound(r, (L \ q.sql) \cup q.sql)
    <3>1. "sql" \in NodeKinds /\ q.sql \cap (L \ q.sql) = {} /\ q.sql_start \in Int
      BY <2>1 DEF NodeKinds
    <3> HIDE DEF bare
    <3>2. QED
      BY <2>1, <2>3, <2>4, <3>1, EmitSound
  <2>6. (L \ q.sql) \cup q.sql = L
    BY <2>4
  <2>7. _flush_sql(q, n) = r
    <3>1. Node(bare, Len(bare.stack), "sql", q.sql, q.sql_start, n) = Node(q, Len(q.stack), "sql", q.sql, q.sql_start, n)
      BY <2>2 DEF Node, SameTree
    <3>2. QED
      BY <1>2, <2>1, <3>1 DEF _flush_sql, Emit, Locals
  <2>8. SameOpen(bare, r) /\ r.sql = {}
    <3>1. SameOpen(bare, r) /\ SameLines(bare, r)
      BY <2>2, EmitKeeps
    <3>2. QED
      BY <2>2, <3>1 DEF SameLines
  <2>9. QED
    BY <2>2, <2>5, <2>6, <2>7, <2>8 DEF SameOpen
<1>3. QED
  BY <1>1, <1>2

LEMMA FlushCommentsSound ==
  ASSUME NEW q, NEW L, Sound(q, L)
  PROVE  /\ Sound(_flush_line_comments(q), L) /\ SameOpen(q, _flush_line_comments(q))
         /\ _flush_line_comments(q).sql = q.sql
<1>1. CASE q.comments = {}
  BY <1>1 DEF _flush_line_comments, SameOpen
<1>2. CASE q.comments # {}
  <2> DEFINE bare == [q EXCEPT !.comments = {}]
             from == FirstLine(q.comments)
             to == from + Cardinality(q.comments) - 1
             r == Emit(bare, "comment", q.comments, from, to)
  <2>1. q \in Locals /\ q.comments \in SUBSET Nat /\ q.tree \in Seq(TreeNode)
    BY DEF Sound, Locals
  <2>2. bare \in Locals /\ SameTree(q, bare) /\ SameOpen(q, bare) /\ bare.sql = q.sql
    BY <2>1 DEF Locals, SameTree, SameOpen
  <2>3. Sound(bare, L \ q.comments)
    <3>1. /\ "comments" \in FieldNames /\ Places(q)["comments"] = q.comments
          /\ Places(bare)["comments"] = q.comments \ q.comments
          /\ \A k \in FieldNames \ {"comments"} : Places(bare)[k] = Places(q)[k]
      BY <2>1 DEF Places, FieldNames, PlaceNames, Locals
    <3>2. bare.in_comment = TRUE <=> bare.block # {}
      BY <2>2 DEF Sound, SameOpen
    <3>3. QED
      BY <2>2, <3>1, <3>2, TakeSound
  <2>4. q.comments \subseteq L /\ IsFiniteSet(q.comments)
    <3>1. q.comments \in SUBSET L
      BY DEF Sound, Splits, Places, PlaceNames
    <3>2. QED
      BY <3>1, FS_Subset DEF Sound
  <2>5. from \in Int /\ to \in Int
    <3>1. from \in Nat
      BY <1>2, <2>1, FirstLineIsFirst
    <3>2. Cardinality(q.comments) \in Nat
      BY <2>4, FS_CardinalityType
    <3> HIDE DEF from
    <3>3. QED
      BY <3>1, <3>2
  <2>6. Sound(r, (L \ q.comments) \cup q.comments)
    <3>1. "comment" \in NodeKinds /\ q.comments \cap (L \ q.comments) = {}
      BY DEF NodeKinds
    <3> HIDE DEF bare, from, to
    <3>2. QED
      BY <2>1, <2>3, <2>4, <2>5, <3>1, EmitSound
  <2>7. (L \ q.comments) \cup q.comments = L
    BY <2>4
  <2>8. _flush_line_comments(q) = r
    <3>1. Node(bare, Len(bare.stack), "comment", q.comments, from, to) = Node(q, Len(q.stack), "comment", q.comments, from, to)
      BY <2>2 DEF Node, SameTree
    <3>2. _flush_line_comments(q) = [Emit(q, "comment", q.comments, from, to) EXCEPT !.comments = {}]
      BY <1>2 DEF _flush_line_comments
    <3> HIDE DEF from, to
    <3>3. QED
      BY <2>1, <3>1, <3>2 DEF Emit, Locals
  <2>9. SameOpen(bare, r) /\ r.sql = q.sql
    <3>1. SameOpen(bare, r) /\ SameLines(bare, r)
      BY <2>2, EmitKeeps
    <3>2. QED
      BY <2>2, <3>1 DEF SameLines
  <2>10. QED
    BY <2>2, <2>6, <2>7, <2>8, <2>9 DEF SameOpen
<1>3. QED
  BY <1>1, <1>2

(* Lines are accumulated, or set aside. *)
LEMMA NoteSound ==
  ASSUME NEW q, NEW L, NEW X \in SUBSET Nat, Sound(q, L), X \cap L = {}, IsFiniteSet(X)
  PROVE  /\ Sound([q EXCEPT !.sql = @ \cup X], L \cup X)
         /\ Sound([q EXCEPT !.comments = @ \cup X], L \cup X)
         /\ Sound([q EXCEPT !.ignored = @ \cup X], L \cup X)
         /\ Sound([q EXCEPT !.doc = @ \cup X], L \cup X)
         /\ Sound([q EXCEPT !.refused = @ \cup X], L \cup X)
<1>1. q \in Locals
  BY DEF Sound
<1>2. Sound([q EXCEPT !.sql = @ \cup X], L \cup X)
  <2> DEFINE r == [q EXCEPT !.sql = @ \cup X]
  <2>1. r \in Locals /\ SameTree(q, r) /\ r.in_comment = q.in_comment /\ r.block = q.block
    BY <1>1 DEF Locals, SameTree
  <2>2. /\ "sql" \in FieldNames /\ Places(r)["sql"] = Places(q)["sql"] \cup X
        /\ \A k \in FieldNames \ {"sql"} : Places(r)[k] = Places(q)[k]
    BY <1>1 DEF Places, FieldNames, PlaceNames, Locals
  <2>3. r.in_comment = TRUE <=> r.block # {}
    BY <2>1 DEF Sound
  <2> HIDE DEF r
  <2>4. Sound(r, L \cup X)
    BY <2>1, <2>2, <2>3, PutSound
  <2>5. QED
    BY <2>4 DEF r
<1>3. Sound([q EXCEPT !.comments = @ \cup X], L \cup X)
  <2> DEFINE r == [q EXCEPT !.comments = @ \cup X]
  <2>1. r \in Locals /\ SameTree(q, r) /\ r.in_comment = q.in_comment /\ r.block = q.block
    BY <1>1 DEF Locals, SameTree
  <2>2. /\ "comments" \in FieldNames /\ Places(r)["comments"] = Places(q)["comments"] \cup X
        /\ \A k \in FieldNames \ {"comments"} : Places(r)[k] = Places(q)[k]
    BY <1>1 DEF Places, FieldNames, PlaceNames, Locals
  <2>3. r.in_comment = TRUE <=> r.block # {}
    BY <2>1 DEF Sound
  <2> HIDE DEF r
  <2>4. Sound(r, L \cup X)
    BY <2>1, <2>2, <2>3, PutSound
  <2>5. QED
    BY <2>4 DEF r
<1>4. Sound([q EXCEPT !.ignored = @ \cup X], L \cup X)
  <2> DEFINE r == [q EXCEPT !.ignored = @ \cup X]
  <2>1. r \in Locals /\ SameTree(q, r) /\ r.in_comment = q.in_comment /\ r.block = q.block
    BY <1>1 DEF Locals, SameTree
  <2>2. /\ "ignored" \in FieldNames /\ Places(r)["ignored"] = Places(q)["ignored"] \cup X
        /\ \A k \in FieldNames \ {"ignored"} : Places(r)[k] = Places(q)[k]
    BY <1>1 DEF Places, FieldNames, PlaceNames, Locals
  <2>3. r.in_comment = TRUE <=> r.block # {}
    BY <2>1 DEF Sound
  <2> HIDE DEF r
  <2>4. Sound(r, L \cup X)
    BY <2>1, <2>2, <2>3, PutSound
  <2>5. QED
    BY <2>4 DEF r
<1>5. Sound([q EXCEPT !.doc = @ \cup X], L \cup X)
  <2> DEFINE r == [q EXCEPT !.doc = @ \cup X]
  <2>1. r \in Locals /\ SameTree(q, r) /\ r.in_comment = q.in_comment /\ r.block = q.block
    BY <1>1 DEF Locals, SameTree
  <2>2. /\ "doc" \in FieldNames /\ Places(r)["doc"] = Places(q)["doc"] \cup X
        /\ \A k \in FieldNames \ {"doc"} : Places(r)[k] = Places(q)[k]
    BY <1>1 DEF Places, FieldNames, PlaceNames, Locals
  <2>3. r.in_comment = TRUE <=> r.block # {}
    BY <2>1 DEF Sound
  <2> HIDE DEF r
  <2>4. Sound(r, L \cup X)
    BY <2>1, <2>2, <2>3, PutSound
  <2>5. QED
    BY <2>4 DEF r
<1>6. Sound([q EXCEPT !.refused = @ \cup X], L \cup X)
  <2> DEFINE r == [q EXCEPT !.refused = @ \cup X]
  <2>1. r \in Locals /\ SameTree(q, r) /\ r.in_comment = q.in_comment /\ r.block = q.block
    BY <1>1 DEF Locals, SameTree
  <2>2. /\ "refused" \in FieldNames /\ Places(r)["refused"] = Places(q)["refused"] \cup X
        /\ \A k \in FieldNames \ {"refused"} : Places(r)[k] = Places(q)[k]
    BY <1>1 DEF Places, FieldNames, PlaceNames, Locals
  <2>3. r.in_comment = TRUE <=> r.block # {}
    BY <2>1 DEF Sound
  <2> HIDE DEF r
  <2>4. Sound(r, L \cup X)
    BY <2>1, <2>2, <2>3, PutSound
  <2>5. QED
    BY <2>4 DEF r
<1>7. QED
  BY <1>2, <1>3, <1>4, <1>5, <1>6

LEMMA ErrorSound ==
  ASSUME NEW q, NEW L, Sound(q, L)
  PROVE  Sound(_structural_error(q), L) /\ _structural_error(q).stack = q.stack
<1> DEFINE r == _structural_error(q)
<1>1. q \in Locals
  BY DEF Sound
<1>2. r \in Locals /\ SameTree(q, r) /\ SameLines(q, r) /\ r.in_comment = q.in_comment
  BY <1>1 DEF _structural_error, Locals, SameTree, SameLines
<1>3. QED
  BY <1>2, SameSound DEF SameTree

LEMMA RefusedSound ==
  ASSUME NEW q, NEW L, NEW n \in Nat, Sound(q, L), n \notin L
  PROVE  Sound([_structural_error(q) EXCEPT !.refused = @ \cup {n}], L \cup {n})
<1> DEFINE r == _structural_error(q)
<1>1. Sound(r, L)
  BY ErrorSound
<1> HIDE DEF r
<1>2. {n} \in SUBSET Nat /\ {n} \cap L = {} /\ IsFiniteSet({n})
  BY FS_Singleton
<1>3. Sound([r EXCEPT !.refused = @ \cup {n}], L \cup {n})
  BY <1>1, <1>2, NoteSound
<1>4. QED
  BY <1>3 DEF r

(* Line n is the innermost block's own. *)
Owns(q, r, d, f, n) ==
  /\ d = Len(q.stack) /\ d \in 1 .. Len(q.stack)
  /\ f \in Frame /\ f.own = q.stack[d].own \cup {n}
  /\ r = [q EXCEPT !.stack = [q.stack EXCEPT ![d] = f]]

LEMMA OwnSound ==
  ASSUME NEW q, NEW L, NEW n \in Nat, Sound(q, L), n \notin L, NEW d, NEW f, NEW r, Owns(q, r, d, f, n)
  PROVE  Sound(r, L \cup {n})
<1>0. /\ d = Len(q.stack) /\ d \in 1 .. Len(q.stack)
      /\ f \in Frame /\ f.own = q.stack[d].own \cup {n}
      /\ r = [q EXCEPT !.stack = [q.stack EXCEPT ![d] = f]]
  BY DEF Owns
<1>1. q \in Locals /\ q.stack \in Seq(Frame) /\ q.stack # <<>> /\ Len(q.stack) \in Nat
  BY <1>0, EmptySeq DEF Sound, Locals
<1>2. /\ [q.stack EXCEPT ![d] = f] \in Seq(Frame) /\ Len([q.stack EXCEPT ![d] = f]) = Len(q.stack)
      /\ \A j \in 1 .. Len(q.stack) : [q.stack EXCEPT ![d] = f][j] = IF j = d THEN f ELSE q.stack[j]
  BY <1>0, <1>1, ExceptSeq
<1>3. SameBelow(q, r) /\ r.stack = [q.stack EXCEPT ![d] = f]
  BY <1>0, <1>1, <1>2 DEF Locals, SameBelow, SameLines
<1>4. {n} \in SUBSET Nat /\ {n} \cap L = {} /\ IsFiniteSet({n})
  BY FS_Singleton
<1>5. \A j \in 1 .. Len(q.stack) : r.stack[j] = IF j = d THEN f ELSE q.stack[j]
  BY <1>2, <1>3
<1>6. \A j \in 1 .. Len(q.stack) - 1 : j \in 1 .. Len(q.stack) /\ j # d
  BY <1>0, <1>1
<1>7. Len(r.stack) = Len(q.stack) /\ r.stack[d] = f
  BY <1>0, <1>2, <1>3
<1>8. Sound(r, L \cup {n})
  <2>1. \A j \in 1 .. Len(q.stack) - 1 : r.stack[j].own = q.stack[j].own
    BY <1>5, <1>6
  <2>2. r.stack[Len(q.stack)].own = q.stack[Len(q.stack)].own \cup {n}
    BY <1>0, <1>7
  <2>3. QED
    BY <1>1, <1>3, <1>4, <1>7, <2>1, <2>2, TopSound
<1>9. QED
  BY <1>8

LEMMA OwnStack ==
  ASSUME NEW q \in Locals, NEW d, NEW f, NEW r, NEW n, Owns(q, r, d, f, n)
  PROVE  /\ Len(r.stack) = Len(q.stack)
         /\ r.stack[d] = f /\ r.stack = [q.stack EXCEPT ![d] = f]
<1>1. q.stack \in Seq(Frame) /\ r.stack = [q.stack EXCEPT ![d] = f] /\ f \in Frame /\ d \in 1 .. Len(q.stack)
  BY DEF Owns, Locals
<1>2. Len([q.stack EXCEPT ![d] = f]) = Len(q.stack) /\ [q.stack EXCEPT ![d] = f][d] = f
  BY <1>1, ExceptSeq
<1>3. QED
  BY <1>1, <1>2

(* The innermost block is changed, but not the lines it has. *)
LEMMA ReframedSound ==
  ASSUME NEW q, NEW L, Sound(q, L), NEW d, d = Len(q.stack), d \in 1 .. Len(q.stack),
         NEW f \in Frame, f.own = q.stack[d].own,
         NEW r, r = [q EXCEPT !.stack = [q.stack EXCEPT ![d] = f]]
  PROVE  Sound(r, L) /\ r.block = q.block /\ r.in_comment = q.in_comment
<1>1. q \in Locals /\ q.stack \in Seq(Frame) /\ q.stack # <<>> /\ Len(q.stack) \in Nat
  BY EmptySeq DEF Sound, Locals
<1>2. /\ [q.stack EXCEPT ![d] = f] \in Seq(Frame) /\ Len([q.stack EXCEPT ![d] = f]) = Len(q.stack)
      /\ \A j \in 1 .. Len(q.stack) : [q.stack EXCEPT ![d] = f][j] = IF j = d THEN f ELSE q.stack[j]
  BY <1>1, ExceptSeq
<1>3. SameBelow(q, r) /\ r.stack = [q.stack EXCEPT ![d] = f] /\ r.block = q.block
  BY <1>1, <1>2 DEF Locals, SameBelow, SameLines
<1>4. {} \in SUBSET Nat /\ {} \cap L = {} /\ IsFiniteSet({}) /\ L \cup {} = L
  BY FS_EmptySet
<1>5. \A j \in 1 .. Len(q.stack) : r.stack[j].own = q.stack[j].own
  BY <1>2, <1>3
<1>6. Len(q.stack) \in 1 .. Len(q.stack) /\ \A j \in 1 .. Len(q.stack) - 1 : j \in 1 .. Len(q.stack)
  BY <1>1
<1>7. Len(r.stack) = Len(q.stack)
  BY <1>2, <1>3
<1>8. Sound(r, L \cup {})
  BY <1>1, <1>3, <1>4, <1>5, <1>6, <1>7, TopSound
<1>9. QED
  BY <1>3, <1>4, <1>8 DEF SameBelow

LEMMA StopDocSound ==
  ASSUME NEW q, NEW L, Sound(q, L)
  PROVE  /\ Sound(_stop_doc_collection(q), L)
         /\ _stop_doc_collection(q).in_comment = q.in_comment /\ _stop_doc_collection(q).block = q.block
<1>1. CASE ~CollectsDoc(q)
  BY <1>1 DEF _stop_doc_collection
<1>2. CASE CollectsDoc(q)
  <2> DEFINE d == Len(q.stack)
             f == [q.stack[d] EXCEPT !.collecting_doc = FALSE]
             r == _stop_doc_collection(q)
  <2>1. q \in Locals /\ q.stack \in Seq(Frame) /\ d \in 1 .. Len(q.stack)
    BY <1>2, EmptySeq DEF Sound, Locals, CollectsDoc
  <2>2. q.stack[d] \in Frame
    BY <2>1, ElementOfSeq
  <2>3. f \in Frame /\ f.own = q.stack[d].own
    BY <2>2 DEF Frame
  <2>4. r = [q EXCEPT !.stack = [q.stack EXCEPT ![d] = f]]
    BY <1>2, <2>1 DEF _stop_doc_collection
  <2> HIDE DEF f, r
  <2>5. QED
    BY <2>1, <2>3, <2>4, ReframedSound DEF r
<1>3. QED
  BY <1>1, <1>2

LEMMA CloseBlocksStack ==
  ASSUME NEW q \in Locals, NEW count \in 0 .. Len(q.stack), NEW n
  PROVE  /\ Len(CloseBlocks(q, count, n).stack) = Len(q.stack) - count
         /\ CloseBlocks(q, count, n).errors = q.errors
         /\ DOMAIN CloseBlocks(q, count, n) = DOMAIN q
<1>1. q.stack \in Seq(Frame) /\ Len(q.stack) \in Nat
  BY LenProperties DEF Locals
<1>2. \A i \in 1 .. Len(q.stack) - count : q.stack[i] \in Frame
  <2>1. ASSUME NEW i \in 1 .. Len(q.stack) - count PROVE i \in 1 .. Len(q.stack)
    BY <1>1
  <2>2. QED
    BY <1>1, <2>1, ElementOfSeq
<1>3. Len(SubSeq(q.stack, 1, Len(q.stack) - count)) = Len(q.stack) - count
  BY <1>1, <1>2, SubSeqProperties
<1>4. CloseBlocks(q, count, n).stack = SubSeq(q.stack, 1, Len(q.stack) - count)
  BY DEF CloseBlocks, Locals
<1>5. QED
  BY <1>3, <1>4 DEF CloseBlocks, Locals

LEMMA CloseOpenSound ==
  ASSUME NEW q, NEW L, Sound(q, L), NEW count \in 0 .. Len(q.stack), NEW n \in Int
  PROVE  /\ Sound(CloseOpen(q, count, n), L)
         /\ Len(CloseOpen(q, count, n).stack) = Len(q.stack) - count
<1> DEFINE c == CloseBlocks(q, count, n)
           r == [c EXCEPT !.errors = @ + count]
<1>1. Sound(c, L) /\ c \in Locals
  BY CloseBlocksSound DEF Sound
<1>2. Len(c.stack) = Len(q.stack) - count
  BY CloseBlocksStack DEF Sound
<1>3. count \in Nat
  BY LenProperties DEF Sound, Locals
<1>4. CloseOpen(q, count, n) = r
  BY DEF CloseOpen
<1> HIDE DEF c
<1>5. r \in Locals /\ SameTree(c, r) /\ SameLines(c, r) /\ r.in_comment = c.in_comment
  <2>1. c.errors \in Nat /\ c.errors + count \in Nat
    BY <1>1, <1>3 DEF Locals
  <2>2. r = [c EXCEPT !.errors = c.errors + count]
    OBVIOUS
  <2> HIDE DEF r
  <2>3. QED
    BY <1>1, <2>1, <2>2 DEF Locals, SameTree, SameLines
<1> HIDE DEF r
<1>6. Sound(r, L) /\ Len(r.stack) = Len(q.stack) - count
  BY <1>1, <1>2, <1>5, SameSound DEF SameTree
<1>7. QED
  BY <1>4, <1>6

(* The innermost block of a kind that is open. *)
LEMMA OpenInsideIsInside ==
  ASSUME NEW q \in Locals, NEW kind, IsOpen(q, kind)
  PROVE  OpenInside(q, kind) \in 0 .. Len(q.stack) - 1
<1> DEFINE S == {d \in 0 .. Len(q.stack) - 1 : q.stack[Len(q.stack) - d].kind = kind}
<1>1. Len(q.stack) \in Nat
  BY LenProperties DEF Locals
<1>2. PICK i \in 1 .. Len(q.stack) : q.stack[i].kind = kind
  BY DEF IsOpen
<1>3. Len(q.stack) - i \in 0 .. Len(q.stack) - 1 /\ Len(q.stack) - (Len(q.stack) - i) = i
  BY <1>1
<1>4. S # {} /\ S \in SUBSET Nat
  <2>1. Len(q.stack) - i \in S
    BY <1>2, <1>3
  <2>2. S \in SUBSET Nat
    BY <1>1
  <2>3. QED
    BY <2>1, <2>2
<1> DEFINE d == FirstLine(S)
<1>5. d \in S /\ \A m \in S : d <= m
  BY <1>4, FirstLineIsFirst
<1>6. \A e \in 0 .. d - 1 : q.stack[Len(q.stack) - e].kind # kind
  <2> HIDE DEF d
  <2>1. ASSUME NEW e \in 0 .. d - 1 PROVE e \notin S /\ e \in 0 .. Len(q.stack) - 1
    BY <1>1, <1>5
  <2>2. QED
    BY <2>1
<1>7. \E dd \in 0 .. Len(q.stack) - 1 :
        /\ q.stack[Len(q.stack) - dd].kind = kind
        /\ \A e \in 0 .. dd - 1 : q.stack[Len(q.stack) - e].kind # kind
  <2> HIDE DEF d
  <2>1. QED
    BY <1>5, <1>6
<1>8. QED
  BY <1>7 DEF OpenInside

LEMMA CloseKeywordSound ==
  ASSUME NEW q, NEW L, NEW n \in Nat, Sound(q, L), n \notin L, NEW line
  PROVE  Sound(CloseKeyword(q, line, n), L \cup {n})
<1> DEFINE kind == Closes[line]
           closed == CloseOpen(q, OpenInside(q, kind), n)
           named == IF line = "END_SCRIPT_other" THEN _structural_error(closed) ELSE closed
           owned == [named EXCEPT !.stack[Len(named.stack)].own = @ \cup {n}]
<1> HIDE DEF kind
<1>0. {n} \in SUBSET Nat /\ {n} \cap L = {} /\ IsFiniteSet({n})
  BY FS_Singleton
<1>1. CASE ~IsOpen(q, kind)
  <2>1. CloseKeyword(q, line, n) = [_structural_error(q) EXCEPT !.refused = @ \cup {n}]
    BY <1>1 DEF CloseKeyword, kind
  <2>2. QED
    BY <2>1, RefusedSound
<1>2. CASE IsOpen(q, kind)
  <2>1. OpenInside(q, kind) \in 0 .. Len(q.stack) /\ Len(q.stack) - OpenInside(q, kind) >= 1
    <3>1. Len(q.stack) \in Nat /\ q \in Locals
      BY LenProperties DEF Sound, Locals
    <3>2. OpenInside(q, kind) \in 0 .. Len(q.stack) - 1
      BY <1>2, <3>1, OpenInsideIsInside
    <3>3. QED
      BY <3>1, <3>2
  <2>2. Sound(closed, L) /\ Len(closed.stack) >= 1
    BY <2>1, CloseOpenSound
  <2>3. CloseKeyword(q, line, n) = _close_block(owned, n)
    BY <1>2 DEF CloseKeyword, kind
  <2> HIDE DEF closed
  <2>4. Sound(named, L) /\ named.stack = closed.stack
    BY <2>2, ErrorSound
  <2> HIDE DEF named
  <2>5. /\ named \in Locals /\ named.stack \in Seq(Frame) /\ named.stack # <<>>
        /\ Len(named.stack) \in 1 .. Len(named.stack)
    <3>1. named \in Locals /\ named.stack \in Seq(Frame) /\ Len(named.stack) >= 1
      BY <2>2, <2>4 DEF Sound, Locals
    <3>2. Len(named.stack) \in Nat /\ named.stack # <<>>
      BY <3>1, EmptySeq, LenProperties
    <3>3. QED
      BY <3>1, <3>2
  <2> DEFINE f == [named.stack[Len(named.stack)] EXCEPT !.own = @ \cup {n}]
  <2>6. f \in Frame /\ f.own = named.stack[Len(named.stack)].own \cup {n}
    <3>1. named.stack[Len(named.stack)] \in Frame
      BY <2>5, ElementOfSeq
    <3>2. QED
      BY <3>1 DEF Frame
  <2>7. owned = [named EXCEPT !.stack = [named.stack EXCEPT ![Len(named.stack)] = f]]
    BY <2>5
  <2> HIDE DEF f, owned
  <2>8. Sound(owned, L \cup {n}) /\ Len(owned.stack) = Len(named.stack)
    <3>1. Owns(named, owned, Len(named.stack), f, n)
      BY <2>5, <2>6, <2>7 DEF Owns
    <3>2. QED
      <4>1. Sound(owned, L \cup {n})
        BY <2>4, <3>1, OwnSound
      <4>2. Len(owned.stack) = Len(named.stack)
        <5>1. owned.stack = [named.stack EXCEPT ![Len(named.stack)] = f]
          BY <2>5, <2>7 DEF Locals
        <5>2. Len([named.stack EXCEPT ![Len(named.stack)] = f]) = Len(named.stack)
          BY <2>5, <2>6, ExceptSeq
        <5>3. QED
          BY <5>1, <5>2
      <4>3. QED
        BY <4>1, <4>2
  <2>9. 1 \in 0 .. Len(owned.stack) /\ n \in Int
    BY <2>5, <2>8
  <2>10. QED
    BY <2>3, <2>8, <2>9, CloseBlocksSound DEF _close_block
<1>3. QED
  BY <1>1, <1>2

LEMMA ClauseKeywordSound ==
  ASSUME NEW q, NEW L, NEW n \in Nat, Sound(q, L), n \notin L, NEW line
  PROVE  Sound(ClauseKeyword(q, line, n), L \cup {n})
<1> DEFINE top == Len(q.stack)
           own == [q EXCEPT !.stack[top].own = @ \cup {n}]
           last == q.stack[top]
           r == ClauseKeyword(q, line, n)
<1>1. CASE ~TopIs(q, "if")
  <2>1. r = [_structural_error(q) EXCEPT !.refused = @ \cup {n}]
    BY <1>1 DEF ClauseKeyword
  <2>2. QED
    BY <2>1, RefusedSound
<1>2. CASE TopIs(q, "if")
  <2>1. q \in Locals /\ q.stack \in Seq(Frame) /\ q.stack # <<>> /\ top \in 1 .. Len(q.stack)
    BY <1>2, EmptySeq DEF Sound, Locals, TopIs
  <2>2. last \in Frame /\ last.elseifs + 1 \in Nat
    <3>1. last \in Frame
      BY <2>1, ElementOfSeq
    <3>2. QED
      BY <3>1 DEF Frame
  <2> DEFINE owned == [last EXCEPT !.own = @ \cup {n}]
  <2>3. /\ owned \in Frame /\ owned.own = last.own \cup {n}
        /\ owned.elseifs = last.elseifs /\ owned.start = last.start
    BY <2>2 DEF Frame
  <2>4. own = [q EXCEPT !.stack = [q.stack EXCEPT ![top] = owned]]
    BY <2>1, <2>2
  <2> HIDE DEF owned, own
  <2>5. q.stack[top].own \cup {n} = owned.own
    BY <2>3
  <2>6. top = Len(q.stack) /\ top \in 1 .. Len(q.stack)
    BY <2>1 DEF top
  <2>7. /\ Sound(own, L \cup {n}) /\ Len(own.stack) = Len(q.stack)
        /\ own.stack[top] = owned /\ own.stack = [q.stack EXCEPT ![top] = owned]
    <3>1. Owns(q, own, top, owned, n)
      BY <2>3, <2>4, <2>5, <2>6 DEF Owns
    <3>2. QED
      BY <2>1, <3>1, OwnSound, OwnStack
  <2>8. ASSUME NEW f \in Frame, f.own = owned.own, r = [own EXCEPT !.stack = [own.stack EXCEPT ![top] = f]]
        PROVE  Sound(r, L \cup {n})
    BY <2>6, <2>7, <2>8, ReframedSound
  <2>9. CASE line = "ELSEIF"
    <3> DEFINE counted == [owned EXCEPT !.elseifs = @ + 1]
               f == [counted EXCEPT !.in_elseif = TRUE, !.in_else = FALSE]
               next == [own EXCEPT !.stack = [own.stack EXCEPT ![top] = counted]]
    <3>1. counted \in Frame /\ f \in Frame /\ f.own = owned.own
      BY <2>2, <2>3 DEF Frame
    <3>2. own \in Locals /\ own.stack \in Seq(Frame) /\ DOMAIN own.stack = 1 .. Len(own.stack) /\ top \in DOMAIN own.stack
      BY <2>6, <2>7, LenProperties DEF Sound, Locals
    <3>3. [own EXCEPT !.stack[top].elseifs = @ + 1] = next
      BY <2>7, <3>2 DEF Locals
    <3>4. r = [next EXCEPT !.stack[top].in_elseif = TRUE, !.stack[top].in_else = FALSE]
      <4>1. r = [own EXCEPT !.stack[top].elseifs = @ + 1, !.stack[top].in_elseif = TRUE, !.stack[top].in_else = FALSE]
        BY <1>2, <2>9 DEF ClauseKeyword, own
      <4> HIDE DEF r, next
      <4>2. QED
        BY <3>3, <4>1
    <3> HIDE DEF r, counted
    <3>5. next \in Locals /\ next.stack = [own.stack EXCEPT ![top] = counted] /\ next.stack[top] = counted
          /\ DOMAIN next.stack = DOMAIN own.stack
      <4>1. /\ [own.stack EXCEPT ![top] = counted] \in Seq(Frame)
            /\ [own.stack EXCEPT ![top] = counted][top] = counted
        BY <3>1, <3>2, ExceptSeq
      <4>2. QED
        BY <3>2, <4>1 DEF Locals
    <3>6. r = [next EXCEPT !.stack = [next.stack EXCEPT ![top] = f]]
      <4> HIDE DEF next
      <4>1. QED
        BY <3>2, <3>4, <3>5 DEF Locals
    <3>7. r = [own EXCEPT !.stack = [own.stack EXCEPT ![top] = f]]
      BY <3>2, <3>5, <3>6 DEF Locals
    <3> HIDE DEF f, next
    <3>8. QED
      BY <2>8, <3>1, <3>7 DEF r
  <2>10. CASE line = "ELSE"
    <3> DEFINE f == [owned EXCEPT !.in_else = TRUE, !.in_elseif = FALSE]
    <3>1. f \in Frame /\ f.own = owned.own
      BY <2>2, <2>3 DEF Frame
    <3>2. r = [own EXCEPT !.stack[top].in_else = TRUE, !.stack[top].in_elseif = FALSE]
      BY <1>2, <2>10 DEF ClauseKeyword, own
    <3>3. r = [own EXCEPT !.stack = [own.stack EXCEPT ![top] = f]]
      <4>1. own \in Locals /\ own.stack \in Seq(Frame) /\ DOMAIN own.stack = 1 .. Len(own.stack) /\ top \in DOMAIN own.stack
        BY <2>6, <2>7, LenProperties DEF Sound, Locals
      <4>2. QED
        BY <2>7, <3>2, <4>1 DEF Locals
    <3> HIDE DEF f, r
    <3>4. QED
      BY <2>8, <3>1, <3>3 DEF r
  <2>11. CASE line # "ELSEIF" /\ line # "ELSE"
    <3> DEFINE branch == Branch([Last(q.stack) EXCEPT !.in_else = FALSE])
               m == [line |-> n, block |-> Last(q.stack).start, clause |-> branch]
    <3>1. m \in Modifier
      BY <2>2 DEF Frame, Modifier, Branch, Last
    <3>2. r = [own EXCEPT !.modifiers = @ \cup {m}]
      BY <1>2, <2>11 DEF ClauseKeyword, own
    <3> HIDE DEF m, r
    <3>3. r \in Locals /\ SameTree(own, r) /\ SameLines(own, r) /\ r.in_comment = own.in_comment
      <4>1. own \in Locals
        BY <2>7 DEF Sound
      <4>2. QED
        BY <3>1, <3>2, <4>1 DEF Locals, SameTree, SameLines
    <3>4. QED
      BY <2>7, <3>3, SameSound DEF r
  <2>12. QED
    BY <2>9, <2>10, <2>11
<1>3. QED
  BY <1>1, <1>2

LEMMA BeginSqlSound ==
  ASSUME NEW q, NEW L, NEW n \in Nat, Sound(q, L), n \notin L
  PROVE  Sound(BeginSql(q, n), L \cup {n})
<1> DEFINE c == _flush_sql(q, n)
           r == [c EXCEPT !.in_sql = TRUE]
<1>1. Sound(c, L) /\ c \in Locals
  <2>1. n \in Int /\ Sound(c, L)
    BY FlushSqlSound
  <2>2. QED
    BY <2>1 DEF Sound
<1>2. BeginSql(q, n) = Push(r, "sqlblock", n) /\ "sqlblock" \in BlockKinds
  BY DEF BeginSql, BlockKinds
<1> HIDE DEF c
<1>3. r \in Locals /\ SameTree(c, r) /\ SameLines(c, r) /\ r.in_comment = c.in_comment
  BY <1>1 DEF Locals, SameTree, SameLines
<1> HIDE DEF r
<1>4. Sound(r, L)
  BY <1>1, <1>3, SameSound
<1>5. QED
  BY <1>2, <1>4, PushSound

LEMMA EndSqlSound ==
  ASSUME NEW q, NEW L, NEW n \in Nat, Sound(q, L), n \notin L
  PROVE  Sound(EndSql(q, n), L \cup {n})
<1> DEFINE c == _flush_sql(q, n)
           flushed == [c EXCEPT !.in_sql = FALSE]
           owned == [flushed EXCEPT !.stack[Len(q.stack)].own = @ \cup {n}]
<1>1. Sound(c, L) /\ c \in Locals /\ c.stack = q.stack
  <2>1. n \in Int
    OBVIOUS
  <2>2. Sound(c, L) /\ SameOpen(q, c)
    BY <2>1, FlushSqlSound
  <2>3. QED
    BY <2>2 DEF Sound, SameOpen
<1>2. EndSql(q, n) = IF ~TopIs(q, "sqlblock") THEN [_structural_error(flushed) EXCEPT !.refused = @ \cup {n}]
                     ELSE _close_block(owned, n)
  BY DEF EndSql
<1> HIDE DEF c
<1>3. flushed \in Locals /\ SameTree(c, flushed) /\ SameLines(c, flushed) /\ flushed.in_comment = c.in_comment
  BY <1>1 DEF Locals, SameTree, SameLines
<1>4. Sound(flushed, L) /\ flushed.stack = q.stack
  BY <1>1, <1>3, SameSound DEF SameTree
<1> HIDE DEF flushed
<1>5. CASE ~TopIs(q, "sqlblock")
  BY <1>2, <1>4, <1>5, RefusedSound
<1>6. CASE TopIs(q, "sqlblock")
  <2>1. /\ flushed \in Locals /\ flushed.stack \in Seq(Frame) /\ flushed.stack # <<>>
        /\ Len(q.stack) \in 1 .. Len(q.stack)
    BY <1>4, <1>6, EmptySeq DEF Sound, Locals, TopIs
  <2> DEFINE f == [flushed.stack[Len(q.stack)] EXCEPT !.own = @ \cup {n}]
  <2>2. f \in Frame /\ f.own = flushed.stack[Len(q.stack)].own \cup {n}
    <3>1. flushed.stack[Len(q.stack)] \in Frame
      BY <1>4, <2>1, ElementOfSeq
    <3>2. QED
      BY <3>1 DEF Frame
  <2>3. owned = [flushed EXCEPT !.stack = [flushed.stack EXCEPT ![Len(flushed.stack)] = f]]
    BY <1>4, <2>1
  <2> HIDE DEF f, owned
  <2>x. Len(flushed.stack) = Len(q.stack)
    BY <1>4
  <2>4. Sound(owned, L \cup {n}) /\ Len(owned.stack) = Len(flushed.stack)
    <3>1. Owns(flushed, owned, Len(q.stack), f, n)
      BY <2>1, <2>2, <2>3, <2>x DEF Owns
    <3>2. QED
      <4>1. Sound(owned, L \cup {n})
        BY <1>4, <3>1, OwnSound
      <4>2. Len(owned.stack) = Len(flushed.stack)
        <5>1. owned.stack = [flushed.stack EXCEPT ![Len(flushed.stack)] = f]
          BY <2>1, <2>3 DEF Locals
        <5>2. Len([flushed.stack EXCEPT ![Len(flushed.stack)] = f]) = Len(flushed.stack)
          BY <2>1, <2>2, <2>x, ExceptSeq
        <5>3. QED
          BY <5>1, <5>2
      <4>3. QED
        BY <4>1, <4>2
  <2>5. 1 \in 0 .. Len(owned.stack) /\ n \in Int
    BY <1>4, <2>1, <2>4
  <2>6. QED
    BY <1>2, <1>6, <2>4, <2>5, CloseBlocksSound DEF _close_block
<1>7. QED
  BY <1>5, <1>6

(* SQL that no line has ended is set aside. *)
LEMMA DroppedSound ==
  ASSUME NEW q, NEW L, Sound(q, L)
  PROVE  Sound([q EXCEPT !.warned = @ \cup q.sql, !.sql = {}], L)
<1> DEFINE bare == [q EXCEPT !.sql = {}]
           r == [q EXCEPT !.warned = @ \cup q.sql, !.sql = {}]
<1>1. q \in Locals /\ q.sql \in SUBSET L /\ L \in SUBSET Nat /\ IsFiniteSet(L)
  BY DEF Sound, Locals, Splits, Places, PlaceNames
<1>2. IsFiniteSet(q.sql) /\ q.sql \in SUBSET Nat
  BY <1>1, FS_Subset
<1>3. bare \in Locals /\ SameTree(q, bare) /\ bare.in_comment = q.in_comment /\ bare.block = q.block
  BY <1>1 DEF Locals, SameTree
<1>4. Sound(bare, L \ q.sql)
  <2>1. /\ "sql" \in FieldNames /\ Places(q)["sql"] = q.sql /\ Places(bare)["sql"] = q.sql \ q.sql
        /\ \A k \in FieldNames \ {"sql"} : Places(bare)[k] = Places(q)[k]
    BY <1>1 DEF Places, FieldNames, PlaceNames, Locals
  <2>2. bare.in_comment = TRUE <=> bare.block # {}
    BY <1>3 DEF Sound
  <2>3. QED
    BY <1>3, <2>1, <2>2, TakeSound
<1>5. r \in Locals /\ SameTree(bare, r) /\ r.in_comment = bare.in_comment /\ r.block = bare.block
  BY <1>1 DEF Locals, SameTree
<1>6. Sound(r, (L \ q.sql) \cup q.sql)
  <2>1. /\ "warned" \in FieldNames /\ Places(r)["warned"] = Places(bare)["warned"] \cup q.sql
        /\ \A k \in FieldNames \ {"warned"} : Places(r)[k] = Places(bare)[k]
    <3>1. /\ r.warned = bare.warned \cup q.sql /\ r.sql = bare.sql /\ r.comments = bare.comments
          /\ r.block = bare.block /\ r.ignored = bare.ignored /\ r.doc = bare.doc /\ r.refused = bare.refused
      BY <1>1 DEF Locals
    <3> HIDE DEF r, bare
    <3>2. QED
      BY <3>1 DEF Places, FieldNames, PlaceNames
  <2>2. r.in_comment = TRUE <=> r.block # {}
    BY <1>4, <1>5 DEF Sound
  <2>3. q.sql \cap (L \ q.sql) = {}
    OBVIOUS
  <2> HIDE DEF r, bare
  <2>4. QED
    BY <1>2, <1>4, <1>5, <2>1, <2>2, <2>3, PutSound
<1>7. (L \ q.sql) \cup q.sql = L
  BY <1>1
<1>8. QED
  BY <1>6, <1>7

LEMMA MetacommandSound ==
  ASSUME NEW q, NEW L, NEW n \in Nat, Sound(q, L), n \notin L, NEW line \in Metacommands
  PROVE  Sound(Metacommand(q, line, n), L \cup {n})
<1> DEFINE dropped == [q EXCEPT !.warned = @ \cup q.sql, !.sql = {}]
<1>1. Sound(dropped, L)
  BY DroppedSound
<1> HIDE DEF dropped
<1>i. n \in Int
  OBVIOUS
<1>2. {n} \in SUBSET Nat /\ {n} \cap L = {} /\ IsFiniteSet({n})
  BY FS_Singleton
<1>3. CASE line = "BEGIN_SQL"
  <2>1. Metacommand(q, line, n) = BeginSql(q, n)
    BY <1>3 DEF Metacommand, Opens, Closes, Clauses
  <2>2. QED
    BY <2>1, BeginSqlSound
<1>4. CASE line = "END_SQL"
  <2>1. Metacommand(q, line, n) = EndSql(q, n)
    BY <1>4 DEF Metacommand, Opens, Closes, Clauses
  <2>2. QED
    BY <2>1, EndSqlSound
<1>5. CASE q.in_sql /\ line \notin {"BEGIN_SQL", "END_SQL"}
  <2>1. Metacommand(q, line, n) = [q EXCEPT !.ignored = @ \cup {n}]
    BY <1>5 DEF Metacommand
  <2>2. QED
    <3>1. Sound([q EXCEPT !.ignored = @ \cup {n}], L \cup {n})
      BY <1>2, NoteSound
    <3>2. QED
      BY <2>1, <3>1
<1>6. CASE ~q.in_sql /\ line \in DOMAIN Opens
  <2> DEFINE opened == IF line = "BEGIN_SCRIPT_bad" THEN _structural_error(dropped) ELSE dropped
  <2>1. Metacommand(q, line, n) = Push(opened, Opens[line], n)
    BY <1>6 DEF Metacommand, Opens, Closes, Clauses, dropped
  <2>2. Opens[line] \in BlockKinds
    BY <1>6 DEF Opens, BlockKinds
  <2>3. Sound(opened, L)
    BY <1>1, ErrorSound
  <2> HIDE DEF opened
  <2>4. QED
    BY <2>1, <2>2, <2>3, PushSound
<1>7. CASE ~q.in_sql /\ line \in DOMAIN Closes
  <2>1. Metacommand(q, line, n) = CloseKeyword(dropped, line, n)
    BY <1>7 DEF Metacommand, Opens, Closes, Clauses, dropped
  <2>2. QED
    BY <1>1, <2>1, CloseKeywordSound
<1>8. CASE ~q.in_sql /\ line \in Clauses
  <2>1. Metacommand(q, line, n) = ClauseKeyword(dropped, line, n)
    BY <1>8 DEF Metacommand, Opens, Closes, Clauses, dropped
  <2>2. QED
    BY <1>1, <2>1, ClauseKeywordSound
<1>9. CASE ~q.in_sql /\ line = "cmd"
  <2>1. Metacommand(q, line, n) = Emit(dropped, "cmd", {n}, n, n)
    BY <1>9 DEF Metacommand, Opens, Closes, Clauses, dropped
  <2>2. "cmd" \in NodeKinds
    BY DEF NodeKinds
  <2>3. QED
    BY <1>1, <1>2, <1>i, <2>1, <2>2, EmitSound
<1>10. QED
  BY <1>3, <1>4, <1>5, <1>6, <1>7, <1>8, <1>9 DEF Metacommands

(* A block comment's lines are a docstring's, a statement's or a node's. *)
LEMMA InBlockCommentSound ==
  ASSUME NEW q, NEW L, NEW n \in Nat, Sound(q, L), n \notin L, NEW line, q.in_comment = TRUE
  PROVE  Sound(InBlockComment(q, line, n), L \cup {n})
<1> DEFINE all == q.block \cup {n}
           out == [q EXCEPT !.in_comment = FALSE, !.block = {}, !.in_statement = FALSE]
<1>1. q \in Locals /\ q.block \in SUBSET L /\ L \in SUBSET Nat /\ IsFiniteSet(L)
  BY DEF Sound, Locals, Splits, Places, PlaceNames
<1>i. n \in Int
  OBVIOUS
<1>2. {n} \in SUBSET Nat /\ {n} \cap L = {} /\ IsFiniteSet({n})
  BY FS_Singleton
<1>3. all \in SUBSET Nat /\ IsFiniteSet(all) /\ all # {}
  BY <1>1, <1>2, FS_Subset, FS_Union
<1>4. all \cap (L \ q.block) = {} /\ (L \ q.block) \cup all = L \cup {n}
  BY <1>1, <1>2
<1>5. CASE line \notin {"*/", "/**/"}
  <2> DEFINE r == [q EXCEPT !.block = all]
  <2>1. r \in Locals /\ SameTree(q, r) /\ r.in_comment = TRUE /\ r.block = all
    BY <1>1, <1>3 DEF Locals, SameTree
  <2>2. /\ "block" \in FieldNames /\ Places(r)["block"] = Places(q)["block"] \cup {n}
        /\ \A k \in FieldNames \ {"block"} : Places(r)[k] = Places(q)[k]
    BY <1>1 DEF Places, FieldNames, PlaceNames, Locals
  <2>3. InBlockComment(q, line, n) = r
    BY <1>5 DEF InBlockComment
  <2>4. r.in_comment = TRUE <=> r.block # {}
    BY <2>1, <1>3
  <2> HIDE DEF r
  <2>5. Sound(r, L \cup {n})
    BY <1>2, <2>1, <2>2, <2>4, PutSound
  <2>6. QED
    BY <2>3, <2>5
<1>6. CASE line \in {"*/", "/**/"}
  <2>1. Sound(out, L \ q.block)
    <3>1. out \in Locals /\ SameTree(q, out) /\ out.in_comment = FALSE /\ out.block = {}
      BY <1>1 DEF Locals, SameTree
    <3>2. /\ "block" \in FieldNames /\ Places(q)["block"] = q.block /\ Places(out)["block"] = q.block \ q.block
          /\ \A k \in FieldNames \ {"block"} : Places(out)[k] = Places(q)[k]
      BY <1>1 DEF Places, FieldNames, PlaceNames, Locals
    <3> HIDE DEF out
    <3>3. QED
      BY <3>1, <3>2, TakeSound
  <2>2. InBlockComment(q, line, n) =
          IF CollectsDoc(q) THEN [out EXCEPT !.doc = @ \cup all]
          ELSE IF q.in_statement THEN [out EXCEPT !.sql = @ \cup all]
          ELSE Emit(_flush_sql(out, n), "comment", all, FirstLine(all), n)
    BY <1>6 DEF InBlockComment
  <2> HIDE DEF out, all
  <2>3. /\ Sound([out EXCEPT !.doc = @ \cup all], (L \ q.block) \cup all)
        /\ Sound([out EXCEPT !.sql = @ \cup all], (L \ q.block) \cup all)
    BY <1>3, <1>4, <2>1, NoteSound
  <2>4. Sound(Emit(_flush_sql(out, n), "comment", all, FirstLine(all), n), (L \ q.block) \cup all)
    <3> DEFINE flushed == _flush_sql(out, n)
    <3>1. Sound(flushed, L \ q.block)
      BY <1>i, <2>1, FlushSqlSound
    <3>2. FirstLine(all) \in Int /\ "comment" \in NodeKinds
      <4>1. FirstLine(all) \in Nat
        BY <1>3, FirstLineIsFirst
      <4>2. QED
        BY <4>1 DEF NodeKinds
    <3> HIDE DEF flushed
    <3>3. Sound(Emit(flushed, "comment", all, FirstLine(all), n), (L \ q.block) \cup all)
      BY <1>i, <1>3, <1>4, <3>1, <3>2, EmitSound
    <3>4. QED
      BY <3>3 DEF flushed
  <2>5. QED
    BY <1>4, <2>2, <2>3, <2>4
<1>7. QED
  BY <1>5, <1>6

(* A block comment is opened. *)
LEMMA StartBlockSound ==
  ASSUME NEW q, NEW L, NEW n \in Nat, Sound(q, L), n \notin L, q.in_comment # TRUE, NEW b \in BOOLEAN
  PROVE  Sound([q EXCEPT !.in_comment = TRUE, !.block = {n}, !.in_statement = b], L \cup {n})
<1> DEFINE r == [q EXCEPT !.in_comment = TRUE, !.block = {n}, !.in_statement = b]
<1>1. q \in Locals /\ q.block = {}
  BY DEF Sound
<1>2. {n} \in SUBSET Nat /\ {n} \cap L = {} /\ IsFiniteSet({n})
  BY FS_Singleton
<1>3. r \in Locals /\ SameTree(q, r) /\ r.in_comment = TRUE /\ r.block = {n}
  BY <1>1 DEF Locals, SameTree
<1>4. /\ "block" \in FieldNames /\ Places(r)["block"] = Places(q)["block"] \cup {n}
      /\ \A k \in FieldNames \ {"block"} : Places(r)[k] = Places(q)[k]
  BY <1>1 DEF Places, FieldNames, PlaceNames, Locals
<1> HIDE DEF r
<1>5. r.in_comment = TRUE <=> r.block # {}
  BY <1>3
<1>6. Sound(r, L \cup {n})
  BY <1>2, <1>3, <1>4, <1>5, PutSound
<1>7. QED
  BY <1>6 DEF r

LEMMA OpenBlockCommentSound ==
  ASSUME NEW q, NEW L, NEW n \in Nat, Sound(q, L), n \notin L, NEW line, q.in_comment # TRUE
  PROVE  Sound(OpenBlockComment(q, line, n), L \cup {n})
<1>1. {n} \in SUBSET Nat /\ {n} \cap L = {} /\ IsFiniteSet({n})
  BY FS_Singleton
<1>2. CASE line = "/*"
  <2>1. (q.sql # {}) \in BOOLEAN
    OBVIOUS
  <2>2. Sound([q EXCEPT !.in_comment = TRUE, !.block = {n}, !.in_statement = (q.sql # {})], L \cup {n})
    BY <2>1, StartBlockSound
  <2>3. QED
    BY <1>2, <2>2 DEF OpenBlockComment
<1>3. CASE line # "/*" /\ q.sql # {}
  <2>1. Sound([q EXCEPT !.sql = @ \cup {n}], L \cup {n})
    BY <1>1, NoteSound
  <2>2. QED
    BY <1>3, <2>1 DEF OpenBlockComment
<1>4. CASE line # "/*" /\ q.sql = {}
  <2>1. n \in Int /\ "comment" \in NodeKinds
    BY DEF NodeKinds
  <2>2. Sound(Emit(q, "comment", {n}, n, n), L \cup {n})
    BY <1>1, <2>1, EmitSound
  <2>3. QED
    BY <1>4, <2>2 DEF OpenBlockComment
<1>5. QED
  BY <1>2, <1>3, <1>4

LEMMA LineCommentSound ==
  ASSUME NEW q, NEW L, NEW n \in Nat, Sound(q, L), n \notin L
  PROVE  Sound(LineComment(q, n), L \cup {n})
<1>1. {n} \in SUBSET Nat /\ {n} \cap L = {} /\ IsFiniteSet({n})
  BY FS_Singleton
<1>2. /\ Sound([q EXCEPT !.sql = @ \cup {n}], L \cup {n})
      /\ Sound([q EXCEPT !.comments = @ \cup {n}], L \cup {n})
  BY <1>1, NoteSound
<1>3. QED
  BY <1>2 DEF LineComment

LEMMA SqlLineSound ==
  ASSUME NEW q, NEW L, NEW n \in Nat, Sound(q, L), n \notin L, NEW line
  PROVE  Sound(SqlLine(q, line, n), L \cup {n})
<1> DEFINE noted == [q EXCEPT !.sql = @ \cup {n}]
           start == IF q.sql = {} THEN n ELSE q.sql_start
           more == [q EXCEPT !.sql = @ \cup {n}, !.sql_start = IF q.sql = {} THEN n ELSE @]
<1>1. {n} \in SUBSET Nat /\ {n} \cap L = {} /\ IsFiniteSet({n})
  BY FS_Singleton
<1>2. Sound(noted, L \cup {n})
  BY <1>1, NoteSound
<1>3. q \in Locals /\ start \in Nat
  BY DEF Sound, Locals
<1>4. more \in Locals /\ SameTree(noted, more) /\ SameLines(noted, more) /\ more.in_comment = noted.in_comment
  <2>1. more = [q EXCEPT !.sql = @ \cup {n}, !.sql_start = start]
    BY <1>3 DEF Locals
  <2> HIDE DEF more, start
  <2>2. QED
    BY <1>3, <2>1 DEF Locals, SameTree, SameLines
<1>5. SqlLine(q, line, n) = IF line = "sql;" /\ ~q.in_sql THEN _flush_sql(more, n) ELSE more
  BY DEF SqlLine
<1> HIDE DEF more, noted
<1>6. Sound(more, L \cup {n})
  BY <1>2, <1>4, SameSound
<1>7. Sound(_flush_sql(more, n), L \cup {n})
  <2>1. n \in Int
    OBVIOUS
  <2>2. QED
    BY <1>6, <2>1, FlushSqlSound
<1>8. QED
  BY <1>5, <1>6, <1>7

(* A line that is not blank is one line more, and a blank one is none. *)
Read(L, line, n) == IF line = "blank" THEN L ELSE L \cup {n}

LEMMA OrdinaryLineSound ==
  ASSUME NEW q, NEW L, NEW n \in Nat, Sound(q, L), n \notin L, NEW line
  PROVE  Sound(OrdinaryLine(q, line, n), Read(L, line, n))
<1> DEFINE flushed == _flush_line_comments(q)
<1>1. Sound(flushed, L) /\ flushed.in_comment = q.in_comment
  BY FlushCommentsSound DEF SameOpen
<1>2. CASE line = "blank"
  BY <1>1, <1>2 DEF OrdinaryLine, Read
<1>3. CASE line # "blank"
  <2>1. Read(L, line, n) = L \cup {n}
    BY <1>3 DEF Read
  <2>2. CASE q.in_comment
    <3>1. OrdinaryLine(q, line, n) = InBlockComment(q, line, n)
      BY <1>3, <2>2 DEF OrdinaryLine
    <3>2. q.in_comment = TRUE
      BY <2>2 DEF Sound, Locals
    <3>3. Sound(InBlockComment(q, line, n), L \cup {n})
      BY <3>2, InBlockCommentSound
    <3>4. QED
      BY <2>1, <3>1, <3>3
  <2>3. CASE ~q.in_comment
    <3>1. q.in_comment # TRUE
      BY <2>3
    <3>2. OrdinaryLine(q, line, n) \in
            {LineComment(q, n), OpenBlockComment(flushed, line, n), SqlLine(flushed, line, n)}
          \/ (OrdinaryLine(q, line, n) = Metacommand(flushed, line, n) /\ line \in Metacommands)
      BY <1>3, <2>3 DEF OrdinaryLine
    <3>3. flushed.in_comment # TRUE
      BY <1>1, <3>1
    <3> HIDE DEF flushed
    <3>4. Sound(LineComment(q, n), L \cup {n})
      BY LineCommentSound
    <3>5. Sound(OpenBlockComment(flushed, line, n), L \cup {n})
      BY <1>1, <3>3, OpenBlockCommentSound
    <3>6. Sound(SqlLine(flushed, line, n), L \cup {n})
      BY <1>1, SqlLineSound
    <3>7. line \in Metacommands => Sound(Metacommand(flushed, line, n), L \cup {n})
      BY <1>1, MetacommandSound
    <3>8. QED
      BY <2>1, <3>2, <3>4, <3>5, <3>6, <3>7
  <2>4. QED
    BY <2>2, <2>3
<1>4. QED
  BY <1>2, <1>3

LEMMA ParseLineSound ==
  ASSUME NEW q, NEW L, NEW n \in Nat, Sound(q, L), n \notin L, NEW line
  PROVE  Sound(ParseLine(q, line, n), Read(L, line, n))
<1> DEFINE stopped == _stop_doc_collection(q)
<1>1. Sound(stopped, L)
  BY StopDocSound
<1>2. {n} \in SUBSET Nat /\ {n} \cap L = {} /\ IsFiniteSet({n})
  BY FS_Singleton
<1>3. CASE ~CollectsDoc(q) \/ q.in_comment
  <2>1. ParseLine(q, line, n) = OrdinaryLine(q, line, n)
    BY <1>3 DEF ParseLine
  <2>2. QED
    BY <2>1, OrdinaryLineSound
<1>4. CASE ~(~CollectsDoc(q) \/ q.in_comment)
  <2> HIDE DEF stopped
  <2>1. CASE line = "blank"
    <3>1. Sound(_flush_line_comments(stopped), L)
      BY <1>1, FlushCommentsSound
    <3>2. QED
      BY <1>4, <2>1, <3>1 DEF ParseLine, Read, stopped
  <2>2. CASE line \in {"--", "/**/"}
    <3>1. Sound([q EXCEPT !.doc = @ \cup {n}], L \cup {n})
      BY <1>2, NoteSound
    <3>2. QED
      BY <1>4, <2>2, <3>1 DEF ParseLine, Read
  <2>3. CASE line = "/*"
    <3>1. q.in_comment # TRUE
      BY <1>4
    <3>2. Sound([q EXCEPT !.in_comment = TRUE, !.block = {n}, !.in_statement = FALSE], L \cup {n})
      BY <3>1, StartBlockSound
    <3>3. QED
      BY <1>4, <2>3, <3>2 DEF ParseLine, Read
  <2>4. CASE line \notin {"blank", "--", "/**/", "/*"}
    <3>1. Sound(OrdinaryLine(stopped, line, n), Read(L, line, n))
      BY <1>1, OrdinaryLineSound
    <3>2. QED
      BY <1>4, <2>4, <3>1 DEF ParseLine, stopped
  <2>5. QED
    BY <2>1, <2>2, <2>3, <2>4
<1>5. QED
  BY <1>3, <1>4

LEMMA ParseEndSound ==
  ASSUME NEW q, NEW L, NEW n \in Nat, Sound(q, L)
  PROVE  Sound(ParseEnd(q, n), L)
<1> DEFINE flushed == _flush_line_comments(q)
           trailing == IF q.sql # {} THEN _structural_error(flushed) ELSE flushed
           done == _flush_sql(trailing, n)
<1>0. n \in Int
  OBVIOUS
<1>1. Sound(flushed, L) /\ flushed.stack = q.stack
  BY FlushCommentsSound DEF SameOpen
<1> HIDE DEF flushed
<1>2. Sound(trailing, L) /\ trailing.stack = q.stack
  BY <1>1, ErrorSound
<1>3. ParseEnd(q, n) = CloseOpen(done, Len(q.stack), n)
  BY DEF ParseEnd, flushed
<1> HIDE DEF trailing
<1>4. Sound(done, L) /\ done.stack = q.stack
  BY <1>0, <1>2, FlushSqlSound DEF SameOpen
<1> HIDE DEF done
<1>5. Len(q.stack) \in 0 .. Len(done.stack)
  <2>1. Len(q.stack) \in Nat
    BY LenProperties DEF Sound, Locals
  <2>2. QED
    BY <1>4, <2>1
<1>6. Sound(CloseOpen(done, Len(q.stack), n), L)
  BY <1>0, <1>4, <1>5, CloseOpenSound
<1>7. QED
  BY <1>3, <1>6

----------------------------------------------------------------------------
(* The invariant: the lines read so far, blank ones apart, are where the    *)
(* parser keeps them.                                                      *)

ReadLines == {n \in 1 .. Len(text) : text[n] # "blank"}

ParserInv == text \in Seq(Line) /\ Sound(p, ReadLines)

LEMMA StartSound ==
  ASSUME NEW b \in BOOLEAN
  PROVE  Sound(Start(b), {})
<1> DEFINE q == Start(b)
<1>1. /\ q.tree = <<>> /\ q.stack = <<>> /\ q.sql = {} /\ q.comments = {} /\ q.block = {}
      /\ q.warned = {} /\ q.ignored = {} /\ q.doc = {} /\ q.refused = {} /\ q.in_comment = FALSE
  BY DEF Start
<1>2. q \in Locals
  BY DEF Start, Locals
<1> HIDE DEF q
<1>3. Len(q.tree) = 0 /\ Len(q.stack) = 0
  BY <1>1
<1>4. NodesApart(q) /\ FramesApart(q) /\ NodeSet(q) = {} /\ FrameSet(q) = {}
  BY <1>3 DEF NodesApart, FramesApart, NodeSet, FrameSet
<1>5. \A k \in PlaceNames : Places(q)[k] = {}
  BY <1>1, <1>4 DEF Places, PlaceNames
<1>6. Splits(Places(q), {})
  BY <1>5 DEF Splits
<1>7. IsFiniteSet({}) /\ {} \in SUBSET Nat
  BY FS_EmptySet
<1>8. Sound(q, {})
  BY <1>1, <1>2, <1>4, <1>6, <1>7 DEF Sound
<1>9. QED
  BY <1>8 DEF q

LEMMA InitSound == ParserInit => ParserInv
<1> SUFFICES ASSUME ParserInit PROVE ParserInv
  OBVIOUS
<1>1. text = <<>> /\ text \in Seq(Line) /\ Len(text) = 0
  BY DEF ParserInit
<1>2. ReadLines = {}
  BY <1>1 DEF ReadLines
<1>3. Sound(p, {})
  <2>1. p = Start(TRUE) \/ p = Start(FALSE)
    BY DEF ParserInit
  <2>2. QED
    BY <2>1, StartSound
<1>4. QED
  BY <1>1, <1>2, <1>3 DEF ParserInv

LEMMA ReadLineSound ==
  ASSUME ParserInv, NEW line \in Line, ReadLine(line)
  PROVE  ParserInv'
<1> DEFINE n == Len(text) + 1
<1>1. text \in Seq(Line) /\ Len(text) \in Nat /\ n \in Nat /\ Sound(p, ReadLines)
  BY LenProperties DEF ParserInv
<1>2. text' = Append(text, line) /\ p' = ParseLine(p, line, n)
  BY DEF ReadLine
<1>3. /\ text' \in Seq(Line) /\ Len(text') = n /\ text'[n] = line
      /\ \A i \in 1 .. Len(text) : text'[i] = text[i]
  BY <1>1, <1>2, AppendProperties
<1>4. n \notin ReadLines
  BY <1>1 DEF ReadLines
<1>5. ReadLines' = Read(ReadLines, line, n)
  <2>1. ASSUME NEW l PROVE l \in ReadLines' <=> l \in ReadLines \/ (l = n /\ line # "blank")
    <3>1. ReadLines' = {m \in 1 .. n : text'[m] # "blank"}
      BY <1>3 DEF ReadLines
    <3>2. 1 .. n = (1 .. Len(text)) \cup {n}
      BY <1>1
    <3> HIDE DEF n
    <3>3. QED
      BY <1>3, <3>1, <3>2 DEF ReadLines
  <2> HIDE DEF n
  <2>2. CASE line = "blank"
    BY <2>1, <2>2 DEF Read
  <2>3. CASE line # "blank"
    BY <2>1, <2>3 DEF Read
  <2>4. QED
    BY <2>2, <2>3
<1>6. Sound(p', ReadLines')
  <2>1. Sound(ParseLine(p, line, n), Read(ReadLines, line, n))
    BY <1>1, <1>4, ParseLineSound
  <2>2. QED
    BY <1>2, <1>5, <2>1
<1>7. QED
  BY <1>3, <1>6 DEF ParserInv

LEMMA EndSound ==
  ASSUME ParserInv, EndOfScript
  PROVE  ParserInv'
<1>1. text' = text /\ p' = ParseEnd(p, Len(text)) /\ ReadLines' = ReadLines
  BY DEF EndOfScript, ReadLines
<1>2. text \in Seq(Line) /\ Len(text) \in Nat /\ Sound(p, ReadLines)
  BY LenProperties DEF ParserInv
<1>3. Sound(ParseEnd(p, Len(text)), ReadLines)
  BY <1>2, ParseEndSound
<1>4. QED
  BY <1>1, <1>2, <1>3 DEF ParserInv

(* The parser's locals have the types of the code's, and every line read   *)
(* that is not blank is in one place.                                      *)
THEOREM PlacesAreKept == ParserSpec => []ParserInv
<1>1. ParserInv /\ [ParserNext]_parserVars => ParserInv'
  <2> SUFFICES ASSUME ParserInv, [ParserNext]_parserVars PROVE ParserInv'
    OBVIOUS
  <2>1. ASSUME NEW line \in Line, ReadLine(line) PROVE ParserInv'
    BY <2>1, ReadLineSound
  <2>2. CASE EndOfScript
    BY <2>2, EndSound
  <2>3. CASE UNCHANGED parserVars
    BY <2>3 DEF parserVars, ParserInv, ReadLines
  <2>4. QED
    BY <2>1, <2>2, <2>3 DEF ParserNext, Parsed
<1>2. QED
  BY <1>1, InitSound, PTL DEF ParserSpec

----------------------------------------------------------------------------
(* What the places are as one sequence of sets. *)

Fields == <<p.sql, p.comments, p.block, p.warned, p.ignored, p.doc, p.refused>>
FieldAt == <<"sql", "comments", "block", "warned", "ignored", "doc", "refused">>

LEMMA BucketsAre ==
  ASSUME p \in Locals
  PROVE  /\ Len(p.tree) \in Nat /\ Len(p.stack) \in Nat
         /\ Len(Buckets) = Len(p.tree) + Len(p.stack) + 7
         /\ \A i \in 1 .. Len(p.tree) : Buckets[i] = p.tree[i].lines
         /\ \A i \in 1 .. Len(p.stack) : Buckets[Len(p.tree) + i] = p.stack[i].own
         /\ \A i \in 1 .. 7 : Buckets[Len(p.tree) + Len(p.stack) + i] = Fields[i]
<1> DEFINE nt == Len(p.tree)
           ns == Len(p.stack)
<1>1. p.tree \in Seq(TreeNode) /\ p.stack \in Seq(Frame) /\ nt \in Nat /\ ns \in Nat
  BY LenProperties DEF Locals
<1>2. NodeLines \in Seq(SUBSET Nat) /\ Len(NodeLines) = nt
  <2>1. \A i \in 1 .. nt : p.tree[i] \in TreeNode
    BY <1>1, ElementOfSeq
  <2>2. NodeLines \in [1 .. nt -> SUBSET Nat]
    BY <2>1 DEF NodeLines, TreeNode
  <2>3. QED
    BY <1>1, <2>2, FunctionIsSeq
<1>3. FrameLines \in Seq(SUBSET Nat) /\ Len(FrameLines) = ns
  <2>1. \A i \in 1 .. ns : p.stack[i] \in Frame
    BY <1>1, ElementOfSeq
  <2>2. FrameLines \in [1 .. ns -> SUBSET Nat]
    BY <2>1 DEF FrameLines, Frame
  <2>3. QED
    BY <1>1, <2>2, FunctionIsSeq
<1>4. Fields \in Seq(SUBSET Nat) /\ Len(Fields) = 7
  BY DEF Fields, Locals
<1>5. /\ \A i \in 1 .. nt : NodeLines[i] = p.tree[i].lines
      /\ \A i \in 1 .. ns : FrameLines[i] = p.stack[i].own
  BY DEF NodeLines, FrameLines
<1>6. Buckets = (NodeLines \o FrameLines) \o Fields
  BY DEF Buckets, Fields
<1> HIDE DEF nt, ns
<1> DEFINE first == NodeLines \o FrameLines
<1>7. /\ first \in Seq(SUBSET Nat) /\ Len(first) = nt + ns
      /\ \A i \in 1 .. nt + ns : first[i] = IF i <= nt THEN NodeLines[i] ELSE FrameLines[i - nt]
  BY <1>2, <1>3, ConcatProperties
<1> HIDE DEF first
<1>8. /\ Len(first \o Fields) = nt + ns + 7
      /\ \A i \in 1 .. nt + ns + 7 :
           (first \o Fields)[i] = IF i <= nt + ns THEN first[i] ELSE Fields[i - (nt + ns)]
  <2>1. /\ Len(first \o Fields) = Len(first) + Len(Fields)
        /\ \A i \in 1 .. Len(first) + Len(Fields) :
             (first \o Fields)[i] = IF i <= Len(first) THEN first[i] ELSE Fields[i - Len(first)]
    BY <1>4, <1>7, ConcatProperties
  <2>2. QED
    BY <1>4, <1>7, <2>1
<1>9. \A i \in 1 .. nt : i \in 1 .. nt + ns /\ i \in 1 .. nt + ns + 7 /\ i <= nt + ns /\ i <= nt
  BY <1>1
<1>10. \A i \in 1 .. ns : /\ nt + i \in 1 .. nt + ns /\ nt + i \in 1 .. nt + ns + 7
                          /\ nt + i <= nt + ns /\ ~(nt + i <= nt) /\ (nt + i) - nt = i
  BY <1>1
<1>11. \A i \in 1 .. 7 : nt + ns + i \in 1 .. nt + ns + 7 /\ ~(nt + ns + i <= nt + ns) /\ (nt + ns + i) - (nt + ns) = i
  BY <1>1
<1>12. \A i \in 1 .. nt : Buckets[i] = p.tree[i].lines
  BY <1>5, <1>6, <1>7, <1>8, <1>9 DEF first
<1>13. \A i \in 1 .. ns : Buckets[nt + i] = p.stack[i].own
  <2>1. SUFFICES ASSUME NEW i \in 1 .. ns PROVE Buckets[nt + i] = p.stack[i].own
    OBVIOUS
  <2>2. Buckets[nt + i] = first[nt + i]
    BY <1>6, <1>8, <1>10 DEF first
  <2>3. first[nt + i] = FrameLines[i]
    BY <1>7, <1>10
  <2>4. QED
    BY <1>5, <2>2, <2>3
<1>14. \A i \in 1 .. 7 : Buckets[nt + ns + i] = Fields[i]
  BY <1>6, <1>8, <1>11 DEF first
<1>15. Len(Buckets) = nt + ns + 7
  BY <1>6, <1>8 DEF first
<1>16. QED
  BY <1>1, <1>12, <1>13, <1>14, <1>15 DEF nt, ns

(* Bucket i is of the place that its position says. *)
Place(i) ==
  IF i <= Len(p.tree) THEN "nodes"
  ELSE IF i <= Len(p.tree) + Len(p.stack) THEN "frames"
  ELSE FieldAt[i - (Len(p.tree) + Len(p.stack))]

LEMMA FieldsAre ==
  \A i \in 1 .. 7 : FieldAt[i] \in FieldNames /\ Fields[i] = Places(p)[FieldAt[i]]
<1>1. ASSUME NEW i \in 1 .. 7 PROVE FieldAt[i] \in FieldNames /\ Fields[i] = Places(p)[FieldAt[i]]
  <2>1. i \in {1, 2, 3, 4, 5, 6, 7}
    OBVIOUS
  <2>2. QED
    BY <2>1 DEF FieldAt, Fields, Places, FieldNames, PlaceNames
<1>2. QED
  BY <1>1

LEMMA FieldsDiffer ==
  \A i, j \in 1 .. 7 : i # j => FieldAt[i] # FieldAt[j]
<1>1. ASSUME NEW i \in 1 .. 7, NEW j \in 1 .. 7, i # j PROVE FieldAt[i] # FieldAt[j]
  <2>1. i \in {1, 2, 3, 4, 5, 6, 7} /\ j \in {1, 2, 3, 4, 5, 6, 7}
    OBVIOUS
  <2>2. QED
    BY <1>1, <2>1 DEF FieldAt
<1>2. QED
  BY <1>1

LEMMA PositionCases ==
  ASSUME NEW t \in Nat, NEW s \in Nat, NEW i \in 1 .. t + s + 7
  PROVE  \/ i \in 1 .. t
         \/ ~(i <= t) /\ i <= t + s /\ i - t \in 1 .. s /\ i = t + (i - t)
         \/ ~(i <= t) /\ ~(i <= t + s) /\ i - (t + s) \in 1 .. 7 /\ i = t + s + (i - (t + s))
OBVIOUS

LEMMA BucketInPlace ==
  ASSUME p \in Locals, NEW i \in 1 .. Len(Buckets)
  PROVE  Place(i) \in PlaceNames /\ Buckets[i] \subseteq Places(p)[Place(i)]
<1> DEFINE t == Len(p.tree)
           s == Len(p.stack)
<1>1. t \in Nat /\ s \in Nat /\ i \in 1 .. t + s + 7
  BY BucketsAre
<1>2. CASE i \in 1 .. t
  <2>1. Buckets[i] = p.tree[i].lines /\ Place(i) = "nodes"
    <3>1. Buckets[i] = p.tree[i].lines
      BY <1>2, BucketsAre
    <3>2. i <= t
      BY <1>2
    <3>3. QED
      BY <3>1, <3>2 DEF Place
  <2>2. Places(p)["nodes"] = NodeSet(p) /\ "nodes" \in PlaceNames
    BY DEF Places, PlaceNames
  <2>3. QED
    BY <1>2, <2>1, <2>2 DEF NodeSet
<1>3. CASE ~(i <= t) /\ i <= t + s /\ i - t \in 1 .. s /\ i = t + (i - t)
  <2>1. Buckets[i] = p.stack[i - t].own /\ Place(i) = "frames"
    BY <1>1, <1>3, BucketsAre DEF Place
  <2>2. Places(p)["frames"] = FrameSet(p) /\ "frames" \in PlaceNames
    BY DEF Places, PlaceNames
  <2>3. QED
    BY <1>3, <2>1, <2>2 DEF FrameSet
<1>4. CASE ~(i <= t) /\ ~(i <= t + s) /\ i - (t + s) \in 1 .. 7 /\ i = t + s + (i - (t + s))
  <2>1. Buckets[i] = Fields[i - (t + s)] /\ Place(i) = FieldAt[i - (t + s)]
    BY <1>1, <1>4, BucketsAre DEF Place
  <2>2. QED
    BY <1>4, <2>1, FieldsAre DEF FieldNames
<1>5. QED
  <2> HIDE DEF t, s
  <2>1. QED
    BY <1>1, <1>2, <1>3, <1>4, PositionCases

LEMMA BucketsCover ==
  ASSUME NEW L, Sound(p, L)
  PROVE  UNION {Buckets[i] : i \in 1 .. Len(Buckets)} = L
<1> DEFINE t == Len(p.tree)
           s == Len(p.stack)
<1>1. p \in Locals /\ Splits(Places(p), L)
  BY DEF Sound
<1>2. t \in Nat /\ s \in Nat /\ Len(Buckets) = t + s + 7
  BY <1>1, BucketsAre
<1>3. ASSUME NEW i \in 1 .. Len(Buckets) PROVE Buckets[i] \subseteq L
  BY <1>1, BucketInPlace DEF Splits
<1>4. ASSUME NEW l \in L PROVE \E i \in 1 .. Len(Buckets) : l \in Buckets[i]
  <2>1. PICK k \in PlaceNames : l \in Places(p)[k]
    BY <1>1 DEF Splits
  <2>2. CASE k = "nodes"
    <3>1. PICK i \in 1 .. t : l \in p.tree[i].lines
      BY <2>1, <2>2 DEF Places, NodeSet
    <3>2. l \in Buckets[i]
      BY <1>1, <3>1, BucketsAre
    <3>x. i \in 1 .. Len(Buckets)
      <4> HIDE DEF t, s
      <4>1. QED
        BY <1>2
    <3>3. QED
      BY <3>2, <3>x
  <2>3. CASE k = "frames"
    <3>1. PICK i \in 1 .. s : l \in p.stack[i].own
      BY <2>1, <2>3 DEF Places, FrameSet
    <3>2. l \in Buckets[t + i]
      BY <1>1, <3>1, BucketsAre
    <3>x. t + i \in 1 .. Len(Buckets)
      <4> HIDE DEF t, s
      <4>1. QED
        BY <1>2
    <3>3. QED
      BY <3>2, <3>x
  <2>4. CASE k \in FieldNames
    <3>1. \E i \in 1 .. 7 : FieldAt[i] = k
      <4>1. /\ FieldAt[1] = "sql" /\ FieldAt[2] = "comments" /\ FieldAt[3] = "block" /\ FieldAt[4] = "warned"
            /\ FieldAt[5] = "ignored" /\ FieldAt[6] = "doc" /\ FieldAt[7] = "refused"
        BY DEF FieldAt
      <4>2. k \in {"sql", "comments", "block", "warned", "ignored", "doc", "refused"}
        BY <2>4 DEF FieldNames, PlaceNames
      <4>3. QED
        BY <4>1, <4>2
    <3>2. PICK i \in 1 .. 7 : FieldAt[i] = k
      BY <3>1
    <3>3. l \in Fields[i]
      BY <2>1, <3>2, FieldsAre
    <3>4. l \in Buckets[t + s + i]
      BY <1>1, <3>3, BucketsAre
    <3>x. t + s + i \in 1 .. Len(Buckets)
      <4> HIDE DEF t, s
      <4>1. QED
        BY <1>2
    <3>5. QED
      BY <3>4, <3>x
  <2>5. QED
    BY <2>2, <2>3, <2>4 DEF FieldNames
<1>5. QED
  BY <1>3, <1>4

LEMMA BucketsApart ==
  ASSUME NEW L, Sound(p, L), NEW i \in 1 .. Len(Buckets), NEW j \in 1 .. Len(Buckets), i # j
  PROVE  Buckets[i] \cap Buckets[j] = {}
<1> DEFINE t == Len(p.tree)
           s == Len(p.stack)
<1>1. p \in Locals /\ Splits(Places(p), L) /\ NodesApart(p) /\ FramesApart(p)
  BY DEF Sound
<1>2. t \in Nat /\ s \in Nat /\ i \in 1 .. t + s + 7 /\ j \in 1 .. t + s + 7
  BY <1>1, BucketsAre
<1>3. CASE Place(i) # Place(j)
  BY <1>1, <1>3, BucketInPlace DEF Splits
<1>4. \A k \in 1 .. t + s + 7 :
        \/ k \in 1 .. t /\ Place(k) = "nodes"
        \/ k - t \in 1 .. s /\ k = t + (k - t) /\ Place(k) = "frames"
        \/ /\ k - (t + s) \in 1 .. 7 /\ k = t + s + (k - (t + s))
           /\ Place(k) = FieldAt[k - (t + s)] /\ Place(k) \in FieldNames
  <2>1. ASSUME NEW k \in 1 .. t + s + 7
        PROVE  \/ k \in 1 .. t /\ Place(k) = "nodes"
               \/ k - t \in 1 .. s /\ k = t + (k - t) /\ Place(k) = "frames"
               \/ /\ k - (t + s) \in 1 .. 7 /\ k = t + s + (k - (t + s))
                  /\ Place(k) = FieldAt[k - (t + s)] /\ Place(k) \in FieldNames
    <3>1. Place(k) = IF k <= t THEN "nodes" ELSE IF k <= t + s THEN "frames" ELSE FieldAt[k - (t + s)]
      BY DEF Place
    <3> HIDE DEF t, s
    <3>2. QED
      BY <1>2, <2>1, <3>1, PositionCases, FieldsAre
  <2>2. QED
    BY <2>1
<1>5. CASE Place(i) = Place(j)
  <2>1. CASE i \in 1 .. t /\ j \in 1 .. t
    BY <1>1, <2>1, BucketsAre DEF NodesApart
  <2>2. CASE /\ i - t \in 1 .. s /\ i = t + (i - t) /\ j - t \in 1 .. s /\ j = t + (j - t)
    <3>1. i - t # j - t
      BY <1>2
    <3>2. Buckets[i] = p.stack[i - t].own /\ Buckets[j] = p.stack[j - t].own
      BY <1>1, <2>2, BucketsAre
    <3>3. QED
      BY <1>1, <2>2, <3>1, <3>2 DEF FramesApart
  <2>3. ~(/\ i - (t + s) \in 1 .. 7 /\ j - (t + s) \in 1 .. 7
          /\ Place(i) = FieldAt[i - (t + s)] /\ Place(j) = FieldAt[j - (t + s)])
    <3>1. i - (t + s) # j - (t + s)
      BY <1>2
    <3>2. QED
      BY <1>5, <3>1, FieldsDiffer
  <2>4. "nodes" \notin FieldNames /\ "frames" \notin FieldNames
    BY DEF FieldNames
  <2>5. QED
    <3> HIDE DEF t, s
    <3>1. QED
      BY <1>2, <1>4, <1>5, <2>1, <2>2, <2>3, <2>4
<1>6. QED
  BY <1>3, <1>5

(* Every line of a script that is not blank is in one place and one only,  *)
(* whatever the lines and however many: NothingLostOrDoubled.              *)
THEOREM EveryLineIsInOnePlace == ParserSpec => []NothingLostOrDoubled
<1>1. ParserInv => NothingLostOrDoubled
  <2> SUFFICES ASSUME ParserInv PROVE NothingLostOrDoubled
    OBVIOUS
  <2>1. Sound(p, ReadLines)
    BY DEF ParserInv
  <2>2. UNION {Buckets[i] : i \in 1 .. Len(Buckets)} = ReadLines
    BY <2>1, BucketsCover
  <2>3. \A i, j \in 1 .. Len(Buckets) : i # j => Buckets[i] \cap Buckets[j] = {}
    BY <2>1, BucketsApart
  <2>4. QED
    BY <2>2, <2>3 DEF NothingLostOrDoubled, ReadLines
<1>2. QED
  BY <1>1, PlacesAreKept, PTL

----------------------------------------------------------------------------
(* Blocks in the tree. A node's branch is read off the clause lines of its  *)
(* block: t is the text, C the lines of ELSEIF and ELSE.                    *)

ClauseLines(t, S) == {l \in S : t[l] \in {"ELSEIF", "ELSE"}}
Before(S, m) == {l \in S : l < m}

(* Branch x is that of the last clause in C. *)
IsBranch(t, C, x) ==
  \/ C = {} /\ x = 0
  \/ \E last \in C :
       /\ \A m \in C : m <= last
       /\ x = IF t[last] = "ELSE" THEN -1 ELSE Cardinality({l \in C : t[l] = "ELSEIF"})

(* What a frame counts and flags is what its lines say. *)
FrameRead(t, f) ==
  LET C == ClauseLines(t, f.own)
  IN  /\ f.elseifs = Cardinality({l \in C : t[l] = "ELSEIF"})
      /\ \/ C = {} /\ ~f.in_else /\ ~f.in_elseif
         \/ \E last \in C :
              /\ \A m \in C : m <= last
              /\ f.in_else <=> t[last] = "ELSE"
              /\ f.in_elseif <=> t[last] = "ELSEIF"

(* A block is the parent of a node that comes after its first line, in the *)
(* branch of the last clause before the node. The block may still be open, *)
(* or be a node of the tree, which then ends no earlier.                   *)
Encloses(t, kind, start, lines, node) ==
  /\ start = node.parent /\ start < node.from
  /\ kind = "if" => IsBranch(t, ClauseLines(t, Before(lines, node.from)), node.branch)
InOpen(q, t, node) ==
  \E j \in 1 .. Len(q.stack) : Encloses(t, q.stack[j].kind, q.stack[j].start, q.stack[j].own, node)
InClosed(q, t, node) ==
  \E b \in 1 .. Len(q.tree) :
    /\ q.tree[b].kind \in BlockKinds
    /\ Encloses(t, q.tree[b].kind, q.tree[b].from, q.tree[b].lines, node)
    /\ node.to <= q.tree[b].to

(* After line n: nodes start with a line of theirs and end by n; each block *)
(* that is open starts after all lines of those around it, and is read as  *)
(* it says; and every node has the block it is in.                         *)
Froms(q, n) == \A i \in 1 .. Len(q.tree) : q.tree[i].from \in q.tree[i].lines /\ q.tree[i].to <= n
Opened(q, t) ==
  \A i \in 1 .. Len(q.stack) :
    /\ q.stack[i].start \in q.stack[i].own
    /\ \A j \in 1 .. Len(q.stack) : i < j => \A m \in q.stack[i].own : m < q.stack[j].start
    /\ q.stack[i].kind = "if" => FrameRead(t, q.stack[i])
Placed(q, t) ==
  \A i \in 1 .. Len(q.tree) : q.tree[i].parent # 0 => InOpen(q, t, q.tree[i]) \/ InClosed(q, t, q.tree[i])
Nested(q, t, n) == Froms(q, n) /\ Opened(q, t) /\ Placed(q, t)

(* What is accumulated comes after every line of the innermost block, so   *)
(* the node it will make is in the branch that is open now.                *)
Behind(q, S) == q.stack # <<>> => \A m \in q.stack[Len(q.stack)].own, l \in S : m < l
Pending(q) ==
  /\ Behind(q, q.sql) /\ Behind(q, q.comments) /\ Behind(q, q.block)
  /\ q.sql # {} => q.sql_start \in q.sql
  /\ q.in_comment /\ q.in_statement => q.sql # {}

(* A frame whose counts are right gives its next node the branch it is in. *)
LEMMA BranchIsRead ==
  ASSUME NEW t, NEW f \in Frame, IsFiniteSet(f.own), FrameRead(t, f)
  PROVE  IsBranch(t, ClauseLines(t, f.own), Branch(f))
<1> DEFINE C == ClauseLines(t, f.own)
           E == {l \in C : t[l] = "ELSEIF"}
<1>1. f.elseifs \in Nat /\ f.in_else \in BOOLEAN /\ f.in_elseif \in BOOLEAN
  BY DEF Frame
<1>2. /\ f.elseifs = Cardinality(E)
      /\ \/ C = {} /\ ~f.in_else /\ ~f.in_elseif
         \/ \E last \in C :
              /\ \A m \in C : m <= last
              /\ f.in_else <=> t[last] = "ELSE"
              /\ f.in_elseif <=> t[last] = "ELSEIF"
  BY DEF FrameRead
<1>3. C \in SUBSET f.own /\ E \in SUBSET f.own /\ \A l \in C : t[l] \in {"ELSEIF", "ELSE"}
  BY DEF ClauseLines
<1>4. IsFiniteSet(E)
  BY <1>3, FS_Subset
<1>e. \A l : l \in E <=> l \in C /\ t[l] = "ELSEIF"
  OBVIOUS
<1>g. IsBranch(t, C, Branch(f)) <=>
        \/ C = {} /\ Branch(f) = 0
        \/ \E last \in C :
             /\ \A m \in C : m <= last
             /\ Branch(f) = IF t[last] = "ELSE" THEN -1 ELSE Cardinality(E)
  BY DEF IsBranch
<1> HIDE DEF C, E
<1>5. CASE C = {} /\ ~f.in_else /\ ~f.in_elseif
  <2>1. Branch(f) = 0
    BY <1>5 DEF Branch
  <2>2. QED
    BY <1>5, <2>1 DEF IsBranch, C
<1>6. ASSUME NEW last \in C, \A m \in C : m <= last, f.in_else <=> t[last] = "ELSE", f.in_elseif <=> t[last] = "ELSEIF"
      PROVE  IsBranch(t, C, Branch(f))
  <2>1. CASE t[last] = "ELSE"
    BY <1>6, <2>1, <1>g DEF Branch
  <2>2. CASE t[last] = "ELSEIF"
    <3>1. last \in E
      BY <1>e, <2>2
    <3>2. Cardinality(E) # 0
      BY <1>4, <3>1, FS_EmptySet
    <3>3. Branch(f) = f.elseifs
      BY <1>1, <1>2, <1>6, <2>2, <3>2 DEF Branch
    <3>4. QED
      BY <1>2, <1>6, <1>g, <2>2, <3>3
  <2>3. QED
    BY <1>3, <2>1, <2>2
<1>7. QED
  BY <1>2, <1>5, <1>6 DEF C

(* A node goes into the block that is open at its depth. *)
LEMMA NodeEnclosed ==
  ASSUME NEW q, NEW L, NEW t, Sound(q, L), Opened(q, t), NEW depth \in 1 .. Len(q.stack),
         NEW kind, NEW lines, NEW from, NEW to, \A m \in q.stack[depth].own : m < from
  PROVE  Encloses(t, q.stack[depth].kind, q.stack[depth].start, q.stack[depth].own,
                  Node(q, depth, kind, lines, from, to))
<1> DEFINE f == q.stack[depth]
           node == Node(q, depth, kind, lines, from, to)
<1>1. f \in Frame
  <2>1. q.stack \in Seq(Frame)
    BY DEF Sound, Locals
  <2>2. QED
    BY <2>1, ElementOfSeq
<1>2. IsFiniteSet(f.own)
  <2>1. f.own \in SUBSET L /\ IsFiniteSet(L)
    BY DEF Sound, Splits, Places, PlaceNames, FrameSet
  <2>2. QED
    BY <2>1, FS_Subset
<1>3. f.start \in f.own /\ (f.kind = "if" => FrameRead(t, f))
  BY DEF Opened
<1>4. depth # 0
  OBVIOUS
<1>5. node.parent = f.start /\ node.from = from /\ node.branch = Branch(f)
  BY <1>4 DEF Node
<1>6. \A m \in f.own : m < from
  OBVIOUS
<1> HIDE DEF f, node
<1>7. Before(f.own, node.from) = f.own
  BY <1>5, <1>6 DEF Before
<1>8. Encloses(t, f.kind, f.start, f.own, node)
  BY <1>1, <1>2, <1>3, <1>5, <1>6, <1>7, BranchIsRead DEF Encloses
<1>9. QED
  BY <1>8 DEF f, node

(* A node is added to the innermost block. *)
LEMMA EmitNested ==
  ASSUME NEW q, NEW L, NEW t, NEW n, Sound(q, L), Nested(q, t, n),
         NEW kind \in NodeKinds, NEW lines \in SUBSET Nat, NEW from \in lines, NEW to \in Int, to <= n,
         Behind(q, {from})
  PROVE  Nested(Emit(q, kind, lines, from, to), t, n)
<1> DEFINE r == Emit(q, kind, lines, from, to)
           d == Len(q.stack)
           node == Node(q, d, kind, lines, from, to)
           k == Len(q.tree)
<1>1. q \in Locals /\ q.tree \in Seq(TreeNode) /\ q.stack \in Seq(Frame) /\ d \in Nat /\ k \in Nat
  BY LenProperties DEF Sound, Locals
<1>2. from \in Int
  OBVIOUS
<1>3. node \in TreeNode /\ node.lines = lines /\ node.from = from /\ node.to = to /\ (d = 0 => node.parent = 0)
  <2>1. node \in TreeNode /\ node.lines = lines
    BY <1>1, <1>2, NodeTyped
  <2>2. QED
    BY <2>1 DEF Node
<1>4. r = [q EXCEPT !.tree = Append(q.tree, node)]
  BY DEF Emit
<1>5. d # 0 => Encloses(t, q.stack[d].kind, q.stack[d].start, q.stack[d].own, node)
  <2>1. SUFFICES ASSUME d # 0 PROVE Encloses(t, q.stack[d].kind, q.stack[d].start, q.stack[d].own, node)
    OBVIOUS
  <2>2. d \in 1 .. Len(q.stack) /\ q.stack # <<>>
    BY <1>1, <2>1, EmptySeq
  <2>3. \A m \in q.stack[d].own : m < from
    BY <2>2 DEF Behind
  <2>4. Opened(q, t)
    BY DEF Nested
  <2>5. QED
    BY <2>2, <2>3, <2>4, NodeEnclosed
<1>d. d = Len(q.stack) /\ k = Len(q.tree)
  OBVIOUS
<1> HIDE DEF r, node, d, k
<1>6. /\ Len(Append(q.tree, node)) = k + 1
      /\ \A i \in 1 .. k : Append(q.tree, node)[i] = q.tree[i]
      /\ Append(q.tree, node)[k + 1] = node
  BY <1>1, <1>3, <1>d, AppendProperties
<1>7. r.stack = q.stack /\ Len(r.tree) = k + 1 /\ r.tree[k + 1] = node /\ \A i \in 1 .. k : r.tree[i] = q.tree[i]
  BY <1>1, <1>4, <1>6 DEF Locals
<1>8. \A i \in 1 .. k + 1 : i \in 1 .. k \/ i = k + 1
  BY <1>1
<1>9. \A i \in 1 .. k : i \in 1 .. k + 1
  BY <1>1
<1>10. Froms(r, n)
  <2>1. Froms(q, n)
    BY DEF Nested
  <2>2. QED
    BY <1>3, <1>7, <1>8, <1>d, <2>1 DEF Froms
<1>11. Opened(r, t)
  BY <1>7 DEF Nested, Opened
<1>12. Placed(r, t)
  <2>1. ASSUME NEW i \in 1 .. k, q.tree[i].parent # 0 PROVE InOpen(r, t, q.tree[i]) \/ InClosed(r, t, q.tree[i])
    <3>1. InOpen(q, t, q.tree[i]) \/ InClosed(q, t, q.tree[i])
      BY <1>d, <2>1 DEF Nested, Placed
    <3>2. InOpen(q, t, q.tree[i]) => InOpen(r, t, q.tree[i])
      BY <1>7 DEF InOpen
    <3>3. InClosed(q, t, q.tree[i]) => InClosed(r, t, q.tree[i])
      BY <1>7, <1>9, <1>d DEF InClosed
    <3>4. QED
      BY <3>1, <3>2, <3>3
  <2>2. ASSUME node.parent # 0 PROVE InOpen(r, t, node)
    <3>1. d # 0 /\ d \in 1 .. Len(r.stack)
      BY <1>1, <1>3, <1>7, <1>d, <2>2
    <3>2. QED
      BY <1>5, <1>7, <3>1 DEF InOpen
  <2>3. QED
    BY <1>7, <1>8, <2>1, <2>2 DEF Placed
<1>13. QED
  BY <1>10, <1>11, <1>12 DEF Nested, r

(* The innermost blocks are closed: what was in them is in their nodes. *)
LEMMA CloseBlocksNested ==
  ASSUME NEW q, NEW L, NEW t, NEW n \in Int, Sound(q, L), Nested(q, t, n), NEW count \in 0 .. Len(q.stack)
  PROVE  Nested(CloseBlocks(q, count, n), t, n)
<1> DEFINE depth == Len(q.stack)
           keep == depth - count
           at(k) == depth + 1 - k
           closed == [k \in 1 .. count |->
                       Node(q, (depth + 1 - k) - 1, q.stack[depth + 1 - k].kind, q.stack[depth + 1 - k].own,
                            q.stack[depth + 1 - k].start, n)]
           r == CloseBlocks(q, count, n)
           size == Len(q.tree)
<1>1. /\ q \in Locals /\ q.tree \in Seq(TreeNode) /\ q.stack \in Seq(Frame)
      /\ depth \in Nat /\ size \in Nat /\ count \in Nat
  BY LenProperties DEF Sound, Locals
<1>2. \A i \in 1 .. depth : q.stack[i] \in Frame
  BY <1>1, ElementOfSeq
<1>d. depth = Len(q.stack) /\ keep = depth - count /\ size = Len(q.tree)
  OBVIOUS
<1>n. keep \in Nat /\ keep <= depth /\ count <= depth
  BY <1>1, <1>d
<1>k. closed = [k \in 1 .. count |->
                 Node(q, (depth + 1 - k) - 1, q.stack[depth + 1 - k].kind, q.stack[depth + 1 - k].own,
                      q.stack[depth + 1 - k].start, n)]
  OBVIOUS
<1>3. r = [q EXCEPT !.tree = q.tree \o closed, !.stack = SubSeq(q.stack, 1, keep)]
  BY DEF CloseBlocks
<1>4. ASSUME NEW k \in 1 .. count
      PROVE  /\ at(k) \in 1 .. depth /\ at(k) - 1 \in 0 .. depth
             /\ closed[k] \in TreeNode /\ closed[k].lines = q.stack[at(k)].own
             /\ closed[k].from = q.stack[at(k)].start /\ closed[k].to = n
             /\ closed[k].kind = q.stack[at(k)].kind
             /\ closed[k] = Node(q, at(k) - 1, q.stack[at(k)].kind, q.stack[at(k)].own, q.stack[at(k)].start, n)
  <2>1. at(k) \in 1 .. depth /\ at(k) - 1 \in 0 .. depth
    BY <1>1, <1>n
  <2>2. q.stack[at(k)] \in Frame
    BY <1>2, <2>1
  <2>3. /\ q.stack[at(k)].kind \in NodeKinds /\ q.stack[at(k)].own \in SUBSET Nat /\ q.stack[at(k)].start \in Int
    BY <2>2 DEF Frame, NodeKinds
  <2>4. closed[k] = Node(q, at(k) - 1, q.stack[at(k)].kind, q.stack[at(k)].own, q.stack[at(k)].start, n)
    BY <1>k
  <2> HIDE DEF at, closed, depth
  <2>5. closed[k] \in TreeNode /\ closed[k].lines = q.stack[at(k)].own
    BY <1>1, <1>d, <2>1, <2>3, <2>4, NodeTyped
  <2>6. closed[k].from = q.stack[at(k)].start /\ closed[k].to = n /\ closed[k].kind = q.stack[at(k)].kind
    BY <2>4 DEF Node
  <2>7. QED
    BY <2>1, <2>4, <2>5, <2>6
<1>5. ASSUME NEW i \in keep + 1 .. depth PROVE at(i) \in 1 .. count /\ at(at(i)) = i
  BY <1>1, <1>n, <1>d
<1> HIDE DEF r, closed, keep, depth, at, size
<1>6. closed \in Seq(TreeNode) /\ Len(closed) = count
  <2>1. closed \in [1 .. count -> TreeNode]
    BY <1>4, <1>k
  <2>2. QED
    BY <1>1, <2>1, FunctionIsSeq
<1>7. /\ Len(q.tree \o closed) = size + count
      /\ \A i \in 1 .. size : (q.tree \o closed)[i] = q.tree[i]
      /\ \A i \in 1 .. count : (q.tree \o closed)[size + i] = closed[i]
  <2>1. /\ Len(q.tree \o closed) = size + count
        /\ \A i \in 1 .. size + count :
             (q.tree \o closed)[i] = IF i <= size THEN q.tree[i] ELSE closed[i - size]
    BY <1>1, <1>6, <1>d, ConcatProperties
  <2>2. ASSUME NEW i \in 1 .. count PROVE (q.tree \o closed)[size + i] = closed[i]
    <3> DEFINE j == size + i
    <3>1. j \in 1 .. size + count /\ ~(j <= size) /\ j - size = i
      BY <1>1, <1>n
    <3> HIDE DEF j
    <3>2. (q.tree \o closed)[j] = closed[i]
      BY <2>1, <3>1
    <3>3. QED
      BY <3>2 DEF j
  <2>3. ASSUME NEW i \in 1 .. size PROVE (q.tree \o closed)[i] = q.tree[i]
    <3>1. i \in 1 .. size + count /\ i <= size
      BY <1>1, <1>n
    <3>2. QED
      BY <2>1, <3>1
  <2>4. QED
    BY <2>1, <2>2, <2>3
<1>8. /\ Len(SubSeq(q.stack, 1, keep)) = keep
      /\ \A i \in 1 .. keep : SubSeq(q.stack, 1, keep)[i] = q.stack[i]
  BY <1>1, <1>2, <1>n, <1>d, SubSeqProperties
<1>9. r.tree = q.tree \o closed /\ r.stack = SubSeq(q.stack, 1, keep)
  BY <1>1, <1>3 DEF Locals
<1>10. /\ Len(r.tree) = size + count
       /\ \A i \in 1 .. size : r.tree[i] = q.tree[i]
       /\ \A i \in 1 .. count : r.tree[size + i] = closed[i]
       /\ Len(r.stack) = keep
       /\ \A i \in 1 .. keep : r.stack[i] = q.stack[i]
  BY <1>7, <1>8, <1>9
<1>11. \A i \in 1 .. size + count : i \in 1 .. size \/ (i - size \in 1 .. count /\ i = size + (i - size))
  BY <1>1
<1>12. /\ \A i \in 1 .. size : i \in 1 .. size + count
       /\ \A i \in 1 .. count : size + i \in 1 .. size + count
       /\ \A i \in 1 .. keep : i \in 1 .. depth
       /\ \A i \in 1 .. depth : i \in 1 .. keep \/ i \in keep + 1 .. depth
  BY <1>1, <1>n
<1>13. Froms(q, n) /\ Opened(q, t) /\ Placed(q, t)
  BY DEF Nested
<1>14. \A i \in 1 .. depth : q.stack[i].kind \in BlockKinds /\ q.stack[i].start \in q.stack[i].own
  BY <1>2, <1>13, <1>d DEF Frame, Opened
<1>15. Froms(r, n)
  <2>1. ASSUME NEW i \in 1 .. size PROVE r.tree[i].from \in r.tree[i].lines /\ r.tree[i].to <= n
    BY <1>10, <1>13, <1>d DEF Froms
  <2>2. ASSUME NEW i \in 1 .. count
        PROVE  r.tree[size + i].from \in r.tree[size + i].lines /\ r.tree[size + i].to <= n
    <3>1. r.tree[size + i] = closed[i] /\ n <= n
      BY <1>10
    <3>2. QED
      BY <1>4, <1>14, <3>1
  <2>3. QED
    BY <1>10, <1>11, <2>1, <2>2 DEF Froms
<1>16. Opened(r, t)
  BY <1>10, <1>12, <1>13, <1>d DEF Opened
<1>17. ASSUME NEW node, InOpen(q, t, node), node.to <= n PROVE InOpen(r, t, node) \/ InClosed(r, t, node)
  <2>1. PICK j \in 1 .. depth : Encloses(t, q.stack[j].kind, q.stack[j].start, q.stack[j].own, node)
    BY <1>17, <1>d DEF InOpen
  <2>2. CASE j \in 1 .. keep
    BY <1>10, <2>1, <2>2 DEF InOpen
  <2>3. CASE j \in keep + 1 .. depth
    <3> DEFINE b == size + at(j)
    <3>1. at(j) \in 1 .. count /\ at(at(j)) = j
      BY <1>5, <2>3
    <3>2. b \in 1 .. Len(r.tree) /\ r.tree[b] = closed[at(j)]
      BY <1>10, <1>12, <3>1
    <3>3. /\ r.tree[b].kind = q.stack[j].kind /\ r.tree[b].from = q.stack[j].start
          /\ r.tree[b].lines = q.stack[j].own /\ r.tree[b].to = n
      BY <1>4, <3>1, <3>2
    <3> HIDE DEF b
    <3>4. QED
      BY <1>14, <1>17, <2>1, <3>2, <3>3 DEF InClosed
  <2>4. QED
    BY <1>12, <2>2, <2>3
<1>18. ASSUME NEW k \in 1 .. count, closed[k].parent # 0 PROVE InOpen(q, t, closed[k])
  <2> DEFINE i == at(k)
             g == i - 1
  <2>1. i \in 1 .. depth /\ closed[k] = Node(q, g, q.stack[i].kind, q.stack[i].own, q.stack[i].start, n)
    BY <1>4
  <2>2. g # 0
    BY <1>18, <2>1 DEF Node
  <2>i. i \in Int /\ depth \in Nat
    BY <1>1, <2>1
  <2> HIDE DEF i
  <2>3. g \in 1 .. depth /\ g < i
    BY <2>1, <2>2, <2>i
  <2> HIDE DEF g
  <2>4. \A m \in q.stack[g].own : m < q.stack[i].start
    BY <1>13, <1>d, <2>1, <2>3 DEF Opened
  <2>5. Encloses(t, q.stack[g].kind, q.stack[g].start, q.stack[g].own, closed[k])
    BY <1>13, <1>d, <2>1, <2>3, <2>4, NodeEnclosed
  <2>6. QED
    BY <1>d, <2>3, <2>5 DEF InOpen
<1>19. Placed(r, t)
  <2>1. ASSUME NEW i \in 1 .. size, q.tree[i].parent # 0 PROVE InOpen(r, t, q.tree[i]) \/ InClosed(r, t, q.tree[i])
    <3>1. InOpen(q, t, q.tree[i]) \/ InClosed(q, t, q.tree[i])
      BY <1>13, <1>d, <2>1 DEF Placed
    <3>2. q.tree[i].to <= n
      BY <1>13, <1>d DEF Froms
    <3>3. InClosed(q, t, q.tree[i]) => InClosed(r, t, q.tree[i])
      BY <1>10, <1>12, <1>d DEF InClosed
    <3>4. QED
      BY <1>17, <3>1, <3>2, <3>3
  <2>2. ASSUME NEW k \in 1 .. count, closed[k].parent # 0 PROVE InOpen(r, t, closed[k]) \/ InClosed(r, t, closed[k])
    <3>1. closed[k].to <= n
      BY <1>4
    <3>2. QED
      BY <1>17, <1>18, <2>2, <3>1
  <2>3. QED
    BY <1>10, <1>11, <2>1, <2>2 DEF Placed
<1>20. QED
  BY <1>15, <1>16, <1>19 DEF Nested, r

(* The node that is read last starts no later than line n. *)
LEMMA FromsAreRead ==
  ASSUME NEW q, NEW L, NEW n \in Nat, Sound(q, L), L \subseteq 1 .. n, Froms(q, n)
  PROVE  \A i \in 1 .. Len(q.tree) : q.tree[i].from \in L /\ q.tree[i].from <= n
<1>1. NodeSet(q) \subseteq L
  BY DEF Sound, Splits, Places, PlaceNames
<1>2. \A i \in 1 .. Len(q.tree) : q.tree[i].from \in L
  BY <1>1 DEF NodeSet, Froms
<1>3. \A l \in L : l <= n
  OBVIOUS
<1>4. QED
  BY <1>2, <1>3

(* Blocks that are open may get the lines of Y, which no node starts after. *)
LEMMA StackNested ==
  ASSUME NEW q, NEW r, NEW t, NEW n, NEW Y \in SUBSET Nat, q \in Locals, Nested(q, t, n),
         r.tree = q.tree, Opened(r, t), Len(q.stack) <= Len(r.stack), Len(r.stack) \in Nat,
         \A i \in 1 .. Len(q.tree), y \in Y : q.tree[i].from <= y,
         \A i \in 1 .. Len(q.stack) :
           /\ r.stack[i].kind = q.stack[i].kind /\ r.stack[i].start = q.stack[i].start
           /\ q.stack[i].own \subseteq r.stack[i].own /\ r.stack[i].own \subseteq q.stack[i].own \cup Y
  PROVE  Nested(r, t, n)
<1>1. Froms(r, n)
  BY DEF Nested, Froms
<1>2. Len(q.stack) \in Nat /\ q.tree \in Seq(TreeNode) /\ q.stack \in Seq(Frame)
  BY LenProperties DEF Locals
<1>3. \A i \in 1 .. Len(q.stack) : i \in 1 .. Len(r.stack)
  BY <1>2
<1>4. ASSUME NEW i \in 1 .. Len(q.tree), InOpen(q, t, q.tree[i]) PROVE InOpen(r, t, q.tree[i])
  <2> DEFINE node == q.tree[i]
  <2>1. PICK j \in 1 .. Len(q.stack) : Encloses(t, q.stack[j].kind, q.stack[j].start, q.stack[j].own, node)
    BY <1>4 DEF InOpen
  <2>2. \A y \in Y : node.from <= y
    OBVIOUS
  <2>3. node.from \in Int
    <3>1. node \in TreeNode
      BY <1>2, ElementOfSeq
    <3>2. QED
      BY <3>1 DEF TreeNode
  <2> HIDE DEF node
  <2>4. Before(r.stack[j].own, node.from) = Before(q.stack[j].own, node.from)
    <3>1. \A y \in Y : y \in Int /\ ~(y < node.from)
      BY <2>2, <2>3
    <3>2. QED
      BY <2>1, <3>1 DEF Before
  <2>5. Encloses(t, r.stack[j].kind, r.stack[j].start, r.stack[j].own, node)
    BY <2>1, <2>4 DEF Encloses
  <2>6. QED
    BY <1>3, <2>1, <2>5 DEF InOpen, node
<1>5. ASSUME NEW i \in 1 .. Len(q.tree), InClosed(q, t, q.tree[i]) PROVE InClosed(r, t, q.tree[i])
  BY <1>5 DEF InClosed
<1>6. Placed(r, t)
  <2>1. Placed(q, t)
    BY DEF Nested
  <2>2. QED
    BY <1>4, <1>5, <2>1 DEF Placed
<1>7. QED
  BY <1>1, <1>6 DEF Nested

(* Neither an ELSEIF nor an ELSE: the clauses that are read stay as they were. *)
LEMMA OtherIsRead ==
  ASSUME NEW t, NEW f, NEW g, NEW Y, FrameRead(t, f), g.own = f.own \cup Y,
         \A y \in Y : t[y] \notin {"ELSEIF", "ELSE"},
         g.elseifs = f.elseifs, g.in_else = f.in_else, g.in_elseif = f.in_elseif
  PROVE  FrameRead(t, g)
<1>1. ClauseLines(t, g.own) = ClauseLines(t, f.own)
  BY DEF ClauseLines
<1>2. QED
  BY <1>1 DEF FrameRead

(* An ELSEIF is one more, and the last clause. *)
LEMMA ElseifIsRead ==
  ASSUME NEW t, NEW f, NEW g, NEW n \in Nat, FrameRead(t, f), g.own = f.own \cup {n},
         f.own \in SUBSET Nat, IsFiniteSet(f.own), \A m \in f.own : m < n, t[n] = "ELSEIF",
         g.elseifs = f.elseifs + 1, g.in_else = FALSE, g.in_elseif = TRUE
  PROVE  FrameRead(t, g)
<1> DEFINE C == ClauseLines(t, f.own)
           D == ClauseLines(t, g.own)
           E == {l \in C : t[l] = "ELSEIF"}
           F == {l \in D : t[l] = "ELSEIF"}
<1>1. D = C \cup {n} /\ C \subseteq f.own
  BY DEF ClauseLines
<1>0. n \notin f.own
  OBVIOUS
<1>2. F = E \cup {n} /\ n \notin E /\ E \in SUBSET f.own
  <2> HIDE DEF C, D
  <2>1. QED
    BY <1>0, <1>1
<1>3. IsFiniteSet(E)
  BY <1>2, FS_Subset
<1>4. Cardinality(F) = Cardinality(E) + 1
  BY <1>2, <1>3, FS_AddElement
<1>5. f.elseifs = Cardinality(E)
  BY DEF FrameRead
<1>6. n \in D /\ \A m \in D : m <= n
  <2> HIDE DEF C, D
  <2>1. QED
    BY <1>1
<1>7. g.elseifs = Cardinality(F)
  BY <1>4, <1>5
<1>8. \E last \in D :
        /\ \A m \in D : m <= last
        /\ g.in_else <=> t[last] = "ELSE"
        /\ g.in_elseif <=> t[last] = "ELSEIF"
  <2> HIDE DEF D
  <2>1. QED
    BY <1>6
<1>9. QED
  BY <1>7, <1>8 DEF FrameRead

(* An ELSE is the last clause. *)
LEMMA ElseIsRead ==
  ASSUME NEW t, NEW f, NEW g, NEW n \in Nat, FrameRead(t, f), g.own = f.own \cup {n},
         f.own \in SUBSET Nat, \A m \in f.own : m < n, t[n] = "ELSE",
         g.elseifs = f.elseifs, g.in_else = TRUE, g.in_elseif = FALSE
  PROVE  FrameRead(t, g)
<1> DEFINE C == ClauseLines(t, f.own)
           D == ClauseLines(t, g.own)
           E == {l \in C : t[l] = "ELSEIF"}
           F == {l \in D : t[l] = "ELSEIF"}
<1>1. D = C \cup {n} /\ C \subseteq f.own
  BY DEF ClauseLines
<1>2. F = E
  BY <1>1
<1>5. f.elseifs = Cardinality(E)
  BY DEF FrameRead
<1>6. n \in D /\ \A m \in D : m <= n
  <2> HIDE DEF C, D
  <2>1. QED
    BY <1>1
<1>7. g.elseifs = Cardinality(F)
  BY <1>2, <1>5
<1>8. \E last \in D :
        /\ \A m \in D : m <= last
        /\ g.in_else <=> t[last] = "ELSE"
        /\ g.in_elseif <=> t[last] = "ELSEIF"
  <2> HIDE DEF D
  <2>1. QED
    BY <1>6
<1>9. QED
  BY <1>7, <1>8 DEF FrameRead

(* The innermost block is changed, and may get lines that no node starts after. *)
Reframes(q, r, t, d, f, Y) ==
  /\ q \in Locals /\ d = Len(q.stack) /\ d \in 1 .. Len(q.stack) /\ f \in Frame /\ Y \in SUBSET Nat
  /\ f.kind = q.stack[d].kind /\ f.start = q.stack[d].start /\ f.own = q.stack[d].own \cup Y
  /\ f.kind = "if" => FrameRead(t, f)
  /\ \A i \in 1 .. Len(q.tree), y \in Y : q.tree[i].from <= y
  /\ r.tree = q.tree /\ r.stack = [q.stack EXCEPT ![d] = f]

LEMMA TopNested ==
  ASSUME NEW q, NEW r, NEW t, NEW n, NEW d, NEW f, NEW Y, Nested(q, t, n), Reframes(q, r, t, d, f, Y)
  PROVE  Nested(r, t, n)
<1>0. /\ q \in Locals /\ d = Len(q.stack) /\ d \in 1 .. Len(q.stack) /\ f \in Frame /\ Y \in SUBSET Nat
      /\ f.kind = q.stack[d].kind /\ f.start = q.stack[d].start /\ f.own = q.stack[d].own \cup Y
      /\ f.kind = "if" => FrameRead(t, f)
      /\ \A i \in 1 .. Len(q.tree), y \in Y : q.tree[i].from <= y
      /\ r.tree = q.tree /\ r.stack = [q.stack EXCEPT ![d] = f]
  BY DEF Reframes
<1>1. q.stack \in Seq(Frame) /\ Len(q.stack) \in Nat
  BY <1>0, LenProperties DEF Locals
<1>2. /\ Len(r.stack) = Len(q.stack)
      /\ \A j \in 1 .. Len(q.stack) : r.stack[j] = IF j = d THEN f ELSE q.stack[j]
  BY <1>0, <1>1, ExceptSeq
<1>3. Opened(q, t)
  BY DEF Nested
<1>4. Opened(r, t)
  <2> DEFINE k == Len(q.stack)
  <2>1. \A j \in 1 .. k : r.stack[j].start = q.stack[j].start /\ r.stack[j].kind = q.stack[j].kind
    BY <1>0, <1>2
  <2>2. ASSUME NEW i \in 1 .. k PROVE r.stack[i].start \in r.stack[i].own
    BY <1>0, <1>2, <1>3 DEF Opened
  <2>3. ASSUME NEW i \in 1 .. k, NEW j \in 1 .. k, i < j, NEW m \in r.stack[i].own PROVE m < r.stack[j].start
    <3>1. i # d
      BY <1>0, <1>1, <2>3
    <3>2. m \in q.stack[i].own
      BY <1>2, <2>3, <3>1
    <3>3. QED
      BY <1>3, <2>1, <2>3, <3>2 DEF Opened
  <2>4. ASSUME NEW i \in 1 .. k, r.stack[i].kind = "if" PROVE FrameRead(t, r.stack[i])
    BY <1>0, <1>2, <1>3, <2>4 DEF Opened
  <2>5. Len(r.stack) = k
    BY <1>0, <1>2
  <2> HIDE DEF k
  <2>6. QED
    BY <2>2, <2>3, <2>4, <2>5 DEF Opened
<1>5. \A i \in 1 .. Len(q.stack) :
        /\ r.stack[i].kind = q.stack[i].kind /\ r.stack[i].start = q.stack[i].start
        /\ q.stack[i].own \subseteq r.stack[i].own /\ r.stack[i].own \subseteq q.stack[i].own \cup Y
  BY <1>0, <1>2
<1>6. Len(q.stack) <= Len(r.stack) /\ Len(r.stack) \in Nat
  BY <1>1, <1>2
<1>7. QED
  BY <1>0, <1>4, <1>5, <1>6, StackNested

(* A block is opened by line n. *)
LEMMA PushNested ==
  ASSUME NEW q, NEW L, NEW t, NEW n \in Nat, NEW kind \in BlockKinds, Sound(q, L), L \subseteq 1 .. n, n \notin L,
         Nested(q, t, n), t[n] \notin {"ELSEIF", "ELSE"}
  PROVE  Nested(Push(q, kind, n), t, n)
<1> DEFINE f == [kind |-> kind, start |-> n, own |-> {n}, elseifs |-> 0,
                 in_else |-> FALSE, in_elseif |-> FALSE, collecting_doc |-> kind = "script"]
           d == Len(q.stack)
           r == Push(q, kind, n)
<1>1. q \in Locals /\ q.stack \in Seq(Frame) /\ d \in Nat
  BY LenProperties DEF Sound, Locals
<1>2. f \in Frame /\ f.start = n /\ f.own = {n} /\ f.elseifs = 0 /\ f.in_else = FALSE /\ f.in_elseif = FALSE
  BY DEF Frame
<1>3. r = [q EXCEPT !.stack = Append(q.stack, f)]
  BY DEF Push
<1>d. d = Len(q.stack)
  OBVIOUS
<1> HIDE DEF f, r, d
<1>4. /\ Len(Append(q.stack, f)) = d + 1 /\ Append(q.stack, f)[d + 1] = f
      /\ \A i \in 1 .. d : Append(q.stack, f)[i] = q.stack[i]
  BY <1>1, <1>2, <1>d, AppendProperties
<1>5. /\ r.tree = q.tree /\ Len(r.stack) = d + 1 /\ r.stack[d + 1] = f
      /\ \A i \in 1 .. d : r.stack[i] = q.stack[i]
  BY <1>1, <1>3, <1>4 DEF Locals
<1>6. FrameRead(t, f)
  <2>1. ClauseLines(t, f.own) = {}
    BY <1>2 DEF ClauseLines
  <2>2. Cardinality({}) = 0
    BY FS_EmptySet
  <2>3. {l \in ClauseLines(t, f.own) : t[l] = "ELSEIF"} = {}
    BY <2>1
  <2>4. QED
    BY <1>2, <2>1, <2>2, <2>3 DEF FrameRead
<1>7. \A i \in 1 .. d : \A m \in q.stack[i].own : m < n
  <2>1. \A i \in 1 .. d : q.stack[i].own \subseteq L
    BY <1>d DEF Sound, Splits, Places, PlaceNames, FrameSet
  <2>2. \A m \in L : m < n
    BY DEF Sound
  <2>3. QED
    BY <2>1, <2>2
<1>8. Opened(q, t)
  BY DEF Nested
<1>9. \A i \in 1 .. d + 1 : i \in 1 .. d \/ i = d + 1
  BY <1>1
<1>10. Opened(r, t)
  <2>1. ASSUME NEW i \in 1 .. d PROVE r.stack[i].start \in r.stack[i].own /\ (r.stack[i].kind = "if" => FrameRead(t, r.stack[i]))
    BY <1>5, <1>8, <1>d DEF Opened
  <2>2. ASSUME NEW i \in 1 .. d + 1, NEW j \in 1 .. d + 1, i < j, NEW m \in r.stack[i].own PROVE m < r.stack[j].start
    <3>1. i \in 1 .. d
      BY <1>1, <2>2
    <3>2. m \in q.stack[i].own
      BY <1>5, <2>2, <3>1
    <3>3. CASE j \in 1 .. d
      BY <1>5, <1>8, <1>d, <2>2, <3>1, <3>2, <3>3 DEF Opened
    <3>4. CASE j = d + 1
      BY <1>2, <1>5, <1>7, <3>1, <3>2, <3>4
    <3>5. QED
      BY <1>9, <3>3, <3>4
  <2>3. r.stack[d + 1].start \in r.stack[d + 1].own /\ (r.stack[d + 1].kind = "if" => FrameRead(t, r.stack[d + 1]))
    BY <1>2, <1>5, <1>6
  <2>4. QED
    BY <1>5, <1>9, <2>1, <2>2, <2>3 DEF Opened
<1>11. Len(q.stack) <= Len(r.stack) /\ Len(r.stack) \in Nat
  BY <1>1, <1>5, <1>d
<1>12. QED
  <2>1. \A i \in 1 .. Len(q.tree), y \in {} : q.tree[i].from <= y
    OBVIOUS
  <2>2. \A i \in 1 .. Len(q.stack) :
          /\ r.stack[i].kind = q.stack[i].kind /\ r.stack[i].start = q.stack[i].start
          /\ q.stack[i].own \subseteq r.stack[i].own /\ r.stack[i].own \subseteq q.stack[i].own \cup {}
    BY <1>5, <1>d
  <2>3. {} \in SUBSET Nat
    OBVIOUS
  <2>4. Nested(r, t, n)
    BY <1>1, <1>5, <1>10, <1>11, <2>1, <2>2, <2>3, StackNested
  <2>5. QED
    BY <2>4 DEF r

(* Nodes and blocks are read as they should be, and what is accumulated     *)
(* comes after the lines of the innermost block.                           *)
ReadTo(q, L, t, n) == Sound(q, L) /\ L \subseteq 1 .. n /\ n \in Nat /\ Nested(q, t, n) /\ Pending(q)

(* What is accumulated stays as it is. *)
SameFields(q, r) ==
  /\ r.sql = q.sql /\ r.sql_start = q.sql_start /\ r.comments = q.comments /\ r.block = q.block
  /\ r.in_comment = q.in_comment /\ r.in_statement = q.in_statement

(* Nothing is being accumulated. *)
Idle(q) == q.sql = {} /\ q.comments = {} /\ q.block = {} /\ ~q.in_comment

(* Only the tree and the stack matter to Nested, only what is accumulated to Pending. *)
LEMMA SameNested ==
  ASSUME NEW q, NEW r, NEW t, NEW n, Nested(q, t, n), r.tree = q.tree, r.stack = q.stack
  PROVE  Nested(r, t, n)
<1>1. Froms(r, n)
  BY DEF Nested, Froms
<1>2. Opened(r, t)
  BY DEF Nested, Opened
<1>3. \A node : (InOpen(r, t, node) <=> InOpen(q, t, node)) /\ (InClosed(r, t, node) <=> InClosed(q, t, node))
  BY DEF InOpen, InClosed
<1>4. Placed(r, t)
  BY <1>3 DEF Nested, Placed
<1>5. QED
  BY <1>1, <1>2, <1>4 DEF Nested

LEMMA SamePending ==
  ASSUME NEW q, NEW r, Pending(q), SameFields(q, r), Len(r.stack) = Len(q.stack), q.stack = <<>> => r.stack = <<>>,
         q.stack # <<>> => r.stack[Len(q.stack)].own = q.stack[Len(q.stack)].own
  PROVE  Pending(r)
<1>1. \A S : Behind(q, S) => Behind(r, S)
  BY DEF Behind
<1>2. QED
  BY <1>1 DEF Pending, SameFields

LEMMA IdlePending ==
  ASSUME NEW q, Idle(q)
  PROVE  Pending(q)
BY DEF Idle, Pending, Behind

LEMMA SameIdle ==
  ASSUME NEW q, NEW r, Idle(q), SameFields(q, r)
  PROVE  Idle(r)
BY DEF Idle, SameFields

LEMMA EmitSame ==
  ASSUME NEW q \in Locals, NEW kind, NEW lines, NEW from, NEW to
  PROVE  SameFields(q, Emit(q, kind, lines, from, to)) /\ Emit(q, kind, lines, from, to).stack = q.stack
BY DEF Emit, Locals, SameFields

LEMMA ErrorSame ==
  ASSUME NEW q \in Locals
  PROVE  /\ SameFields(q, _structural_error(q))
         /\ _structural_error(q).stack = q.stack /\ _structural_error(q).tree = q.tree
         /\ _structural_error(q) \in Locals
BY DEF _structural_error, Locals, SameFields

LEMMA CloseBlocksSame ==
  ASSUME NEW q \in Locals, NEW count, NEW n
  PROVE  SameFields(q, CloseBlocks(q, count, n))
BY DEF CloseBlocks, Locals, SameFields

(* The parts of the machine keep blocks nested, each as its Sound lemma has it. *)
LEMMA FlushSqlNested ==
  ASSUME NEW q, NEW L, NEW t, NEW n, ReadTo(q, L, t, n)
  PROVE  /\ Nested(_flush_sql(q, n), t, n) /\ _flush_sql(q, n).stack = q.stack
         /\ _flush_sql(q, n).sql = {} /\ _flush_sql(q, n).comments = q.comments /\ _flush_sql(q, n).block = q.block
         /\ _flush_sql(q, n).in_comment = q.in_comment
<1>1. CASE q.sql = {}
  BY <1>1 DEF _flush_sql, ReadTo
<1>2. CASE q.sql # {}
  <2> DEFINE e == Emit(q, "sql", q.sql, q.sql_start, n)
             r == _flush_sql(q, n)
  <2>1. q \in Locals /\ q.sql \in SUBSET Nat /\ Sound(q, L) /\ n \in Int /\ Nested(q, t, n) /\ n <= n
    BY DEF ReadTo, Sound, Locals
  <2>2. q.sql_start \in q.sql /\ Behind(q, q.sql)
    BY <1>2 DEF ReadTo, Pending
  <2>3. Behind(q, {q.sql_start}) /\ "sql" \in NodeKinds
    BY <2>2 DEF Behind, NodeKinds
  <2>4. Nested(e, t, n)
    BY <2>1, <2>2, <2>3, EmitNested
  <2>5. e.stack = q.stack /\ SameFields(q, e)
    BY <2>1, EmitSame
  <2>6. r = [e EXCEPT !.sql = {}]
    BY <1>2 DEF _flush_sql
  <2>7. r.tree = e.tree /\ r.stack = e.stack /\ r.sql = {} /\ r.comments = e.comments /\ r.block = e.block
        /\ r.in_comment = e.in_comment
    BY <2>1, <2>6 DEF Emit, Locals
  <2> HIDE DEF e, r
  <2>8. Nested(r, t, n)
    BY <2>4, <2>7, SameNested
  <2>9. QED
    BY <2>5, <2>7, <2>8 DEF SameFields, r
<1>3. QED
  BY <1>1, <1>2

(* A comment of several lines ends no later than the line read. *)
LEMMA CommentEnds ==
  ASSUME NEW S, NEW n \in Nat, S \subseteq 1 .. n, S # {}
  PROVE  FirstLine(S) \in S /\ FirstLine(S) + Cardinality(S) - 1 \in Int /\ FirstLine(S) + Cardinality(S) - 1 <= n
<1> DEFINE f == FirstLine(S)
<1>1. S \in SUBSET Nat
  OBVIOUS
<1>2. f \in S /\ \A m \in S : f <= m
  BY <1>1, FirstLineIsFirst
<1> HIDE DEF f
<1>3. f \in Nat /\ f <= n /\ S \in SUBSET (f .. n)
  BY <1>2
<1>4. IsFiniteSet(f .. n) /\ Cardinality(f .. n) = n - f + 1
  BY <1>3, FS_Interval
<1>5. Cardinality(S) \in Nat /\ Cardinality(S) <= Cardinality(f .. n)
  BY <1>3, <1>4, FS_Subset, FS_CardinalityType
<1> DEFINE c == Cardinality(S)
<1>6. c \in Nat /\ c <= n - f + 1
  BY <1>4, <1>5
<1> HIDE DEF c
<1>7. f + c - 1 \in Int /\ f + c - 1 <= n
  BY <1>3, <1>6
<1>8. QED
  BY <1>2, <1>7 DEF c, f

LEMMA FlushCommentsNested ==
  ASSUME NEW q, NEW L, NEW t, NEW n, ReadTo(q, L, t, n)
  PROVE  /\ ReadTo(_flush_line_comments(q), L, t, n) /\ _flush_line_comments(q).stack = q.stack
         /\ _flush_line_comments(q).sql = q.sql /\ _flush_line_comments(q).comments = {}
         /\ _flush_line_comments(q).block = q.block
         /\ _flush_line_comments(q).in_comment = q.in_comment
<1> DEFINE r == _flush_line_comments(q)
<1>0. Sound(r, L)
  BY FlushCommentsSound DEF ReadTo
<1>1. CASE q.comments = {}
  BY <1>1 DEF _flush_line_comments
<1>2. CASE q.comments # {}
  <2> DEFINE from == FirstLine(q.comments)
             to == from + Cardinality(q.comments) - 1
             e == Emit(q, "comment", q.comments, from, to)
  <2>1. q \in Locals /\ q.comments \in SUBSET Nat /\ Sound(q, L) /\ n \in Nat /\ L \subseteq 1 .. n /\ Nested(q, t, n)
    BY DEF ReadTo, Sound, Locals
  <2>2. q.comments \subseteq L
    BY <2>1 DEF Sound, Splits, Places, PlaceNames
  <2>3. from \in q.comments /\ to \in Int /\ to <= n
    <3>1. q.comments \subseteq 1 .. n
      BY <2>1, <2>2
    <3>2. QED
      BY <1>2, <2>1, <3>1, CommentEnds
  <2>4. Behind(q, {from}) /\ "comment" \in NodeKinds
    <3>1. Behind(q, q.comments)
      BY DEF ReadTo, Pending
    <3>2. QED
      BY <2>3, <3>1 DEF Behind, NodeKinds
  <2>5. r = [e EXCEPT !.comments = {}]
    BY <1>2 DEF _flush_line_comments
  <2> HIDE DEF from, to
  <2>6. Nested(e, t, n)
    BY <2>1, <2>3, <2>4, EmitNested
  <2>7. e.stack = q.stack /\ SameFields(q, e)
    BY <2>1, EmitSame
  <2>8. /\ r.tree = e.tree /\ r.stack = e.stack /\ r.sql = e.sql /\ r.comments = {} /\ r.block = e.block
        /\ r.in_comment = e.in_comment /\ r.in_statement = e.in_statement /\ r.sql_start = e.sql_start
    BY <2>1, <2>5 DEF Emit, Locals
  <2> HIDE DEF e, r
  <2>9. Nested(r, t, n)
    BY <2>6, <2>8, SameNested
  <2>10. Pending(r)
    <3>1. \A S : Behind(r, S) <=> Behind(q, S)
      BY <2>7, <2>8 DEF Behind
    <3>2. Behind(r, {})
      BY DEF Behind
    <3>3. QED
      BY <2>7, <2>8, <3>1, <3>2 DEF ReadTo, Pending, SameFields
  <2>11. QED
    BY <1>0, <2>1, <2>7, <2>8, <2>9, <2>10 DEF ReadTo, SameFields, r
<1>3. QED
  BY <1>1, <1>2

LEMMA StopDocNested ==
  ASSUME NEW q, NEW L, NEW t, NEW n, ReadTo(q, L, t, n)
  PROVE  ReadTo(_stop_doc_collection(q), L, t, n)
<1>1. CASE ~CollectsDoc(q)
  BY <1>1 DEF _stop_doc_collection
<1>2. CASE CollectsDoc(q)
  <2> DEFINE d == Len(q.stack)
             f == [q.stack[d] EXCEPT !.collecting_doc = FALSE]
             r == _stop_doc_collection(q)
             Y == {}
  <2>0. Sound(q, L) /\ Nested(q, t, n) /\ Pending(q) /\ n \in Nat /\ L \subseteq 1 .. n
    BY DEF ReadTo
  <2>1. q \in Locals /\ q.stack \in Seq(Frame) /\ d \in 1 .. Len(q.stack) /\ q.stack # <<>>
    BY <1>2, <2>0, EmptySeq DEF Sound, Locals, CollectsDoc
  <2>2. q.stack[d] \in Frame
    BY <2>1, ElementOfSeq
  <2>3. /\ f \in Frame /\ f.own = q.stack[d].own \cup Y /\ f.kind = q.stack[d].kind /\ f.start = q.stack[d].start
        /\ f.elseifs = q.stack[d].elseifs /\ f.in_else = q.stack[d].in_else /\ f.in_elseif = q.stack[d].in_elseif
    BY <2>2 DEF Frame
  <2>4. r = [q EXCEPT !.stack = [q.stack EXCEPT ![d] = f]]
    BY <1>2, <2>1 DEF _stop_doc_collection
  <2>5. r.tree = q.tree /\ r.stack = [q.stack EXCEPT ![d] = f] /\ SameFields(q, r)
    BY <2>1, <2>4 DEF Locals, SameFields
  <2>6. Sound(r, L)
    BY <2>0, StopDocSound
  <2>y. Y \in SUBSET Nat /\ \A y \in Y : FALSE
    OBVIOUS
  <2> HIDE DEF f, r, Y
  <2>7. f.kind = "if" => FrameRead(t, f)
    <3>1. q.stack[d].kind = "if" => FrameRead(t, q.stack[d])
      BY <2>0, <2>1 DEF Nested, Opened
    <3>2. \A y \in Y : t[y] \notin {"ELSEIF", "ELSE"}
      BY <2>y
    <3>3. QED
      BY <2>3, <3>1, <3>2, OtherIsRead
  <2>8. Nested(r, t, n)
    <3>1. \A i \in 1 .. Len(q.tree), y \in Y : q.tree[i].from <= y
      BY <2>y
    <3>2. Reframes(q, r, t, d, f, Y)
      BY <2>1, <2>3, <2>5, <2>7, <2>y, <3>1 DEF Reframes
    <3>3. QED
      BY <2>0, <3>2, TopNested
  <2>9. Pending(r)
    <3>1. Len(r.stack) = Len(q.stack) /\ r.stack[d] = f
      BY <2>1, <2>3, <2>5, ExceptSeq
    <3>2. r.stack[Len(q.stack)].own = q.stack[Len(q.stack)].own
      BY <2>3, <2>y, <3>1
    <3>3. QED
      BY <2>0, <2>1, <2>5, <3>1, <3>2, SamePending
  <2>10. QED
    BY <2>0, <2>6, <2>8, <2>9 DEF ReadTo, r
<1>3. QED
  BY <1>1, <1>2

(* What the keywords do to blocks. *)
LEMMA CloseOpenNested ==
  ASSUME NEW q, NEW L, NEW t, NEW n \in Int, Sound(q, L), Nested(q, t, n), NEW count \in 0 .. Len(q.stack)
  PROVE  Nested(CloseOpen(q, count, n), t, n) /\ SameFields(q, CloseOpen(q, count, n))
<1> DEFINE c == CloseBlocks(q, count, n)
           r == CloseOpen(q, count, n)
<1>1. q \in Locals
  BY DEF Sound
<1>2. Nested(c, t, n) /\ SameFields(q, c)
  BY <1>1, CloseBlocksNested, CloseBlocksSame
<1>3. c \in Locals
  BY CloseBlocksSound DEF Sound
<1>4. r = [c EXCEPT !.errors = @ + count]
  BY DEF CloseOpen
<1> HIDE DEF c, r
<1>5. r.tree = c.tree /\ r.stack = c.stack /\ SameFields(c, r)
  BY <1>3, <1>4 DEF Locals, SameFields
<1>6. Nested(r, t, n)
  BY <1>2, <1>5, SameNested
<1>7. QED
  BY <1>2, <1>5, <1>6 DEF SameFields, r

LEMMA RefusedNested ==
  ASSUME NEW q, NEW L, NEW t, NEW n, Sound(q, L), Nested(q, t, n)
  PROVE  /\ Nested([_structural_error(q) EXCEPT !.refused = @ \cup {n}], t, n)
         /\ SameFields(q, [_structural_error(q) EXCEPT !.refused = @ \cup {n}])
<1> DEFINE e == _structural_error(q)
           r == [e EXCEPT !.refused = @ \cup {n}]
<1>1. e.tree = q.tree /\ e.stack = q.stack /\ SameFields(q, e) /\ e \in Locals
  BY ErrorSame DEF Sound
<1> HIDE DEF e
<1>2. r.tree = q.tree /\ r.stack = q.stack /\ SameFields(q, r)
  BY <1>1 DEF Locals, SameFields
<1> HIDE DEF r
<1>3. Nested(r, t, n)
  BY <1>2, SameNested
<1>4. QED
  BY <1>2, <1>3 DEF r, e

(* Line n is the innermost block's, and no clause of it: the block is closed. *)
LEMMA ClosedByNested ==
  ASSUME NEW q, NEW L, NEW t, NEW n \in Nat, Sound(q, L), L \subseteq 1 .. n, n \notin L, Nested(q, t, n),
         Len(q.stack) \in 1 .. Len(q.stack), t[n] \notin {"ELSEIF", "ELSE"}
  PROVE  /\ Nested(_close_block([q EXCEPT !.stack[Len(q.stack)].own = @ \cup {n}], n), t, n)
         /\ SameFields(q, _close_block([q EXCEPT !.stack[Len(q.stack)].own = @ \cup {n}], n))
<1> DEFINE d == Len(q.stack)
           owned == [q EXCEPT !.stack[d].own = @ \cup {n}]
           f == [q.stack[d] EXCEPT !.own = @ \cup {n}]
           Y == {n}
<1>1. q \in Locals /\ q.stack \in Seq(Frame) /\ d \in 1 .. Len(q.stack) /\ n \in Int
  BY DEF Sound, Locals
<1>2. q.stack[d] \in Frame
  BY <1>1, ElementOfSeq
<1>3. /\ f \in Frame /\ f.own = q.stack[d].own \cup Y /\ f.kind = q.stack[d].kind /\ f.start = q.stack[d].start
      /\ f.elseifs = q.stack[d].elseifs /\ f.in_else = q.stack[d].in_else /\ f.in_elseif = q.stack[d].in_elseif
  BY <1>2 DEF Frame
<1>4. owned = [q EXCEPT !.stack = [q.stack EXCEPT ![d] = f]]
  BY <1>1
<1>y. Y \in SUBSET Nat /\ \A y \in Y : y = n
  OBVIOUS
<1>d. d = Len(q.stack) /\ Y = {n}
  OBVIOUS
<1> HIDE DEF d, f, owned, Y
<1>5. owned.tree = q.tree /\ owned.stack = [q.stack EXCEPT ![d] = f] /\ SameFields(q, owned)
  BY <1>1, <1>4 DEF Locals, SameFields
<1>6. f.kind = "if" => FrameRead(t, f)
  <2>1. q.stack[d].kind = "if" => FrameRead(t, q.stack[d])
    BY <1>1 DEF Nested, Opened
  <2>2. \A y \in Y : t[y] \notin {"ELSEIF", "ELSE"}
    BY <1>y
  <2>3. QED
    BY <1>3, <2>1, <2>2, OtherIsRead
<1>7. Nested(owned, t, n)
  <2>1. Froms(q, n)
    BY DEF Nested
  <2>2. \A i \in 1 .. Len(q.tree) : q.tree[i].from <= n
    BY <2>1, FromsAreRead
  <2>3. \A i \in 1 .. Len(q.tree), y \in Y : q.tree[i].from <= y
    BY <1>y, <2>2
  <2>4. d = Len(q.stack) /\ d \in 1 .. Len(q.stack) /\ Y \in SUBSET Nat
    BY <1>1, <1>d, <1>y
  <2>5. Reframes(q, owned, t, d, f, Y)
    BY <1>1, <1>3, <1>5, <1>6, <2>3, <2>4 DEF Reframes
  <2>6. QED
    BY <2>5, TopNested
<1>8. Sound(owned, L \cup {n}) /\ Len(owned.stack) = Len(q.stack)
  <2>1. Owns(q, owned, d, f, n)
    BY <1>1, <1>3, <1>4, <1>d DEF Owns
  <2>2. Sound(owned, L \cup {n})
    BY <2>1, OwnSound
  <2>3. Len(owned.stack) = Len(q.stack)
    BY <1>1, <1>3, <1>5, ExceptSeq
  <2>4. QED
    BY <2>2, <2>3
<1>9. 1 \in 0 .. Len(owned.stack) /\ owned \in Locals
  BY <1>1, <1>8, <1>d DEF Sound
<1>10. Nested(CloseBlocks(owned, 1, n), t, n) /\ SameFields(owned, CloseBlocks(owned, 1, n))
  BY <1>1, <1>7, <1>8, <1>9, CloseBlocksNested, CloseBlocksSame
<1>11. _close_block(owned, n) = CloseBlocks(owned, 1, n)
  BY DEF _close_block
<1>12. Nested(_close_block(owned, n), t, n) /\ SameFields(q, _close_block(owned, n))
  BY <1>5, <1>10, <1>11 DEF SameFields
<1>13. QED
  BY <1>12 DEF owned, d

LEMMA CloseKeywordNested ==
  ASSUME NEW q, NEW L, NEW t, NEW n \in Nat, Sound(q, L), L \subseteq 1 .. n, n \notin L, Nested(q, t, n), NEW line,
         t[n] \notin {"ELSEIF", "ELSE"}
  PROVE  Nested(CloseKeyword(q, line, n), t, n) /\ SameFields(q, CloseKeyword(q, line, n))
<1> DEFINE kind == Closes[line]
           closed == CloseOpen(q, OpenInside(q, kind), n)
           named == IF line = "END_SCRIPT_other" THEN _structural_error(closed) ELSE closed
           owned == [named EXCEPT !.stack[Len(named.stack)].own = @ \cup {n}]
<1> HIDE DEF kind
<1>1. CASE ~IsOpen(q, kind)
  <2>1. CloseKeyword(q, line, n) = [_structural_error(q) EXCEPT !.refused = @ \cup {n}]
    BY <1>1 DEF CloseKeyword, kind
  <2>2. QED
    BY <2>1, RefusedNested
<1>2. CASE IsOpen(q, kind)
  <2>1. OpenInside(q, kind) \in 0 .. Len(q.stack) /\ Len(q.stack) - OpenInside(q, kind) >= 1 /\ n \in Int
    <3>1. Len(q.stack) \in Nat /\ q \in Locals
      BY LenProperties DEF Sound, Locals
    <3>2. OpenInside(q, kind) \in 0 .. Len(q.stack) - 1
      BY <1>2, <3>1, OpenInsideIsInside
    <3>3. QED
      BY <3>1, <3>2
  <2>2. Sound(closed, L) /\ Len(closed.stack) >= 1
    BY <2>1, CloseOpenSound
  <2>n. Nested(closed, t, n) /\ SameFields(q, closed)
    BY <2>1, CloseOpenNested
  <2>3. CloseKeyword(q, line, n) = _close_block(owned, n)
    BY <1>2 DEF CloseKeyword, kind
  <2> HIDE DEF closed
  <2>4. Sound(named, L) /\ named.stack = closed.stack /\ named.tree = closed.tree /\ SameFields(closed, named)
    <3>1. closed \in Locals
      BY <2>2 DEF Sound
    <3>2. QED
      BY <2>2, <3>1, ErrorSound, ErrorSame DEF SameFields
  <2> HIDE DEF named
  <2>5. Nested(named, t, n)
    BY <2>4, <2>n, SameNested
  <2>6. Len(named.stack) \in 1 .. Len(named.stack)
    <3>1. named.stack \in Seq(Frame) /\ Len(named.stack) >= 1
      BY <2>2, <2>4 DEF Sound, Locals
    <3>2. Len(named.stack) \in Nat
      BY <3>1, LenProperties
    <3>3. QED
      BY <3>1, <3>2
  <2>7. Nested(_close_block(owned, n), t, n) /\ SameFields(named, _close_block(owned, n))
    BY <2>4, <2>5, <2>6, ClosedByNested
  <2>8. QED
    BY <2>3, <2>4, <2>7, <2>n DEF SameFields
<1>3. QED
  BY <1>1, <1>2

LEMMA ClauseKeywordNested ==
  ASSUME NEW q, NEW L, NEW t, NEW n \in Nat, Sound(q, L), L \subseteq 1 .. n, n \notin L, Nested(q, t, n),
         NEW line \in Clauses, t[n] = line
  PROVE  Nested(ClauseKeyword(q, line, n), t, n) /\ SameFields(q, ClauseKeyword(q, line, n))
<1> DEFINE top == Len(q.stack)
           own == [q EXCEPT !.stack[top].own = @ \cup {n}]
           last == q.stack[top]
           r == ClauseKeyword(q, line, n)
           Y == {n}
<1>1. CASE ~TopIs(q, "if")
  <2>1. r = [_structural_error(q) EXCEPT !.refused = @ \cup {n}]
    BY <1>1 DEF ClauseKeyword
  <2>2. QED
    BY <2>1, RefusedNested
<1>2. CASE TopIs(q, "if")
  <2>1. q \in Locals /\ q.stack \in Seq(Frame) /\ q.stack # <<>> /\ top \in 1 .. Len(q.stack)
    BY <1>2, EmptySeq DEF Sound, Locals, TopIs
  <2>2. last \in Frame /\ last.kind = "if"
    <3>1. last \in Frame
      BY <2>1, ElementOfSeq
    <3>2. QED
      BY <1>2, <3>1 DEF TopIs, Last
  <2>3. FrameRead(t, last)
    BY <2>1, <2>2 DEF Nested, Opened
  <2>4. last.own \in SUBSET Nat /\ IsFiniteSet(last.own) /\ \A m \in last.own : m < n
    <3>1. last.own \in SUBSET L /\ IsFiniteSet(L) /\ L \in SUBSET Nat
      BY <2>1 DEF Sound, Splits, Places, PlaceNames, FrameSet
    <3>2. \A m \in L : m < n
      BY <3>1
    <3> HIDE DEF last
    <3>3. QED
      BY <3>1, <3>2, FS_Subset
  <2>5. \A i \in 1 .. Len(q.tree), y \in Y : q.tree[i].from <= y
    <3>1. Froms(q, n)
      BY DEF Nested
    <3>2. QED
      BY <3>1, FromsAreRead
  <2>6. top = Len(q.stack) /\ Y = {n} /\ Y \in SUBSET Nat
    OBVIOUS
  <2>7. ASSUME NEW f \in Frame, f.kind = last.kind, f.start = last.start, f.own = last.own \cup Y, FrameRead(t, f),
               r.tree = q.tree, r.stack = [q.stack EXCEPT ![top] = f]
        PROVE  Nested(r, t, n)
    <3> HIDE DEF Y, r
    <3>1. Reframes(q, r, t, top, f, Y)
      BY <2>1, <2>5, <2>6, <2>7 DEF Reframes
    <3>2. QED
      BY <3>1, TopNested
  <2> DEFINE owned == [last EXCEPT !.own = @ \cup {n}]
  <2>8. /\ owned \in Frame /\ owned.own = last.own \cup {n} /\ owned.kind = last.kind
        /\ owned.elseifs = last.elseifs /\ owned.start = last.start
        /\ owned.in_else = last.in_else /\ owned.in_elseif = last.in_elseif
    BY <2>2 DEF Frame
  <2>9. own = [q EXCEPT !.stack = [q.stack EXCEPT ![top] = owned]]
    BY <2>1
  <2>10. own \in Locals /\ own.tree = q.tree /\ own.stack = [q.stack EXCEPT ![top] = owned] /\ SameFields(q, own)
    <3> HIDE DEF owned, own
    <3>1. [q.stack EXCEPT ![top] = owned] \in Seq(Frame)
      BY <2>1, <2>8, ExceptSeq
    <3>2. QED
      BY <2>1, <2>9, <3>1 DEF Locals, SameFields
  <2> HIDE DEF own
  <2>11. CASE line = "ELSEIF"
    <3> DEFINE f == [owned EXCEPT !.elseifs = @ + 1, !.in_elseif = TRUE, !.in_else = FALSE]
    <3>1. /\ f \in Frame /\ f.kind = last.kind /\ f.start = last.start /\ f.own = last.own \cup {n}
          /\ f.elseifs = last.elseifs + 1 /\ f.in_else = FALSE /\ f.in_elseif = TRUE
      <4> HIDE DEF owned, last
      <4>1. owned.elseifs + 1 \in Nat
        BY <2>8 DEF Frame
      <4>2. QED
        BY <2>8, <4>1 DEF Frame
    <3>2. r = [own EXCEPT !.stack[top].elseifs = @ + 1, !.stack[top].in_elseif = TRUE, !.stack[top].in_else = FALSE]
      BY <1>2, <2>11 DEF ClauseKeyword, own
    <3>3. r.tree = q.tree /\ r.stack = [q.stack EXCEPT ![top] = f] /\ SameFields(q, r)
      <4> HIDE DEF owned, r, top
      <4>1. r.tree = q.tree /\ SameFields(q, r)
        BY <2>10, <3>2 DEF Locals, SameFields
      <4>2. r.stack = [own.stack EXCEPT ![top].elseifs = @ + 1, ![top].in_elseif = TRUE, ![top].in_else = FALSE]
        BY <2>10, <3>2 DEF Locals
      <4>3. QED
        BY <2>1, <2>10, <4>1, <4>2
    <3> HIDE DEF f, r
    <3>4. FrameRead(t, f)
      BY <2>3, <2>4, <2>11, <3>1, ElseifIsRead
    <3>5. QED
      BY <2>7, <3>1, <3>3, <3>4 DEF r
  <2>12. CASE line = "ELSE"
    <3> DEFINE f == [owned EXCEPT !.in_else = TRUE, !.in_elseif = FALSE]
    <3>1. /\ f \in Frame /\ f.kind = last.kind /\ f.start = last.start /\ f.own = last.own \cup {n}
          /\ f.elseifs = last.elseifs /\ f.in_else = TRUE /\ f.in_elseif = FALSE
      BY <2>2, <2>8 DEF Frame
    <3>2. r = [own EXCEPT !.stack[top].in_else = TRUE, !.stack[top].in_elseif = FALSE]
      BY <1>2, <2>12 DEF ClauseKeyword, own
    <3>3. r.tree = q.tree /\ r.stack = [q.stack EXCEPT ![top] = f] /\ SameFields(q, r)
      <4> HIDE DEF owned, r, top
      <4>1. r.tree = q.tree /\ SameFields(q, r)
        BY <2>10, <3>2 DEF Locals, SameFields
      <4>2. r.stack = [own.stack EXCEPT ![top].in_else = TRUE, ![top].in_elseif = FALSE]
        BY <2>10, <3>2 DEF Locals
      <4>3. QED
        BY <2>1, <2>10, <4>1, <4>2
    <3> HIDE DEF f, r
    <3>4. FrameRead(t, f)
      BY <2>3, <2>4, <2>12, <3>1, ElseIsRead
    <3>5. QED
      BY <2>7, <3>1, <3>3, <3>4 DEF r
  <2>13. CASE line # "ELSEIF" /\ line # "ELSE"
    <3> DEFINE branch == Branch([Last(q.stack) EXCEPT !.in_else = FALSE])
               m == [line |-> n, block |-> Last(q.stack).start, clause |-> branch]
    <3>2. r = [own EXCEPT !.modifiers = @ \cup {m}]
      BY <1>2, <2>13 DEF ClauseKeyword, own
    <3> HIDE DEF m, r, owned
    <3>3. r.tree = q.tree /\ r.stack = [q.stack EXCEPT ![top] = owned] /\ SameFields(q, r)
      BY <2>10, <3>2 DEF Locals, SameFields
    <3>4. FrameRead(t, owned)
      <4>1. owned.own = last.own \cup Y /\ \A y \in Y : t[y] \notin {"ELSEIF", "ELSE"}
        BY <2>8, <2>13
      <4> HIDE DEF Y, last
      <4>2. QED
        BY <2>3, <2>8, <4>1, OtherIsRead
    <3>5. QED
      BY <2>7, <2>8, <3>3, <3>4 DEF r
  <2>14. QED
    BY <2>11, <2>12, <2>13
<1>3. QED
  BY <1>1, <1>2

LEMMA PushSame ==
  ASSUME NEW q \in Locals, NEW kind, NEW n
  PROVE  SameFields(q, Push(q, kind, n))
BY DEF Push, Locals, SameFields

(* A line that is in no place yet comes after the lines of every block. *)
LEMMA NewLineBehind ==
  ASSUME NEW q, NEW L, NEW n \in Nat, Sound(q, L), L \subseteq 1 .. n, n \notin L
  PROVE  Behind(q, {n})
<1>1. q.stack # <<>> => q.stack[Len(q.stack)].own \subseteq L
  <2>1. SUFFICES ASSUME q.stack # <<>> PROVE q.stack[Len(q.stack)].own \subseteq L
    OBVIOUS
  <2>2. Len(q.stack) \in 1 .. Len(q.stack)
    BY <2>1, EmptySeq DEF Sound, Locals
  <2>3. QED
    BY <2>2 DEF Sound, Splits, Places, PlaceNames, FrameSet
<1>2. \A m \in L : m < n
  BY DEF Sound
<1>3. QED
  BY <1>1, <1>2 DEF Behind

(* Nothing is accumulated but SQL. *)
OnlySql(q) == q.comments = {} /\ q.block = {} /\ ~q.in_comment

LEMMA BeginSqlNested ==
  ASSUME NEW q, NEW L, NEW t, NEW n, ReadTo(q, L, t, n), n \notin L, OnlySql(q), t[n] \notin {"ELSEIF", "ELSE"}
  PROVE  Nested(BeginSql(q, n), t, n) /\ Idle(BeginSql(q, n))
<1> DEFINE c == _flush_sql(q, n)
           r == [c EXCEPT !.in_sql = TRUE]
           s == Push(r, "sqlblock", n)
<1>0. Sound(q, L) /\ n \in Nat /\ L \subseteq 1 .. n
  BY DEF ReadTo
<1>1. Nested(c, t, n) /\ Idle(c)
  BY FlushSqlNested DEF OnlySql, Idle
<1>2. Sound(c, L) /\ c \in Locals
  <2>1. n \in Int
    BY <1>0
  <2>2. Sound(c, L)
    BY <1>0, <2>1, FlushSqlSound
  <2>3. QED
    BY <2>2 DEF Sound
<1>3. BeginSql(q, n) = s /\ "sqlblock" \in BlockKinds
  BY DEF BeginSql, BlockKinds
<1> HIDE DEF c
<1>4. r \in Locals /\ SameTree(c, r) /\ SameLines(c, r) /\ r.in_comment = c.in_comment /\ SameFields(c, r)
  BY <1>2 DEF Locals, SameTree, SameLines, SameFields
<1> HIDE DEF r
<1>5. Sound(r, L)
  BY <1>2, <1>4, SameSound
<1>6. Nested(r, t, n)
  BY <1>1, <1>4, SameNested DEF SameTree
<1>7. Nested(s, t, n)
  BY <1>0, <1>3, <1>5, <1>6, PushNested
<1>8. Idle(s)
  BY <1>1, <1>4, PushSame, SameIdle
<1>9. QED
  BY <1>3, <1>7, <1>8

LEMMA EndSqlNested ==
  ASSUME NEW q, NEW L, NEW t, NEW n, ReadTo(q, L, t, n), n \notin L, OnlySql(q), t[n] \notin {"ELSEIF", "ELSE"}
  PROVE  Nested(EndSql(q, n), t, n) /\ Idle(EndSql(q, n))
<1> DEFINE c == _flush_sql(q, n)
           flushed == [c EXCEPT !.in_sql = FALSE]
           owned == [flushed EXCEPT !.stack[Len(q.stack)].own = @ \cup {n}]
<1>0. Sound(q, L) /\ n \in Nat /\ L \subseteq 1 .. n
  BY DEF ReadTo
<1>1. Nested(c, t, n) /\ Idle(c) /\ c.stack = q.stack
  BY FlushSqlNested DEF OnlySql, Idle
<1>2. Sound(c, L) /\ c \in Locals
  <2>1. n \in Int
    BY <1>0
  <2>2. Sound(c, L)
    BY <1>0, <2>1, FlushSqlSound
  <2>3. QED
    BY <2>2 DEF Sound
<1>3. EndSql(q, n) = IF ~TopIs(q, "sqlblock") THEN [_structural_error(flushed) EXCEPT !.refused = @ \cup {n}]
                     ELSE _close_block(owned, n)
  BY DEF EndSql
<1> HIDE DEF c
<1>4. /\ flushed \in Locals /\ SameTree(c, flushed) /\ SameLines(c, flushed) /\ flushed.in_comment = c.in_comment
      /\ SameFields(c, flushed)
  BY <1>2 DEF Locals, SameTree, SameLines, SameFields
<1> HIDE DEF flushed
<1>5. Sound(flushed, L) /\ flushed.stack = q.stack
  BY <1>1, <1>2, <1>4, SameSound DEF SameTree
<1>6. Nested(flushed, t, n) /\ Idle(flushed)
  BY <1>1, <1>4, SameNested, SameIdle DEF SameTree
<1>7. CASE ~TopIs(q, "sqlblock")
  BY <1>3, <1>5, <1>6, <1>7, RefusedNested, SameIdle
<1>8. CASE TopIs(q, "sqlblock")
  <2>1. Len(flushed.stack) = Len(q.stack) /\ Len(flushed.stack) \in 1 .. Len(flushed.stack)
    BY <1>5, <1>8, EmptySeq DEF Sound, Locals, TopIs
  <2>2. owned = [flushed EXCEPT !.stack[Len(flushed.stack)].own = @ \cup {n}]
    BY <2>1
  <2> HIDE DEF owned
  <2>3. Nested(_close_block(owned, n), t, n) /\ SameFields(flushed, _close_block(owned, n))
    BY <1>0, <1>5, <1>6, <2>1, <2>2, ClosedByNested
  <2>4. QED
    BY <1>3, <1>6, <1>8, <2>3, SameIdle
<1>9. QED
  BY <1>7, <1>8

LEMMA MetacommandNested ==
  ASSUME NEW q, NEW L, NEW t, NEW n, ReadTo(q, L, t, n), n \notin L, OnlySql(q),
         NEW line \in Metacommands, t[n] = line
  PROVE  Nested(Metacommand(q, line, n), t, n) /\ Pending(Metacommand(q, line, n))
<1> DEFINE dropped == [q EXCEPT !.warned = @ \cup q.sql, !.sql = {}]
<1>0. Sound(q, L) /\ Nested(q, t, n) /\ n \in Nat /\ n \in Int /\ L \subseteq 1 .. n /\ q \in Locals /\ Pending(q)
  BY DEF ReadTo, Sound
<1>1. Sound(dropped, L)
  BY <1>0, DroppedSound
<1>2. dropped.tree = q.tree /\ dropped.stack = q.stack /\ Idle(dropped)
  BY <1>0 DEF Locals, OnlySql, Idle
<1> HIDE DEF dropped
<1>3. Nested(dropped, t, n) /\ dropped \in Locals
  BY <1>0, <1>1, <1>2, SameNested DEF Sound
<1>4. CASE line = "BEGIN_SQL"
  <2>1. Metacommand(q, line, n) = BeginSql(q, n) /\ t[n] \notin {"ELSEIF", "ELSE"}
    BY <1>4 DEF Metacommand, Opens, Closes, Clauses
  <2>2. QED
    BY <2>1, BeginSqlNested, IdlePending
<1>5. CASE line = "END_SQL"
  <2>1. Metacommand(q, line, n) = EndSql(q, n) /\ t[n] \notin {"ELSEIF", "ELSE"}
    BY <1>5 DEF Metacommand, Opens, Closes, Clauses
  <2>2. QED
    BY <2>1, EndSqlNested, IdlePending
<1>6. CASE q.in_sql /\ line \notin {"BEGIN_SQL", "END_SQL"}
  <2> DEFINE r == Metacommand(q, line, n)
  <2>1. r = [q EXCEPT !.ignored = @ \cup {n}]
    BY <1>6 DEF Metacommand
  <2> HIDE DEF r
  <2>2. r.tree = q.tree /\ r.stack = q.stack /\ SameFields(q, r)
    BY <1>0, <2>1 DEF Locals, SameFields
  <2>3. Nested(r, t, n) /\ Pending(r)
    BY <1>0, <2>2, SameNested, SamePending
  <2>4. QED
    BY <2>3 DEF r
<1>7. CASE ~q.in_sql /\ line \in DOMAIN Opens
  <2> DEFINE opened == IF line = "BEGIN_SCRIPT_bad" THEN _structural_error(dropped) ELSE dropped
  <2>1. Metacommand(q, line, n) = Push(opened, Opens[line], n) /\ t[n] \notin {"ELSEIF", "ELSE"}
    BY <1>7 DEF Metacommand, Opens, Closes, Clauses, dropped
  <2>2. Opens[line] \in BlockKinds
    BY <1>7 DEF Opens, BlockKinds
  <2>3. Sound(opened, L) /\ opened.tree = dropped.tree /\ opened.stack = dropped.stack /\ SameFields(dropped, opened)
        /\ opened \in Locals
    BY <1>1, <1>3, ErrorSound, ErrorSame DEF SameFields
  <2> HIDE DEF opened
  <2>4. Nested(opened, t, n) /\ Idle(opened)
    BY <1>2, <1>3, <2>3, SameNested, SameIdle
  <2>5. Nested(Push(opened, Opens[line], n), t, n)
    BY <1>0, <2>1, <2>2, <2>3, <2>4, PushNested
  <2>6. Idle(Push(opened, Opens[line], n))
    BY <2>3, <2>4, PushSame, SameIdle
  <2>7. QED
    BY <2>1, <2>5, <2>6, IdlePending
<1>8. CASE ~q.in_sql /\ line \in DOMAIN Closes
  <2>1. Metacommand(q, line, n) = CloseKeyword(dropped, line, n) /\ t[n] \notin {"ELSEIF", "ELSE"}
    BY <1>8 DEF Metacommand, Opens, Closes, Clauses, dropped
  <2>2. Nested(CloseKeyword(dropped, line, n), t, n) /\ SameFields(dropped, CloseKeyword(dropped, line, n))
    BY <1>0, <1>1, <1>3, <2>1, CloseKeywordNested
  <2>3. QED
    BY <1>2, <2>1, <2>2, SameIdle, IdlePending
<1>9. CASE ~q.in_sql /\ line \in Clauses
  <2>1. Metacommand(q, line, n) = ClauseKeyword(dropped, line, n)
    BY <1>9 DEF Metacommand, Opens, Closes, Clauses, dropped
  <2>2. Nested(ClauseKeyword(dropped, line, n), t, n) /\ SameFields(dropped, ClauseKeyword(dropped, line, n))
    BY <1>0, <1>1, <1>3, <1>9, ClauseKeywordNested
  <2>3. QED
    BY <1>2, <2>1, <2>2, SameIdle, IdlePending
<1>10. CASE ~q.in_sql /\ line = "cmd"
  <2> DEFINE e == Emit(dropped, "cmd", {n}, n, n)
  <2>1. Metacommand(q, line, n) = e
    BY <1>10 DEF Metacommand, Opens, Closes, Clauses, dropped
  <2>2. "cmd" \in NodeKinds /\ {n} \in SUBSET Nat /\ n \in {n} /\ n <= n
    BY <1>0 DEF NodeKinds
  <2>3. Behind(dropped, {n})
    BY <1>0, <1>1, NewLineBehind
  <2>4. Nested(e, t, n)
    BY <1>0, <1>1, <1>3, <2>2, <2>3, EmitNested
  <2>5. Idle(e)
    BY <1>2, <1>3, EmitSame, SameIdle
  <2>6. QED
    BY <2>1, <2>4, <2>5, IdlePending
<1>11. QED
  BY <1>4, <1>5, <1>6, <1>7, <1>8, <1>9, <1>10 DEF Metacommands

(* Being behind the innermost block is a matter of lines. *)
LEMMA SameBehind ==
  ASSUME NEW q, NEW r, r.stack = q.stack
  PROVE  /\ \A S : Behind(r, S) <=> Behind(q, S)
         /\ \A S, T : Behind(q, S) /\ Behind(q, T) => Behind(q, S \cup T)
         /\ \A S, T : Behind(q, S) /\ T \subseteq S => Behind(q, T)
         /\ Behind(q, {})
BY DEF Behind

(* A comment that ends makes a node, or joins the docstring or the statement around it. *)
LEMMA InBlockCommentNested ==
  ASSUME NEW q, NEW L, NEW t, NEW n, ReadTo(q, L, t, n), n \notin L, NEW line, q.in_comment = TRUE
  PROVE  Nested(InBlockComment(q, line, n), t, n) /\ Pending(InBlockComment(q, line, n))
<1> DEFINE all == q.block \cup {n}
           out == [q EXCEPT !.in_comment = FALSE, !.block = {}, !.in_statement = FALSE]
           r == InBlockComment(q, line, n)
<1>0. Sound(q, L) /\ Nested(q, t, n) /\ n \in Nat /\ n \in Int /\ n <= n /\ L \subseteq 1 .. n /\ q \in Locals
  BY DEF ReadTo, Sound
<1>1. /\ Behind(q, q.sql) /\ Behind(q, q.comments) /\ Behind(q, q.block)
      /\ q.sql # {} => q.sql_start \in q.sql
      /\ q.in_statement => q.sql # {}
  BY DEF ReadTo, Pending
<1>2. Behind(q, all)
  BY <1>0, <1>1, NewLineBehind, SameBehind
<1>3. all \in SUBSET Nat /\ all # {}
  BY <1>0 DEF Locals
<1>4. CASE line \notin {"*/", "/**/"}
  <2>1. r = [q EXCEPT !.block = all]
    BY <1>4 DEF InBlockComment
  <2> HIDE DEF all, r
  <2>2. /\ r.tree = q.tree /\ r.stack = q.stack /\ r.block = all /\ r.sql = q.sql /\ r.comments = q.comments
        /\ r.sql_start = q.sql_start /\ r.in_comment = q.in_comment /\ r.in_statement = q.in_statement
    BY <1>0, <2>1 DEF Locals
  <2>3. Pending(r)
    BY <1>1, <1>2, <2>2, SameBehind DEF Pending
  <2>4. Nested(r, t, n)
    BY <1>0, <2>2, SameNested
  <2>5. QED
    BY <2>3, <2>4 DEF r
<1>5. CASE line \in {"*/", "/**/"}
  <2>1. r = IF CollectsDoc(q) THEN [out EXCEPT !.doc = @ \cup all]
            ELSE IF q.in_statement THEN [out EXCEPT !.sql = @ \cup all]
            ELSE Emit(_flush_sql(out, n), "comment", all, FirstLine(all), n)
    BY <1>5 DEF InBlockComment
  <2>2. /\ out \in Locals /\ SameTree(q, out) /\ out.in_comment = FALSE /\ out.block = {}
        /\ out.sql = q.sql /\ out.comments = q.comments /\ out.sql_start = q.sql_start
    BY <1>0 DEF Locals, SameTree
  <2>3. Sound(out, L \ q.block)
    <3>1. /\ "block" \in FieldNames /\ Places(q)["block"] = q.block /\ Places(out)["block"] = q.block \ q.block
          /\ \A k \in FieldNames \ {"block"} : Places(out)[k] = Places(q)[k]
      BY <1>0 DEF Places, FieldNames, PlaceNames, Locals
    <3> HIDE DEF out
    <3>2. QED
      BY <1>0, <2>2, <3>1, TakeSound
  <2> HIDE DEF out, all, r
  <2>4. Nested(out, t, n) /\ out.stack = q.stack
    BY <1>0, <2>2, SameNested DEF SameTree
  <2>5. Pending(out)
    BY <1>1, <2>2, <2>4, SameBehind DEF Pending
  <2>6. CASE CollectsDoc(q)
    <3>1. r = [out EXCEPT !.doc = @ \cup all]
      BY <2>1, <2>6
    <3>2. r.tree = out.tree /\ r.stack = out.stack /\ SameFields(out, r)
      BY <2>2, <3>1 DEF Locals, SameFields
    <3>3. Nested(r, t, n) /\ Pending(r)
      BY <2>4, <2>5, <3>2, SameNested, SamePending
    <3>4. QED
      BY <3>3 DEF r
  <2>7. CASE ~CollectsDoc(q) /\ q.in_statement
    <3>1. r = [out EXCEPT !.sql = @ \cup all]
      BY <2>1, <2>7
    <3>2. /\ r.tree = out.tree /\ r.stack = out.stack /\ r.sql = out.sql \cup all /\ r.block = out.block
          /\ r.comments = out.comments /\ r.sql_start = out.sql_start /\ r.in_comment = out.in_comment
      BY <2>2, <3>1 DEF Locals
    <3>3. Nested(r, t, n)
      BY <2>4, <3>2, SameNested
    <3>4. r.stack = q.stack /\ q.sql_start \in q.sql
      BY <1>1, <2>4, <2>7, <3>2
    <3>5. Behind(r, q.sql \cup all) /\ Behind(r, q.comments) /\ Behind(r, {})
      BY <1>1, <1>2, <3>4, SameBehind
    <3>6. Pending(r)
      BY <2>2, <3>2, <3>4, <3>5 DEF Pending
    <3>7. QED
      BY <3>3, <3>6 DEF r
  <2>8. CASE ~CollectsDoc(q) /\ ~q.in_statement
    <3> DEFINE c == _flush_sql(out, n)
               from == FirstLine(all)
    <3>1. r = Emit(c, "comment", all, from, n)
      BY <2>1, <2>8
    <3>2. ReadTo(out, L \ q.block, t, n)
      BY <1>0, <2>3, <2>4, <2>5 DEF ReadTo
    <3>3. /\ Nested(c, t, n) /\ c.stack = q.stack /\ c.sql = {} /\ c.comments = q.comments /\ c.block = {}
          /\ c.in_comment = FALSE
      BY <2>2, <2>4, <3>2, FlushSqlNested
    <3>4. Sound(c, L \ q.block) /\ c \in Locals
      <4>1. Sound(c, L \ q.block)
        BY <1>0, <2>3, FlushSqlSound
      <4>2. QED
        BY <4>1 DEF Sound
    <3>5. from \in all /\ "comment" \in NodeKinds
      BY <1>3, FirstLineIsFirst DEF NodeKinds
    <3> HIDE DEF c, from
    <3>6. Behind(c, {from})
      <4>1. {from} \subseteq all
        BY <3>5
      <4>2. QED
        BY <1>2, <3>3, <4>1, SameBehind
    <3>7. Nested(r, t, n)
      BY <1>0, <1>3, <3>1, <3>3, <3>4, <3>5, <3>6, EmitNested
    <3>8. SameFields(c, r) /\ r.stack = c.stack
      BY <3>1, <3>4, EmitSame
    <3>9. Behind(r, q.comments) /\ Behind(r, {})
      <4>1. r.stack = q.stack
        BY <3>3, <3>8
      <4>2. QED
        BY <1>1, <4>1, SameBehind
    <3>10. Pending(r)
      BY <3>3, <3>8, <3>9 DEF Pending, SameFields
    <3>11. QED
      BY <3>7, <3>10 DEF r
  <2>9. QED
    BY <2>6, <2>7, <2>8
<1>6. QED
  BY <1>4, <1>5

(* A comment is opened after the lines of the block it is in. *)
LEMMA StartBlockNested ==
  ASSUME NEW q, NEW L, NEW t, NEW n, ReadTo(q, L, t, n), n \notin L, NEW b \in BOOLEAN, b => q.sql # {}
  PROVE  /\ Nested([q EXCEPT !.in_comment = TRUE, !.block = {n}, !.in_statement = b], t, n)
         /\ Pending([q EXCEPT !.in_comment = TRUE, !.block = {n}, !.in_statement = b])
<1> DEFINE r == [q EXCEPT !.in_comment = TRUE, !.block = {n}, !.in_statement = b]
<1>0. Sound(q, L) /\ Nested(q, t, n) /\ n \in Nat /\ L \subseteq 1 .. n /\ q \in Locals
  BY DEF ReadTo, Sound
<1>1. /\ Behind(q, q.sql) /\ Behind(q, q.comments)
      /\ q.sql # {} => q.sql_start \in q.sql
  BY DEF ReadTo, Pending
<1>2. Behind(q, {n})
  BY <1>0, NewLineBehind
<1>3. /\ r.tree = q.tree /\ r.stack = q.stack /\ r.block = {n} /\ r.sql = q.sql /\ r.comments = q.comments
      /\ r.sql_start = q.sql_start /\ r.in_statement = b
  BY <1>0 DEF Locals
<1> HIDE DEF r
<1>4. Nested(r, t, n)
  BY <1>0, <1>3, SameNested
<1>5. Behind(r, q.sql) /\ Behind(r, q.comments) /\ Behind(r, {n})
  BY <1>1, <1>2, <1>3, SameBehind
<1>6. Pending(r)
  BY <1>1, <1>3, <1>5 DEF Pending
<1>7. QED
  BY <1>4, <1>6 DEF r

(* A line is added to the statement that is being read. *)
LEMMA MoreSqlNested ==
  ASSUME NEW q, NEW L, NEW t, NEW n, ReadTo(q, L, t, n), n \notin L, q.sql # {}
  PROVE  Nested([q EXCEPT !.sql = @ \cup {n}], t, n) /\ Pending([q EXCEPT !.sql = @ \cup {n}])
<1> DEFINE r == [q EXCEPT !.sql = @ \cup {n}]
<1>0. Sound(q, L) /\ Nested(q, t, n) /\ n \in Nat /\ L \subseteq 1 .. n /\ q \in Locals
  BY DEF ReadTo, Sound
<1>1. /\ Behind(q, q.sql) /\ Behind(q, q.comments) /\ Behind(q, q.block) /\ q.sql_start \in q.sql
  BY DEF ReadTo, Pending
<1>2. Behind(q, {n})
  BY <1>0, NewLineBehind
<1>3. /\ r.tree = q.tree /\ r.stack = q.stack /\ r.block = q.block /\ r.sql = q.sql \cup {n} /\ r.comments = q.comments
      /\ r.sql_start = q.sql_start
  BY <1>0 DEF Locals
<1> HIDE DEF r
<1>4. Nested(r, t, n)
  BY <1>0, <1>3, SameNested
<1>5. Behind(r, q.sql \cup {n}) /\ Behind(r, q.comments) /\ Behind(r, q.block)
  BY <1>1, <1>2, <1>3, SameBehind
<1>6. Pending(r)
  BY <1>1, <1>3, <1>5 DEF Pending
<1>7. QED
  BY <1>4, <1>6 DEF r

LEMMA OpenBlockCommentNested ==
  ASSUME NEW q, NEW L, NEW t, NEW n, ReadTo(q, L, t, n), n \notin L, NEW line
  PROVE  Nested(OpenBlockComment(q, line, n), t, n) /\ Pending(OpenBlockComment(q, line, n))
<1>1. CASE line = "/*"
  <2>1. (q.sql # {}) \in BOOLEAN /\ ((q.sql # {}) => q.sql # {})
    OBVIOUS
  <2>2. /\ Nested([q EXCEPT !.in_comment = TRUE, !.block = {n}, !.in_statement = (q.sql # {})], t, n)
        /\ Pending([q EXCEPT !.in_comment = TRUE, !.block = {n}, !.in_statement = (q.sql # {})])
    BY <2>1, StartBlockNested
  <2>3. QED
    BY <1>1, <2>2 DEF OpenBlockComment
<1>2. CASE line # "/*" /\ q.sql # {}
  <2>1. Nested([q EXCEPT !.sql = @ \cup {n}], t, n) /\ Pending([q EXCEPT !.sql = @ \cup {n}])
    BY <1>2, MoreSqlNested
  <2>2. QED
    BY <1>2, <2>1 DEF OpenBlockComment
<1>3. CASE line # "/*" /\ q.sql = {}
  <2> DEFINE e == Emit(q, "comment", {n}, n, n)
  <2>0. Sound(q, L) /\ Nested(q, t, n) /\ n \in Nat /\ L \subseteq 1 .. n /\ q \in Locals /\ Pending(q)
    BY DEF ReadTo, Sound
  <2>1. "comment" \in NodeKinds /\ {n} \in SUBSET Nat /\ n \in {n} /\ n <= n /\ n \in Int
    BY <2>0 DEF NodeKinds
  <2>2. Behind(q, {n})
    BY <2>0, NewLineBehind
  <2>3. Nested(e, t, n)
    BY <2>0, <2>1, <2>2, EmitNested
  <2>4. Pending(e)
    BY <2>0, EmitSame, SamePending
  <2>5. OpenBlockComment(q, line, n) = e
    BY <1>3 DEF OpenBlockComment
  <2>6. QED
    BY <2>3, <2>4, <2>5
<1>4. QED
  BY <1>1, <1>2, <1>3

LEMMA LineCommentNested ==
  ASSUME NEW q, NEW L, NEW t, NEW n, ReadTo(q, L, t, n), n \notin L
  PROVE  Nested(LineComment(q, n), t, n) /\ Pending(LineComment(q, n))
<1>1. CASE q.sql # {}
  <2>1. Nested([q EXCEPT !.sql = @ \cup {n}], t, n) /\ Pending([q EXCEPT !.sql = @ \cup {n}])
    BY <1>1, MoreSqlNested
  <2>2. QED
    BY <1>1, <2>1 DEF LineComment
<1>2. CASE q.sql = {}
  <2> DEFINE r == [q EXCEPT !.comments = @ \cup {n}]
  <2>0. Sound(q, L) /\ Nested(q, t, n) /\ n \in Nat /\ L \subseteq 1 .. n /\ q \in Locals
    BY DEF ReadTo, Sound
  <2>1. /\ Behind(q, q.sql) /\ Behind(q, q.comments) /\ Behind(q, q.block)
        /\ q.in_comment /\ q.in_statement => q.sql # {}
    BY DEF ReadTo, Pending
  <2>2. Behind(q, {n})
    BY <2>0, NewLineBehind
  <2>3. /\ r.tree = q.tree /\ r.stack = q.stack /\ r.block = q.block /\ r.sql = q.sql
        /\ r.comments = q.comments \cup {n} /\ r.in_comment = q.in_comment /\ r.in_statement = q.in_statement
    BY <2>0 DEF Locals
  <2>4. LineComment(q, n) = r
    BY <1>2 DEF LineComment
  <2> HIDE DEF r
  <2>5. Nested(r, t, n)
    BY <2>0, <2>3, SameNested
  <2>6. Behind(r, q.sql) /\ Behind(r, q.comments \cup {n}) /\ Behind(r, q.block)
    BY <2>1, <2>2, <2>3, SameBehind
  <2>7. Pending(r)
    BY <1>2, <2>1, <2>3, <2>6 DEF Pending
  <2>8. QED
    BY <2>4, <2>5, <2>7
<1>3. QED
  BY <1>1, <1>2

LEMMA SqlLineNested ==
  ASSUME NEW q, NEW L, NEW t, NEW n, ReadTo(q, L, t, n), n \notin L, n # 0, NEW line, ~q.in_comment
  PROVE  Nested(SqlLine(q, line, n), t, n) /\ Pending(SqlLine(q, line, n))
<1> DEFINE noted == [q EXCEPT !.sql = @ \cup {n}]
           start == IF q.sql = {} THEN n ELSE q.sql_start
           more == [q EXCEPT !.sql = @ \cup {n}, !.sql_start = IF q.sql = {} THEN n ELSE @]
           K == L \cup {n}
<1>0. Sound(q, L) /\ Nested(q, t, n) /\ n \in Nat /\ n \in Int /\ L \subseteq 1 .. n /\ q \in Locals
  BY DEF ReadTo, Sound
<1>1. /\ Behind(q, q.sql) /\ Behind(q, q.comments) /\ Behind(q, q.block)
      /\ q.sql # {} => q.sql_start \in q.sql
  BY DEF ReadTo, Pending
<1>2. Behind(q, {n})
  BY <1>0, NewLineBehind
<1>3. Sound(noted, K)
  <2>1. {n} \in SUBSET Nat /\ {n} \cap L = {} /\ IsFiniteSet({n})
    BY <1>0, FS_Singleton
  <2>2. QED
    BY <1>0, <2>1, NoteSound
<1>4. more = [q EXCEPT !.sql = @ \cup {n}, !.sql_start = start] /\ start \in Nat
  BY <1>0 DEF Locals
<1>5. SqlLine(q, line, n) = IF line = "sql;" /\ ~q.in_sql THEN _flush_sql(more, n) ELSE more
  BY DEF SqlLine
<1>s. start \in q.sql \cup {n}
  BY <1>1
<1> HIDE DEF more, start
<1>6. /\ more \in Locals /\ more.tree = q.tree /\ more.stack = q.stack /\ more.sql = q.sql \cup {n}
      /\ more.comments = q.comments /\ more.block = q.block /\ more.in_comment = q.in_comment
      /\ more.sql_start = start /\ SameLines(noted, more) /\ SameTree(noted, more) /\ noted.in_comment = q.in_comment
  BY <1>0, <1>4 DEF Locals, SameLines, SameTree
<1> HIDE DEF noted
<1>7. Sound(more, K)
  BY <1>3, <1>6, SameSound
<1>8. Nested(more, t, n)
  BY <1>0, <1>6, SameNested
<1>9. Behind(more, q.sql \cup {n}) /\ Behind(more, q.comments) /\ Behind(more, q.block)
  BY <1>1, <1>2, <1>6, SameBehind
<1>10. Pending(more)
  BY <1>6, <1>9, <1>s DEF Pending
<1>11. CASE line = "sql;" /\ ~q.in_sql
  <2> DEFINE c == _flush_sql(more, n)
  <2>1. K \subseteq 1 .. n
    <3>1. n \in 1 .. n
      BY <1>0
    <3>2. QED
      BY <1>0, <3>1
  <2>2. ReadTo(more, K, t, n)
    BY <1>0, <1>7, <1>8, <1>10, <2>1 DEF ReadTo
  <2>3. /\ Nested(c, t, n) /\ c.stack = more.stack /\ c.sql = {} /\ c.comments = q.comments /\ c.block = q.block
        /\ c.in_comment = q.in_comment
    BY <1>6, <2>2, FlushSqlNested
  <2> HIDE DEF c
  <2>4. Behind(c, q.comments) /\ Behind(c, q.block) /\ Behind(c, {})
    BY <1>1, <1>6, <2>3, SameBehind
  <2>5. Pending(c)
    BY <2>3, <2>4 DEF Pending
  <2>6. QED
    BY <1>5, <1>11, <2>3, <2>5 DEF c
<1>12. CASE ~(line = "sql;" /\ ~q.in_sql)
  BY <1>5, <1>8, <1>10, <1>12
<1>13. QED
  BY <1>11, <1>12

(* A line, whatever it is, keeps blocks nested. *)
LEMMA OrdinaryLineNested ==
  ASSUME NEW q, NEW L, NEW t, NEW n, ReadTo(q, L, t, n), n \notin L, n # 0, NEW line, t[n] = line
  PROVE  Nested(OrdinaryLine(q, line, n), t, n) /\ Pending(OrdinaryLine(q, line, n))
<1> DEFINE flushed == _flush_line_comments(q)
           After(r) == Nested(r, t, n) /\ Pending(r)
<1>1. /\ ReadTo(flushed, L, t, n) /\ flushed.comments = {} /\ flushed.block = q.block
      /\ flushed.in_comment = q.in_comment
  BY FlushCommentsNested
<1>2. q.in_comment \in BOOLEAN /\ (q.in_comment = TRUE <=> q.block # {})
  BY DEF ReadTo, Sound, Locals
<1>3. CASE line = "blank"
  <2>1. OrdinaryLine(q, line, n) = flushed
    BY <1>3 DEF OrdinaryLine
  <2>2. QED
    BY <1>1, <2>1 DEF ReadTo
<1>4. CASE line # "blank" /\ q.in_comment
  <2>1. OrdinaryLine(q, line, n) = InBlockComment(q, line, n) /\ q.in_comment = TRUE
    BY <1>2, <1>4 DEF OrdinaryLine
  <2>2. QED
    BY <2>1, InBlockCommentNested
<1>5. CASE line # "blank" /\ ~q.in_comment
  <2>1. OrdinaryLine(q, line, n) \in
          {LineComment(q, n), OpenBlockComment(flushed, line, n), SqlLine(flushed, line, n)}
        \/ (OrdinaryLine(q, line, n) = Metacommand(flushed, line, n) /\ line \in Metacommands)
    BY <1>5 DEF OrdinaryLine
  <2>2. OnlySql(flushed) /\ ~flushed.in_comment
    BY <1>1, <1>2, <1>5 DEF OnlySql
  <2> HIDE DEF flushed
  <2>3. After(LineComment(q, n))
    BY LineCommentNested
  <2>4. After(OpenBlockComment(flushed, line, n))
    BY <1>1, OpenBlockCommentNested
  <2>5. After(SqlLine(flushed, line, n))
    BY <1>1, <2>2, SqlLineNested
  <2>6. line \in Metacommands => After(Metacommand(flushed, line, n))
    BY <1>1, <2>2, MetacommandNested
  <2>7. QED
    BY <2>1, <2>3, <2>4, <2>5, <2>6
<1>6. QED
  BY <1>3, <1>4, <1>5

LEMMA ParseLineNested ==
  ASSUME NEW q, NEW L, NEW t, NEW n, ReadTo(q, L, t, n), n \notin L, n # 0, NEW line, t[n] = line
  PROVE  Nested(ParseLine(q, line, n), t, n) /\ Pending(ParseLine(q, line, n))
<1> DEFINE stopped == _stop_doc_collection(q)
<1>1. ReadTo(stopped, L, t, n)
  BY StopDocNested
<1>2. q \in Locals /\ Nested(q, t, n) /\ Pending(q)
  BY DEF ReadTo, Sound
<1>3. CASE ~CollectsDoc(q) \/ q.in_comment
  <2>1. ParseLine(q, line, n) = OrdinaryLine(q, line, n)
    BY <1>3 DEF ParseLine
  <2>2. QED
    BY <2>1, OrdinaryLineNested
<1>4. CASE ~(~CollectsDoc(q) \/ q.in_comment)
  <2> HIDE DEF stopped
  <2>1. CASE line = "blank"
    <3>1. ReadTo(_flush_line_comments(stopped), L, t, n)
      BY <1>1, FlushCommentsNested
    <3>2. ParseLine(q, line, n) = _flush_line_comments(stopped)
      BY <1>4, <2>1 DEF ParseLine, stopped
    <3>3. QED
      BY <3>1, <3>2 DEF ReadTo
  <2>2. CASE line \in {"--", "/**/"}
    <3> DEFINE r == [q EXCEPT !.doc = @ \cup {n}]
    <3>1. r.tree = q.tree /\ r.stack = q.stack /\ SameFields(q, r)
      BY <1>2 DEF Locals, SameFields
    <3>2. ParseLine(q, line, n) = r
      BY <1>4, <2>2 DEF ParseLine
    <3> HIDE DEF r
    <3>3. Nested(r, t, n) /\ Pending(r)
      BY <1>2, <3>1, SameNested, SamePending
    <3>4. QED
      BY <3>2, <3>3
  <2>3. CASE line = "/*"
    <3>1. ParseLine(q, line, n) = [q EXCEPT !.in_comment = TRUE, !.block = {n}, !.in_statement = FALSE]
      BY <1>4, <2>3 DEF ParseLine
    <3> DEFINE After(b) == LET r == [q EXCEPT !.in_comment = TRUE, !.block = {n}, !.in_statement = b]
                           IN  Nested(r, t, n) /\ Pending(r)
    <3>2. \A b \in BOOLEAN : ~b => After(b)
      BY StartBlockNested
    <3> HIDE DEF After
    <3>3. After(FALSE)
      BY <3>2
    <3>4. QED
      BY <3>1, <3>3 DEF After
  <2>4. CASE line \notin {"blank", "--", "/**/", "/*"}
    <3>1. ParseLine(q, line, n) = OrdinaryLine(stopped, line, n)
      BY <1>4, <2>4 DEF ParseLine, stopped
    <3>2. QED
      BY <1>1, <3>1, OrdinaryLineNested
  <2>5. QED
    BY <2>1, <2>2, <2>3, <2>4
<1>5. QED
  BY <1>3, <1>4

(* At the end of the script every block is closed. *)
LEMMA ParseEndNested ==
  ASSUME NEW q, NEW L, NEW t, NEW n, ReadTo(q, L, t, n)
  PROVE  Nested(ParseEnd(q, n), t, n) /\ ParseEnd(q, n).stack = <<>>
<1> DEFINE flushed == _flush_line_comments(q)
           trailing == IF q.sql # {} THEN _structural_error(flushed) ELSE flushed
           done == _flush_sql(trailing, n)
<1>0. n \in Nat /\ n \in Int
  BY DEF ReadTo
<1>1. ReadTo(flushed, L, t, n) /\ flushed.stack = q.stack
  BY FlushCommentsNested
<1>2. Sound(flushed, L) /\ flushed \in Locals
  BY <1>1 DEF ReadTo, Sound
<1>3. ParseEnd(q, n) = CloseOpen(done, Len(q.stack), n)
  BY DEF ParseEnd
<1> HIDE DEF flushed
<1>4. ReadTo(trailing, L, t, n) /\ trailing.stack = q.stack
  <2> DEFINE e == _structural_error(flushed)
  <2>1. Sound(e, L) /\ SameFields(flushed, e) /\ e.stack = flushed.stack /\ e.tree = flushed.tree
    BY <1>2, ErrorSound, ErrorSame
  <2> HIDE DEF e
  <2>2. Nested(flushed, t, n) /\ Pending(flushed) /\ L \subseteq 1 .. n
    BY <1>1 DEF ReadTo
  <2>3. Nested(e, t, n) /\ Pending(e)
    BY <2>1, <2>2, SameNested, SamePending
  <2>4. ReadTo(e, L, t, n) /\ e.stack = q.stack
    BY <1>0, <1>1, <2>1, <2>2, <2>3 DEF ReadTo
  <2>5. QED
    BY <1>1, <2>4 DEF e
<1> HIDE DEF trailing
<1>5. Nested(done, t, n) /\ done.stack = q.stack
  BY <1>4, FlushSqlNested
<1>6. Sound(done, L)
  <2>1. Sound(trailing, L)
    BY <1>4 DEF ReadTo
  <2>2. QED
    BY <1>0, <2>1, FlushSqlSound
<1> HIDE DEF done
<1>7. Len(q.stack) \in 0 .. Len(done.stack) /\ Len(done.stack) - Len(q.stack) = 0
  <2>1. Len(q.stack) \in Nat
    BY LenProperties DEF ReadTo, Sound, Locals
  <2>2. QED
    BY <1>5, <2>1
<1>8. Nested(ParseEnd(q, n), t, n)
  BY <1>0, <1>3, <1>5, <1>6, <1>7, CloseOpenNested
<1>9. Sound(ParseEnd(q, n), L) /\ Len(ParseEnd(q, n).stack) = 0
  BY <1>0, <1>3, <1>6, <1>7, CloseOpenSound
<1>10. ParseEnd(q, n).stack = <<>>
  <2>1. ParseEnd(q, n).stack \in Seq(Frame)
    BY <1>9 DEF Sound, Locals
  <2>2. QED
    BY <1>9, <2>1, EmptySeq
<1>11. QED
  BY <1>8, <1>10

(* What the nodes say of the lines read stays as the text grows. *)
LEMMA SameBranch ==
  ASSUME NEW t, NEW u, NEW S, \A l \in S : u[l] = t[l], NEW x, IsBranch(t, ClauseLines(t, S), x)
  PROVE  IsBranch(u, ClauseLines(u, S), x)
<1> DEFINE C == ClauseLines(t, S)
<1>1. ClauseLines(u, S) = C
  BY DEF ClauseLines
<1>2. \A l \in C : u[l] = t[l]
  BY DEF ClauseLines
<1> HIDE DEF C
<1>3. {l \in C : u[l] = "ELSEIF"} = {l \in C : t[l] = "ELSEIF"}
  BY <1>2
<1>4. IsBranch(t, C, x)
  BY DEF C
<1>5. IsBranch(u, C, x)
  BY <1>2, <1>3, <1>4 DEF IsBranch
<1>6. QED
  BY <1>1, <1>5

LEMMA SameFrame ==
  ASSUME NEW t, NEW u, NEW f, \A l \in f.own : u[l] = t[l], FrameRead(t, f)
  PROVE  FrameRead(u, f)
<1> DEFINE C == ClauseLines(t, f.own)
           E == {l \in C : t[l] = "ELSEIF"}
<1>1. ClauseLines(u, f.own) = C
  BY DEF ClauseLines
<1>2. \A l \in C : u[l] = t[l]
  BY DEF ClauseLines
<1>3. {l \in C : u[l] = "ELSEIF"} = E
  BY <1>2
<1>4. /\ f.elseifs = Cardinality(E)
      /\ \/ C = {} /\ ~f.in_else /\ ~f.in_elseif
         \/ \E last \in C :
              /\ \A m \in C : m <= last
              /\ f.in_else <=> t[last] = "ELSE"
              /\ f.in_elseif <=> t[last] = "ELSEIF"
  BY DEF FrameRead
<1> HIDE DEF C, E
<1>5. \/ C = {} /\ ~f.in_else /\ ~f.in_elseif
      \/ \E last \in C :
           /\ \A m \in C : m <= last
           /\ f.in_else <=> u[last] = "ELSE"
           /\ f.in_elseif <=> u[last] = "ELSEIF"
  BY <1>2, <1>4
<1>6. QED
  BY <1>1, <1>3, <1>4, <1>5 DEF FrameRead

LEMMA SameEncloses ==
  ASSUME NEW t, NEW u, NEW kind, NEW start, NEW lines, NEW node,
         \A l \in lines : u[l] = t[l], Encloses(t, kind, start, lines, node)
  PROVE  Encloses(u, kind, start, lines, node)
<1>1. \A l \in Before(lines, node.from) : u[l] = t[l]
  BY DEF Before
<1>2. ASSUME kind = "if" PROVE IsBranch(u, ClauseLines(u, Before(lines, node.from)), node.branch)
  <2>1. IsBranch(t, ClauseLines(t, Before(lines, node.from)), node.branch)
    BY <1>2 DEF Encloses
  <2>2. QED
    BY <1>1, <2>1, SameBranch
<1>3. QED
  BY <1>2 DEF Encloses

LEMMA TextGrows ==
  ASSUME NEW q, NEW L, NEW t, NEW n, ReadTo(q, L, t, n), NEW u, \A l \in 1 .. n : u[l] = t[l]
  PROVE  ReadTo(q, L, u, n + 1)
<1>1. Sound(q, L) /\ L \subseteq 1 .. n /\ n \in Nat /\ Froms(q, n) /\ Opened(q, t) /\ Placed(q, t) /\ Pending(q)
  BY DEF ReadTo, Nested
<1>2. \A i \in 1 .. Len(q.tree) : \A l \in q.tree[i].lines : u[l] = t[l]
  <2>1. \A i \in 1 .. Len(q.tree) : q.tree[i].lines \subseteq NodeSet(q)
    BY DEF NodeSet
  <2>2. NodeSet(q) \subseteq L
    BY <1>1 DEF Sound, Splits, Places, PlaceNames
  <2>3. QED
    BY <1>1, <2>1, <2>2
<1>3. \A i \in 1 .. Len(q.stack) : \A l \in q.stack[i].own : u[l] = t[l]
  <2>1. \A i \in 1 .. Len(q.stack) : q.stack[i].own \subseteq FrameSet(q)
    BY DEF FrameSet
  <2>2. FrameSet(q) \subseteq L
    BY <1>1 DEF Sound, Splits, Places, PlaceNames
  <2>3. QED
    BY <1>1, <2>1, <2>2
<1>4. Froms(q, n + 1)
  <2>1. ASSUME NEW i \in 1 .. Len(q.tree) PROVE q.tree[i].from \in q.tree[i].lines /\ q.tree[i].to <= n + 1
    <3>1. q.tree[i] \in TreeNode
      BY <1>1, ElementOfSeq DEF Sound, Locals
    <3>2. q.tree[i].from \in q.tree[i].lines /\ q.tree[i].to <= n /\ q.tree[i].to \in Int
      BY <1>1, <3>1 DEF Froms, TreeNode
    <3>3. QED
      BY <1>1, <3>2
  <2>2. QED
    BY <2>1 DEF Froms
<1>5. Opened(q, u)
  <2>1. \A i \in 1 .. Len(q.stack) : q.stack[i].kind = "if" => FrameRead(u, q.stack[i])
    BY <1>1, <1>3, SameFrame DEF Opened
  <2>2. QED
    BY <1>1, <2>1 DEF Opened
<1>6. Placed(q, u)
  <2>1. ASSUME NEW i \in 1 .. Len(q.tree), q.tree[i].parent # 0
        PROVE  InOpen(q, u, q.tree[i]) \/ InClosed(q, u, q.tree[i])
    <3> DEFINE node == q.tree[i]
    <3>1. InOpen(q, t, node) \/ InClosed(q, t, node)
      BY <1>1, <2>1 DEF Placed
    <3> HIDE DEF node
    <3>2. CASE InOpen(q, t, node)
      <4>1. PICK j \in 1 .. Len(q.stack) : Encloses(t, q.stack[j].kind, q.stack[j].start, q.stack[j].own, node)
        BY <3>2 DEF InOpen
      <4>2. Encloses(u, q.stack[j].kind, q.stack[j].start, q.stack[j].own, node)
        BY <1>3, <4>1, SameEncloses
      <4>3. QED
        BY <4>2 DEF InOpen, node
    <3>3. CASE InClosed(q, t, node)
      <4>1. PICK b \in 1 .. Len(q.tree) :
              /\ q.tree[b].kind \in BlockKinds
              /\ Encloses(t, q.tree[b].kind, q.tree[b].from, q.tree[b].lines, node)
              /\ node.to <= q.tree[b].to
        BY <3>3 DEF InClosed
      <4>2. Encloses(u, q.tree[b].kind, q.tree[b].from, q.tree[b].lines, node)
        BY <1>2, <4>1, SameEncloses
      <4>3. QED
        BY <4>1, <4>2 DEF InClosed, node
    <3>4. QED
      BY <3>1, <3>2, <3>3 DEF node
  <2>2. QED
    BY <2>1 DEF Placed
<1>7. L \subseteq 1 .. n + 1 /\ n + 1 \in Nat
  BY <1>1
<1>8. QED
  BY <1>1, <1>4, <1>5, <1>6, <1>7 DEF ReadTo, Nested

(* IsBranch names the branch that TreeFollowsTheText computes. *)
LEMMA BranchIsLast ==
  ASSUME NEW t, NEW C \in SUBSET Int, NEW x, IsBranch(t, C, x)
  PROVE  x = IF C = {} THEN 0
             ELSE LET last == CHOOSE l \in C : \A m \in C : m <= l
                  IN  IF t[last] = "ELSE" THEN -1 ELSE Cardinality({l \in C : t[l] = "ELSEIF"})
<1> DEFINE E == {l \in C : t[l] = "ELSEIF"}
           Bounds(l) == \A m \in C : m <= l
           greatest == CHOOSE l \in C : Bounds(l)
<1>1. \/ C = {} /\ x = 0
      \/ \E last \in C : Bounds(last) /\ x = IF t[last] = "ELSE" THEN -1 ELSE Cardinality(E)
  BY DEF IsBranch
<1>2. SUFFICES x = IF C = {} THEN 0 ELSE IF t[greatest] = "ELSE" THEN -1 ELSE Cardinality(E)
  OBVIOUS
<1> HIDE DEF E
<1>3. CASE C = {}
  BY <1>1, <1>3
<1>4. CASE C # {}
  <2>1. PICK last \in C : Bounds(last) /\ x = IF t[last] = "ELSE" THEN -1 ELSE Cardinality(E)
    BY <1>1, <1>4
  <2>2. greatest \in C /\ Bounds(greatest)
    <3> HIDE DEF Bounds
    <3>1. QED
      BY <2>1
  <2> HIDE DEF greatest
  <2>3. greatest = last
    BY <2>1, <2>2
  <2>4. QED
    BY <1>4, <2>1, <2>3
<1>5. QED
  BY <1>3, <1>4

(* The invariant: what is closed encloses its nodes in the tree, what is   *)
(* open will, and no block is open when the script has ended.              *)
TreeInv ==
  /\ ParserInv
  /\ Nested(p, text, Len(text))
  /\ phase = "reading" => Pending(p)
  /\ phase = "parsed" => p.stack = <<>>

LEMMA InitNested == ParserInit => TreeInv
<1> SUFFICES ASSUME ParserInit PROVE TreeInv
  OBVIOUS
<1>1. ParserInv
  BY InitSound
<1>2. /\ p.tree = <<>> /\ p.stack = <<>> /\ p.sql = {} /\ p.comments = {} /\ p.block = {}
      /\ p.in_comment = FALSE /\ phase = "reading"
  BY DEF ParserInit, Start
<1>3. Len(p.tree) = 0 /\ Len(p.stack) = 0
  BY <1>2
<1>4. Nested(p, text, Len(text))
  BY <1>3 DEF Nested, Froms, Opened, Placed
<1>5. Pending(p)
  BY <1>2 DEF Pending, Behind
<1>6. QED
  BY <1>1, <1>2, <1>4, <1>5 DEF TreeInv

LEMMA ReadLineNested ==
  ASSUME TreeInv, NEW line \in Line, ReadLine(line)
  PROVE  TreeInv'
<1> DEFINE n == Len(text) + 1
<1>1. /\ text \in Seq(Line) /\ Len(text) \in Nat /\ Sound(p, ReadLines)
      /\ Nested(p, text, Len(text)) /\ Pending(p)
  BY LenProperties DEF TreeInv, ParserInv, ReadLine
<1>2. text' = Append(text, line) /\ p' = ParseLine(p, line, n) /\ phase' # "parsed"
  BY DEF ReadLine
<1>3. /\ Len(text') = n /\ text'[n] = line
      /\ \A i \in 1 .. Len(text) : text'[i] = text[i]
  BY <1>1, <1>2, AppendProperties
<1>4. n \notin ReadLines /\ n # 0 /\ ReadLines \subseteq 1 .. Len(text)
  BY <1>1 DEF ReadLines
<1>5. ReadTo(p, ReadLines, text, Len(text))
  BY <1>1, <1>4 DEF ReadTo
<1>6. ReadTo(p, ReadLines, text', n)
  BY <1>3, <1>5, TextGrows
<1>7. ParserInv'
  BY ReadLineSound DEF TreeInv
<1> HIDE DEF n
<1>8. Nested(ParseLine(p, line, n), text', n) /\ Pending(ParseLine(p, line, n))
  BY <1>3, <1>4, <1>6, ParseLineNested
<1>9. QED
  BY <1>2, <1>3, <1>7, <1>8 DEF TreeInv

LEMMA EndNested ==
  ASSUME TreeInv, EndOfScript
  PROVE  TreeInv'
<1>1. /\ Len(text) \in Nat /\ Sound(p, ReadLines) /\ Nested(p, text, Len(text)) /\ Pending(p)
  BY LenProperties DEF TreeInv, ParserInv, EndOfScript
<1>2. text' = text /\ p' = ParseEnd(p, Len(text)) /\ phase' # "reading"
  BY DEF EndOfScript
<1>3. ReadTo(p, ReadLines, text, Len(text))
  BY <1>1 DEF ReadTo, ReadLines
<1>4. Nested(p', text', Len(text')) /\ p'.stack = <<>>
  BY <1>2, <1>3, ParseEndNested
<1>5. ParserInv'
  BY EndSound DEF TreeInv
<1>6. QED
  BY <1>2, <1>4, <1>5 DEF TreeInv

(* After every line the blocks nest as the text says, closed ones and those *)
(* still open; at the end none is open. TreeInv is an invariant.            *)
THEOREM BlocksNest == ParserSpec => []TreeInv
<1>1. TreeInv /\ [ParserNext]_parserVars => TreeInv'
  <2> SUFFICES ASSUME TreeInv, [ParserNext]_parserVars PROVE TreeInv'
    OBVIOUS
  <2>1. ASSUME NEW line \in Line, ReadLine(line) PROVE TreeInv'
    BY <2>1, ReadLineNested
  <2>2. CASE EndOfScript
    BY <2>2, EndNested
  <2>3. CASE UNCHANGED parserVars
    BY <2>3 DEF parserVars, TreeInv, ParserInv, ReadLines
  <2>4. QED
    BY <2>1, <2>2, <2>3 DEF ParserNext, Parsed
<1>2. QED
  BY <1>1, InitNested, PTL DEF ParserSpec

(* The clause lines before a node of an IF are the lines of that IF. *)
LEMMA ClausesOfBlock ==
  ASSUME TreeInv, NEW b \in 1 .. Len(p.tree), p.tree[b].kind = "if", NEW m \in Int
  PROVE  /\ ClausesBefore(p.tree[b].from, m, {"ELSEIF", "ELSE"}) = ClauseLines(text, Before(p.tree[b].lines, m))
         /\ ClauseLines(text, Before(p.tree[b].lines, m)) \in SUBSET Int
<1> DEFINE block == p.tree[b]
<1>1. Sound(p, ReadLines) /\ Len(text) \in Nat /\ Froms(p, Len(text))
  BY LenProperties DEF TreeInv, ParserInv, Nested
<1>2. \A j \in 1 .. Len(p.tree) : p.tree[j].from \in p.tree[j].lines
  BY <1>1 DEF Froms
<1>3. \A j \in 1 .. Len(p.tree) : p.tree[j].from = block.from => j = b
  BY <1>1, <1>2 DEF Sound, NodesApart
<1>4. block.lines \subseteq 1 .. Len(text)
  <2>1. block.lines \subseteq NodeSet(p)
    BY DEF NodeSet
  <2>2. NodeSet(p) \subseteq ReadLines
    BY <1>1 DEF Sound, Splits, Places, PlaceNames
  <2>3. QED
    BY <2>1, <2>2 DEF ReadLines
<1>5. \A l : (\E j \in 1 .. Len(p.tree) : p.tree[j].from = block.from /\ l \in p.tree[j].lines /\ p.tree[j].kind = "if")
              <=> l \in block.lines
  BY <1>3
<1>6. ASSUME NEW l
      PROVE  l \in ClausesBefore(block.from, m, {"ELSEIF", "ELSE"}) <=> l \in ClauseLines(text, Before(block.lines, m))
  <2>1. l \in ClausesBefore(block.from, m, {"ELSEIF", "ELSE"}) <=>
          l \in 1 .. m - 1 /\ text[l] \in {"ELSEIF", "ELSE"} /\ l \in block.lines
    BY <1>5 DEF ClausesBefore
  <2>2. l \in ClauseLines(text, Before(block.lines, m)) <=>
          l < m /\ text[l] \in {"ELSEIF", "ELSE"} /\ l \in block.lines
    BY DEF ClauseLines, Before
  <2>3. l \in block.lines => (l \in 1 .. m - 1 <=> l < m)
    BY <1>1, <1>4
  <2>4. QED
    BY <2>1, <2>2, <2>3
<1>7. ClauseLines(text, Before(block.lines, m)) \subseteq block.lines
  BY DEF ClauseLines, Before
<1>8. ClauseLines(text, Before(block.lines, m)) \in SUBSET Int
  BY <1>1, <1>4, <1>7
<1>9. ClausesBefore(block.from, m, {"ELSEIF", "ELSE"}) = ClauseLines(text, Before(block.lines, m))
  <2> DEFINE A == ClausesBefore(block.from, m, {"ELSEIF", "ELSE"})
             B == ClauseLines(text, Before(block.lines, m))
  <2>1. \A l : l \in A <=> l \in B
    BY <1>6
  <2> HIDE DEF A, B
  <2>2. A = B
    BY <2>1
  <2>3. QED
    BY <2>2 DEF A, B
<1>10. QED
  BY <1>8, <1>9

(* A block encloses what is in it, and a node is in the branch of the last *)
(* ELSEIF or ELSE before it, whatever the script: TreeFollowsTheText.      *)
THEOREM TheTreeIsTheTexts == ParserSpec => []TreeFollowsTheText
<1>1. TreeInv => TreeFollowsTheText
  <2> SUFFICES ASSUME TreeInv, phase = "parsed", NEW i \in 1 .. Len(p.tree), p.tree[i].parent # 0
               PROVE  LET node == p.tree[i]
                          blocks == {b \in 1 .. Len(p.tree) : p.tree[b].kind \in BlockKinds}
                      IN  \E b \in blocks :
                            LET block == p.tree[b]
                                branches == ClausesBefore(block.from, node.from, {"ELSEIF", "ELSE"})
                            IN  /\ block.from = node.parent
                                /\ block.from < node.from /\ node.to <= block.to
                                /\ block.kind = "if" =>
                                     node.branch =
                                       IF branches = {} THEN 0
                                       ELSE LET last == CHOOSE l \in branches : \A m \in branches : m <= l
                                            IN  IF text[last] = "ELSE" THEN -1
                                                ELSE Cardinality({l \in branches : text[l] = "ELSEIF"})
    BY DEF TreeFollowsTheText, BlockKinds
  <2> DEFINE node == p.tree[i]
  <2>1. InClosed(p, text, node)
    <3>1. Len(p.stack) = 0
      BY DEF TreeInv
    <3>2. ~InOpen(p, text, node)
      BY <3>1 DEF InOpen
    <3>3. QED
      BY <3>2 DEF TreeInv, Nested, Placed
  <2>2. node.from \in Int
    <3>1. node \in TreeNode
      BY ElementOfSeq DEF TreeInv, ParserInv, Sound, Locals
    <3>2. QED
      BY <3>1 DEF TreeNode
  <2> HIDE DEF node
  <2>3. PICK b \in 1 .. Len(p.tree) :
          /\ p.tree[b].kind \in BlockKinds
          /\ Encloses(text, p.tree[b].kind, p.tree[b].from, p.tree[b].lines, node)
          /\ node.to <= p.tree[b].to
    BY <2>1 DEF InClosed
  <2> DEFINE block == p.tree[b]
             branches == ClausesBefore(block.from, node.from, {"ELSEIF", "ELSE"})
             After(C) == IF C = {} THEN 0
                         ELSE LET last == CHOOSE l \in C : \A m \in C : m <= l
                              IN  IF text[last] = "ELSE" THEN -1
                                  ELSE Cardinality({l \in C : text[l] = "ELSEIF"})
  <2>4. ASSUME block.kind = "if" PROVE node.branch = After(branches)
    <3> DEFINE C == ClauseLines(text, Before(block.lines, node.from))
    <3>1. branches = C /\ C \in SUBSET Int
      BY <2>2, <2>4, ClausesOfBlock
    <3>2. IsBranch(text, C, node.branch)
      BY <2>3, <2>4 DEF Encloses
    <3> HIDE DEF C, branches
    <3>3. node.branch = After(C)
      BY <3>1, <3>2, BranchIsLast
    <3> HIDE DEF After
    <3>4. QED
      BY <3>1, <3>3
  <2>5. block.from = node.parent /\ block.from < node.from /\ node.to <= block.to
    BY <2>3 DEF Encloses
  <2>6. QED
    BY <2>3, <2>4, <2>5 DEF node
<1>2. QED
  BY <1>1, BlocksNest, PTL
=============================================================================
