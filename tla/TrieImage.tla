----------------------------- MODULE TrieImage -----------------------------
(***************************************************************************)
(* ImmutableTrie: a dictionary packed into an array of bytes, and what is  *)
(* read back from it (pyis/ops/text/immutable_trie.cpp).                   *)
(*                                                                         *)
(* The byte is a parameter: a cell has CellBits bits (8 in the code), a    *)
(* uint32_t has four cells, a char is a cell whose upper half is negative. *)
(* Everything the code derives from the width of a byte (tags, field       *)
(* widths, table sizes) is derived from CellBits here, so that small cells *)
(* bring small dictionaries to the limits that bytes bring large ones to.  *)
(* A dictionary is a list of <<key, value>>; keys are not empty and hold   *)
(* no zero byte.  The magic bits of the edge tags are never read and left  *)
(* out.                                                                    *)
(***************************************************************************)
EXTENDS Integers, SequencesExt

CONSTANTS
  CellBits,      \* bits of a cell: 8
  MaxEdgeList,   \* MAX_COUNT_EDGE_LIST_: 15
  Separator, AnyWord, AnyChar,  \* the bytes ' ', '*', '?'
  Junk           \* what a cell of memory nobody has written holds

Radix == 2 ^ CellBits
Byte == 0 .. Radix - 1
Specials == {Separator, AnyWord, AnyChar}

ASSUME ImageAssumption ==
  /\ CellBits \in Nat \ (0 .. 3)
  /\ MaxEdgeList \in 1 .. Radix \div 4 - 1
  /\ Specials \subseteq 1 .. Radix \div 2 - 1
  /\ Junk \in Byte

(* A char is signed: these bytes index the tables below from behind. *)
IsNegative(b) == b >= Radix \div 2

EdgeTableTag == Radix - 1
EdgeListTag == Radix - 2
FollowInternalMore == Radix - 3
FollowLeafMore == Radix - 4
FollowMin == FollowLeafMore
FollowMax == FollowInternalMore

NoMatch == -1
Leaf == 0
Internal == 1

-----------------------------------------------------------------------------
(***************************************************************************)
(* ImmutableTrieConstructor: the tree.  A node is named by the bytes that  *)
(* lead to it; kids are in the order they were added, data is the values   *)
(* set there, the last of which counts.                                    *)
(***************************************************************************)
AddChild(kids, c) == IF Contains(kids, c) THEN kids ELSE Append(kids, c)

Tree(data) ==
  LET below(p) == SelectSeq(data, LAMBDA d : IsStrictPrefix(p, d[1]))
      set(p) == SelectSeq(data, LAMBDA d : d[1] = p)
  IN  [p \in {<<>>} \cup UNION {Prefixes(d[1]) : d \in ToSet(data)} |->
         [kids |-> FoldLeft(LAMBDA kids, d : AddChild(kids, d[1][Len(p) + 1]),
                            <<>>, below(p)),
          data |-> [i \in 1 .. Len(set(p)) |-> set(p)[i][2]]]]

HasData(node) == node.data # <<>>
Data(node) == Last(node.data)
IsLeaf(node) == node.kids = <<>>

(* Nodes whose only child is reached by b, has data, and is a leaf or not. *)
SingleFollows(tree, b, leaf) ==
  {p \in DOMAIN tree : /\ tree[p].kids = <<b>>
                       /\ HasData(tree[Append(p, b)])
                       /\ IsLeaf(tree[Append(p, b)]) = leaf}

Occurrences(data, b) ==
  FoldLeft(LAMBDA n, d : n + Len(SelectSeq(d[1], LAMBDA c : c = b)), 0, data)

(***************************************************************************)
(* The histograms are three neighbouring arrays indexed by a signed char:  *)
(* for a negative one the cell that is counted up is in the array in front *)
(* (undefined; this is where the members are).                             *)
(***************************************************************************)
FollowCount(tree, b, leaf) ==
  IF ~IsNegative(b) THEN Cardinality(SingleFollows(tree, b, leaf))
  ELSE IF leaf THEN Cardinality(SingleFollows(tree, b, FALSE)) ELSE 0

CharCount(data, tree, b) ==
  IF ~IsNegative(b) THEN Occurrences(data, b)
  ELSE Cardinality(SingleFollows(tree, b, TRUE))

(* In front of the first is translator_: four bytes belong to one counter. *)
Translator(data, i) ==
  LET b == (i + 3 * Radix) \div 4
  IN  IF i % 4 = 0 THEN (i + Occurrences(data, b)) % Radix ELSE i

(***************************************************************************)
(* BuildTranslator: bytes that occur are numbered from 4, in their order.  *)
(***************************************************************************)
Numbered(data, tree) ==
  {c \in {Translator(data, i) : i \in Byte} \ Specials :
      CharCount(data, tree, c) > 0}

MaxCharVal(data, tree) == 3 + Cardinality(Numbered(data, tree))

Translation(data, tree) ==
  LET tr == [i \in Byte |-> Translator(data, i)]
      num == Numbered(data, tree)
      first == [c \in num |-> CHOOSE j \in Byte :
                                tr[j] = c /\ \A k \in 0 .. j - 1 : tr[k] # c]
  IN  [i \in Byte |->
         CASE tr[i] = Separator -> 1
           [] tr[i] = AnyWord   -> 2
           [] tr[i] = AnyChar   -> 3
           [] tr[i] \in num     -> 3 + Cardinality({c \in num : first[c] <= first[tr[i]]})
           [] OTHER             -> 0]

-----------------------------------------------------------------------------
(***************************************************************************)
(* BuildSingleFollowTranslator: with many characters the tags for "one     *)
(* child, which has data" run out and go to the most frequent ones.  An    *)
(* entry is a byte, plus Radix for a leaf; it has the rank of its count.   *)
(***************************************************************************)
NeedsTable(max) == (max + 1) * 3 - 1 > FollowMax

FollowEntries == 0 .. 2 * Radix - 1

EntryCount(tree, e) == FollowCount(tree, e % Radix, e >= Radix)

FollowRank(tree, e) ==
  Cardinality({f \in FollowEntries :
     \/ EntryCount(tree, f) > EntryCount(tree, e)
     \/ EntryCount(tree, f) = EntryCount(tree, e) /\ f > e})

FollowSize(tree, max) ==
  LET used == Cardinality({e \in FollowEntries : EntryCount(tree, e) > 0})
      room == FollowMin - max - 1
  IN  IF room < used THEN room ELSE used

HasRank(tree, max, e) ==
  EntryCount(tree, e) > 0 /\ FollowRank(tree, e) < FollowSize(tree, max)

(* The elements are bytes: the flag for an internal node does not fit.     *)
FollowDec(tree, max, tl) ==
  [k \in 1 .. FollowSize(tree, max) |->
     tl[(CHOOSE e \in FollowEntries :
           EntryCount(tree, e) > 0 /\ FollowRank(tree, e) = k - 1) % Radix]]

-----------------------------------------------------------------------------
(* ceil(log2(n)): the code takes it from doubles, exactly for a uint32_t.  *)
CeilLog2(n) == CHOOSE k \in 0 .. 4 * CellBits :
                 2 ^ k >= n /\ (k = 0 \/ 2 ^ (k - 1) < n)

PayloadSize(max) == (CeilLog2(max + 1) + CellBits - 1) \div CellBits

OffsetSize(bytes) == (CeilLog2(bytes + 1) + 2 + CellBits - 1) \div CellBits

EmptyOffset(size) == Radix ^ size - 1

TableOffsetSize(bytes) ==
  LET size == OffsetSize(bytes)
  IN  IF bytes >= EmptyOffset(size) \div 4 THEN size + 1 ELSE size

EncodeUINT(x, size) == [i \in 1 .. size |-> (x \div Radix ^ (i - 1)) % Radix]

(***************************************************************************)
(* EncodeTrieNode: a node without children is nothing, one child is a tag  *)
(* (EncodeTrieNodeSingleFollow), a few are a list of edges, more are a     *)
(* table of offsets with an entry for every character.  Offsets count from *)
(* the end of the header; in front of where one points is the data.        *)
(***************************************************************************)
FollowTag(tree, c, leaf, max, tl) ==
  LET e == IF leaf THEN c + Radix ELSE c
  IN  IF ~NeedsTable(max)
      THEN <<tl[c] + (IF leaf THEN max + 1 ELSE 2 * max + 2)>>
      ELSE IF HasRank(tree, max, e)
      THEN <<FollowRank(tree, e) + max + 1>>
      ELSE <<IF leaf THEN FollowLeafMore ELSE FollowInternalMore, tl[c]>>

EncodeOffset(node, offset, size) ==
  EncodeUINT(4 * offset + (IF HasData(node) THEN 2 ELSE 0)
                        + (IF IsLeaf(node) THEN 0 ELSE 1), size)

EncodeTrie(tree, max, payload, tl) ==
  LET enc[p \in DOMAIN tree] ==
        LET kids == tree[p].kids
            n == Len(kids)
            child(i) == tree[Append(p, kids[i])]
            own(i) == IF HasData(child(i)) THEN EncodeUINT(Data(child(i)), payload)
                      ELSE <<>>
            parts == [i \in 1 .. n |-> own(i) \o enc[Append(p, kids[i])]]
            body == FlattenSeq(parts)
            offset(i) == Len(FlattenSeq(SubSeq(parts, 1, i - 1))) + Len(own(i))
            list == LET size == OffsetSize(Len(body))
                    IN  <<EdgeListTag, size - 1 + 4 * n>>
                          \o FlattenSeq([i \in 1 .. n |->
                               <<tl[kids[i]]>> \o EncodeOffset(child(i), offset(i), size)])
            table == LET size == TableOffsetSize(Len(body))
                         at(code) == {i \in 1 .. n : tl[kids[i]] = code}
                     IN  <<EdgeTableTag, size - 1>>
                           \o FlattenSeq([code \in 1 .. max |->
                                IF at(code) = {} THEN EncodeUINT(EmptyOffset(size), size)
                                ELSE LET i == Max(at(code))
                                     IN  EncodeOffset(child(i), offset(i), size)])
            follow == IF HasData(child(1))
                      THEN FollowTag(tree, kids[1], IsLeaf(child(1)), max, tl)
                      ELSE <<tl[kids[1]]>>
        IN  CASE n = 0 -> <<>>
              [] n = 1 -> follow \o body
              [] n \in 2 .. MaxEdgeList -> list \o body
              [] OTHER -> table \o body
  IN  enc[<<>>]

(* What the constructor leaves: the fields of an ImmutableTrie.            *)
Construct(data) ==
  LET tree == Tree(data)
      max == MaxCharVal(data, tree)
      tl == Translation(data, tree)
      payload == PayloadSize(Max({0} \cup {d[2] : d \in ToSet(data)}))
  IN  [max |-> max, payload |-> payload, translate |-> tl, table |-> NeedsTable(max),
       dec |-> IF NeedsTable(max) THEN FollowDec(tree, max, tl) ELSE <<>>,
       image |-> EncodeTrie(tree, max, payload, tl)]

(***************************************************************************)
(* WriteToTrie copies the decoding table as elements of two cells each: an *)
(* entry holds two of the entries, and those at the end what lies behind.  *)
(***************************************************************************)
WriteToTrie(c) ==
  LET at(k) == IF k <= Len(c.dec) THEN c.dec[k] ELSE Junk
  IN  [c EXCEPT !.dec = [k \in 1 .. Len(c.dec) |-> at(2 * k - 1) + Radix * at(2 * k)]]

-----------------------------------------------------------------------------
(***************************************************************************)
(* Reading the image.  A position is that of the next cell; beyond the end *)
(* is memory nobody has written.  Shifting a mask by its whole width       *)
(* leaves it as it is, so a payload of no cells is read as four.           *)
(***************************************************************************)
CellAt(t, i) == IF i \in 1 .. Len(t.image) THEN t.image[i] ELSE Junk

DecodeUInt32(t, i, size) ==
  LET n == IF size = 0 THEN 4 ELSE size
  IN  FoldFunction(LAMBDA x, y : x + y, 0, [k \in 0 .. n - 1 |-> CellAt(t, i + k) * Radix ^ k])

DecodeData(t, i) == DecodeUInt32(t, i - t.payload, t.payload)

Edge(code, ptr, state, has) == [code |-> code, ptr |-> ptr, state |-> state, has |-> has]

OffsetEdge(t, code, at, size, base) ==
  LET offset == DecodeUInt32(t, at, size)
  IN  Edge(code, base + offset \div 4, offset % 2, (offset \div 2) % 2 = 1)

(***************************************************************************)
(* ListChildren: the edges that leave the node at position i.              *)
(***************************************************************************)
EdgeTable(t, i) ==
  LET size == (CellAt(t, i) % 4) + 1
      base == i + 1 + size * t.max
      at(code) == i + 1 + (code - 1) * size
      missing(code) == DecodeUInt32(t, at(code), size) \div 4 = EmptyOffset(size) \div 4
      codes == SelectSeq([c \in 1 .. t.max |-> c], LAMBDA c : ~missing(c))
  IN  [k \in 1 .. Len(codes) |-> OffsetEdge(t, codes[k], at(codes[k]), size, base)]

EdgeList(t, i) ==
  LET size == (CellAt(t, i) % 4) + 1
      count == CellAt(t, i) \div 4
      at(k) == i + 1 + (k - 1) * (size + 1)
  IN  [k \in 1 .. count |->
         OffsetEdge(t, CellAt(t, at(k)), at(k) + 1, size, at(count + 1))]

SingleFollow(t, tag, i) ==
  LET code == (tag - t.max - 1) % (t.max + 1)
      entry == t.dec[tag - t.max]
  IN  IF tag <= t.max THEN <<Edge(tag, i, Internal, FALSE)>>
      ELSE IF ~t.table
      THEN <<Edge(code, i + t.payload, IF tag <= 2 * t.max + 1 THEN Leaf ELSE Internal, TRUE)>>
      ELSE IF tag < FollowMin
      THEN <<Edge(entry % Radix, i + t.payload, entry \div Radix, TRUE)>>
      ELSE <<Edge(CellAt(t, i), i + 1 + t.payload, tag % 2, TRUE)>>

Edges(t, i) ==
  LET tag == CellAt(t, i)
  IN  CASE tag <= FollowMax   -> SingleFollow(t, tag, i + 1)
        [] tag = EdgeListTag  -> EdgeList(t, i + 1)
        [] tag = EdgeTableTag -> EdgeTable(t, i + 1)

(* Decode: the first of them with the code asked for.                      *)
Decode(t, i, code) ==
  LET found == SelectSeq(Edges(t, i), LAMBDA e : e.code = code)
  IN  IF found = <<>> THEN Edge(code, i, NoMatch, FALSE) ELSE Head(found)

(***************************************************************************)
(* Match: <<>> is "Key not found".  Where a later Match could go on, which *)
(* no operator asks for, is left out.                                      *)
(***************************************************************************)
Match(t, key) ==
  LET step(e, k) ==
        LET code == t.translate[key[k]]
            next == Decode(t, e.ptr, code)
        IN  IF e.state = NoMatch \/ code = 0 THEN [e EXCEPT !.state = NoMatch]
            ELSE IF next.state = Leaf /\ k # Len(key) THEN [next EXCEPT !.state = NoMatch]
            ELSE next
      end == FoldLeftDomain(step, Edge(0, 1, Internal, FALSE), key)
  IN  IF end.state # NoMatch /\ end.has THEN <<DecodeData(t, end.ptr)>> ELSE <<>>

Detranslate(t, code) ==
  LET from == {i \in Byte : t.translate[i] = code}
  IN  IF code = 0 \/ from = {} \/ Separator \in from THEN Separator ELSE Max(from)

(***************************************************************************)
(* Items: a depth-first walk with a stack of edges, and of how many        *)
(* children of each node on the path are left.  Every round takes an edge, *)
(* of which a tree has fewer than its image has cells.                     *)
(***************************************************************************)
(* Mutant: only the innermost finished node is left.                       *)
UnwindOnce(left, str) ==
  IF left # <<>> /\ Last(left) = 0
  THEN [left |-> Front(left), str |-> IF str = <<>> THEN str ELSE Front(str)]
  ELSE [left |-> left, str |-> str]

Unwind(left, str) ==
  LET open == SelectLastInSeq(left, LAMBDA n : n > 0)
  IN  [left |-> SubSeq(left, 1, open),
       str |-> SubSeq(str, 1, Max({0, Len(str) - (Len(left) - open)}))]

Items(t) ==
  LET push(w, es) == [w EXCEPT !.stack = es \o @, !.left = Append(@, Len(es))]
      visit(w, k) ==
        IF w.stack = <<>> THEN w
        ELSE LET e == Head(w.stack)
                 str == Append(w.str, Detranslate(t, e.code))
                 out == IF e.has THEN Append(w.out, <<str, DecodeData(t, e.ptr)>>)
                        ELSE w.out
                 popped == [stack |-> Tail(w.stack), out |-> out,
                            left |-> ReplaceAt(w.left, Len(w.left), Last(w.left) - 1),
                            str |-> IF e.state = Leaf THEN Front(str) ELSE str]
                 full == IF e.state = Internal THEN push(popped, Edges(t, e.ptr)) ELSE popped
                 u == Unwind(full.left, full.str)
             IN  [full EXCEPT !.left = u.left, !.str = u.str]
      start == push([stack |-> <<>>, left |-> <<>>, str |-> <<>>, out |-> <<>>], Edges(t, 1))
  IN  FoldLeftDomain(visit, start, t.image).out
=============================================================================
