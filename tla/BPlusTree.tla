------------------------------ MODULE BPlusTree -------------------------------
(***************************************************************************)
(* The B+ tree index (src/bplus_tree.cpp): a header, linked leaves and,    *)
(* from the second leaf on, one internal root, each a record of its own in *)
(* the record store.  An insertion or deletion rewrites several records,   *)
(* one at a time; BPlusTreeCrash.tla says what happens when it stops       *)
(* between two of them.  Closing the file and opening the index again      *)
(* validates it.                                                           *)
(*                                                                         *)
(* Entries are <<key, record id>>; a leaf keeps them as a set, in the      *)
(* order of Less.  Records are named by numbers, and a new one takes the   *)
(* lowest that names no live record: an id says nothing but which record   *)
(* it is, so any other choice gives the same tree up to renaming.          *)
(***************************************************************************)
EXTENDS Integers, Sequences, SequencesExt, FiniteSets

CONSTANTS
  LeafCapacity,      \* kBPlusLeafCapacity
  InternalCapacity,  \* kBPlusInternalCapacity
  Universe           \* entries clients insert and erase, pairs of numbers

ASSUME CapacityAssumption ==
  LeafCapacity \in Nat \ {0} /\ InternalCapacity \in Nat \ {0, 1}
ASSUME UniverseAssumption == Universe \subseteq Int \X Int

VARIABLES
  store,   \* store[id]: the index record with this id
  handle,  \* BPlusTreeIndex: root_, first_leaf_, height_
  op,      \* the operation in progress: writes to come, and what it promises
  phase,   \* "open", "closed" or "rejected"
  model    \* the entries completed operations have left

vars == <<store, handle, op, phase, model>>

-----------------------------------------------------------------------------
\* Entries and nodes.
Less(e, f) == e[1] < f[1] \/ (e[1] = f[1] /\ e[2] < f[2])
Rank(entries, e) == Cardinality({f \in entries : Less(f, e)})
Sorted(entries) ==
  [n \in 1 .. Cardinality(entries) |-> CHOOSE e \in entries : Rank(entries, e) = n - 1]
High(entries) == CHOOSE e \in entries : \A f \in entries : ~Less(e, f)
Low(entries) == CHOOSE e \in entries : \A f \in entries : ~Less(f, e)

Nil == 0
Dead == [kind |-> "dead"]
Header(height, root, first) ==
  [kind |-> "header", height |-> height, root |-> root, first |-> first]
Leaf(entries, next) == [kind |-> "leaf", entries |-> entries, next |-> next]
Internal(children) == [kind |-> "internal", children |-> children]
Child(high, id) == [high |-> high, id |-> id]

\* The record store's replace, erase and insert.  Nodes have a fixed encoded
\* size, so that a replacement always fits.
Node(st, id) == IF id \in DOMAIN st THEN st[id] ELSE Dead
IsLeaf(st, id) == Node(st, id).kind = "leaf"
Put(st, id, node) == [st EXCEPT ![id] = node]
Delete(st, id) == Put(st, id, Dead)
NewId(st) == Min({id \in 1 .. Len(st) + 1 : Node(st, id) = Dead})
Add(st, node) == IF NewId(st) > Len(st) THEN Append(st, node) ELSE Put(st, NewId(st), node)

-----------------------------------------------------------------------------
\* load_chain: the leaves linked from `first`, as far as they can be read.
Chain(st, first) ==
  LET path[n \in Nat] ==
        IF n = 0 THEN IF IsLeaf(st, first) THEN <<first>> ELSE <<>>
        ELSE LET ids == path[n - 1]
                 next == IF ids = <<>> THEN Nil ELSE Node(st, Last(ids)).next IN
             IF next # Nil /\ IsLeaf(st, next) /\ next \notin ToSet(ids)
             THEN Append(ids, next) ELSE ids
  IN path[Len(st)]
Entries(st, id) == Node(st, id).entries
Contents(st, first) == UNION {Entries(st, id) : id \in ToSet(Chain(st, first))}

ChainValid(st, first) ==
  LET ids == Chain(st, first) IN
  /\ ids # <<>> /\ Node(st, Last(ids)).next = Nil
  /\ \A i \in DOMAIN ids : Entries(st, ids[i]) = {} => Len(ids) = 1
  /\ \A i \in DOMAIN ids : i > 1 => Less(High(Entries(st, ids[i - 1])), Low(Entries(st, ids[i])))

\* validate_tree
TreeValid(st, h) ==
  LET ids == Chain(st, h.first)
      root == Node(st, h.root) IN
  /\ ChainValid(st, h.first)
  /\ IF h.height = 1
     THEN h.root = h.first /\ Len(ids) = 1
     ELSE /\ root.kind = "internal"
          /\ Len(root.children) = Len(ids)
          /\ \A i \in DOMAIN ids :
               /\ Entries(st, ids[i]) # {}
               /\ root.children[i] = Child(High(Entries(st, ids[i])), ids[i])

HeaderId == 2

\* create: an empty leaf and the header.
NewStore == <<Leaf({}, Nil), Header(1, 1, 1)>>
Closed == [height |-> 0, root |-> Nil, first |-> Nil]
Opened(header) == [height |-> header.height, root |-> header.root, first |-> header.first]
NoOp == [writes |-> <<>>, handle |-> Closed, result |-> {}]

Init ==
  /\ store = NewStore
  /\ handle = Opened(Node(NewStore, HeaderId))
  /\ op = NoOp
  /\ phase = "open"
  /\ model = {}

-----------------------------------------------------------------------------
\* Operations.  `writes` are the contents of the store after each record the
\* operation writes.
Ready == phase = "open" /\ op = NoOp
Begin(writes, h, result) ==
  /\ op' = [writes |-> writes, handle |-> h, result |-> result]
  /\ UNCHANGED <<store, handle, phase, model>>

Children == Node(store, handle.root).children

\* route_entry and route_key: the first child whose separator is not less, or
\* the last child.
Route(children, candidates) ==
  IF candidates = {} THEN Len(children) ELSE Min(candidates)
RouteEntry(children, e) ==
  Route(children, {i \in DOMAIN children : ~Less(children[i].high, e)})
\* Mutant: a separator equal to the key is passed over.
RouteKeyPast(children, key) ==
  Route(children, {i \in DOMAIN children : children[i].high[1] > key})
RouteKey(children, key) ==
  Route(children, {i \in DOMAIN children : children[i].high[1] >= key})

ChildIndex(e) == RouteEntry(Children, e)
Target(e) == IF handle.height = 2 THEN Children[ChildIndex(e)].id ELSE handle.root
TargetLeaf(e) == Node(store, Target(e))

\* insert: the leaf has room.
\* Mutant: one entry too many is let in.
HasRoomForMore(entries) == Cardinality(entries) <= LeafCapacity
HasRoom(entries) == Cardinality(entries) < LeafCapacity
InsertInLeaf(e) ==
  LET grown == TargetLeaf(e).entries \cup {e}
      s1 == Put(store, Target(e), [TargetLeaf(e) EXCEPT !.entries = grown])
      s2 == Put(s1, handle.root, Internal([Children EXCEPT ![ChildIndex(e)].high = High(grown)])) IN
  /\ e \notin TargetLeaf(e).entries
  /\ HasRoom(TargetLeaf(e).entries)
  /\ Begin(IF handle.height = 2 THEN <<s1, s2>> ELSE <<s1>>, handle, model \cup {e})

\* The two halves of a split leaf are written: the right one as a new record.
\* Mutant: the old record is cut before the new one exists, and linked later.
HalvesLeftFirst(id, left, right, next) ==
  <<Put(store, id, Leaf(left, next)),
    Put(Add(store, Leaf(right, next)), id, Leaf(left, NewId(store)))>>
Halves(id, left, right, next) ==
  LET s1 == Add(store, Leaf(right, next))
  IN <<s1, Put(s1, id, Leaf(left, NewId(store)))>>

\* insert: the leaf is split at its middle and a separator added to the root,
\* or a root made.  A full root refuses (PageFull) before anything is written.
InsertSplitting(e) ==
  LET all == Sorted(TargetLeaf(e).entries \cup {e})
      middle == Len(all) \div 2
      left == ToSet(SubSeq(all, 1, middle))
      right == ToSet(SubSeq(all, middle + 1, Len(all)))
      w == Halves(Target(e), left, right, TargetLeaf(e).next)
      leftChild == Child(High(left), Target(e))
      rightChild == Child(High(right), NewId(store))
      newRoot == Internal(<<leftChild, rightChild>>)
      rootId == NewId(w[2])
      s3 == Add(w[2], newRoot)
      s4 == Put(s3, HeaderId, Header(2, rootId, handle.first))
      grownRoot == Internal(InsertAt([Children EXCEPT ![ChildIndex(e)] = leftChild],
                                     ChildIndex(e) + 1, rightChild)) IN
  /\ e \notin TargetLeaf(e).entries
  /\ ~HasRoom(TargetLeaf(e).entries)
  /\ IF handle.height = 1
     THEN Begin(w \o <<s3, s4>>, [handle EXCEPT !.height = 2, !.root = rootId], model \cup {e})
     ELSE /\ Len(Children) < InternalCapacity
          /\ Begin(Append(w, Put(w[2], handle.root, grownRoot)), handle, model \cup {e})

\* erase: the leaf keeps an entry, or is the only one.
\* Mutant: the separator of the leaf is left as it was.
EraseInLeafOnly(e) ==
  /\ e \in TargetLeaf(e).entries
  /\ handle.height = 1 \/ TargetLeaf(e).entries # {e}
  /\ Begin(<<Put(store, Target(e), [TargetLeaf(e) EXCEPT !.entries = @ \ {e}])>>, handle, model \ {e})
EraseInLeaf(e) ==
  LET rest == TargetLeaf(e).entries \ {e}
      s1 == Put(store, Target(e), [TargetLeaf(e) EXCEPT !.entries = rest])
      s2 == Put(s1, handle.root, Internal([Children EXCEPT ![ChildIndex(e)].high = High(rest)])) IN
  /\ e \in TargetLeaf(e).entries
  /\ handle.height = 1 \/ rest # {}
  /\ Begin(IF handle.height = 2 THEN <<s1, s2>> ELSE <<s1>>, handle, model \ {e})

\* erase: the emptied leaf is unlinked from its predecessor and its root, then
\* deleted; it is never rewritten empty.  Links that do not match the root are
\* corruption, and refused before anything is written.
Predecessor(e) == Children[ChildIndex(e) - 1].id
Unlinked(e) ==
  IF ChildIndex(e) = 1 THEN <<>>
  ELSE <<Put(store, Predecessor(e), [Node(store, Predecessor(e)) EXCEPT !.next = TargetLeaf(e).next])>>
LastOr(writes, st) == IF writes = <<>> THEN st ELSE Last(writes)
Empties(e) ==
  /\ handle.height = 2 /\ TargetLeaf(e).entries = {e}
  /\ TargetLeaf(e).next = IF ChildIndex(e) < Len(Children) THEN Children[ChildIndex(e) + 1].id ELSE Nil
  /\ ChildIndex(e) > 1 => Node(store, Predecessor(e)).next = Target(e)

EraseLeaf(e) ==
  LET i == ChildIndex(e)
      w == Unlinked(e)
      s1 == Put(LastOr(w, store), handle.root, Internal(RemoveAt(Children, i)))
      first == IF i = 1 THEN TargetLeaf(e).next ELSE handle.first
      s2 == IF i = 1 THEN <<Put(s1, HeaderId, Header(2, handle.root, first))>> ELSE <<>> IN
  /\ Empties(e) /\ Len(Children) > 2
  /\ Begin(w \o <<s1>> \o s2 \o <<Delete(LastOr(s2, s1), Target(e))>>,
           [handle EXCEPT !.first = first], model \ {e})

\* The last but one leaf goes, and the root with it.
\* Mutant: the collapsed root stays in the store.
CollapseKeepsRoot(e) ==
  LET i == ChildIndex(e)
      w == Unlinked(e)
      remaining == Children[3 - i].id
      first == IF i = 1 THEN remaining ELSE handle.first
      s1 == Put(LastOr(w, store), HeaderId, Header(1, remaining, first)) IN
  /\ Empties(e) /\ Len(Children) = 2
  /\ Begin(w \o <<s1, Delete(s1, Target(e))>>,
           [height |-> 1, root |-> remaining, first |-> first], model \ {e})
Collapse(e) ==
  LET i == ChildIndex(e)
      w == Unlinked(e)
      remaining == Children[3 - i].id
      first == IF i = 1 THEN remaining ELSE handle.first
      s1 == Put(LastOr(w, store), HeaderId, Header(1, remaining, first))
      s2 == Delete(s1, handle.root) IN
  /\ Empties(e) /\ Len(Children) = 2
  /\ Begin(w \o <<s1, s2, Delete(s2, Target(e))>>,
           [height |-> 1, root |-> remaining, first |-> first], model \ {e})

Insert(e) == Ready /\ (InsertInLeaf(e) \/ InsertSplitting(e))
Erase(e) == Ready /\ (EraseInLeaf(e) \/ EraseLeaf(e) \/ Collapse(e))

\* The next record is written; after the last one root_, first_leaf_ and
\* height_ are assigned and the call returns.
WriteRecord ==
  /\ phase = "open" /\ op # NoOp
  /\ store' = Head(op.writes)
  /\ IF Len(op.writes) = 1
     THEN op' = NoOp /\ handle' = op.handle /\ model' = op.result
     ELSE op' = [op EXCEPT !.writes = Tail(@)] /\ UNCHANGED <<handle, model>>
  /\ UNCHANGED phase

Close ==
  /\ Ready
  /\ phase' = "closed"
  /\ handle' = Closed
  /\ UNCHANGED <<store, op, model>>

\* open, in a new process: decode_header and validate_tree.
HeaderNode == Node(store, HeaderId)
LiveSlots == {id \in DOMAIN store : Node(store, id) # Dead}
Reachable(h) == {HeaderId, h.root} \cup ToSet(Chain(store, h.first))
Openable == HeaderNode.kind = "header" /\ TreeValid(store, HeaderNode)
Open ==
  /\ phase = "closed" /\ Openable
  /\ phase' = "open"
  /\ handle' = Opened(HeaderNode)
  /\ model' = Contents(store, HeaderNode.first)
  /\ op' = NoOp
  /\ UNCHANGED store

Next ==
  \/ \E e \in Universe : Insert(e) \/ Erase(e)
  \/ WriteRecord \/ Close \/ Open

Spec == Init /\ [][Next]_vars

-----------------------------------------------------------------------------
\* Lookups return entries in the order in which they meet them, or throw.  A
\* bound or limit is {n}, a missing one Absent.
Absent == {}
Returns(entries) == [throws |-> FALSE, entries |-> entries]
Throws == [throws |-> TRUE, entries |-> <<>>]

\* visit_from: the entries of the leaves, in order.  It throws after a leaf
\* whose next one cannot be loaded or was visited before.
Leaves(ids) == UNION {Entries(store, id) : id \in ToSet(ids)}
Listed(ids) ==
  LET list[n \in 0 .. Len(ids)] ==
        IF n = 0 THEN <<>> ELSE list[n - 1] \o Sorted(Entries(store, ids[n]))
  IN list[Len(ids)]
Breaks(ids) == ids = <<>> \/ Node(store, Last(ids)).next # Nil

\* The visitors of find and range: entries in `passed` are passed over, the
\* first in `beyond` ends the walk, the others are kept until there are enough.
Collect(met, passed, beyond, limit) ==
  LET walk[n \in 0 .. Len(met)] ==
        IF n = 0 THEN [found |-> <<>>, done |-> FALSE]
        ELSE LET w == walk[n - 1] IN
             IF w.done \/ met[n] \in passed THEN w
             ELSE IF met[n] \in beyond THEN [found |-> w.found, done |-> TRUE]
             ELSE [found |-> Append(w.found, met[n]), done |-> limit = {Len(w.found) + 1}]
  IN walk[Len(met)]
Outcome(walk, breaks) == IF breaks /\ ~walk.done THEN Throws ELSE Returns(walk.found)

\* find: from the routed leaf on, up to the first leaf that ends behind the key.
FindFrom(key) == IF handle.height = 2 THEN Children[RouteKey(Children, key)].id ELSE handle.root
Find(key, limit) ==
  LET ids == Chain(store, FindFrom(key))
      stops == {i \in DOMAIN ids : Entries(store, ids[i]) # {} /\ High(Entries(store, ids[i]))[1] > key}
      visited == IF stops = {} THEN ids ELSE SubSeq(ids, 1, Min(stops))
      others == {e \in Leaves(visited) : e[1] # key} IN
  IF limit = {0} THEN Returns(<<>>)
  ELSE Outcome(Collect(Listed(visited), others, {}, limit), stops = {} /\ Breaks(ids))

\* range: from the leaf the lower bound routes to, or the first, up to the
\* first entry above the upper bound.
RangeFrom(lower) ==
  IF lower # Absent /\ handle.height = 2
  THEN Children[RouteKey(Children, CHOOSE k \in lower : TRUE)].id ELSE handle.first
Below(entries, lower) == {e \in entries : \E k \in lower : e[1] < k}
\* Mutant: the upper bound itself ends the walk.
AtOrAbove(entries, upper) == {e \in entries : \E k \in upper : e[1] >= k}
Above(entries, upper) == {e \in entries : \E k \in upper : e[1] > k}
RangeEntries(lower, upper, limit) ==
  LET ids == Chain(store, RangeFrom(lower))
      all == Leaves(ids) IN
  IF \E low \in lower, up \in upper : low > up THEN Throws
  ELSE IF limit = {0} THEN Returns(<<>>)
  ELSE Outcome(Collect(Listed(ids), Below(all, lower), Above(all, upper), limit), Breaks(ids))

-----------------------------------------------------------------------------
Keys == {e[1] : e \in Universe}
Bounds == {{k} : k \in Keys} \cup {Absent}
Limits == {{n} : n \in 0 .. Cardinality(Universe)} \cup {Absent}

NodeOK(node) ==
  CASE node.kind = "leaf" -> node.entries \subseteq Universe /\ Cardinality(node.entries) <= LeafCapacity
    [] node.kind = "internal" -> Len(node.children) \in 2 .. InternalCapacity
    [] node.kind = "header" -> node.height \in {1, 2}
    [] OTHER -> node = Dead

TypeOK ==
  /\ \A id \in DOMAIN store : NodeOK(Node(store, id))
  /\ handle.height \in {0, 1, 2}
  /\ phase \in {"open", "closed", "rejected"}
  /\ model \subseteq Universe /\ op.result \subseteq Universe

\* Between operations, open would accept what the handle works on, and finds in
\* it exactly the entries inserted and not erased: splits, separators, promotion
\* and collapse of the root and the first-leaf pointer never lose, repeat or
\* misplace one.
TreeHoldsModel ==
  Ready => /\ TreeValid(store, handle)
           /\ Opened(HeaderNode) = handle
           /\ Contents(store, handle.first) = model

\* What a lookup owes: the first entries, all of them without a limit.
Take(entries, limit) == SubSeq(entries, 1, Min({Len(entries)} \cup limit))
Within(e, lower, upper) == (\A k \in lower : e[1] >= k) /\ (\A k \in upper : e[1] <= k)

\* find returns every entry of its key in order, whatever leaves duplicates have
\* spread over, and a limit only cuts the end off.
FindIsComplete ==
  Ready => \A k \in Keys, n \in Limits :
             Find(k, n) = Returns(Take(Sorted({e \in model : e[1] = k}), n))

\* range refuses bounds that cross, and returns every entry within others: walking the
\* chain it meets them in order, starts early enough, and stops neither at the end of a
\* leaf nor before the last entry; a limit only cuts the end off.
RangeIsComplete ==
  Ready => \A lower, upper \in Bounds, n \in Limits :
             RangeEntries(lower, upper, n) =
               IF \A k \in lower, m \in upper : k <= m
               THEN Returns(Take(Sorted({e \in model : Within(e, lower, upper)}), n))
               ELSE Throws

\* Every node record of the store belongs to the tree: emptied and collapsed nodes
\* are deleted, and none that is deleted is still referred to, so that growing
\* and shrinking an index again and again does not fill the file.
NoNodeLeaks == Ready => LiveSlots = Reachable(handle)
=============================================================================
