--------------------------- MODULE ApfsOmapProofs ---------------------------
(***************************************************************************)
(* Proof that parse_as_object_map (src/kernel/src/fs/apfs/meta.rs) keeps  *)
(* every record of a sorted object-map node, for nodes of every size the  *)
(* single-leaf model admits and every set of oids and xids.                *)
(*                                                                         *)
(* The argument: keys arrive in their on-disk order, so each new key is   *)
(* after every key already in the map. ObjectMapKey::cmp then calls the   *)
(* new key Greater than each of them, the leaf search finds no stop and   *)
(* the insert appends. The map is at every step the list of the records   *)
(* parsed so far. That the new key is after all earlier ones, not just    *)
(* the one before it, is carried as a conjunct of the invariant, so no    *)
(* induction over the node is needed.                                      *)
(***************************************************************************)
EXTENDS ApfsOmap, SequenceTheorems, TLAPS

(* The record parse_as_object_map makes of the on-disk key at j.           *)
Rec(j) == [k |-> node[j], v |-> node[j]]

(* The map holds exactly the records of the keys parsed so far.            *)
OmapPrefix == omap = [j \in 1 .. i - 1 |-> Rec(j)]

(* The next key to parse is after every key already parsed.                *)
NodeAhead == i <= Len(node) => \A j \in 1 .. i - 1 : KeyBefore(node[j], node[i])

(* Parsing stops only after the last key.                                  *)
ParsedAll == pc # "parse" => i = Len(node) + 1

OmapInv ==
  /\ node \in SortedNodes
  /\ i \in 1 .. Len(node) + 1
  /\ pc \in {"parse", "lookup", "done"}
  /\ OmapPrefix
  /\ NodeAhead
  /\ ParsedAll

---------------------------------------------------------------------------
(* The parts of OmapAssumption the proofs use: ids are naturals and a     *)
(* node has a natural bound.                                               *)
LEMMA OmapBounds ==
  /\ Oids \subseteq Nat /\ Xids \subseteq Nat
  /\ MaxKeys \in Nat
BY OmapAssumption

(* The on-disk order against ObjectMapKey::cmp: a key after another one   *)
(* compares Greater to it, by oid or, for one oid, by xid.                 *)
LEMMA AfterIsGreater ==
  ASSUME NEW a \in Keys, NEW b \in Keys, KeyBefore(a, b)
  PROVE  OmapKeyCmp(b, a) = "Greater"
<1>1. a[1] \in Nat /\ a[2] \in Nat /\ b[1] \in Nat /\ b[2] \in Nat
  BY OmapBounds DEF Keys
<1>. QED  BY <1>1 DEF KeyBefore, OmapKeyCmp, NumCmp

(* The on-disk order is transitive.                                        *)
LEMMA KeyBeforeTrans ==
  ASSUME NEW a \in Keys, NEW b \in Keys, NEW c \in Keys,
         KeyBefore(a, b), KeyBefore(b, c)
  PROVE  KeyBefore(a, c)
<1>1. /\ a[1] \in Nat /\ a[2] \in Nat /\ b[1] \in Nat /\ b[2] \in Nat
      /\ c[1] \in Nat /\ c[2] \in Nat
  BY OmapBounds DEF Keys
<1>. QED  BY <1>1 DEF KeyBefore

(* A sorted node is a sequence of keys of at most MaxKeys entries.         *)
LEMMA SortedNodeSeq ==
  ASSUME NEW s \in SortedNodes
  PROVE  /\ s \in Seq(Keys)
         /\ Len(s) \in 0 .. MaxKeys
         /\ \A j \in 1 .. Len(s) - 1 : KeyBefore(s[j], s[j + 1])
<1>1. PICK m \in 0 .. MaxKeys : s \in [1 .. m -> Keys]
  BY DEF SortedNodes, BoundedSeq, SeqOf
<1>2. s \in Seq(Keys) /\ Len(s) = m
  BY <1>1, OmapBounds
<1>. QED  BY <1>1, <1>2 DEF SortedNodes

(* The leaf insert of a key after every key of the map appends it.         *)
LEMMA InsertAfterAll ==
  ASSUME NEW m \in Seq([k : Keys, v : Keys]), NEW q \in Keys,
         \A j \in 1 .. Len(m) : KeyBefore(m[j].k, q)
  PROVE  BTreeInsert(OmapKeyCmp, m, q, q) = Append(m, [k |-> q, v |-> q])
<1>. DEFINE e == [k |-> q, v |-> q]
            R == [k : Keys, v : Keys]
<1>1. \A j \in 1 .. Len(m) : OmapKeyCmp(q, m[j].k) = "Greater"
  <2>. SUFFICES ASSUME NEW j \in 1 .. Len(m)
                PROVE  OmapKeyCmp(q, m[j].k) = "Greater"
    OBVIOUS
  <2>1. m[j] \in R
    BY ElementOfSeq
  <2>2. m[j].k \in Keys
    BY <2>1
  <2>. QED  BY <2>2, AfterIsGreater
<1>2. /\ Search(OmapKeyCmp, m, q).found = FALSE
      /\ Search(OmapKeyCmp, m, q).at = Len(m) + 1
  BY <1>1 DEF Search
<1>3. SubSeq(m, 1, Len(m)) = m
  BY SubSeqFull
<1>4. SubSeq(m, Len(m) + 1, Len(m)) = << >>
  BY SubSeqEmpty
<1>5. e \in R /\ m \o << e >> \in Seq(R)
  BY ConcatProperties
<1>6. (m \o << e >>) \o << >> = m \o << e >>
  BY <1>5, ConcatEmptySeq
<1>8. InsertAt(m, Len(m) + 1, e)
        = SubSeq(m, 1, Len(m)) \o << e >> \o SubSeq(m, Len(m) + 1, Len(m))
  BY DEF InsertAt
<1>9. InsertAt(m, Len(m) + 1, e) = m \o << e >>
  BY <1>3, <1>4, <1>6, <1>8
<1>7. BTreeInsert(OmapKeyCmp, m, q, q) = InsertAt(m, Len(m) + 1, e)
  BY Zenon, <1>2 DEF BTreeInsert
<1>. QED  BY <1>7, <1>9

---------------------------------------------------------------------------
(* The records parsed so far form a sequence of i - 1 entries.             *)
LEMMA PrefixSeq ==
  ASSUME OmapInv
  PROVE  /\ omap \in Seq([k : Keys, v : Keys])
         /\ Len(omap) = i - 1
         /\ \A j \in 1 .. i - 1 : omap[j].k = node[j] /\ omap[j].v = node[j]
<1>1. node \in Seq(Keys) /\ i - 1 \in 0 .. Len(node)
  BY SortedNodeSeq DEF OmapInv
<1>2. \A j \in 1 .. i - 1 : Rec(j) \in [k : Keys, v : Keys]
  BY <1>1, ElementOfSeq DEF Rec
<1>3. omap \in Seq([k : Keys, v : Keys])
  BY <1>1, <1>2, IsASeq DEF OmapInv, OmapPrefix
<1>. QED  BY <1>1, <1>3 DEF OmapInv, OmapPrefix, Rec

(* The initial state: nothing parsed yet.                                  *)
LEMMA InitOmap == Init => OmapInv
<1>. SUFFICES ASSUME Init PROVE OmapInv
  OBVIOUS
<1>1. Len(node) \in Nat
  BY SortedNodeSeq DEF Init
<1>2. OmapPrefix
  BY DEF Init, OmapPrefix
<1>. QED  BY <1>1, <1>2 DEF Init, OmapInv, NodeAhead, ParsedAll

(* One insert of parse_as_object_map appends the next record, and the key *)
(* after it is after every key parsed.                                     *)
LEMMA ParseInsertOmap == OmapInv /\ ParseInsert => OmapInv'
<1>. SUFFICES ASSUME OmapInv, ParseInsert PROVE OmapInv'
  OBVIOUS
<1>1. /\ node \in Seq(Keys) /\ Len(node) \in 0 .. MaxKeys
      /\ \A j \in 1 .. Len(node) - 1 : KeyBefore(node[j], node[j + 1])
  BY SortedNodeSeq DEF OmapInv
<1>2. i \in 1 .. Len(node) /\ node[i] \in Keys
  BY <1>1, ElementOfSeq DEF OmapInv, ParseInsert
<1>3. /\ omap \in Seq([k : Keys, v : Keys])
      /\ Len(omap) = i - 1
      /\ \A j \in 1 .. i - 1 : omap[j].k = node[j] /\ omap[j].v = node[j]
  BY PrefixSeq
<1>4. \A j \in 1 .. Len(omap) : KeyBefore(omap[j].k, node[i])
  BY <1>2, <1>3 DEF OmapInv, NodeAhead
<1>5. omap' = Append(omap, [k |-> node[i], v |-> node[i]])
  BY <1>2, <1>3, <1>4, InsertAfterAll DEF ParseInsert
<1>0. node' = node /\ i' = i + 1
  BY DEF ParseInsert
<1>6. OmapPrefix'
  <2>0. \A j \in 1 .. i - 1 : omap[j] = [k |-> node[j], v |-> node[j]]
    BY DEF OmapInv, OmapPrefix, Rec
  <2>1. /\ DOMAIN omap' = 1 .. i
        /\ \A j \in 1 .. i : omap'[j] = [k |-> node[j], v |-> node[j]]
    BY <1>2, <1>3, <1>5, <2>0, AppendProperties
  <2>2. omap' \in [1 .. i -> [k : Keys, v : Keys]]
    <3>1. [k |-> node[i], v |-> node[i]] \in [k : Keys, v : Keys]
      BY <1>2
    <3>2. omap' \in Seq([k : Keys, v : Keys]) /\ Len(omap') = i
      BY <1>2, <1>3, <1>5, <3>1, AppendProperties
    <3>. QED  BY <3>2, LenProperties
  <2>3. omap' = [j \in 1 .. i |-> [k |-> node[j], v |-> node[j]]]
    BY Zenon, <2>1, <2>2
  <2>. QED  BY <1>0, <1>2, <2>3 DEF OmapPrefix, Rec
<1>7. NodeAhead'
  <2>. SUFFICES ASSUME i + 1 <= Len(node), NEW j \in 1 .. i
                PROVE  KeyBefore(node[j], node[i + 1])
    BY <1>0, <1>2 DEF NodeAhead
  <2>1. node[i + 1] \in Keys /\ node[j] \in Keys
    BY <1>1, <1>2, ElementOfSeq
  <2>2. KeyBefore(node[i], node[i + 1])
    BY <1>1, <1>2
  <2>3. CASE j = i
    BY <2>2, <2>3
  <2>4. CASE j < i
    <3>1. KeyBefore(node[j], node[i])
      BY <1>2, <2>4 DEF OmapInv, NodeAhead
    <3>. QED  BY <1>2, <2>1, <2>2, <3>1, KeyBeforeTrans
  <2>. QED  BY <1>2, <2>3, <2>4
<1>. QED  BY <1>2, <1>6, <1>7 DEF OmapInv, ParsedAll, ParseInsert

(* The inode inserts leave the object map alone.                           *)
LEMMA InodeInsertOmap == OmapInv /\ InodeInsert => OmapInv'
BY DEF OmapInv, OmapPrefix, NodeAhead, ParsedAll, Rec, InodeInsert

(* Parsing ends only after the last key of the node.                       *)
LEMMA ParseDoneOmap == OmapInv /\ ParseDone => OmapInv'
<1>. SUFFICES ASSUME OmapInv, ParseDone PROVE OmapInv'
  OBVIOUS
<1>1. Len(node) \in Nat
  BY SortedNodeSeq DEF OmapInv
<1>. QED  BY <1>1 DEF OmapInv, OmapPrefix, NodeAhead, ParsedAll, Rec, ParseDone

(* The lookup changes only the result.                                     *)
LEMMA LookupOmap == OmapInv /\ Lookup => OmapInv'
BY DEF OmapInv, OmapPrefix, NodeAhead, ParsedAll, Rec, Lookup

(* A stutter keeps the invariant.                                          *)
LEMMA StutterOmap == OmapInv /\ UNCHANGED vars => OmapInv'
BY DEF OmapInv, OmapPrefix, NodeAhead, ParsedAll, Rec, vars

(* After parsing the map holds one entry per on-disk record.               *)
LEMMA OmapInvKeeps == OmapInv => OmapKeepsVersions
<1>. SUFFICES ASSUME OmapInv, pc # "parse"
              PROVE  /\ Len(omap) = Len(node)
                     /\ {omap[j].v : j \in 1 .. Len(omap)} = Range(node)
  BY DEF OmapKeepsVersions
<1>1. node \in Seq(Keys) /\ i = Len(node) + 1
  BY SortedNodeSeq DEF OmapInv, ParsedAll
<1>2. /\ Len(omap) = Len(node)
      /\ \A j \in 1 .. Len(node) : omap[j].v = node[j]
  BY <1>1, PrefixSeq
<1>3. DOMAIN node = 1 .. Len(node)
  BY <1>1
<1>. QED  BY <1>2, <1>3 DEF Range

(* parse_as_object_map keeps every record of a sorted node: Spec keeps    *)
(* OmapKeepsVersions for all oids, xids and node sizes.                    *)
THEOREM ParseKeepsVersions == Spec => []OmapKeepsVersions
<1>1. OmapInv /\ [Next]_vars => OmapInv'
  BY ParseInsertOmap, InodeInsertOmap, ParseDoneOmap, LookupOmap, StutterOmap
  DEF Next
<1>. QED  BY InitOmap, <1>1, OmapInvKeeps, PTL DEF Spec

=============================================================================
