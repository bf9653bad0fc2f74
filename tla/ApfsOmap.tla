------------------------------ MODULE ApfsOmap ------------------------------
(***************************************************************************)
(* The key orders of src/kernel/src/fs/apfs/meta.rs and the maps built on  *)
(* them. ObjectMap is a BTreeMap<ObjectMapKey, ObjectMapValue> filled by   *)
(* parse_as_object_map from the keys of an on-disk object-map node, in     *)
(* their on-disk order (ascending oid, then xid); InodeMap is a            *)
(* BTreeMap<JInodeKey, _> ordered by JKey::cmp.                            *)
(*                                                                         *)
(* A BTreeMap of at most 11 entries is one leaf, which alloc searches      *)
(* linearly: the first key k with key.cmp(k) # Greater is a hit when Equal *)
(* (insert then replaces the value and keeps the old key) and the place to *)
(* insert when Less. The model uses that search, so it is exact for maps   *)
(* below 12 entries. An object-map value is named by the on-disk record    *)
(* <<oid, xid>> it came from.                                              *)
(***************************************************************************)
EXTENDS Naturals, Sequences, SequencesExt, FiniteSets

CONSTANTS
  Oids,      \* object ids in the node
  Xids,      \* transaction ids
  MaxKeys,   \* btn_nkeys bound (at most 11: a single leaf)
  IdBits,    \* OBJ_TYPE_SHIFT, scaled: ids are the low IdBits bits
  Inodes,    \* inode numbers
  JTypes     \* j_obj_types values (the high bits)

ASSUME OmapAssumption ==
  /\ Oids \subseteq Nat /\ Xids \subseteq Nat
  /\ MaxKeys \in 1 .. 11
  /\ IdBits \in Nat \ {0}
  /\ Inodes \subseteq 0 .. 2^IdBits - 1
  /\ JTypes \subseteq Nat

Keys == Oids \X Xids

(* u64::cmp *)
NumCmp(a, b) == IF a < b THEN "Less" ELSE IF a = b THEN "Equal" ELSE "Greater"

(* A plausible slip: keys of one object compare Equal whatever the xid.  *)
OmapKeyCmpIgnoresXid(a, b) ==
  IF NumCmp(a[1], b[1]) = "Equal" THEN "Equal" ELSE NumCmp(a[1], b[1])

(* ObjectMapKey::cmp: equal oids compare Equal unless self's xid is the   *)
(* greater one.                                                            *)
OmapKeyCmp(a, b) ==
  IF NumCmp(a[1], b[1]) = "Equal"
  THEN IF a[2] > b[2] THEN "Greater" ELSE "Equal"
  ELSE NumCmp(a[1], b[1])

(* JKey::cmp with OBJ_ID_MASK and OBJ_TYPE_SHIFT scaled to IdBits: the    *)
(* type is taken from the already masked id.                               *)
OBJ_ID_MASKED(x) == x % 2^IdBits
JKeyCmp(a, b) ==
  LET objL == OBJ_ID_MASKED(a)
      objR == OBJ_ID_MASKED(b)
  IN IF NumCmp(objL, objR) = "Equal" THEN "Equal"
     ELSE NumCmp(objL \div 2^IdBits, objR \div 2^IdBits)

(* JInodeKey::cmp compares the headers.                                    *)
JInodeKeyCmp(a, b) == JKeyCmp(a, b)

(* The leaf search of alloc's BTreeMap under the order Cmp.               *)
Search(Cmp(_, _), m, q) ==
  LET stop == {i \in 1 .. Len(m) : Cmp(q, m[i].k) # "Greater"} IN
  IF stop = {} THEN [found |-> FALSE, at |-> Len(m) + 1]
  ELSE LET i == CHOOSE j \in stop : \A l \in stop : j <= l
       IN [found |-> Cmp(q, m[i].k) = "Equal", at |-> i]

BTreeInsert(Cmp(_, _), m, k, v) ==
  LET r == Search(Cmp, m, k) IN
  IF r.found THEN [m EXCEPT ![r.at].v = v]
  ELSE InsertAt(m, r.at, [k |-> k, v |-> v])

BTreeGet(Cmp(_, _), m, q) ==
  LET r == Search(Cmp, m, q) IN
  IF r.found THEN {m[r.at].v} ELSE {}

(* The on-disk order of object-map keys: by oid, then by xid.             *)
KeyBefore(a, b) == a[1] < b[1] \/ (a[1] = b[1] /\ a[2] < b[2])
SortedNodes ==
  {s \in BoundedSeq(Keys, MaxKeys) :
     \A i \in 1 .. Len(s) - 1 : KeyBefore(s[i], s[i + 1])}

VARIABLES
  node,     \* the keys of the on-disk node, in order
  omap,     \* the ObjectMap built so far: a sequence of [k, v]
  i,        \* the next key parse inserts
  ni,       \* the next inode key inserted
  ino,      \* the inode keys (obj_id_and_type) of a tree, in order
  imap,     \* the InodeMap built from them
  query,    \* the <<oid, xid>> looked up
  result,   \* what ObjectMap::get returned: {} or {value}
  pc        \* parse, lookup or done

vars == <<node, omap, i, ni, ino, imap, query, result, pc>>

TypeOK ==
  /\ node \in SortedNodes
  /\ omap \in Seq([k : Keys, v : Keys])
  /\ i \in 1 .. MaxKeys + 1
  /\ ni \in 1 .. 3
  /\ ino \in Seq(Nat)
  /\ imap \in Seq([k : Nat, v : Nat])
  /\ query \in Keys
  /\ result \in SUBSET Keys
  /\ pc \in {"parse", "lookup", "done"}

(* Inode keys: obj_id_and_type = type << OBJ_TYPE_SHIFT | id, distinct ids. *)
InodeKeys == {t * 2^IdBits + n : t \in JTypes, n \in Inodes}

Init ==
  /\ node \in SortedNodes
  /\ omap = <<>>
  /\ i = 1
  /\ ni = 1
  /\ ino \in {s \in BoundedSeq(InodeKeys, 2) :
                \A a, b \in 1 .. Len(s) : a # b => s[a] % 2^IdBits # s[b] % 2^IdBits}
  /\ imap = <<>>
  /\ query \in Keys
  /\ result = {}
  /\ pc = "parse"

(* parse_as_object_map, after the header checks (a node that fails them   *)
(* returns EINVAL and builds nothing): keys and values have nkeys entries  *)
(* each, and keys.zip(values).for_each(insert) fills the map in order.     *)
ParseInsert ==
  /\ pc = "parse"
  /\ i <= Len(node)
  /\ omap' = BTreeInsert(OmapKeyCmp, omap, node[i], node[i])
  /\ i' = i + 1
  /\ UNCHANGED <<node, ni, ino, imap, query, result, pc>>

(* Inserting the inode keys into an InodeMap, in the tree's order.         *)
InodeInsert ==
  /\ pc = "parse"
  /\ ni <= Len(ino)
  /\ imap' = BTreeInsert(JInodeKeyCmp, imap, ino[ni], ino[ni])
  /\ ni' = ni + 1
  /\ UNCHANGED <<node, omap, i, ino, query, result, pc>>

ParseDone ==
  /\ pc = "parse"
  /\ i > Len(node)
  /\ ni > Len(ino)
  /\ pc' = "lookup"
  /\ UNCHANGED <<node, omap, i, ni, ino, imap, query, result>>

(* ObjectMap::get(&ObjectMapKey { ok_oid, ok_xid }).                       *)
Lookup ==
  /\ pc = "lookup"
  /\ result' = BTreeGet(OmapKeyCmp, omap, query)
  /\ pc' = "done"
  /\ UNCHANGED <<node, omap, i, ni, ino, imap, query>>

Next == ParseInsert \/ InodeInsert \/ ParseDone \/ Lookup

Spec == Init /\ [][Next]_vars

---------------------------------------------------------------------------
(* parse_as_object_map keeps every record of the node: each on-disk key   *)
(* <<oid, xid>> has its own entry, so no version of an object is lost by  *)
(* the insert of a later key that compares Equal.                          *)
OmapKeepsVersions ==
  pc # "parse" =>
    /\ Len(omap) = Len(node)
    /\ {omap[j].v : j \in 1 .. Len(omap)} = Range(node)

(* The object-map lookup rule of the ObjectMapKey doc comment (Apple's):  *)
(* the key with the object's oid and the largest xid at most the wanted   *)
(* one, or nothing.                                                        *)
AppleLookup(q) ==
  LET c == {k \in Range(node) : k[1] = q[1] /\ k[2] <= q[2]} IN
  {k \in c : \A l \in c : l[2] <= k[2]}

OmapLookupLatest == pc = "done" => result = AppleLookup(query)

(* JKey::cmp orders file-system records by object id first (its comment): *)
(* an InodeMap keeps one entry per inode.                                  *)
InodesKept == pc # "parse" => Len(imap) = Len(ino)

=============================================================================
