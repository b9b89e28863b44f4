------------------------------ MODULE PtfMerge ------------------------------
(***************************************************************************)
(* PTFextender merges the patch files of mods into a configuration of the  *)
(* game while it is loaded: a tree of rows, each identified by its tag and *)
(* identifying attributes (its key) and carrying other attributes.         *)
(*                                                                         *)
(* What the plugin does by recursion into the children is a function of    *)
(* the height here.                                                        *)
(***************************************************************************)
EXTENDS Integers, Sequences, SequencesExt

CONSTANTS
  Keys, AttrNames, AttrTexts,
  MaxHeight,   \* the levels of rows
  Bases,       \* the configurations of the game
  Patches,     \* the roots of patch files, Unreadable perhaps among them
  Unreadable,
  MaxFiles

VARIABLES
  config,      \* *ppBaseRoot
  merged,      \* the clone the patches go into
  listing,     \* the patch files, in the order the pak file system finds them
  at,          \* how many of them have been dealt with
  applied

mergeVars == <<config, merged, listing, at, applied>>

Attributes == UNION {[D -> AttrTexts] : D \in SUBSET AttrNames}

(* Children with different keys. *)
Siblings(rows) ==
  {s \in Seq(rows) : \A i, j \in DOMAIN s : s[i].key = s[j].key => i = j}

(* The rows of at most h levels, their own among them. *)
RowOver(rows) == [key : Keys, attrs : Attributes, kids : Siblings(rows)]
RowsUpTo[h \in 0..MaxHeight] == IF h = 0 THEN {} ELSE RowOver(RowsUpTo[h - 1])
Kids(h) == Siblings(RowsUpTo[h])

ASSUME MergeAssumption ==
  /\ MaxHeight \in Nat
  /\ Bases \subseteq Kids(MaxHeight)
  /\ Patches \ {Unreadable} \subseteq Kids(MaxHeight)

(* CopyAttributes                                                           *)
CopyAttributes(dst, src) ==
  [x \in DOMAIN dst \cup DOMAIN src |-> IF x \in DOMAIN src THEN src[x] ELSE dst[x]]

(* The position of the first child with the key, 0 for none.                *)
FindChildIndex(kids, key) == SelectInSeq(kids, LAMBDA c : c.key = key)

(* Mutant: a leaf of the patch replaces whatever has its key. *)
WipingMergeChild(kids, p, mergeBelow) ==
  LET i == FindChildIndex(kids, p.key)
  IN IF i = 0 THEN Append(kids, p)
     ELSE IF p.kids = << >> THEN [kids EXCEPT ![i] = p]
     ELSE [kids EXCEPT ![i] = [key   |-> @.key,
                               attrs |-> CopyAttributes(@.attrs, p.attrs),
                               kids  |-> mergeBelow[@.kids, p.kids]]]

(* One child of the patch: a row the game does not have is appended, a leaf *)
(* replaces a leaf, and with children on either side attributes are copied  *)
(* and the children merged in turn.                                         *)
MergeChild(kids, p, mergeBelow) ==
  LET i == FindChildIndex(kids, p.key)
  IN IF i = 0 THEN Append(kids, p)
     ELSE IF p.kids = << >> /\ kids[i].kids = << >>
       THEN [kids EXCEPT ![i] = p]
       ELSE [kids EXCEPT ![i] = [key   |-> @.key,
                                 attrs |-> CopyAttributes(@.attrs, p.attrs),
                                 kids  |-> mergeBelow[@.kids, p.kids]]]

MergeAll(base, patch, mergeBelow) ==
  LET after[n \in 0..Len(patch)] ==
        IF n = 0 THEN base ELSE MergeChild(after[n - 1], patch[n], mergeBelow)
  IN after[Len(patch)]

MergeUpTo[h \in 0..MaxHeight] ==
  [x \in Kids(h) \X Kids(h) |->
     IF h = 0 THEN << >> ELSE MergeAll(x[1], x[2], MergeUpTo[h - 1])]

MergeChildren(base, patch) == MergeUpTo[MaxHeight][base, patch]

MergeInit ==
  /\ config \in Bases
  /\ merged = << >>
  /\ listing \in UNION {[1..n -> Patches] : n \in 0..MaxFiles}
  /\ at = 0 /\ applied = 0

(* ApplyPtfPatches: the first file found makes the clone.                   *)
FindFirst ==
  /\ at = 0 /\ listing # << >> /\ merged = << >>
  /\ merged' = <<config>>
  /\ UNCHANGED <<config, listing, at, applied>>

(* Without a clone no file is read, and the search is closed.               *)
CloneFails ==
  /\ at = 0 /\ listing # << >> /\ merged = << >>
  /\ listing' = << >>
  /\ UNCHANGED <<config, merged, at, applied>>

Patch ==
  /\ merged # << >> /\ at < Len(listing)
  /\ at' = at + 1
  /\ IF listing[at + 1] = Unreadable
       THEN UNCHANGED <<merged, applied>>
       ELSE /\ merged' = <<MergeChildren(merged[1], listing[at + 1])>>
            /\ applied' = applied + 1
  /\ UNCHANGED <<config, listing>>

(* The last file is done: the caller's tree becomes the clone, unless no    *)
(* patch was applied.                                                       *)
Swap ==
  /\ merged # << >> /\ at = Len(listing)
  /\ config' = IF applied > 0 THEN merged[1] ELSE config
  /\ merged' = << >>
  /\ UNCHANGED <<listing, at, applied>>

MergeNext == FindFirst \/ CloneFails \/ Patch \/ Swap

MergeSpec == MergeInit /\ [][MergeNext]_mergeVars
-----------------------------------------------------------------------------
(* A tree as what stands on each path of keys.                              *)
Paths == UNION {[1..n -> Keys] : n \in 1..MaxHeight}

HasRow(kids, k) == \E i \in DOMAIN kids : kids[i].key = k
RowOf(kids, k) == kids[CHOOSE i \in DOMAIN kids : kids[i].key = k]
Below(kids, k) == IF HasRow(kids, k) THEN RowOf(kids, k).kids ELSE << >>

(* The rows among which the last key of the path is looked up.              *)
Along(kids, path) ==
  LET below[n \in 0..Len(path)] ==
        IF n = 0 THEN kids ELSE Below(below[n - 1], path[n])
  IN below[Len(path) - 1]

Rows(kids) ==
  [path \in {p \in Paths : HasRow(Along(kids, p), p[Len(p)])} |->
     LET row == RowOf(Along(kids, path), path[Len(path)])
     IN [attrs |-> row.attrs, leaf |-> row.kids = << >>]]

(* What a merge promises, path by path: everything of both sides is there;  *)
(* "replaced leaves", attributes of the patch over those of a container,    *)
(* and "a patch leaf must not wipe the base node's subtree".                *)
Override(b, p) ==
  [x \in DOMAIN b \cup DOMAIN p |->
     IF x \notin DOMAIN p THEN b[x]
     ELSE IF x \notin DOMAIN b THEN p[x]
     ELSE IF b[x].leaf /\ p[x].leaf THEN p[x]
     ELSE [attrs |-> [a \in DOMAIN b[x].attrs \cup DOMAIN p[x].attrs |->
                        IF a \in DOMAIN p[x].attrs THEN p[x].attrs[a] ELSE b[x].attrs[a]],
           leaf |-> FALSE]]

(* The game's rows under those of the first n files, the later file over    *)
(* the earlier; files that cannot be read change nothing.                   *)
Layers ==
  LET under[n \in 0..Len(listing)] ==
        IF n = 0 THEN Rows(config)
        ELSE IF listing[n] = Unreadable THEN under[n - 1]
        ELSE Override(under[n - 1], Rows(listing[n]))
  IN under

(* Every prefix of the listing leaves in the clone the game's rows under    *)
(* those of the patches.                                                    *)
MergeIsOverride == merged # << >> => Rows(merged[1]) = Layers[at]
=============================================================================
