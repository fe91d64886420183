------------------------------ MODULE SkipList ------------------------------
(***************************************************************************)
(* The ordered concurrent index of db/skiplist.h: one writer runs Insert   *)
(* under an external mutex while any number of readers search the list    *)
(* with no lock at all.  Insert is split into the steps a reader can see   *)
(* between: the max_height_ store, and per level the store into the new    *)
(* node's own link followed by the release store that publishes it.  A    *)
(* reader search is one step per iteration of its loop, each iteration     *)
(* being one acquire load of a link.                                       *)
(*                                                                         *)
(* Nodes are identified by their keys (Insert REQUIRES no equal key, so   *)
(* the keys of the list are distinct), HeadNode stands for head_, Nil for      *)
(* nullptr, Undef for a link of a freshly allocated node that nobody has   *)
(* stored yet (NewNode does not initialise next_).                        *)
(***************************************************************************)
EXTENDS Naturals, FiniteSets, SequencesExt

CONSTANTS
  Keys,       \* the keys the writer may insert (naturals > 0)
  MaxHeight,  \* kMaxHeight
  Readers,    \* reader threads
  Targets,    \* targets a reader may Seek to
  HeadNode, Nil, Undef

ASSUME /\ Keys \subseteq Nat \ {0} /\ Keys # {}
       /\ Targets \subseteq Nat
       /\ MaxHeight \in 1..12
       /\ HeadNode \notin Keys /\ Nil \notin Keys /\ Undef \notin Keys

Levels == 0..(MaxHeight - 1)
Nodes  == Keys \cup {HeadNode}
Link   == Keys \cup {Nil, Undef}

\* A key greater than every key of the list; FindLast is checked as a
\* search for the last key below it.
Top == 1 + CHOOSE k \in Keys : \A j \in Keys : j <= k

VARIABLES
  maxHeight,    \* max_height_
  heightsHeld,  \* every value max_height_ has held (relaxed loads may see any)
  height,       \* height of each allocated node, 0 = not allocated
  next,         \* next_[level] of every node and of head_
  wpc,          \* where Insert is: "Idle", "SetNext" or "Publish"
  wkey,         \* key being inserted
  wheight,      \* its RandomHeight()
  wprev,        \* prev[] filled by FindGreaterOrEqual
  wlevel,       \* loop index i of the linking loop
  rd            \* per reader: the operation in progress and iterator node_

vars == <<maxHeight, heightsHeld, height, next, wpc, wkey, wheight, wprev,
          wlevel, rd>>
listVars   == <<maxHeight, heightsHeld, height, next>>
writerVars == <<wpc, wkey, wheight, wprev, wlevel>>

ReaderState ==
  [op: {"Idle", "FGE", "FLT", "FL", "Done"},  \* search loop being run
   kind: {"GE", "LT"},      \* what the finished operation must have found
   target: Nat, x: Nodes, level: Levels,
   snap: SUBSET Keys,       \* keys in the list when the operation began
   node: Keys \cup {Nil}]   \* Iterator::node_

TypeOK ==
  /\ maxHeight \in 1..MaxHeight
  /\ heightsHeld \subseteq 1..MaxHeight
  /\ height \in [Keys -> 0..MaxHeight]
  /\ next \in [Nodes -> [Levels -> Link]]
  /\ wpc \in {"Idle", "SetNext", "Publish"}
  /\ wkey \in Keys /\ wheight \in 1..MaxHeight /\ wlevel \in Levels
  /\ wprev \in [Levels -> Nodes]
  /\ rd \in [Readers -> ReaderState]

-----------------------------------------------------------------------------
(* The lists as a reader following the links from head_ sees them.  The   *)
(* walk is cut after |Keys| nodes so that a corrupted, cyclic list still  *)
(* has a value.                                                            *)

RECURSIVE ListFrom(_, _, _)
ListFrom(n, l, fuel) ==
  IF fuel = 0 \/ next[n][l] \notin Keys THEN <<>>
  ELSE <<next[n][l]>> \o ListFrom(next[n][l], l, fuel - 1)

LevelList(l) == ListFrom(HeadNode, l, Cardinality(Keys))

\* The keys a reader can find: those linked into the level 0 list.
ListKeys == ToSet(LevelList(0))

-----------------------------------------------------------------------------
(* Comparisons of the search loops.  A link that was never stored holds   *)
(* garbage; here it compares like nullptr, and NoUninitializedRead states  *)
(* that no reader is ever in a position to load one.                      *)

\* A plausible bug: the comparison written as <= 0 instead of < 0.
KeyIsAfterNodeLE(key, n) == n \in Keys /\ n <= key

\* KeyIsAfterNode(key, n): n is not null and n->key < key.
KeyIsAfterNode(key, n) == n \in Keys /\ n < key

\* FindLessThan stops on: next == nullptr || compare_(next->key, key) >= 0
StopsBefore(key, n) == ~(n \in Keys /\ n < key)

\* FindGreaterOrEqual(key, prev) as Insert calls it: the writer holds the
\* mutex and readers never store, so the whole loop is one step.
RECURSIVE FindGreaterOrEqualPrev(_, _, _, _)
FindGreaterOrEqualPrev(key, x, level, prev) ==
  LET nxt == next[x][level]
      p2  == [prev EXCEPT ![level] = x]
  IN IF KeyIsAfterNode(key, nxt)
       THEN FindGreaterOrEqualPrev(key, nxt, level, prev)
     ELSE IF level = 0 THEN p2
     ELSE FindGreaterOrEqualPrev(key, x, level - 1, p2)

-----------------------------------------------------------------------------
Init ==
  /\ maxHeight = 1
  /\ heightsHeld = {1}
  /\ height = [k \in Keys |-> 0]
  /\ next = [n \in Nodes |-> [l \in Levels |-> IF n = HeadNode THEN Nil ELSE Undef]]
  /\ wpc = "Idle"
  /\ wkey = CHOOSE k \in Keys : TRUE
  /\ wheight = 1 /\ wlevel = 0
  /\ wprev = [l \in Levels |-> HeadNode]
  /\ rd = [r \in Readers |-> [op |-> "Idle", kind |-> "GE", target |-> 0,
                              x |-> HeadNode, level |-> 0, snap |-> {},
                              node |-> Nil]]

(* Insert(key), first part: FindGreaterOrEqual(key, prev), RandomHeight(), *)
(* seeding prev[] with head_ and storing max_height_ when the height grows,*)
(* and NewNode.  key is one never inserted before (the REQUIRES).          *)

\* A plausible bug: max_height_ is not raised when the new node is taller.
InsertBeginKeepHeight(k, h) ==
  /\ wpc = "Idle"
  /\ height[k] = 0
  /\ LET found == FindGreaterOrEqualPrev(k, HeadNode, maxHeight - 1,
                                         [l \in Levels |-> HeadNode])
     IN wprev' = [l \in Levels |-> IF l < maxHeight THEN found[l] ELSE HeadNode]
  /\ UNCHANGED <<maxHeight, heightsHeld>>
  /\ height' = [height EXCEPT ![k] = h]
  /\ wpc' = "SetNext" /\ wkey' = k /\ wheight' = h /\ wlevel' = 0
  /\ UNCHANGED <<next, rd>>

InsertBegin(k, h) ==
  /\ wpc = "Idle"
  /\ height[k] = 0
  /\ LET found == FindGreaterOrEqualPrev(k, HeadNode, maxHeight - 1,
                                         [l \in Levels |-> HeadNode])
     IN wprev' = [l \in Levels |-> IF l < maxHeight THEN found[l] ELSE HeadNode]
  /\ maxHeight' = IF h > maxHeight THEN h ELSE maxHeight
  /\ heightsHeld' = heightsHeld \cup {maxHeight'}
  /\ height' = [height EXCEPT ![k] = h]
  /\ wpc' = "SetNext" /\ wkey' = k /\ wheight' = h /\ wlevel' = 0
  /\ UNCHANGED <<next, rd>>

\* Plausible bugs: the new node's link is never stored, or is set to null.
InsertSetNextSkipped ==
  /\ wpc = "SetNext"
  /\ wpc' = "Publish"
  /\ UNCHANGED <<next, maxHeight, heightsHeld, height, wkey, wheight, wprev, wlevel, rd>>

InsertSetNextNull ==
  /\ wpc = "SetNext"
  /\ next' = [next EXCEPT ![wkey][wlevel] = Nil]
  /\ wpc' = "Publish"
  /\ UNCHANGED <<maxHeight, heightsHeld, height, wkey, wheight, wprev, wlevel, rd>>

(* x->NoBarrier_SetNext(i, prev[i]->NoBarrier_Next(i)) *)
InsertSetNext ==
  /\ wpc = "SetNext"
  /\ next' = [next EXCEPT ![wkey][wlevel] = next[wprev[wlevel]][wlevel]]
  /\ wpc' = "Publish"
  /\ UNCHANGED <<maxHeight, heightsHeld, height, wkey, wheight, wprev, wlevel, rd>>

(* prev[i]->SetNext(i, x), then the next iteration of the loop or return. *)
InsertPublish ==
  /\ wpc = "Publish"
  /\ next' = [next EXCEPT ![wprev[wlevel]][wlevel] = wkey]
  /\ \/ /\ wlevel + 1 < wheight
        /\ wlevel' = wlevel + 1 /\ wpc' = "SetNext"
     \/ /\ wlevel + 1 = wheight
        /\ wpc' = "Idle" /\ UNCHANGED wlevel
  /\ UNCHANGED <<maxHeight, heightsHeld, height, wkey, wheight, wprev, rd>>

-----------------------------------------------------------------------------
(* Reader operations.  A search starts from head_ at GetMaxHeight() - 1,   *)
(* a relaxed load that may return any value max_height_ has held.         *)

Idle(r) == rd[r].op \in {"Idle", "Done"}

StartSearch(r, op, kind, t) ==
  \E h \in heightsHeld :
    rd' = [rd EXCEPT ![r] = [@ EXCEPT !.op = op, !.kind = kind, !.target = t,
                                      !.x = HeadNode, !.level = h - 1,
                                      !.snap = ListKeys]]

\* A finished operation leaves node_ at its result.
Finish(r, res) ==
  rd' = [rd EXCEPT ![r] = [@ EXCEPT !.op = "Done", !.node = res]]

(* Iterator::Seek(target): FindGreaterOrEqual(target, nullptr).  Contains *)
(* runs the same search.                                                   *)
Seek(r, t) ==
  /\ Idle(r) /\ StartSearch(r, "FGE", "GE", t)
  /\ UNCHANGED <<listVars, writerVars>>

(* Iterator::SeekToFirst: node_ = head_->Next(0). *)
SeekToFirst(r) ==
  /\ Idle(r)
  /\ rd' = [rd EXCEPT ![r] = [@ EXCEPT !.op = "Done", !.kind = "GE",
                                       !.target = 0, !.snap = ListKeys,
                                       !.node = IF next[HeadNode][0] \in Keys
                                                THEN next[HeadNode][0] ELSE Nil]]
  /\ UNCHANGED <<listVars, writerVars>>

(* Iterator::Next: node_ = node_->Next(0).  REQUIRES Valid(). *)
IterNext(r) ==
  /\ Idle(r) /\ rd[r].node \in Keys
  /\ LET n == next[rd[r].node][0] IN
     rd' = [rd EXCEPT ![r] = [@ EXCEPT !.op = "Done", !.kind = "GE",
                                       !.target = rd[r].node + 1,
                                       !.snap = ListKeys,
                                       !.node = IF n \in Keys THEN n ELSE Nil]]
  /\ UNCHANGED <<listVars, writerVars>>

(* Iterator::Prev: FindLessThan(node_->key).  REQUIRES Valid(). *)
IterPrev(r) ==
  /\ Idle(r) /\ rd[r].node \in Keys
  /\ StartSearch(r, "FLT", "LT", rd[r].node)
  /\ UNCHANGED <<listVars, writerVars>>

(* Iterator::SeekToLast: FindLast(). *)
SeekToLast(r) ==
  /\ Idle(r) /\ StartSearch(r, "FL", "LT", Top)
  /\ UNCHANGED <<listVars, writerVars>>

\* A plausible bug: the loop descends below level 0 instead of returning.
FindGreaterOrEqualStepNoFloor(r) ==
  LET s == rd[r]
      nxt == next[s.x][s.level]
  IN /\ s.op = "FGE"
     /\ \/ /\ KeyIsAfterNode(s.target, nxt)
           /\ rd' = [rd EXCEPT ![r].x = nxt]
        \/ /\ ~KeyIsAfterNode(s.target, nxt)
           /\ rd' = [rd EXCEPT ![r].level = @ - 1]
     /\ UNCHANGED <<listVars, writerVars>>

(* One iteration of the loop of FindGreaterOrEqual(key, nullptr). *)
FindGreaterOrEqualStep(r) ==
  LET s == rd[r]
      nxt == next[s.x][s.level]
  IN /\ s.op = "FGE"
     /\ \/ /\ KeyIsAfterNode(s.target, nxt)
           /\ rd' = [rd EXCEPT ![r].x = nxt]
        \/ /\ ~KeyIsAfterNode(s.target, nxt) /\ s.level = 0
           /\ Finish(r, IF nxt \in Keys THEN nxt ELSE Nil)
        \/ /\ ~KeyIsAfterNode(s.target, nxt) /\ s.level > 0
           /\ rd' = [rd EXCEPT ![r].level = @ - 1]
     /\ UNCHANGED <<listVars, writerVars>>

(* One iteration of the loop of FindLessThan(key); Prev turns head_ into  *)
(* an invalid iterator.                                                    *)
FindLessThanStep(r) ==
  LET s == rd[r]
      nxt == next[s.x][s.level]
  IN /\ s.op = "FLT"
     /\ \/ /\ StopsBefore(s.target, nxt) /\ s.level = 0
           /\ Finish(r, IF s.x = HeadNode THEN Nil ELSE s.x)
        \/ /\ StopsBefore(s.target, nxt) /\ s.level > 0
           /\ rd' = [rd EXCEPT ![r].level = @ - 1]
        \/ /\ ~StopsBefore(s.target, nxt)
           /\ rd' = [rd EXCEPT ![r].x = nxt]
     /\ UNCHANGED <<listVars, writerVars>>

(* One iteration of the loop of FindLast(). *)
FindLastStep(r) ==
  LET s == rd[r]
      nxt == next[s.x][s.level]
  IN /\ s.op = "FL"
     /\ \/ /\ nxt \notin Keys /\ s.level = 0
           /\ Finish(r, IF s.x = HeadNode THEN Nil ELSE s.x)
        \/ /\ nxt \notin Keys /\ s.level > 0
           /\ rd' = [rd EXCEPT ![r].level = @ - 1]
        \/ /\ nxt \in Keys
           /\ rd' = [rd EXCEPT ![r].x = nxt]
     /\ UNCHANGED <<listVars, writerVars>>

-----------------------------------------------------------------------------
Writer ==
  \/ \E k \in Keys, h \in 1..MaxHeight : InsertBegin(k, h)
  \/ InsertSetNext
  \/ InsertPublish

Reader(r) ==
  \/ \E t \in Targets : Seek(r, t)
  \/ SeekToFirst(r)
  \/ IterNext(r)
  \/ IterPrev(r)
  \/ SeekToLast(r)
  \/ FindGreaterOrEqualStep(r)
  \/ FindLessThanStep(r)
  \/ FindLastStep(r)

Next == Writer \/ \E r \in Readers : Reader(r)

Spec == Init /\ [][Next]_vars

-----------------------------------------------------------------------------
(* Properties.                                                             *)

(* A reader never stands on a node whose link at its current level has    *)
(* not been stored yet: Insert stores x's own link before the release     *)
(* store that makes x reachable at that level, and links level 0 first,   *)
(* so a reader that reached x at level l (or came down to l) reads a      *)
(* stored pointer, never the garbage NewNode leaves in next_.             *)
NoUninitializedRead ==
  \A r \in Readers :
    rd[r].op \in {"FGE", "FLT", "FL"} => next[rd[r].x][rd[r].level] # Undef

(* Every lock-free read is as good as a read of the list at the moment it  *)
(* began: Seek/SeekToFirst/Next return a key >= target and no key of the   *)
(* list at that moment lies between target and the result; Prev and       *)
(* SeekToLast return a key < target and miss no key of that moment below  *)
(* target.  Keys inserted while the search runs may or may not be seen.   *)
GEOk(t, res, S) ==
  /\ res \in Keys => res >= t
  /\ \A k \in S : k >= t => res \in Keys /\ res <= k

LTOk(t, res, S) ==
  /\ res \in Keys => res < t
  /\ \A k \in S : k < t => res \in Keys /\ res >= k

ReadsMatchSnapshot ==
  \A r \in Readers :
    rd[r].op = "Done" =>
      IF rd[r].kind = "GE" THEN GEOk(rd[r].target, rd[r].node, rd[r].snap)
                          ELSE LTOk(rd[r].target, rd[r].node, rd[r].snap)

(* The level lists stay skip-list shaped however Insert interleaves with   *)
(* itself over time: every level is strictly increasing, each level is a  *)
(* sub-list of the level below, and a node appears only on levels below   *)
(* its height.  max_height_ covers every level that head_ links from.      *)
ListWellFormed ==
  /\ \A l \in Levels :
       /\ IsSorted(LevelList(l), <)
       /\ \A k \in ToSet(LevelList(l)) : l < height[k]
       /\ l > 0 => ToSet(LevelList(l)) \subseteq ToSet(LevelList(l - 1))
       /\ l >= maxHeight => next[HeadNode][l] = Nil

(* The list implements an ordered set that only grows, one key at a time: *)
(* the keys reachable at level 0 refine OrderedKeySet.                     *)
Abstract == INSTANCE OrderedKeySet WITH keys <- ListKeys
AbstractSpec == Abstract!Spec

=============================================================================
