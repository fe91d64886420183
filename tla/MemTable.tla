------------------------------ MODULE MemTable ------------------------------
(***************************************************************************)
(* MemTable of db/memtable.cc over the skip list of SkipList.tla.  Add    *)
(* encodes an entry and runs SkipList::Insert (its steps interleave with   *)
(* readers); Get builds the lookup key, runs Iterator::Seek step by step   *)
(* and then decodes the entry found.                                       *)
(*                                                                         *)
(* An entry is identified by its internal key: user key, sequence number   *)
(* and type.  Internal keys are encoded as naturals whose numeric order is *)
(* the order of InternalKeyComparator: user key ascending, then the tag    *)
(* (sequence << 8 | type) descending.  The tag keeps one bit for the type  *)
(* (kTypeDeletion = 0, kTypeValue = 1).  The value written with sequence s *)
(* is s itself, so a returned value names the write it came from.          *)
(*                                                                         *)
(* The database hands out sequence numbers in increasing order and         *)
(* publishes the last one (the snapshot a Get may use) only after Add has  *)
(* returned.                                                               *)
(***************************************************************************)
EXTENDS Naturals, Sequences

CONSTANTS
  UserKeys,    \* user keys (naturals > 0)
  MaxSeq,      \* bound on sequence numbers
  MaxHeight,   \* kMaxHeight of the skip list
  Readers,     \* threads running Get
  Scanners,    \* threads scanning the table through NewIterator
  HeadNode, Nil, Undef

ASSUME UserKeys \subseteq Nat \ {0} /\ MaxSeq \in Nat \ {0}

kTypeDeletion == 0
kTypeValue    == 1
ValueTypes    == {kTypeDeletion, kTypeValue}

\* PackSequenceAndType: the tag, and the room the tags of one user key take.
Tag(s, t) == s * 2 + t
TagSpace  == Tag(MaxSeq, kTypeValue) + 1

\* The internal key (user key, s, t), ordered like InternalKeyComparator.
IKey(u, s, t) == u * TagSpace + (TagSpace - 1 - Tag(s, t))

\* Decoding an entry: the user key, and the tag as DecodeFixed64 reads it.
UserKeyOf(e) == e \div TagSpace
TagOf(e)     == TagSpace - 1 - (e % TagSpace)
SeqOf(e)     == TagOf(e) \div 2
TypeOf(e)    == TagOf(e) % 2

InternalKeys == {IKey(u, s, t) : u \in UserKeys, s \in 1..MaxSeq, t \in ValueTypes}

VARIABLES
  maxHeight, heightsHeld, height, next, wpc, wkey, wheight, wprev, wlevel, rd,
  lastSeq,   \* the last sequence number handed to Add
  added,     \* history: added[s] = [key, type] of the Add with sequence s
  get,       \* per reader: the Get in progress or finished
  refs,      \* refs_
  deleted,   \* the MemTable has been deleted
  dbHolds,   \* the database still holds its reference (as mem_ or imm_)
  scan       \* per scanner: the scan in progress and the entries it yielded

SL == INSTANCE SkipList WITH Keys <- InternalKeys, Targets <- {},
                             Readers <- Readers \cup Scanners

listVars == <<maxHeight, heightsHeld, height, next>>
slVars   == <<maxHeight, heightsHeld, height, next, wpc, wkey, wheight, wprev,
              wlevel, rd>>
lifeVars == <<refs, deleted, dbHolds>>
vars     == <<slVars, lastSeq, added, get, lifeVars, scan>>

\* What Get returns: false ("absent"), true with a value, or true with
\* Status::NotFound ("deleted"); "none" before it has returned.
Results == [kind: {"none", "absent", "deleted", "value"}, value: 0..MaxSeq]
Res(kind, v) == [kind |-> kind, value |-> v]

\* The last sequence number whose Add has returned: what a snapshot sees.
Published == IF wpc = "Idle" THEN lastSeq ELSE lastSeq - 1

Init ==
  /\ SL!Init
  /\ lastSeq = 0
  /\ added = <<>>
  /\ get = [r \in Readers |-> [key |-> 0, snap |-> 0, phase |-> "Idle",
                               res |-> Res("none", 0)]]
  /\ refs = 1 /\ deleted = FALSE /\ dbHolds = TRUE
  /\ scan = [s \in Scanners |-> [phase |-> "Idle", base |-> 0, hist |-> <<>>]]

-----------------------------------------------------------------------------
(* MemTable::Add(s, type, key, value): encode the entry and begin          *)
(* table_.Insert; the rest of Insert is SkipList's InsertSetNext and        *)
(* InsertPublish.                                                           *)
Add(u, t, h) ==
  /\ dbHolds /\ lastSeq < MaxSeq
  /\ SL!InsertBegin(IKey(u, lastSeq + 1, t), h)
  /\ lastSeq' = lastSeq + 1
  /\ added' = Append(added, [key |-> u, type |-> t])
  /\ UNCHANGED <<get, lifeVars, scan>>

InsertStep ==
  /\ SL!InsertSetNext \/ SL!InsertPublish
  /\ UNCHANGED <<lastSeq, added, get, lifeVars, scan>>

\* A plausible bug: the lookup tag built with kTypeDeletion.
LookupKeyDeletionType(u, snap) == IKey(u, snap, kTypeDeletion)

\* LookupKey(user_key, snapshot).memtable_key(): the tag uses
\* kValueTypeForSeek, the largest type, so that an entry of sequence
\* snapshot of either type sorts at or after it.
LookupKey(u, snap) == IKey(u, snap, kTypeValue)

\* MemTable::Ref.
Ref(n) == n + 1

\* A plausible bug: the table deleted while one reference is left.
UnrefAtOne(n) == [refs |-> n - 1, deleted |-> n - 1 <= 1]

\* MemTable::Unref: the count after it, and whether it deleted the table.
Unref(n) == [refs |-> n - 1, deleted |-> n - 1 <= 0]

(* Get, first part: the database's Get takes mem_ and Refs it, then        *)
(* MemTable::Get runs iter.Seek(memkey).  snap is any published sequence.  *)
GetBegin(r, u, snap) ==
  /\ dbHolds /\ get[r].phase \in {"Idle", "Done"}
  /\ SL!Seek(r, LookupKey(u, snap))
  /\ get' = [get EXCEPT ![r] = [key |-> u, snap |-> snap, phase |-> "Seek",
                                res |-> Res("none", 0)]]
  /\ refs' = Ref(refs)
  /\ UNCHANGED <<lastSeq, added, deleted, dbHolds, scan>>

GetSeekStep(r) ==
  /\ SL!FindGreaterOrEqualStep(r)
  /\ UNCHANGED <<lastSeq, added, get, lifeVars, scan>>

\* The entry Seek found, decoded: same user key?  then switch on the type.
GetResult(u, n) ==
  IF n = Nil THEN Res("absent", 0)
  ELSE IF UserKeyOf(n) # u THEN Res("absent", 0)
  ELSE IF TypeOf(n) = kTypeValue THEN Res("value", SeqOf(n))
  ELSE Res("deleted", 0)

(* Get, second part: check the user key and switch on the tag's type;     *)
(* then the database's Get Unrefs the table.                               *)
GetEnd(r) ==
  /\ get[r].phase = "Seek" /\ rd[r].op = "Done"
  /\ get' = [get EXCEPT ![r].phase = "Done",
                        ![r].res = GetResult(get[r].key, rd[r].node)]
  /\ refs' = Unref(refs).refs
  /\ deleted' = Unref(refs).deleted
  /\ UNCHANGED <<slVars, lastSeq, added, dbHolds, scan>>

(* The database drops its reference (imm_->Unref() once the table is      *)
(* flushed), between writes: no Add is in progress.                        *)
Retire ==
  /\ dbHolds /\ wpc = "Idle"
  /\ dbHolds' = FALSE
  /\ refs' = Unref(refs).refs
  /\ deleted' = Unref(refs).deleted
  /\ UNCHANGED <<slVars, lastSeq, added, get, scan>>

(* A scan, as the database's iterators make one: DBImpl Refs mem_ and    *)
(* asks it for NewIterator, a MemTableIterator over the skip list, and     *)
(* the caller starts it with SeekToFirst.  base is the last sequence       *)
(* published when it began.                                                *)
Yield(h, n) == IF n \in InternalKeys THEN Append(h, n) ELSE h

ScanBegin(s) ==
  /\ dbHolds /\ scan[s].phase \in {"Idle", "Done"}
  /\ SL!SeekToFirst(s)
  /\ scan' = [scan EXCEPT ![s] = [phase |-> "Scan", base |-> Published,
                                  hist |-> Yield(<<>>, rd'[s].node)]]
  /\ refs' = Ref(refs)
  /\ UNCHANGED <<lastSeq, added, get, deleted, dbHolds>>

\* MemTableIterator::Next, on a valid iterator: iter_.Next().
ScanNext(s) ==
  /\ scan[s].phase = "Scan"
  /\ SL!IterNext(s)
  /\ scan' = [scan EXCEPT ![s].hist = Yield(@, rd'[s].node)]
  /\ UNCHANGED <<lastSeq, added, get, lifeVars>>

\* Deleting the iterator, whenever the caller is done: its cleanup Unrefs.
ScanEnd(s) ==
  /\ scan[s].phase = "Scan"
  /\ scan' = [scan EXCEPT ![s].phase = "Done"]
  /\ refs' = Unref(refs).refs
  /\ deleted' = Unref(refs).deleted
  /\ UNCHANGED <<slVars, lastSeq, added, get, dbHolds>>

Next ==
  \/ \E u \in UserKeys, t \in ValueTypes, h \in 1..MaxHeight : Add(u, t, h)
  \/ InsertStep
  \/ \E r \in Readers :
       \/ \E u \in UserKeys, snap \in 0..Published : GetBegin(r, u, snap)
       \/ GetSeekStep(r)
       \/ GetEnd(r)
  \/ \E s \in Scanners : ScanBegin(s) \/ ScanNext(s) \/ ScanEnd(s)
  \/ Retire

Spec == Init /\ [][Next]_vars

-----------------------------------------------------------------------------
(* Properties.                                                             *)

\* The newest write of u at or below snap, from the history of Adds.
NewestWrite(u, snap) ==
  LET ss == {s \in 1..snap : added[s].key = u} IN
  IF ss = {} THEN Res("absent", 0)
  ELSE LET s == CHOOSE x \in ss : \A y \in ss : y <= x IN
       IF added[s].type = kTypeValue THEN Res("value", s) ELSE Res("deleted", 0)

(* Get at a snapshot returns the newest write of the key at or below the   *)
(* snapshot -- its value, or NotFound for a deletion, or false when there  *)
(* is none -- however the lock-free Seek interleaves with Adds of later    *)
(* sequence numbers that land next to it in the list.                      *)
GetReturnsNewestVisible ==
  \A r \in Readers :
    get[r].phase = "Done" => get[r].res = NewestWrite(get[r].key, get[r].snap)


(* The table lives exactly as long as it is referenced: it is not deleted  *)
(* while a Get is still seeking in it or reading the entry it found, or an *)
(* iterator over it is still open, nor                                     *)
(* while the database holds it; and once the database has let go and the  *)
(* last Get has returned, it has been deleted, whichever came last.        *)
MemTableLifetime ==
  deleted <=> /\ ~dbHolds
              /\ \A r \in Readers : get[r].phase # "Seek"
              /\ \A s \in Scanners : scan[s].phase # "Scan"

\* The entries Adds have made, and those published before sequence q.
EntryOf(q) == IKey(added[q].key, q, added[q].type)
Entries    == {EntryOf(q) : q \in DOMAIN added}

(* A scan yields entries in the table's order and misses none that was     *)
(* there when it began: the entries it has yielded are strictly increasing *)
(* internal keys of Adds, and among them is every entry published before   *)
(* the scan began, up to the one it is at (all of them once it has run     *)
(* off the end), however Adds link new nodes next to it while it moves.    *)
ScanYieldsTableInOrder ==
  \A s \in Scanners : scan[s].phase = "Scan" =>
    LET h == scan[s].hist
        valid == rd[s].node \in InternalKeys
    IN /\ \A j \in 1..(Len(h) - 1) : h[j] < h[j + 1]
       /\ \A j \in DOMAIN h : h[j] \in Entries
       /\ \A q \in 1..scan[s].base :
            (~valid \/ EntryOf(q) <= h[Len(h)]) => \E j \in DOMAIN h : h[j] = EntryOf(q)

=============================================================================
