---------------------------- MODULE BPlusTreeCrash ----------------------------
(***************************************************************************)
(* The B+ tree index when the process is lost.  The records an operation   *)
(* rewrites lie in pages of the buffer pool; a page reaches the file when  *)
(* it is evicted, in no particular order, or at flush_all, and BufferPool  *)
(* and PageStore say that the next process finds what was written last.    *)
(* Here every record is taken to have a page of its own, which allows more *)
(* mixtures of old and new records than the real pages do.  An operation   *)
(* that fails at one of its writes is one the process is lost in: the      *)
(* process that met the exception ends (cli.cpp), and the destructor only  *)
(* writes more pages.                                                      *)
(***************************************************************************)
EXTENDS BPlusTree

CONSTANTS
  MaxUnflushed,  \* bound: operations between two calls of flush_all
  MaxOrphans     \* bound: no crash once so many records lie outside the tree

ASSUME CrashAssumption == MaxUnflushed \in Nat /\ MaxOrphans \in Nat

VARIABLES
  durable,    \* what the file holds of each record
  unflushed,  \* operations begun since the last flush_all
  versions,   \* what each of them, and the last flush_all, left or would leave
  orphans     \* records that crashes have left outside the tree

crashVars == <<vars, durable, unflushed, versions, orphans>>

CrashInit ==
  /\ Init
  /\ durable = store
  /\ unflushed = 0
  /\ versions = {{}}
  /\ orphans = {}

Operate ==
  /\ unflushed < MaxUnflushed
  /\ \E e \in Universe : Insert(e) \/ Erase(e)
  /\ unflushed' = unflushed + 1
  /\ versions' = versions \cup {op'.result}
  /\ UNCHANGED <<durable, orphans>>

Write == WriteRecord /\ UNCHANGED <<durable, unflushed, versions, orphans>>

\* The page of one record is evicted, or written by flush_all.
Persist(id) ==
  /\ phase = "open" /\ Node(store, id) # Node(durable, id)
  /\ durable' = [i \in 1 .. Max({Len(durable), id}) |->
                   IF i = id THEN store[id] ELSE Node(durable, i)]
  /\ UNCHANGED <<vars, unflushed, versions, orphans>>

\* flush_all has returned.
FlushAll ==
  /\ Ready /\ \A id \in DOMAIN store \cup DOMAIN durable : Node(store, id) = Node(durable, id)
  /\ unflushed' = 0
  /\ versions' = {model}
  /\ UNCHANGED <<vars, durable, orphans>>

Crash ==
  /\ phase = "open" /\ Cardinality(orphans) < MaxOrphans
  /\ phase' = "closed"
  /\ store' = durable
  /\ handle' = Closed
  /\ op' = NoOp
  /\ UNCHANGED <<model, durable, unflushed, versions, orphans>>

Reopen ==
  /\ Open
  /\ unflushed' = 0
  /\ versions' = {model'}
  /\ orphans' = LiveSlots \ Reachable(Opened(HeaderNode))
  /\ UNCHANGED durable

\* open throws IndexCorruption.
Reject ==
  /\ phase = "closed" /\ ~Openable
  /\ phase' = "rejected"
  /\ UNCHANGED <<store, handle, op, model, durable, unflushed, versions, orphans>>

CrashNext ==
  \/ Operate \/ Write \/ FlushAll \/ Crash \/ Reopen \/ Reject
  \/ \E id \in DOMAIN store : Persist(id)

CrashSpec == CrashInit /\ [][CrashNext]_crashVars

-----------------------------------------------------------------------------
\* An index that open accepts after a crash, or after an operation that failed at
\* one of its writes, holds every entry that was there at the last flush_all and
\* all along since, and none that was never there: records that reached the file
\* in part are recognised by the validation of links, order and separators.
AcceptedIndexIsWhole ==
  phase = "closed" /\ Openable =>
    LET found == Contents(store, HeaderNode.first) IN
    /\ \A e \in Universe : (\A v \in versions : e \in v) => e \in found
    /\ found \subseteq UNION versions
=============================================================================
