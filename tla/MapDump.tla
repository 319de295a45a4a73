------------------------------ MODULE MapDump ------------------------------
(***************************************************************************)
(* The dump loop of kprobe.c: main walks page_access_map with              *)
(* bpf_map__get_next_key and writes one line per entry into the file       *)
(* time_i, while the probes keep inserting, replacing and deleting.        *)
(*                                                                         *)
(* The map is a row of hash chains, given by the order of the keys in      *)
(* each.  A new or replaced element goes to the head of its key's chain;   *)
(* get_next_key returns the key that follows the given one in the order of *)
(* the chains, or the first key of all if the given one is not in the map. *)
(* Values are left out: a line is the key it is about.                     *)
(***************************************************************************)
EXTENDS Integers, Sequences, Functions, KprobeStop

CONSTANTS
  Keys,        \* page keys <<mapping, index>>, a word being the set of its 1 bits
  NoKey,       \* no key
  ZeroKey,     \* the key {NULL, 0} each walk starts from; may be in Keys
  Buckets,     \* number of hash chains
  Bucket,      \* the chain of each key
  MaxChanges,  \* bound on the entries deleted or moved during one walk
  MaxFiles     \* bound on the number of files written

WordBits == 0 .. 63

ASSUME KeysAssumption == Keys \subseteq (SUBSET WordBits) \X (SUBSET WordBits)
ASSUME BucketAssumption == Buckets \in Nat /\ Bucket \in [Keys -> 1 .. Buckets]
ASSUME NoKeyAssumption == NoKey \notin Keys

VARIABLES
  entries,     \* the keys in the map
  ahead,       \* the pairs of keys in one chain, the one nearer to its head first
  pc,          \* where main is
  key, next_key,   \* next_key is NoKey until the walk has found a key
  i,           \* the number of the current file
  lines,       \* what has been written to it
  kept,        \* history: keys in the map ever since the walk began
  moved,       \* history: keys moved within their chain since then
  changes,     \* history: number of entries deleted or moved since then
  skipped      \* history: the walk began while ZeroKey was an entry

map_vars == <<entries, ahead, kept, moved, changes>>
main_vars == <<pc, key, next_key, i, lines, skipped>>
dump_vars == <<map_vars, main_vars, stop>>

DumpInit ==
  /\ entries = {} /\ ahead = {}
  /\ pc = "top"
  /\ key = ZeroKey /\ next_key = NoKey
  /\ i = 0
  /\ lines = <<>>
  /\ stop = FALSE
  /\ kept = {} /\ moved = {} /\ changes = 0 /\ skipped = FALSE
-----------------------------------------------------------------------------
(***************************************************************************)
(* The map under the probes of kprobe.bpf.c (module PageAccess)            *)
(***************************************************************************)

\* The chains without key k
Unlinked(k) == {pair \in ahead : k \notin {pair[1], pair[2]}}

\* bpf_map_update_elem of key k: to the head of its chain, new or not.
Put(k) ==
  LET others == {j \in entries \ {k} : Bucket[j] = Bucket[k]}
      moves == k \in entries /\ \E j \in others : <<j, k>> \in ahead
  IN  /\ moves => changes < MaxChanges
      /\ entries' = entries \cup {k}
      /\ ahead' = Unlinked(k) \cup ({k} \X others)
      /\ moved' = IF moves THEN moved \cup {k} ELSE moved
      /\ changes' = IF moves THEN changes + 1 ELSE changes
      /\ UNCHANGED <<kept, main_vars, stop>>

\* bpf_map_delete_elem of key k
Delete(k) ==
  /\ k \in entries /\ changes < MaxChanges
  /\ entries' = entries \ {k}
  /\ ahead' = Unlinked(k)
  /\ kept' = kept \ {k}
  /\ changes' = changes + 1
  /\ UNCHANGED <<moved, main_vars, stop>>

\* The order of the chains
Precedes(j, k) == Bucket[j] < Bucket[k] \/ <<j, k>> \in ahead

\* The entries that follow key k, or all if it is none
Following(k) ==
  IF k \in entries THEN {j \in entries : Precedes(k, j)} ELSE entries

\* bpf_map__get_next_key(map, &k, &n) == 0
GetNextKey(k, n) ==
  /\ n \in Following(k)
  /\ \A j \in Following(k) \ {n} : Precedes(n, j)
-----------------------------------------------------------------------------
(***************************************************************************)
(* main                                                                    *)
(***************************************************************************)

\* Variant of StartKey without the memset.
StartKeyKept == key

\* memset(&key, 0, sizeof(key))
StartKey == ZeroKey

\* while (!stop): memset of key, fopen of time_i with "w"
OpenFile ==
  /\ pc = "top" /\ ~stop /\ i < MaxFiles
  /\ pc' = "next"
  /\ key' = StartKey
  /\ lines' = <<>>
  /\ kept' = entries
  /\ moved' = {} /\ changes' = 0 /\ skipped' = FALSE
  /\ UNCHANGED <<entries, ahead, next_key, i, stop>>

\* fopen fails: main returns 1 without joining the thread or destroying skel.
OpenFails ==
  /\ pc = "top" /\ ~stop
  /\ pc' = "failed"
  /\ UNCHANGED <<map_vars, skipped, key, next_key, i, lines, stop>>

\* The head of the inner loop; without a next key the file is complete.
Next_key ==
  /\ pc = "next"
  /\ \/ /\ Following(key) = {}
        /\ next_key' = NoKey /\ pc' = "sleep"
     \/ \E n \in Keys :
          GetNextKey(key, n) /\ next_key' = n /\ pc' = "lookup"
  /\ skipped' = (skipped \/ (next_key = NoKey /\ key = ZeroKey /\ key \in entries))
  /\ UNCHANGED <<map_vars, key, i, lines, stop>>

\* bpf_map__lookup_elem, fprintf; a key deleted meanwhile is only reported.
Lookup ==
  /\ pc = "lookup"
  /\ lines' = IF next_key \in entries THEN Append(lines, next_key) ELSE lines
  /\ key' = next_key
  /\ pc' = "next"
  /\ UNCHANGED <<map_vars, skipped, next_key, i, stop>>

\* Variant of AfterFile that returns to the walk of the same file.
AfterFileAgain == [pc |-> "next", i |-> i]

AfterFile == [pc |-> "top", i |-> i + 1]

\* usleep, i++, fclose
CloseFile ==
  /\ pc = "sleep"
  /\ i' = AfterFile.i
  /\ pc' = AfterFile.pc
  /\ UNCHANGED <<map_vars, skipped, key, next_key, lines, stop>>

\* The loop ends; pthread_join and kprobe_bpf__destroy follow.
LeaveLoop ==
  /\ pc = "top" /\ stop
  /\ pc' = "done"
  /\ UNCHANGED <<map_vars, skipped, key, next_key, i, lines, stop>>

\* SIGINT
InterruptDump ==
  /\ sig_int
  /\ UNCHANGED <<map_vars, main_vars>>

Main == OpenFile \/ OpenFails \/ Next_key \/ Lookup \/ CloseFile \/ LeaveLoop

DumpNext == Main \/ InterruptDump \/ (\E k \in Keys : Put(k) \/ Delete(k))

\* main keeps running; the probes and the user need not.
DumpSpec == DumpInit /\ [][DumpNext]_dump_vars /\ WF_dump_vars(Main)
-----------------------------------------------------------------------------
\* Variant of hash_index_mapping.
hash_index_or_mapping(index, mapping) == index \cup mapping

\* index ^ mapping: the name of a page in the files.
hash_index_mapping(index, mapping) == (index \ mapping) \cup (mapping \ index)

Name(k) == hash_index_mapping(k[2], k[1])
-----------------------------------------------------------------------------
\* "Iterate through the BPF map": an entry that is in the map during the whole
\* walk of get_next_key is written to the file, with two exceptions: an entry
\* that an access moved to the head of its chain meanwhile, and any entry if
\* the walk began while there was one under the zeroed key it starts from.
KeptEntriesDumped ==
  pc = "sleep" /\ ~skipped => kept \ moved \subseteq Range(lines)

\* A name stands twice in a file, for two lines that the controllers cannot tell
\* apart, only if an entry was deleted or moved under the walk, or for pages of
\* two files: new entries alone never make get_next_key go back, and
\* hash_index_mapping keeps the pages of one file apart.
RepeatsNeedChange ==
  changes = 0 => \A m, n \in DOMAIN lines :
    Name(lines[m]) = Name(lines[n]) => m = n \/ lines[m][1] # lines[n][1]

\* After SIGINT main leaves the dump loop, although the inner walk does not
\* look at stop, if the probes delete and move finitely many entries during a
\* walk.
InterruptEndsLoop == stop ~> pc \in {"done", "failed"}
=============================================================================
