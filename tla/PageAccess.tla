----------------------------- MODULE PageAccess -----------------------------
(***************************************************************************)
(* The two kprobe programs of kprobe.bpf.c, running on several CPUs over   *)
(* the shared map page_access_map.                                         *)
(*                                                                         *)
(* A kprobe program is not preempted on its CPU, so each CPU runs at most  *)
(* one handler at a time and the interleaving is between CPUs.  The shared *)
(* memory a handler touches without a lock (the counter of static_counter, *)
(* the element a lookup returned a pointer to) is loaded and stored in     *)
(* separate steps; a map helper call is one step.                          *)
(*                                                                         *)
(* page_access_map is a preallocated BPF hash map: a fixed set of elements *)
(* Elems, one spare element per CPU, the rest on a free list.  Replacing   *)
(* the value of a present key links the CPU's spare element in place of    *)
(* the old one, which becomes the spare; deleting a key frees its element. *)
(* Either way the element may be reused at once, while another CPU still   *)
(* holds a pointer to it.                                                  *)
(***************************************************************************)
EXTENDS Naturals, FiniteSets

CONSTANTS
  Cpus,         \* the processors
  Pids,         \* process ids the workload may register
  Mappings,     \* address_space objects
  Indices,      \* page offsets within a mapping
  Elems,        \* preallocated elements: max_entries + one per CPU
  NULL,         \* no pointer, no mapping, no process, no key
  MaxCount      \* bound on the counters of the model

ASSUME NullAssumption == NULL \notin Mappings \cup Elems \cup Pids
ASSUME MaxCountAssumption == MaxCount \in Nat

Folios == Mappings \X Indices
page_key == (Mappings \cup {NULL}) \X Indices
metric == [ref_count : Nat, rank : Nat, pid : Pids \cup {NULL}]

VARIABLES
  page_access_map, \* key -> the element linked under it, or NULL
  elem,            \* the metric stored in each element
  free,            \* elements on the free list
  spare,           \* the spare element of each CPU
  static_counter,
  pid_map,         \* registered pids
  cached,          \* folios in the page cache
  freeing,         \* folios removed, whose filemap_free_folio is still due
  pc, pid, key,    \* per CPU: step of the handler, its process, its page
  access_count,    \* per CPU: result of the lookup
  reg              \* per CPU: a value loaded from shared memory

map_vars == <<page_access_map, free, spare>>
kernel_vars == <<cached, freeing>>
vars == <<page_access_map, elem, free, spare, static_counter, pid_map,
          cached, freeing, pc, pid, key, access_count, reg>>

Steps == {"idle", "lookup", "ref_load", "ref_store", "counter_load",
          "counter_store", "stamp", "update", "free_lookup", "free_delete"}

Present(k) == page_access_map[k] # NULL

TypeOK ==
  /\ page_access_map \in [page_key -> Elems \cup {NULL}]
  /\ elem \in [Elems -> metric]
  /\ free \subseteq Elems
  /\ spare \in [Cpus -> Elems]
  /\ static_counter \in Nat
  /\ pid_map \subseteq Pids
  /\ cached \subseteq Folios
  /\ freeing \subseteq Folios
  /\ pc \in [Cpus -> Steps]
  /\ pid \in [Cpus -> Pids \cup {NULL}]
  /\ key \in [Cpus -> page_key \cup {NULL}]
  /\ access_count \in [Cpus -> Elems \cup {NULL}]
  /\ reg \in [Cpus -> Nat]

(***************************************************************************)
(* The kernel's hash map, as the two programs use it.                      *)
(***************************************************************************)

\* bpf_map_update_elem(&page_access_map, &k, &m, BPF_ANY) on CPU c.
ReplaceElem(c, k, m) ==
  /\ Present(k)
  /\ elem' = [elem EXCEPT ![spare[c]] = m]
  /\ page_access_map' = [page_access_map EXCEPT ![k] = spare[c]]
  /\ spare' = [spare EXCEPT ![c] = page_access_map[k]]
  /\ UNCHANGED free

InsertElem(k, m) ==
  /\ ~Present(k)
  /\ \E e \in free :
       /\ elem' = [elem EXCEPT ![e] = m]
       /\ page_access_map' = [page_access_map EXCEPT ![k] = e]
       /\ free' = free \ {e}
  /\ UNCHANGED spare

\* The map is full: -E2BIG, which both programs ignore.
RejectElem(k) ==
  /\ ~Present(k)
  /\ free = {}
  /\ UNCHANGED <<map_vars, elem>>

UpdateElem(c, k, m) == ReplaceElem(c, k, m) \/ InsertElem(k, m) \/ RejectElem(k)

\* bpf_map_delete_elem(&page_access_map, &k); -ENOENT is ignored.
DeleteElem(k) ==
  IF Present(k)
  THEN /\ page_access_map' = [page_access_map EXCEPT ![k] = NULL]
       /\ free' = free \cup {page_access_map[k]}
       /\ UNCHANGED spare
  ELSE UNCHANGED map_vars
-----------------------------------------------------------------------------
Goto(c, from, to) == pc[c] = from /\ pc' = [pc EXCEPT ![c] = to]

\* Every handler is over: its locals are dead.
Return(c, from) ==
  /\ Goto(c, from, "idle")
  /\ access_count' = [access_count EXCEPT ![c] = NULL]
  /\ reg' = [reg EXCEPT ![c] = 0]
  /\ pid' = [pid EXCEPT ![c] = NULL]
  /\ key' = [key EXCEPT ![c] = NULL]

\* folio->mapping as BPF_CORE_READ finds it, with folio->index.
KeyOf(f) == IF f \in cached THEN f ELSE <<NULL, f[2]>>

\* Variant of MarkAccessed without the lookup in pid_map.
MarkAccessedUnfiltered(c, p, f) ==
  /\ \A e \in Elems : elem[e].ref_count < MaxCount
  /\ static_counter < MaxCount
  /\ Goto(c, "idle", "lookup")
  /\ pid' = [pid EXCEPT ![c] = p]
  /\ key' = [key EXCEPT ![c] = KeyOf(f)]
  /\ UNCHANGED <<map_vars, elem, static_counter, pid_map, kernel_vars,
                 access_count, reg>>

\* The probe of folio_mark_accessed is hit by process p on CPU c, and p is
\* registered (the handler of any other process returns at once).
MarkAccessed(c, p, f) ==
  /\ \A e \in Elems : elem[e].ref_count < MaxCount
  /\ static_counter < MaxCount
  /\ p \in pid_map
  /\ Goto(c, "idle", "lookup")
  /\ pid' = [pid EXCEPT ![c] = p]
  /\ key' = [key EXCEPT ![c] = KeyOf(f)]
  /\ UNCHANGED <<map_vars, elem, static_counter, pid_map, kernel_vars,
                 access_count, reg>>

\* access_count = bpf_map_lookup_elem(&page_access_map, &key)
Lookup(c) ==
  /\ Goto(c, "lookup", IF Present(key[c]) THEN "ref_load" ELSE "counter_load")
  /\ access_count' = [access_count EXCEPT ![c] = page_access_map[key[c]]]
  /\ UNCHANGED <<map_vars, elem, static_counter, pid_map, kernel_vars,
                 pid, key, reg>>

\* (access_count->ref_count)++
RefLoad(c) ==
  /\ Goto(c, "ref_load", "ref_store")
  /\ reg' = [reg EXCEPT ![c] = elem[access_count[c]].ref_count]
  /\ UNCHANGED <<map_vars, elem, static_counter, pid_map, kernel_vars,
                 pid, key, access_count>>

RefStore(c) ==
  /\ Goto(c, "ref_store", "counter_load")
  /\ elem' = [elem EXCEPT ![access_count[c]].ref_count = reg[c] + 1]
  /\ UNCHANGED <<map_vars, static_counter, pid_map, kernel_vars,
                 pid, key, access_count, reg>>

\* Variant of CounterLoad that counts down.
CounterLoadDown(c) ==
  /\ Goto(c, "counter_load", "counter_store")
  /\ reg' = [reg EXCEPT ![c] = static_counter - 1]
  /\ UNCHANGED <<map_vars, elem, static_counter, pid_map, kernel_vars,
                 pid, key, access_count>>

\* (*counter)++; the incremented value stays in a register.
CounterLoad(c) ==
  /\ Goto(c, "counter_load", "counter_store")
  /\ reg' = [reg EXCEPT ![c] = static_counter + 1]
  /\ UNCHANGED <<map_vars, elem, static_counter, pid_map, kernel_vars,
                 pid, key, access_count>>

CounterStore(c) ==
  /\ Goto(c, "counter_store",
          IF access_count[c] = NULL THEN "update" ELSE "stamp")
  /\ static_counter' = reg[c]
  /\ UNCHANGED <<map_vars, elem, pid_map, kernel_vars,
                 pid, key, access_count, reg>>

\* access_count->pid, ->rank (and ->page_count, which nothing reads)
Stamp(c) ==
  /\ Goto(c, "stamp", "update")
  /\ elem' = [elem EXCEPT ![access_count[c]].pid = pid[c],
                          ![access_count[c]].rank = reg[c]]
  /\ UNCHANGED <<map_vars, static_counter, pid_map, kernel_vars,
                 pid, key, access_count, reg>>

\* Variant of Update that writes new_count in both branches.
UpdateWithNewCount(c) ==
  /\ Return(c, "update")
  /\ UpdateElem(c, key[c],
       [ref_count |-> 1, rank |-> reg[c], pid |-> pid[c]])
  /\ UNCHANGED <<static_counter, pid_map, kernel_vars>>

\* The update that ends both branches: new_count, or the element itself.
Update(c) ==
  /\ Return(c, "update")
  /\ UpdateElem(c, key[c],
       IF access_count[c] = NULL
       THEN [ref_count |-> 1, rank |-> reg[c], pid |-> pid[c]]
       ELSE elem[access_count[c]])
  /\ UNCHANGED <<static_counter, pid_map, kernel_vars>>

\* Variant of FreeFolio that takes the mapping from the folio, where it has been
\* cleared, instead of the argument.
FreeFolioByFolio(c, f) ==
  /\ f \in freeing
  /\ freeing' = freeing \ {f}
  /\ Goto(c, "idle", "free_lookup")
  /\ key' = [key EXCEPT ![c] = KeyOf(f)]
  /\ UNCHANGED <<map_vars, elem, static_counter, pid_map, cached,
                 pid, access_count, reg>>

\* The probe of filemap_free_folio(mapping, f) is hit on CPU c.
FreeFolio(c, f) ==
  /\ f \in freeing
  /\ freeing' = freeing \ {f}
  /\ Goto(c, "idle", "free_lookup")
  /\ key' = [key EXCEPT ![c] = f]
  /\ UNCHANGED <<map_vars, elem, static_counter, pid_map, cached,
                 pid, access_count, reg>>

FreeLookup(c) ==
  /\ pc[c] = "free_lookup"
  /\ \/ /\ Present(key[c])
        /\ Goto(c, "free_lookup", "free_delete")
        /\ UNCHANGED <<pid, key, access_count, reg>>
     \/ ~Present(key[c]) /\ Return(c, "free_lookup")
  /\ UNCHANGED <<map_vars, elem, static_counter, pid_map, kernel_vars>>

FreeDelete(c) ==
  /\ Return(c, "free_delete")
  /\ DeleteElem(key[c])
  /\ UNCHANGED <<elem, static_counter, pid_map, kernel_vars>>
-----------------------------------------------------------------------------
(***************************************************************************)
(* What the rest of the system does.                                       *)
(***************************************************************************)

\* pid_receiver registers a process (kprobe.c); nothing ever unregisters it.
AddPid(p) ==
  /\ p \notin pid_map
  /\ pid_map' = pid_map \cup {p}
  /\ UNCHANGED <<map_vars, elem, static_counter, kernel_vars, pc, pid, key,
                 access_count, reg>>

\* The kernel, on a CPU outside any probe, removes a folio from the page
\* cache: mapping is cleared first, filemap_free_folio is called later.
RemoveFolio(c, f) ==
  /\ pc[c] = "idle"
  /\ f \in cached \ freeing
  /\ cached' = cached \ {f}
  /\ freeing' = freeing \cup {f}
  /\ UNCHANGED <<map_vars, elem, static_counter, pid_map, pc, pid, key,
                 access_count, reg>>

\* The page is read again; the old folio's filemap_free_folio may be due.
ReadFolio(c, f) ==
  /\ pc[c] = "idle"
  /\ f \notin cached
  /\ cached' = cached \cup {f}
  /\ UNCHANGED <<map_vars, elem, static_counter, pid_map, freeing, pc, pid,
                 key, access_count, reg>>
-----------------------------------------------------------------------------
Init ==
  /\ page_access_map = [k \in page_key |-> NULL]
  /\ elem = [e \in Elems |-> [ref_count |-> 0, rank |-> 0, pid |-> NULL]]
  /\ spare \in [Cpus -> Elems]
  /\ \A c, d \in Cpus : spare[c] = spare[d] => c = d
  /\ free = Elems \ {spare[c] : c \in Cpus}
  /\ static_counter = 0
  /\ pid_map = {}
  /\ cached = Folios
  /\ freeing = {}
  /\ pc = [c \in Cpus |-> "idle"]
  /\ pid = [c \in Cpus |-> NULL]
  /\ key = [c \in Cpus |-> NULL]
  /\ access_count = [c \in Cpus |-> NULL]
  /\ reg = [c \in Cpus |-> 0]

Step(c) ==
  \/ \E f \in Folios : \/ \E p \in Pids : MarkAccessed(c, p, f)
                       \/ FreeFolio(c, f)
                       \/ RemoveFolio(c, f)
                       \/ ReadFolio(c, f)
  \/ Lookup(c)
  \/ RefLoad(c)
  \/ RefStore(c)
  \/ CounterLoad(c)
  \/ CounterStore(c)
  \/ Stamp(c)
  \/ Update(c)
  \/ FreeLookup(c)
  \/ FreeDelete(c)

Next == (\E c \in Cpus : Step(c)) \/ (\E p \in Pids : AddPid(p))

Spec == Init /\ [][Next]_vars
-----------------------------------------------------------------------------
\* Every entry of page_access_map was written by a registered process and
\* counts at least one access, whatever element a stale pointer of another
\* CPU reached: the readers of the dump divide by these counts, and the pid
\* filter of folio_mark_accessed is what keeps other processes out of it.
EntriesAttributed ==
  \A k \in page_key : Present(k) =>
    /\ elem[page_access_map[k]].ref_count >= 1
    /\ elem[page_access_map[k]].pid \in pid_map
=============================================================================
