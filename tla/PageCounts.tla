----------------------------- MODULE PageCounts -----------------------------
(***************************************************************************)
(* What the counts of page_access_map mean: the handlers of PageAccess     *)
(* with the accesses they were called for recorded beside them.            *)
(*                                                                         *)
(* The history variables are                                               *)
(*   hits[k]  accesses of page k by registered processes since             *)
(*            filemap_free_folio was last called for k, not counting the   *)
(*            ones refused because the map was full;                       *)
(*   freed    pages filemap_free_folio has been called for;                *)
(*   overlap  whether a handler has ever started for a page that another   *)
(*            CPU was handling.                                            *)
(***************************************************************************)
EXTENDS PageAccess

VARIABLES hits, freed, overlap

hist_vars == <<hits, freed, overlap>>
all_vars == <<vars, hist_vars>>

HistInit ==
  /\ hits = [k \in page_key |-> 0]
  /\ freed = {}
  /\ overlap = FALSE

CountInit == Init /\ HistInit

\* No CPU is running a handler for page k.
Idle(k) == \A c \in Cpus : pc[c] # "idle" => key[c] # k

RecordAccess(k) ==
  /\ hits' = [hits EXCEPT ![k] = @ + 1]
  /\ overlap' = (overlap \/ ~Idle(k))
  /\ UNCHANGED freed

\* The update of page k was refused when the map is full.
RecordUpdate(k) ==
  /\ hits' = [hits EXCEPT ![k] = IF ~Present(k) /\ free = {} THEN @ - 1 ELSE @]
  /\ UNCHANGED <<freed, overlap>>

RecordFree(k) ==
  /\ hits' = [hits EXCEPT ![k] = 0]
  /\ freed' = freed \cup {k}
  /\ overlap' = (overlap \/ ~Idle(k))

\* The steps of the handlers that the history does not observe.
Silent(c) ==
  \/ \E f \in Folios : RemoveFolio(c, f) \/ ReadFolio(c, f)
  \/ Lookup(c)
  \/ RefLoad(c)
  \/ RefStore(c)
  \/ CounterLoad(c)
  \/ CounterStore(c)
  \/ Stamp(c)
  \/ FreeLookup(c)
  \/ FreeDelete(c)

Access(c, p, f) == MarkAccessed(c, p, f) /\ RecordAccess(KeyOf(f))
Free(c, f) == FreeFolio(c, f) /\ RecordFree(f)
Finish(c) == Update(c) /\ RecordUpdate(key[c])

Unobserved ==
  /\ (\E c \in Cpus : Silent(c)) \/ (\E p \in Pids : AddPid(p))
  /\ UNCHANGED hist_vars

\* Every interleaving of the CPUs.
CountNext ==
  \/ \E c \in Cpus, f \in Folios : \/ \E p \in Pids : Access(c, p, f)
                                   \/ Free(c, f)
  \/ \E c \in Cpus : Finish(c)
  \/ Unobserved

CountSpec == CountInit /\ [][CountNext]_all_vars
-----------------------------------------------------------------------------
RefCount(k) == IF Present(k) THEN elem[page_access_map[k]].ref_count ELSE 0

CountsMatch == \A k \in page_key : Idle(k) => RefCount(k) = hits[k]

EntriesCurrent ==
  \A f \in Folios : Present(f) /\ Idle(f) => f \in cached \cup freeing

\* As long as handlers of one page have not overlapped, its entry holds exactly
\* the number of accesses since the page was freed, although the in-place
\* increment of folio_mark_accessed is not atomic and elements are recycled by
\* the handlers of other pages.
CountsExact == ~overlap => CountsMatch

\* As long as handlers of one page have not overlapped, filemap_free_folio
\* leaves no entry behind for a page that is no longer in the page cache.
NoStaleEntries == ~overlap => EntriesCurrent

\* "Map to store page access counts": once the handlers of a page that was
\* never freed are done, its entry holds the number of its accesses, also if
\* they overlapped.
OverlappingCountsExact ==
  \A k \in page_key \ freed : Idle(k) => RefCount(k) = hits[k]
=============================================================================
