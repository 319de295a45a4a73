-------------------------- MODULE PageCountsProofs --------------------------
(***************************************************************************)
(* For any number of CPUs, pages, processes and map elements: the typing   *)
(* invariant of PageAccess and EntriesAttributed; and, if handlers of one  *)
(* page never overlap, that the counts of page_access_map are exact and no *)
(* entry outlives its page (CountsExact and NoStaleEntries of PageCounts). *)
(*                                                                         *)
(* EntriesAttributed is not inductive: a handler writes through a pointer  *)
(* that may no longer be linked, and links a copy of what it points to.    *)
(* The strengthening also speaks of the elements held by a handler.  The   *)
(* counts need that elements are not shared (Owned), and what each handler *)
(* in flight knows about its own page (Progress).                          *)
(***************************************************************************)
EXTENDS PageCounts, TLAPS

Attributed(e) == elem[e].ref_count >= 1 /\ elem[e].pid \in pid_map

\* The steps at which a handler of folio_mark_accessed holds a pointer.
Holding == {"ref_load", "ref_store", "counter_load", "counter_store", "stamp",
            "update"}

\* What a handler in flight relies on.
FrameOK(c) ==
  /\ pc[c] # "idle" => key[c] \in page_key
  /\ pc[c] \in Holding \cup {"lookup"} => pid[c] \in pid_map
  /\ pc[c] \in {"ref_load", "ref_store", "stamp"} => access_count[c] # NULL
  /\ access_count[c] # NULL => Attributed(access_count[c])

IInv ==
  /\ TypeOK
  /\ \A c \in Cpus : FrameOK(c)
  /\ \A k \in page_key : Present(k) => Attributed(page_access_map[k])
-----------------------------------------------------------------------------
\* The page_key a handler reads from a folio is one.
LEMMA KeyOfType == ASSUME NEW f \in Folios PROVE KeyOf(f) \in page_key
BY DEF KeyOf, Folios, page_key

\* A folio of the page cache, as filemap_free_folio names it, is a page_key.
LEMMA FolioIsKey == Folios \subseteq page_key
BY DEF Folios, page_key

\* The initial state satisfies the inductive invariant.
LEMMA InitIInv == Init => IInv
BY NullAssumption
   DEF Init, IInv, TypeOK, FrameOK, Present, metric, Steps, Holding


\* Every step preserves the inductive invariant.
LEMMA NextIInv == IInv /\ [Next]_vars => IInv'
<1> SUFFICES ASSUME IInv, [Next]_vars
             PROVE  IInv'
  OBVIOUS
<1> USE NullAssumption DEF IInv, Goto
<1>1. ASSUME NEW c \in Cpus, NEW p \in Pids, NEW f \in Folios,
             MarkAccessed(c, p, f)
      PROVE  IInv'
  BY <1>1, KeyOfType DEF MarkAccessed, TypeOK, FrameOK, Attributed, Present,
     Steps, Holding, map_vars, kernel_vars
<1>2. ASSUME NEW c \in Cpus, Lookup(c)
      PROVE  IInv'
  BY <1>2 DEF Lookup, TypeOK, FrameOK, Attributed, Present, Steps, Holding,
     map_vars, kernel_vars
<1>3. ASSUME NEW c \in Cpus, RefLoad(c)
      PROVE  IInv'
  BY <1>3 DEF RefLoad, TypeOK, FrameOK, Attributed, Present, Steps, Holding,
     map_vars, kernel_vars, metric
<1>4. ASSUME NEW c \in Cpus, RefStore(c)
      PROVE  IInv'
  BY <1>4 DEF RefStore, TypeOK, FrameOK, Attributed, Present, Steps, Holding,
     map_vars, kernel_vars, metric
<1>5. ASSUME NEW c \in Cpus, CounterLoad(c)
      PROVE  IInv'
  BY <1>5 DEF CounterLoad, TypeOK, FrameOK, Attributed, Present, Steps,
     Holding, map_vars, kernel_vars
<1>6. ASSUME NEW c \in Cpus, CounterStore(c)
      PROVE  IInv'
  BY <1>6 DEF CounterStore, TypeOK, FrameOK, Attributed, Present, Steps,
     Holding, map_vars, kernel_vars
<1>7. ASSUME NEW c \in Cpus, Stamp(c)
      PROVE  IInv'
  BY <1>7 DEF Stamp, TypeOK, FrameOK, Attributed, Present, Steps, Holding,
     map_vars, kernel_vars, metric
<1>8. ASSUME NEW c \in Cpus, Update(c)
      PROVE  IInv'
  <2> DEFINE m == IF access_count[c] = NULL
                  THEN [ref_count |-> 1, rank |-> reg[c], pid |-> pid[c]]
                  ELSE elem[access_count[c]]
  <2>1. pc[c] = "update" /\ key[c] \in page_key
    BY <1>8 DEF Update, Return, FrameOK
  <2>2. m \in metric /\ m.ref_count >= 1 /\ m.pid \in pid_map
    BY <2>1 DEF TypeOK, FrameOK, Attributed, metric, Holding
  <2>3. /\ pc' = [pc EXCEPT ![c] = "idle"]
        /\ access_count' = [access_count EXCEPT ![c] = NULL]
        /\ reg' = [reg EXCEPT ![c] = 0]
        /\ pid' = [pid EXCEPT ![c] = NULL]
        /\ key' = [key EXCEPT ![c] = NULL]
        /\ UNCHANGED <<static_counter, pid_map, cached, freeing>>
    BY <1>8 DEF Update, Return, kernel_vars
  <2>4. UpdateElem(c, key[c], m)
    BY <1>8 DEF Update
  <2> HIDE DEF m
  <2>5. /\ \A e \in Elems : elem'[e] = elem[e] \/ elem'[e] = m
        /\ \A k \in page_key : \/ page_access_map'[k] = page_access_map[k]
                               \/ elem'[page_access_map'[k]] = m
        /\ elem' \in [Elems -> metric]
        /\ page_access_map' \in [page_key -> Elems \cup {NULL}]
        /\ spare' \in [Cpus -> Elems]
        /\ free' \subseteq Elems
    <3>1. CASE ReplaceElem(c, key[c], m)
      BY <3>1, <2>1, <2>2 DEF ReplaceElem, Present, TypeOK
    <3>2. CASE InsertElem(key[c], m)
      BY <3>2, <2>1, <2>2 DEF InsertElem, Present, TypeOK
    <3>3. CASE RejectElem(key[c])
      BY <3>3 DEF RejectElem, TypeOK, map_vars
    <3>4. QED
      BY <2>4, <3>1, <3>2, <3>3 DEF UpdateElem
  <2>6. TypeOK'
    BY <2>3, <2>5, Zenon DEF TypeOK, Steps
  <2>7. ASSUME NEW d \in Cpus
        PROVE  FrameOK(d)'
    BY <2>2, <2>3, <2>5 DEF TypeOK, FrameOK, Attributed, Holding
  <2>8. ASSUME NEW k \in page_key, Present(k)'
        PROVE  Attributed(page_access_map[k])'
    BY <2>2, <2>3, <2>5, <2>8 DEF TypeOK, Present, Attributed
  <2>9. QED
    BY <2>6, <2>7, <2>8
<1>9. ASSUME NEW c \in Cpus, NEW f \in Folios, FreeFolio(c, f)
      PROVE  IInv'
  BY <1>9, FolioIsKey DEF FreeFolio, TypeOK, FrameOK, Attributed, Present,
     Steps, Holding, map_vars, kernel_vars
<1>10. ASSUME NEW c \in Cpus, FreeLookup(c)
       PROVE  IInv'
  BY <1>10 DEF FreeLookup, Return, TypeOK, FrameOK, Attributed, Present, Steps,
     Holding, map_vars, kernel_vars
<1>11. ASSUME NEW c \in Cpus, FreeDelete(c)
       PROVE  IInv'
  BY <1>11 DEF FreeDelete, DeleteElem, Return, TypeOK, FrameOK, Attributed,
     Present, Steps, Holding, map_vars, kernel_vars
<1>12. ASSUME NEW p \in Pids, AddPid(p)
       PROVE  IInv'
  BY <1>12 DEF AddPid, TypeOK, FrameOK, Attributed, Present, map_vars,
     kernel_vars
<1>13. ASSUME NEW c \in Cpus, NEW f \in Folios,
              RemoveFolio(c, f) \/ ReadFolio(c, f)
       PROVE  IInv'
  BY <1>13 DEF RemoveFolio, ReadFolio, TypeOK, FrameOK, Attributed, Present,
     map_vars, kernel_vars
<1>14. CASE UNCHANGED vars
  BY <1>14 DEF vars, TypeOK, FrameOK, Attributed, Present
<1>15. QED
  BY <1>1, <1>2, <1>3, <1>4, <1>5, <1>6, <1>7, <1>8, <1>9, <1>10, <1>11,
     <1>12, <1>13, <1>14 DEF Next, Step

\* Every reachable state is well typed.
THEOREM TypeCorrect == Spec => []TypeOK
<1>1. IInv => TypeOK
  BY DEF IInv
<1>2. QED
  BY <1>1, InitIInv, NextIInv, PTL DEF Spec

\* Whatever the number of CPUs and however their handlers interleave, every
\* entry of page_access_map was written by a registered process and counts at
\* least one access.
THEOREM EntriesAreAttributed == Spec => []EntriesAttributed
<1>1. IInv => EntriesAttributed
  BY DEF IInv, EntriesAttributed, Attributed
<1>2. QED
  BY <1>1, InitIInv, NextIInv, PTL DEF Spec
-----------------------------------------------------------------------------
\* The steps by which no two CPUs come to handle the same page at once, while
\* handlers of different pages overlap freely.
ExclusiveNext ==
  \/ \E c \in Cpus, f \in Folios :
       \/ \E p \in Pids : Access(c, p, f) /\ Idle(KeyOf(f))
       \/ Free(c, f) /\ Idle(f)
  \/ \E c \in Cpus : Finish(c)
  \/ Unobserved

\* An element is linked under one key, or free, or the spare of one CPU.
Owned ==
  /\ \A k \in page_key : Present(k) => page_access_map[k] \notin free
  /\ \A k \in page_key, c \in Cpus : page_access_map[k] # spare[c]
  /\ \A j, k \in page_key :
       Present(j) /\ page_access_map[j] = page_access_map[k] => j = k
  /\ \A c \in Cpus : spare[c] \notin free
  /\ \A c, d \in Cpus : spare[c] = spare[d] => c = d

Exclusive ==
  \A c, d \in Cpus :
    pc[c] # "idle" /\ pc[d] # "idle" /\ key[c] = key[d] => c = d

\* What the handler of CPU c, at each step, has done to its page's count.
Progress(c) ==
  LET k == key[c] IN
  /\ pc[c] = "lookup" => RefCount(k) + 1 = hits[k]
  /\ pc[c] \in {"ref_load", "ref_store"} =>
       /\ access_count[c] = page_access_map[k]
       /\ RefCount(k) + 1 = hits[k]
  /\ pc[c] = "ref_store" => reg[c] = RefCount(k)
  /\ pc[c] \in {"counter_load", "counter_store", "stamp", "update"} =>
       /\ access_count[c] = page_access_map[k]
       /\ IF access_count[c] = NULL THEN hits[k] = 1 ELSE RefCount(k) = hits[k]
  /\ pc[c] \in {"free_lookup", "free_delete"} => hits[k] = 0

CountInv ==
  /\ hits \in [page_key -> Nat]
  /\ Exclusive
  /\ \A c \in Cpus : pc[c] # "idle" => Progress(c)
  /\ CountsMatch

FullInv == IInv /\ Owned /\ CountInv
-----------------------------------------------------------------------------
\* A page counts zero accesses exactly when page_access_map has no entry for it.
LEMMA RefCountType == ASSUME IInv, NEW k \in page_key
                      PROVE  RefCount(k) \in Nat /\ (RefCount(k) = 0 <=> ~Present(k))
BY DEF IInv, TypeOK, RefCount, Present, Attributed, metric

\* The initial state, with an empty page_access_map, satisfies the invariant.
LEMMA InitFullInv == CountInit => FullInv
<1> SUFFICES ASSUME CountInit PROVE FullInv
  OBVIOUS
<1>1. IInv
  BY InitIInv DEF CountInit
<1>2. Owned
  BY NullAssumption DEF CountInit, Init, Owned, Present
<1>3. CountInv
  BY DEF CountInit, Init, HistInit, CountInv, Exclusive, CountsMatch, RefCount,
     Present
<1>4. QED
  BY <1>1, <1>2, <1>3 DEF FullInv

\* A step of the exclusive interleaving is a step of PageAccess.
LEMMA ExclusiveIsNext == [ExclusiveNext]_all_vars => [Next]_vars
BY DEF ExclusiveNext, Access, Free, Finish, Unobserved, Silent, Next, Step,
   all_vars, hist_vars, vars

\* No step makes two owners of one element.
LEMMA OwnedNext == IInv /\ Owned /\ [Next]_vars => Owned'
<1> SUFFICES ASSUME IInv, Owned, [Next]_vars
             PROVE  Owned'
  OBVIOUS
<1>1. TypeOK
  BY DEF IInv
<1>2. ASSUME NEW c \in Cpus, Update(c)
      PROVE  Owned'
  <2>1. key[c] \in page_key
    BY <1>2 DEF Update, Return, Goto, IInv, FrameOK
  <2>2. PICK m : UpdateElem(c, key[c], m)
    BY <1>2 DEF Update
  <2>3. CASE ReplaceElem(c, key[c], m)
    BY <2>3, <2>1, <1>1, NullAssumption DEF ReplaceElem, Owned, Present, TypeOK
  <2>4. CASE InsertElem(key[c], m)
    BY <2>4, <2>1, <1>1, NullAssumption DEF InsertElem, Owned, Present, TypeOK
  <2>5. CASE RejectElem(key[c])
    BY <2>5 DEF RejectElem, Owned, Present, map_vars
  <2>6. QED
    BY <2>2, <2>3, <2>4, <2>5 DEF UpdateElem
<1>3. ASSUME NEW c \in Cpus, FreeDelete(c)
      PROVE  Owned'
  <2>1. key[c] \in page_key /\ DeleteElem(key[c])
    BY <1>3 DEF FreeDelete, Return, Goto, IInv, FrameOK
  <2>2. QED
    BY <2>1, <1>1, NullAssumption DEF DeleteElem, Owned, Present, TypeOK, map_vars
<1>4. CASE UNCHANGED map_vars
  BY <1>4 DEF Owned, Present, map_vars
<1>5. QED
  BY <1>2, <1>3, <1>4, ZenonT(30) DEF Next, Step, MarkAccessed, Lookup, RefLoad, RefStore,
     CounterLoad, CounterStore, Stamp, FreeFolio, FreeLookup, AddPid,
     RemoveFolio, ReadFolio, vars, map_vars

\* A step of CPU c that only touches the count of page k, which no other CPU
\* handles, preserves CountInv if it does so for c and k.
LEMMA Local ==
  ASSUME NEW c \in Cpus, NEW k \in page_key, CountInv, IInv,
         \A d \in Cpus : d # c /\ pc[d] # "idle" => key[d] # k /\ key[d] \in page_key,
         \A d \in Cpus : d # c =>
           /\ pc'[d] = pc[d] /\ key'[d] = key[d]
           /\ access_count'[d] = access_count[d] /\ reg'[d] = reg[d],
         pc[c] # "idle" => key[c] = k,
         pc'[c] # "idle" => key'[c] = k,
         \A j \in page_key : j # k =>
           /\ page_access_map'[j] = page_access_map[j]
           /\ RefCount(j)' = RefCount(j),
         hits' \in [page_key -> Nat],
         \A j \in page_key : j # k => hits'[j] = hits[j],
         pc'[c] # "idle" => Progress(c)',
         pc'[c] = "idle" => RefCount(k)' = hits'[k]
  PROVE  CountInv'
<1>1. Exclusive'
  BY DEF CountInv, Exclusive
<1>2. ASSUME NEW d \in Cpus, pc'[d] # "idle"
      PROVE  Progress(d)'
  <2>1. CASE d = c
    BY <2>1, <1>2
  <2>2. CASE d # c
    <3>1. Progress(d) /\ key[d] \in page_key /\ key[d] # k
      BY <2>2, <1>2 DEF CountInv
    <3>2. QED
      BY <3>1, <2>2 DEF Progress
  <2>3. QED
    BY <2>1, <2>2
<1>3. ASSUME NEW j \in page_key, Idle(j)'
      PROVE  RefCount(j)' = hits'[j]
  <2>1. CASE j = k
    <3>1. pc'[c] = "idle"
      BY <2>1, <1>3 DEF Idle
    <3>2. QED
      BY <2>1, <3>1
  <2>2. CASE j # k
    <3>1. Idle(j)
      BY <2>2, <1>3 DEF Idle
    <3>2. QED
      BY <2>2, <3>1 DEF CountInv, CountsMatch
  <2>3. QED
    BY <2>1, <2>2
<1>4. QED
  BY <1>1, <1>2, <1>3 DEF CountInv, CountsMatch

\* A CPU in a handler has its page to itself.
LEMMA Alone ==
  ASSUME FullInv, NEW c \in Cpus, pc[c] # "idle"
  PROVE  /\ key[c] \in page_key
         /\ \A d \in Cpus : d # c /\ pc[d] # "idle" =>
              key[d] # key[c] /\ key[d] \in page_key
BY DEF FullInv, IInv, FrameOK, CountInv, Exclusive

\* The handler steps that leave the map, the elements' counts and the history
\* alone, and stay in the handler.
LEMMA QuietStep ==
  ASSUME FullInv, NEW c \in Cpus, pc[c] # "idle",
         Lookup(c) \/ RefLoad(c) \/ CounterLoad(c) \/ CounterStore(c),
         UNCHANGED hist_vars
  PROVE  CountInv'
<1> USE DEF Goto, map_vars, hist_vars
<1>1. /\ key[c] \in page_key
      /\ \A d \in Cpus : d # c /\ pc[d] # "idle" =>
           key[d] # key[c] /\ key[d] \in page_key
  BY Alone
<1>2. TypeOK /\ CountInv /\ IInv /\ Progress(c) /\ FrameOK(c)
  BY DEF FullInv, IInv, CountInv
<1>3. /\ UNCHANGED <<page_access_map, elem, hits, key>>
      /\ pc'[c] # "idle"
      /\ \A d \in Cpus : d # c =>
           /\ pc'[d] = pc[d]
           /\ access_count'[d] = access_count[d] /\ reg'[d] = reg[d]
  BY <1>2 DEF Lookup, RefLoad, CounterLoad, CounterStore, TypeOK
<1>4. \A j \in page_key : RefCount(j)' = RefCount(j)
  BY <1>3 DEF RefCount, Present
<1>5. Progress(c)'
  <2>1. CASE Lookup(c)
    BY <2>1, <1>1, <1>2, <1>3, <1>4, RefCountType
       DEF Lookup, Progress, TypeOK, Present, CountInv
  <2>2. CASE RefLoad(c)
    BY <2>2, <1>1, <1>2, <1>3, <1>4 DEF RefLoad, Progress, TypeOK, FrameOK, RefCount, Present
  <2>3. CASE CounterLoad(c)
    BY <2>3, <1>1, <1>2, <1>3, <1>4 DEF CounterLoad, Progress, TypeOK
  <2>4. CASE CounterStore(c)
    BY <2>4, <1>1, <1>2, <1>3, <1>4 DEF CounterStore, Progress, TypeOK
  <2>5. QED
    BY <2>1, <2>2, <2>3, <2>4
<1>6. QED
  BY <1>1, <1>2, <1>3, <1>4, <1>5, Local DEF CountInv

\* Writing through the pointer changes the count of the handler's own page.
LEMMA StoreStep ==
  ASSUME FullInv, NEW c \in Cpus, RefStore(c) \/ Stamp(c), UNCHANGED hist_vars
  PROVE  CountInv'
<1> USE DEF Goto, map_vars, hist_vars
<1>0. pc[c] # "idle"
  BY DEF RefStore, Stamp
<1>1. /\ key[c] \in page_key
      /\ \A d \in Cpus : d # c /\ pc[d] # "idle" =>
           key[d] # key[c] /\ key[d] \in page_key
  BY <1>0, Alone
<1>2. TypeOK /\ CountInv /\ IInv /\ Owned /\ Progress(c) /\ FrameOK(c)
  BY <1>0 DEF FullInv, IInv, CountInv
<1>3. /\ UNCHANGED <<page_access_map, hits, key, access_count, reg>>
      /\ pc'[c] # "idle"
      /\ \A d \in Cpus : d # c => pc'[d] = pc[d]
  BY <1>2 DEF RefStore, Stamp, TypeOK
<1>4. /\ access_count[c] = page_access_map[key[c]]
      /\ access_count[c] \in Elems /\ access_count[c] # NULL
      /\ Present(key[c])
  BY <1>1, <1>2 DEF RefStore, Stamp, Progress, FrameOK, TypeOK, Present
<1>5. \A e \in Elems : e # access_count[c] => elem'[e] = elem[e]
  BY <1>2 DEF RefStore, Stamp, TypeOK
<1>6. \A j \in page_key : j # key[c] => RefCount(j)' = RefCount(j)
  BY <1>1, <1>2, <1>3, <1>4, <1>5, NullAssumption DEF RefCount, Present, Owned, TypeOK
<1>7. Progress(c)'
  <2>1. CASE RefStore(c)
    <3>1. elem'[access_count[c]].ref_count = reg[c] + 1
      BY <2>1, <1>2, <1>4 DEF RefStore, TypeOK, metric
    <3>2. RefCount(key[c])' = hits[key[c]]
      BY <3>1, <2>1, <1>2, <1>3, <1>4 DEF RefStore, RefCount, Present, Progress
    <3>3. QED
      BY <3>2, <2>1, <1>2, <1>3, <1>4 DEF RefStore, Progress, TypeOK
  <2>2. CASE Stamp(c)
    <3>1. elem'[access_count[c]].ref_count = elem[access_count[c]].ref_count
      BY <2>2, <1>2, <1>4 DEF Stamp, TypeOK, metric
    <3>2. RefCount(key[c])' = hits[key[c]]
      BY <3>1, <2>2, <1>2, <1>3, <1>4, SMTT(30) DEF Stamp, RefCount, Present, Progress
    <3>3. QED
      BY <3>2, <2>2, <1>2, <1>3, <1>4 DEF Stamp, Progress, TypeOK
  <2>3. QED
    BY <2>1, <2>2
<1>8. QED
  BY <1>1, <1>2, <1>3, <1>6, <1>7, Local DEF CountInv

\* The final update publishes exactly the count of the handler's page, or is
\* refused and takes the access out of the history.
LEMMA FinishStep ==
  ASSUME FullInv, NEW c \in Cpus, Finish(c)
  PROVE  CountInv'
<1> DEFINE m == IF access_count[c] = NULL
                THEN [ref_count |-> 1, rank |-> reg[c], pid |-> pid[c]]
                ELSE elem[access_count[c]]
<1>0. pc[c] = "update" /\ pc'[c] = "idle"
  BY DEF Finish, Update, Return, Goto, FullInv, IInv, TypeOK
<1>1. PICK k \in page_key :
        /\ key[c] = k
        /\ \A d \in Cpus : d # c /\ pc[d] # "idle" =>
             key[d] # k /\ key[d] \in page_key
  BY <1>0, Alone
<1>2. TypeOK /\ CountInv /\ IInv /\ Owned /\ Progress(c) /\ hits \in [page_key -> Nat]
  BY <1>0 DEF FullInv, IInv, CountInv
<1>3. \A d \in Cpus : d # c =>
        /\ pc'[d] = pc[d] /\ key'[d] = key[d]
        /\ access_count'[d] = access_count[d] /\ reg'[d] = reg[d]
  BY <1>2 DEF Finish, Update, Return, Goto, TypeOK
<1>4. /\ access_count[c] = page_access_map[k]
      /\ access_count[c] = NULL => hits[k] = 1
      /\ access_count[c] # NULL => RefCount(k) = hits[k]
  BY <1>0, <1>1, <1>2 DEF Progress
<1>5. m.ref_count = hits[k]
  BY <1>4 DEF RefCount, Present
<1>6. UpdateElem(c, k, m)
  BY <1>1 DEF Finish, Update
<1>7. hits' = [hits EXCEPT ![k] = IF ~Present(k) /\ free = {}
                                  THEN hits[k] - 1 ELSE hits[k]]
  BY <1>1, <1>2 DEF Finish, RecordUpdate
<1> HIDE DEF m
<1>8. /\ \A j \in page_key : j # k =>
           /\ page_access_map'[j] = page_access_map[j]
           /\ RefCount(j)' = RefCount(j)
      /\ RefCount(k)' = hits'[k]
      /\ hits'[k] \in Nat
  <2>1. CASE Present(k) \/ free # {}
    <3>1. hits'[k] = hits[k]
      BY <2>1, <1>2, <1>7
    <3>2. PICK e \in Elems :
            /\ elem' = [elem EXCEPT ![e] = m]
            /\ page_access_map' = [page_access_map EXCEPT ![k] = e]
            /\ \A j \in page_key : page_access_map[j] # e
      <4>1. CASE ReplaceElem(c, k, m)
        BY <4>1, <1>2, Zenon DEF ReplaceElem, Owned, TypeOK
      <4>2. CASE InsertElem(k, m)
        <5>1. PICK e \in free :
                /\ elem' = [elem EXCEPT ![e] = m]
                /\ page_access_map' = [page_access_map EXCEPT ![k] = e]
          BY <4>2, Zenon DEF InsertElem
        <5>2. e \in Elems /\ e # NULL
          BY <1>2, NullAssumption DEF TypeOK
        <5>3. \A j \in page_key : page_access_map[j] # e
          BY <5>2, <1>2 DEF Owned, Present
        <5>4. QED
          BY <5>1, <5>2, <5>3, Zenon
      <4>3. QED
        BY <2>1, <1>6, <4>1, <4>2 DEF UpdateElem, RejectElem
    <3>3. e # NULL
      BY NullAssumption
    <3>4. RefCount(k)' = m.ref_count
      BY <3>2, <3>3, <1>2 DEF RefCount, Present, TypeOK
    <3>5. \A j \in page_key : j # k =>
            /\ page_access_map'[j] = page_access_map[j]
            /\ RefCount(j)' = RefCount(j)
      BY <3>2, <3>3, <1>2 DEF RefCount, Present, TypeOK
    <3>6. QED
      BY <3>1, <3>4, <3>5, <1>2, <1>5
  <2>2. CASE ~Present(k) /\ free = {}
    <3>1. UNCHANGED <<page_access_map, elem>>
      BY <2>2, <1>6 DEF UpdateElem, ReplaceElem, InsertElem, RejectElem, map_vars
    <3>2. hits'[k] = 0
      BY <2>2, <1>2, <1>4, <1>7 DEF Present
    <3>3. QED
      BY <2>2, <3>1, <3>2 DEF RefCount, Present
  <2>3. QED
    BY <2>1, <2>2
<1>9. \A j \in page_key : j # k => hits'[j] = hits[j]
  BY <1>2, <1>7
<1>10. hits' \in [page_key -> Nat]
  BY <1>2, <1>7, <1>8
<1>11. QED
  BY <1>0, <1>1, <1>2, <1>3, <1>8, <1>9, <1>10, Local

\* A handler starts on a page that no other CPU handles.
LEMMA StartStep ==
  ASSUME FullInv, NEW c \in Cpus, NEW f \in Folios,
         \/ \E p \in Pids : Access(c, p, f) /\ Idle(KeyOf(f))
         \/ Free(c, f) /\ Idle(f)
  PROVE  CountInv'
<1> USE DEF Goto, map_vars
<1>1. TypeOK /\ CountInv /\ IInv /\ hits \in [page_key -> Nat]
  BY DEF FullInv, IInv, CountInv
<1>2. \A d \in Cpus : pc[d] # "idle" => key[d] \in page_key
  BY <1>1 DEF IInv, FrameOK
<1>3. \A k \in page_key : RefCount(k) \in Nat
  BY <1>1, RefCountType
<1>4. CASE \E p \in Pids : Access(c, p, f) /\ Idle(KeyOf(f))
  <2> DEFINE k == KeyOf(f)
  <2>1. PICK p \in Pids : Access(c, p, f) /\ Idle(k)
    BY <1>4
  <2>2. k \in page_key
    BY KeyOfType
  <2>3. /\ pc[c] = "idle" /\ pc' = [pc EXCEPT ![c] = "lookup"]
        /\ key' = [key EXCEPT ![c] = k]
        /\ hits' = [hits EXCEPT ![k] = hits[k] + 1]
        /\ UNCHANGED <<page_access_map, elem, access_count, reg>>
    BY <2>1, <1>1 DEF Access, MarkAccessed, RecordAccess
  <2>4. Idle(k) /\ RefCount(k) = hits[k]
    BY <2>1, <2>2, <1>1 DEF CountInv, CountsMatch
  <2> HIDE DEF k
  <2>5. \A j \in page_key : RefCount(j)' = RefCount(j)
    BY <2>3 DEF RefCount, Present
  <2>6. Progress(c)'
    BY <2>2, <2>3, <2>4, <2>5, <1>1 DEF Progress, TypeOK
  <2>7. QED
    BY <2>2, <2>3, <2>4, <2>5, <2>6, <1>1, <1>2, Local, SMTT(30) DEF Idle, TypeOK
<1>5. CASE Free(c, f) /\ Idle(f)
  <2>1. f \in page_key
    BY FolioIsKey
  <2>2. /\ pc[c] = "idle" /\ pc' = [pc EXCEPT ![c] = "free_lookup"]
        /\ key' = [key EXCEPT ![c] = f]
        /\ hits' = [hits EXCEPT ![f] = 0]
        /\ UNCHANGED <<page_access_map, elem, access_count, reg>>
    BY <1>5 DEF Free, FreeFolio, RecordFree
  <2>3. \A j \in page_key : RefCount(j)' = RefCount(j)
    BY <2>2 DEF RefCount, Present
  <2>4. Progress(c)'
    BY <2>1, <2>2, <1>1 DEF Progress, TypeOK
  <2>5. QED
    BY <1>5, <2>1, <2>2, <2>3, <2>4, <1>1, <1>2, Local DEF Idle, TypeOK
<1>6. QED
  BY <1>4, <1>5

\* filemap_free_folio ends with no entry for its page.
LEMMA FreeStep ==
  ASSUME FullInv, NEW c \in Cpus, FreeLookup(c) \/ FreeDelete(c),
         UNCHANGED hist_vars
  PROVE  CountInv'
<1> USE DEF Goto, map_vars, hist_vars
<1>0. pc[c] \in {"free_lookup", "free_delete"}
  BY DEF FreeLookup, FreeDelete, Return
<1>1. PICK k \in page_key :
        /\ key[c] = k
        /\ \A d \in Cpus : d # c /\ pc[d] # "idle" =>
             key[d] # k /\ key[d] \in page_key
  BY <1>0, Alone
<1>2. TypeOK /\ CountInv /\ IInv /\ Owned /\ hits \in [page_key -> Nat] /\ hits[k] = 0
  BY <1>0, <1>1 DEF FullInv, IInv, CountInv, Progress
<1>3. /\ UNCHANGED <<elem, hits>>
      /\ \A d \in Cpus : d # c =>
           /\ pc'[d] = pc[d] /\ key'[d] = key[d]
           /\ access_count'[d] = access_count[d] /\ reg'[d] = reg[d]
      /\ pc'[c] = "idle" \/ (pc'[c] = "free_delete" /\ key'[c] = k)
  BY <1>1, <1>2 DEF FreeLookup, FreeDelete, Return, TypeOK
<1>4. /\ \A j \in page_key : j # k => page_access_map'[j] = page_access_map[j]
      /\ pc'[c] = "idle" => page_access_map'[k] = NULL
  BY <1>1, <1>2 DEF FreeLookup, FreeDelete, Return, DeleteElem, Present, TypeOK
<1>5. \A j \in page_key : j # k => RefCount(j)' = RefCount(j)
  BY <1>3, <1>4 DEF RefCount, Present
<1>6. pc'[c] # "idle" => Progress(c)'
  BY <1>2, <1>3 DEF Progress
<1>7. pc'[c] = "idle" => RefCount(k)' = hits'[k]
  BY <1>2, <1>3, <1>4 DEF RefCount, Present
<1>8. QED
  BY <1>0, <1>1, <1>2, <1>3, <1>4, <1>5, <1>6, <1>7, Local

\* Every step of the exclusive interleaving preserves the full invariant.
LEMMA NextFullInv == FullInv /\ [ExclusiveNext]_all_vars => FullInv'
<1> SUFFICES ASSUME FullInv, [ExclusiveNext]_all_vars
             PROVE  FullInv'
  OBVIOUS
<1>1. IInv' /\ Owned'
  BY NextIInv, OwnedNext, ExclusiveIsNext DEF FullInv
<1>2. ASSUME UNCHANGED <<page_access_map, elem, pc, key, access_count, reg, hits>>
      PROVE  CountInv'
  BY <1>2 DEF FullInv, CountInv, Exclusive, Progress, CountsMatch, Idle, RefCount,
     Present
<1>3. ASSUME NEW c \in Cpus, Silent(c), UNCHANGED hist_vars
      PROVE  CountInv'
  <2>1. CASE \E f \in Folios : RemoveFolio(c, f) \/ ReadFolio(c, f)
    BY <2>1, <1>2, <1>3 DEF RemoveFolio, ReadFolio, map_vars, hist_vars
  <2>2. CASE Lookup(c) \/ RefLoad(c) \/ CounterLoad(c) \/ CounterStore(c)
    BY <2>2, <1>3, QuietStep DEF Lookup, RefLoad, CounterLoad, CounterStore, Goto
  <2>3. CASE RefStore(c) \/ Stamp(c)
    BY <2>3, <1>3, StoreStep
  <2>4. CASE FreeLookup(c) \/ FreeDelete(c)
    BY <2>4, <1>3, FreeStep
  <2>5. QED
    BY <1>3, <2>1, <2>2, <2>3, <2>4 DEF Silent
<1>4. ASSUME NEW p \in Pids, AddPid(p), UNCHANGED hist_vars
      PROVE  CountInv'
  BY <1>2, <1>4 DEF AddPid, map_vars, hist_vars
<1>5. ASSUME UNCHANGED all_vars
      PROVE  CountInv'
  BY <1>2, <1>5 DEF all_vars, hist_vars, vars
<1>6. CountInv'
  BY <1>3, <1>4, <1>5, StartStep, FinishStep DEF ExclusiveNext, Unobserved
<1>7. QED
  BY <1>1, <1>6 DEF FullInv

-----------------------------------------------------------------------------
\* A handler of folio_mark_accessed works on a page that is cached, or whose
\* filemap_free_folio is still to come.
StaleInv ==
  /\ \A c \in Cpus :
       pc[c] \in Holding \cup {"lookup"} /\ key[c] \in Folios =>
         key[c] \in cached \cup freeing
  /\ EntriesCurrent

\* No step of the handlers or of the page cache leaves an entry behind that no
\* call of filemap_free_folio is due for.
LEMMA NextStaleInv == FullInv /\ StaleInv /\ [ExclusiveNext]_all_vars => StaleInv'
<1> SUFFICES ASSUME FullInv, StaleInv, [ExclusiveNext]_all_vars
             PROVE  StaleInv'
  OBVIOUS
<1> USE DEF Goto, map_vars, kernel_vars, Holding
<1>0. TypeOK /\ \A c \in Cpus : FrameOK(c)
  BY DEF FullInv, IInv
<1>1. ASSUME UNCHANGED <<page_access_map, pc, key>>,
             cached \cup freeing \subseteq cached' \cup freeing'
      PROVE  StaleInv'
  BY <1>1 DEF StaleInv, EntriesCurrent, Present, Idle
<1>2. ASSUME NEW c \in Cpus, NEW p \in Pids, NEW f \in Folios,
             MarkAccessed(c, p, f)
      PROVE  StaleInv'
  <2>1. KeyOf(f) \in Folios => KeyOf(f) \in cached
    BY NullAssumption DEF KeyOf, Folios
  <2>2. QED
    BY <1>0, <1>2, <2>1 DEF MarkAccessed, StaleInv, EntriesCurrent, Present, Idle,
       TypeOK
<1>3. ASSUME NEW c \in Cpus, NEW f \in Folios, FreeFolio(c, f), Idle(f)
      PROVE  StaleInv'
  BY <1>0, <1>3 DEF FreeFolio, StaleInv, EntriesCurrent, Present, Idle, TypeOK
<1>4. ASSUME NEW c \in Cpus, Update(c)
      PROVE  StaleInv'
  <2>1. /\ pc[c] = "update" /\ key[c] \in page_key
        /\ pc' = [pc EXCEPT ![c] = "idle"]
        /\ key' = [key EXCEPT ![c] = NULL]
        /\ UNCHANGED <<cached, freeing>>
    BY <1>0, <1>4 DEF Update, Return, FrameOK
  <2>2. PICK m : UpdateElem(c, key[c], m)
    BY <1>4 DEF Update
  <2>3. \A j \in page_key : j # key[c] => page_access_map'[j] = page_access_map[j]
    BY <2>1, <2>2, <1>0
       DEF UpdateElem, ReplaceElem, InsertElem, RejectElem, TypeOK
  <2>4. \A d \in Cpus : d # c => pc'[d] = pc[d] /\ key'[d] = key[d]
    BY <2>1, <1>0 DEF TypeOK
  <2>5. pc'[c] = "idle"
    BY <2>1, <1>0 DEF TypeOK
  <2>6. ASSUME NEW f \in Folios, Present(f)', Idle(f)'
        PROVE  f \in cached \cup freeing
    <3>1. CASE f = key[c]
      BY <2>1, <3>1 DEF StaleInv
    <3>2. CASE f # key[c]
      <4>1. Present(f)
        BY <2>3, <2>6, <3>2, FolioIsKey DEF Present
      <4>2. Idle(f)
        BY <2>4, <2>6, <3>2 DEF Idle
      <4> QED
        BY <4>1, <4>2 DEF StaleInv, EntriesCurrent
    <3> QED
      BY <3>1, <3>2
  <2>7. EntriesCurrent'
    BY <2>1, <2>6 DEF EntriesCurrent
  <2> QED
    BY <2>1, <2>4, <2>5, <2>7 DEF StaleInv
<1>5. ASSUME NEW c \in Cpus, FreeLookup(c) \/ FreeDelete(c)
      PROVE  StaleInv'
  <2>1. /\ pc[c] \in {"free_lookup", "free_delete"} /\ key[c] \in page_key
        /\ UNCHANGED <<cached, freeing>>
        /\ \A d \in Cpus : d # c => pc'[d] = pc[d] /\ key'[d] = key[d]
        /\ \/ pc'[c] = "free_delete" /\ key'[c] = key[c]
           \/ pc'[c] = "idle" /\ page_access_map'[key[c]] = NULL
    BY <1>0, <1>5 DEF FreeLookup, FreeDelete, Return, DeleteElem, Present, FrameOK,
       TypeOK
  <2>2. \A j \in page_key : j # key[c] => page_access_map'[j] = page_access_map[j]
    BY <1>0, <1>5, <2>1 DEF FreeLookup, FreeDelete, DeleteElem, TypeOK
  <2>3. ASSUME NEW f \in Folios, Present(f)', Idle(f)'
        PROVE  f \in cached \cup freeing
    <3>1. f # key[c]
      BY <2>1, <2>3 DEF Present, Idle
    <3>2. Present(f)
      BY <2>2, <2>3, <3>1, FolioIsKey DEF Present
    <3>3. Idle(f)
      BY <2>1, <2>3, <3>1, ZenonT(30) DEF Idle
    <3> QED
      BY <3>2, <3>3 DEF StaleInv, EntriesCurrent
  <2>4. EntriesCurrent'
    BY <2>1, <2>3, Zenon DEF EntriesCurrent
  <2> QED
    BY <2>1, <2>4 DEF StaleInv
<1>6. ASSUME NEW c \in Cpus,
             \/ Lookup(c) \/ RefLoad(c) \/ RefStore(c)
             \/ CounterLoad(c) \/ CounterStore(c) \/ Stamp(c)
      PROVE  StaleInv'
  <2>1. /\ pc[c] \in Holding \cup {"lookup"} /\ pc'[c] \in Holding
        /\ \A d \in Cpus : d # c => pc'[d] = pc[d]
        /\ UNCHANGED <<page_access_map, key, cached, freeing>>
    BY <1>0, <1>6 DEF Lookup, RefLoad, RefStore, CounterLoad, CounterStore, Stamp,
       TypeOK
  <2>2. QED
    BY <2>1 DEF StaleInv, EntriesCurrent, Present, Idle
<1>7. ASSUME NEW c \in Cpus, NEW f \in Folios, RemoveFolio(c, f) \/ ReadFolio(c, f)
      PROVE  StaleInv'
  BY <1>1, <1>7 DEF RemoveFolio, ReadFolio
<1>8. ASSUME NEW p \in Pids, AddPid(p)
      PROVE  StaleInv'
  BY <1>1, <1>8 DEF AddPid
<1>9. ASSUME UNCHANGED all_vars
      PROVE  StaleInv'
  BY <1>1, <1>9 DEF all_vars, vars
<1>10. QED
  BY <1>2, <1>3, <1>4, <1>5, <1>6, <1>7, <1>8, <1>9
     DEF ExclusiveNext, Access, Free, Finish, Unobserved, Silent

-----------------------------------------------------------------------------
\* While overlap is FALSE every step has been exclusive.
LEMMA NoOverlapIsExclusive ==
  overlap \in BOOLEAN /\ [CountNext]_all_vars =>
    overlap' \in BOOLEAN /\ (~overlap' => ~overlap /\ [ExclusiveNext]_all_vars)
<1> SUFFICES ASSUME overlap \in BOOLEAN, [CountNext]_all_vars
             PROVE  overlap' \in BOOLEAN /\
                    (~overlap' => ~overlap /\ [ExclusiveNext]_all_vars)
  OBVIOUS
<1>1. ASSUME NEW c \in Cpus, NEW f \in Folios, NEW p \in Pids, Access(c, p, f)
      PROVE  overlap' = (overlap \/ ~Idle(KeyOf(f)))
  BY <1>1 DEF Access, RecordAccess
<1>2. ASSUME NEW c \in Cpus, NEW f \in Folios, Free(c, f)
      PROVE  overlap' = (overlap \/ ~Idle(f))
  BY <1>2 DEF Free, RecordFree
<1>3. ASSUME NEW c \in Cpus, Finish(c)
      PROVE  overlap' = overlap
  BY <1>3 DEF Finish, RecordUpdate
<1>4. ASSUME Unobserved \/ UNCHANGED all_vars
      PROVE  overlap' = overlap
  BY <1>4 DEF Unobserved, all_vars, hist_vars
<1>5. QED
  BY <1>1, <1>2, <1>3, <1>4, Zenon DEF CountNext, ExclusiveNext

\* What holds until handlers of one page overlap.
UntilOverlap == overlap \in BOOLEAN /\ (~overlap => FullInv /\ StaleInv)

\* Both invariants hold until handlers of one page overlap.
LEMMA UntilOverlapInvariant == CountSpec => []UntilOverlap
<1>1. CountInit => UntilOverlap
  <2>1. CountInit => StaleInv
    BY DEF CountInit, Init, StaleInv, EntriesCurrent, Present, Holding
  <2>2. CountInit => overlap \in BOOLEAN
    BY Zenon DEF CountInit, HistInit
  <2>3. QED
    BY <2>1, <2>2, InitFullInv DEF UntilOverlap
<1>2. UntilOverlap /\ [CountNext]_all_vars => UntilOverlap'
  BY NoOverlapIsExclusive, NextFullInv, NextStaleInv DEF UntilOverlap
<1>3. QED
  BY <1>1, <1>2, PTL DEF CountSpec

\* On any number of CPUs, until two of them handle the same page at once, the
\* count of every page that is not being handled is the number of its accesses
\* since filemap_free_folio last ran for it, although handlers of other pages
\* recycle elements concurrently and the increment is not atomic.
THEOREM CountsAreExact == CountSpec => []CountsExact
<1>1. UntilOverlap => CountsExact
  BY DEF UntilOverlap, FullInv, CountInv, CountsExact
<1>2. QED
  BY <1>1, UntilOverlapInvariant, PTL

\* On any number of CPUs, until two of them handle the same page at once, an
\* entry whose page left the page cache is one filemap_free_folio is still
\* going to delete.
THEOREM EntriesAreNotStale == CountSpec => []NoStaleEntries
<1>1. UntilOverlap => NoStaleEntries
  BY DEF UntilOverlap, StaleInv, NoStaleEntries
<1>2. QED
  BY <1>1, UntilOverlapInvariant, PTL
=============================================================================
