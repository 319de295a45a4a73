---------------------------- MODULE ProbesProofs ----------------------------
(***************************************************************************)
(* The two tracers that keep what one probe saw in a map until a later     *)
(* probe of the same task needs it: tracecon and bootstrap.  The theorems  *)
(* hold for any number of threads, pids, names and addresses and any sizes *)
(* of the maps and the ring buffer.                                        *)
(***************************************************************************)
EXTENDS Tracecon, Bootstrap, FiniteSetTheorems, TLAPS
-----------------------------------------------------------------------------
(***************************************************************************)
(* For any number of threads, names, addresses and map entries: the events *)
(* of Tracecon are about the own connection, name what was resolved, and   *)
(* are missing only where sockets was full.                                *)
(*                                                                         *)
(* None of the three is inductive.  What is added is what a return probe   *)
(* relies on: the entry of a thread in sockets is that of its current      *)
(* call, and the element it has looked up holds a resolved name, whichever *)
(* entry the element belongs to by now.                                    *)
(***************************************************************************)

InConnect(t) == pc[t] \in {"connecting", "copy", "delete"}

Resolved(h) == \E a \in Ips : <<h, a>> \in resolved

\* What the return probe of tcp_v4_connect relies on.
CallOK(t) ==
  /\ InConnect(t) /\ t \in DOMAIN sockets => sockets[t] = addr[t]
  /\ pc[t] \in {"connecting", "copy"} => event[t] = NoEvent
  /\ pc[t] \in {"copy", "delete"} => t \in DOMAIN sockets
  /\ pc[t] = "copy" => lookup[t] \in Elems /\ Resolved(elem[lookup[t]])
  /\ event[t].tag # "none" => event[t].ip = addr[t]
  /\ event[t].tag = "HOSTNAME" => Resolved(event[t].name)
  /\ InConnect(t) => t \in DOMAIN sockets \/ t \in refused
  /\ t \in DOMAIN sockets => InConnect(t) \/ t \in orphans

NamesOK == \A a \in DOMAIN hostnames : Resolved(elem[hostnames[a]])

IInv == TypeOK /\ NamesOK /\ \A t \in Threads : CallOK(t)
-----------------------------------------------------------------------------
\* bpf_map_update_elem keeps a map of threads within its bound.
LEMMA UpdatedBound ==
  ASSUME NEW map, NEW k \in Threads, NEW v, NEW max \in Nat,
         DOMAIN map \subseteq Threads, Cardinality(DOMAIN map) <= max
  PROVE  /\ DOMAIN Updated(map, k, v, max) \subseteq Threads
         /\ Cardinality(DOMAIN Updated(map, k, v, max)) <= max
<1>1. IsFiniteSet(DOMAIN map) /\ Cardinality(DOMAIN map) \in Nat
  BY BoundsAssumption, FS_Subset, FS_CardinalityType
<1>2. DOMAIN With(map, k, v) = DOMAIN map \cup {k}
  BY DEF With
<1>3. CASE k \in DOMAIN map
  <2>1. DOMAIN With(map, k, v) = DOMAIN map
    BY <1>2, <1>3
  <2> QED
    BY <1>3, <2>1 DEF Updated
<1>4. CASE k \notin DOMAIN map
  <2>1. Cardinality(DOMAIN With(map, k, v)) = Cardinality(DOMAIN map) + 1
    BY <1>1, <1>2, <1>4, FS_AddElement
  <2> QED
    BY <1>1, <1>2, <1>4, <2>1 DEF Updated
<1> QED
  BY <1>3, <1>4

\* bpf_map_delete_elem keeps it, too.
LEMMA WithoutBound ==
  ASSUME NEW map, NEW k \in Threads, NEW max \in Nat,
         DOMAIN map \subseteq Threads, Cardinality(DOMAIN map) <= max
  PROVE  /\ DOMAIN Without(map, k) = DOMAIN map \ {k}
         /\ Cardinality(DOMAIN Without(map, k)) <= max
<1>1. IsFiniteSet(DOMAIN map) /\ Cardinality(DOMAIN map) \in Nat
  BY BoundsAssumption, FS_Subset, FS_CardinalityType
<1>2. DOMAIN Without(map, k) = DOMAIN map \ {k}
  BY DEF Without, Restrict
<1>3. /\ Cardinality(DOMAIN map \ {k}) \in Nat
      /\ Cardinality(DOMAIN map \ {k}) <= Cardinality(DOMAIN map)
  BY <1>1, FS_Subset, FS_CardinalityType
<1> QED
  BY <1>1, <1>2, <1>3

\* The maps are empty and no event has been sent.
LEMMA InitIInv == Init => IInv
<1> SUFFICES ASSUME Init PROVE IInv
  OBVIOUS
<1>1. DOMAIN lookups = {} /\ DOMAIN hostnames = {} /\ DOMAIN sockets = {}
  BY DEF Init
<1>2. Cardinality(DOMAIN lookups) = 0 /\ Cardinality(DOMAIN sockets) = 0
  BY <1>1, FS_EmptySet
<1>3. TypeOK
  BY <1>1, <1>2, BoundsAssumption, SparesAssumption DEF Init, TypeOK, NoEvent
<1> QED
  BY <1>1, <1>3 DEF Init, IInv, NamesOK, CallOK, InConnect, NoEvent

\* A step of another thread that writes no name leaves the call of u as it is.
LEMMA OtherCallOK ==
  ASSUME NEW u \in Threads, CallOK(u),
         pc'[u] = pc[u], addr'[u] = addr[u], lookup'[u] = lookup[u],
         event'[u] = event[u], elem' = elem, resolved' = resolved,
         u \in DOMAIN sockets' <=> u \in DOMAIN sockets,
         u \in DOMAIN sockets => sockets'[u] = sockets[u],
         u \in refused => u \in refused', u \in orphans => u \in orphans'
  PROVE  CallOK(u)'
BY DEF CallOK, InConnect, Resolved

\* The update of hostnames with a name that is resolved, by a probe that copies
\* from no element: what the elements hold stays resolved, though others may
\* hold a pointer to the element that is used.
LEMMA UpdateHostnameOK ==
  ASSUME TypeOK, NamesOK, NEW a \in Ips, NEW h \in Hosts,
         UpdateHostname(a, h), resolved' = resolved \cup {<<h, a>>}
  PROVE  /\ elem' \in [Elems -> Hosts \cup {NULL}]
         /\ \A b \in DOMAIN hostnames' : b \in Ips /\ hostnames'[b] \in Elems
         /\ spare' \subseteq Elems
         /\ resolved' \subseteq Hosts \X Ips
         /\ NamesOK'
         /\ \A e \in Elems : Resolved(elem[e]) => Resolved(elem[e])'
<1>1. \A g : Resolved(g) => \E b \in Ips : <<g, b>> \in resolved'
  BY DEF Resolved
<1>2. \E b \in Ips : <<h, b>> \in resolved'
  OBVIOUS
<1>3. /\ elem' \in [Elems -> Hosts \cup {NULL}]
      /\ \A b \in DOMAIN hostnames' : b \in Ips /\ hostnames'[b] \in Elems
      /\ spare' \subseteq Elems
      /\ resolved' \subseteq Hosts \X Ips
  <2>1. CASE a \in DOMAIN hostnames
    BY <2>1 DEF UpdateHostname, TypeOK
  <2>2. CASE a \notin DOMAIN hostnames
    BY <2>2 DEF UpdateHostname, TypeOK, With, FreeElems
  <2> QED
    BY <2>1, <2>2
<1>4. \A e \in Elems : elem'[e] = elem[e] \/ elem'[e] = h
  BY DEF UpdateHostname, TypeOK, FreeElems
<1>5. \A e \in Elems : Resolved(elem[e]) => Resolved(elem[e])'
  BY <1>1, <1>2, <1>4 DEF Resolved
<1>6. \A b \in DOMAIN hostnames' :
        \/ b \in DOMAIN hostnames /\ hostnames'[b] = hostnames[b]
        \/ elem'[hostnames'[b]] = h
  <2>1. CASE a \in DOMAIN hostnames
    BY <2>1 DEF UpdateHostname, TypeOK
  <2>2. CASE a \notin DOMAIN hostnames
    BY <2>2 DEF UpdateHostname, TypeOK, With, FreeElems
  <2> QED
    BY <2>1, <2>2
<1>7. NamesOK'
  BY <1>2, <1>3, <1>5, <1>6, Zenon DEF NamesOK, Resolved, TypeOK
<1> QED
  BY <1>3, <1>5, <1>7

\* Every step of a thread preserves the inductive invariant.
LEMMA NextIInv == IInv /\ [Next]_vars => IInv'
<1> SUFFICES ASSUME IInv, [Next]_vars PROVE IInv'
  OBVIOUS
<1> USE BoundsAssumption DEF IInv
<1>1. ASSUME NEW t \in Threads, NEW h \in Hosts, ResolveEnter(t, h)
      PROVE  IInv'
  <2>1. /\ DOMAIN lookups' \subseteq Threads
        /\ Cardinality(DOMAIN lookups') <= MaxLookups
    BY <1>1, UpdatedBound DEF ResolveEnter, TypeOK
  <2>2. \A u \in DOMAIN lookups' : lookups'[u] \in Hosts
    BY <1>1 DEF ResolveEnter, TypeOK, Updated, With
  <2>3. TypeOK'
    BY <1>1, <2>1, <2>2 DEF ResolveEnter, TypeOK, names, history
  <2> QED
    BY <1>1, <2>3, ZenonT(30) DEF ResolveEnter, TypeOK, names, history, NamesOK, CallOK,
       InConnect, Resolved
<1>2. ASSUME NEW t \in Threads, ResolveFails(t)
      PROVE  IInv'
  <2>1. /\ DOMAIN lookups' = DOMAIN lookups \ {t}
        /\ Cardinality(DOMAIN lookups') <= MaxLookups
    BY <1>2, WithoutBound, ZenonT(30) DEF ResolveFails, TypeOK
  <2>2. \A u \in DOMAIN lookups' : lookups'[u] \in Hosts
    BY <1>2, <2>1 DEF ResolveFails, TypeOK, Without, Restrict
  <2>3. TypeOK'
    BY <1>2, <2>1, <2>2 DEF ResolveFails, TypeOK, names, history
  <2> QED
    BY <1>2, <2>3, ZenonT(30) DEF ResolveFails, TypeOK, names, history, NamesOK, CallOK,
       InConnect, Resolved
<1>3. ASSUME NEW t \in Threads, NEW a \in Ips, ResolveExit(t, a)
      PROVE  IInv'
  <2>1. CASE NameOf(t) = {} /\ UNCHANGED <<lookups, names, resolved>>
    <3>1. TypeOK'
      BY <1>3, <2>1 DEF ResolveExit, TypeOK, names
    <3> QED
      BY <1>3, <2>1, <3>1, ZenonT(30) DEF ResolveExit, TypeOK, names, NamesOK, CallOK,
         InConnect, Resolved
  <2>2. ASSUME NEW h \in NameOf(t), UpdateHostname(a, h),
               lookups' = Without(lookups, t),
               resolved' = resolved \cup {<<h, a>>}
        PROVE  IInv'
    <3>1. h \in Hosts
      BY <2>2 DEF NameOf, TypeOK
    <3>2. /\ DOMAIN lookups' = DOMAIN lookups \ {t}
          /\ Cardinality(DOMAIN lookups') <= MaxLookups
      BY <2>2, WithoutBound, Zenon DEF TypeOK
    <3>3. \A u \in DOMAIN lookups' : lookups'[u] \in Hosts
      BY <2>2, <3>2 DEF TypeOK, Without, Restrict
    <3>4. /\ elem' \in [Elems -> Hosts \cup {NULL}]
          /\ \A b \in DOMAIN hostnames' : b \in Ips /\ hostnames'[b] \in Elems
          /\ spare' \subseteq Elems
          /\ resolved' \subseteq Hosts \X Ips
          /\ NamesOK'
          /\ \A e \in Elems : Resolved(elem[e]) => Resolved(elem[e])'
      BY <2>2, <3>1, UpdateHostnameOK
    <3>5. TypeOK'
      BY <1>3, <3>2, <3>3, <3>4 DEF ResolveExit, TypeOK
    <3>6. \A u \in Threads : CallOK(u)'
      BY <1>3, <2>2, <3>4, ZenonT(30) DEF ResolveExit, TypeOK, CallOK, InConnect, Resolved
    <3> QED
      BY <3>4, <3>5, <3>6
  <2> QED
    BY <1>3, <2>1, <2>2 DEF ResolveExit
<1>4. ASSUME NEW t \in Threads, NEW a \in Ips, ConnectEnter(t, a)
      PROVE  IInv'
  <2>1. /\ DOMAIN sockets' \subseteq Threads
        /\ Cardinality(DOMAIN sockets') <= MaxSockets
    BY <1>4, UpdatedBound, Zenon DEF ConnectEnter, StoredSocket, TypeOK
  <2>2. /\ \A u \in DOMAIN sockets' : sockets'[u] \in Ips
        /\ t \in DOMAIN sockets' => sockets'[t] = a
        /\ \A u \in Threads \ {t} :
             /\ u \in DOMAIN sockets' <=> u \in DOMAIN sockets
             /\ u \in DOMAIN sockets => sockets'[u] = sockets[u]
    BY <1>4 DEF ConnectEnter, StoredSocket, TypeOK, Updated, With
  <2>3. t \in DOMAIN sockets' \/ t \in refused'
    <3>1. Cardinality(DOMAIN sockets) \in Nat
      BY FS_Subset, FS_CardinalityType DEF TypeOK
    <3>2. CASE t \in DOMAIN sockets \/ Cardinality(DOMAIN sockets) < MaxSockets
      <4>1. sockets' = With(sockets, t, a)
        BY <1>4, <3>2 DEF ConnectEnter, StoredSocket, Updated
      <4> QED
        BY <4>1 DEF With
    <3>3. CASE t \notin DOMAIN sockets /\ Cardinality(DOMAIN sockets) = MaxSockets
      BY <1>4, <3>3 DEF ConnectEnter
    <3>4. \/ Cardinality(DOMAIN sockets) < MaxSockets
          \/ Cardinality(DOMAIN sockets) = MaxSockets
      <4> DEFINE n == Cardinality(DOMAIN sockets)
      <4>1. n \in Nat /\ n <= MaxSockets /\ MaxSockets \in Nat
        BY <3>1 DEF TypeOK
      <4> HIDE DEF n, IInv
      <4>2. n < MaxSockets \/ n = MaxSockets
        BY <4>1
      <4> QED
        BY <4>2 DEF n
    <3> QED
      BY <3>2, <3>3, <3>4
  <2>4. TypeOK'
    BY <1>4, <2>1, <2>2 DEF ConnectEnter, TypeOK, names, NoEvent
  <2>5. CallOK(t)'
    BY <1>4, <2>2, <2>3 DEF ConnectEnter, TypeOK, CallOK, InConnect, NoEvent
  <2>6. ASSUME NEW u \in Threads \ {t} PROVE CallOK(u)'
    BY <1>4, <2>2, OtherCallOK DEF ConnectEnter, TypeOK, names
  <2> QED
    BY <1>4, <2>4, <2>5, <2>6 DEF ConnectEnter, names, NamesOK, Resolved
<1>5. ASSUME NEW t \in Threads, ConnectFails(t)
      PROVE  IInv'
  <2>1. /\ DOMAIN sockets' = DOMAIN sockets \ {t}
        /\ Cardinality(DOMAIN sockets') <= MaxSockets
    BY <1>5, WithoutBound, Zenon DEF ConnectFails, CleanedUp, TypeOK
  <2>2. \A u \in DOMAIN sockets' : sockets'[u] = sockets[u]
    BY <1>5, <2>1 DEF ConnectFails, CleanedUp, Without, Restrict
  <2>3. TypeOK'
    BY <1>5, <2>1, <2>2 DEF ConnectFails, TypeOK, names, history
  <2>4. CallOK(t)'
    BY <1>5, <2>1, SMTT(30) DEF ConnectFails, TypeOK, history, CallOK, InConnect, NoEvent
  <2>5. ASSUME NEW u \in Threads \ {t} PROVE CallOK(u)'
    BY <1>5, <2>1, <2>2, OtherCallOK DEF ConnectFails, TypeOK, names, history
  <2> QED
    BY <1>5, <2>3, <2>4, <2>5, Zenon DEF ConnectFails, names, history, NamesOK,
       Resolved
<1>6. ASSUME NEW t \in Threads, ConnectExit(t)
      PROVE  IInv'
  <2>1. CASE t \notin DOMAIN sockets
    <3>1. TypeOK'
      BY <1>6, <2>1 DEF ConnectExit, TypeOK, names, history
    <3>2. CallOK(t)'
      BY <1>6, <2>1 DEF ConnectExit, TypeOK, names, history,
         CallOK, InConnect, Resolved, NoEvent
    <3>3. ASSUME NEW u \in Threads \ {t} PROVE CallOK(u)'
      BY <1>6, <2>1, OtherCallOK DEF ConnectExit, TypeOK, names, history
    <3> QED
      BY <1>6, <3>1, <3>2, <3>3 DEF ConnectExit, names, history, NamesOK,
         Resolved
  <2>2. CASE t \in DOMAIN sockets /\ sockets[t] \in DOMAIN hostnames
    <3>1. TypeOK'
      BY <1>6, <2>2, Zenon DEF ConnectExit, TypeOK, names, history
    <3>2. CallOK(t)'
      BY <1>6, <2>2 DEF ConnectExit, TypeOK, names, history,
         CallOK, InConnect, Resolved, NamesOK
    <3>3. ASSUME NEW u \in Threads \ {t} PROVE CallOK(u)'
      BY <1>6, <2>2, OtherCallOK DEF ConnectExit, TypeOK, names, history
    <3> QED
      BY <1>6, <3>1, <3>2, <3>3 DEF ConnectExit, names, history, NamesOK,
         Resolved
  <2>3. CASE t \in DOMAIN sockets /\ sockets[t] \notin DOMAIN hostnames
    <3>1. /\ DOMAIN sockets' = DOMAIN sockets \ {t}
          /\ Cardinality(DOMAIN sockets') <= MaxSockets
      BY <1>6, <2>3, WithoutBound, ZenonT(30) DEF ConnectExit, CleanedUp, TypeOK
    <3>2. \A u \in DOMAIN sockets' : sockets'[u] = sockets[u]
      BY <1>6, <2>3, <3>1 DEF ConnectExit, CleanedUp, Without, Restrict
    <3>3. event' = [event EXCEPT ![t] = [tag |-> "IP", ip |-> sockets[t],
                                         name |-> NULL]]
      BY <1>6, <2>3 DEF ConnectExit
    <3>4. TypeOK'
      BY <1>6, <2>3, <3>1, <3>2, <3>3, SMTT(20) DEF ConnectExit, TypeOK, names, history
    <3>5. CallOK(t)'
      BY <1>6, <2>3, <3>1, <3>3, SMTT(20) DEF ConnectExit, TypeOK, names, history,
         CallOK, InConnect, Resolved
    <3>6. ASSUME NEW u \in Threads \ {t} PROVE CallOK(u)'
      BY <1>6, <2>3, <3>1, <3>2, <3>3, OtherCallOK, SMTT(20) DEF ConnectExit, TypeOK,
         names, history
    <3> QED
      BY <1>6, <3>4, <3>5, <3>6 DEF ConnectExit, names, history, NamesOK,
         Resolved
  <2> QED
    BY <2>1, <2>2, <2>3
<1>7. ASSUME NEW t \in Threads, CopyName(t)
      PROVE  IInv'
  <2>1. TypeOK'
    BY <1>7, Zenon DEF CopyName, NameAt, TypeOK, maps, names, history, CallOK
  <2>2. CallOK(t)'
    BY <1>7, Zenon DEF CopyName, NameAt, TypeOK, maps, names, history, CallOK,
       InConnect, Resolved
  <2>3. ASSUME NEW u \in Threads \ {t} PROVE CallOK(u)'
    BY <1>7, OtherCallOK, Zenon DEF CopyName, TypeOK, maps, names, history
  <2> QED
    BY <1>7, <2>1, <2>2, <2>3, Zenon DEF CopyName, maps, names, history, NamesOK,
       Resolved
<1>8. ASSUME NEW t \in Threads, DeleteName(t)
      PROVE  IInv'
  <2>1. /\ DOMAIN sockets' = DOMAIN sockets \ {t}
        /\ Cardinality(DOMAIN sockets') <= MaxSockets
    BY <1>8, WithoutBound, ZenonT(30) DEF DeleteName, CleanedUp, TypeOK
  <2>2. \A u \in DOMAIN sockets' : sockets'[u] = sockets[u]
    BY <1>8, <2>1 DEF DeleteName, CleanedUp, Without, Restrict
  <2>3. \A a \in DOMAIN hostnames' : /\ a \in DOMAIN hostnames
                                     /\ hostnames'[a] = hostnames[a]
    BY <1>8 DEF DeleteName, Without, Restrict
  <2>4. TypeOK'
    BY <1>8, <2>1, <2>2, <2>3 DEF DeleteName, TypeOK, history
  <2>5. CallOK(t)'
    BY <1>8, <2>1, Zenon DEF DeleteName, TypeOK, history, CallOK, InConnect, Resolved
  <2>6. ASSUME NEW u \in Threads \ {t} PROVE CallOK(u)'
    BY <1>8, <2>1, <2>2, OtherCallOK DEF DeleteName, TypeOK, history
  <2> QED
    BY <1>8, <2>3, <2>4, <2>5, <2>6 DEF DeleteName, history, NamesOK, Resolved
<1>9. ASSUME NEW t \in Threads, MissReturn(t)
      PROVE  IInv'
  <2>1. TypeOK'
    BY <1>9 DEF MissReturn, TypeOK, maps, names, NoEvent
  <2>2. CallOK(t)'
    BY <1>9 DEF MissReturn, TypeOK, maps, CallOK, InConnect, NoEvent
  <2>3. ASSUME NEW u \in Threads \ {t} PROVE CallOK(u)'
    BY <1>9, OtherCallOK DEF MissReturn, TypeOK, maps, names
  <2> QED
    BY <1>9, <2>1, <2>2, <2>3 DEF MissReturn, maps, names, NamesOK, Resolved
<1>10. CASE UNCHANGED vars
  BY <1>10, Zenon DEF vars, maps, names, history, TypeOK, NamesOK, CallOK, InConnect,
     Resolved
<1> QED
  BY <1>1, <1>2, <1>3, <1>4, <1>5, <1>6, <1>7, <1>8, <1>9, <1>10 DEF Next, Step

\* The inductive invariant holds in every reachable state.
LEMMA IInvHolds == Spec => []IInv
BY InitIInv, NextIInv, PTL DEF Spec

\* An event is about the connection its thread has just made, although a missed
\* return probe may have left an entry of that tid in sockets.
THEOREM EventsAreAboutOwnConnection == Spec => []EventsAreOwn
<1>1. IInv => EventsAreOwn
  BY DEF IInv, CallOK, EventsAreOwn
<1> QED
  BY <1>1, IInvHolds, PTL

\* A name tcp_v4_connect_exit reports was resolved by some getaddrinfo, although
\* the element it is copied from may belong to another entry by then.
THEOREM ReportedNamesWereResolved == Spec => []NamesWereResolved
<1>1. IInv => NamesWereResolved
  BY DEF IInv, CallOK, NamesWereResolved, Resolved
<1> QED
  BY <1>1, IInvHolds, PTL

\* A connection goes unreported only if sockets was full when it began, and what
\* fills sockets are connections in progress and missed return probes.
THEOREM OnlyFullMapLosesEvents == Spec => []UnreportedNeedsFullMap
<1>1. IInv => UnreportedNeedsFullMap
  BY DEF IInv, TypeOK, CallOK, InConnect, UnreportedNeedsFullMap
<1> QED
  BY <1>1, IInvHolds, PTL
-----------------------------------------------------------------------------
(***************************************************************************)
(* The records of bootstrap carry the duration of their own process, for   *)
(* any number of pids, any sizes of exec_start and of the ring buffer, and *)
(* a clock without bound.                                                  *)
(*                                                                         *)
(* The duration is computed from a map keyed by pid, and pids are used     *)
(* again.  What makes it right is StartsAreLive: an entry is there only    *)
(* while the leader that made it runs.                                     *)
(***************************************************************************)

\* DurationIsLifetime of one record.
RecordOK(e) ==
  /\ e.exit_event /\ e.duration_ns # 0 => e.duration_ns = e.life
  /\ min_duration_ns # 0 => e.exit_event /\ e.life >= min_duration_ns

Typed ==
  /\ min_duration_ns \in Nat /\ clock \in Nat
  /\ proc \in [Pids -> SUBSET {"leader", "other"}]
  /\ DOMAIN exec_start \subseteq Pids
  /\ \A p \in DOMAIN exec_start : exec_start[p] \in 0 .. clock
  /\ exec_time \in [Pids -> Nat \cup {-1}]
  /\ \A p \in Pids : exec_time[p] <= clock
  /\ rb \in Seq([busy : BOOLEAN, rec : Event])

RecordsOK == \A n \in DOMAIN rb : RecordOK(rb[n].rec)

BootIInv == Typed /\ StartsAreLive /\ RecordsOK
-----------------------------------------------------------------------------
\* Empty maps, no records.
LEMMA InitBootIInv == BootInit => BootIInv
<1> SUFFICES ASSUME BootInit PROVE BootIInv
  OBVIOUS
<1>1. DOMAIN exec_start = {} /\ DOMAIN rb = {}
  BY DEF BootInit
<1>2. Typed
  BY <1>1, MinDurationsAssumption DEF BootInit, Typed
<1> QED
  BY <1>1, <1>2 DEF BootIInv, StartsAreLive, RecordsOK

\* A record that is right may be reserved.
LEMMA ReserveOK ==
  ASSUME Typed, RecordsOK, min_duration_ns' = min_duration_ns,
         NEW p \in Pids, NEW e \in Event, RecordOK(e), Reserve(p, e)
  PROVE  rb' \in Seq([busy : BOOLEAN, rec : Event]) /\ RecordsOK'
<1> DEFINE b == [busy |-> TRUE, rec |-> e]
<1>1. b \in [busy : BOOLEAN, rec : Event] /\ b.rec = e
  OBVIOUS
<1>2. CASE rb' = rb
  BY <1>2 DEF Typed, RecordsOK, RecordOK
<1>3. CASE rb' = Append(rb, b)
  <2> HIDE DEF b
  <2>1. rb' \in Seq([busy : BOOLEAN, rec : Event])
    BY <1>1, <1>3 DEF Typed
  <2>2. ASSUME NEW n \in DOMAIN rb' PROVE RecordOK(rb'[n].rec)
    <3>1. (n \in DOMAIN rb /\ rb'[n] = rb[n]) \/ rb'[n] = b
      BY <1>1, <1>3 DEF Typed
    <3> QED
      BY <1>1, <3>1 DEF RecordsOK
  <2> QED
    BY <2>1, <2>2 DEF RecordsOK, RecordOK
<1> QED
  BY <1>2, <1>3 DEF Reserve

\* Steps that leave the ring buffer alone.
LEMMA SameRecords ==
  ASSUME Typed, RecordsOK, UNCHANGED <<rb, min_duration_ns>>
  PROVE  rb' \in Seq([busy : BOOLEAN, rec : Event]) /\ RecordsOK'
BY DEF Typed, RecordsOK, RecordOK

\* A new process or thread: a pid without threads has no start.
LEMMA SpawnIInv == ASSUME BootIInv, NEW p \in Pids, Spawn(p) PROVE BootIInv'
<1>1. Typed'
  BY DEF BootIInv, Typed, Spawn
<1>2. StartsAreLive'
  BY DEF BootIInv, Typed, Spawn, StartsAreLive
<1> QED
  BY <1>1, <1>2, SameRecords DEF BootIInv, Spawn

\* handle_exec
LEMMA ExecIInv == ASSUME BootIInv, NEW p \in Pids, Exec(p) PROVE BootIInv'
<1> DEFINE e == [exit_event |-> FALSE, pid |-> p, duration_ns |-> 0, life |-> 0]
<1>1. e \in Event
  BY DEF Event
<1>2. min_duration_ns = 0 => RecordOK(e)
  BY DEF RecordOK
<1>3. rb' \in Seq([busy : BOOLEAN, rec : Event]) /\ RecordsOK'
  <2>1. CASE min_duration_ns # 0
    BY <2>1, SameRecords DEF BootIInv, Exec
  <2>2. CASE min_duration_ns = 0
    BY <1>1, <1>2, <2>2, ReserveOK, Zenon DEF BootIInv, Exec
  <2> QED
    BY <2>1, <2>2
<1>4. Typed'
  BY <1>3 DEF BootIInv, Typed, Exec, UpdateStart
<1>5. StartsAreLive'
  <2>1. ASSUME NEW q \in DOMAIN exec_start'
        PROVE  "leader" \in proc'[q] /\ exec_start'[q] = exec_time'[q]
    <3>1. CASE p \in DOMAIN exec_start'
      BY <2>1, <3>1 DEF BootIInv, Typed, Exec, UpdateStart, StartsAreLive
    <3>2. CASE p \notin DOMAIN exec_start'
      BY <2>1, <3>2 DEF BootIInv, Typed, Exec, UpdateStart, StartsAreLive
    <3> QED
      BY <3>1, <3>2
  <2> QED
    BY <2>1 DEF StartsAreLive
<1> QED
  BY <1>3, <1>4, <1>5 DEF BootIInv

\* handle_exit: what is left in the map is of other pids, and the duration is
\* that of this process.
LEMMA ExitLeaderIInv == ASSUME BootIInv, NEW p \in Pids, ExitLeader(p) PROVE BootIInv'
<1> DEFINE duration == IF p \in DOMAIN exec_start THEN Duration(p) ELSE 0
           life == IF exec_time[p] = -1 THEN -1 ELSE clock - exec_time[p]
           e == [exit_event |-> TRUE, pid |-> p,
                 duration_ns |-> duration, life |-> life]
<1>1. life \in Nat \cup {-1}
  BY DEF BootIInv, Typed
<1>2. ASSUME p \in DOMAIN exec_start PROVE duration = life /\ duration \in Nat
  <2>1. /\ exec_start[p] = exec_time[p] /\ exec_start[p] \in 0 .. clock
        /\ clock \in Nat
    BY <1>2 DEF BootIInv, Typed, StartsAreLive
  <2> QED
    BY <1>2, <2>1 DEF Duration
<1>3. duration \in Nat /\ e \in Event
  BY <1>1, <1>2 DEF Event
<1>4. ASSUME ~(min_duration_ns # 0 /\ p \notin DOMAIN exec_start),
             ~(min_duration_ns # 0 /\ duration < min_duration_ns)
      PROVE  RecordOK(e)
  <2>1. e.exit_event /\ e.duration_ns = duration /\ e.life = life
    OBVIOUS
  <2>2. duration # 0 => duration = life
    BY <1>2
  <2>3. min_duration_ns # 0 => life >= min_duration_ns
    BY <1>2, <1>3, <1>4 DEF BootIInv, Typed
  <2> QED
    BY <2>1, <2>2, <2>3 DEF RecordOK
<1>5. rb' \in Seq([busy : BOOLEAN, rec : Event]) /\ RecordsOK'
  <2>1. CASE Reserve(p, e) /\ RecordOK(e)
    BY <1>3, <2>1, ReserveOK, Zenon DEF BootIInv, ExitLeader
  <2>2. CASE UNCHANGED rb
    BY <2>2, SameRecords, Zenon DEF BootIInv, ExitLeader
  <2>3. UNCHANGED rb \/ (Reserve(p, e) /\ RecordOK(e))
    BY <1>4 DEF ExitLeader
  <2> QED
    BY <2>1, <2>2, <2>3
<1>6. /\ DOMAIN exec_start' = DOMAIN exec_start \ {p}
      /\ \A q \in DOMAIN exec_start' : exec_start'[q] = exec_start[q]
  BY DEF ExitLeader, StartDeleted, Restrict
<1>7. Typed'
  BY <1>5, <1>6 DEF BootIInv, Typed, ExitLeader
<1>8. StartsAreLive'
  BY <1>6 DEF BootIInv, Typed, StartsAreLive, ExitLeader
<1> QED
  BY <1>5, <1>7, <1>8 DEF BootIInv

\* The exit of another thread leaves the leader.
LEMMA ExitOtherIInv == ASSUME BootIInv, NEW p \in Pids, ExitOther(p) PROVE BootIInv'
<1>1. Typed'
  BY DEF BootIInv, Typed, ExitOther
<1>2. StartsAreLive'
  BY DEF BootIInv, Typed, ExitOther, StartsAreLive
<1> QED
  BY <1>1, <1>2, SameRecords DEF BootIInv, ExitOther

\* Submission and consumption keep the contents of records.
LEMMA RingIInv ==
  ASSUME BootIInv, (\E p \in Pids : Submit(p)) \/ HandleEvent
  PROVE  BootIInv'
<1> USE DEF tasks
<1>1. UNCHANGED <<min_duration_ns, clock, proc, exec_time, exec_start>>
  BY DEF Submit, HandleEvent
<1>2. rb' \in Seq([busy : BOOLEAN, rec : Event]) /\ RecordsOK'
  <2>1. ASSUME NEW p \in Pids, Submit(p)
        PROVE  rb' \in Seq([busy : BOOLEAN, rec : Event]) /\ RecordsOK'
    <3>1. rb' = [n \in 1 .. Len(rb) |->
                   [rb[n] EXCEPT !.busy = @ /\ rb[n].rec.pid # p]]
      BY <2>1 DEF Submit, Submitted, BootIInv, Typed
    <3>2. ASSUME NEW n \in 1 .. Len(rb)
          PROVE  rb'[n] \in [busy : BOOLEAN, rec : Event] /\ rb'[n].rec = rb[n].rec
      <4>1. rb[n] \in [busy : BOOLEAN, rec : Event]
        <5> DEFINE S == [busy : BOOLEAN, rec : Event]
        <5>1. rb \in Seq(S)
          BY DEF BootIInv, Typed
        <5> HIDE DEF S
        <5>2. rb[n] \in S
          BY <5>1
        <5> QED
          BY <5>2 DEF S
      <4>2. rb'[n] = [rb[n] EXCEPT !.busy = rb[n].busy /\ rb[n].rec.pid # p]
        BY <3>1
      <4>3. (rb[n].busy /\ rb[n].rec.pid # p) \in BOOLEAN
        OBVIOUS
      <4> QED
        BY <4>1, <4>2, <4>3, Zenon
    <3>3. rb' \in Seq([busy : BOOLEAN, rec : Event]) /\ DOMAIN rb' = DOMAIN rb
      BY <3>1, <3>2 DEF BootIInv, Typed
    <3> QED
      BY <1>1, <3>2, <3>3 DEF BootIInv, Typed, RecordsOK, RecordOK
  <2>2. CASE HandleEvent
    <3>1. rb' \in Seq([busy : BOOLEAN, rec : Event])
      BY <2>2 DEF HandleEvent, BootIInv, Typed
    <3>2. ASSUME NEW n \in DOMAIN rb'
          PROVE  n + 1 \in DOMAIN rb /\ rb'[n] = rb[n + 1]
      BY <2>2 DEF HandleEvent, BootIInv, Typed
    <3> QED
      BY <1>1, <3>1, <3>2 DEF BootIInv, RecordsOK, RecordOK
  <2> QED
    BY <2>1, <2>2, Zenon
<1> QED
  BY <1>1, <1>2 DEF BootIInv, Typed, StartsAreLive

\* No step breaks the invariant.
LEMMA NextBootIInv == BootIInv /\ [BootNext]_boot_vars => BootIInv'
<1> SUFFICES ASSUME BootIInv, [BootNext]_boot_vars PROVE BootIInv'
  OBVIOUS
<1> USE DEF tasks
<1>1. ASSUME NEW p \in Pids,
             Spawn(p) \/ Exec(p) \/ ExitLeader(p) \/ ExitOther(p)
      PROVE  BootIInv'
  BY <1>1, SpawnIInv, ExecIInv, ExitLeaderIInv, ExitOtherIInv
<1>2. CASE (\E p \in Pids : Submit(p)) \/ HandleEvent
  BY <1>2, RingIInv
<1>3. CASE Tick
  BY <1>3, SameRecords DEF Tick, BootIInv, Typed, StartsAreLive
<1>4. CASE SigHandler \/ Leave \/ UNCHANGED boot_vars
  BY <1>4, SameRecords DEF SigHandler, Leave, boot_vars, BootIInv, Typed, StartsAreLive
<1> QED
  BY <1>1, <1>2, <1>3, <1>4 DEF BootNext

\* The invariant holds in every reachable state.
LEMMA BootIInvHolds == BootSpec => []BootIInv
BY InitBootIInv, NextBootIInv, PTL DEF BootSpec
-----------------------------------------------------------------------------
\* handle_exit removes what handle_exec entered, so that exec_start holds only
\* processes whose leader runs, whatever the order of execs and exits.
THEOREM StartsBelongToRunning == BootSpec => []StartsAreLive
<1>1. BootIInv => StartsAreLive
  BY DEF BootIInv
<1> QED
  BY <1>1, BootIInvHolds, PTL

\* The durations handle_exit reports are those of the exiting process, and none
\* is below the minimum that was asked for.
THEOREM DurationsAreOwn == BootSpec => []DurationIsLifetime
<1>1. BootIInv => DurationIsLifetime
  BY DEF BootIInv, RecordsOK, RecordOK, DurationIsLifetime, Records
<1> QED
  BY <1>1, BootIInvHolds, PTL
-----------------------------------------------------------------------------
(***************************************************************************)
(* The sizes of the map and the ring buffer                                *)
(***************************************************************************)

StartsBounded ==
  IsFiniteSet(DOMAIN exec_start) /\ Cardinality(DOMAIN exec_start) <= MaxStarts

Bounds ==
  /\ min_duration_ns \in MinDurations
  /\ StartsBounded
  /\ Len(rb) <= RingSize
  /\ handler \in [Pids -> {"idle", "submit"}]
  /\ exiting \in BOOLEAN
  /\ main \in {"poll", "done"}

\* handle_exec adds an element only while there is room.
LEMMA UpdateStartBounded ==
  ASSUME StartsBounded, NEW p \in Pids, NEW ts, UpdateStart(p, ts)
  PROVE  StartsBounded'
<1>1. CASE exec_start' = exec_start BY <1>1 DEF StartsBounded
<1>2. CASE p \in DOMAIN exec_start /\ DOMAIN exec_start' = DOMAIN exec_start
  BY <1>2 DEF StartsBounded
<1>3. CASE /\ p \notin DOMAIN exec_start /\ Cardinality(DOMAIN exec_start) < MaxStarts
           /\ DOMAIN exec_start' = DOMAIN exec_start \cup {p}
  <2> DEFINE D == DOMAIN exec_start
             c == Cardinality(D)
  <2>1. IsFiniteSet(D) BY DEF StartsBounded
  <2>2. c \in Nat BY <2>1, FS_CardinalityType
  <2>3. IsFiniteSet(D \cup {p}) /\ Cardinality(D \cup {p}) = c + 1
    BY <1>3, <2>1, FS_AddElement
  <2>4. c < MaxStarts BY <1>3
  <2> HIDE DEF c
  <2>5. c + 1 <= MaxStarts BY <2>2, <2>4, SizesAssumption
  <2> QED BY <1>3, <2>3, <2>5 DEF StartsBounded
<1> QED BY <1>1, <1>2, <1>3 DEF UpdateStart

\* A record is reserved only while there is room.
LEMMA ReserveBounded ==
  ASSUME Typed, Len(rb) <= RingSize, handler \in [Pids -> {"idle", "submit"}],
         NEW p \in Pids, NEW e, Reserve(p, e)
  PROVE  Len(rb') <= RingSize /\ handler' \in [Pids -> {"idle", "submit"}]
<1>1. CASE UNCHANGED <<rb, handler>> BY <1>1
<1>2. CASE Len(rb) < RingSize
  <2> DEFINE b == [busy |-> TRUE, rec |-> e]
  <2>1. rb' = Append(rb, b) /\ handler' = [handler EXCEPT ![p] = "submit"]
    BY <1>2 DEF Reserve
  <2> HIDE DEF b
  <2>3. Len(rb') = Len(rb) + 1 /\ Len(rb) \in Nat BY <2>1 DEF Typed
  <2>4. Len(rb') <= RingSize BY <1>2, <2>3, SizesAssumption
  <2> QED BY <2>1, <2>4
<1> QED BY <1>1, <1>2 DEF Reserve

LEMMA NextBounds == BootIInv /\ Bounds /\ [BootNext]_boot_vars => Bounds'
<1> SUFFICES ASSUME BootIInv, Bounds, [BootNext]_boot_vars PROVE Bounds' OBVIOUS
<1> USE DEF Bounds
<1>0. Typed BY DEF BootIInv
<1>1. ASSUME NEW p \in Pids, Exec(p) PROVE Bounds'
  <2>1. StartsBounded' BY <1>1, UpdateStartBounded DEF Exec
  <2>2. Len(rb') <= RingSize /\ handler' \in [Pids -> {"idle", "submit"}]
    BY <1>0, <1>1, ReserveBounded DEF Exec
  <2> QED BY <1>1, <2>1, <2>2 DEF Exec
<1>2. ASSUME NEW p \in Pids, ExitLeader(p) PROVE Bounds'
  <2>1. StartsBounded'
    <3>1. CASE UNCHANGED exec_start BY <3>1 DEF StartsBounded
    <3>2. CASE exec_start' = StartDeleted(p)
      <4> DEFINE D == DOMAIN exec_start
      <4>1. DOMAIN exec_start' \subseteq D BY <3>2 DEF StartDeleted, Restrict
      <4>2. /\ IsFiniteSet(DOMAIN exec_start')
            /\ Cardinality(DOMAIN exec_start') <= Cardinality(D)
        BY <4>1, FS_Subset DEF StartsBounded
      <4>3. Cardinality(DOMAIN exec_start') \in Nat /\ Cardinality(D) \in Nat
        BY <4>2, FS_CardinalityType DEF StartsBounded
      <4> QED BY <4>2, <4>3, SizesAssumption DEF StartsBounded
    <3> QED BY <1>2, <3>1, <3>2 DEF ExitLeader
  <2>2. Len(rb') <= RingSize /\ handler' \in [Pids -> {"idle", "submit"}]
    BY <1>0, <1>2, ReserveBounded DEF ExitLeader
  <2> QED BY <1>2, <2>1, <2>2 DEF ExitLeader
<1>3. ASSUME NEW p \in Pids, Submit(p) PROVE Bounds'
  <2>1. Len(rb') = Len(rb)
    BY <1>0, <1>3 DEF Submit, Submitted, Typed
  <2>2. handler' \in [Pids -> {"idle", "submit"}] BY <1>3 DEF Submit
  <2> QED BY <1>3, <2>1, <2>2 DEF Submit, StartsBounded
<1>4. CASE HandleEvent
  <2>1. Len(rb') <= Len(rb) /\ Len(rb) \in Nat /\ Len(rb') \in Nat
    BY <1>0, <1>4 DEF HandleEvent, Typed
  <2>2. Len(rb') <= RingSize BY <2>1, SizesAssumption
  <2> QED BY <1>4, <2>2 DEF HandleEvent, StartsBounded
<1>5. CASE (\E p \in Pids : Spawn(p) \/ ExitOther(p)) \/ Tick \/ UNCHANGED boot_vars
  BY <1>5 DEF Spawn, ExitOther, Tick, boot_vars, StartsBounded
<1>6. CASE SigHandler BY <1>6 DEF SigHandler, StartsBounded
<1>7. CASE Leave BY <1>7 DEF Leave, StartsBounded
<1> QED BY <1>1, <1>2, <1>3, <1>4, <1>5, <1>6, <1>7 DEF BootNext

\* The handlers keep exec_start and the ring buffer within their sizes, every
\* start is a time that has been, and every record is well formed.
THEOREM TypeCorrect == BootSpec => []BootTypeOK
<1>1. BootInit => Bounds
  <2> SUFFICES ASSUME BootInit PROVE Bounds OBVIOUS
  <2>1. DOMAIN exec_start = {} /\ Len(rb) = 0 BY DEF BootInit
  <2>2. StartsBounded BY <2>1, FS_EmptySet, SizesAssumption DEF StartsBounded
  <2>3. exiting \in BOOLEAN BY Zenon DEF BootInit
  <2> QED BY <2>1, <2>2, <2>3, SizesAssumption DEF BootInit, Bounds
<1>2. BootIInv /\ Bounds => BootTypeOK
  BY DEF BootIInv, Typed, Bounds, StartsBounded, BootTypeOK
<1> QED BY <1>1, <1>2, NextBounds, BootIInvHolds, PTL DEF BootSpec
=============================================================================
