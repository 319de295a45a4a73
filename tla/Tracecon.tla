------------------------------ MODULE Tracecon ------------------------------
(***************************************************************************)
(* The probes of tracecon (tracecon.bpf.c): getaddrinfo leaves the name it *)
(* resolved in the map hostnames, under the first address of the answer,   *)
(* and tcp_v4_connect reports the connection under that name, or under its *)
(* address when no name is there.                                          *)
(*                                                                         *)
(* Every thread resolves and connects, one call at a time.  lookups and    *)
(* sockets are keyed by thread, hostnames by address: it is shared.  An    *)
(* element of a preallocated hash map that is deleted or replaced can be   *)
(* used again at once, while a probe still holds a pointer to it.  The     *)
(* return probe of a call may not run: the thread is killed in             *)
(* getaddrinfo, or all instances of the return probe are in use.           *)
(***************************************************************************)
EXTENDS Integers, FiniteSets, Functions

CONSTANTS
  Threads,      \* tids of the observed processes
  Hosts, Ips,   \* with the empty name and address, stored if a read fails
  Elems,        \* elements of hostnames: max_entries and one spare per CPU
  Spares,       \* the spare ones, at the start
  NULL,
  MaxLookups,   \* max_entries of lookups
  MaxSockets    \* max_entries of sockets

ASSUME BoundsAssumption ==
  IsFiniteSet(Threads) /\ MaxLookups \in Nat /\ MaxSockets \in Nat
ASSUME SparesAssumption == Spares \subseteq Elems /\ Spares # {}
ASSUME NullAssumption == NULL \notin Hosts \cup Ips \cup Elems

VARIABLES
  pc,           \* what each thread is doing
  lookups,      \* thread -> name
  hostnames,    \* address -> element
  elem,         \* the name each element holds
  spare,        \* elements kept to replace an existing entry
  sockets,      \* thread -> address of the socket
  addr,         \* the address the thread connects to
  lookup,       \* the pointer into hostnames tcp_v4_connect_exit holds
  event,        \* the event of the last connection of each thread; in one
                \* with a name, the ip is history
  resolved,     \* history: the answers getaddrinfo has given
  refused,      \* history: threads whose connection found sockets full
  orphans       \* history: tids whose entry in sockets a missed return left

names == <<hostnames, elem, spare>>
maps == <<lookups, names, sockets>>
history == <<resolved, refused, orphans>>
vars == <<pc, maps, addr, lookup, event, history>>

NoEvent == [tag |-> "none", ip |-> NULL, name |-> NULL]

TypeOK ==
  /\ pc \in [Threads -> {"idle", "resolving", "connecting", "copy", "delete"}]
  /\ \A t \in DOMAIN lookups : t \in Threads /\ lookups[t] \in Hosts
  /\ \A a \in DOMAIN hostnames : a \in Ips /\ hostnames[a] \in Elems
  /\ \A t \in DOMAIN sockets : t \in Threads /\ sockets[t] \in Ips
  /\ Cardinality(DOMAIN lookups) <= MaxLookups
  /\ spare \subseteq Elems
  /\ Cardinality(DOMAIN sockets) <= MaxSockets
  /\ elem \in [Elems -> Hosts \cup {NULL}]
  /\ addr \in [Threads -> Ips \cup {NULL}]
  /\ lookup \in [Threads -> Elems \cup {NULL}]
  /\ event \in [Threads -> [tag : {"none", "IP", "HOSTNAME"},
                            ip : Ips \cup {NULL}, name : Hosts \cup {NULL}]]
  /\ resolved \subseteq Hosts \X Ips
  /\ refused \cup orphans \subseteq Threads

Init ==
  /\ pc = [t \in Threads |-> "idle"]
  /\ lookups = <<>> /\ hostnames = <<>> /\ sockets = <<>>
  /\ elem = [e \in Elems |-> NULL]
  /\ spare = Spares
  /\ addr = [t \in Threads |-> NULL]
  /\ lookup = [t \in Threads |-> NULL]
  /\ event = [t \in Threads |-> NoEvent]
  /\ resolved = {} /\ refused = {} /\ orphans = {}
-----------------------------------------------------------------------------
With(map, k, v) ==
  [x \in DOMAIN map \cup {k} |-> IF x = k THEN v ELSE map[x]]

Without(map, k) == Restrict(map, DOMAIN map \ {k})

\* bpf_map_update_elem on a map of at most max entries: a new key is refused
\* when the map is full.
Updated(map, k, v, max) ==
  IF k \in DOMAIN map \/ Cardinality(DOMAIN map) < max
  THEN With(map, k, v) ELSE map

\* Elements for new entries of hostnames.
FreeElems == Elems \ (spare \cup {hostnames[a] : a \in DOMAIN hostnames})

\* bpf_map_update_elem(&hostnames, &a, ...) with name h.  An existing entry is
\* replaced by a spare element and its own becomes a spare; a new one takes a
\* free element and is refused when there is none.
UpdateHostname(a, h) ==
  \/ /\ a \in DOMAIN hostnames
     /\ \E e \in spare :
          /\ elem' = [elem EXCEPT ![e] = h]
          /\ hostnames' = [hostnames EXCEPT ![a] = e]
          /\ spare' = (spare \ {e}) \cup {hostnames[a]}
  \/ /\ a \notin DOMAIN hostnames
     /\ \E e \in FreeElems :
          /\ elem' = [elem EXCEPT ![e] = h]
          /\ hostnames' = With(hostnames, a, e)
     /\ UNCHANGED spare
  \/ /\ a \notin DOMAIN hostnames /\ FreeElems = {}
     /\ UNCHANGED <<elem, hostnames, spare>>

\* getaddrinfo_enter: thread t looks up h.
ResolveEnter(t, h) ==
  /\ pc[t] = "idle"
  /\ pc' = [pc EXCEPT ![t] = "resolving"]
  /\ lookups' = Updated(lookups, t, h, MaxLookups)
  /\ UNCHANGED <<names, sockets, addr, lookup, event, history>>

\* getaddrinfo_exit with ret != 0
ResolveFails(t) ==
  /\ pc[t] = "resolving"
  /\ pc' = [pc EXCEPT ![t] = "idle"]
  /\ lookups' = Without(lookups, t)
  /\ UNCHANGED <<names, sockets, addr, lookup, event, history>>

\* bpf_map_lookup_elem(&lookups, &tid): the name, if there is one
NameOf(t) == {lookups[u] : u \in DOMAIN lookups \cap {t}}

\* getaddrinfo_exit with a the first address of the answer
ResolveExit(t, a) ==
  /\ pc[t] = "resolving"
  /\ pc' = [pc EXCEPT ![t] = "idle"]
  /\ \/ NameOf(t) = {} /\ UNCHANGED <<lookups, names, resolved>>
     \/ \E h \in NameOf(t) :
          /\ UpdateHostname(a, h)
          /\ lookups' = Without(lookups, t)
          /\ resolved' = resolved \cup {<<h, a>>}
  /\ UNCHANGED <<sockets, addr, lookup, event, refused, orphans>>

\* Variant of StoredSocket with BPF_NOEXIST.
StoredSocketOnce(t, a) ==
  IF t \in DOMAIN sockets THEN sockets ELSE Updated(sockets, t, a, MaxSockets)

\* bpf_map_update_elem(&sockets, &tid, &sk, 0)
StoredSocket(t, a) == Updated(sockets, t, a, MaxSockets)

\* tcp_v4_connect_enter
ConnectEnter(t, a) ==
  /\ pc[t] = "idle"
  /\ pc' = [pc EXCEPT ![t] = "connecting"]
  /\ addr' = [addr EXCEPT ![t] = a]
  /\ event' = [event EXCEPT ![t] = NoEvent]
  /\ sockets' = StoredSocket(t, a)
  /\ refused' = IF t \notin DOMAIN sockets
                   /\ Cardinality(DOMAIN sockets) = MaxSockets
                THEN refused \cup {t} ELSE refused \ {t}
  /\ orphans' = orphans \ {t}
  /\ UNCHANGED <<lookups, names, lookup, resolved>>

\* Variant of CleanedUp without the delete.
CleanedUpNot(t) == sockets

\* cleanup: bpf_map_delete_elem(&sockets, &tid)
CleanedUp(t) == Without(sockets, t)

\* tcp_v4_connect_exit with ret != 0
ConnectFails(t) ==
  /\ pc[t] = "connecting"
  /\ pc' = [pc EXCEPT ![t] = "idle"]
  /\ sockets' = CleanedUp(t)
  /\ addr' = [addr EXCEPT ![t] = NULL]
  /\ UNCHANGED <<lookups, names, lookup, event, history>>

\* tcp_v4_connect_exit up to the lookup in hostnames, and to its end when the
\* thread has no socket or the address no name.
ConnectExit(t) ==
  /\ pc[t] = "connecting"
  /\ IF t \notin DOMAIN sockets
     THEN /\ pc' = [pc EXCEPT ![t] = "idle"]
          /\ UNCHANGED <<sockets, lookup, event>>
     ELSE IF sockets[t] \in DOMAIN hostnames
     THEN /\ pc' = [pc EXCEPT ![t] = "copy"]
          /\ lookup' = [lookup EXCEPT ![t] = hostnames[sockets[t]]]
          /\ UNCHANGED <<sockets, event>>
     ELSE /\ pc' = [pc EXCEPT ![t] = "idle"]
          /\ event' = [event EXCEPT ![t] =
                         [tag |-> "IP", ip |-> sockets[t], name |-> NULL]]
          /\ sockets' = CleanedUp(t)
          /\ UNCHANGED lookup
  /\ UNCHANGED <<lookups, names, addr, history>>

\* Variant of NameAt that reads through the wrong pointer.
NameAtSocket(t) == sockets[t]

\* lookup->c
NameAt(t) == elem[lookup[t]]

\* memcpy of the name
CopyName(t) ==
  /\ pc[t] = "copy"
  /\ pc' = [pc EXCEPT ![t] = "delete"]
  /\ event' = [event EXCEPT ![t] = [tag |-> "HOSTNAME", ip |-> sockets[t],
                                    name |-> NameAt(t)]]
  /\ UNCHANGED <<maps, addr, lookup, history>>

\* bpf_map_delete_elem of the address, the output and the cleanup
DeleteName(t) ==
  /\ pc[t] = "delete"
  /\ pc' = [pc EXCEPT ![t] = "idle"]
  /\ hostnames' = Without(hostnames, sockets[t])
  /\ sockets' = CleanedUp(t)
  /\ lookup' = [lookup EXCEPT ![t] = NULL]
  /\ UNCHANGED <<lookups, elem, spare, addr, event, history>>

\* The call ends and its return probe does not run.  If the thread was killed
\* its tid goes to another thread.
MissReturn(t) ==
  /\ pc[t] \in {"resolving", "connecting"}
  /\ pc' = [pc EXCEPT ![t] = "idle"]
  /\ addr' = [addr EXCEPT ![t] = NULL]
  /\ event' = [event EXCEPT ![t] = NoEvent]
  /\ orphans' = IF pc[t] = "connecting" /\ t \in DOMAIN sockets
                THEN orphans \cup {t} ELSE orphans
  /\ UNCHANGED <<maps, lookup, resolved, refused>>

Step(t) ==
  \/ \E h \in Hosts : ResolveEnter(t, h)
  \/ ResolveFails(t)
  \/ \E a \in Ips : ResolveExit(t, a) \/ ConnectEnter(t, a)
  \/ ConnectFails(t) \/ ConnectExit(t) \/ CopyName(t) \/ DeleteName(t)
  \/ MissReturn(t)

Next == \E t \in Threads : Step(t)

Spec == Init /\ [][Next]_vars
-----------------------------------------------------------------------------
\* An event is about the connection the thread has just made, even if a return
\* probe was missed and left an earlier entry of this tid in sockets.
EventsAreOwn ==
  \A t \in Threads : event[t].tag # "none" => event[t].ip = addr[t]

\* A reported name is one that some getaddrinfo resolved, whatever entry the
\* element it was copied from belongs to by then.
NamesWereResolved ==
  \A t \in Threads : event[t].tag = "HOSTNAME" =>
    \E a \in Ips : <<event[t].name, a>> \in resolved

\* tcp_v4_connect_exit finds the socket of a connection, and reports it, unless
\* sockets was full when the connection began.  What fills it are connections
\* in progress and what missed return probes have left: every other path of the
\* exit probe gives the entry back.
UnreportedNeedsFullMap ==
  LET InConnect(t) == pc[t] \in {"connecting", "copy", "delete"}
  IN  /\ \A t \in Threads :
           InConnect(t) => t \in DOMAIN sockets \/ t \in refused
      /\ \A t \in DOMAIN sockets : InConnect(t) \/ t \in orphans
=============================================================================
