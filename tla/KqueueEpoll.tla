---------------------------- MODULE KqueueEpoll -----------------------------
(***************************************************************************)
(* epoll on kqueue (BSD and macOS), co_epoll.cpp: the map from descriptors *)
(* to the record that the kernel's filters point to, and the merging of    *)
(* the events of one descriptor into one entry of the result.  The kernel  *)
(* and the program that closes descriptors are the environment.            *)
(***************************************************************************)
EXTENDS Naturals, Sequences, FiniteSets, SequencesExt

CONSTANTS
  Fds,                   (* the descriptors                                *)
  EventSets, EvData,     (* what a program gives as ev->events and ev->data*)
  MaxEvents              (* maxevents of co_epoll_wait                     *)

ASSUME KqAssumption == /\ IsFiniteSet(Fds) /\ MaxEvents \in Nat
                       /\ EventSets \subseteq SUBSET {"IN", "OUT"}

VARIABLES
  fdOpen,                (* the open descriptors                           *)
  fdMap,                 (* s_fd_map: fd -> its pair, or 0                 *)
  pairs,                 (* pair -> its fire_idx, events and u64           *)
  filters,               (* the kernel: [fd, filter, udata] registered     *)
  torn,                  (* descriptors whose filters and map entry differ *)
  result,                (* events->events, kept from wait to wait         *)
  count, fired           (* after a wait: what it returned, and what       *)
                         (* kevent had returned to it                      *)

kqVars == <<fdOpen, fdMap, pairs, filters, torn, result, count, fired>>

Pairs == 1 .. Cardinality(Fds)
NoPair == [fire |-> 0, events |-> {}, data |-> "none"]
NoEntry == [events |-> {}, data |-> "none"]
NoResult == [i \in 1 .. MaxEvents |-> NoEntry]

KqInit ==
  /\ fdOpen = Fds /\ fdMap = [fd \in Fds |-> 0]
  /\ pairs = [p \in Pairs |-> NoPair]
  /\ filters = {} /\ torn = {}
  /\ result = NoResult
  /\ count = 0 /\ fired = <<>>

\* A caller that makes another call is done with what the wait returned: the
\* entries are forgotten, and kept only from one wait to the next.
Left == count' = 0 /\ fired' = <<>> /\ result' = NoResult

Of(fd) == {f \in filters : f.fd = fd}
Free == Pairs \ {fdMap[fd] : fd \in Fds}

\* calloc gives the lowest free record.
Calloc == CHOOSE p \in Free : \A q \in Free : p <= q

\* The filters that the events of a pair stand for, and those of others.
Registered(fd, events) == {f \in Of(fd) : f.filter \in events}

\* Mutant: the filters that were registered stay.
DeletedNone(fd, op) == {}

\* EPOLL_CTL_MOD first deletes what is registered, whatever comes of it.
DeletedFirst(fd, op) ==
  IF op = "MOD" THEN Registered(fd, pairs[fdMap[fd]].events) ELSE {}

\* The return of the last delete is the call's, if nothing is added.
DeleteFails(fd, op) ==
  /\ op = "MOD"
  /\ "OUT" \in pairs[fdMap[fd]].events /\ Registered(fd, {"OUT"}) = {}

\* The filters of a set of events, in the order they are added.
Wants(events) ==
  (IF "IN" \in events THEN <<"IN">> ELSE <<>>)
    \o (IF "OUT" \in events THEN <<"OUT">> ELSE <<>>)

\* co_epoll_ctl, of ADD and MOD that are not refused, of which the first
\* done additions of filters succeed.
Ctl(op, fd, events, data, done) ==
  LET ptr == IF op = "ADD" THEN Calloc ELSE fdMap[fd]
      wants == Wants(events)
      added == {[fd |-> fd, filter |-> wants[n], udata |-> ptr] :
                  n \in 1 .. done}
      kept == {f \in filters \ DeletedFirst(fd, op) :
                 \A g \in added : <<f.fd, f.filter>> # <<g.fd, g.filter>>}
      fails == done < Len(wants) \/ (wants = <<>> /\ DeleteFails(fd, op))
  IN  /\ done <= Len(wants)
      /\ (op = "ADD") = (fdMap[fd] = 0)
      /\ fd \notin fdOpen => done = 0
      /\ filters' = kept \cup added
      /\ fdMap' = [fdMap EXCEPT ![fd] = IF fails THEN 0 ELSE ptr]
      /\ pairs' = [pairs EXCEPT ![ptr] =
           IF fails THEN NoPair
           ELSE [@ EXCEPT !.events = events, !.data = data]]
      /\ torn' = IF fails /\ \E f \in filters' : f.fd = fd
                 THEN torn \cup {fd} ELSE torn
      /\ UNCHANGED fdOpen /\ Left

co_epoll_ctl(op, fd) ==
  \E events \in EventSets, data \in EvData, done \in 0 .. 2 :
    Ctl(op, fd, events, data, done)

co_epoll_del(fd) ==
  /\ fdMap[fd] # 0
  /\ filters' = filters \ Registered(fd, pairs[fdMap[fd]].events)
  /\ fdMap' = [fdMap EXCEPT ![fd] = 0]
  /\ pairs' = [pairs EXCEPT ![fdMap[fd]] = NoPair]
  /\ torn' = IF \E f \in filters' : f.fd = fd THEN torn ELSE torn \ {fd}
  /\ UNCHANGED fdOpen /\ Left
-----------------------------------------------------------------------------
\* The entry of an event: that of the first event of its pair.
FirstOf(events, i) ==
  CHOOSE k \in 1 .. i :
    /\ events[k].udata = events[i].udata
    /\ \A m \in 1 .. k - 1 : events[m].udata # events[i].udata
EntryOf(events, i) ==
  LET fire == pairs[events[i].udata].fire
  IN  IF fire = 0 THEN FirstOf(events, i) ELSE fire

\* Mutant: the indices are left for the next wait.
FireLeft(events, p) ==
  LET mine == {i \in DOMAIN events : events[i].udata = p}
  IN  IF mine = {} THEN pairs[p].fire
      ELSE EntryOf(events, CHOOSE i \in mine : TRUE)
FireAfter(events, p) == 0

\* kevent gives the filters that are ready in an order of its own; a filter
\* whose udata is not its descriptor's pair would be undefined behaviour.
co_epoll_wait ==
  \E ready \in SUBSET filters : \E events \in SetToSeqs(ready) :
    LET Into(k) == {i \in DOMAIN events : EntryOf(events, i) = k}
        Fresh(k) == \E i \in Into(k) : pairs[events[i].udata].fire = 0
    IN  /\ Cardinality(ready) \in 1 .. MaxEvents
        /\ \A f \in filters : f.udata = fdMap[f.fd]
        /\ count' = Cardinality({k \in 1 .. MaxEvents : Fresh(k)})
        /\ result' = [k \in 1 .. MaxEvents |->
             IF Into(k) = {} THEN result[k]
             ELSE [events |-> (IF Fresh(k) THEN {} ELSE result[k].events)
                                \cup {events[i].filter : i \in Into(k)},
                   data |->
                     pairs[events[CHOOSE i \in Into(k) : TRUE].udata].data]]
        /\ pairs' = [p \in Pairs |->
             [pairs[p] EXCEPT !.fire = FireAfter(events, p)]]
        /\ fired' = [i \in DOMAIN events |->
             [filter |-> events[i].filter, udata |-> events[i].udata,
              data |-> pairs[events[i].udata].data]]
        /\ UNCHANGED <<fdOpen, fdMap, filters, torn>>

\* The program closes a descriptor: the kernel drops its filters.
CloseKq(fd) ==
  /\ fd \in fdOpen
  /\ fdOpen' = fdOpen \ {fd} /\ filters' = filters \ Of(fd)
  /\ torn' = IF fdMap[fd] = 0 THEN torn \ {fd} ELSE torn \cup {fd}
  /\ UNCHANGED <<fdMap, pairs>> /\ Left

OpenKq(fd) ==
  /\ fd \notin fdOpen
  /\ fdOpen' = fdOpen \cup {fd}
  /\ UNCHANGED <<fdMap, pairs, filters, torn>> /\ Left

KqNext ==
  \/ \E fd \in Fds :
       \/ \E op \in {"ADD", "MOD"} : co_epoll_ctl(op, fd)
       \/ co_epoll_del(fd) \/ CloseKq(fd) \/ OpenKq(fd)
  \/ co_epoll_wait

KqSpec == KqInit /\ [][KqNext]_kqVars
-----------------------------------------------------------------------------
\* co_epoll.cpp:206: the kernel has just the filters that the events of the
\* pair of a descriptor say, and they point to that pair: after additions
\* and modifications that failed half way, too, but for the descriptor
\* whose second filter was refused, or that was closed with an entry.
FiltersFollow ==
  \A fd \in Fds \ torn :
    /\ \A f \in Of(fd) : f.udata = fdMap[fd]
    /\ {f.filter : f \in Of(fd)} =
         IF fdMap[fd] = 0 THEN {} ELSE pairs[fdMap[fd]].events

\* co_epoll.cpp:137: a wait gives every descriptor with events one entry,
\* with all of them and its data and nothing of an earlier wait, and counts
\* those entries.  (The entry is where the first event was, so there may be
\* a hole, with what an earlier wait left, among the entries that the caller
\* reads, which are as many as were counted.)
EntriesMerged ==
  LET mine(p) == {i \in DOMAIN fired : fired[i].udata = p}
      firsts == {FirstOf(fired, i) : i \in DOMAIN fired}
  IN  /\ count = Cardinality({fired[i].udata : i \in DOMAIN fired})
      /\ \A k \in firsts :
           result[k] =
             [events |-> {fired[i].filter : i \in mine(fired[k].udata)},
              data |-> fired[k].data]
=============================================================================
