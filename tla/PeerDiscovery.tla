---------------------------- MODULE PeerDiscovery ----------------------------
(***************************************************************************)
(* How one instance knows its peers: the registry of an engine             *)
(* (frontend/src-tauri/src/peer_registry.rs), the two threads of its       *)
(* discovery service (discovery.rs), which react to mDNS and evict stale   *)
(* peers, and the list of peers of the user interface                      *)
(* (frontend/src/providers/AppStateProvider.tsx), which is a listing of    *)
(* the registry taken once, then changed by the events of the threads and  *)
(* by the answers of connect_to_peer.                                      *)
(*                                                                         *)
(* The threads share nothing but the registry, and an answer takes another *)
(* way to the interface than an event.  The thread that evicts never ends: *)
(* that of an engine which was stopped keeps its registry and reports on.  *)
(***************************************************************************)
EXTENDS Naturals, Sequences

CONSTANTS
    Peers,      \* other instances, by their fingerprints
    MaxEngines, \* bound: engines that the process starts in turn
    MaxQueue    \* bound: events on their way to the interface

ASSUME DiscoveryAssumption ==
    /\ MaxEngines \in Nat \ {0}
    /\ MaxQueue \in Nat \ {0}

Engines == 1 .. MaxEngines

VARIABLES
    engine,     \* the engine that runs
    handle,     \* handle[e]: app_handle of engine e is set
    registry,   \* registry[e][p]: is p in e's registry, and how old
    browse,     \* browse[e]: what browse_loop of e is doing
    evict,      \* evict[e][p]: what eviction_loop of e is doing about p
    dial,       \* dial[p]: connect_to_peer, called by handleManualConnect
    subscribed, \* the interface listens
    events,     \* events on their way to it
    listing,    \* the answer to its listPeers
    shown,      \* shown[p]: how many entries of its list are p
    tangled     \* peers of whose loss the interface was not told, or told
                \* before it learnt something older

backVars  == <<engine, handle, registry, browse, evict>>
frontVars == <<subscribed, listing, shown>>
vars == <<backVars, dial, events, frontVars, tangled>>

Ages == {"absent", "fresh", "stale"}
Event(kind, p) == [kind |-> kind, peer |-> p]
Kinds == {"discovered", "lost"}
Idle == [at |-> "idle"]
Work == [at : Kinds, peer : Peers]
Dials == {"idle", "status", "get", "answered", "overtaken"}

TypeOK ==
    /\ engine \in Engines
    /\ handle \in [Engines -> BOOLEAN]
    /\ registry \in [Engines -> [Peers -> Ages]]
    /\ browse \in [Engines -> Work \cup {Idle}]
    /\ evict \in [Engines -> [Peers -> {"no", "collected", "removed"}]]
    /\ dial \in [Peers -> Dials]
    /\ subscribed \in BOOLEAN
    /\ events \in Seq([kind : Kinds, peer : Peers]) /\ Len(events) <= MaxQueue
    /\ listing \in [at : {"asked", "answered", "done"}, peers : SUBSET Peers,
                    overtaken : SUBSET Peers]
    /\ shown \in [Peers -> 0 .. 1]
    /\ tangled \subseteq Peers

\* The interface mounts its list when start_engine has returned.
Init ==
    /\ engine = 1
    /\ handle = [e \in Engines |-> e = 1]
    /\ registry = [e \in Engines |-> [p \in Peers |-> "absent"]]
    /\ browse = [e \in Engines |-> Idle]
    /\ evict = [e \in Engines |-> [p \in Peers |-> "no"]]
    /\ dial = [p \in Peers |-> "idle"]
    /\ subscribed = FALSE
    /\ events = <<>>
    /\ listing = [at |-> "asked", peers |-> {}, overtaken |-> {}]
    /\ shown = [p \in Peers |-> 0]
    /\ tangled = {}

-----------------------------------------------------------------------------
(* PeerRegistry. *)

Registered(e) == {p \in Peers : registry[e][p] # "absent"}

upsert(e, p) == registry' = [registry EXCEPT ![e][p] = "fresh"]
\* get, and upsert if there was none: an entry that is there stays as old as it is.
enter(e, p) ==
    registry' = [registry EXCEPT ![e][p] = IF @ = "absent" THEN "fresh" ELSE @]

remove(e, p) == registry' = [registry EXCEPT ![e][p] = "absent"]

\* set_status sets last_seen of an entry that is there.
set_status(e, p) ==
    registry' = [registry EXCEPT ![e][p] = IF @ = "absent" THEN @ ELSE "fresh"]

\* An entry passes the stale timeout.
GrowOld(e, p) ==
    /\ registry[e][p] = "fresh"
    /\ registry' = [registry EXCEPT ![e][p] = "stale"]
    /\ UNCHANGED <<engine, handle, browse, evict, dial, events, frontVars, tangled>>

-----------------------------------------------------------------------------
(* The threads of the discovery service. *)

\* An event goes nowhere while the engine has no app_handle or nobody listens.
Emit(e, kind, p) ==
    IF handle[e] /\ subscribed
      THEN /\ Len(events) < MaxQueue
           /\ events' = Append(events, Event(kind, p))
           /\ UNCHANGED tangled
      ELSE /\ tangled' = IF kind = "lost" /\ ~subscribed THEN tangled \cup {p} ELSE tangled
           /\ UNCHANGED events

\* Mutant: reports a peer only when it is new.
ResolvedNew(p) ==
    /\ browse[engine] = Idle
    /\ upsert(engine, p)
    /\ browse' = [browse EXCEPT ![engine] =
         IF p \in Registered(engine) THEN Idle ELSE [at |-> "discovered", peer |-> p]]
    /\ UNCHANGED <<engine, handle, evict, dial, events, frontVars, tangled>>

\* ServiceResolved: the peer replaces its entry.
Resolved(p) ==
    /\ browse[engine] = Idle
    /\ upsert(engine, p)
    /\ browse' = [browse EXCEPT ![engine] = [at |-> "discovered", peer |-> p]]
    /\ UNCHANGED <<engine, handle, evict, dial, events, frontVars, tangled>>

\* ServiceRemoved: a goodbye, or the end of a record's life, which a peer may
\* outlive.  The peer is looked for in a listing of the registry and removed.
Removed(p) ==
    /\ browse[engine] = Idle
    /\ p \in Registered(engine)
    /\ remove(engine, p)
    /\ browse' = [browse EXCEPT ![engine] = [at |-> "lost", peer |-> p]]
    /\ UNCHANGED <<engine, handle, evict, dial, events, frontVars, tangled>>

BrowseEmit(e) ==
    /\ browse[e] # Idle
    /\ Emit(e, browse[e].at, browse[e].peer)
    /\ browse' = [browse EXCEPT ![e] = Idle]
    /\ UNCHANGED <<engine, handle, registry, evict, dial, frontVars>>

\* Mutant: the comparison the wrong way round.
YoungOf(e) == {p \in Peers : registry[e][p] = "fresh"}
StaleOf(e) == {p \in Peers : registry[e][p] = "stale"}

\* A pass of eviction_loop: evict_stale collects, then removes.
Collect(e) ==
    /\ \A p \in Peers : evict[e][p] = "no"
    /\ StaleOf(e) # {}
    /\ evict' = [evict EXCEPT ![e] = [p \in Peers |-> IF p \in StaleOf(e) THEN "collected" ELSE "no"]]
    /\ UNCHANGED <<engine, handle, registry, browse, dial, events, frontVars, tangled>>

\* Whatever the entry is by now.  Should the other thread be about to report
\* it as discovered, that may come after the report of its loss.
EvictRemove(e, p) ==
    /\ evict[e][p] = "collected"
    /\ remove(e, p)
    /\ evict' = [evict EXCEPT ![e][p] = "removed"]
    /\ tangled' = IF browse[e] = [at |-> "discovered", peer |-> p]
                    THEN tangled \cup {p} ELSE tangled
    /\ UNCHANGED <<engine, handle, browse, dial, events, frontVars>>

\* Mutant: nobody is told.
EvictSilently(e, p) ==
    /\ evict[e][p] = "removed"
    /\ evict' = [evict EXCEPT ![e][p] = "no"]
    /\ UNCHANGED <<engine, handle, registry, browse, dial, events, frontVars, tangled>>

\* evict_stale has returned, so all that it collected are removed.
EvictEmit(e, p) ==
    /\ evict[e][p] = "removed"
    /\ \A q \in Peers : evict[e][q] # "collected"
    /\ Emit(e, "lost", p)
    /\ evict' = [evict EXCEPT ![e][p] = "no"]
    /\ UNCHANGED <<engine, handle, registry, browse, dial, frontVars>>

-----------------------------------------------------------------------------
(* Connections, as far as they touch the registry. *)

\* The task of an incoming connection enters the peer unless it is there.  No
\* event is emitted.  In a step of its own the task then sets the status.
Accepted(p) ==
    /\ enter(engine, p)
    /\ UNCHANGED <<engine, handle, browse, evict, dial, events, frontVars, tangled>>

\* The status of a peer is set by the tasks of its incoming connections, and reset
\* by idle_cleanup_loop when its connection is closed; it does not bring back
\* a peer that was evicted or removed meanwhile.
StatusSet(p) ==
    /\ p \in Registered(engine)
    /\ set_status(engine, p)
    /\ UNCHANGED <<engine, handle, browse, evict, dial, events, frontVars, tangled>>

\* connect_to_peer does the same as the task of an incoming connection, ...
Dialled(p) ==
    /\ handle[engine]
    /\ dial[p] = "idle"
    /\ enter(engine, p)
    /\ dial' = [dial EXCEPT ![p] = "status"]
    /\ UNCHANGED <<engine, handle, browse, evict, events, frontVars, tangled>>

DialStatus(p) ==
    /\ dial[p] = "status"
    /\ set_status(engine, p)
    /\ dial' = [dial EXCEPT ![p] = "get"]
    /\ UNCHANGED <<engine, handle, browse, evict, events, frontVars, tangled>>

\* ... and the command answers with the entry, when it is still there.
DialGet(p) ==
    /\ dial[p] = "get"
    /\ dial' = [dial EXCEPT ![p] = IF p \in Registered(engine) THEN "answered" ELSE "idle"]
    /\ UNCHANGED <<backVars, events, frontVars, tangled>>

-----------------------------------------------------------------------------
(* The list of the interface. *)

Subscribe ==
    /\ ~subscribed
    /\ subscribed' = TRUE
    /\ UNCHANGED <<backVars, dial, events, listing, shown, tangled>>

\* list_peers answers.
List ==
    /\ listing.at = "asked"
    /\ handle[engine]
    /\ listing' = [at |-> "answered", peers |-> Registered(engine), overtaken |-> {}]
    /\ UNCHANGED <<backVars, dial, events, subscribed, shown, tangled>>

\* The answer replaces the list.
ApplyListing ==
    /\ listing.at = "answered"
    /\ listing' = [at |-> "done", peers |-> {}, overtaken |-> {}]
    /\ shown' = [p \in Peers |-> IF p \in listing.peers THEN 1 ELSE 0]
    /\ tangled' = tangled \cup (listing.peers \cap listing.overtaken)
    /\ UNCHANGED <<backVars, dial, events, subscribed>>

\* Replaces the entry of the peer, or appends one.
Entered(p) == 1

\* handleManualConnect enters the peer of the answer.
ApplyDial(p) ==
    /\ dial[p] \in {"answered", "overtaken"}
    /\ shown' = [shown EXCEPT ![p] = Entered(p)]
    /\ tangled' = IF dial[p] = "overtaken" THEN tangled \cup {p} ELSE tangled
    /\ dial' = [dial EXCEPT ![p] = "idle"]
    /\ UNCHANGED <<backVars, events, subscribed, listing>>

\* onPeerDiscovered and onPeerLost; a loss overtakes the answers on their way.
Handle ==
    /\ events # <<>>
    /\ events' = Tail(events)
    /\ LET p == Head(events).peer
       IN  IF Head(events).kind = "discovered"
             THEN /\ shown' = [shown EXCEPT ![p] = Entered(p)]
                  /\ UNCHANGED <<listing, dial>>
             ELSE /\ shown' = [shown EXCEPT ![p] = 0]
                  /\ listing' = IF listing.at = "answered"
                                  THEN [listing EXCEPT !.overtaken = @ \cup {p}] ELSE listing
                  /\ dial' = [dial EXCEPT ![p] = IF @ = "answered" THEN "overtaken" ELSE @]
    /\ UNCHANGED <<backVars, subscribed, tangled>>

-----------------------------------------------------------------------------
(* stop_engine and start_engine: a new registry, new threads. *)

\* A call of connect_to_peer under way keeps a read guard, for which the stop waits.
Restart ==
    /\ handle[engine]
    /\ \A p \in Peers : dial[p] \notin {"status", "get"}
    /\ engine + 1 \in Engines
    /\ engine' = engine + 1
    /\ UNCHANGED <<handle, registry, browse, evict, dial, events, frontVars, tangled>>

set_app_handle ==
    /\ ~handle[engine]
    /\ handle' = [handle EXCEPT ![engine] = TRUE]
    /\ UNCHANGED <<engine, registry, browse, evict, dial, events, frontVars, tangled>>

-----------------------------------------------------------------------------
eviction_loop(e) == Collect(e) \/ \E p \in Peers : EvictRemove(e, p) \/ EvictEmit(e, p)
Interface == Subscribe \/ List \/ ApplyListing \/ Handle \/ \E p \in Peers : ApplyDial(p)

Next ==
    \/ \E p \in Peers :
         \/ Resolved(p) \/ Removed(p) \/ Accepted(p) \/ StatusSet(p)
         \/ Dialled(p) \/ DialStatus(p) \/ DialGet(p)
    \/ \E e \in Engines : BrowseEmit(e) \/ eviction_loop(e) \/ \E p \in Peers : GrowOld(e, p)
    \/ Interface
    \/ Restart \/ set_app_handle

Spec == Init /\ [][Next]_vars

\* Threads, timers and the interface keep going; the network owes nothing.
Fairness ==
    /\ \A e \in Engines :
         /\ WF_vars(BrowseEmit(e))
         /\ WF_vars(Collect(e))
         /\ \A p \in Peers :
              /\ WF_vars(EvictRemove(e, p))
              /\ WF_vars(EvictEmit(e, p))
              /\ WF_vars(GrowOld(e, p))
    /\ WF_vars(set_app_handle)
    /\ WF_vars(Subscribe) /\ WF_vars(List) /\ WF_vars(ApplyListing) /\ WF_vars(Handle)
    /\ \A p \in Peers : WF_vars(DialStatus(p) \/ DialGet(p)) /\ WF_vars(ApplyDial(p))

FairSpec == Spec /\ Fairness

-----------------------------------------------------------------------------
(* Properties. *)

\* A loss of p that will be, or was, reported to the interface.
LossOnItsWay(p) ==
    \/ \E e \in Engines : evict[e][p] = "removed" \/ browse[e] = [at |-> "lost", peer |-> p]
    \/ \E i \in 1 .. Len(events) : events[i] = Event("lost", p)

\* A peer that the interface shows is in a registry, that of the engine or of
\* one before it, or the report of its loss is on its way, unless an answer
\* or an event overtook that report.
ShownIsKnown ==
    \A p \in Peers \ tangled :
        shown[p] > 0 =>
            \/ \E e \in 1 .. engine : p \in Registered(e)
            \/ LossOnItsWay(p)

\* The network has p, or had it until a moment ago; a connection is cleaned
\* up once.
Heard(p) ==
    Resolved(p) \/ Accepted(p) \/ StatusSet(p) \/ Dialled(p) \/ DialStatus(p)

\* A peer that is not heard of any more is forgotten for good, with a goodbye
\* or without.
GoneIsForgotten ==
    \A p \in Peers : []<><<Heard(p)>>_vars \/ <>[](p \notin Registered(engine))

\* A peer that is heard of again and again is shown again and again, whatever
\* the threads of earlier engines report and the answers overwrite.
HeardIsShown ==
    \A p \in Peers : []<><<Resolved(p)>>_vars => []<>(shown[p] > 0)
=============================================================================
