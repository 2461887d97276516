------------------------- MODULE PeerDiscoveryProofs -------------------------
(***************************************************************************)
(* Proofs about PeerDiscovery, for any set of peers, any number of engines *)
(* and any bound on the events.                                            *)
(***************************************************************************)
EXTENDS PeerDiscovery, TLAPS

-----------------------------------------------------------------------------
(* Queues *)

LEMMA HeadAndTail ==
    ASSUME NEW S, NEW q \in Seq(S), q # <<>>
    PROVE  /\ Head(q) = q[1] /\ Head(q) \in S
           /\ Tail(q) \in Seq(S)
           /\ Len(q) \in Nat \ {0} /\ Len(Tail(q)) = Len(q) - 1
           /\ \A i \in 1 .. Len(Tail(q)) : Tail(q)[i] = q[i + 1]
OBVIOUS

LEMMA Appending ==
    ASSUME NEW S, NEW q \in Seq(S), NEW x \in S
    PROVE  /\ Append(q, x) \in Seq(S)
           /\ Len(q) \in Nat /\ Len(Append(q, x)) = Len(q) + 1
           /\ Append(q, x)[Len(q) + 1] = x
           /\ \A i \in 1 .. Len(q) : Append(q, x)[i] = q[i]
OBVIOUS

-----------------------------------------------------------------------------
(* Type correctness *)

LEMMA InitType == Init => TypeOK
<1> SUFFICES ASSUME Init
             PROVE  TypeOK
  OBVIOUS
<1>1. 1 \in Engines
  BY DiscoveryAssumption DEF Engines
<1>2. events \in Seq([kind : Kinds, peer : Peers]) /\ Len(events) <= MaxQueue
  BY DiscoveryAssumption DEF Init
<1>3. listing \in [at : {"asked", "answered", "done"}, peers : SUBSET Peers,
                   overtaken : SUBSET Peers]
  BY DEF Init
<1>4. browse \in [Engines -> Work \cup {Idle}]
  BY DEF Init
<1>5. handle \in [Engines -> BOOLEAN]
  <2>1. \A e \in Engines : (e = 1) \in BOOLEAN
    OBVIOUS
  <2> QED
    BY <2>1, Zenon DEF Init
<1>6. registry \in [Engines -> [Peers -> Ages]]
  BY DEF Init, Ages
<1>7. evict \in [Engines -> [Peers -> {"no", "collected", "removed"}]] /\ dial \in [Peers -> Dials]
  BY DEF Init, Dials
<1>8. shown \in [Peers -> 0 .. 1] /\ tangled \subseteq Peers
  BY DEF Init
<1>9. engine \in Engines
  BY <1>1 DEF Init
<1>10. subscribed \in BOOLEAN
  BY Zenon DEF Init
<1> QED
  BY <1>2, <1>3, <1>4, <1>5, <1>6, <1>7, <1>8, <1>9, <1>10 DEF TypeOK

\* An event that is emitted has its type and finds room, and nobody but a peer
\* becomes tangled.
LEMMA EmitType ==
    ASSUME TypeOK, NEW e \in Engines, NEW kind \in Kinds, NEW p \in Peers, Emit(e, kind, p)
    PROVE  /\ events' \in Seq([kind : Kinds, peer : Peers]) /\ Len(events') <= MaxQueue
           /\ tangled' \subseteq Peers
<1>1. CASE handle[e] /\ subscribed
  <2>1. Event(kind, p) \in [kind : Kinds, peer : Peers]
    BY DEF Event
  <2>2. events' = Append(events, Event(kind, p)) /\ Len(events) < MaxQueue /\ UNCHANGED tangled
    BY <1>1 DEF Emit
  <2> QED
    BY <2>1, <2>2, DiscoveryAssumption DEF TypeOK
<1>2. CASE ~(handle[e] /\ subscribed)
  BY <1>2 DEF Emit, TypeOK
<1> QED
  BY <1>1, <1>2

LEMMA NetworkType ==
    ASSUME TypeOK, NEW p \in Peers,
           \/ Resolved(p) \/ Removed(p) \/ Accepted(p) \/ StatusSet(p)
           \/ Dialled(p) \/ DialStatus(p) \/ DialGet(p)
    PROVE  TypeOK'
<1> USE DEF TypeOK, frontVars, upsert, enter, remove, set_status, Ages, Work, Idle, Kinds, Dials
<1>1. CASE Resolved(p)
  BY <1>1 DEF Resolved
<1>2. CASE Removed(p)
  BY <1>2 DEF Removed
<1>3. CASE Accepted(p)
  BY <1>3 DEF Accepted
<1>4. CASE StatusSet(p)
  BY <1>4 DEF StatusSet
<1>5. CASE Dialled(p)
  BY <1>5 DEF Dialled
<1>6. CASE DialStatus(p)
  BY <1>6 DEF DialStatus
<1>7. CASE DialGet(p)
  BY <1>7 DEF DialGet, backVars
<1> QED
  BY <1>1, <1>2, <1>3, <1>4, <1>5, <1>6, <1>7

LEMMA ThreadsType ==
    ASSUME TypeOK, NEW e \in Engines,
           BrowseEmit(e) \/ eviction_loop(e) \/ \E p \in Peers : GrowOld(e, p)
    PROVE  TypeOK'
<1>1. CASE BrowseEmit(e)
  <2>1. browse[e].at \in Kinds /\ browse[e].peer \in Peers
    BY <1>1 DEF BrowseEmit, TypeOK, Work, Idle
  <2>2. Emit(e, browse[e].at, browse[e].peer)
    BY <1>1 DEF BrowseEmit
  <2>3. /\ events' \in Seq([kind : Kinds, peer : Peers]) /\ Len(events') <= MaxQueue
        /\ tangled' \subseteq Peers
    BY <2>1, <2>2, EmitType
  <2> QED
    BY <1>1, <2>3 DEF BrowseEmit, TypeOK, frontVars
<1>2. CASE Collect(e)
  BY <1>2 DEF Collect, TypeOK, frontVars
<1>3. ASSUME NEW p \in Peers, EvictRemove(e, p)
      PROVE  TypeOK'
  BY <1>3 DEF EvictRemove, remove, TypeOK, frontVars, Ages
<1>4. ASSUME NEW p \in Peers, EvictEmit(e, p)
      PROVE  TypeOK'
  <2>1. "lost" \in Kinds /\ Emit(e, "lost", p)
    BY <1>4 DEF EvictEmit, Kinds
  <2>2. /\ events' \in Seq([kind : Kinds, peer : Peers]) /\ Len(events') <= MaxQueue
        /\ tangled' \subseteq Peers
    BY <2>1, EmitType
  <2> QED
    BY <1>4, <2>2 DEF EvictEmit, TypeOK, frontVars
<1>5. ASSUME NEW p \in Peers, GrowOld(e, p)
      PROVE  TypeOK'
  BY <1>5 DEF GrowOld, TypeOK, frontVars, Ages
<1> QED
  BY <1>1, <1>2, <1>3, <1>4, <1>5 DEF eviction_loop

LEMMA InterfaceType ==
    ASSUME TypeOK, Interface
    PROVE  TypeOK'
<1> USE DEF TypeOK, backVars
<1>1. CASE Subscribe
  BY <1>1 DEF Subscribe
<1>2. CASE List
  BY <1>2 DEF List, Registered
<1>3. CASE ApplyListing
  BY <1>3 DEF ApplyListing
<1>4. CASE Handle
  <2>1. /\ Head(events) \in [kind : Kinds, peer : Peers]
        /\ Tail(events) \in Seq([kind : Kinds, peer : Peers])
        /\ Len(Tail(events)) <= MaxQueue
    <3>1. events # <<>> /\ events \in Seq([kind : Kinds, peer : Peers]) /\ Len(events) <= MaxQueue
      BY <1>4 DEF Handle
    <3> DEFINE E == [kind : Kinds, peer : Peers]
    <3> HIDE DEF TypeOK, E
    <3>2. /\ Head(events) \in E /\ Tail(events) \in Seq(E)
          /\ Len(events) \in Nat /\ Len(Tail(events)) = Len(events) - 1
      BY <3>1, HeadAndTail DEF E
    <3>3. Len(Tail(events)) <= MaxQueue
      BY <3>1, <3>2, DiscoveryAssumption
    <3> QED
      BY <3>2, <3>3 DEF E
  <2>2. CASE Head(events).kind = "discovered"
    <3>1. /\ events' = Tail(events)
          /\ shown' = [shown EXCEPT ![Head(events).peer] = 1]
          /\ UNCHANGED <<listing, dial, backVars, subscribed, tangled>>
      BY <1>4, <2>2 DEF Handle, Entered
    <3>2. shown' \in [Peers -> 0 .. 1]
      BY <2>1, <3>1
    <3> QED
      BY <2>1, <3>1, <3>2
  <2>3. CASE Head(events).kind # "discovered"
    <3> DEFINE p == Head(events).peer
    <3>1. p \in Peers
      BY <2>1
    <3>2. /\ shown' = [shown EXCEPT ![p] = 0]
          /\ dial' = [dial EXCEPT ![p] = IF @ = "answered" THEN "overtaken" ELSE @]
          /\ listing' = IF listing.at = "answered"
                          THEN [listing EXCEPT !.overtaken = @ \cup {p}] ELSE listing
          /\ events' = Tail(events) /\ UNCHANGED <<backVars, subscribed, tangled>>
      BY <1>4, <2>3 DEF Handle
    <3>3. listing' \in [at : {"asked", "answered", "done"}, peers : SUBSET Peers,
                        overtaken : SUBSET Peers]
      BY <3>1, <3>2
    <3>4. shown' \in [Peers -> 0 .. 1] /\ dial' \in [Peers -> Dials]
      BY <3>1, <3>2 DEF Dials
    <3> QED
      BY <2>1, <3>2, <3>3, <3>4
  <2> QED
    BY <2>2, <2>3
<1>5. ASSUME NEW p \in Peers, ApplyDial(p)
      PROVE  TypeOK'
  BY <1>5 DEF ApplyDial, Entered, Dials
<1> QED
  BY <1>1, <1>2, <1>3, <1>4, <1>5 DEF Interface

LEMMA TypeStep == TypeOK /\ [Next]_vars => TypeOK'
<1> SUFFICES ASSUME TypeOK, [Next]_vars
             PROVE  TypeOK'
  OBVIOUS
<1>1. CASE Restart
  BY <1>1 DEF Restart, TypeOK, frontVars, Dials
<1>2. CASE set_app_handle
  BY <1>2 DEF set_app_handle, TypeOK, frontVars
<1>3. CASE UNCHANGED vars
  BY <1>3 DEF vars, backVars, frontVars, TypeOK
<1> QED
  BY <1>1, <1>2, <1>3, NetworkType, ThreadsType, InterfaceType DEF Next

\* In every state of every instance each variable has its type: in particular no
\* peer is in the list of the interface twice, and the events find room (TypeOK).
THEOREM TypeCorrect == Spec => []TypeOK
BY InitType, TypeStep, PTL DEF Spec

-----------------------------------------------------------------------------
(* What the interface shows.  The inductive invariant follows one peer along  *)
(* every way that leads into the list: an event on its way, the listing, the *)
(* answer of a call.  For each there is a registry that has the peer, or the  *)
(* report of a loss that will be handled later.                              *)

Discovering(e, p) == browse[e] = [at |-> "discovered", peer |-> p]

\* Engine e, which can reach the interface, has p in its registry or is about to
\* report its loss.
VouchedBy(e, p) ==
    /\ handle[e]
    /\ \/ p \in Registered(e)
       \/ evict[e][p] = "removed"
       \/ browse[e] = [at |-> "lost", peer |-> p]

Vouched(p) == \E e \in Engines : VouchedBy(e, p)

\* An event after the i-th takes p off the list.
LossAfter(p, i) == \E j \in i + 1 .. Len(events) : events[j] = Event("lost", p)

\* p is in the list, or an answer which no loss overtook will put it there.
Announced(p) ==
    \/ shown[p] > 0
    \/ dial[p] = "answered"
    \/ listing.at = "answered" /\ p \in listing.peers \ listing.overtaken

PeerInv(p) ==
    /\ \A e \in Engines : Discovering(e, p) => p \in Registered(e)
    /\ Announced(p) => Vouched(p) \/ LossAfter(p, 0)
    /\ \A i \in 1 .. Len(events) :
         events[i] = Event("discovered", p) => Vouched(p) \/ LossAfter(p, i)

\* Only an engine that was started has a handle, and a call runs only in an
\* engine that has one.
HandleInv ==
    /\ \A e \in Engines : handle[e] => e <= engine
    /\ \A p \in Peers : dial[p] \in {"status", "get"} => handle[engine]

ShownInv == HandleInv /\ \A p \in Peers \ tangled : PeerInv(p)

LEMMA InitShown == Init => ShownInv
<1> SUFFICES ASSUME Init
             PROVE  ShownInv
  OBVIOUS
<1>1. HandleInv
  <2>1. \A e \in Engines : handle[e] => e = 1
    BY Zenon DEF Init
  <2>2. \A p \in Peers : dial[p] \notin {"status", "get"}
    BY DEF Init
  <2>3. engine = 1
    BY DEF Init
  <2> QED
    BY <2>1, <2>2, <2>3 DEF HandleInv
<1>2. ASSUME NEW p \in Peers
      PROVE  PeerInv(p)
  <2>1. ~Announced(p)
    BY DEF Init, Announced
  <2>2. \A e \in Engines : ~Discovering(e, p)
    BY DEF Init, Discovering, Idle
  <2>3. 1 .. Len(events) = {}
    BY DEF Init
  <2> QED
    BY <2>1, <2>2, <2>3 DEF PeerInv
<1> QED
  BY <1>1, <1>2 DEF ShownInv

\* A step that changes no event preserves the invariant of a peer when whatever
\* vouches for it still does, and nothing else announces it.
LEMMA SameEvents ==
    ASSUME NEW p \in Peers, PeerInv(p), UNCHANGED events,
           Vouched(p) => Vouched(p)',
           Announced(p)' => Announced(p) \/ Vouched(p)',
           \A e \in Engines : Discovering(e, p)' => (p \in Registered(e))'
    PROVE  PeerInv(p)'
<1>1. \A i \in Nat : LossAfter(p, i) => LossAfter(p, i)'
  BY DEF LossAfter
<1>2. Announced(p)' => Vouched(p)' \/ LossAfter(p, 0)'
  BY <1>1 DEF PeerInv
<1>3. ASSUME NEW i \in 1 .. Len(events'), events'[i] = Event("discovered", p)
      PROVE  Vouched(p)' \/ LossAfter(p, i)'
  BY <1>1, <1>3 DEF PeerInv
<1> QED
  BY <1>2, <1>3 DEF PeerInv, Event

\* A thread reports something: whatever was about to report the loss of p has
\* put it behind all other events.
LEMMA EmitShown ==
    ASSUME TypeOK, NEW e \in Engines, NEW kind \in Kinds, NEW q \in Peers, Emit(e, kind, q),
           NEW p \in Peers \ tangled', PeerInv(p), UNCHANGED <<handle, registry, dial, listing, shown>>,
           Vouched(p) => Vouched(p)' \/ (VouchedBy(e, p) /\ kind = "lost" /\ q = p),
           kind = "discovered" /\ q = p => p \in Registered(e),
           \A f \in Engines : Discovering(f, p)' => Discovering(f, p)
    PROVE  PeerInv(p)'
<1>1. \A f \in Engines : Discovering(f, p)' => (p \in Registered(f))'
  BY DEF PeerInv, Registered
<1>2. Announced(p)' <=> Announced(p)
  BY DEF Announced
<1>3. CASE handle[e] /\ subscribed
  <2> DEFINE n == Len(events)
             x == Event(kind, q)
  <2>1. events' = Append(events, x) /\ x \in [kind : Kinds, peer : Peers]
    BY <1>3 DEF Emit, Event
  <2>2. /\ n \in Nat /\ Len(events') = n + 1 /\ events'[n + 1] = x
        /\ \A i \in 1 .. n : events'[i] = events[i]
    BY <2>1, Appending DEF TypeOK
  <2> HIDE DEF n, x
  <2>3. ASSUME NEW i \in 0 .. n, Vouched(p) \/ LossAfter(p, i)
        PROVE  Vouched(p)' \/ LossAfter(p, i)'
    <3>1. CASE LossAfter(p, i)
      BY <3>1, <2>2 DEF LossAfter, n
    <3>2. CASE kind = "lost" /\ q = p
      BY <3>2, <2>2 DEF LossAfter, x
    <3> QED
      BY <3>1, <3>2, <2>3
  <2>4. Announced(p)' => Vouched(p)' \/ LossAfter(p, 0)'
    BY <1>2, <2>2, <2>3 DEF PeerInv
  <2>5. ASSUME NEW i \in 1 .. Len(events'), events'[i] = Event("discovered", p)
        PROVE  Vouched(p)' \/ LossAfter(p, i)'
    <3>1. CASE i <= n
      BY <2>2, <2>3, <2>5, <3>1 DEF PeerInv, n
    <3>2. CASE i = n + 1
      <4>1. kind = "discovered" /\ q = p
        BY <2>2, <2>5, <3>2 DEF x, Event
      <4>2. handle'[e] /\ (p \in Registered(e))'
        BY <1>3, <4>1 DEF Registered
      <4> QED
        BY <4>2 DEF Vouched, VouchedBy
    <3> QED
      BY <2>2, <3>1, <3>2
  <2> QED
    BY <1>1, <2>4, <2>5 DEF PeerInv, Event
<1>4. CASE ~(handle[e] /\ subscribed)
  <2>1. UNCHANGED events /\ tangled' = IF kind = "lost" /\ ~subscribed THEN tangled \cup {q} ELSE tangled
    BY <1>4 DEF Emit
  <2>2. ~(VouchedBy(e, p) /\ kind = "lost" /\ q = p)
    BY <1>4, <2>1 DEF VouchedBy
  <2> QED
    BY <1>1, <1>2, <2>1, <2>2, SameEvents
<1> QED
  BY <1>3, <1>4

\* The handles and the calls of an engine change only when one is started.
LEMMA HandleKept ==
    ASSUME HandleInv, UNCHANGED <<engine, handle>>,
           \A p \in Peers : dial'[p] \in {"status", "get"} =>
                             dial[p] \in {"status", "get"} \/ handle[engine]
    PROVE  HandleInv'
BY DEF HandleInv

LEMMA NetworkShown ==
    ASSUME TypeOK, ShownInv, NEW q \in Peers,
           \/ Resolved(q) \/ Removed(q) \/ Accepted(q) \/ StatusSet(q)
           \/ Dialled(q) \/ DialStatus(q) \/ DialGet(q)
    PROVE  ShownInv'
<1> USE DEF Vouched, VouchedBy, Discovering, Announced, Registered, frontVars
<1>1. HandleInv'
  <2>1. UNCHANGED <<engine, handle>>
    BY DEF Resolved, Removed, Accepted, StatusSet, Dialled, DialStatus, DialGet, backVars
  <2>2. \A p \in Peers : dial'[p] \in {"status", "get"} =>
                             dial[p] \in {"status", "get"} \/ handle[engine]
    BY DEF TypeOK, Resolved, Removed, Accepted, StatusSet, Dialled, DialStatus, DialGet
  <2> QED
    BY <2>1, <2>2, HandleKept DEF ShownInv
<1>2. UNCHANGED <<events, tangled, handle>>
  BY DEF Resolved, Removed, Accepted, StatusSet, Dialled, DialStatus, DialGet, backVars
<1>3. ASSUME NEW p \in Peers \ tangled'
      PROVE  PeerInv(p)'
  <2>1. PeerInv(p)
    BY <1>2 DEF ShownInv
  <2>2. /\ Vouched(p) => Vouched(p)'
        /\ Announced(p)' => Announced(p) \/ Vouched(p)'
        /\ \A e \in Engines : Discovering(e, p)' => (p \in Registered(e))'
    <3>1. CASE Resolved(q)
      BY <2>1, <3>1 DEF PeerInv, Resolved, upsert, TypeOK, Idle
    <3>2. CASE Removed(q)
      BY <2>1, <3>2 DEF PeerInv, Removed, remove, TypeOK, Idle
    <3>3. CASE Accepted(q)
      BY <2>1, <3>3 DEF PeerInv, Accepted, enter, TypeOK
    <3>4. CASE StatusSet(q)
      BY <2>1, <3>4 DEF PeerInv, StatusSet, set_status, TypeOK
    <3>5. CASE Dialled(q)
      BY <2>1, <3>5 DEF PeerInv, Dialled, enter, TypeOK
    <3>6. CASE DialStatus(q)
      BY <2>1, <3>6 DEF PeerInv, DialStatus, set_status, TypeOK
    <3>7. CASE DialGet(q)
      BY <2>1, <3>7 DEF PeerInv, DialGet, backVars, TypeOK, ShownInv, HandleInv
    <3> QED
      BY <3>1, <3>2, <3>3, <3>4, <3>5, <3>6, <3>7
  <2> QED
    BY <1>2, <2>1, <2>2, SameEvents
<1> QED
  BY <1>1, <1>3 DEF ShownInv

LEMMA ThreadsShown ==
    ASSUME TypeOK, ShownInv, NEW e \in Engines,
           BrowseEmit(e) \/ eviction_loop(e) \/ \E q \in Peers : GrowOld(e, q)
    PROVE  ShownInv'
<1> USE DEF Vouched, VouchedBy, Discovering, Announced, Registered, frontVars
<1>1. HandleInv' /\ tangled \subseteq tangled'
  <2>1. UNCHANGED <<engine, handle, dial>> /\ tangled \subseteq tangled'
    BY DEF BrowseEmit, eviction_loop, Collect, EvictRemove, EvictEmit, GrowOld, Emit
  <2> QED
    BY <2>1, HandleKept DEF ShownInv
<1>2. ASSUME NEW p \in Peers \ tangled'
      PROVE  PeerInv(p)'
  <2>1. PeerInv(p)
    BY <1>1 DEF ShownInv
  <2>2. CASE BrowseEmit(e)
    <3> DEFINE kind == browse[e].at
               q == browse[e].peer
    <3>1. /\ kind \in Kinds /\ q \in Peers /\ browse[e] = [at |-> kind, peer |-> q]
          /\ Emit(e, kind, q)
      BY <2>2 DEF BrowseEmit, TypeOK, Work, Idle
    <3>2. Vouched(p) => Vouched(p)' \/ (VouchedBy(e, p) /\ kind = "lost" /\ q = p)
      BY <2>2, <3>1 DEF BrowseEmit, TypeOK
    <3>3. kind = "discovered" /\ q = p => p \in Registered(e)
      BY <2>1, <3>1 DEF PeerInv
    <3>4. \A f \in Engines : Discovering(f, p)' => Discovering(f, p)
      BY <2>2 DEF BrowseEmit, TypeOK, Idle
    <3>5. UNCHANGED <<handle, registry, dial, listing, shown>>
      BY <2>2 DEF BrowseEmit
    <3> HIDE DEF kind, q
    <3> QED
      BY <2>1, <3>1, <3>2, <3>3, <3>4, <3>5, EmitShown
  <2>3. CASE Collect(e)
    <3>1. Vouched(p) => Vouched(p)'
      BY <2>3 DEF Collect, TypeOK
    <3>2. \A f \in Engines : Discovering(f, p)' => (p \in Registered(f))'
      BY <2>1, <2>3 DEF Collect, PeerInv
    <3> QED
      BY <2>1, <2>3, <3>1, <3>2, SameEvents DEF Collect
  <2>4. ASSUME NEW q \in Peers, EvictRemove(e, q)
        PROVE  PeerInv(p)'
    <3>1. Vouched(p) => Vouched(p)'
      BY <2>4 DEF EvictRemove, remove, TypeOK
    <3>2. \A f \in Engines : Discovering(f, p)' => (p \in Registered(f))'
      BY <2>1, <2>4 DEF EvictRemove, remove, PeerInv, TypeOK
    <3> QED
      BY <2>1, <2>4, <3>1, <3>2, SameEvents DEF EvictRemove
  <2>5. ASSUME NEW q \in Peers, EvictEmit(e, q)
        PROVE  PeerInv(p)'
    <3>1. "lost" \in Kinds /\ Emit(e, "lost", q)
      BY <2>5 DEF EvictEmit, Kinds
    <3>2. Vouched(p) => Vouched(p)' \/ (VouchedBy(e, p) /\ q = p)
      BY <2>5 DEF EvictEmit, TypeOK
    <3>3. UNCHANGED <<handle, registry, dial, listing, shown>>
          /\ \A f \in Engines : Discovering(f, p)' => Discovering(f, p)
      BY <2>5 DEF EvictEmit
    <3> QED
      BY <2>1, <3>1, <3>2, <3>3, EmitShown
  <2>6. ASSUME NEW q \in Peers, GrowOld(e, q)
        PROVE  PeerInv(p)'
    <3>1. Vouched(p) => Vouched(p)'
      BY <2>6 DEF GrowOld, TypeOK
    <3>2. \A f \in Engines : Discovering(f, p)' => (p \in Registered(f))'
      BY <2>1, <2>6 DEF GrowOld, PeerInv, TypeOK
    <3> QED
      BY <2>1, <2>6, <3>1, <3>2, SameEvents DEF GrowOld
  <2> QED
    BY <2>2, <2>3, <2>4, <2>5, <2>6 DEF eviction_loop
<1> QED
  BY <1>1, <1>2 DEF ShownInv

\* The interface takes the first event: a loss takes p off the list and out of the
\* answers on their way.
LEMMA HandleShown ==
    ASSUME TypeOK, Handle, NEW p \in Peers, PeerInv(p)
    PROVE  PeerInv(p)'
<1> DEFINE x == Head(events)
           n == Len(events)
<1>1. /\ events' = Tail(events) /\ x = events[1] /\ x \in [kind : Kinds, peer : Peers]
      /\ n \in Nat \ {0} /\ Len(events') = n - 1
      /\ \A i \in 1 .. n - 1 : events'[i] = events[i + 1]
  BY HeadAndTail DEF Handle, TypeOK
<1>2. \A i \in Nat : LossAfter(p, i + 1) => LossAfter(p, i)'
  BY <1>1 DEF LossAfter
<1>3. Vouched(p)' <=> Vouched(p)
  BY DEF Handle, backVars, Vouched, VouchedBy, Registered
<1>4. \A e \in Engines : Discovering(e, p)' => (p \in Registered(e))'
  BY DEF Handle, backVars, PeerInv, Discovering, Registered
<1>5. ASSUME Announced(p)'
      PROVE  Vouched(p)' \/ LossAfter(p, 0)'
  <2>1. CASE x = Event("discovered", p)
    BY <1>1, <1>2, <1>3, <2>1 DEF PeerInv
  <2>2. x # Event("lost", p)
    BY <1>1, <1>5 DEF Handle, Announced, Event, TypeOK
  <2>3. CASE x # Event("discovered", p)
    <3>1. Announced(p)
      <4>1. x.peer # p /\ x.kind \in Kinds
        BY <1>1, <2>2, <2>3 DEF Event, Kinds
      <4>2. CASE x.kind = "discovered"
        <5>1. shown' = [shown EXCEPT ![x.peer] = 1] /\ UNCHANGED <<listing, dial>>
          BY <4>2 DEF Handle, Entered
        <5> QED
          BY <1>5, <4>1, <5>1 DEF Announced, TypeOK
      <4>3. CASE x.kind = "lost"
        <5>1. /\ shown' = [shown EXCEPT ![x.peer] = 0]
              /\ dial' = [dial EXCEPT ![x.peer] = IF @ = "answered" THEN "overtaken" ELSE @]
              /\ listing' = IF listing.at = "answered"
                              THEN [listing EXCEPT !.overtaken = @ \cup {x.peer}] ELSE listing
          BY <4>3 DEF Handle
        <5> QED
          BY <1>5, <4>1, <5>1 DEF Announced, TypeOK
      <4> QED
        BY <4>1, <4>2, <4>3 DEF Kinds
    <3>2. Vouched(p) \/ LossAfter(p, 1)
      BY <1>1, <2>2, <3>1 DEF PeerInv, LossAfter
    <3> QED
      BY <1>2, <1>3, <3>2
  <2> QED
    BY <2>1, <2>3
<1>6. ASSUME NEW i \in 1 .. Len(events'), events'[i] = Event("discovered", p)
      PROVE  Vouched(p)' \/ LossAfter(p, i)'
  <2>1. i + 1 \in 1 .. n /\ events[i + 1] = Event("discovered", p) /\ i \in Nat
    BY <1>1, <1>6
  <2>2. Vouched(p) \/ LossAfter(p, i + 1)
    BY <2>1 DEF PeerInv
  <2> QED
    BY <1>2, <1>3, <2>1, <2>2
<1> QED
  BY <1>4, <1>5, <1>6 DEF PeerInv, Event

LEMMA InterfaceShown ==
    ASSUME TypeOK, ShownInv, Interface
    PROVE  ShownInv'
<1> USE DEF backVars
<1>1. HandleInv' /\ tangled \subseteq tangled'
  <2>1. UNCHANGED <<engine, handle>> /\ tangled \subseteq tangled'
    BY DEF Interface, Subscribe, List, ApplyListing, Handle, ApplyDial
  <2>2. \A p \in Peers : dial'[p] \in {"status", "get"} => dial[p] = dial'[p]
    BY DEF TypeOK, Interface, Subscribe, List, ApplyListing, Handle, ApplyDial
  <2> QED
    BY <2>1, <2>2, HandleKept DEF ShownInv
<1>2. ASSUME NEW p \in Peers \ tangled'
      PROVE  PeerInv(p)'
  <2>1. PeerInv(p)
    BY <1>1 DEF ShownInv
  <2>2. CASE Handle
    BY <2>1, <2>2, HandleShown
  <2>3. CASE Interface /\ ~Handle
    <3>1. UNCHANGED <<events, registry, handle, evict, browse>>
      BY <2>3 DEF Interface, Subscribe, List, ApplyListing, ApplyDial
    <3>2. /\ Vouched(p) => Vouched(p)'
          /\ \A e \in Engines : Discovering(e, p)' => (p \in Registered(e))'
      BY <2>1, <3>1 DEF PeerInv, Vouched, VouchedBy, Discovering, Registered
    <3>3. Announced(p)' => Announced(p) \/ Vouched(p)'
      <4>1. CASE Subscribe
        BY <4>1 DEF Subscribe, Announced
      <4>2. CASE List
        BY <4>2, <3>1 DEF List, Announced, Vouched, VouchedBy, Registered, TypeOK
      <4>3. CASE ApplyListing
        BY <4>3 DEF ApplyListing, Announced, TypeOK
      <4>4. ASSUME NEW q \in Peers, ApplyDial(q)
            PROVE  Announced(p)' => Announced(p)
        BY <4>4 DEF ApplyDial, Announced, TypeOK
      <4> QED
        BY <2>3, <4>1, <4>2, <4>3, <4>4 DEF Interface
    <3> QED
      BY <2>1, <3>1, <3>2, <3>3, SameEvents
  <2> QED
    BY <2>2, <2>3
<1> QED
  BY <1>1, <1>2 DEF ShownInv

LEMMA EngineShown ==
    ASSUME TypeOK, ShownInv, Restart \/ set_app_handle
    PROVE  ShownInv'
<1>1. HandleInv'
  <2>1. CASE Restart
    BY <2>1, DiscoveryAssumption DEF ShownInv, HandleInv, TypeOK, Restart, Engines
  <2>2. CASE set_app_handle
    BY <2>2, DiscoveryAssumption DEF ShownInv, HandleInv, TypeOK, set_app_handle, Engines
  <2> QED
    BY <2>1, <2>2
<1>2. ASSUME NEW p \in Peers \ tangled'
      PROVE  PeerInv(p)'
  <2>1. PeerInv(p) /\ UNCHANGED <<events, registry, browse, evict, shown, listing>>
    BY DEF ShownInv, Restart, set_app_handle, frontVars
  <2>2. /\ Vouched(p) => Vouched(p)'
        /\ \A e \in Engines : Discovering(e, p)' => (p \in Registered(e))'
    BY <2>1 DEF PeerInv, Vouched, VouchedBy, Discovering, Registered, Restart, set_app_handle, TypeOK
  <2>3. Announced(p)' => Announced(p)
    BY <2>1 DEF Announced, Restart, set_app_handle, TypeOK
  <2> QED
    BY <2>1, <2>2, <2>3, SameEvents
<1> QED
  BY <1>1, <1>2 DEF ShownInv

LEMMA ShownStep == TypeOK /\ ShownInv /\ [Next]_vars => ShownInv'
<1> SUFFICES ASSUME TypeOK, ShownInv, [Next]_vars
             PROVE  ShownInv'
  OBVIOUS
<1>1. CASE UNCHANGED vars
  <2>1. HandleInv'
    BY <1>1 DEF ShownInv, HandleInv, vars, backVars
  <2>2. ASSUME NEW p \in Peers \ tangled'
        PROVE  PeerInv(p)'
    BY <1>1, <2>2, SameEvents
    DEF ShownInv, vars, backVars, frontVars, PeerInv, Vouched, VouchedBy, Discovering, Registered, Announced
  <2> QED
    BY <2>1, <2>2 DEF ShownInv
<1> QED
  BY <1>1, NetworkShown, ThreadsShown, InterfaceShown, EngineShown DEF Next

\* A peer in the list of the interface is in the registry of an engine that was
\* started, or a report of its loss will still be handled, unless an answer or
\* an event overtook that report: the list may be late, but it does not keep a
\* peer which nobody knows and nobody will report (ShownIsKnown).
THEOREM ShownKnown == Spec => []ShownIsKnown
<1>1. TypeOK /\ ShownInv => ShownIsKnown
  <2> SUFFICES ASSUME TypeOK, ShownInv, NEW p \in Peers \ tangled, shown[p] > 0
               PROVE  (\E e \in 1 .. engine : p \in Registered(e)) \/ LossOnItsWay(p)
    BY DEF ShownIsKnown
  <2>1. Vouched(p) \/ LossAfter(p, 0)
    BY DEF ShownInv, PeerInv, Announced
  <2>2. CASE LossAfter(p, 0)
    BY <2>2 DEF LossAfter, LossOnItsWay
  <2>3. ASSUME NEW e \in Engines, VouchedBy(e, p)
        PROVE  (\E f \in 1 .. engine : p \in Registered(f)) \/ LossOnItsWay(p)
    <3>1. e \in 1 .. engine
      BY <2>3 DEF ShownInv, HandleInv, VouchedBy, TypeOK, Engines
    <3> QED
      BY <2>3, <3>1 DEF VouchedBy, LossOnItsWay
  <2> QED
    BY <2>1, <2>2, <2>3 DEF Vouched
<1> QED
  BY InitType, TypeStep, InitShown, ShownStep, <1>1, PTL DEF Spec

=============================================================================
