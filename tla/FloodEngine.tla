----------------------------- MODULE FloodEngine ----------------------------
(***************************************************************************)
(* The flood engine of internal/tie (flood.go, originate.go, lsdb.go,      *)
(* scope.go) as operators on the value e of one engine, owned by node n.   *)
(* Flooding runs several engines over links.                               *)
(*                                                                         *)
(* There is one link, hence one interface, between two nodes: an adjacency *)
(* is named by its neighbor.  TIENr is always 1 in the code.  The content  *)
(* of a TIE is a set: the neighbors of a node TIE, the prefixes of a       *)
(* prefix TIE.  A TIE packet carries the full origination lifetime.        *)
(***************************************************************************)
EXTENDS Tie, Sequences, FiniteSets

CONSTANTS
    None,                    \* no LSDB entry
    Nodes,                   \* system IDs
    Level,                   \* node -> level
    TieIDs,                  \* the TIEs that are followed
    DefaultLifetime, LifetimeDiff2Ignore, ReoriginateBeforeExpiry,
    MaxTIDEHeaders           \* headers per TIDE packet

\* What a TIE says: neighbors or prefixes.
Content == (SUBSET Nodes) \cup SUBSET (STRING \cup {DefaultRoute})

\* LSDBEntry: self is SelfOriginated.
Entry == [seq : Nat \ {0}, life : 1..DefaultLifetime, content : Content,
          self : BOOLEAN]

ASSUME EngineConstants ==
    /\ None \notin Entry
    /\ Nodes \subseteq Nat \ {0}
    /\ Level \in [Nodes -> 0..TopOfFabricLevel]
    /\ TieIDs \subseteq TIEID(Nodes) /\ IsFiniteSet(TieIDs)
    /\ DefaultLifetime \in Nat
    /\ ReoriginateBeforeExpiry \in 2..DefaultLifetime
    /\ LifetimeDiff2Ignore \in Nat
    /\ MaxTIDEHeaders \in Nat \ {0}

-----------------------------------------------------------------------------
(* lsdb.go: orders *)

\* CompareTIEID, as "a before b"; ranges use it with MinTIEID and MaxTIEID.
TIEIDLess(a, b) ==
    \/ a.dir < b.dir
    \/ a.dir = b.dir /\ a.orig < b.orig
    \/ a.dir = b.dir /\ a.orig = b.orig /\ a.type < b.type
MinTIEID == [dir |-> South, orig |-> 0, type |-> 0]
MaxTIEID == [dir |-> 3, orig |-> 0, type |-> 0]
InRange(id, tide) == ~TIEIDLess(id, tide.start) /\ ~TIEIDLess(tide.end, id)

Sign(i) == IF i < 0 THEN -1 ELSE IF i > 0 THEN 1 ELSE 0

CompareTIEHeader(a, b) ==
    IF a.seq # b.seq THEN Sign(a.seq - b.seq)
    ELSE IF a.life - b.life \in -LifetimeDiff2Ignore..LifetimeDiff2Ignore
    THEN 0 ELSE Sign(a.life - b.life)

-----------------------------------------------------------------------------
(* The engine's state *)

\* FloodEngine: the LSDB, the adjacencies and each one's queues.  wedged: the
\* goroutine waits for a lock that it holds itself (see tickLifetimes).
Engine == [lsdb : [TieIDs -> {None} \cup Entry], adjacencies : SUBSET Nodes,
           tx : [Nodes -> SUBSET TieIDs], ack : [Nodes -> SUBSET TieIDs],
           req : [Nodes -> SUBSET TieIDs],
           prefixes : SUBSET STRING, wedged : BOOLEAN]

\* NewFloodEngine, for a node with the given local prefixes.
NewEngine(prefixes) ==
    [lsdb |-> [id \in TieIDs |-> None], adjacencies |-> {},
     tx |-> [m \in Nodes |-> {}], ack |-> [m \in Nodes |-> {}],
     req |-> [m \in Nodes |-> {}],
     prefixes |-> prefixes, wedged |-> FALSE]

Held(e) == {id \in TieIDs : e.lsdb[id] # None}
Header(e, id) == [id |-> id, seq |-> e.lsdb[id].seq, life |-> e.lsdb[id].life]

Insert(e, id, entry) == [e EXCEPT !.lsdb[id] = entry]

\* floodTIEToAll and floodTIEToAllExcept: queue ids where the scope permits.
floodTIEs(n, e, ids, except) ==
    [e EXCEPT !.tx = [m \in Nodes |->
        IF m \in e.adjacencies \ except
        THEN @[m] \cup {id \in ids : ShouldFloodTIE(id, n, Level[n], Level[m])}
        ELSE @[m]]]

ackTIE(e, m, id) == [e EXCEPT !.ack[m] = @ \cup {id}]

-----------------------------------------------------------------------------
(* originate.go *)

\* What each of n's own TIEs says now.
SelfContent(n, e, id) ==
    CASE id.dir = North /\ id.type = NodeTIE ->
           {m \in e.adjacencies : Level[m] >= Level[n]}
      [] id.dir = North /\ id.type = PrefixTIE -> e.prefixes
      [] id.dir = South /\ id.type = NodeTIE ->
           {m \in e.adjacencies : Level[m] < Level[n]}
      [] id.dir = South /\ id.type = PrefixTIE -> {DefaultRoute}

\* The TIEs originateSelfTIEs issues: no South TIEs from a leaf, and the
\* disaggregation TIE is issued by OriginatePositiveDisaggTIE alone.
SelfIDs(n) == {id \in TieIDs : /\ id.orig = n
                               /\ id.type \in {NodeTIE, PrefixTIE}
                               /\ id.dir = South => Level[n] > LeafLevel}

\* Mutant: sequence numbers start at zero.
insertSelfOriginated_FromZero(e, id, content) ==
    LET old == e.lsdb[id]
        seqNr == IF old # None /\ old.self THEN old.seq + 1 ELSE 0
    IN  Insert(e, id, [seq |-> seqNr, life |-> DefaultLifetime,
                       content |-> content, self |-> TRUE])

\* Mutant: the sequence number is kept when the content changes.
insertSelfOriginated_KeepsNumber(e, id, content) ==
    LET old == e.lsdb[id]
        seqNr == IF old # None /\ old.self THEN old.seq ELSE 1
    IN  Insert(e, id, [seq |-> seqNr, life |-> DefaultLifetime,
                       content |-> content, self |-> TRUE])

insertSelfOriginated(e, id, content) ==
    LET old == e.lsdb[id]
        seqNr == IF old # None /\ old.self THEN old.seq + 1 ELSE 1
    IN  Insert(e, id, [seq |-> seqNr, life |-> DefaultLifetime,
                       content |-> content, self |-> TRUE])

\* The TIEs have different IDs: the order of the originations is immaterial.
originateSelfTIEs(n, e) ==
    [e EXCEPT !.lsdb = [id \in TieIDs |->
        IF id \in SelfIDs(n)
        THEN insertSelfOriginated(e, id, SelfContent(n, e, id)).lsdb[id]
        ELSE @[id]]]

\* bumpOwnTIE: one more than what this engine issued last, whatever the version
\* it has just met.
bumpOwnTIE(entry) == [entry EXCEPT !.seq = @ + 1, !.life = DefaultLifetime]

\* ... for each of ids.
bumpOwnTIEs(e, ids) ==
    [e EXCEPT !.lsdb = [id \in TieIDs |->
        IF id \in ids /\ @[id] # None /\ @[id].self THEN bumpOwnTIE(@[id])
        ELSE @[id]]]

-----------------------------------------------------------------------------
(* The handlers of Run's select *)

\* Mutant: the own TIEs are flushed with an adjacency, not originated again.
handleAdjChange_DownFlushes(n, e, m, up) ==
    LET g == [e EXCEPT !.adjacencies = IF up THEN @ \cup {m} ELSE @ \ {m},
                       !.tx[m] = {}, !.ack[m] = {}, !.req[m] = {}]
    IN  IF up THEN floodTIEs(n, originateSelfTIEs(n, g), SelfIDs(n), {})
        ELSE [g EXCEPT !.lsdb = [id \in TieIDs |-> IF id \in SelfIDs(n)
                                                   THEN None ELSE @[id]]]

\* handleAdjChange: a new adjacency starts with empty queues.
handleAdjChange(n, e, m, up) ==
    LET g == [e EXCEPT !.adjacencies = IF up THEN @ \cup {m} ELSE @ \ {m},
                       !.tx[m] = {}, !.ack[m] = {}, !.req[m] = {}]
    IN  floodTIEs(n, originateSelfTIEs(n, g), SelfIDs(n), {})

\* handleDisaggUpdate; an empty set withdraws, if there is what to withdraw.
handleDisaggUpdate(n, e, prefixes) ==
    LET id == [dir |-> South, orig |-> n, type |-> PosDisaggTIE]
        old == e.lsdb[id]
    IN  IF prefixes = {} /\ (old = None \/ ~old.self \/ old.content = {})
        THEN e
        ELSE floodTIEs(n, insertSelfOriginated(e, id, prefixes), {id}, {})

\* Mutant: what is received is installed, whatever its version.
handleTIE_AnyVersion(n, e, m, tie) ==
    IF \/ m \notin e.adjacencies \/ tie.id.orig = n
       \/ ~shouldAcceptTIE(tie.id, n, Level[n], Level[m])
    THEN e
    ELSE floodTIEs(n, ackTIE(Insert(e, tie.id,
             [seq |-> tie.seq, life |-> DefaultLifetime,
              content |-> tie.content, self |-> FALSE]), m, tie.id), {tie.id}, {m})

\* handleTIE: the remaining lifetime of the packet's envelope is not used.
handleTIE(n, e, m, tie) ==
    LET id == tie.id
        old == e.lsdb[id]
        rx == [id |-> id, seq |-> tie.seq, life |-> DefaultLifetime]
        cmp == IF old = None THEN 1 ELSE CompareTIEHeader(rx, Header(e, id))
        installed == Insert(e, id, [seq |-> tie.seq, life |-> DefaultLifetime,
                                    content |-> tie.content, self |-> FALSE])
    IN  CASE m \notin e.adjacencies -> e
          [] m \in e.adjacencies /\ cmp > 0 /\ id.orig = n ->
               floodTIEs(n, bumpOwnTIEs(e, {id}), {id}, {})
          [] m \in e.adjacencies /\ cmp > 0 /\ id.orig # n ->
               IF old = None /\ ~shouldAcceptTIE(id, n, Level[n], Level[m]) THEN e
               ELSE floodTIEs(n, ackTIE(installed, m, id), {id}, {m})
          [] m \in e.adjacencies /\ cmp < 0 -> [e EXCEPT !.tx[m] = @ \cup {id}]
          [] OTHER -> ackTIE(e, m, id)

\* Mutant: only the TIEs that both sides know are compared.
handleTIDE_OnlyKnown(n, e, m, tide) ==
    LET known == {h \in tide.headers : e.lsdb[h.id] # None}
        older == {h \in known : CompareTIEHeader(h, Header(e, h.id)) < 0}
        newer == {h \in known : /\ CompareTIEHeader(h, Header(e, h.id)) > 0
                                /\ h.id.orig # n}
    IN  IF m \notin e.adjacencies THEN e
        ELSE [e EXCEPT !.tx[m] = @ \cup {h.id : h \in older},
                       !.req[m] = @ \cup {h.id : h \in newer}]

\* handleTIDE, header by header in the order of the IDs.  An own TIE that is
\* unknown here (it can only be the disaggregation TIE) makes the engine
\* originate: the headers after it are compared with the new versions.
handleTIDE(n, e, m, tide) ==
    LET H == tide.headers
        IDs(S) == {h.id : h \in S}
        unknown == IDs({h \in H : e.lsdb[h.id] = None /\ h.id.orig = n})
        e1 == IF unknown = {} THEN e ELSE originateSelfTIEs(n, e)
        seen(h) == IF \E u \in unknown : TIEIDLess(u, h.id) THEN e1 ELSE e
        Cmp(h) == IF seen(h).lsdb[h.id] = None THEN 1
                  ELSE CompareTIEHeader(h, Header(seen(h), h.id))
        beaten == IDs({h \in H : Cmp(h) > 0 /\ h.id.orig = n}) \ unknown
        wanted == IDs({h \in H : /\ Cmp(h) > 0 /\ h.id.orig # n
                                 /\ shouldAcceptTIE(h.id, n, Level[n], Level[m])})
        older == IDs({h \in H : Cmp(h) < 0})
        equal == IDs({h \in H : Cmp(h) = 0})
        unlisted(g) == {id \in Held(g) \ IDs(H) :
                          /\ InRange(id, tide)
                          /\ ShouldFloodTIE(id, n, Level[n], Level[m])}
        e2 == floodTIEs(n, bumpOwnTIEs(e1, beaten), unknown \cup beaten, {})
    IN  IF m \notin e.adjacencies THEN e
        ELSE [e2 EXCEPT !.req[m] = @ \cup wanted,
                        !.tx[m] = (@ \cup older \cup unlisted(e2)) \ equal]

\* handleTIRE: a header without lifetime is a request, another an ack.
handleTIRE(n, e, m, headers) ==
    LET known == {h \in headers : e.lsdb[h.id] # None}
        Cmp(h) == CompareTIEHeader(h, Header(e, h.id))
        requested == {h.id : h \in {k \in known : k.life = 0 /\ Cmp(k) <= 0}}
        acked == {h.id : h \in {k \in known : k.life # 0 /\ Cmp(k) = 0}}
    IN  IF m \notin e.adjacencies THEN e
        ELSE [e EXCEPT !.tx[m] = (@ \cup requested) \ acked]

handleFloodPacket(n, e, m, pkt) ==
    CASE pkt.kind = "TIE" -> handleTIE(n, e, m, pkt)
      [] pkt.kind = "TIDE" -> handleTIDE(n, e, m, pkt)
      [] pkt.kind = "TIRE" -> handleTIRE(n, e, m, pkt.headers)

\* tickLifetimes.  DecrementLifetimes and Remove release the lock; then
\* ForEachSorted holds it for reading while its callback re-originates: the
\* callback changes the entry in place, and its Insert waits for that reader.
tickLifetimes(e) ==
    LET aged == [id \in TieIDs |->
                   IF e.lsdb[id] = None \/ e.lsdb[id].life <= 1 THEN None
                   ELSE [e.lsdb[id] EXCEPT !.life = @ - 1]]
        due == {id \in TieIDs : /\ aged[id] # None /\ aged[id].self
                                /\ aged[id].life < ReoriginateBeforeExpiry}
        first == CHOOSE id \in due : \A o \in due : ~TIEIDLess(o, id)
        g == [e EXCEPT !.lsdb = aged]
    IN  IF due = {} THEN g
        ELSE [bumpOwnTIEs(g, {first}) EXCEPT !.wedged = TRUE]

-----------------------------------------------------------------------------
(* What the engine sends *)

TIEPacket(e, id) == [kind |-> "TIE", id |-> id, seq |-> e.lsdb[id].seq,
                     content |-> e.lsdb[id].content]
TIREPacket(headers) == [kind |-> "TIRE", headers |-> headers]

\* Put a set of packets into a sequence: map iteration order is not modelled.
AsSeq(S) == CHOOSE s \in [1..Cardinality(S) -> S] :
                \A i, j \in 1..Cardinality(S) : s[i] = s[j] => i = j

\* drainAdjQueues for m: an ack TIRE, a request TIRE, then the queued TIEs.
drainPackets(e, m) ==
    LET acks == {Header(e, id) : id \in e.ack[m] \cap Held(e)}
        reqs == {[id |-> id, seq |-> 0, life |-> 0] : id \in e.req[m]}
        ties == {TIEPacket(e, id) : id \in e.tx[m] \cap Held(e)}
    IN  (IF acks = {} THEN <<>> ELSE <<TIREPacket(acks)>>)
        \o (IF reqs = {} THEN <<>> ELSE <<TIREPacket(reqs)>>)
        \o AsSeq(ties)

drainQueues(e) ==
    [e EXCEPT !.tx = [m \in Nodes |-> IF m \in e.adjacencies THEN {} ELSE @[m]],
              !.ack = [m \in Nodes |-> IF m \in e.adjacencies THEN {} ELSE @[m]],
              !.req = [m \in Nodes |-> IF m \in e.adjacencies THEN {} ELSE @[m]]]

\* The i-th smallest of a set of TIE IDs.
IDsSorted(S) == CHOOSE s \in [1..Cardinality(S) -> S] :
                   \A i, j \in 1..Cardinality(S) : i < j => TIEIDLess(s[i], s[j])

\* buildTIDEChunks over the sorted headers: a chunk starts where the previous
\* one ended, the first at MinTIEID, the last ends at MaxTIEID.
buildTIDEChunks(headers) ==
    LET ids == IDsSorted({h.id : h \in headers})
        total == Cardinality(headers)
        count == IF total = 0 THEN 1
                 ELSE (total + MaxTIDEHeaders - 1) \div MaxTIDEHeaders
        last(k) == ids[k * MaxTIDEHeaders]
        upto(k) == IF k * MaxTIDEHeaders < total THEN k * MaxTIDEHeaders
                   ELSE total
    IN  [k \in 1..count |->
          [kind |-> "TIDE",
           start |-> IF k = 1 THEN MinTIEID ELSE last(k - 1),
           end |-> IF k = count THEN MaxTIEID ELSE last(k),
           headers |-> {h \in headers :
              \E i \in (k - 1) * MaxTIDEHeaders + 1 .. upto(k) : ids[i] = h.id}]]

\* sendTIDEsToAdj
TIDEPackets(n, e, m) ==
    buildTIDEChunks({Header(e, id) : id \in
                       {i \in Held(e) :
                           ShouldIncludeInTIDE(i, n, Level[n], Level[m])}})
=============================================================================
