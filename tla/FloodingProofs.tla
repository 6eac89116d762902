--------------------------- MODULE FloodingProofs ---------------------------
(***************************************************************************)
(* For every fabric, every set of TIEs and any number of disturbances:     *)
(* what the flood engines guarantee of versions, contents and scopes.      *)
(***************************************************************************)
EXTENDS Flooding, TLAPS, FiniteSetTheorems, SequenceTheorems

-----------------------------------------------------------------------------
(* What the handlers of one engine do *)

\* From e to g node n has at most issued own TIEs anew, with higher numbers.
Reissues(n, e, g) ==
    \A id \in TieIDs :
        \/ g.lsdb[id] = e.lsdb[id]
        \/ /\ id.orig = n /\ g.lsdb[id] # None
           /\ g.lsdb[id].self /\ g.lsdb[id].life = DefaultLifetime
           /\ e.lsdb[id] # None => g.lsdb[id].seq > e.lsdb[id].seq

\* Own TIEs, and only these, are marked as such.
MarksOwn(n, e) == \A id \in Held(e) : e.lsdb[id].self <=> id.orig = n

\* A handler leaves the rest of the engine alone.
SameBut(e, g) == g.wedged = e.wedged /\ g.prefixes = e.prefixes

\* What the proofs use of the lifetimes' assumptions.
LEMMA Constants ==
    /\ DefaultLifetime \in 1..DefaultLifetime /\ DefaultLifetime \in Nat
    /\ ReoriginateBeforeExpiry \in Nat /\ ReoriginateBeforeExpiry >= 2
    /\ DefaultLifetime >= 2
BY EngineConstants

\* Sets of nodes, sets of prefixes and the default route are contents.
LEMMA ContentHas ==
    /\ \A S \in SUBSET Nodes : S \in Content
    /\ \A S \in SUBSET STRING : S \in Content
    /\ {DefaultRoute} \in Content
<1> DEFINE N == SUBSET Nodes
           P == SUBSET (STRING \cup {DefaultRoute})
<1>1. \A S \in SUBSET STRING : S \in P
  OBVIOUS
<1>2. {DefaultRoute} \in P
  OBVIOUS
<1>3. Content = N \cup P
  BY Zenon DEF Content
<1>4. ASSUME NEW S \in SUBSET Nodes PROVE S \in N
  OBVIOUS
<1> HIDE DEF N, P
<1> QED
  BY <1>1, <1>2, <1>3, <1>4

\* Two re-originations in a row are one.
LEMMA ReissuesTrans ==
    ASSUME NEW n, NEW e \in Engine, NEW f \in Engine, NEW g \in Engine,
           Reissues(n, e, f), Reissues(n, f, g)
    PROVE  Reissues(n, e, g)
<1> SUFFICES ASSUME NEW id \in TieIDs
             PROVE \/ g.lsdb[id] = e.lsdb[id]
                   \/ /\ id.orig = n /\ g.lsdb[id] # None
                      /\ g.lsdb[id].self /\ g.lsdb[id].life = DefaultLifetime
                      /\ e.lsdb[id] # None => g.lsdb[id].seq > e.lsdb[id].seq
  BY DEF Reissues
<1>1. /\ e.lsdb[id] # None => e.lsdb[id].seq \in Nat
      /\ f.lsdb[id] # None => f.lsdb[id].seq \in Nat
      /\ g.lsdb[id] # None => g.lsdb[id].seq \in Nat
  BY DEF Engine, Entry
<1> QED
  BY <1>1 DEF Reissues

\* floodTIEs only queues: the LSDB and the adjacencies stay as they are.
LEMMA FloodTIEs ==
    ASSUME NEW n, NEW e \in Engine, NEW ids \in SUBSET TieIDs, NEW except
    PROVE  LET g == floodTIEs(n, e, ids, except) IN
           g \in Engine /\ g.lsdb = e.lsdb /\ g.adjacencies = e.adjacencies
           /\ SameBut(e, g)
BY DEF floodTIEs, Engine, SameBut

\* ackTIE only queues an acknowledgement.
LEMMA AckTIE ==
    ASSUME NEW e \in Engine, NEW m, NEW id \in TieIDs
    PROVE  LET g == ackTIE(e, m, id) IN
           g \in Engine /\ g.lsdb = e.lsdb /\ g.adjacencies = e.adjacencies
           /\ SameBut(e, g)
BY DEF ackTIE, Engine, SameBut

\* Insert puts one entry into the LSDB and touches no other.
LEMMA InsertType ==
    ASSUME NEW e \in Engine, NEW id \in TieIDs, NEW entry \in Entry
    PROVE  LET g == Insert(e, id, entry) IN
           /\ g \in Engine /\ g.adjacencies = e.adjacencies /\ SameBut(e, g)
           /\ g.lsdb[id] = entry
           /\ \A o \in TieIDs : o # id => g.lsdb[o] = e.lsdb[o]
BY DEF Insert, Engine, SameBut

\* insertSelfOriginated re-originates one TIE of the node's own.
LEMMA SelfOriginated ==
    ASSUME NEW n \in Nodes, NEW e \in Engine, NEW id \in TieIDs, id.orig = n,
           MarksOwn(n, e), NEW content \in Content
    PROVE  LET g == insertSelfOriginated(e, id, content) IN
           /\ g \in Engine /\ g.adjacencies = e.adjacencies /\ SameBut(e, g)
           /\ Reissues(n, e, g)
<1> DEFINE old == e.lsdb[id]
           seqNr == IF old # None /\ old.self THEN old.seq + 1 ELSE 1
           entry == [seq |-> seqNr, life |-> DefaultLifetime,
                     content |-> content, self |-> TRUE]
<1>1. old # None => old.seq \in Nat \ {0} /\ old.self
  BY DEF Engine, Entry, MarksOwn, Held
<1>2. seqNr \in Nat \ {0} /\ (old # None => seqNr > old.seq)
  BY <1>1
<1>3. entry \in Entry
  BY <1>2, Constants DEF Entry
<1>4. insertSelfOriginated(e, id, content) = Insert(e, id, entry)
  BY DEF insertSelfOriginated
<1> HIDE DEF seqNr
<1>5. entry # None /\ entry.self /\ entry.life = DefaultLifetime
      /\ entry.seq = seqNr
  BY <1>3, EngineConstants
<1> HIDE DEF entry
<1> QED
  BY <1>2, <1>3, <1>4, <1>5, InsertType DEF Reissues

\* A bumped TIE has a higher number, the same content and a full lifetime.
LEMMA BumpOwnTIE ==
    ASSUME NEW entry \in Entry
    PROVE  LET new == bumpOwnTIE(entry) IN
           /\ new \in Entry /\ new.self = entry.self
           /\ new.content = entry.content
           /\ new.life = DefaultLifetime /\ new.seq > entry.seq
<1>1. entry.seq + 1 \in Nat \ {0} /\ entry.seq + 1 > entry.seq
  BY DEF Entry
<1>2. entry.content \in Content /\ entry.self \in BOOLEAN
  BY DEF Entry
<1>3. /\ bumpOwnTIE(entry).self = entry.self
      /\ bumpOwnTIE(entry).content = entry.content
      /\ bumpOwnTIE(entry).life = DefaultLifetime
      /\ bumpOwnTIE(entry).seq = entry.seq + 1
  BY DEF bumpOwnTIE, Entry
<1>4. bumpOwnTIE(entry) \in Entry
  BY <1>1, Constants DEF bumpOwnTIE, Entry
<1> QED
  BY <1>1, <1>3, <1>4

\* Bumping re-originates the node's own TIEs, and creates none.
LEMMA BumpOwnTIEs ==
    ASSUME NEW n \in Nodes, NEW e \in Engine, MarksOwn(n, e), NEW ids
    PROVE  LET g == bumpOwnTIEs(e, ids) IN
           /\ g \in Engine /\ g.adjacencies = e.adjacencies /\ SameBut(e, g)
           /\ Reissues(n, e, g)
           /\ \A id \in TieIDs : e.lsdb[id] = None => g.lsdb[id] = None
<1> DEFINE new(id) == IF id \in ids /\ e.lsdb[id] # None /\ e.lsdb[id].self
                      THEN bumpOwnTIE(e.lsdb[id]) ELSE e.lsdb[id]
<1>1. bumpOwnTIEs(e, ids) = [e EXCEPT !.lsdb = [id \in TieIDs |-> new(id)]]
  BY DEF bumpOwnTIEs
<1>2. \A id \in TieIDs :
        /\ new(id) \in {None} \cup Entry
        /\ \/ new(id) = e.lsdb[id]
           \/ /\ id.orig = n /\ new(id) # None
              /\ new(id).self /\ new(id).life = DefaultLifetime
              /\ e.lsdb[id] # None /\ new(id).seq > e.lsdb[id].seq
  <2> TAKE id \in TieIDs
  <2>1. CASE id \in ids /\ e.lsdb[id] # None /\ e.lsdb[id].self
    <3>1. e.lsdb[id] \in Entry /\ id.orig = n
      BY <2>1 DEF Engine, MarksOwn, Held
    <3>2. /\ new(id) \in Entry /\ new(id).self
          /\ new(id).life = DefaultLifetime /\ new(id).seq > e.lsdb[id].seq
      BY <2>1, <3>1, BumpOwnTIE
    <3> QED
      BY <2>1, <3>1, <3>2, EngineConstants
  <2>2. CASE ~(id \in ids /\ e.lsdb[id] # None /\ e.lsdb[id].self)
    BY <2>2 DEF Engine
  <2> QED
    BY <2>1, <2>2
<1> HIDE DEF new
<1> QED
  BY <1>1, <1>2 DEF Engine, SameBut, Reissues

\* originateSelfTIEs re-originates, and touches no TIE of another node.
LEMMA OriginateSelfTIEs ==
    ASSUME NEW n \in Nodes, NEW e \in Engine, MarksOwn(n, e)
    PROVE  LET g == originateSelfTIEs(n, e) IN
           /\ g \in Engine /\ g.adjacencies = e.adjacencies /\ SameBut(e, g)
           /\ Reissues(n, e, g)
<1> DEFINE new(id) == IF id \in SelfIDs(n)
              THEN insertSelfOriginated(e, id, SelfContent(n, e, id)).lsdb[id]
              ELSE e.lsdb[id]
<1>1. originateSelfTIEs(n, e) = [e EXCEPT !.lsdb = [id \in TieIDs |-> new(id)]]
  BY DEF originateSelfTIEs
<1>2. \A id \in TieIDs :
        /\ new(id) \in {None} \cup Entry
        /\ \/ new(id) = e.lsdb[id]
           \/ /\ id.orig = n /\ new(id) # None
              /\ new(id).self /\ new(id).life = DefaultLifetime
              /\ e.lsdb[id] # None => new(id).seq > e.lsdb[id].seq
  <2> TAKE id \in TieIDs
  <2>1. CASE id \in SelfIDs(n)
    <3>1. id.orig = n /\ id.type \in {NodeTIE, PrefixTIE} /\ id.dir \in {North, South}
      BY <2>1, EngineConstants DEF SelfIDs, TIEID
    <3>2. SelfContent(n, e, id) \in Content
      <4>1. e.adjacencies \subseteq Nodes /\ e.prefixes \subseteq STRING
        BY DEF Engine
      <4>2. /\ {m \in e.adjacencies : Level[m] >= Level[n]} \in Content
            /\ {m \in e.adjacencies : Level[m] < Level[n]} \in Content
            /\ e.prefixes \in Content /\ {DefaultRoute} \in Content
        BY <4>1, ContentHas
      <4> QED
        BY <3>1, <4>2 DEF SelfContent, North, South, NodeTIE, PrefixTIE
    <3> DEFINE g == insertSelfOriginated(e, id, SelfContent(n, e, id))
    <3>3. g \in Engine /\ Reissues(n, e, g)
      BY <3>1, <3>2, SelfOriginated
    <3>4. new(id) = g.lsdb[id]
      BY <2>1
    <3> HIDE DEF g
    <3> QED
      BY <3>3, <3>4 DEF Engine, Reissues
  <2>2. CASE id \notin SelfIDs(n)
    BY <2>2 DEF Engine
  <2> QED
    BY <2>1, <2>2
<1> HIDE DEF new
<1> QED
  BY <1>1, <1>2 DEF Engine, SameBut, Reissues

\* After a re-origination the self flag still marks exactly the node's own TIEs.
LEMMA MarksOwnKept ==
    ASSUME NEW n \in Nodes, NEW e \in Engine, NEW g \in Engine,
           MarksOwn(n, e), Reissues(n, e, g)
    PROVE  MarksOwn(n, g)
BY DEF MarksOwn, Reissues, Held

\* An adjacency change re-originates and adds or removes that one neighbor.
LEMMA HandleAdjChange ==
    ASSUME NEW n \in Nodes, NEW e \in Engine, MarksOwn(n, e), NEW m \in Nodes,
           NEW up
    PROVE  LET g == handleAdjChange(n, e, m, up) IN
           /\ g \in Engine /\ SameBut(e, g) /\ Reissues(n, e, g)
           /\ up => g.adjacencies = e.adjacencies \cup {m}
           /\ ~up => g.adjacencies = e.adjacencies \ {m}
<1> DEFINE f == [e EXCEPT !.adjacencies = IF up THEN @ \cup {m} ELSE @ \ {m},
                          !.tx[m] = {}, !.ack[m] = {}, !.req[m] = {}]
<1>1. /\ f \in Engine /\ f.lsdb = e.lsdb /\ SameBut(e, f)
      /\ f.adjacencies = IF up THEN e.adjacencies \cup {m}
                         ELSE e.adjacencies \ {m}
  BY DEF Engine, SameBut
<1>2. MarksOwn(n, f)
  BY <1>1 DEF MarksOwn, Held
<1> HIDE DEF f
<1>3. SelfIDs(n) \in SUBSET TieIDs
  BY DEF SelfIDs
<1>4. handleAdjChange(n, e, m, up)
        = floodTIEs(n, originateSelfTIEs(n, f), SelfIDs(n), {})
  BY DEF handleAdjChange, f
<1> QED
  BY <1>1, <1>2, <1>3, <1>4, OriginateSelfTIEs, FloodTIEs DEF Reissues, SameBut

\* A disaggregation update re-originates, and only the node's own TIEs.
LEMMA HandleDisaggUpdate ==
    ASSUME NEW n \in Nodes, NEW e \in Engine, MarksOwn(n, e),
           NEW prefixes \in SUBSET STRING,
           [dir |-> South, orig |-> n, type |-> PosDisaggTIE] \in TieIDs
    PROVE  LET g == handleDisaggUpdate(n, e, prefixes) IN
           /\ g \in Engine /\ g.adjacencies = e.adjacencies /\ SameBut(e, g)
           /\ Reissues(n, e, g)
<1> DEFINE id == [dir |-> South, orig |-> n, type |-> PosDisaggTIE]
           f == insertSelfOriginated(e, id, prefixes)
<1>1. prefixes \in Content /\ id.orig = n /\ id \in TieIDs
  BY ContentHas
<1>2. \/ handleDisaggUpdate(n, e, prefixes) = e
      \/ handleDisaggUpdate(n, e, prefixes) = floodTIEs(n, f, {id}, {})
  BY DEF handleDisaggUpdate
<1> HIDE DEF id
<1>3. /\ f \in Engine /\ f.adjacencies = e.adjacencies /\ SameBut(e, f)
      /\ Reissues(n, e, f)
  BY <1>1, SelfOriginated
<1> HIDE DEF f
<1> QED
  BY <1>1, <1>2, <1>3, FloodTIEs DEF Reissues, SameBut

-----------------------------------------------------------------------------
(* Packets, and the engine that receives one *)

\* The headers and the three kinds of packets a link can carry.
HeaderType == [id : TieIDs, seq : Nat, life : Int]
TIEType == [kind : {"TIE"}, id : TieIDs, seq : Nat \ {0}, content : Content]

\* The ends of a TIDE's range: safety does not depend on them.
RangeEnds == {MinTIEID, MaxTIEID}
             \cup UNION {{IDsSorted(S)[i] : i \in Nat} : S \in SUBSET TieIDs}
TIDEType == [kind : {"TIDE"}, start : RangeEnds, end : RangeEnds,
             headers : SUBSET HeaderType]
TIREType == [kind : {"TIRE"}, headers : SUBSET HeaderType]
Packet == TIEType \cup TIDEType \cup TIREType

\* A packet's kind tells its shape.
LEMMA PacketKinds ==
    ASSUME NEW p \in Packet
    PROVE  /\ p.kind \in {"TIE", "TIDE", "TIRE"}
           /\ p.kind = "TIE" <=> p \in TIEType
           /\ p.kind = "TIDE" <=> p \in TIDEType
           /\ p.kind = "TIRE" <=> p \in TIREType
BY DEF Packet, TIEType, TIDEType, TIREType

\* g is e with tie installed at node n, as neighbor m has sent it.
Installs(n, e, g, m, tie) ==
    /\ tie.id.orig # n /\ m \in e.adjacencies
    /\ g.lsdb[tie.id] = [seq |-> tie.seq, life |-> DefaultLifetime,
                         content |-> tie.content, self |-> FALSE]
    /\ \A o \in TieIDs : o # tie.id => g.lsdb[o] = e.lsdb[o]
    /\ e.lsdb[tie.id] = None => shouldAcceptTIE(tie.id, n, Level[n], Level[m])
    /\ e.lsdb[tie.id] # None => tie.seq >= e.lsdb[tie.id].seq

\* A header that compares as newer does not have a lower number.
LEMMA NewerHeader ==
    ASSUME NEW a, NEW b, a.seq \in Nat, b.seq \in Nat, CompareTIEHeader(a, b) > 0
    PROVE  a.seq >= b.seq
<1>1. CASE a.seq # b.seq
  <2>1. a.seq - b.seq \in Int /\ Sign(a.seq - b.seq) > 0
    BY <1>1 DEF CompareTIEHeader
  <2> QED
    BY <2>1 DEF Sign
<1>2. CASE a.seq = b.seq
  BY <1>2
<1> QED
  BY <1>1, <1>2

\* handleTIE re-originates, or installs the TIE it received, and nothing else.
LEMMA HandleTIE ==
    ASSUME NEW n \in Nodes, NEW e \in Engine, MarksOwn(n, e), NEW m \in Nodes,
           NEW tie \in TIEType
    PROVE  LET g == handleTIE(n, e, m, tie) IN
           /\ g \in Engine /\ g.adjacencies = e.adjacencies /\ SameBut(e, g)
           /\ Reissues(n, e, g) \/ Installs(n, e, g, m, tie)
<1> DEFINE id == tie.id
           old == e.lsdb[id]
           rx == [id |-> id, seq |-> tie.seq, life |-> DefaultLifetime]
           cmp == IF old = None THEN 1 ELSE CompareTIEHeader(rx, Header(e, id))
           entry == [seq |-> tie.seq, life |-> DefaultLifetime,
                     content |-> tie.content, self |-> FALSE]
           inst == Insert(e, id, entry)
           g == handleTIE(n, e, m, tie)
<1>1. id \in TieIDs /\ entry \in Entry /\ tie.seq \in Nat
  BY Constants DEF TIEType, Entry
<1>2. /\ \/ g = e
         \/ g = floodTIEs(n, bumpOwnTIEs(e, {id}), {id}, {})
         \/ g = [e EXCEPT !.tx[m] = @ \cup {id}]
         \/ g = ackTIE(e, m, id)
         \/ /\ cmp > 0 /\ id.orig # n /\ m \in e.adjacencies
            /\ old = None => shouldAcceptTIE(id, n, Level[n], Level[m])
            /\ g = floodTIEs(n, ackTIE(inst, m, id), {id}, {m})
  BY DEF handleTIE
<1>3. CASE g = e
  BY <1>3 DEF Reissues, SameBut
<1>4. CASE g = floodTIEs(n, bumpOwnTIEs(e, {id}), {id}, {})
  BY <1>1, <1>4, BumpOwnTIEs, FloodTIEs DEF Reissues, SameBut
<1>5. CASE g = [e EXCEPT !.tx[m] = @ \cup {id}]
  <2> HIDE DEF g
  <2>1. g \in Engine /\ g.lsdb = e.lsdb /\ g.adjacencies = e.adjacencies
        /\ SameBut(e, g)
    BY <1>1, <1>5 DEF SameBut, Engine
  <2> QED
    BY <2>1 DEF Reissues, g
<1>6. CASE g = ackTIE(e, m, id)
  BY <1>1, <1>6, AckTIE DEF Reissues, SameBut
<1>7. CASE /\ cmp > 0 /\ id.orig # n /\ m \in e.adjacencies
           /\ old = None => shouldAcceptTIE(id, n, Level[n], Level[m])
           /\ g = floodTIEs(n, ackTIE(inst, m, id), {id}, {m})
  <2>1. old # None => tie.seq >= old.seq
    <3> SUFFICES ASSUME old # None PROVE tie.seq >= old.seq
      OBVIOUS
    <3>1. old.seq \in Nat
      BY <1>1 DEF Engine, Entry
    <3>2. Header(e, id).seq = old.seq /\ rx.seq = tie.seq
      BY DEF Header
    <3> QED
      BY <1>1, <1>7, <3>1, <3>2, NewerHeader
  <2> HIDE DEF cmp, rx, entry
  <2>2. /\ inst \in Engine /\ inst.adjacencies = e.adjacencies /\ SameBut(e, inst)
        /\ inst.lsdb[id] = entry
        /\ \A o \in TieIDs : o # id => inst.lsdb[o] = e.lsdb[o]
    BY <1>1, InsertType
  <2> HIDE DEF inst
  <2>3. /\ g \in Engine /\ g.adjacencies = e.adjacencies /\ SameBut(e, g)
        /\ g.lsdb = inst.lsdb
    BY <1>1, <1>7, <2>2, AckTIE, FloodTIEs DEF SameBut
  <2>4. g.lsdb[id] = [seq |-> tie.seq, life |-> DefaultLifetime,
                      content |-> tie.content, self |-> FALSE]
    BY <2>2, <2>3 DEF entry
  <2> HIDE DEF g
  <2> QED
    BY <1>7, <2>1, <2>2, <2>3, <2>4 DEF Installs, g
<1> QED
  BY <1>2, <1>3, <1>4, <1>5, <1>6, <1>7

\* handleTIDE re-originates at most: it installs nothing from headers.
LEMMA HandleTIDE ==
    ASSUME NEW n \in Nodes, NEW e \in Engine, MarksOwn(n, e), NEW m \in Nodes,
           NEW tide \in TIDEType
    PROVE  LET g == handleTIDE(n, e, m, tide) IN
           /\ g \in Engine /\ g.adjacencies = e.adjacencies /\ SameBut(e, g)
           /\ Reissues(n, e, g)
<1> DEFINE H == tide.headers
           IDs(S) == {h.id : h \in S}
           unknown == IDs({h \in H : e.lsdb[h.id] = None /\ h.id.orig = n})
           e1 == IF unknown = {} THEN e ELSE originateSelfTIEs(n, e)
           seen(h) == IF \E u \in unknown : TIEIDLess(u, h.id) THEN e1 ELSE e
           Cmp(h) == IF seen(h).lsdb[h.id] = None THEN 1
                     ELSE CompareTIEHeader(h, Header(seen(h), h.id))
           beaten == IDs({h \in H : Cmp(h) > 0 /\ h.id.orig = n}) \ unknown
           wanted == IDs({h \in H : /\ Cmp(h) > 0 /\ h.id.orig # n
                           /\ shouldAcceptTIE(h.id, n, Level[n], Level[m])})
           older == IDs({h \in H : Cmp(h) < 0})
           equal == IDs({h \in H : Cmp(h) = 0})
           unlisted(g) == {id \in Held(g) \ IDs(H) :
                             /\ InRange(id, tide)
                             /\ ShouldFloodTIE(id, n, Level[n], Level[m])}
           e2 == floodTIEs(n, bumpOwnTIEs(e1, beaten), unknown \cup beaten, {})
           e3 == [e2 EXCEPT !.req[m] = @ \cup wanted,
                            !.tx[m] = (@ \cup older \cup unlisted(e2)) \ equal]
<1>1. handleTIDE(n, e, m, tide) = IF m \notin e.adjacencies THEN e ELSE e3
  BY DEF handleTIDE
<1>2. \A h \in H : h.id \in TieIDs
  BY DEF TIDEType, HeaderType
<1> HIDE DEF H
<1>3. e1 \in Engine /\ e1.adjacencies = e.adjacencies /\ SameBut(e, e1)
      /\ Reissues(n, e, e1)
  <2>1. CASE unknown = {}
    BY <2>1 DEF Reissues, SameBut
  <2>2. CASE unknown # {}
    BY <2>2, OriginateSelfTIEs
  <2> QED
    BY <2>1, <2>2
<1>4. MarksOwn(n, e1)
  BY <1>3, MarksOwnKept
<1> HIDE DEF e1, Cmp
<1>5. unknown \in SUBSET TieIDs /\ beaten \in SUBSET TieIDs
      /\ wanted \in SUBSET TieIDs /\ older \in SUBSET TieIDs
  BY <1>2
<1> HIDE DEF unknown, beaten, wanted, older, equal
<1>6. /\ e2 \in Engine /\ e2.adjacencies = e.adjacencies /\ SameBut(e, e2)
      /\ Reissues(n, e, e2)
  <2> DEFINE f == bumpOwnTIEs(e1, beaten)
  <2>1. f \in Engine /\ f.adjacencies = e1.adjacencies /\ SameBut(e1, f)
        /\ Reissues(n, e1, f)
    BY <1>3, <1>4, BumpOwnTIEs
  <2>2. Reissues(n, e, f)
    BY <1>3, <2>1, ReissuesTrans
  <2> HIDE DEF f
  <2>3. e2 \in Engine /\ e2.lsdb = f.lsdb /\ e2.adjacencies = f.adjacencies
        /\ SameBut(f, e2)
    BY <1>5, <2>1, FloodTIEs DEF f
  <2> HIDE DEF e2
  <2> QED
    BY <1>3, <2>1, <2>2, <2>3 DEF Reissues, SameBut
<1> HIDE DEF e2
<1>7. unlisted(e2) \in SUBSET TieIDs
  BY DEF Held
<1> HIDE DEF unlisted
<1>8. e3 \in Engine /\ e3.lsdb = e2.lsdb /\ e3.adjacencies = e2.adjacencies
      /\ SameBut(e2, e3)
  BY <1>5, <1>6, <1>7 DEF Engine, SameBut
<1> HIDE DEF e3
<1> QED
  BY <1>1, <1>6, <1>8 DEF Reissues, SameBut

\* handleTIRE only queues and unqueues.
LEMMA HandleTIRE ==
    ASSUME NEW n \in Nodes, NEW e \in Engine, NEW m \in Nodes,
           NEW headers \in SUBSET HeaderType
    PROVE  LET g == handleTIRE(n, e, m, headers) IN
           /\ g \in Engine /\ g.adjacencies = e.adjacencies /\ SameBut(e, g)
           /\ g.lsdb = e.lsdb
<1> DEFINE known == {h \in headers : e.lsdb[h.id] # None}
           Cmp(h) == CompareTIEHeader(h, Header(e, h.id))
           requested == {h.id : h \in {k \in known : k.life = 0 /\ Cmp(k) <= 0}}
           acked == {h.id : h \in {k \in known : k.life # 0 /\ Cmp(k) = 0}}
           f == [e EXCEPT !.tx[m] = (@ \cup requested) \ acked]
<1>1. handleTIRE(n, e, m, headers) = IF m \notin e.adjacencies THEN e ELSE f
  BY DEF handleTIRE
<1> HIDE DEF Cmp
<1>2. requested \in SUBSET TieIDs
  BY DEF HeaderType
<1> HIDE DEF requested, acked
<1>3. f \in Engine /\ f.lsdb = e.lsdb /\ f.adjacencies = e.adjacencies
      /\ SameBut(e, f)
  BY <1>2 DEF Engine, SameBut
<1> QED
  BY <1>1, <1>3 DEF SameBut

\* Whatever arrives, an engine at most issues own TIEs anew or installs the TIE
\* of the packet.
LEMMA HandleFloodPacket ==
    ASSUME NEW n \in Nodes, NEW e \in Engine, MarksOwn(n, e), NEW m \in Nodes,
           NEW pkt \in Packet
    PROVE  LET g == handleFloodPacket(n, e, m, pkt) IN
           /\ g \in Engine /\ g.adjacencies = e.adjacencies /\ SameBut(e, g)
           /\ \/ Reissues(n, e, g)
              \/ pkt.kind = "TIE" /\ Installs(n, e, g, m, pkt)
<1>1. CASE pkt.kind = "TIE"
  <2>1. pkt \in TIEType /\ handleFloodPacket(n, e, m, pkt) = handleTIE(n, e, m, pkt)
    BY <1>1, PacketKinds DEF handleFloodPacket
  <2> QED
    BY <1>1, <2>1, HandleTIE
<1>2. CASE pkt.kind = "TIDE"
  <2>1. pkt \in TIDEType /\ handleFloodPacket(n, e, m, pkt) = handleTIDE(n, e, m, pkt)
    BY <1>2, PacketKinds DEF handleFloodPacket
  <2> QED
    BY <2>1, HandleTIDE
<1>3. CASE pkt.kind = "TIRE"
  <2>1. /\ pkt.headers \in SUBSET HeaderType
        /\ handleFloodPacket(n, e, m, pkt) = handleTIRE(n, e, m, pkt.headers)
    BY <1>3, PacketKinds DEF handleFloodPacket, TIREType
  <2> QED
    BY <2>1, HandleTIRE DEF Reissues
<1> QED
  BY <1>1, <1>2, <1>3, PacketKinds

-----------------------------------------------------------------------------
(* Ageing, and what an engine sends *)

\* As long as the engine runs its own TIEs do not run out.
OwnAlive(n, e) ==
    ~e.wedged => \A id \in Held(e) : id.orig = n => e.lsdb[id].life >= 2

\* Ageing never loses a TIE of the node's own, and changes no other node's content.
LEMMA TickLifetimesStep ==
    ASSUME NEW n \in Nodes, NEW e \in Engine, MarksOwn(n, e), OwnAlive(n, e),
           ~e.wedged
    PROVE  LET g == tickLifetimes(e) IN
           /\ g \in Engine /\ g.adjacencies = e.adjacencies
           /\ MarksOwn(n, g) /\ OwnAlive(n, g)
           /\ \A id \in TieIDs :
                /\ id.orig = n /\ e.lsdb[id] # None => g.lsdb[id] # None
                /\ g.lsdb[id] # None =>
                     /\ e.lsdb[id] # None
                     /\ \/ id.orig = n /\ g.lsdb[id].seq > e.lsdb[id].seq
                        \/ /\ g.lsdb[id].seq = e.lsdb[id].seq
                           /\ g.lsdb[id].content = e.lsdb[id].content
<1> DEFINE aged == [id \in TieIDs |->
                      IF e.lsdb[id] = None \/ e.lsdb[id].life <= 1 THEN None
                      ELSE [e.lsdb[id] EXCEPT !.life = @ - 1]]
           due == {id \in TieIDs : /\ aged[id] # None /\ aged[id].self
                                   /\ aged[id].life < ReoriginateBeforeExpiry}
           first == CHOOSE id \in due : \A o \in due : ~TIEIDLess(o, id)
           f == [e EXCEPT !.lsdb = aged]
           b == bumpOwnTIEs(f, {first})
<1>1. tickLifetimes(e) = IF due = {} THEN f ELSE [b EXCEPT !.wedged = TRUE]
  BY DEF tickLifetimes
<1>2. \A id \in TieIDs : e.lsdb[id] # None =>
        /\ e.lsdb[id] \in Entry /\ (e.lsdb[id].self <=> id.orig = n)
        /\ id.orig = n => e.lsdb[id].life >= 2
  BY DEF Engine, MarksOwn, OwnAlive, Held
<1>3. \A id \in TieIDs :
        \/ aged[id] = None /\ (e.lsdb[id] = None \/ id.orig # n)
        \/ /\ e.lsdb[id] # None /\ aged[id] \in Entry /\ aged[id] # None
           /\ aged[id].seq = e.lsdb[id].seq
           /\ aged[id].content = e.lsdb[id].content
           /\ aged[id].self = e.lsdb[id].self
  <2> TAKE id \in TieIDs
  <2>1. CASE e.lsdb[id] = None
    BY <2>1
  <2>2. CASE e.lsdb[id] # None /\ e.lsdb[id].life <= 1
    BY <1>2, <2>2 DEF Entry
  <2>3. CASE e.lsdb[id] # None /\ ~(e.lsdb[id].life <= 1)
    <3>1. e.lsdb[id] \in Entry /\ e.lsdb[id].life - 1 \in 1..DefaultLifetime
      BY <1>2, <2>3, Constants DEF Entry
    <3>2. aged[id] = [e.lsdb[id] EXCEPT !.life = @ - 1]
      BY <2>3
    <3>3. aged[id] \in Entry
      BY <3>1, <3>2 DEF Entry
    <3>4. /\ aged[id].seq = e.lsdb[id].seq
          /\ aged[id].content = e.lsdb[id].content
          /\ aged[id].self = e.lsdb[id].self
      BY <3>1, <3>2 DEF Entry
    <3> QED
      BY <2>3, <3>3, <3>4, EngineConstants
  <2> QED
    BY <2>1, <2>2, <2>3
<1>4. aged \in [TieIDs -> {None} \cup Entry]
  BY <1>3
<1> HIDE DEF aged
<1>5. f \in Engine /\ f.lsdb = aged /\ f.adjacencies = e.adjacencies
  BY <1>4 DEF Engine
<1> HIDE DEF f
<1>6. MarksOwn(n, f)
  BY <1>2, <1>3, <1>5 DEF MarksOwn, Held
<1>7. CASE due = {}
  <2>1. \A id \in TieIDs : aged[id] # None /\ id.orig = n => aged[id].life >= 2
    <3> SUFFICES ASSUME NEW id \in TieIDs, aged[id] # None, id.orig = n
                 PROVE  aged[id].life >= 2
      OBVIOUS
    <3>1. aged[id].self /\ aged[id].life \in Int
      BY <1>2, <1>3, EngineConstants DEF Entry
    <3> QED
      BY <1>7, <3>1, Constants
  <2>2. OwnAlive(n, f)
    BY <1>5, <2>1 DEF OwnAlive, Held
  <2> QED
    BY <1>1, <1>3, <1>5, <1>6, <1>7, <2>2
<1>8. CASE due # {}
  <2> DEFINE g == [b EXCEPT !.wedged = TRUE]
  <2>1. /\ b \in Engine /\ b.adjacencies = f.adjacencies /\ Reissues(n, f, b)
        /\ \A id \in TieIDs : f.lsdb[id] = None => b.lsdb[id] = None
    BY <1>5, <1>6, BumpOwnTIEs
  <2>2. MarksOwn(n, b)
    BY <1>5, <1>6, <2>1, MarksOwnKept
  <2> HIDE DEF b
  <2>3. g \in Engine /\ g.lsdb = b.lsdb /\ g.adjacencies = b.adjacencies /\ g.wedged
    BY <2>1 DEF Engine
  <2>4. MarksOwn(n, g) /\ OwnAlive(n, g)
    BY <2>2, <2>3 DEF MarksOwn, OwnAlive, Held
  <2> HIDE DEF g
  <2>5. \A id \in TieIDs :
          /\ id.orig = n /\ e.lsdb[id] # None => g.lsdb[id] # None
          /\ g.lsdb[id] # None =>
               /\ e.lsdb[id] # None
               /\ \/ id.orig = n /\ g.lsdb[id].seq > e.lsdb[id].seq
                  \/ /\ g.lsdb[id].seq = e.lsdb[id].seq
                     /\ g.lsdb[id].content = e.lsdb[id].content
    <3> SUFFICES ASSUME NEW id \in TieIDs
                 PROVE  /\ id.orig = n /\ e.lsdb[id] # None => g.lsdb[id] # None
                        /\ g.lsdb[id] # None =>
                             /\ e.lsdb[id] # None
                             /\ \/ id.orig = n /\ g.lsdb[id].seq > e.lsdb[id].seq
                                \/ /\ g.lsdb[id].seq = e.lsdb[id].seq
                                   /\ g.lsdb[id].content = e.lsdb[id].content
      OBVIOUS
    <3>1. \/ g.lsdb[id] = aged[id]
          \/ /\ aged[id] # None /\ id.orig = n /\ g.lsdb[id] # None
             /\ g.lsdb[id].seq > aged[id].seq
      <4>1. g.lsdb[id] = b.lsdb[id] /\ f.lsdb[id] = aged[id]
        BY <1>5, <2>3
      <4>2. f.lsdb[id] = None => b.lsdb[id] = None
        BY <2>1
      <4>3. \/ b.lsdb[id] = f.lsdb[id]
            \/ /\ id.orig = n /\ b.lsdb[id] # None
               /\ f.lsdb[id] # None => b.lsdb[id].seq > f.lsdb[id].seq
        BY <2>1, Zenon DEF Reissues
      <4> QED
        BY <4>1, <4>2, <4>3
    <3> QED
      BY <1>3, <3>1
  <2> QED
    BY <1>1, <1>5, <1>8, <2>1, <2>3, <2>4, <2>5 DEF g
<1> QED
  BY <1>7, <1>8

\* Draining empties queues and leaves the LSDB as it is.
LEMMA DrainQueuesStep ==
    ASSUME NEW e \in Engine
    PROVE  LET g == drainQueues(e) IN
           g \in Engine /\ g.lsdb = e.lsdb /\ g.adjacencies = e.adjacencies
           /\ SameBut(e, g)
BY DEF drainQueues, Engine, SameBut

\* AsSeq puts every element of a finite set into the sequence, and nothing else.
LEMMA AsSeqType ==
    ASSUME NEW S, IsFiniteSet(S)
    PROVE  AsSeq(S) \in Seq(S)
<1>1. Cardinality(S) \in Nat /\ ExistsBijection(1..Cardinality(S), S)
  BY FS_CardinalityType
<1>2. \E s \in [1..Cardinality(S) -> S] :
        \A i, j \in 1..Cardinality(S) : s[i] = s[j] => i = j
  BY <1>1 DEF ExistsBijection, Bijection, Injection, IsInjective
<1>3. AsSeq(S) \in [1..Cardinality(S) -> S]
  BY <1>2 DEF AsSeq
<1> QED
  BY <1>1, <1>3

\* The TIEs that engine e can send, each as it holds it.
TIEsOf(e) == {TIEPacket(e, id) : id \in Held(e)}

\* The TIEs a node can send are TIE packets.
LEMMA TIEsOfType ==
    ASSUME NEW e \in Engine
    PROVE  TIEsOf(e) \subseteq TIEType
BY DEF TIEsOf, TIEPacket, TIEType, Held, Engine, Entry

\* The header of a TIE held is a header.
LEMMA HeaderIsTyped ==
    ASSUME NEW e \in Engine, NEW id \in Held(e)
    PROVE  Header(e, id) \in HeaderType
<1>1. id \in TieIDs /\ e.lsdb[id].seq \in Nat /\ e.lsdb[id].life \in Int
  BY DEF Engine, Entry, Held
<1> QED
  BY <1>1 DEF Header, HeaderType

\* What a drain sends is a TIRE or a TIE the node holds.
LEMMA DrainPackets ==
    ASSUME NEW e \in Engine, NEW m \in Nodes
    PROVE  drainPackets(e, m) \in Seq(TIREType \cup TIEsOf(e))
<1> DEFINE acks == {Header(e, id) : id \in e.ack[m] \cap Held(e)}
           reqs == {[id |-> id, seq |-> 0, life |-> 0] : id \in e.req[m]}
           sent == e.tx[m] \cap Held(e)
           ties == {TIEPacket(e, id) : id \in sent}
           T == TIREType \cup TIEsOf(e)
<1>1. acks \in SUBSET HeaderType
  BY HeaderIsTyped
<1>2. reqs \in SUBSET HeaderType
  BY DEF HeaderType, Engine
<1>3. AsSeq(ties) \in Seq(T)
  <2>1. IsFiniteSet(sent)
    BY EngineConstants, FS_Subset DEF Held
  <2> DEFINE f == [id \in sent |-> TIEPacket(e, id)]
  <2>2. f \in Surjection(sent, ties)
    BY DEF Surjection
  <2>3. IsFiniteSet(ties)
    BY <2>1, <2>2, FS_Surjection
  <2>4. ties \subseteq T
    BY DEF TIEsOf
  <2> HIDE DEF ties, T
  <2> QED
    BY <2>3, <2>4, AsSeqType, SeqMonotonic
<1>4. TIREPacket(acks) \in T /\ TIREPacket(reqs) \in T
  BY <1>1, <1>2 DEF TIREPacket, TIREType
<1>5. drainPackets(e, m) = (IF acks = {} THEN <<>> ELSE <<TIREPacket(acks)>>)
                           \o (IF reqs = {} THEN <<>> ELSE <<TIREPacket(reqs)>>)
                           \o AsSeq(ties)
  BY DEF drainPackets
<1> HIDE DEF acks, reqs, ties, T
<1>6. /\ (IF acks = {} THEN <<>> ELSE <<TIREPacket(acks)>>) \in Seq(T)
      /\ (IF reqs = {} THEN <<>> ELSE <<TIREPacket(reqs)>>) \in Seq(T)
  BY <1>4
<1> QED
  BY <1>3, <1>5, <1>6, ConcatProperties DEF T

\* The ends a TIDE can give its range.
LEMMA RangeEndsHas ==
    /\ MinTIEID \in RangeEnds /\ MaxTIEID \in RangeEnds
    /\ \A S \in SUBSET TieIDs : \A i \in Nat : IDsSorted(S)[i] \in RangeEnds
<1> SUFFICES ASSUME NEW S \in SUBSET TieIDs, NEW i \in Nat
             PROVE  IDsSorted(S)[i] \in RangeEnds
  BY DEF RangeEnds
<1>1. IDsSorted(S)[i] \in {IDsSorted(S)[j] : j \in Nat}
  OBVIOUS
<1> QED
  BY <1>1 DEF RangeEnds

\* What sendTIDEs sends are TIDEs.
LEMMA TIDEPacketsType ==
    ASSUME NEW n \in Nodes, NEW e \in Engine, NEW m \in Nodes
    PROVE  TIDEPackets(n, e, m) \in Seq(TIDEType)
<1> DEFINE told == {i \in Held(e) : ShouldIncludeInTIDE(i, n, Level[n], Level[m])}
           headers == {Header(e, id) : id \in told}
           ids == IDsSorted({h.id : h \in headers})
           total == Cardinality(headers)
           count == IF total = 0 THEN 1
                    ELSE (total + MaxTIDEHeaders - 1) \div MaxTIDEHeaders
           last(k) == ids[k * MaxTIDEHeaders]
           upto(k) == IF k * MaxTIDEHeaders < total THEN k * MaxTIDEHeaders
                      ELSE total
           chunk(k) == {h \in headers :
              \E i \in (k - 1) * MaxTIDEHeaders + 1 .. upto(k) : ids[i] = h.id}
           start(k) == IF k = 1 THEN MinTIEID ELSE last(k - 1)
           end(k) == IF k = count THEN MaxTIEID ELSE last(k)
<1>1. TIDEPackets(n, e, m) =
        [k \in 1..count |-> [kind |-> "TIDE", start |-> start(k), end |-> end(k),
                             headers |-> chunk(k)]]
  BY DEF TIDEPackets, buildTIDEChunks
<1>2. headers \subseteq HeaderType
  BY HeaderIsTyped
<1>3. count \in Nat
  <2>1. IsFiniteSet(told)
    BY EngineConstants, FS_Subset DEF Held
  <2> DEFINE f == [id \in told |-> Header(e, id)]
  <2>2. f \in Surjection(told, headers)
    BY DEF Surjection
  <2>3. total \in Nat
    BY <2>1, <2>2, FS_Surjection, FS_CardinalityType
  <2>4. MaxTIDEHeaders \in Nat \ {0}
    BY EngineConstants
  <2> HIDE DEF total
  <2>5. total + MaxTIDEHeaders - 1 \in Nat
    BY <2>3, <2>4
  <2> QED
    BY <2>4, <2>5
<1> HIDE DEF count
<1>4. \A k \in 1..count : start(k) \in RangeEnds /\ end(k) \in RangeEnds
  <2> TAKE k \in 1..count
  <2>1. {h.id : h \in headers} \in SUBSET TieIDs
    BY <1>2 DEF HeaderType
  <2>2. k * MaxTIDEHeaders \in Nat /\ (k - 1) * MaxTIDEHeaders \in Nat
    <3>1. k \in Nat /\ k - 1 \in Nat /\ MaxTIDEHeaders \in Nat
      BY <1>3, EngineConstants
    <3> QED
      BY <3>1
  <2> HIDE DEF headers
  <2>3. last(k) \in RangeEnds /\ last(k - 1) \in RangeEnds
    BY <2>1, <2>2, RangeEndsHas
  <2> HIDE DEF last
  <2> QED
    BY <2>3, RangeEndsHas
<1>5. \A k \in 1..count : chunk(k) \in SUBSET HeaderType
  BY <1>2
<1> HIDE DEF headers, start, end, chunk
<1>6. \A k \in 1..count :
        [kind |-> "TIDE", start |-> start(k), end |-> end(k), headers |-> chunk(k)]
          \in TIDEType
  BY <1>4, <1>5 DEF TIDEType
<1> QED
  BY <1>1, <1>3, <1>6

-----------------------------------------------------------------------------
(* The inductive invariant *)

\* The exceptions counted so far.
Used == [flaps : Nat, faults : Nat, restarts : Nat, disagg : Nat, ticks : Nat,
         total : Nat]

\* The packets on the link from a to b.
InFlight(a, b) == {net[a][b][i] : i \in 1..Len(net[a][b])}

\* A node has sent only what it may itself hold.
PacketsInScope ==
    \A a, b \in Nodes : \A p \in InFlight(a, b) :
        p.kind = "TIE" => MayHold(a, p.id)

\* The types, those of the packets included, and what ageing needs.
Typed ==
    /\ TypeOK /\ used \in Used
    /\ net \in [Nodes -> [Nodes -> Seq(Packet)]]
    /\ \A n \in Nodes : OwnAlive(n, engine[n])

\* The inductive invariant.
Inv ==
    /\ Typed
    /\ ScopeRespected /\ PacketsInScope
    /\ VersionDeterminesContent /\ OriginatorIsAhead

\* The version and content under which an engine holds a TIE.
Copy(e, id) == <<e.lsdb[id].seq, e.lsdb[id].content>>

\* The copies of a TIE are those in the LSDBs and those in flight.
LEMMA CopiesAre ==
    ASSUME Typed, NEW id \in TieIDs, NEW c
    PROVE  c \in Copies(id) <=>
             \/ \E k \in Nodes : engine[k].lsdb[id] # None /\ c = Copy(engine[k], id)
             \/ \E a, b \in Nodes : \E p \in InFlight(a, b) :
                  p.kind = "TIE" /\ p.id = id /\ c = <<p.seq, p.content>>
BY DEF Copies, TIEsInFlight, InFlight, Copy

\* The same for the next state.
LEMMA CopiesWillBe ==
    ASSUME Typed', NEW id \in TieIDs, NEW c
    PROVE  c \in Copies(id)' <=>
             \/ \E k \in Nodes : engine'[k].lsdb[id] # None /\ c = Copy(engine'[k], id)
             \/ \E a, b \in Nodes : \E p \in InFlight(a, b)' :
                  p.kind = "TIE" /\ p.id = id /\ c = <<p.seq, p.content>>
BY DEF Copies, TIEsInFlight, InFlight, Copy

\* A step adds to a foreign LSDB only copies that were there, within the scope.
LsdbsEvolve ==
    \A k \in Nodes : \A id \in TieIDs :
        k # id.orig /\ engine'[k].lsdb[id] # None =>
            Copy(engine'[k], id) \in Copies(id) /\ MayHold(k, id)

\* An originator keeps its TIE or issues it with a higher number.
OwnEvolve ==
    \A id \in TieIDs : engine[id.orig].lsdb[id] # None =>
        /\ engine'[id.orig].lsdb[id] # None
        /\ \/ engine'[id.orig].lsdb[id].seq > engine[id.orig].lsdb[id].seq
           \/ Copy(engine'[id.orig], id) = Copy(engine[id.orig], id)

\* A TIE that is new on a link is one that the sender holds after the step.
NetEvolves ==
    \A a, b \in Nodes : \A p \in InFlight(a, b)' : p.kind = "TIE" =>
        \/ p \in InFlight(a, b)
        \/ /\ p.id \in TieIDs /\ engine'[a].lsdb[p.id] # None
           /\ <<p.seq, p.content>> = Copy(engine'[a], p.id)
           /\ MayHold(a, p.id)

\* The record of issued numbers only grows, and covers what the originator holds.
IssuedEvolves ==
    \A id \in TieIDs :
        /\ issued'[id] >= issued[id]
        /\ engine'[id.orig].lsdb[id] # None =>
             engine'[id.orig].lsdb[id].seq <= issued'[id]

\* What a step of any kind must be shown to do.
Evolves ==
    /\ Typed' /\ LsdbsEvolve /\ NetEvolves /\ IssuedEvolves
    /\ \/ OwnEvolve /\ used'.restarts = used.restarts
       \/ used'.restarts # 0

\* A TIE's originator is a node.
LEMMA OrigIsNode == \A id \in TieIDs : id.orig \in Nodes
BY EngineConstants DEF TIEID

\* The only copies a step can add are those of what the originator then holds.
LEMMA CopiesEvolve ==
    ASSUME Inv, Evolves, NEW id \in TieIDs, NEW c \in Copies(id)'
    PROVE  \/ c \in Copies(id)
           \/ engine'[id.orig].lsdb[id] # None /\ c = Copy(engine'[id.orig], id)
<1>0. Typed /\ Typed' /\ LsdbsEvolve /\ NetEvolves
  BY DEF Inv, Evolves
<1>1. ASSUME NEW k \in Nodes, engine'[k].lsdb[id] # None, c = Copy(engine'[k], id)
      PROVE  \/ c \in Copies(id)
             \/ engine'[id.orig].lsdb[id] # None /\ c = Copy(engine'[id.orig], id)
  BY <1>0, <1>1 DEF LsdbsEvolve
<1>2. ASSUME NEW a \in Nodes, NEW b \in Nodes, NEW p \in InFlight(a, b)',
             p.kind = "TIE", p.id = id, c = <<p.seq, p.content>>
      PROVE  \/ c \in Copies(id)
             \/ engine'[id.orig].lsdb[id] # None /\ c = Copy(engine'[id.orig], id)
  <2>1. CASE p \in InFlight(a, b)
    BY <1>0, <1>2, <2>1, CopiesAre
  <2>2. CASE p \notin InFlight(a, b)
    BY <1>0, <1>1, <1>2, <2>2 DEF NetEvolves
  <2> QED
    BY <2>1, <2>2
<1> QED
  BY <1>0, <1>1, <1>2, CopiesWillBe

\* A copy has a version number.
LEMMA CopyNumber ==
    ASSUME Typed, NEW id \in TieIDs, NEW c \in Copies(id)
    PROVE  c[1] \in Nat
<1>1. \A k \in Nodes : engine[k].lsdb[id] # None => engine[k].lsdb[id].seq \in Nat
  BY DEF Typed, TypeOK, Engine, Entry
<1>2. \A a, b \in Nodes : \A p \in InFlight(a, b) : p.kind = "TIE" => p.seq \in Nat
  <2> SUFFICES ASSUME NEW a \in Nodes, NEW b \in Nodes, NEW p \in InFlight(a, b),
                      p.kind = "TIE"
               PROVE  p.seq \in Nat
    OBVIOUS
  <2>1. p \in Packet
    BY DEF Typed, InFlight
  <2> QED
    BY <2>1, PacketKinds DEF TIEType
<1> QED
  BY <1>1, <1>2, CopiesAre DEF Copy

\* The two properties of versions follow from what a step does.
LEMMA VersionsKept ==
    ASSUME Inv, Evolves
    PROVE  VersionDeterminesContent' /\ OriginatorIsAhead'
<1> USE OrigIsNode
<1>0. Typed /\ Typed' /\ IssuedEvolves
  BY DEF Inv, Evolves
<1>1. \A id \in TieIDs : issued[id] \in Nat /\ issued'[id] \in Nat
  BY <1>0 DEF Typed, TypeOK
<1>2. \A id \in TieIDs :
        /\ engine[id.orig].lsdb[id] # None => engine[id.orig].lsdb[id].seq \in Nat
        /\ engine'[id.orig].lsdb[id] # None => engine'[id.orig].lsdb[id].seq \in Nat
  BY <1>0 DEF Typed, TypeOK, Engine, Entry
<1>3. ASSUME used'.restarts = 0
      PROVE  used.restarts = 0 /\ OwnEvolve
  BY <1>3 DEF Evolves
<1>4. ASSUME NEW id \in TieIDs, NEW c \in Copies(id)'
      PROVE  /\ c[1] <= issued'[id]
             /\ used'.restarts = 0 =>
                  /\ engine'[id.orig].lsdb[id] # None
                  /\ c[1] <= engine'[id.orig].lsdb[id].seq
  <2>1. CASE c \in Copies(id)
    <3>1. /\ c[1] <= issued[id]
          /\ used.restarts = 0 =>
               engine[id.orig].lsdb[id] # None /\ c[1] <= engine[id.orig].lsdb[id].seq
      BY <2>1 DEF Inv, OriginatorIsAhead
    <3>2. c[1] \in Nat
      BY <1>0, <2>1, CopyNumber
    <3>3. c[1] <= issued'[id]
      BY <1>0, <1>1, <3>1, <3>2 DEF IssuedEvolves
    <3>4. ASSUME used'.restarts = 0
          PROVE  /\ engine'[id.orig].lsdb[id] # None
                 /\ c[1] <= engine'[id.orig].lsdb[id].seq
      <4>1. /\ engine[id.orig].lsdb[id] # None /\ c[1] <= engine[id.orig].lsdb[id].seq
            /\ engine'[id.orig].lsdb[id] # None
            /\ \/ engine'[id.orig].lsdb[id].seq > engine[id.orig].lsdb[id].seq
               \/ engine'[id.orig].lsdb[id].seq = engine[id.orig].lsdb[id].seq
        BY <1>3, <3>1, <3>4 DEF OwnEvolve, Copy
      <4> QED
        BY <1>2, <3>2, <4>1
    <3> QED
      BY <3>3, <3>4
  <2>2. CASE engine'[id.orig].lsdb[id] # None /\ c = Copy(engine'[id.orig], id)
    <3>1. c[1] = engine'[id.orig].lsdb[id].seq
      BY <2>2 DEF Copy
    <3> QED
      BY <1>0, <1>2, <2>2, <3>1 DEF IssuedEvolves
  <2> QED
    BY <2>1, <2>2, CopiesEvolve
<1>5. OriginatorIsAhead'
  BY <1>4 DEF OriginatorIsAhead
<1>6. ASSUME used'.restarts = 0, NEW id \in TieIDs, NEW c \in Copies(id)',
             NEW d \in Copies(id)', c[1] = d[1]
      PROVE  c[2] = d[2]
  <2> DEFINE own == engine[id.orig].lsdb[id]
             mine == Copy(engine'[id.orig], id)
             IsMine(x) == engine'[id.orig].lsdb[id] # None /\ x = mine
  <2>1. ASSUME NEW x \in Copies(id), NEW y, IsMine(y), x[1] = y[1]
        PROVE  x[2] = y[2]
    <3>1. own # None /\ x[1] <= own.seq
      BY <1>3, <1>6 DEF Inv, OriginatorIsAhead
    <3>2. \/ engine'[id.orig].lsdb[id].seq > own.seq
          \/ mine = Copy(engine[id.orig], id)
      BY <1>3, <1>6, <3>1 DEF OwnEvolve
    <3>3. x[1] = engine'[id.orig].lsdb[id].seq /\ x[1] \in Nat
      BY <1>0, <2>1, CopyNumber DEF Copy
    <3>4. mine = Copy(engine[id.orig], id)
      BY <1>2, <3>1, <3>2, <3>3
    <3>5. y \in Copies(id)
      BY <1>0, <2>1, <3>1, <3>4, CopiesAre
    <3> QED
      BY <1>3, <1>6, <2>1, <3>5 DEF Inv, VersionDeterminesContent
  <2>2. CASE c \in Copies(id) /\ d \in Copies(id)
    BY <1>3, <1>6, <2>2 DEF Inv, VersionDeterminesContent
  <2> QED
    BY <1>6, <2>1, <2>2, CopiesEvolve
<1>7. VersionDeterminesContent'
  BY <1>6 DEF VersionDeterminesContent
<1> QED
  BY <1>5, <1>7

\* A step of that kind keeps LSDBs and packets in scope.
LEMMA ScopesKept ==
    ASSUME Inv, Evolves
    PROVE  ScopeRespected' /\ PacketsInScope'
<1>1. ScopeRespected'
  BY DEF Evolves, LsdbsEvolve, ScopeRespected, MayHold, Held
<1>2. PacketsInScope'
  BY DEF Inv, Evolves, NetEvolves, PacketsInScope, MayHold
<1> QED
  BY <1>1, <1>2

-----------------------------------------------------------------------------
(* The steps of an engine *)

\* No engine goes back to a lower number.
NumbersGrow ==
    \A n \in Nodes : \A id \in TieIDs :
        engine[n].lsdb[id] # None /\ engine'[n].lsdb[id] # None =>
            engine'[n].lsdb[id].seq >= engine[n].lsdb[id].seq

\* The part of Evolves that is about the engines.
EnginesEvolve ==
    /\ TypeOK' /\ \A k \in Nodes : OwnAlive(k, engine'[k])
    /\ LsdbsEvolve /\ IssuedEvolves

\* What a node holds is a copy, in scope and not ahead of its originator.
LEMMA OwnCopy ==
    ASSUME Inv, NEW k \in Nodes, NEW id \in TieIDs, engine[k].lsdb[id] # None
    PROVE  /\ Copy(engine[k], id) \in Copies(id) /\ MayHold(k, id)
           /\ engine[k].lsdb[id].seq \in Nat /\ engine[k].lsdb[id].seq <= issued[id]
<1>1. Copy(engine[k], id) \in Copies(id)
  BY CopiesAre DEF Inv
<1>2. MayHold(k, id)
  BY DEF Inv, ScopeRespected, Held
<1>3. Copy(engine[k], id)[1] = engine[k].lsdb[id].seq
  BY DEF Copy
<1>4. engine[k].lsdb[id].seq <= issued[id]
  BY <1>1, <1>3 DEF Inv, OriginatorIsAhead
<1>5. engine[k].lsdb[id].seq \in Nat
  BY DEF Inv, Typed, TypeOK, Engine, Entry
<1> QED
  BY <1>1, <1>2, <1>4, <1>5

\* A step that leaves the engines alone evolves them.
LEMMA Unmoved ==
    ASSUME Inv, UNCHANGED <<engine, issued>>
    PROVE  EnginesEvolve /\ OwnEvolve /\ NumbersGrow
<1> USE OrigIsNode
<1>1. LsdbsEvolve
  BY OwnCopy DEF LsdbsEvolve
<1>2. IssuedEvolves
  <2>1. \A id \in TieIDs : issued[id] \in Nat
    BY DEF Inv, Typed, TypeOK
  <2> QED
    BY <2>1, OwnCopy DEF IssuedEvolves
<1>3. TypeOK' /\ \A k \in Nodes : OwnAlive(k, engine'[k])
  BY DEF Inv, Typed, TypeOK
<1>4. OwnEvolve
  BY DEF OwnEvolve
<1>5. NumbersGrow
  BY OwnCopy DEF NumbersGrow
<1> QED
  BY <1>1, <1>2, <1>3, <1>4, <1>5 DEF EnginesEvolve

\* An engine may take over copies that exist already, for TIEs it may hold.
LEMMA BecomeStep ==
    ASSUME Inv, NEW n \in Nodes, NEW g \in Engine, MarksOwn(n, g), OwnAlive(n, g),
           g.adjacencies \subseteq Neighbors(n), Become(n, g),
           \A id \in TieIDs : id.orig # n /\ g.lsdb[id] # None =>
               Copy(g, id) \in Copies(id) /\ MayHold(n, id)
    PROVE  EnginesEvolve
<1> USE OrigIsNode
<1>1. engine \in [Nodes -> Engine] /\ engine' = [engine EXCEPT ![n] = g]
  BY DEF Become, Inv, Typed, TypeOK
<1>2. /\ engine'[n] = g
      /\ \A k \in Nodes : k # n => engine'[k] = engine[k]
  BY <1>1
<1>3. \A id \in TieIDs :
        /\ g.lsdb[id] # None => g.lsdb[id].seq \in Nat
        /\ issued[id] \in Nat
  BY DEF Inv, Typed, TypeOK, Engine, Entry
<1>4. issued' = [id \in TieIDs |->
          IF id.orig = n /\ g.lsdb[id] # None /\ g.lsdb[id].seq > issued[id]
          THEN g.lsdb[id].seq ELSE issued[id]]
  BY DEF Become
<1>5. TypeOK'
  <2>1. engine' \in [Nodes -> Engine]
    BY <1>1
  <2>2. issued' \in [TieIDs -> Nat]
    BY <1>3, <1>4
  <2>3. \A k \in Nodes :
          /\ \A id \in Held(engine'[k]) : engine'[k].lsdb[id].self <=> id.orig = k
          /\ engine'[k].adjacencies \subseteq Neighbors(k)
    BY <1>2 DEF Inv, Typed, TypeOK, MarksOwn
  <2> QED
    BY <2>1, <2>2, <2>3 DEF TypeOK, Neighbors
<1>6. \A k \in Nodes : OwnAlive(k, engine'[k])
  BY <1>2 DEF Inv, Typed
<1>7. LsdbsEvolve
  BY <1>2, OwnCopy DEF LsdbsEvolve
<1>8. IssuedEvolves
  <2> SUFFICES ASSUME NEW id \in TieIDs
               PROVE  /\ issued'[id] >= issued[id]
                      /\ engine'[id.orig].lsdb[id] # None =>
                           engine'[id.orig].lsdb[id].seq <= issued'[id]
    BY DEF IssuedEvolves
  <2>1. CASE id.orig = n
    BY <1>2, <1>3, <1>4, <2>1
  <2>2. CASE id.orig # n
    BY <1>2, <1>3, <1>4, <2>2, OwnCopy
  <2> QED
    BY <2>1, <2>2
<1> QED
  BY <1>5, <1>6, <1>7, <1>8 DEF EnginesEvolve

\* What the handlers that issue or install TIEs have in common.
LEMMA ReissueStep ==
    ASSUME Inv, NEW n \in Nodes, NEW g \in Engine, Reissues(n, engine[n], g),
           SameBut(engine[n], g), g.adjacencies \subseteq Neighbors(n), Become(n, g)
    PROVE  EnginesEvolve /\ OwnEvolve /\ NumbersGrow
<1> DEFINE e == engine[n]
<1>1. /\ e \in Engine /\ MarksOwn(n, e) /\ OwnAlive(n, e)
      /\ engine'[n] = g /\ \A k \in Nodes : k # n => engine'[k] = engine[k]
  BY DEF Inv, Typed, TypeOK, MarksOwn, Become
<1>2. MarksOwn(n, g)
  BY <1>1, MarksOwnKept
<1>3. OwnAlive(n, g)
  BY <1>1, Constants DEF OwnAlive, Reissues, SameBut, Held
<1>4. \A id \in TieIDs : id.orig # n /\ g.lsdb[id] # None =>
        Copy(g, id) \in Copies(id) /\ MayHold(n, id)
  BY OwnCopy DEF Reissues, Copy
<1>5. EnginesEvolve
  BY <1>2, <1>3, <1>4, BecomeStep
<1>6. OwnEvolve
  BY <1>1, OrigIsNode DEF OwnEvolve, Reissues, Copy
<1>7. NumbersGrow
  <2> SUFFICES ASSUME NEW k \in Nodes, NEW id \in TieIDs,
                      engine[k].lsdb[id] # None, engine'[k].lsdb[id] # None
               PROVE  engine'[k].lsdb[id].seq >= engine[k].lsdb[id].seq
    BY DEF NumbersGrow
  <2>1. engine[k].lsdb[id].seq \in Nat
    BY OwnCopy
  <2>2. g.lsdb[id] # None => g.lsdb[id].seq \in Nat
    BY DEF Engine, Entry
  <2> QED
    BY <1>1, <2>1, <2>2 DEF Reissues
<1> QED
  BY <1>5, <1>6, <1>7

\* Installing a received TIE makes no new copy: the packet was one.
LEMMA InstallStep ==
    ASSUME Inv, NEW n \in Nodes, NEW m \in Nodes, NEW tie \in InFlight(m, n),
           tie.kind = "TIE", NEW g \in Engine, Installs(n, engine[n], g, m, tie),
           SameBut(engine[n], g), g.adjacencies \subseteq Neighbors(n), Become(n, g)
    PROVE  EnginesEvolve /\ OwnEvolve /\ NumbersGrow
<1> DEFINE e == engine[n]
           i == tie.id
<1>1. /\ e \in Engine /\ MarksOwn(n, e) /\ OwnAlive(n, e)
      /\ engine'[n] = g /\ \A k \in Nodes : k # n => engine'[k] = engine[k]
  BY DEF Inv, Typed, TypeOK, MarksOwn, Become
<1>2. tie \in TIEType
  <2>1. tie \in Packet
    BY DEF Inv, Typed, InFlight
  <2> QED
    BY <2>1, PacketKinds
<1>3. /\ i \in TieIDs /\ i.orig # n
      /\ g.lsdb[i].seq = tie.seq /\ g.lsdb[i].content = tie.content
      /\ ~g.lsdb[i].self
      /\ \A o \in TieIDs : o # i => g.lsdb[o] = e.lsdb[o]
  BY <1>2 DEF Installs, TIEType
<1>4. MarksOwn(n, g) /\ OwnAlive(n, g)
  BY <1>1, <1>3 DEF MarksOwn, OwnAlive, SameBut, Held
<1>5. MayHold(n, i)
  <2>1. CASE e.lsdb[i] # None
    BY <1>3, <2>1, OwnCopy
  <2>2. CASE e.lsdb[i] = None
    <3>1. shouldAcceptTIE(i, n, Level[n], Level[m]) /\ MayHold(m, i)
      BY <2>2 DEF Installs, Inv, PacketsInScope
    <3>2. /\ Level[n] \in Int /\ Level[m] \in Int /\ Level[i.orig] \in Int
          /\ i.dir \in {North, South}
      BY <1>3, OrigIsNode, EngineConstants DEF TIEID
    <3> QED
      BY <1>3, <3>1, <3>2 DEF shouldAcceptTIE, MayHold, North, South
  <2> QED
    BY <2>1, <2>2
<1>6. Copy(g, i) \in Copies(i)
  BY <1>3, CopiesAre DEF Inv, Copy
<1>7. \A id \in TieIDs : id.orig # n /\ g.lsdb[id] # None =>
        Copy(g, id) \in Copies(id) /\ MayHold(n, id)
  BY <1>3, <1>5, <1>6, OwnCopy DEF Copy
<1>8. EnginesEvolve
  BY <1>4, <1>7, BecomeStep
<1>9. OwnEvolve
  BY <1>1, <1>3, OrigIsNode DEF OwnEvolve, Copy
<1>10. NumbersGrow
  <2> SUFFICES ASSUME NEW k \in Nodes, NEW id \in TieIDs,
                      engine[k].lsdb[id] # None, engine'[k].lsdb[id] # None
               PROVE  engine'[k].lsdb[id].seq >= engine[k].lsdb[id].seq
    BY DEF NumbersGrow
  <2>1. engine[k].lsdb[id].seq \in Nat
    BY OwnCopy
  <2>2. e.lsdb[i] # None => tie.seq >= e.lsdb[i].seq
    BY DEF Installs
  <2> QED
    BY <1>1, <1>3, <2>1, <2>2
<1> QED
  BY <1>8, <1>9, <1>10

\* An ageing tick evolves the engines.
LEMMA TickStep ==
    ASSUME Inv, NEW n \in Nodes, Running(n), Become(n, tickLifetimes(engine[n]))
    PROVE  EnginesEvolve /\ OwnEvolve /\ NumbersGrow
<1> DEFINE e == engine[n]
           g == tickLifetimes(e)
<1>1. /\ e \in Engine /\ MarksOwn(n, e) /\ OwnAlive(n, e) /\ ~e.wedged
      /\ e.adjacencies \subseteq Neighbors(n)
      /\ engine'[n] = g /\ \A k \in Nodes : k # n => engine'[k] = engine[k]
  BY DEF Inv, Typed, TypeOK, MarksOwn, Become, Running
<1> HIDE DEF e
<1>2. /\ g \in Engine /\ g.adjacencies = e.adjacencies
      /\ MarksOwn(n, g) /\ OwnAlive(n, g)
      /\ \A id \in TieIDs :
           /\ id.orig = n /\ e.lsdb[id] # None => g.lsdb[id] # None
           /\ g.lsdb[id] # None =>
                /\ e.lsdb[id] # None
                /\ \/ id.orig = n /\ g.lsdb[id].seq > e.lsdb[id].seq
                   \/ /\ g.lsdb[id].seq = e.lsdb[id].seq
                      /\ g.lsdb[id].content = e.lsdb[id].content
  BY <1>1, TickLifetimesStep
<1>3. Become(n, g)
  BY DEF e
<1> HIDE DEF g
<1>4. \A id \in TieIDs : id.orig # n /\ g.lsdb[id] # None =>
        Copy(g, id) \in Copies(id) /\ MayHold(n, id)
  BY <1>2, OwnCopy DEF Copy, e
<1>5. EnginesEvolve
  BY <1>1, <1>2, <1>3, <1>4, BecomeStep
<1>6. OwnEvolve
  BY <1>1, <1>2, OrigIsNode DEF OwnEvolve, Copy, e
<1>7. NumbersGrow
  <2> SUFFICES ASSUME NEW k \in Nodes, NEW id \in TieIDs,
                      engine[k].lsdb[id] # None, engine'[k].lsdb[id] # None
               PROVE  engine'[k].lsdb[id].seq >= engine[k].lsdb[id].seq
    BY DEF NumbersGrow
  <2>1. engine[k].lsdb[id].seq \in Nat
    BY OwnCopy
  <2>2. g.lsdb[id] # None => g.lsdb[id].seq \in Nat
    BY <1>2 DEF Engine, Entry
  <2> QED
    BY <1>1, <1>2, <2>1, <2>2 DEF e
<1> QED
  BY <1>5, <1>6, <1>7

-----------------------------------------------------------------------------
(* The steps of the network *)

\* The links: a sequence of packets for every ordered pair of nodes.
NetType == [Nodes -> [Nodes -> Seq(Packet)]]

\* A function on 1..n is a sequence of length n.
LEMMA SeqBy ==
    ASSUME NEW S, NEW n \in Nat, NEW s \in [1..n -> S]
    PROVE  s \in Seq(S) /\ Len(s) = n
OBVIOUS

\* A link's sequence is one of the packets in flight on it.
LEMMA SeqOfInFlight ==
    ASSUME Inv, NEW a \in Nodes, NEW b \in Nodes
    PROVE  /\ net[a][b] \in Seq(InFlight(a, b)) /\ InFlight(a, b) \subseteq Packet
           /\ net[a][b] \in Seq(Packet)
<1>1. net[a][b] \in Seq(Packet)
  BY DEF Inv, Typed
<1>2. \A i \in 1..Len(net[a][b]) : net[a][b][i] \in Packet
  BY <1>1, ElementOfSeq
<1>3. Len(net[a][b]) \in Nat /\ net[a][b] \in [1..Len(net[a][b]) -> Packet]
  BY <1>1, LenProperties
<1>4. net[a][b] \in [1..Len(net[a][b]) -> InFlight(a, b)]
  BY <1>3 DEF InFlight
<1>5. net[a][b] \in Seq(InFlight(a, b))
  BY <1>3, <1>4, SeqBy
<1>6. InFlight(a, b) \subseteq Packet
  BY <1>2 DEF InFlight
<1> QED
  BY <1>1, <1>5, <1>6

\* Whatever types a link's sequence holds for each packet on it.
LEMMA InFlightThen ==
    ASSUME NEW T, NEW a \in Nodes, NEW b \in Nodes, net'[a][b] \in Seq(T)
    PROVE  InFlight(a, b)' \subseteq T
BY ElementOfSeq DEF InFlight

\* What the two tickers send.
LEMMA SentStep ==
    ASSUME Inv, NEW n \in Nodes, NEW T \in SUBSET Packet,
           NEW pkts \in [Nodes -> Seq(T)], net' = Sent(n, pkts),
           \A p \in T : p.kind = "TIE" =>
               /\ p.id \in TieIDs /\ engine'[n].lsdb[p.id] # None
               /\ <<p.seq, p.content>> = Copy(engine'[n], p.id)
               /\ MayHold(n, p.id)
    PROVE  net' \in NetType /\ NetEvolves
<1>1. net \in NetType
  BY DEF Inv, Typed, NetType
<1>2. /\ \A a, b \in Nodes : a # n => net'[a][b] = net[a][b]
      /\ \A b \in Nodes : \/ net'[n][b] = net[n][b]
                          \/ net'[n][b] = net[n][b] \o pkts[b]
  BY <1>1 DEF Sent, NetType
<1>3. \A b \in Nodes : /\ net[n][b] \in Seq(Packet) /\ pkts[b] \in Seq(Packet)
                       /\ net[n][b] \o pkts[b] \in Seq(Packet)
  BY <1>1, SeqMonotonic, ConcatProperties DEF NetType
<1>4. net' \in NetType
  BY <1>1, <1>3 DEF Sent, NetType
<1>5. \A b \in Nodes : net'[n][b] \in Seq(InFlight(n, b) \cup T)
  <2> TAKE b \in Nodes
  <2>1. /\ net[n][b] \in Seq(InFlight(n, b) \cup T)
        /\ pkts[b] \in Seq(InFlight(n, b) \cup T)
    BY SeqOfInFlight, SeqMonotonic
  <2> QED
    BY <1>2, <2>1, ConcatProperties
<1>6. NetEvolves
  <2> SUFFICES ASSUME NEW a \in Nodes, NEW b \in Nodes, NEW p \in InFlight(a, b)',
                      p.kind = "TIE", p \notin InFlight(a, b)
               PROVE  /\ p.id \in TieIDs /\ engine'[a].lsdb[p.id] # None
                      /\ <<p.seq, p.content>> = Copy(engine'[a], p.id)
                      /\ MayHold(a, p.id)
    BY DEF NetEvolves
  <2>1. CASE a # n
    BY <1>2, <2>1 DEF InFlight
  <2>2. CASE a = n
    <3>1. p \in InFlight(n, b) \cup T
      BY <1>5, <2>2, InFlightThen
    <3> QED
      BY <2>2, <3>1
  <2> QED
    BY <2>1, <2>2
<1> QED
  BY <1>4, <1>6

\* The link from a to b changes, and nothing that was not in flight is on it.
LEMMA LinkStep ==
    ASSUME Inv, NEW n \in Nodes, NEW m \in Nodes, NEW s \in Seq(InFlight(n, m)),
           net' = [net EXCEPT ![n][m] = s]
    PROVE  /\ net' \in NetType
           /\ \A a, b \in Nodes : InFlight(a, b)' \subseteq InFlight(a, b)
<1>1. net \in NetType
  BY DEF Inv, Typed, NetType
<1>2. s \in Seq(Packet)
  BY SeqOfInFlight, SeqMonotonic
<1>3. net' \in NetType
  BY <1>1, <1>2 DEF NetType
<1>4. \A a, b \in Nodes : \/ net'[a][b] = net[a][b]
                          \/ a = n /\ b = m /\ net'[a][b] = s
  BY <1>1 DEF NetType
<1>5. \A a, b \in Nodes : InFlight(a, b)' \subseteq InFlight(a, b)
  <2> SUFFICES ASSUME NEW a \in Nodes, NEW b \in Nodes
               PROVE  InFlight(a, b)' \subseteq InFlight(a, b)
    OBVIOUS
  <2>1. net'[a][b] \in Seq(InFlight(a, b))
    BY <1>4, SeqOfInFlight
  <2> QED
    BY <2>1, InFlightThen
<1> QED
  BY <1>3, <1>5

\* Loss, duplication and reordering make no new packets.
LEMMA FaultyLink ==
    ASSUME NEW S, NEW s \in Seq(S), NEW i \in DOMAIN s
    PROVE  /\ RemoveAt(s, i) \in Seq(S) /\ Append(s, s[i]) \in Seq(S)
           /\ Append(RemoveAt(s, i), s[i]) \in Seq(S)
<1>1. Len(s) \in Nat /\ i \in 1..Len(s) /\ s[i] \in S
      /\ \A j \in 1..Len(s) : s[j] \in S
  BY LenProperties, ElementOfSeq
<1>2. SubSeq(s, 1, i - 1) \in Seq(S)
  BY <1>1, SubSeqProperties
<1>3. SubSeq(s, i + 1, Len(s)) \in Seq(S)
  BY <1>1, SubSeqProperties
<1>4. RemoveAt(s, i) \in Seq(S)
  BY <1>2, <1>3, ConcatProperties DEF RemoveAt
<1> QED
  BY <1>1, <1>4, AppendProperties

\* The packets of n that have not been encoded yet get the new number, too.
LEMMA BumpedStep ==
    ASSUME Inv, NEW n \in Nodes, NEW m \in Nodes, NEW e \in Engine,
           engine'[n] = e, \A id \in TieIDs :
               id.orig = n /\ engine[n].lsdb[id] # None => e.lsdb[id] # None,
           NEW rest \in NetType,
           \A a, b \in Nodes : \A i \in 1..Len(rest[a][b]) :
               rest[a][b][i] \in InFlight(a, b),
           net' = [rest EXCEPT ![n] = [k \in Nodes |->
                     [i \in DOMAIN @[k] |-> Bumped(n, e, @[k][i])]]]
    PROVE  net' \in NetType /\ NetEvolves
<1> DEFINE s(k) == [i \in DOMAIN rest[n][k] |-> Bumped(n, e, rest[n][k][i])]
<1>1. \A p \in Packet :
        \/ Bumped(n, e, p) = p
        \/ /\ Bumped(n, e, p) \in TIEType /\ Bumped(n, e, p).id.orig = n
           /\ e.lsdb[Bumped(n, e, p).id] # None
           /\ <<Bumped(n, e, p).seq, Bumped(n, e, p).content>>
                 = Copy(e, Bumped(n, e, p).id)
  <2> SUFFICES ASSUME NEW p \in Packet, p.kind = "TIE", p.id.orig = n,
                      engine[n].lsdb[p.id] # None,
                      p.content = e.lsdb[p.id].content,
                      Bumped(n, e, p) = [p EXCEPT !.seq = e.lsdb[p.id].seq]
               PROVE  /\ Bumped(n, e, p) \in TIEType /\ Bumped(n, e, p).id.orig = n
                      /\ e.lsdb[Bumped(n, e, p).id] # None
                      /\ <<Bumped(n, e, p).seq, Bumped(n, e, p).content>>
                            = Copy(e, Bumped(n, e, p).id)
    BY DEF Bumped
  <2>1. p \in TIEType /\ p.id \in TieIDs
    BY PacketKinds DEF TIEType
  <2>2. e.lsdb[p.id] # None /\ e.lsdb[p.id].seq \in Nat \ {0}
    BY <2>1 DEF Engine, Entry
  <2>3. /\ Bumped(n, e, p) \in TIEType /\ Bumped(n, e, p).id = p.id
        /\ Bumped(n, e, p).seq = e.lsdb[p.id].seq
        /\ Bumped(n, e, p).content = p.content
    BY <2>1, <2>2 DEF TIEType
  <2>4. Copy(e, p.id) = <<e.lsdb[p.id].seq, e.lsdb[p.id].content>>
    BY DEF Copy
  <2>5. <<Bumped(n, e, p).seq, Bumped(n, e, p).content>>
          = <<e.lsdb[p.id].seq, e.lsdb[p.id].content>>
    BY <2>3
  <2>6. Copy(e, Bumped(n, e, p).id) = Copy(e, p.id)
    BY <2>3
  <2>7. Bumped(n, e, p).id.orig = n /\ e.lsdb[Bumped(n, e, p).id] # None
    BY <2>2, <2>3
  <2> QED
    BY <2>3, <2>4, <2>5, <2>6, <2>7, Zenon
<1>2. /\ \A a, b \in Nodes : a # n => net'[a][b] = rest[a][b]
      /\ \A b \in Nodes : net'[n][b] = s(b)
      /\ \A a, b \in Nodes : rest[a][b] \in Seq(Packet)
  BY DEF NetType
<1>3. \A b \in Nodes : DOMAIN rest[n][b] = 1..Len(rest[n][b]) /\ Len(rest[n][b]) \in Nat
  BY <1>2, LenProperties
<1>4. \A b \in Nodes : \A i \in 1..Len(rest[n][b]) :
        rest[n][b][i] \in Packet /\ Bumped(n, e, rest[n][b][i]) \in Packet
  BY <1>1, <1>2, ElementOfSeq DEF Packet
<1>5. \A b \in Nodes : s(b) \in Seq(Packet) /\ Len(s(b)) = Len(rest[n][b])
  <2> TAKE b \in Nodes
  <2>1. s(b) \in [1..Len(rest[n][b]) -> Packet]
    BY <1>3, <1>4
  <2> HIDE DEF s
  <2> QED
    BY <1>3, <2>1, SeqBy
<1>6. net' = [rest EXCEPT ![n] = [k \in Nodes |-> s(k)]]
  OBVIOUS
<1>7. net' \in NetType
  <2> HIDE DEF s
  <2>1. [k \in Nodes |-> s(k)] \in [Nodes -> Seq(Packet)]
    BY <1>5
  <2> QED
    BY <1>6, <2>1 DEF NetType
<1>8. NetEvolves
  <2> SUFFICES ASSUME NEW a \in Nodes, NEW b \in Nodes, NEW p \in InFlight(a, b)',
                      p.kind = "TIE", p \notin InFlight(a, b)
               PROVE  /\ p.id \in TieIDs /\ engine'[a].lsdb[p.id] # None
                      /\ <<p.seq, p.content>> = Copy(engine'[a], p.id)
                      /\ MayHold(a, p.id)
    BY DEF NetEvolves
  <2>1. PICK i \in 1..Len(net'[a][b]) : p = net'[a][b][i]
    BY DEF InFlight
  <2>2. a = n
    BY <1>2, <2>1
  <2>3. i \in 1..Len(rest[n][b]) /\ p = Bumped(n, e, rest[n][b][i])
    BY <1>2, <1>3, <1>5, <2>1, <2>2
  <2>4. /\ p \in TIEType /\ p.id.orig = n /\ e.lsdb[p.id] # None
        /\ <<p.seq, p.content>> = Copy(e, p.id)
    BY <1>1, <1>4, <2>2, <2>3
  <2> QED
    BY <2>2, <2>4 DEF MayHold, TIEType
<1> QED
  BY <1>7, <1>8

-----------------------------------------------------------------------------
(* The actions *)

\* An exception other than a restart is counted, and the restarts stay as they are.
LEMMA UseFacts ==
    ASSUME Inv, NEW kind \in {"flaps", "faults", "disagg", "ticks"}, NEW max,
           Use(kind, max)
    PROVE  used' \in Used /\ used'.restarts = used.restarts
<1> DEFINE more(k) == [used EXCEPT ![k] = @ + 1, !["total"] = @ + 1]
<1>1. used \in Used
  BY DEF Inv, Typed
<1>2. used' = more(kind)
  BY DEF Use
<1>3. more("flaps") \in Used /\ more("flaps").restarts = used.restarts
  BY <1>1 DEF Used
<1>4. more("faults") \in Used /\ more("faults").restarts = used.restarts
  BY <1>1 DEF Used
<1>5. more("disagg") \in Used /\ more("disagg").restarts = used.restarts
  BY <1>1 DEF Used
<1>6. more("ticks") \in Used /\ more("ticks").restarts = used.restarts
  BY <1>1 DEF Used
<1> HIDE DEF more
<1> QED
  BY <1>2, <1>3, <1>4, <1>5, <1>6

\* A restart is counted as one.
LEMMA UseRestarts ==
    ASSUME Inv, Use("restarts", MaxRestarts)
    PROVE  used' \in Used /\ used'.restarts = used.restarts + 1 /\ used'.restarts # 0
           /\ used.restarts \in Nat
<1>1. used \in Used
  BY DEF Inv, Typed
<1>2. used' = [used EXCEPT !["restarts"] = @ + 1, !["total"] = @ + 1]
  BY DEF Use
<1> QED
  BY <1>1, <1>2 DEF Used

\* A step without a restart.
LEMMA NormalStep ==
    ASSUME Inv, EnginesEvolve, OwnEvolve, NumbersGrow, net' \in NetType, NetEvolves,
           used' \in Used, used'.restarts = used.restarts
    PROVE  Evolves
BY DEF Evolves, EnginesEvolve, Typed, NetType

\* Nothing is put on a link.
LEMMA QuietNet ==
    ASSUME Inv, UNCHANGED net
    PROVE  net' \in NetType /\ NetEvolves
BY DEF Inv, Typed, NetType, NetEvolves, InFlight

\* What the invariant says of one engine.
LEMMA EngineFacts ==
    ASSUME Inv, NEW n \in Nodes
    PROVE  /\ engine[n] \in Engine /\ MarksOwn(n, engine[n])
           /\ engine[n].adjacencies \subseteq Neighbors(n)
           /\ used \in Used
BY DEF Inv, Typed, TypeOK, MarksOwn

\* An adjacency coming up or going down evolves the system.
LEMMA AdjacencyStep ==
    ASSUME Inv, NEW n \in Nodes, NEW m \in Nodes, NEW up \in BOOLEAN,
           up => m \in Neighbors(n),
           Become(n, handleAdjChange(n, engine[n], m, up)), UNCHANGED net,
           used' \in Used, used'.restarts = used.restarts
    PROVE  Evolves /\ NumbersGrow
<1> DEFINE g == handleAdjChange(n, engine[n], m, up)
<1>1. /\ g \in Engine /\ SameBut(engine[n], g) /\ Reissues(n, engine[n], g)
      /\ up => g.adjacencies = engine[n].adjacencies \cup {m}
      /\ ~up => g.adjacencies = engine[n].adjacencies \ {m}
  <2>1. engine[n] \in Engine /\ MarksOwn(n, engine[n])
    BY EngineFacts
  <2> QED
    BY <2>1, HandleAdjChange
<1>2. g.adjacencies \subseteq Neighbors(n)
  BY <1>1, EngineFacts
<1>3. Become(n, g)
  OBVIOUS
<1> HIDE DEF g
<1>4. EnginesEvolve /\ OwnEvolve /\ NumbersGrow
  BY <1>1, <1>2, <1>3, ReissueStep
<1> QED
  BY <1>4, QuietNet, NormalStep

\* Receiving a packet of any kind evolves the system.
LEMMA ReceiveStep ==
    ASSUME Inv, NEW n \in Nodes, NEW m \in Nodes, Receive(n, m)
    PROVE  Evolves /\ NumbersGrow
<1> DEFINE pkt == Head(net[m][n])
           g == handleFloodPacket(n, engine[n], m, pkt)
           rest == [net EXCEPT ![m][n] = Tail(@)]
<1>1. /\ Become(n, g) /\ UNCHANGED used /\ net[m][n] # <<>>
      /\ \/ net' = rest
         \/ net' = [rest EXCEPT ![n] = [k \in Nodes |->
                      [i \in DOMAIN @[k] |-> Bumped(n, g, @[k][i])]]]
  BY DEF Receive
<1>2. net \in NetType
  BY DEF Inv, Typed, NetType
<1>3. pkt \in InFlight(m, n) /\ Tail(net[m][n]) \in Seq(InFlight(m, n))
  BY <1>1, SeqOfInFlight, HeadTailProperties
<1>4. pkt \in Packet
  BY <1>3, SeqOfInFlight
<1> HIDE DEF pkt
<1>5. /\ g \in Engine /\ g.adjacencies = engine[n].adjacencies
      /\ SameBut(engine[n], g)
      /\ \/ Reissues(n, engine[n], g)
         \/ pkt.kind = "TIE" /\ Installs(n, engine[n], g, m, pkt)
  BY <1>4, EngineFacts, HandleFloodPacket
<1> HIDE DEF g
<1>6. EnginesEvolve /\ OwnEvolve /\ NumbersGrow
  BY <1>1, <1>3, <1>5, EngineFacts, ReissueStep, InstallStep
<1>7. rest = [net EXCEPT ![m][n] = Tail(net[m][n])]
  BY <1>2 DEF NetType
<1>8. CASE net' = rest
  <2>1. /\ net' \in NetType
        /\ \A a, b \in Nodes : InFlight(a, b)' \subseteq InFlight(a, b)
    BY <1>3, <1>7, <1>8, LinkStep
  <2>2. NetEvolves
    BY <2>1 DEF NetEvolves
  <2> QED
    BY <1>1, <1>6, <2>1, <2>2, EngineFacts, NormalStep
<1>9. CASE net' = [rest EXCEPT ![n] = [k \in Nodes |->
                      [i \in DOMAIN @[k] |-> Bumped(n, g, @[k][i])]]]
  <2>1. rest \in NetType
    <3>1. Tail(net[m][n]) \in Seq(Packet)
      BY <1>3, SeqOfInFlight, SeqMonotonic
    <3> QED
      BY <1>2, <1>7, <3>1 DEF NetType
  <2>2. \A a, b \in Nodes : rest[a][b] \in Seq(InFlight(a, b))
    BY <1>2, <1>3, <1>7, SeqOfInFlight DEF NetType
  <2>3. \A a, b \in Nodes : \A i \in 1..Len(rest[a][b]) :
          rest[a][b][i] \in InFlight(a, b)
    BY <2>2, ElementOfSeq
  <2>4. engine'[n] = g
    BY <1>1 DEF Become, Inv, Typed, TypeOK
  <2>5. \A id \in TieIDs :
          id.orig = n /\ engine[n].lsdb[id] # None => g.lsdb[id] # None
    BY <1>5 DEF Reissues, Installs
  <2> HIDE DEF rest
  <2>6. net' \in NetType /\ NetEvolves
    BY <1>5, <1>9, <2>1, <2>3, <2>4, <2>5, BumpedStep
  <2> QED
    BY <1>1, <1>6, <2>6, EngineFacts, NormalStep
<1> QED
  BY <1>1, <1>8, <1>9

\* A ticker's firing counts as a tick.
LEMMA TickerUse ==
    ASSUME Inv, NEW n \in Nodes, TickerFires(n)
    PROVE  used' \in Used /\ used'.restarts = used.restarts
BY EngineFacts, UseFacts DEF TickerFires

\* Sending the TIDEs evolves the system.
LEMMA SendTIDEsStep ==
    ASSUME Inv, NEW n \in Nodes, SendTIDEs(n)
    PROVE  Evolves /\ NumbersGrow
<1> DEFINE pkts == [m \in Nodes |-> TIDEPackets(n, engine[n], m)]
<1>1. EnginesEvolve /\ OwnEvolve /\ NumbersGrow
  BY Unmoved DEF SendTIDEs
<1>2. pkts \in [Nodes -> Seq(TIDEType)]
  BY EngineFacts, TIDEPacketsType
<1>3. \A p \in TIDEType : p.kind # "TIE"
  BY DEF TIDEType
<1>4. TIDEType \in SUBSET Packet
  BY DEF Packet
<1>5. net' = Sent(n, pkts)
  BY DEF SendTIDEs
<1> HIDE DEF pkts
<1>6. net' \in NetType /\ NetEvolves
  BY <1>2, <1>3, <1>4, <1>5, SentStep
<1> QED
  BY <1>1, <1>6, TickerUse, NormalStep DEF SendTIDEs

\* Draining the queues onto the links evolves the system.
LEMMA DrainQueuesEvolves ==
    ASSUME Inv, NEW n \in Nodes, DrainQueues(n)
    PROVE  Evolves /\ NumbersGrow
<1> DEFINE e == engine[n]
           g == drainQueues(e)
           pkts == [m \in Nodes |-> drainPackets(e, m)]
           T == TIREType \cup TIEsOf(e)
<1>1. /\ e \in Engine /\ g \in Engine /\ g.lsdb = e.lsdb
      /\ g.adjacencies = e.adjacencies /\ SameBut(e, g)
  BY EngineFacts, DrainQueuesStep
<1>2. pkts \in [Nodes -> Seq(T)]
  BY <1>1, DrainPackets
<1>3. T \in SUBSET Packet
  BY <1>1, TIEsOfType DEF Packet
<1>4. net' = Sent(n, pkts) /\ Become(n, g) /\ TickerFires(n)
  BY DEF DrainQueues
<1> HIDE DEF g
<1>5. EnginesEvolve /\ OwnEvolve /\ NumbersGrow
  <2>1. Reissues(n, e, g)
    BY <1>1 DEF Reissues
  <2> QED
    BY <1>1, <1>4, <2>1, EngineFacts, ReissueStep
<1>6. engine'[n] = g
  BY <1>4 DEF Become, Inv, Typed, TypeOK
<1>7. \A p \in T : p.kind = "TIE" =>
        /\ p.id \in TieIDs /\ engine'[n].lsdb[p.id] # None
        /\ <<p.seq, p.content>> = Copy(engine'[n], p.id)
        /\ MayHold(n, p.id)
  <2> SUFFICES ASSUME NEW p \in T, p.kind = "TIE"
               PROVE  /\ p.id \in TieIDs /\ engine'[n].lsdb[p.id] # None
                      /\ <<p.seq, p.content>> = Copy(engine'[n], p.id)
                      /\ MayHold(n, p.id)
    OBVIOUS
  <2>1. PICK id \in Held(e) : p = TIEPacket(e, id)
    BY DEF TIREType, TIEsOf
  <2>2. id \in TieIDs /\ e.lsdb[id] # None
    BY DEF Held
  <2> QED
    BY <1>1, <1>6, <2>1, <2>2, OwnCopy DEF TIEPacket, Copy
<1> HIDE DEF pkts, T
<1>8. net' \in NetType /\ NetEvolves
  BY <1>2, <1>3, <1>4, <1>7, SentStep
<1> QED
  BY <1>4, <1>5, <1>8, TickerUse, NormalStep

\* A fault of a link evolves the system.
LEMMA FaultStep ==
    ASSUME Inv, NEW n \in Nodes, NEW m \in Nodes, Fault(n, m)
    PROVE  Evolves /\ NumbersGrow
<1>1. EnginesEvolve /\ OwnEvolve /\ NumbersGrow
  BY Unmoved DEF Fault
<1>2. used' \in Used /\ used'.restarts = used.restarts
  BY UseFacts DEF Fault
<1>3. \E s \in Seq(InFlight(n, m)) : net' = [net EXCEPT ![n][m] = s]
  <2>1. PICK i \in DOMAIN net[n][m] : LET rest == RemoveAt(net[n][m], i) IN
          \E s \in {rest, Append(net[n][m], net[n][m][i]),
                    Append(rest, net[n][m][i])} : net' = [net EXCEPT ![n][m] = s]
    BY DEF Fault
  <2> QED
    BY <2>1, SeqOfInFlight, FaultyLink
<1>4. /\ net' \in NetType
      /\ \A a, b \in Nodes : InFlight(a, b)' \subseteq InFlight(a, b)
  BY <1>3, LinkStep
<1>5. NetEvolves
  BY <1>4 DEF NetEvolves
<1> QED
  BY <1>1, <1>2, <1>4, <1>5, NormalStep

\* A new engine is well formed and holds nothing.
LEMMA NewEngineType ==
    ASSUME NEW n \in Nodes, NEW p \in LocalPrefixes[n]
    PROVE  /\ NewEngine(p) \in Engine /\ MarksOwn(n, NewEngine(p))
           /\ OwnAlive(n, NewEngine(p)) /\ NewEngine(p).adjacencies = {}
           /\ \A id \in TieIDs : NewEngine(p).lsdb[id] = None
<1>1. p \in SUBSET STRING
  BY FloodConstants
<1> QED
  BY <1>1 DEF NewEngine, Engine, MarksOwn, OwnAlive, Held

\* A restart, which loses the LSDB and what was on its way to the node, evolves the system.
LEMMA RestartStep ==
    ASSUME Inv, NEW n \in Nodes, Restart(n)
    PROVE  Evolves
<1>1. PICK p \in LocalPrefixes[n] : Become(n, NewEngine(p))
  BY DEF Restart
<1>2. EnginesEvolve
  BY <1>1, NewEngineType, BecomeStep
<1>3. net \in NetType /\ net' = [m \in Nodes |-> [net[m] EXCEPT ![n] = <<>>]]
  BY DEF Restart, Inv, Typed, NetType
<1>4. net' \in NetType
  BY <1>3 DEF NetType
<1>5. \A a, b \in Nodes : net'[a][b] \in Seq(InFlight(a, b))
  BY <1>3, SeqOfInFlight DEF NetType
<1>6. NetEvolves
  BY <1>5, InFlightThen DEF NetEvolves
<1>7. used' \in Used /\ used'.restarts # 0
  BY UseRestarts DEF Restart
<1> QED
  BY <1>2, <1>4, <1>6, <1>7 DEF Evolves, EnginesEvolve, Typed, NetType

\* Every step does what the invariant needs; without a restart numbers grow.
LEMMA StepEvolves ==
    ASSUME Inv, Next
    PROVE  Evolves /\ (used'.restarts = used.restarts => NumbersGrow)
<1> PICK n \in Nodes :
        \/ SendTIDEs(n)
        \/ DrainQueues(n)
        \/ TickLifetimes(n)
        \/ Restart(n)
        \/ \E p \in DisaggSets : DisaggUpdate(n, p)
        \/ \E m \in Nodes : \/ AdjacencyUp(n, m)
                            \/ AdjacencyDown(n, m)
                            \/ Receive(n, m)
                            \/ Fault(n, m)
  BY DEF Next
<1>1. CASE SendTIDEs(n)
  BY <1>1, SendTIDEsStep
<1>2. CASE DrainQueues(n)
  BY <1>2, DrainQueuesEvolves
<1>3. CASE TickLifetimes(n)
  <2>1. EnginesEvolve /\ OwnEvolve /\ NumbersGrow
    BY <1>3, TickStep DEF TickLifetimes
  <2>2. used' \in Used /\ used'.restarts = used.restarts
    BY <1>3, UseFacts DEF TickLifetimes
  <2> QED
    BY <1>3, <2>1, <2>2, QuietNet, NormalStep DEF TickLifetimes
<1>4. CASE Restart(n)
  <2>1. used'.restarts # used.restarts
    BY <1>4, UseRestarts DEF Restart
  <2> QED
    BY <1>4, <2>1, RestartStep
<1>5. ASSUME NEW p \in DisaggSets, DisaggUpdate(n, p)
      PROVE  Evolves /\ NumbersGrow
  <2> DEFINE g == handleDisaggUpdate(n, engine[n], p)
  <2>1. p \in SUBSET STRING
    BY FloodConstants
  <2>2. /\ [dir |-> South, orig |-> n, type |-> PosDisaggTIE] \in TieIDs
        /\ Become(n, g) /\ UNCHANGED net /\ Use("disagg", MaxDisagg)
    BY <1>5 DEF DisaggUpdate
  <2>3. /\ g \in Engine /\ g.adjacencies = engine[n].adjacencies
        /\ SameBut(engine[n], g) /\ Reissues(n, engine[n], g)
    BY <2>1, <2>2, EngineFacts, HandleDisaggUpdate
  <2>4. used' \in Used /\ used'.restarts = used.restarts
    BY <2>2, UseFacts
  <2> HIDE DEF g
  <2>5. EnginesEvolve /\ OwnEvolve /\ NumbersGrow
    BY <2>2, <2>3, EngineFacts, ReissueStep
  <2> QED
    BY <2>2, <2>4, <2>5, QuietNet, NormalStep
<1>6. ASSUME NEW m \in Nodes, AdjacencyUp(n, m)
      PROVE  Evolves /\ NumbersGrow
  <2>1. used' \in Used /\ used'.restarts = used.restarts
    BY <1>6, UseFacts, EngineFacts DEF AdjacencyUp
  <2> QED
    BY <1>6, <2>1, AdjacencyStep DEF AdjacencyUp
<1>7. ASSUME NEW m \in Nodes, AdjacencyDown(n, m)
      PROVE  Evolves /\ NumbersGrow
  <2>1. used' \in Used /\ used'.restarts = used.restarts
    BY <1>7, UseFacts DEF AdjacencyDown
  <2> QED
    BY <1>7, <2>1, AdjacencyStep DEF AdjacencyDown
<1>8. ASSUME NEW m \in Nodes, Receive(n, m)
      PROVE  Evolves /\ NumbersGrow
  BY <1>8, ReceiveStep
<1>9. ASSUME NEW m \in Nodes, Fault(n, m)
      PROVE  Evolves /\ NumbersGrow
  BY <1>9, FaultStep
<1> QED
  BY <1>1, <1>2, <1>3, <1>4, <1>5, <1>6, <1>7, <1>8, <1>9

\* The invariant holds initially.
LEMMA InitInv == Init => Inv
<1> SUFFICES ASSUME Init PROVE Inv
  OBVIOUS
<1>1. PICK p \in [Nodes -> UNION {LocalPrefixes[n] : n \in Nodes}] :
        /\ \A n \in Nodes : p[n] \in LocalPrefixes[n]
        /\ engine = [n \in Nodes |-> NewEngine(p[n])]
  BY DEF Init
<1>2. \A n \in Nodes :
        /\ engine[n] \in Engine /\ MarksOwn(n, engine[n])
        /\ OwnAlive(n, engine[n]) /\ engine[n].adjacencies = {}
        /\ \A id \in TieIDs : engine[n].lsdb[id] = None
  BY <1>1, NewEngineType
<1>3. engine \in [Nodes -> Engine]
  BY <1>1, <1>2
<1>4. /\ net = [n \in Nodes |-> [m \in Nodes |-> <<>>]]
      /\ issued \in [TieIDs -> Nat] /\ used \in Used
  BY DEF Init, Used
<1>5. Typed
  BY <1>2, <1>3, <1>4 DEF Typed, TypeOK, MarksOwn
<1>6. \A a, b \in Nodes : InFlight(a, b) = {}
  BY <1>4 DEF InFlight
<1>7. \A id \in TieIDs : Copies(id) = {}
  BY <1>2, <1>5, <1>6, CopiesAre
<1> QED
  BY <1>2, <1>5, <1>6, <1>7
  DEF Inv, ScopeRespected, Held, PacketsInScope, VersionDeterminesContent,
      OriginatorIsAhead

\* Every step, and every stuttering step, keeps the invariant.
LEMMA StepInv == Inv /\ [Next]_vars => Inv'
<1> SUFFICES ASSUME Inv, [Next]_vars PROVE Inv'
  OBVIOUS
<1>1. CASE Next
  <2>1. Evolves
    BY <1>1, StepEvolves
  <2> QED
    BY <2>1, VersionsKept, ScopesKept DEF Inv, Evolves
<1>2. CASE UNCHANGED vars
  <2>1. EnginesEvolve /\ OwnEvolve /\ NumbersGrow /\ net' \in NetType /\ NetEvolves
    BY <1>2, Unmoved, QuietNet DEF vars
  <2>2. used' \in Used /\ used'.restarts = used.restarts
    BY <1>2 DEF vars, Inv, Typed
  <2>3. Evolves
    BY <2>1, <2>2, NormalStep
  <2> QED
    BY <2>3, VersionsKept, ScopesKept DEF Inv, Evolves
<1> QED
  BY <1>1, <1>2

\* The invariant holds in every state of every behaviour.
LEMMA Invariance == Spec => []Inv
BY InitInv, StepInv, PTL DEF Spec

-----------------------------------------------------------------------------
(* Results *)

\* Whatever is lost, duplicated, reordered or restarted, the engines' LSDBs,
\* queues and adjacencies keep their types, and own TIEs, and only these, are
\* marked as self-originated.
THEOREM TypeCorrect == Spec => []TypeOK
<1>1. Inv => TypeOK
  BY DEF Inv, Typed
<1> QED
  BY <1>1, Invariance, PTL

\* While no node has restarted no version of a TIE has two contents, in any
\* fabric: CompareTIEHeader may take equal numbers for equal TIEs.
THEOREM OneContentPerVersion == Spec => []VersionDeterminesContent
<1>1. Inv => VersionDeterminesContent
  BY DEF Inv
<1> QED
  BY <1>1, Invariance, PTL

\* Nobody ever has a version that its originator did not issue, and while no
\* node has restarted the originator's own copy is the newest of all.
THEOREM OriginatorAhead == Spec => []OriginatorIsAhead
<1>1. Inv => OriginatorIsAhead
  BY DEF Inv
<1> QED
  BY <1>1, Invariance, PTL

\* No node ever holds a TIE outside its flooding scope, in fabrics with any
\* number of levels.
THEOREM ScopeIsRespected == Spec => []ScopeRespected
<1>1. Inv => ScopeRespected
  BY DEF Inv
<1> QED
  BY <1>1, Invariance, PTL

\* No engine goes back to an older version, except by a restart.
THEOREM NeverBack == Spec => NoRegression
<1>1. Inv /\ [Next]_vars =>
        [\A n \in Nodes : \A id \in TieIDs :
          /\ used'.restarts = used.restarts
          /\ engine[n].lsdb[id] # None /\ engine'[n].lsdb[id] # None
          => engine'[n].lsdb[id].seq >= engine[n].lsdb[id].seq]_vars
  BY StepEvolves DEF NumbersGrow
<1> QED
  BY <1>1, Invariance, PTL DEF Spec, NoRegression
=============================================================================
