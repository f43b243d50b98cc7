--------------------------- MODULE DispatchProofs ---------------------------
(***************************************************************************)
(* What a client gets is right, for all servers, slices, static shards and *)
(* requests: AnswersAreRight is proved from an invariant that follows the  *)
(* handler from one acquisition of the grid's lock to the next.            *)
(***************************************************************************)
EXTENDS Dispatch, FiniteSetTheorems, WellFoundedInduction, TLAPS

-----------------------------------------------------------------------------
(* Types *)

AnySlice == UNION {Assigned[s] \cup {Holds[s]} : s \in Servers}

AnyLat == UNION {[L -> Latencies] : L \in SUBSET Layers}

Entries == [slice : AnySlice, rif : Loads \cup {0}, rtt : Rtts \cup {None}, lat : AnyLat]

Subs == [at : {"primary", "racing", "done"}, by : Servers, got : {"none", "rows", "refused", "fail"}]

\* What TypeOK says, and the shape of the records.
TypeInv ==
  /\ TypeOK
  /\ entry \in [Servers -> Entries]
  /\ req.kind \in {"dense", "moe"} /\ None \notin req.items
  /\ missing \in [item : req.items \cup {None}, owned : BOOLEAN]
  /\ stage \in {"targets", "fanout"} => urls \in [req.items -> Servers]
  /\ stage = "proxy" => urls \in [req.items -> Servers]
  /\ sub \in [DOMAIN sub -> Subs]
  /\ second \in [DOMAIN sub -> Servers \cup {None}]
  /\ stage \notin {"fanout", "answered"} => DOMAIN sub = {}
  /\ \A p \in DOMAIN sub : sub[p].at = "racing" => second[p] # None

\* What register inserts.
LEMMA FreshIsEntry ==
  ASSUME NEW s \in Servers, NEW x \in Assigned[s] \cup {Holds[s]}
  PROVE  Fresh(x) \in Entries /\ Fresh(x).slice = x
<1>1. <<>> \in [{} -> Latencies] /\ {} \in SUBSET Layers
  OBVIOUS
<1>2. <<>> \in AnyLat
  BY <1>1 DEF AnyLat
<1>3. x \in AnySlice
  BY DEF AnySlice
<1> QED
  BY <1>2, <1>3 DEF Fresh, Entries

LEMMA TypeInit == Init => TypeInv
<1> SUFFICES ASSUME Init PROVE TypeInv
  OBVIOUS
<1> USE ShardsAssumption, RequestsAssumption, UpsetsAssumption DEF Init
<1>1. DOMAIN urls = {} /\ DOMAIN sub = {} /\ DOMAIN second = {} /\ req.items = {}
  OBVIOUS
<1>2. entry \in [Servers -> Entries] /\ \A s \in Servers : entry[s].slice = Holds[s]
  BY FreshIsEntry
<1>3. TypeOK
  BY <1>1, <1>2 DEF TypeOK, NoAnswer, Entries
<1>4. sub \in [DOMAIN sub -> Subs] /\ second \in [DOMAIN sub -> Servers \cup {None}]
  BY <1>1
<1> QED
  BY <1>1, <1>2, <1>3, <1>4 DEF TypeInv

-----------------------------------------------------------------------------
(* The topology moves under the handler *)

\* A step of a server leaves the request alone, keeps types, and either leaves the listed
\* servers and their slices as they are, or lists one more, or is counted.
Moved ==
  /\ UNCHANGED request
  /\ up' \subseteq Servers /\ listed' \subseteq Servers /\ upsets' \in 0 .. Upsets
  /\ entry' \in [Servers -> Entries]
  /\ \A s \in listed' : entry'[s].slice \in Assigned[s] \cup {Holds[s]}
  /\ \/ upsets' = upsets + 1
     \/ upsets' = upsets /\ \E s \in Servers : s \notin listed /\ listed' = listed \cup {s}
     \/ /\ upsets' = upsets /\ listed' = listed
        /\ \A s \in listed : entry'[s].slice = entry[s].slice

LEMMA RegisterMoves ==
  ASSUME TypeInv, NEW s \in Servers, NEW x \in Assigned[s] \cup {Holds[s]}, Register(s, x)
  PROVE  Moved
<1>1. Fresh(x) \in Entries /\ Fresh(x).slice = x
  BY FreshIsEntry
<1>2. entry' \in [Servers -> Entries] /\ entry'[s] = Fresh(x) /\ \A t \in Servers \ {s} : entry'[t] = entry[t]
  BY <1>1 DEF TypeInv, Register
<1> QED
  BY <1>1, <1>2 DEF TypeInv, TypeOK, Register, Moved

\* A report changes an entry and not its slice.
LEMMA ReportMoves ==
  ASSUME TypeInv, NEW s \in Servers, NEW v \in Entries, v.slice = entry[s].slice,
         entry' = [entry EXCEPT ![s] = v], UNCHANGED <<up, listed, upsets, request>>
  PROVE  Moved
<1>1. entry' \in [Servers -> Entries] /\ \A t \in Servers : entry'[t].slice = entry[t].slice
  BY DEF TypeInv
<1> QED
  BY <1>1 DEF TypeInv, TypeOK, Moved

LEMMA HeartbeatMoves ==
  ASSUME TypeInv, NEW s \in Servers, Heartbeat(s)
  PROVE  Moved
<1>1. entry \in [Servers -> Entries] /\ entry[s] \in Entries
  BY DEF TypeInv
<1>2. PICK n \in Loads :
        \/ entry' = [entry EXCEPT ![s].rif = n]
        \/ \E l \in Layers, v \in Latencies :
             entry' = [entry EXCEPT ![s].rif = n,
                                    ![s].lat = [k \in DOMAIN @ \cup {l} |-> IF k = l THEN v ELSE @[k]]]
  BY DEF Heartbeat
<1>3. CASE entry' = [entry EXCEPT ![s].rif = n]
  <2>1. PICK w : w = [entry[s] EXCEPT !.rif = n]
    OBVIOUS
  <2>2. w \in Entries /\ w.slice = entry[s].slice
    BY <1>1, <2>1 DEF Entries
  <2>3. entry' = [entry EXCEPT ![s] = w]
    BY <1>1, <1>3, <2>1
  <2> QED
    BY <2>2, <2>3, ReportMoves DEF Heartbeat
<1>4. ASSUME NEW l \in Layers, NEW v \in Latencies,
             entry' = [entry EXCEPT ![s].rif = n,
                                    ![s].lat = [k \in DOMAIN @ \cup {l} |-> IF k = l THEN v ELSE @[k]]]
      PROVE  Moved
  <2>1. PICK lat : lat = [k \in DOMAIN entry[s].lat \cup {l} |-> IF k = l THEN v ELSE entry[s].lat[k]]
    OBVIOUS
  <2>2. lat \in AnyLat
    <3>1. PICK L \in SUBSET Layers : entry[s].lat \in [L -> Latencies]
      BY <1>1 DEF Entries, AnyLat
    <3>2. lat \in [L \cup {l} -> Latencies] /\ L \cup {l} \in SUBSET Layers
      BY <2>1, <3>1
    <3> QED
      BY <3>2 DEF AnyLat
  <2>3. PICK w : w = [[entry[s] EXCEPT !.rif = n] EXCEPT !.lat = lat]
    OBVIOUS
  <2>4. w \in Entries /\ w.slice = entry[s].slice
    BY <1>1, <2>2, <2>3 DEF Entries
  <2>5. entry' = [entry EXCEPT ![s] = w]
    BY <1>1, <1>4, <2>1, <2>3
  <2> QED
    BY <2>4, <2>5, ReportMoves DEF Heartbeat
<1> QED
  BY <1>2, <1>3, <1>4

LEMMA ProbeMoves ==
  ASSUME TypeInv, NEW s \in Servers, Probe(s)
  PROVE  Moved
<1>1. entry \in [Servers -> Entries] /\ entry[s] \in Entries
  BY DEF TypeInv
<1>2. PICK v \in Rtts \cup {None} : entry' = [entry EXCEPT ![s].rtt = v]
  BY DEF Probe
<1>3. PICK w : w = [entry[s] EXCEPT !.rtt = v]
  OBVIOUS
<1>4. w \in Entries /\ w.slice = entry[s].slice
  BY <1>1, <1>3 DEF Entries
<1>5. entry' = [entry EXCEPT ![s] = w]
  BY <1>1, <1>2, <1>3
<1> QED
  BY <1>4, <1>5, ReportMoves DEF Probe

LEMMA MovesMove ==
  ASSUME TypeInv, NEW s \in Servers, Moves(s)
  PROVE  Moved
<1>1. CASE Announce(s)
  BY <1>1, RegisterMoves DEF Announce
<1>2. CASE Ready(s)
  BY <1>2, RegisterMoves DEF Ready
<1>3. CASE Leave(s) \/ Crash(s) \/ Restart(s)
  BY <1>3, UpsetsAssumption DEF Leave, Crash, Restart, TypeInv, TypeOK, Moved
<1>4. CASE Heartbeat(s)
  BY <1>4, HeartbeatMoves
<1>5. CASE Probe(s)
  BY <1>5, ProbeMoves
<1> QED
  BY <1>1, <1>2, <1>3, <1>4, <1>5 DEF Moves

LEMMA MovedType == ASSUME TypeInv, Moved PROVE TypeInv'
<1>1. \A s \in listed' : entry'[s].rif \in Loads \cup {0} /\ entry'[s].rtt \in Rtts \cup {None}
  BY DEF Moved, Entries
<1>2. TypeOK'
  BY <1>1 DEF Moved, TypeInv, TypeOK, request, Primaries
<1> QED
  BY <1>2 DEF Moved, TypeInv, request

-----------------------------------------------------------------------------
(* The handler keeps types *)

LEMMA ReceiveType == ASSUME TypeInv, Receive PROVE TypeInv'
<1>1. PICK r \in Requests :
        /\ req' = r
        /\ urls' = [i \in r.items |-> None]
        /\ second' = <<>> /\ sub' = <<>>
        /\ missing' = [item |-> None, owned |-> FALSE]
        /\ IF r.items = {}
           THEN Answers(400, {})
           ELSE IF r.kind = "moe" /\ ~HasGrid
           THEN Answers(503, {})
           ELSE stage' = "resolve" /\ answer' = NoAnswer
  BY DEF Receive
<1>2. UNCHANGED topology
  BY DEF Receive
<1>3. DOMAIN urls' = req'.items /\ DOMAIN sub' = {} /\ DOMAIN second' = {}
  BY <1>1
<1>4. stage' \in {"answered", "resolve"} /\ answer'.status \in {0, 200, 400, 502, 503}
  BY <1>1 DEF Answers, NoAnswer
<1>5. TypeOK'
  BY <1>2, <1>3, <1>4 DEF TypeInv, TypeOK, topology
<1>6. sub' \in [DOMAIN sub' -> Subs] /\ second' \in [DOMAIN sub' -> Servers \cup {None}]
  BY <1>1, <1>3
<1>7. req'.kind \in {"dense", "moe"} /\ None \notin req'.items
  BY <1>1, RequestsAssumption
<1> QED
  BY <1>1, <1>2, <1>4, <1>5, <1>6, <1>7 DEF TypeInv, topology

\* A number that fits is the least that fits of some.
LEMMA LeastExists ==
  ASSUME NEW S \in SUBSET Nat, S # {}
  PROVE  \E m \in S : \A n \in S : m <= n
<1> DEFINE B == {1 .. n : n \in S}
<1>1. B # {}
  OBVIOUS
<1>2. B \subseteq FiniteSubsetsOf(Nat)
  <2>1. \A n \in Nat : IsFiniteSet(1 .. n) /\ 1 .. n \in SUBSET Nat
    BY FS_Interval
  <2> QED
    BY <2>1 DEF FiniteSubsetsOf
<1>3. PICK T \in B : \A U \in B : ~ (<<U, T>> \in StrictSubsetOrdering(Nat))
  BY <1>1, <1>2, FS_StrictSubsetOrderingWellFounded, WFMin
<1>4. PICK m \in S : T = 1 .. m
  BY <1>3
<1>5. ASSUME NEW n \in S, n < m PROVE FALSE
  <2>1. m \in Nat /\ n \in Nat
    OBVIOUS
  <2>2. m \in 1 .. m /\ m \notin 1 .. n /\ 1 .. n \subseteq 1 .. m
    BY <2>1, <1>5
  <2>3. <<1 .. n, 1 .. m>> \in StrictSubsetOrdering(Nat)
    BY <2>1, <2>2 DEF StrictSubsetOrdering
  <2> QED
    BY <1>3, <1>4, <2>3
<1> HIDE DEF B
<1> QED
  BY <1>5

\* The static shard of an item is one whose range has it.
LEMMA StaticIsFit ==
  ASSUME NEW i, StaticFor(i) # None
  PROVE  \E n \in DOMAIN Statics :
           /\ StaticFor(i) = Statics[n].url /\ Statics[n].url \in Servers
           /\ Statics[n].start <= i[1] /\ i[1] < Statics[n].end
<1> DEFINE fits == {k \in DOMAIN Statics : Statics[k].start <= i[1] /\ i[1] < Statics[k].end}
<1>1. fits # {} /\ StaticFor(i) = Statics[Min(fits)].url
  BY DEF StaticFor
<1>2. DOMAIN Statics \subseteq Nat
  BY ShardsAssumption
<1>3. fits \in SUBSET Nat
  BY <1>2
<1>4. PICK m \in fits : \A n \in fits : m <= n
  BY <1>1, <1>3, LeastExists
<1>5. Min(fits) \in fits
  <2> HIDE DEF fits
  <2> QED
    BY <1>4 DEF Min
<1>6. \A n \in DOMAIN Statics : Statics[n].url \in Servers
  <2> DEFINE R == [url : Servers, start : Nat, end : Nat]
  <2>1. Statics \in Seq(R)
    BY ShardsAssumption
  <2>2. \A n \in DOMAIN Statics : Statics[n] \in R
    <3> HIDE DEF R
    <3> QED
      BY <2>1
  <2> QED
    BY <2>2
<1> QED
  BY <1>1, <1>5, <1>6

\* An item is placed with a listed server that owns it, or with a static shard for it.
LEMMA PlacedRight ==
  ASSUME TypeInv, NEW kind, NEW i, NEW s \in Placements(kind, i), s # None
  PROVE  /\ s \in Servers
         /\ \/ s \in listed /\ Owns(entry[s].slice, kind, i)
            \/ /\ kind # "moe"
               /\ \E n \in DOMAIN Statics : /\ s = Statics[n].url
                                            /\ Statics[n].start <= i[1] /\ i[1] < Statics[n].end
<1>1. CASE s \in Best(Candidates(kind, i), i[1])
  BY <1>1 DEF Best, Candidates, Owners, TypeInv, TypeOK
<1>2. CASE kind # "moe" /\ s = StaticFor(i)
  BY <1>2, StaticIsFit
<1> QED
  BY <1>1, <1>2 DEF Placements

LEMMA ResolveType == ASSUME TypeInv, Resolve PROVE TypeInv'
<1>1. PICK f \in Resolutions :
       /\ urls' = f
       /\ IF \E i \in req.items : f[i] = None
          THEN /\ \E i \in {j \in req.items : f[j] = None} :
                    missing' = [item |-> i, owned |-> HasGrid /\ Owners(req.kind, i) # {}]
               /\ IF req.kind = "moe" THEN Answers(503, {})
                  ELSE stage' = "classify" /\ UNCHANGED answer
          ELSE /\ UNCHANGED missing
               /\ IF req.kind = "dense" /\ Cardinality(Primaries(f)) = 1
                  THEN stage' = "proxy" /\ UNCHANGED answer
                  ELSE IF req.binary THEN Answers(400, {})
                  ELSE stage' = "targets" /\ UNCHANGED answer
  BY DEF Resolve
<1>2. UNCHANGED <<topology, req, second, sub>>
  BY DEF Resolve
<1>3. DOMAIN f = req.items /\ \A i \in req.items : f[i] \in Placements(req.kind, i)
  BY DEF Resolutions
<1>4. (\A i \in req.items : f[i] # None) => f \in [req.items -> Servers]
  <2>1. f = [i \in req.items |-> f[i]]
    BY DEF Resolutions
  <2> QED
    BY <1>3, <2>1, PlacedRight
<1>5. stage' \in {"answered", "classify", "proxy", "targets"} /\ answer'.status \in {0, 200, 400, 502, 503}
  BY <1>1 DEF Answers, TypeInv, TypeOK
<1>6. missing' \in [item : req.items \cup {None}, owned : BOOLEAN]
  <2>1. CASE \A i \in req.items : f[i] # None
    BY <1>1, <2>1 DEF TypeInv
  <2>2. ASSUME NEW i \in req.items,
               missing' = [item |-> i, owned |-> HasGrid /\ Owners(req.kind, i) # {}]
        PROVE  missing' \in [item : req.items \cup {None}, owned : BOOLEAN]
    <3>1. PICK owned \in BOOLEAN : owned = (HasGrid /\ Owners(req.kind, i) # {})
      BY ShardsAssumption
    <3>2. missing' = [item |-> i, owned |-> owned]
      BY <2>2, <3>1
    <3> QED
      BY <3>2
  <2> QED
    BY <1>1, <2>1, <2>2
<1>7. stage' \in {"proxy", "targets"} => \A i \in req.items : f[i] # None
  BY <1>1 DEF Answers
<1>8. DOMAIN sub = {}
  BY DEF TypeInv, Resolve
<1>9. TypeOK'
  BY <1>1, <1>2, <1>3, <1>5, <1>8 DEF TypeInv, TypeOK, topology
<1> QED
  BY <1>1, <1>2, <1>4, <1>5, <1>6, <1>7, <1>8, <1>9 DEF TypeInv, topology

LEMMA ClassifyType == ASSUME TypeInv, Classify PROVE TypeInv'
<1>1. UNCHANGED <<topology, req, urls, missing, second, sub>> /\ stage' = "answered"
      /\ answer'.status \in {0, 200, 400, 502, 503}
  BY DEF Classify, Answers
<1>2. TypeOK'
  BY <1>1 DEF TypeInv, TypeOK, topology, Primaries
<1> QED
  BY <1>1, <1>2 DEF TypeInv, topology

LEMMA ProxyType == ASSUME TypeInv, ProxyRaw PROVE TypeInv'
<1>1. PICK s \in Primaries(urls) :
        CASE Reply(s, req.items) = "rows"    -> Answers(200, {<<i, s>> : i \in req.items})
          [] Reply(s, req.items) = "refused" -> Answers(400, {})
          [] Reply(s, req.items) = "fail"    -> Answers(502, {})
  BY DEF ProxyRaw
<1>2. stage' = "answered" /\ answer'.status \in {0, 200, 400, 502, 503}
  <2>1. Reply(s, req.items) \in {"rows", "refused", "fail"}
    BY DEF Reply
  <2>2. \/ Answers(200, {<<i, s>> : i \in req.items})
        \/ Answers(400, {})
        \/ Answers(502, {})
    BY <1>1, <2>1
  <2> QED
    BY <2>2 DEF Answers
<1>3. UNCHANGED <<topology, req, urls, missing, second, sub>>
  BY DEF ProxyRaw
<1>4. TypeOK'
  BY <1>2, <1>3 DEF TypeInv, TypeOK, topology, Primaries
<1> QED
  BY <1>2, <1>3, <1>4 DEF TypeInv, topology

LEMMA FinishType == ASSUME TypeInv, Finish PROVE TypeInv'
<1>1. UNCHANGED <<topology, req, urls, missing, second, sub>> /\ stage' = "answered"
      /\ answer'.status \in {0, 200, 400, 502, 503}
  BY DEF Finish, Answers
<1>2. TypeOK'
  BY <1>1 DEF TypeInv, TypeOK, topology, Primaries
<1> QED
  BY <1>1, <1>2 DEF TypeInv, topology

LEMMA TargetsType == ASSUME TypeInv, PickTargets PROVE TypeInv'
<1>1. UNCHANGED <<topology, req, urls, missing, answer>> /\ stage = "targets" /\ stage' = "fanout"
  BY DEF PickTargets
<1>2. second' \in [Primaries(urls) -> Servers \cup {None}]
  BY DEF PickTargets
<1>3. sub' = [p \in Primaries(urls) |-> [at |-> "primary", by |-> p, got |-> "none"]]
  BY DEF PickTargets
<1>4. \A p \in Primaries(urls) : p \in Servers
  BY <1>1 DEF TypeInv, Primaries
<1>5. DOMAIN sub' = Primaries(urls) /\ Primaries(urls) = Primaries(urls)'
  BY <1>1, <1>3 DEF Primaries
<1>6. sub' \in [Primaries(urls) -> Subs] /\ \A p \in Primaries(urls) : sub'[p].at = "primary"
  BY <1>3, <1>4 DEF Subs
<1>7. TypeOK'
  BY <1>1, <1>2, <1>5 DEF TypeInv, TypeOK, topology
<1> QED
  BY <1>1, <1>2, <1>5, <1>6, <1>7 DEF TypeInv, topology

\* A step of a part of the fan-out changes its own record.
LEMMA FanType ==
  ASSUME TypeInv, stage = "fanout", NEW p \in DOMAIN sub, Fan(p)
  PROVE  /\ TypeInv'
         /\ UNCHANGED <<topology, stage, req, urls, missing, second, answer>>
         /\ \A q \in DOMAIN sub \ {p} : sub'[q] = sub[q]
         /\ DOMAIN sub' = DOMAIN sub
         /\ \/ sub'[p].at = "racing" /\ sub'[p].got = sub[p].got
            \/ \E s \in {p, second[p]} \ {None} :
                 sub'[p].at = "done" /\ sub'[p].got = Reply(s, Group(p))
<1>1. /\ sub[p] \in Subs /\ second[p] \in Servers \cup {None} /\ p \in Servers
      /\ sub[p].at = "racing" => second[p] # None
  BY DEF TypeInv, TypeOK, Primaries
<1>2. None \notin Servers
  BY ShardsAssumption
<1>3. \A s : Reply(s, Group(p)) \in {"rows", "refused", "fail"}
  BY DEF Reply
<1>4. UNCHANGED <<topology, stage, req, urls, missing, second, answer>>
  BY DEF Fan, PrimaryReplies, HedgeFires, SecondaryReplies, Settle
<1>5. PICK v \in Subs :
        /\ sub' = [sub EXCEPT ![p] = v]
        /\ \/ v.at = "racing" /\ v.got = sub[p].got /\ second[p] # None
           \/ \E s \in {p, second[p]} \ {None} : v.at = "done" /\ v.got = Reply(s, Group(p))
  <2>1. CASE HedgeFires(p)
    <3>1. sub' = [sub EXCEPT ![p] = [sub[p] EXCEPT !.at = "racing"]]
      BY <2>1 DEF HedgeFires
    <3>2. PICK v : v = [sub[p] EXCEPT !.at = "racing"]
      OBVIOUS
    <3>3. v \in Subs /\ v.at = "racing" /\ v.got = sub[p].got /\ second[p] # None
      BY <1>1, <2>1, <3>2 DEF Subs, HedgeFires
    <3> QED
      BY <3>1, <3>2, <3>3
  <2>2. ASSUME NEW s \in {p, second[p]} \ {None}, Settle(p, s) PROVE \E v \in Subs :
        /\ sub' = [sub EXCEPT ![p] = v]
        /\ \/ v.at = "racing" /\ v.got = sub[p].got /\ second[p] # None
           \/ \E t \in {p, second[p]} \ {None} : v.at = "done" /\ v.got = Reply(t, Group(p))
    <3>1. PICK v : v = [at |-> "done", by |-> s, got |-> Reply(s, Group(p))]
      OBVIOUS
    <3>2. v \in Subs /\ v.at = "done" /\ v.got = Reply(s, Group(p))
      BY <1>1, <1>3, <3>1 DEF Subs
    <3>3. sub' = [sub EXCEPT ![p] = v]
      BY <2>2, <3>1 DEF Settle
    <3> QED
      BY <3>2, <3>3
  <2> QED
    BY <1>1, <1>2, <2>1, <2>2 DEF Fan, PrimaryReplies, SecondaryReplies
<1>6. DOMAIN sub' = DOMAIN sub /\ sub'[p] = v /\ \A q \in DOMAIN sub \ {p} : sub'[q] = sub[q]
  BY <1>5 DEF TypeInv
<1>7. sub' \in [DOMAIN sub' -> Subs]
  BY <1>5, <1>6 DEF TypeInv
<1>8. TypeOK'
  BY <1>4, <1>6 DEF TypeInv, TypeOK, topology, Primaries
<1>9. TypeInv'
  BY <1>4, <1>5, <1>6, <1>7, <1>8 DEF TypeInv, topology
<1> QED
  BY <1>4, <1>5, <1>6, <1>9

-----------------------------------------------------------------------------
(* Answers are complete: whoever is asked for a part serves all of it *)

SingleOrAlike == Cardinality(Primaries(urls)) = 1 \/ OwnersAlike

RightInv ==
  /\ stage # "answered" => answer.status = 0
  /\ \A p \in DOMAIN sub : sub[p].at = "done" => sub[p].got # "none"
  /\ stage \in {"targets", "fanout"} /\ req.kind = "dense" => Cardinality(Primaries(urls)) # 1
  /\ stage \in {"targets", "fanout"} /\ req.kind = "dense" /\ OwnersAlike =>
       \A i \in req.items : Owns(Holds[urls[i]], "dense", i)
  /\ stage = "fanout" /\ req.kind = "dense" /\ OwnersAlike =>
       \A p \in DOMAIN sub :
         /\ second[p] # None => \A i \in Group(p) : Owns(Holds[second[p]], "dense", i)
         /\ sub[p].got # "refused"
  /\ req.kind = "dense" /\ SingleOrAlike => AnswerIsComplete

\* What a step that leaves the request alone does.
LEMMA RightStays == ASSUME RightInv, UNCHANGED request PROVE RightInv'
BY DEF RightInv, request, SingleOrAlike, OwnersAlike, Primaries, Group, AnswerIsComplete

LEMMA ReceiveRight == ASSUME TypeInv, RightInv, Receive PROVE RightInv'
<1>1. PICK r \in Requests :
        /\ sub' = <<>>
        /\ IF r.items = {}
           THEN Answers(400, {})
           ELSE IF r.kind = "moe" /\ ~HasGrid
           THEN Answers(503, {})
           ELSE stage' = "resolve" /\ answer' = NoAnswer
  BY DEF Receive
<1>2. stage' \in {"answered", "resolve"} /\ answer'.status # 200 /\ DOMAIN sub' = {}
      /\ (stage' = "resolve" => answer'.status = 0)
  BY <1>1 DEF Answers, NoAnswer
<1> QED
  BY <1>2 DEF RightInv, AnswerIsComplete

\* Whom the grid or the static list places an item with serves it, where owners are alike.
LEMMA PlacedServes ==
  ASSUME TypeInv, OwnersAlike, NEW i \in req.items, NEW s \in Placements("dense", i), s # None
  PROVE  Owns(Holds[s], "dense", i)
<1>1. /\ s \in Servers
      /\ \/ s \in listed /\ Owns(entry[s].slice, "dense", i)
         \/ \E n \in DOMAIN Statics : /\ s = Statics[n].url
                                      /\ Statics[n].start <= i[1] /\ i[1] < Statics[n].end
  BY PlacedRight
<1>2. s \in listed => entry[s].slice \in Assigned[s] \cup {Holds[s]}
  BY DEF TypeInv, TypeOK
<1> QED
  BY <1>1, <1>2 DEF OwnersAlike

LEMMA ResolveRight == ASSUME TypeInv, RightInv, Resolve PROVE RightInv'
<1>1. PICK f \in Resolutions :
       /\ urls' = f
       /\ IF \E i \in req.items : f[i] = None
          THEN IF req.kind = "moe" THEN Answers(503, {})
               ELSE stage' = "classify" /\ UNCHANGED answer
          ELSE IF req.kind = "dense" /\ Cardinality(Primaries(f)) = 1
               THEN stage' = "proxy" /\ UNCHANGED answer
               ELSE IF req.binary THEN Answers(400, {})
               ELSE stage' = "targets" /\ UNCHANGED answer
  BY DEF Resolve
<1>2. UNCHANGED <<topology, req, second, sub>> /\ answer.status = 0 /\ DOMAIN sub = {}
  BY DEF Resolve, RightInv, TypeInv
<1>3. \A i \in req.items : f[i] \in Placements(req.kind, i)
  BY DEF Resolutions
<1>4. /\ stage' \in {"answered", "classify", "proxy", "targets"} /\ answer'.status # 200
      /\ (stage' # "answered" => answer'.status = 0)
      /\ (stage' = "targets" => \A i \in req.items : f[i] # None)
      /\ (stage' = "targets" /\ req.kind = "dense" => Cardinality(Primaries(f)) # 1)
  BY <1>1, <1>2 DEF Answers
<1>5. ASSUME stage' = "targets", req.kind = "dense", OwnersAlike, NEW i \in req.items
      PROVE  Owns(Holds[f[i]], "dense", i)
  BY <1>3, <1>4, <1>5, PlacedServes
<1>6. Primaries(urls)' = Primaries(f) /\ OwnersAlike' = OwnersAlike
  BY <1>1, <1>2 DEF Primaries, OwnersAlike
<1> QED
  BY <1>1, <1>2, <1>4, <1>5, <1>6 DEF RightInv, AnswerIsComplete

LEMMA ClassifyRight == ASSUME TypeInv, RightInv, Classify PROVE RightInv'
<1>1. UNCHANGED <<req, urls, sub>> /\ stage' = "answered" /\ answer'.status # 200
  BY DEF Classify, Answers
<1> QED
  BY <1>1 DEF RightInv, AnswerIsComplete

\* The hedge target of a group is a listed owner of one of its items.
LEMMA HedgeOwns ==
  ASSUME TypeInv, NEW kind, NEW i, NEW p, NEW s \in HedgeTargets(kind, i, p), s # None
  PROVE  s \in listed /\ Owns(entry[s].slice, kind, i)
<1> DEFINE C == Candidates(kind, i)
<1>1. Best(C, i[1]) \subseteq C /\ Best(C \ {p}, i[1]) \subseteq C
  BY DEF Best
<1>2. s \in C
  <2> HIDE DEF C
  <2>1. C # {} /\ \E t \in Best(C, i[1]) :
          s \in (IF t # p THEN {t} ELSE IF C = {p} THEN {None} ELSE Best(C \ {p}, i[1]))
    BY DEF HedgeTargets, C
  <2> QED
    BY <1>1, <2>1
<1> QED
  BY <1>2 DEF Candidates, Owners

LEMMA TargetsRight == ASSUME TypeInv, RightInv, PickTargets PROVE RightInv'
<1>1. UNCHANGED <<topology, req, urls, missing, answer>> /\ stage = "targets" /\ stage' = "fanout"
  BY DEF PickTargets
<1>2. \A p \in Primaries(urls) : second'[p] # None =>
        \E probe \in Group(p) : second'[p] \in HedgeTargets(req.kind, probe, p)
  BY DEF PickTargets
<1>3. sub' = [p \in Primaries(urls) |-> [at |-> "primary", by |-> p, got |-> "none"]]
  BY DEF PickTargets
<1>4. ASSUME req.kind = "dense", OwnersAlike, NEW p \in Primaries(urls), second'[p] # None,
             NEW j \in Group(p)
      PROVE  Owns(Holds[second'[p]], "dense", j)
  <2>1. PICK i \in Group(p) : second'[p] \in HedgeTargets("dense", i, p)
    BY <1>2, <1>4
  <2>2. i \in req.items /\ j \in req.items /\ urls[i] = p /\ urls[j] = p
    BY <2>1 DEF Group
  <2>3. second'[p] \in listed /\ Owns(entry[second'[p]].slice, "dense", i)
    BY <1>4, <2>1, HedgeOwns
  <2>4. second'[p] \in Servers /\ entry[second'[p]].slice \in Assigned[second'[p]] \cup {Holds[second'[p]]}
    BY <2>3 DEF TypeInv, TypeOK
  <2>5. Owns(Holds[second'[p]], "dense", i)
    BY <1>4, <2>2, <2>3, <2>4 DEF OwnersAlike
  <2>6. Owns(Holds[p], "dense", i) /\ Owns(Holds[p], "dense", j) /\ p \in Servers
    BY <1>1, <1>4, <2>2 DEF RightInv, TypeInv
  <2> QED
    BY <1>4, <2>2, <2>4, <2>5, <2>6 DEF OwnersAlike
<1>5. /\ DOMAIN sub' = Primaries(urls)
      /\ \A p \in Primaries(urls) : sub'[p].at = "primary" /\ sub'[p].got = "none"
      /\ Primaries(urls)' = Primaries(urls) /\ OwnersAlike' = OwnersAlike
      /\ \A p : Group(p)' = Group(p)
  BY <1>1, <1>3 DEF Primaries, OwnersAlike, Group
<1>6. answer'.status = 0
  BY <1>1 DEF RightInv
<1> QED
  BY <1>1, <1>4, <1>5, <1>6 DEF RightInv, AnswerIsComplete

LEMMA FanRight ==
  ASSUME TypeInv, RightInv, stage = "fanout", NEW p \in DOMAIN sub, Fan(p)
  PROVE  RightInv'
<1>1. /\ UNCHANGED <<topology, stage, req, urls, missing, second, answer>>
      /\ \A q \in DOMAIN sub \ {p} : sub'[q] = sub[q]
      /\ DOMAIN sub' = DOMAIN sub
      /\ \/ sub'[p].at = "racing" /\ sub'[p].got = sub[p].got
         \/ \E s \in {p, second[p]} \ {None} :
              sub'[p].at = "done" /\ sub'[p].got = Reply(s, Group(p))
  BY FanType
<1>2. sub'[p].at = "done" => sub'[p].got # "none"
  BY <1>1 DEF Reply
<1>3. ASSUME req.kind = "dense", OwnersAlike PROVE sub'[p].got # "refused"
  <2>1. \A i \in Group(p) : Owns(Holds[p], "dense", i)
    BY <1>3 DEF RightInv, Group
  <2>2. second[p] # None => \A i \in Group(p) : Owns(Holds[second[p]], "dense", i)
    BY <1>3 DEF RightInv
  <2>3. ASSUME NEW s \in {p, second[p]} \ {None} PROVE Reply(s, Group(p)) # "refused"
    BY <1>3, <2>1, <2>2 DEF Reply, Serves
  <2>4. sub[p].got # "refused"
    BY <1>3 DEF RightInv
  <2> QED
    BY <1>1, <2>3, <2>4
<1>4. /\ Primaries(urls)' = Primaries(urls) /\ OwnersAlike' = OwnersAlike
      /\ \A q : Group(q)' = Group(q)
  BY <1>1 DEF Primaries, OwnersAlike, Group
<1>5. answer'.status = 0
  BY <1>1 DEF RightInv
<1> QED
  BY <1>1, <1>2, <1>3, <1>4, <1>5 DEF RightInv, AnswerIsComplete

\* All parts have rows: every item is in one of them.
LEMMA AllMerged ==
  ASSUME TypeInv, stage = "fanout", \A p \in DOMAIN sub : sub[p].got = "rows"
  PROVE  {r[1] : r \in MergedRows} = req.items
<1>1. DOMAIN sub = Primaries(urls)
  BY DEF TypeInv, TypeOK
<1>2. ASSUME NEW r \in MergedRows PROVE r[1] \in req.items
  <2>1. PICK p \in DOMAIN sub : r \in {<<i, sub[p].by>> : i \in Group(p)}
    BY DEF MergedRows
  <2> QED
    BY <2>1 DEF Group
<1>3. ASSUME NEW i \in req.items PROVE \E r \in MergedRows : r[1] = i
  <2>1. urls[i] \in DOMAIN sub /\ i \in Group(urls[i])
    BY <1>1 DEF Primaries, Group
  <2>2. PICK p \in DOMAIN sub : p = urls[i]
    BY <2>1
  <2>3. <<i, sub[p].by>> \in {<<k, sub[p].by>> : k \in Group(p)}
    BY <2>1, <2>2
  <2>4. <<i, sub[p].by>> \in MergedRows
    BY <2>2, <2>3 DEF MergedRows
  <2> QED
    BY <2>4
<1> QED
  BY <1>2, <1>3

LEMMA FinishRight == ASSUME TypeInv, RightInv, Finish PROVE RightInv'
<1>1. UNCHANGED <<topology, req, urls, missing, second, sub>> /\ stage = "fanout" /\ stage' = "answered"
  BY DEF Finish, Answers
<1>2. /\ Primaries(urls)' = Primaries(urls) /\ OwnersAlike' = OwnersAlike
  BY <1>1 DEF Primaries, OwnersAlike
<1>3. ASSUME req.kind = "dense", SingleOrAlike, answer'.status = 200
      PROVE  {r[1] : r \in answer'.rows} = req.items
  <2>1. OwnersAlike
    BY <1>1, <1>3 DEF RightInv, SingleOrAlike
  <2>2. /\ \A p \in DOMAIN sub : sub[p].at = "done" /\ sub[p].got # "fail"
        /\ answer'.rows = MergedRows
    BY <1>3 DEF Finish, Answers
  <2>3. \A p \in DOMAIN sub : sub[p].got = "rows"
    <3>1. \A p \in DOMAIN sub : sub[p].got \in {"none", "rows", "refused", "fail"}
      BY DEF TypeInv, Subs
    <3>2. \A p \in DOMAIN sub : sub[p].got # "refused" /\ sub[p].got # "none"
      BY <1>1, <1>3, <2>1, <2>2 DEF RightInv
    <3> QED
      BY <2>2, <3>1, <3>2
  <2> QED
    BY <1>1, <2>2, <2>3, AllMerged
<1> QED
  BY <1>1, <1>2, <1>3 DEF RightInv, AnswerIsComplete, SingleOrAlike

LEMMA ProxyRight == ASSUME TypeInv, RightInv, ProxyRaw PROVE RightInv'
<1>1. UNCHANGED <<topology, req, urls, missing, second, sub>>
  BY DEF ProxyRaw
<1>2. PICK s \in Primaries(urls) :
        CASE Reply(s, req.items) = "rows"    -> Answers(200, {<<i, s>> : i \in req.items})
          [] Reply(s, req.items) = "refused" -> Answers(400, {})
          [] Reply(s, req.items) = "fail"    -> Answers(502, {})
  BY DEF ProxyRaw
<1>3. Reply(s, req.items) \in {"rows", "refused", "fail"}
  BY DEF Reply
<1>4. Answers(200, {<<i, s>> : i \in req.items}) \/ Answers(400, {}) \/ Answers(502, {})
  BY <1>2, <1>3
<1>5. stage' = "answered"
  BY <1>4 DEF Answers
<1>6. answer'.status = 200 => {r[1] : r \in answer'.rows} = req.items
  <2> SUFFICES ASSUME answer'.status = 200 PROVE {r[1] : r \in answer'.rows} = req.items
    OBVIOUS
  <2>1. PICK rows : rows = {<<i, s>> : i \in req.items} /\ answer'.rows = rows
    BY <1>4 DEF Answers
  <2>2. \A r \in rows : \E i \in req.items : r = <<i, s>>
    BY <2>1
  <2>3. \A i \in req.items : <<i, s>> \in rows
    BY <2>1
  <2>4. \A r \in rows : r[1] \in req.items
    BY <2>2
  <2>5. ASSUME NEW i \in req.items PROVE \E r \in rows : r[1] = i
    <3>1. <<i, s>> \in rows /\ <<i, s>>[1] = i
      BY <2>3
    <3> QED
      BY <3>1
  <2> QED
    BY <2>1, <2>4, <2>5
<1> QED
  BY <1>1, <1>5, <1>6 DEF RightInv, AnswerIsComplete

-----------------------------------------------------------------------------
(* Errors name their cause: while nobody joins or leaves, an item has owners under the *)
(* later lock exactly when it had some                                                 *)

Still == upsets = 0 /\ listed = Members

CauseInv ==
  /\ stage # "answered" => answer.status = 0
  /\ stage \in {"resolve", "proxy", "targets", "fanout"} => missing.item = None
  /\ stage = "classify" => req.kind = "dense"
  /\ upsets = 0 => Members \subseteq listed
  /\ Still /\ stage = "classify" =>
       (missing.owned <=> HasGrid /\ Owners("dense", missing.item) # {})
  /\ Still => ErrorNamesCause

LEMMA MovedCause == ASSUME TypeInv, CauseInv, Moved PROVE CauseInv'
<1>1. upsets \in Nat
  BY UpsetsAssumption DEF TypeInv, TypeOK
<1>2. upsets' = 0 => upsets = 0 /\ Members \subseteq listed /\ listed \subseteq listed'
  BY <1>1 DEF Moved, CauseInv
<1>3. ASSUME Still'
      PROVE  /\ Still
             /\ \A kind, i : Owners(kind, i)' = Owners(kind, i)
  <2>1. upsets = 0 /\ listed' = Members /\ Members \subseteq listed /\ upsets' = 0
    BY <1>2, <1>3 DEF Still
  <2>2. listed' = listed /\ \A s \in listed : entry'[s].slice = entry[s].slice
    BY <1>1, <2>1 DEF Moved
  <2> QED
    BY <2>1, <2>2 DEF Still, Owners
<1>4. UNCHANGED request
  BY DEF Moved
<1> QED
  BY <1>2, <1>3, <1>4 DEF CauseInv, ErrorNamesCause, request

LEMMA ReceiveCause == ASSUME TypeInv, CauseInv, Receive PROVE CauseInv'
<1>1. PICK r \in Requests :
        /\ req' = r
        /\ missing' = [item |-> None, owned |-> FALSE]
        /\ IF r.items = {}
           THEN Answers(400, {})
           ELSE IF r.kind = "moe" /\ ~HasGrid
           THEN Answers(503, {})
           ELSE stage' = "resolve" /\ answer' = NoAnswer
  BY DEF Receive
<1>2. /\ stage' \in {"answered", "resolve"}
      /\ stage' = "resolve" => answer'.status = 0
      /\ req'.kind = "dense" => answer'.status # 503
  BY <1>1 DEF Answers, NoAnswer
<1>3. UNCHANGED topology
  BY DEF Receive
<1> QED
  BY <1>1, <1>2, <1>3 DEF CauseInv, ErrorNamesCause, topology

LEMMA ResolveCause == ASSUME TypeInv, CauseInv, Resolve PROVE CauseInv'
<1>1. PICK f \in Resolutions :
         IF \E i \in req.items : f[i] = None
          THEN /\ \E i \in {j \in req.items : f[j] = None} :
                    missing' = [item |-> i, owned |-> HasGrid /\ Owners(req.kind, i) # {}]
               /\ IF req.kind = "moe" THEN Answers(503, {})
                  ELSE stage' = "classify" /\ UNCHANGED answer
          ELSE /\ UNCHANGED missing
               /\ IF req.kind = "dense" /\ Cardinality(Primaries(f)) = 1
                  THEN stage' = "proxy" /\ UNCHANGED answer
                  ELSE IF req.binary THEN Answers(400, {})
                  ELSE stage' = "targets" /\ UNCHANGED answer
  BY DEF Resolve
<1>2. UNCHANGED <<topology, req>> /\ answer.status = 0 /\ missing.item = None /\ req.kind \in {"dense", "moe"}
  BY DEF Resolve, CauseInv, TypeInv
<1>4. CASE \E i \in req.items : f[i] = None
  <2>1. PICK i \in req.items : missing' = [item |-> i, owned |-> HasGrid /\ Owners(req.kind, i) # {}]
    BY <1>1, <1>4
  <2>2. missing'.item = i /\ (missing'.owned <=> HasGrid /\ Owners(req.kind, i) # {})
    BY <2>1
  <2>3. CASE req.kind = "moe"
    BY <1>1, <1>2, <1>4, <2>3 DEF Answers, CauseInv, ErrorNamesCause, topology
  <2>4. CASE req.kind = "dense"
    <3>1. stage' = "classify" /\ answer'.status = 0
      BY <1>1, <1>2, <1>4, <2>4
    <3>2. (missing.owned <=> HasGrid /\ Owners("dense", missing.item) # {})'
      BY <1>2, <2>2, <2>4 DEF Owners, topology
    <3> QED
      BY <1>2, <2>4, <3>1, <3>2 DEF CauseInv, ErrorNamesCause, topology
  <2> QED
    BY <1>2, <2>3, <2>4
<1>5. CASE ~ \E i \in req.items : f[i] = None
  <2>1. /\ UNCHANGED missing /\ stage' \in {"proxy", "answered", "targets"}
        /\ (stage' # "answered" => answer'.status = 0) /\ answer'.status # 503
    BY <1>1, <1>2, <1>5 DEF Answers
  <2> QED
    BY <1>2, <2>1 DEF CauseInv, ErrorNamesCause, topology
<1> QED
  BY <1>4, <1>5

LEMMA ClassifyCause == ASSUME TypeInv, CauseInv, Classify PROVE CauseInv'
<1>1. UNCHANGED <<topology, req, missing>> /\ stage = "classify" /\ stage' = "answered"
  BY DEF Classify, Answers
<1>2. answer'.status = IF HasGrid /\ Owners("dense", missing.item) # {} THEN 503 ELSE 400
  BY DEF Classify, Answers
<1>3. Still' = Still
  BY <1>1 DEF Still, topology
<1> QED
  BY <1>1, <1>2, <1>3 DEF CauseInv, ErrorNamesCause, topology

\* Steps after an answer was found: neither 503, nor with an item that was not placed.
LEMMA RestCause ==
  ASSUME TypeInv, CauseInv, ProxyRaw \/ PickTargets \/ Finish \/ Fanout
  PROVE  CauseInv'
<1>1. UNCHANGED <<topology, req, missing>> /\ stage \in {"proxy", "targets", "fanout"}
  BY DEF ProxyRaw, PickTargets, Finish, Fanout, Fan, PrimaryReplies, HedgeFires, SecondaryReplies, Settle
<1>2. missing.item = None /\ answer.status = 0
  BY <1>1 DEF CauseInv
<1>3. /\ stage' \in {"fanout", "answered"} /\ answer'.status # 503
      /\ stage' # "answered" => answer'.status = 0
  <2>1. CASE ProxyRaw
    <3>1. PICK s \in Primaries(urls) :
            CASE Reply(s, req.items) = "rows"    -> Answers(200, {<<i, s>> : i \in req.items})
              [] Reply(s, req.items) = "refused" -> Answers(400, {})
              [] Reply(s, req.items) = "fail"    -> Answers(502, {})
      BY <2>1 DEF ProxyRaw
    <3>2. Reply(s, req.items) \in {"rows", "refused", "fail"}
      BY DEF Reply
    <3>3. Answers(200, {<<i, s>> : i \in req.items}) \/ Answers(400, {}) \/ Answers(502, {})
      BY <3>1, <3>2
    <3> QED
      BY <3>3 DEF Answers
  <2>2. CASE PickTargets
    BY <1>2, <2>2 DEF PickTargets
  <2>3. CASE Finish
    BY <2>3 DEF Finish, Answers
  <2>4. CASE Fanout
    BY <1>2, <2>4 DEF Fanout, Fan, PrimaryReplies, HedgeFires, SecondaryReplies, Settle
  <2> QED
    BY <2>1, <2>2, <2>3, <2>4
<1> QED
  BY <1>1, <1>2, <1>3 DEF CauseInv, ErrorNamesCause, topology

-----------------------------------------------------------------------------

DispatchInv == TypeInv /\ RightInv /\ CauseInv

LEMMA DispatchInvInit == Init => DispatchInv
<1> SUFFICES ASSUME Init PROVE RightInv /\ CauseInv
  BY TypeInit DEF DispatchInv
<1>1. stage = "answered" /\ answer.status = 0 /\ missing.item = None /\ DOMAIN sub = {}
  BY DEF Init, NoAnswer
<1> QED
  BY <1>1 DEF Init, RightInv, CauseInv, AnswerIsComplete, ErrorNamesCause

LEMMA DispatchInvNext == DispatchInv /\ [Next]_vars => DispatchInv'
<1> SUFFICES ASSUME DispatchInv, [Next]_vars PROVE DispatchInv'
  OBVIOUS
<1> USE DEF DispatchInv
<1>1. CASE Receive
  BY <1>1, ReceiveType, ReceiveRight, ReceiveCause
<1>2. CASE Resolve
  BY <1>2, ResolveType, ResolveRight, ResolveCause
<1>3. CASE Classify
  BY <1>3, ClassifyType, ClassifyRight, ClassifyCause
<1>4. CASE PickTargets
  BY <1>4, TargetsType, TargetsRight, RestCause
<1>5. CASE Finish
  BY <1>5, FinishType, FinishRight, RestCause
<1>6. CASE ProxyRaw
  BY <1>6, ProxyType, ProxyRight, RestCause
<1>7. CASE Fanout
  <2>1. PICK p \in DOMAIN sub : stage = "fanout" /\ Fan(p)
    BY <1>7 DEF Fanout
  <2> QED
    BY <1>7, <2>1, FanType, FanRight, RestCause
<1>8. ASSUME NEW s \in Servers, Moves(s) PROVE DispatchInv'
  <2>1. Moved
    BY <1>8, MovesMove
  <2> QED
    BY <2>1, MovedType, MovedCause, RightStays DEF Moved
<1>9. CASE UNCHANGED vars
  <2>1. UNCHANGED request /\ UNCHANGED topology
    BY <1>9 DEF vars, request, topology
  <2>2. Moved
    BY <2>1 DEF Moved, TypeInv, TypeOK, topology
  <2> QED
    BY <2>1, <2>2, MovedType, MovedCause, RightStays
<1> QED
  BY <1>1, <1>2, <1>3, <1>4, <1>5, <1>6, <1>7, <1>8, <1>9 DEF Next, Handler

\* What a client gets is right: of servers that are alike a 200 has every layer, whatever
\* leaves, crashes, joins or reports between the read lock and the calls, and whoever of
\* a primary and its hedge answers; a 503 or 400 names the cause as long as nobody joins
\* or leaves between the two locks (http.rs:318-482).
THEOREM AnswersAlwaysRight == Spec => []AnswersAreRight
<1>1. DispatchInv => AnswersAreRight
  <2> SUFFICES ASSUME DispatchInv PROVE AnswersAreRight
    OBVIOUS
  <2>1. TypeOK
    BY DEF DispatchInv, TypeInv
  <2>2. req.kind = "dense" => AnswerIsComplete \/ ~(Cardinality(Primaries(urls)) = 1 \/ OwnersAlike)
    BY DEF DispatchInv, RightInv, SingleOrAlike
  <2>3. upsets = 0 /\ listed = Members => ErrorNamesCause
    BY DEF DispatchInv, CauseInv, Still
  <2> QED
    BY <2>1, <2>2, <2>3 DEF AnswersAreRight
<1> QED
  BY <1>1, DispatchInvInit, DispatchInvNext, PTL DEF Spec
=============================================================================
