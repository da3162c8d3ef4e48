-------------------------- MODULE SpoolsGateProofs ---------------------------
(***************************************************************************)
(* GatewayKeys of Spools for every instance: the three keys of a public     *)
(* address exist together and agree with the gateway that has it and with   *)
(* its devices, wherever no request is under way.                           *)
(*                                                                         *)
(* The argument is that of the keys of devices.  Touches are the requests   *)
(* that concern an address, its gateway or one of its devices; of the one   *)
(* there may be, Owing says that the keys are in order (InOrder) or that    *)
(* the gateway is still among those it will spool, and of the gateway being *)
(* spooled that what it has read is what there is (Spools).                 *)
(*                                                                         *)
(* The second half proves SaveRepairs.                                      *)
(***************************************************************************)
EXTENDS SpoolsProofs

\* A gateway is among those left to spool.
In(g, s) == \E k \in 1 .. Len(s) : s[k] = g

\* Requests about devices concern public addresses through gateways only, and what a request has
\* left to spool is its own gateway or those its device was and is attached to.
GateKinds(q) ==
    /\ q.at # "idle" => q.on \in Device \cup Gateway
    /\ q.on \in Device => /\ q.prev.ip \notin Pub /\ q.cur.ip \notin Pub
                          /\ q.new # None => q.new.ip \notin Pub
    /\ q.row # None => q.at \in {"devices", "psk", "site", "nat"}
    /\ q.at \in {"update", "delete", "load"} => q.cur.gw = None
    /\ q.at \in {"update", "delete", "load", "del", "hset", "unlink"} => q.on \in Device
    /\ q.at \in {"gupdate", "gselect", "gdelete"} => q.cur.ip = None
    /\ q.at = "stale" => q.on \in Gateway
    /\ q.at \in Spooling /\ q.on \in Gateway => q.cur.ip = None /\ q.todo = <<q.on>>
    /\ q.at \in Spooling /\ q.on \in Device =>
          \A g \in Gateway : In(g, q.todo) => g \in {q.prev.gw, q.cur.gw}

GateTypes == \A e \in Op : GateKinds(op[e])

\* The request may still read or change the address, its keys or what they are made of.
Touches(e, q) ==
    /\ Active(e)
    /\ \/ op[e].prev.ip = q \/ op[e].cur.ip = q
       \/ op[e].new # None /\ op[e].new.ip = q
       \/ op[e].row # None /\ op[e].row.ip = q
       \/ op[e].on \in Holders(q)
       \/ /\ op[e].on \in Device
          /\ \E g \in Holders(q) : \/ g \in {op[e].prev.gw, op[e].cur.gw} \/ op[e].on \in Attached(g)
                                   \/ op[e].new # None /\ op[e].new.gw = g

InOrder(q) ==
    IF Holders(q) = {} THEN Bare(q)
    ELSE \A g \in Holders(q) : Spooled(g) \/ (g \notin saved /\ Bare(q))

\* A saved gateway has left the address.
Lost(e, q) == op[e].on \in Gateway /\ op[e].prev.ip = q /\ Holders(q) = {}

Ips(g) == {dev[c].ip : c \in Attached(g)} \ {None}

\* What a gateway being spooled has read is what there is, and what it has set is what it has read.
Spools(e, q) ==
    LET r == op[e]  h == Head(op[e].todo) IN
    /\ h \in Holders(q) /\ h \in saved /\ gate[h] = r.row
    /\ r.at # "devices" => r.ips = Ips(h)
    /\ r.at \in {"site", "nat"} => psk[q] = r.row.psk
    /\ r.at = "nat" => site[q] = r.row.mode

\* Either the keys are in order, or the gateway that has the address is still to be spooled, or
\* the address was left and its keys are still to be removed.
Owing(e, q) ==
    LET r == op[e]  d == op[e].on  h == Head(op[e].todo) IN
    /\ d \in Gateway /\ r.prev.ip = q => Holders(q) \subseteq {d}
    /\ r.at \in {"update", "delete"} =>
          InOrder(q) /\ \A g \in Holders(q) : d \in Attached(g) => r.prev.gw = g
    /\ r.at = "load" => InOrder(q) \/ \E g \in Holders(q) : r.prev.gw = g \/ d \in Attached(g)
    /\ r.at \in {"del", "hset", "unlink"} => InOrder(q) \/ \E g \in Holders(q) : g \in {r.prev.gw, r.cur.gw}
    /\ r.at \in {"gupdate", "gdelete"} => InOrder(q) /\ (d \in Holders(q) => r.prev.ip = q)
    /\ r.at = "gselect" => InOrder(q)
    /\ r.at = "gate" => InOrder(q) \/ Lost(e, q) \/ \E g \in Holders(q) : In(g, r.todo)
    /\ r.at \in {"devices", "psk", "site", "nat"} =>
          IF r.row.ip = q THEN Spools(e, q)
          ELSE /\ h \notin Holders(q)
               /\ InOrder(q) \/ Lost(e, q) \/ \E g \in Holders(q) : In(g, Tail(r.todo))
    /\ r.at = "stale" => IF r.prev.ip = q /\ r.cur.ip # q THEN Holders(q) = {} ELSE InOrder(q)

GateOk(q) ==
    /\ \A e \in Op : Touches(e, q) => Owing(e, q)
    /\ (\A e \in Op : ~Touches(e, q)) => InOrder(q)

GateInv ==
    /\ KeyInv /\ GateTypes
    /\ \A q \in Pub \ Suspect : GateOk(q)

GateFacts ==
    /\ \A q \in Pub, e \in Op : Touches(e, q) <=> Active(e) /\ q \in Concerns(e)
    /\ \A q \in Pub \ raced : \A e, f \in Op : Touches(e, q) /\ Touches(f, q) => e = f
    /\ \A q \in Pub \ shared : \A g, h \in Holders(q) : g = h

\* Of the addresses a request concerns, the public ones are those a gateway has or had, or those
\* of the gateways its device is, was or will be attached to.
LEMMA TouchesIs ==
  ASSUME TableTypes, OpTypes, GateTypes, NEW q \in Pub, NEW e \in Op
  PROVE  Touches(e, q) <=> Active(e) /\ q \in Concerns(e)
<1>1. op[e] \in Requests /\ Shape(op[e]) /\ GateKinds(op[e])
  BY DEF OpTypes, GateTypes
<1>2. q # None /\ q \notin Ip /\ Device \cap Gateway = {} /\ None \notin Gateway
  BY SpoolsAssumption
<1>3. q \in {gate[g].ip : g \in {h \in Gates(e) : gate[h] # None}} <=> \E g \in Holders(q) : g \in Gates(e)
  <2>1. Gates(e) \subseteq Gateway
    <3>1. CASE op[e].on \in Gateway
      BY <3>1 DEF Gates
    <3>2. CASE op[e].on \notin Gateway
      <4>1. op[e].new \in DeviceRow \cup {None} /\ op[e].on \in Subject
        BY <1>1, <3>2, FieldsTyped DEF Shape
      <4>2. RowOf(op[e].on) \in DeviceRow \cup {None}
        BY <4>1, <3>2 DEF RowOf, Subject, TableTypes
      <4>3. \A r \in {op[e].new, RowOf(op[e].on)} \ {None} : r.gw \in Gateway \cup {None}
        BY <4>1, <4>2 DEF DeviceRow
      <4>4. op[e].prev.gw \in Gateway \cup {None} /\ op[e].cur.gw \in Gateway \cup {None}
        BY <1>1, FieldsTyped DEF GateSet
      <4> QED BY <3>2, <4>3, <4>4 DEF Gates
    <3> QED BY <3>1, <3>2
  <2> QED BY <2>1 DEF Holders
<1>4. q \in Concerns(e) <=>
        \/ op[e].prev.ip = q \/ op[e].cur.ip = q
        \/ op[e].new # None /\ op[e].new.ip = q
        \/ op[e].row # None /\ op[e].row.ip = q
        \/ RowOf(op[e].on) # None /\ RowOf(op[e].on).ip = q
        \/ \E g \in Holders(q) : g \in Gates(e)
  BY <1>2, <1>3 DEF Concerns
<1>5. CASE op[e].on \in Gateway
  <2>1. RowOf(op[e].on) = gate[op[e].on] /\ op[e].on \notin Device /\ Gates(e) = {op[e].on}
    BY <1>2, <1>5 DEF RowOf, Gates
  <2> QED BY <1>4, <1>5, <2>1 DEF Touches, Holders
<1>6. CASE op[e].on \in Device
  <2>1. RowOf(op[e].on) = dev[op[e].on] /\ op[e].on \notin Gateway
    BY <1>2, <1>6 DEF RowOf
  <2>2. ~(RowOf(op[e].on) # None /\ RowOf(op[e].on).ip = q)
    BY <1>2, <1>6, <2>1, RowsTyped
  <2>3. \A g \in Gateway : g \in Gates(e) <=>
            \/ g \in {op[e].prev.gw, op[e].cur.gw} \/ op[e].on \in Attached(g)
            \/ op[e].new # None /\ op[e].new.gw = g
    BY <1>2, <1>6, <2>1 DEF Gates, Attached
  <2>4. op[e].on \notin Holders(q) /\ \A g \in Holders(q) : g \in Gateway
    BY <2>1 DEF Holders
  <2> QED BY <1>4, <1>6, <2>2, <2>3, <2>4 DEF Touches
<1>7. CASE ~Active(e)
  BY <1>7 DEF Touches
<1> QED BY <1>1, <1>5, <1>6, <1>7 DEF GateKinds, Active

\* At most one request concerns a public address that is not remembered as raced, and at most
\* one gateway has one that is not remembered as shared.
LEMMA GateFactsHold == IInv /\ GateTypes /\ Doubles \subseteq shared => GateFacts
<1> SUFFICES ASSUME IInv, GateTypes, Doubles \subseteq shared PROVE GateFacts
  OBVIOUS
<1>1. \A q \in Pub, e \in Op : Touches(e, q) <=> Active(e) /\ q \in Concerns(e)
  BY TouchesIs DEF IInv, Types
<1>2. ASSUME NEW q \in Pub \ raced, NEW e \in Op, NEW f \in Op, Touches(e, q), Touches(f, q), e # f
      PROVE  FALSE
  <2>1. q \in Meetings
    BY <1>1, <1>2, TheyMeet
  <2> QED BY <1>2, <2>1 DEF IInv, HashInv
<1>3. \A q \in Pub \ shared : \A g, h \in Holders(q) : g = h
  BY DEF Doubles
<1> QED BY <1>1, <1>2, <1>3 DEF GateFacts

\* The same after a step.
LEMMA GateFactsNext == IInv' /\ GateTypes' /\ (Doubles \subseteq shared)' => GateFacts'
BY GateFactsHold, PTL

--------------------------------------------------------------------------------
(* What a step does to a public address *)

SameTables(q) ==
    /\ Holders(q)' = Holders(q)
    /\ \A g \in Holders(q) : /\ gate'[g] = gate[g] /\ (g \in saved' <=> g \in saved)
                             /\ Attached(g)' = Attached(g)
                             /\ \A c \in Attached(g) : dev'[c] = dev[c]

SameKeys(q) == psk'[q] = psk[q] /\ site'[q] = site[q] /\ nat'[q] = nat[q]

\* No gateway and no device has come to the address.
NoneJoins(q) ==
    Holders(q)' \subseteq Holders(q) /\ \A g \in Holders(q)' : Attached(g)' \subseteq Attached(g)

\* Whether an address is in order depends on the gateways that have it, their devices and its keys.
LEMMA SameOrder ==
  ASSUME NEW q \in Pub, SameTables(q)
  PROVE  /\ \A g \in Holders(q) : Ips(g)' = Ips(g)
         /\ SameKeys(q) => (InOrder(q)' <=> InOrder(q))
<1>1. ASSUME NEW g \in Holders(q) PROVE Ips(g)' = Ips(g)
  BY DEF SameTables, Ips
<1>2. ASSUME SameKeys(q) PROVE Bare(q)' <=> Bare(q)
  BY <1>2 DEF SameKeys, Bare
<1>3. ASSUME SameKeys(q), NEW g \in Holders(q) PROVE Spooled(g)' <=> Spooled(g)
  <2>1. gate[g].ip = q /\ gate'[g] = gate[g]
    BY DEF SameTables, Holders
  <2> QED BY <1>1, <1>3, <2>1 DEF SameKeys, Spooled, Ips
<1> QED BY <1>1, <1>2, <1>3 DEF InOrder, SameTables

\* So does what a request still owes it.
LEMMA SameTouches ==
  ASSUME NEW q \in Pub, SameTables(q), NEW f \in Op, SameFields(op'[f], op[f])
  PROVE  (Touches(f, q)' <=> Touches(f, q)) /\ (SameKeys(q) /\ Owing(f, q) => Owing(f, q)')
<1>1. /\ op'[f].at = op[f].at /\ op'[f].on = op[f].on /\ op'[f].new = op[f].new
      /\ op'[f].prev = op[f].prev /\ op'[f].cur = op[f].cur /\ op'[f].todo = op[f].todo
      /\ op'[f].row = op[f].row /\ op'[f].ips = op[f].ips
  BY DEF SameFields
<1>2. Holders(q)' = Holders(q) /\ \A g \in Holders(q) : Attached(g)' = Attached(g)
  BY DEF SameTables
<1>3. Touches(f, q)' <=> Touches(f, q)
  BY <1>1, <1>2 DEF Touches, Active
<1>4. ASSUME SameKeys(q), Owing(f, q) PROVE Owing(f, q)'
  <2>1. InOrder(q)' <=> InOrder(q)
    BY <1>4, SameOrder
  <2>2. Lost(f, q)' <=> Lost(f, q)
    BY <1>1, <1>2 DEF Lost
  <2>3. Spools(f, q) => Spools(f, q)'
    BY <1>1, <1>2, <1>4, SameOrder DEF Spools, SameTables, SameKeys
  <2> QED BY <1>1, <1>2, <1>4, <2>1, <2>2, <2>3 DEF Owing
<1> QED BY <1>3, <1>4

\* A step of a request that does not concern the address.
LEMMA GateElsewhere ==
  ASSUME NEW q \in Pub, NEW e \in Op, GateOk(q), SameTables(q), SameKeys(q),
         ~Touches(e, q), ~Touches(e, q)', \A f \in Op : f # e => SameFields(op'[f], op[f])
  PROVE  GateOk(q)'
<1>1. \A f \in Op : f # e => (Touches(f, q)' <=> Touches(f, q)) /\ (Owing(f, q) => Owing(f, q)')
  BY SameTouches
<1> QED BY <1>1, SameOrder DEF GateOk

\* A step of the request that concerns the address.
LEMMA GateOwnStep ==
  ASSUME GateFacts, GateFacts', raced \subseteq raced', NEW q \in Pub, q \notin raced',
         NEW e \in Op, Touches(e, q), \A f \in Op : f # e => SameFields(op'[f], op[f]),
         NoneJoins(q) \/ Touches(e, q)',
         Touches(e, q)' => Owing(e, q)', ~Touches(e, q)' => InOrder(q)'
  PROVE  GateOk(q)'
<1>1. ASSUME NEW f \in Op, f # e PROVE ~Touches(f, q)'
  <2>1. CASE Touches(e, q)'
    BY <1>1, <2>1 DEF GateFacts
  <2>2. CASE ~Touches(e, q)'
    <3>1. ~Touches(f, q)
      BY <1>1 DEF GateFacts
    <3> QED BY <1>1, <2>2, <3>1 DEF Touches, Active, SameFields, NoneJoins
  <2> QED BY <2>1, <2>2
<1> QED BY <1>1 DEF GateOk

\* A request that begins to concern an address finds its keys in order.
LEMMA GateBegins ==
  ASSUME GateFacts', NEW q \in Pub, q \notin raced', GateOk(q),
         NEW e \in Op, Touches(e, q)', ~Active(e), \A f \in Op : f # e => SameFields(op'[f], op[f]),
         Holders(q) \subseteq Holders(q)', \A g \in Holders(q) : Attached(g) \subseteq Attached(g)'
  PROVE  InOrder(q) /\ (Owing(e, q)' => GateOk(q)')
<1>1. ASSUME NEW f \in Op, f # e PROVE ~Touches(f, q)' /\ ~Touches(f, q)
  <2>1. ~Touches(f, q)'
    BY <1>1 DEF GateFacts
  <2> QED BY <1>1, <2>1 DEF Touches, Active, SameFields
<1>2. ~Touches(e, q)
  BY DEF Touches
<1> QED BY <1>1, <1>2 DEF GateOk

--------------------------------------------------------------------------------
(* The gateways left to spool, and the fields of a request that goes on *)

\* A gateway that waits is the first or waits behind it.
LEMMA InTodo ==
  /\ \A g \in Gateway, s \in GateSeq : s # <<>> => (In(g, s) <=> g = Head(s) \/ In(g, Tail(s)))
  /\ \A g \in Gateway : ~In(g, <<>>)
  /\ \A g, h \in Gateway : In(g, <<h>>) <=> g = h
<1>1. ASSUME NEW g \in Gateway, NEW s \in GateSeq, s # <<>>
      PROVE  In(g, s) <=> g = Head(s) \/ In(g, Tail(s))
  <2>1. s \in Seq(Gateway)
    BY DEF GateSeq
  <2>2. /\ Len(s) \in Nat /\ Len(s) >= 1 /\ Head(s) = s[1]
        /\ Len(Tail(s)) = Len(s) - 1 /\ \A k \in 1 .. Len(s) - 1 : Tail(s)[k] = s[k + 1]
    BY <1>1, <2>1
  <2>3. ASSUME NEW k \in 1 .. Len(s), s[k] = g PROVE g = Head(s) \/ In(g, Tail(s))
    <3>1. CASE k = 1
      BY <2>2, <2>3, <3>1
    <3>2. CASE k # 1
      <4>1. k - 1 \in 1 .. Len(s) - 1 /\ Tail(s)[k - 1] = g
        BY <2>2, <2>3, <3>2
      <4> QED BY <2>2, <4>1 DEF In
    <3> QED BY <3>1, <3>2
  <2>4. ASSUME NEW k \in 1 .. Len(Tail(s)), Tail(s)[k] = g PROVE In(g, s)
    <3>1. k + 1 \in 1 .. Len(s) /\ s[k + 1] = g
      BY <2>2, <2>4
    <3> QED BY <3>1 DEF In
  <2>5. g = Head(s) => In(g, s)
    BY <2>2 DEF In
  <2> QED BY <2>3, <2>4, <2>5 DEF In
<1>2. ASSUME NEW g \in Gateway PROVE ~In(g, <<>>)
  <2>1. Len(<<>>) = 0 /\ 1 .. 0 = {}
    OBVIOUS
  <2> QED BY <2>1 DEF In
<1>3. ASSUME NEW g \in Gateway, NEW h \in Gateway PROVE In(g, <<h>>) <=> g = h
  <2> DEFINE s == <<h>>
  <2>1. Len(s) = 1 /\ s[1] = h /\ 1 .. 1 = {1}
    OBVIOUS
  <2> HIDE DEF s
  <2>2. In(g, s) <=> g = h
    BY <2>1 DEF In
  <2> QED BY <2>2 DEF s
<1> QED BY <1>1, <1>2, <1>3

\* One that waits in either of two sequences waits in their concatenation.
LEMMA InBoth ==
  ASSUME NEW g \in Gateway, NEW s \in GateSeq, NEW t \in GateSeq
  PROVE  In(g, s \o t) <=> In(g, s) \/ In(g, t)
<1>1. s \in Seq(Gateway) /\ t \in Seq(Gateway)
  BY DEF GateSeq
<1>2. /\ Len(s) \in Nat /\ Len(t) \in Nat /\ Len(s \o t) = Len(s) + Len(t)
      /\ \A k \in 1 .. Len(s) + Len(t) :
            (s \o t)[k] = IF k <= Len(s) THEN s[k] ELSE t[k - Len(s)]
  BY <1>1
<1>3. ASSUME NEW k \in 1 .. Len(s \o t), (s \o t)[k] = g PROVE In(g, s) \/ In(g, t)
  <2>1. CASE k <= Len(s)
    BY <1>2, <1>3, <2>1 DEF In
  <2>2. CASE k > Len(s)
    <3>1. k - Len(s) \in 1 .. Len(t) /\ t[k - Len(s)] = g
      BY <1>2, <1>3, <2>2
    <3> QED BY <3>1 DEF In
  <2> QED BY <1>2, <2>1, <2>2
<1>4. ASSUME NEW k \in 1 .. Len(s), s[k] = g PROVE In(g, s \o t)
  BY <1>2, <1>4 DEF In
<1>5. ASSUME NEW k \in 1 .. Len(t), t[k] = g PROVE In(g, s \o t)
  <2>1. k + Len(s) \in 1 .. Len(s \o t) /\ (s \o t)[k + Len(s)] = g
    BY <1>2, <1>5
  <2> QED BY <2>1 DEF In
<1> QED BY <1>3, <1>4, <1>5 DEF In

\* After the device the gateways it is and was attached to are spooled.
LEMMA InToSpool ==
  ASSUME NEW e \in Op, op[e] \in Requests, NEW g \in Gateway
  PROVE  In(g, ToSpool(e)) <=> g \in {op[e].prev.gw, op[e].cur.gw}
<1> DEFINE c == op[e].cur.gw
           p == op[e].prev.gw
           s == IF c = None THEN <<>> ELSE <<c>>
           t == IF p \in {None, c} THEN <<>> ELSE <<p>>
<1>1. c \in Gateway \cup {None} /\ p \in Gateway \cup {None} /\ None \notin Gateway
  BY FieldsTyped, SpoolsAssumption DEF GateSet
<1>2. ToSpool(e) = s \o t
  BY DEF ToSpool
<1>3. s \in GateSeq /\ t \in GateSeq
  BY <1>1 DEF GateSeq
<1>4. In(g, s) <=> g = c
  <2>1. CASE c = None
    BY <1>1, <2>1, InTodo
  <2>2. CASE c # None
    BY <1>1, <2>2, InTodo
  <2> QED BY <2>1, <2>2
<1>5. In(g, t) <=> p # c /\ g = p
  <2>1. CASE p \in {None, c}
    BY <1>1, <2>1, InTodo
  <2>2. CASE p \notin {None, c}
    BY <1>1, <2>2, InTodo
  <2> QED BY <2>1, <2>2
<1> HIDE DEF s, t
<1>6. In(g, ToSpool(e)) <=> In(g, s) \/ In(g, t)
  BY <1>2, <1>3, InBoth
<1> QED BY <1>4, <1>5, <1>6

SameRest(p, q) == SameRead(p, q) /\ p.todo = q.todo /\ p.row = q.row /\ p.ips = q.ips

\* A step to another place leaves the rest of the request.
LEMMA MoveFields ==
  ASSUME OpTypes, NEW e \in Op, NEW w \in Where, Goes(e, [op[e] EXCEPT !.at = w])
  PROVE  op'[e].at = w /\ SameRest(op'[e], op[e])
<1>1. op'[e] = [op[e] EXCEPT !.at = w] /\ op[e] \in Requests
  BY GoesBecomes DEF OpTypes
<1> QED BY <1>1, MoveTyped DEF SameRest, SameRead

\* After has the fields of the request, but for its gateway.
LEMMA AfterRest ==
  ASSUME NEW e \in Op, op[e] \in Requests, NEW todo \in GateSeq
  PROVE  LET r == After(e, todo) IN
         \/ todo = <<>> /\ op[e].on \notin Gateway /\ r = NoOp
         \/ /\ todo # <<>> /\ r \in Requests /\ r.at = "gate"
            /\ SameRead(r, op[e]) /\ r.todo = todo /\ r.row = None
         \/ /\ todo = <<>> /\ op[e].on \in Gateway /\ r \in Requests /\ r.at = "stale"
            /\ SameRead(r, op[e]) /\ r.todo = <<>> /\ r.row = None
<1> DEFINE q(w, t) == [op[e] EXCEPT !.at = w, !.todo = t, !.row = None, !.ips = {}]
<1>1. None \in RowSet /\ {} \in IpSets /\ <<>> \in GateSeq
  BY DEF RowSet, IpSets, GateSeq
<1>2. \A w \in Where, t \in GateSeq :
          /\ q(w, t) \in Requests /\ q(w, t).at = w /\ SameRead(q(w, t), op[e])
          /\ q(w, t).todo = t /\ q(w, t).row = None
  BY <1>1, RequestsAre DEF SameRead
<1>3. /\ todo # <<>> => After(e, todo) = q("gate", todo)
      /\ todo = <<>> /\ op[e].on \in Gateway => After(e, todo) = q("stale", <<>>)
      /\ todo = <<>> /\ op[e].on \notin Gateway => After(e, todo) = NoOp
  BY DEF After
<1>4. "gate" \in Where /\ "stale" \in Where
  BY DEF Where
<1> HIDE DEF q
<1> QED BY <1>1, <1>2, <1>3, <1>4

\* How a request stands after a gateway, or after the old key of a device: what it was at, what
\* it spools next, and, where it goes to the stale keys, the address x it has spooled under.
GoesAfter(e, todo, x) ==
    \/ todo = <<>> /\ op[e].on \notin Gateway /\ op'[e] = NoOp
    \/ /\ todo # <<>> /\ op'[e].at = "gate" /\ SameRead(op'[e], op[e])
       /\ op'[e].todo = todo /\ op'[e].row = None
    \/ /\ todo = <<>> /\ op[e].on \in Gateway /\ op'[e].at = "stale"
       /\ op'[e].on = op[e].on /\ op'[e].new = op[e].new /\ op'[e].prev = op[e].prev
       /\ op'[e].cur.ip = x /\ op'[e].row = None

\* The same of the step that leaves a gateway,
LEMMA AfterGoes ==
  ASSUME OpTypes, NEW e \in Op, NEW todo \in GateSeq, Goes(e, After(e, todo))
  PROVE  GoesAfter(e, todo, op[e].cur.ip)
<1>1. op'[e] = After(e, todo) /\ op[e] \in Requests
  BY GoesBecomes DEF OpTypes
<1> QED BY <1>1, AfterRest DEF GoesAfter, SameRead

\* which after a NAT entry keeps the address the gateway was spooled under.
LEMMA NatGoes ==
  ASSUME OpTypes, NEW e \in Op, SetNat(e)
  PROVE  GoesAfter(e, Tail(op[e].todo), op[e].row.ip)
<1> DEFINE todo == Tail(op[e].todo)
           next == After(e, todo)
           q == IF next.at = "stale" THEN [next EXCEPT !.cur.ip = op[e].row.ip] ELSE next
<1>1. op'[e] = q /\ op[e].at = "nat"
  <2>1. Goes(e, q) /\ op[e].at = "nat"
    BY DEF SetNat, At
  <2> QED BY <2>1, GoesBecomes
<1>2. op[e] \in Requests /\ op[e].row.ip \in AddrSet /\ todo \in GateSeq
  <2>1. op[e] \in Requests /\ Shape(op[e])
    BY DEF OpTypes
  <2> QED BY <1>1, <2>1, FieldsTyped, HeadTyped DEF Shape, AddrSet
<1> HIDE DEF todo
<1>3. CASE todo = <<>> /\ op[e].on \in Gateway
  <2>1. next \in Requests /\ next.at = "stale" /\ SameRead(next, op[e]) /\ next.row = None
    BY <1>2, <1>3, AfterRest
  <2>2. op'[e] = [next EXCEPT !.cur.ip = op[e].row.ip]
    BY <1>1, <2>1
  <2> DEFINE n == next
  <2>3. /\ n \in Requests /\ n.at = "stale" /\ SameRead(n, op[e]) /\ n.row = None
        /\ op'[e] = [n EXCEPT !.cur.ip = op[e].row.ip]
    BY <2>1, <2>2
  <2> HIDE DEF n, next, q
  <2>4. /\ op'[e].at = "stale" /\ op'[e].on = n.on /\ op'[e].new = n.new /\ op'[e].prev = n.prev
        /\ op'[e].row = None /\ op'[e].cur.ip = op[e].row.ip
    BY <1>2, <2>3, RequestsAre DEF Place
  <2> QED BY <1>3, <2>3, <2>4 DEF GoesAfter, SameRead, todo
<1>4. CASE ~(todo = <<>> /\ op[e].on \in Gateway)
  <2>1. next.at # "stale"
    BY <1>2, <1>4, AfterRest, NoOpTyped
  <2>2. op'[e] = next
    BY <1>1, <2>1
  <2> HIDE DEF next
  <2> QED BY <1>2, <1>4, <2>2, AfterRest DEF GoesAfter, todo, next
<1> QED BY <1>3, <1>4

\* A step of a request that was under way: what it concerns afterwards it concerned before.
LEMMA GateStepOk ==
  ASSUME GateFacts, GateFacts', raced \subseteq raced', NEW q \in Pub, q \notin raced', GateOk(q),
         NEW e \in Op, \A f \in Op : f # e => SameFields(op'[f], op[f]),
         Touches(e, q)' => Touches(e, q),
         ~Touches(e, q) => SameTables(q) /\ SameKeys(q),
         Touches(e, q) => /\ NoneJoins(q) \/ Touches(e, q)'
                          /\ Touches(e, q)' => Owing(e, q)'
                          /\ ~Touches(e, q)' => InOrder(q)'
  PROVE  GateOk(q)'
<1>1. CASE Touches(e, q)
  BY <1>1, GateOwnStep
<1>2. CASE ~Touches(e, q)
  BY <1>2, GateElsewhere
<1> QED BY <1>1, <1>2

\* Where the gateways that are still to be spooled, or the keys still to be removed, are what is
\* amiss, they still are after a gateway; at the end nothing is.
LEMMA AfterOwing ==
  ASSUME NEW q \in Pub, NEW e \in Op, NEW todo \in GateSeq, NEW x, GoesAfter(e, todo, x),
         GateKinds(op'[e]), op[e].on \in Device \cup Gateway,
         \/ InOrder(q)' \/ (op[e].on \in Gateway /\ op[e].prev.ip = q /\ Holders(q)' = {})
         \/ \E g \in Holders(q)' : In(g, todo),
         op[e].on \in Gateway /\ op[e].prev.ip = q => Holders(q)' \subseteq {op[e].on},
         todo = <<>> /\ op[e].on \in Gateway =>
             IF op[e].prev.ip = q /\ x # q THEN Holders(q)' = {} ELSE InOrder(q)'
  PROVE  (Touches(e, q)' => Owing(e, q)') /\ (~Touches(e, q)' => InOrder(q)')
<1>0. /\ Device \cap Gateway = {} /\ Holders(q)' \subseteq Gateway
      /\ \A g \in Gateway : ~In(g, <<>>)
  BY InTodo, SpoolsAssumption DEF Holders
<1>1. CASE todo = <<>> /\ op[e].on \notin Gateway /\ op'[e] = NoOp
  <2>1. InOrder(q)'
    BY <1>0, <1>1
  <2>2. ~Touches(e, q)'
    BY <1>1, NoOpTyped DEF Touches, Active
  <2> QED BY <2>1, <2>2
<1>2. CASE /\ todo # <<>> /\ op'[e].at = "gate" /\ SameRead(op'[e], op[e])
           /\ op'[e].todo = todo /\ op'[e].row = None
  <2>1. Lost(e, q)' <=> op[e].on \in Gateway /\ op[e].prev.ip = q /\ Holders(q)' = {}
    BY <1>2 DEF Lost, SameRead
  <2>2. Owing(e, q)'
    BY <1>2, <2>1 DEF Owing, SameRead
  <2>3. ASSUME ~Touches(e, q)' PROVE InOrder(q)'
    <3>1. op[e].prev.ip # q
      BY <1>2, <2>3 DEF Touches, Active, SameRead
    <3>2. ASSUME NEW g \in Holders(q)' PROVE ~In(g, todo)
      <4>1. CASE op[e].on \in Gateway
        <5>1. todo = <<op[e].on>> /\ op[e].on \notin Holders(q)'
          BY <1>2, <2>3, <4>1 DEF GateKinds, Spooling, Touches, Active, SameRead
        <5> QED BY <1>0, <4>1, <5>1, InTodo
      <4>2. CASE op[e].on \in Device
        <5>1. g \notin {op'[e].prev.gw, op'[e].cur.gw}
          BY <1>2, <2>3, <3>2, <4>2 DEF Touches, Active, SameRead
        <5>2. op'[e].at \in Spooling /\ op'[e].on \in Device /\ g \in Gateway /\ op'[e].todo = todo
          BY <1>0, <1>2, <4>2 DEF Spooling, SameRead
        <5> QED BY <5>1, <5>2 DEF GateKinds
      <4> QED BY <4>1, <4>2
    <3> QED BY <3>1, <3>2
  <2> QED BY <2>2, <2>3
<1>3. CASE /\ todo = <<>> /\ op[e].on \in Gateway /\ op'[e].at = "stale"
           /\ op'[e].on = op[e].on /\ op'[e].new = op[e].new /\ op'[e].prev = op[e].prev
           /\ op'[e].cur.ip = x /\ op'[e].row = None
  <2>1. Owing(e, q)'
    BY <1>3 DEF Owing
  <2>2. ~Touches(e, q)' => op[e].prev.ip # q
    BY <1>3 DEF Touches, Active
  <2> QED BY <1>3, <2>1, <2>2
<1> QED BY <1>1, <1>2, <1>3 DEF GoesAfter

--------------------------------------------------------------------------------
(* Requests stay of their kinds *)

\* A request that has not begun.
LEMMA NoOpGateKind == GateKinds(NoOp)
<1>1. NoOp.at = "idle" /\ NoOp.on = None /\ NoOp.row = None
  BY DEF NoOp
<1> QED BY <1>1, SpoolsAssumption DEF GateKinds, Spooling

\* A request with the same fields but for its place.
LEMMA RestKind ==
  ASSUME NEW p, NEW r, GateKinds(r), SameRest(p, r), r.on \in Device \cup Gateway,
         \/ r.at \in {"update", "delete"} /\ p.at \in {"load", "unlink"}
         \/ r.at \in {"del", "hset"} /\ p.at \in {"hset", "unlink"}
         \/ r.at \in {"devices", "psk", "site"} /\ p.at \in {"psk", "site", "nat"}
         \/ r.at = "gdelete" /\ p.at = "stale" /\ r.on \in Gateway
  PROVE  GateKinds(p)
BY DEF GateKinds, SameRest, SameRead, Spooling

\* A request that goes on to the next gateway, to the stale keys or to its end.
LEMMA AfterKind ==
  ASSUME NEW e \in Op, NEW todo \in GateSeq, NEW x, GoesAfter(e, todo, x), GateKinds(op[e]),
         op[e].on \in Device \cup Gateway, op[e].on \in Gateway => todo = <<>>,
         op[e].on \in Device => \A g \in Gateway : In(g, todo) => g \in {op[e].prev.gw, op[e].cur.gw}
  PROVE  GateKinds(op'[e])
<1>1. CASE op'[e] = NoOp
  BY <1>1, NoOpGateKind
<1>2. CASE op'[e].at = "gate" /\ SameRead(op'[e], op[e]) /\ op'[e].todo = todo /\ op'[e].row = None
           /\ todo # <<>>
  BY <1>2 DEF GateKinds, SameRead, Spooling
<1>3. CASE /\ op[e].on \in Gateway /\ op'[e].at = "stale" /\ op'[e].on = op[e].on /\ op'[e].row = None
  BY <1>3, SpoolsAssumption DEF GateKinds, Spooling
<1> QED BY <1>1, <1>2, <1>3 DEF GoesAfter

\* The first gateway to spool and those behind it.
LEMMA TailKind ==
  ASSUME NEW r \in Requests, GateKinds(r), r.at \in Spooling, r.todo # <<>>
  PROVE  /\ Head(r.todo) \in Gateway /\ Tail(r.todo) \in GateSeq
         /\ r.on \in Device \cup Gateway
         /\ r.on \in Gateway => Head(r.todo) = r.on /\ Tail(r.todo) = <<>>
         /\ r.on \in Device =>
               /\ Head(r.todo) \in {r.prev.gw, r.cur.gw}
               /\ \A g \in Gateway : In(g, Tail(r.todo)) => g \in {r.prev.gw, r.cur.gw}
         /\ \A g \in Gateway : In(g, r.todo) <=> g = Head(r.todo) \/ In(g, Tail(r.todo))
<1>1. r.todo \in GateSeq
  BY FieldsTyped
<1>2. Head(r.todo) \in Gateway /\ Tail(r.todo) \in GateSeq
  BY <1>1, HeadTyped
<1>3. \A g \in Gateway : In(g, r.todo) <=> g = Head(r.todo) \/ In(g, Tail(r.todo))
  BY <1>1, InTodo
<1>4. r.on \in Device \cup Gateway
  BY DEF GateKinds, Spooling
<1>5. ASSUME r.on \in Gateway PROVE Head(r.todo) = r.on /\ Tail(r.todo) = <<>>
  <2>1. r.todo = <<r.on>>
    BY <1>5 DEF GateKinds
  <2> QED BY <2>1
<1>6. ASSUME r.on \in Device, NEW g \in Gateway, In(g, r.todo) PROVE g \in {r.prev.gw, r.cur.gw}
  BY <1>6 DEF GateKinds
<1> QED BY <1>2, <1>3, <1>4, <1>5, <1>6

\* Steps of requests keep their kinds.
LEMMA GateKindsStep ==
  ASSUME IInv, GateTypes, NEW e \in Op,
         DeviceRequest(e) \/ GatewayRequest(e) \/ DeviceStep(e) \/ GatewayStep(e) \/ Fail(e)
  PROVE  GateTypes'
<1>0. /\ Types /\ OpTypes /\ op[e] \in Requests /\ Shape(op[e]) /\ GateKinds(op[e])
      /\ None \notin Pub /\ None \notin Gateway /\ Device \cap Gateway = {} /\ Ip \cap Pub = {}
  BY SpoolsAssumption DEF IInv, Types, OpTypes, GateTypes
<1>1. \A p, q : SameFields(p, q) /\ GateKinds(q) => GateKinds(p)
  BY DEF SameFields, GateKinds
<1>2. ASSUME GateKinds(op'[e]), \A f \in Op : f # e => SameFields(op'[f], op[f]) PROVE GateTypes'
  BY <1>1, <1>2 DEF GateTypes
<1>3. ASSUME GateKinds(op'[e]), \A f \in Op : f # e => op'[f] = op[f] PROVE GateTypes'
  BY <1>3 DEF GateTypes
<1>4. CASE DeviceRequest(e)
  <2>1. GateKinds(op'[e])
    <3>1. /\ op'[e].cur = [ip |-> None, gw |-> None] /\ op'[e].row = None
          /\ op'[e].new \in DeviceRow \cup {None} /\ (Reads(e) \/ Makes(e))
      BY <1>0, <1>4, DeviceRequestEffect
    <3>2. op'[e].on \in Device /\ op'[e].at \in {"update", "delete", "load"}
      BY <3>1 DEF Reads, Makes
    <3>3. op'[e].prev.ip \notin Pub
      BY <1>0, <3>1, RowsTyped DEF Reads, Makes, Types
    <3>4. op'[e].new # None => op'[e].new.ip \notin Pub
      BY <1>0, <3>1 DEF DeviceRow
    <3>5. op'[e].cur.ip = None /\ op'[e].cur.gw = None
      BY <3>1
    <3> QED BY <1>0, <3>1, <3>2, <3>3, <3>4, <3>5 DEF GateKinds, Spooling
  <2> QED BY <1>0, <1>2, <1>4, <2>1, DeviceRequestEffect
<1>5. CASE GatewayRequest(e)
  <2>1. GateKinds(op'[e])
    BY <1>0, <1>5, GatewayRequestFields DEF GateKinds, Asks, ReadsGate, MakesGate, Spooling
  <2> QED BY <1>0, <1>2, <1>5, <2>1, GatewayRequestFields
<1>6. CASE Fail(e)
  BY <1>0, <1>3, <1>6, FailTyped, NoOpGateKind
<1>7. ASSUME NEW w \in Where, Goes(e, [op[e] EXCEPT !.at = w]),
             \/ op[e].at \in {"update", "delete"} /\ w \in {"load", "unlink"}
             \/ op[e].at \in {"del", "hset"} /\ w \in {"hset", "unlink"}
             \/ op[e].at \in {"devices", "psk", "site"} /\ w \in {"psk", "site", "nat"}
             \/ op[e].at = "gdelete" /\ w = "stale"
      PROVE  GateKinds(op'[e])
  <2>1. op'[e].at = w /\ SameRest(op'[e], op[e])
    BY <1>0, <1>7, MoveFields
  <2>2. op[e].on \in Device \cup Gateway /\ (op[e].at = "gdelete" => op[e].on \in Gateway)
    BY <1>0, <1>7 DEF Shape, GateKinds
  <2> QED BY <1>0, <1>7, <2>1, <2>2, RestKind
<1>8. CASE DeviceStep(e)
  <2>1. \A f \in Op : f # e => op'[f] = op[f]
    BY <1>0, <1>8, DeviceStepTyped
  <2> SUFFICES GateKinds(op'[e])
    BY <1>3, <2>1
  <2>2. op[e].on \in Device
    BY <1>0, <1>8 DEF DeviceStep, WriteDevice, DropDevice, LoadDevice, DelHash, SetHash, UnlinkOld,
                      At, GateKinds
  <2>3. CASE WriteDevice(e)
    <3>1. CASE End(e)
      BY <1>0, <3>1, GoesBecomes, NoOpGateKind DEF End
    <3>2. CASE Goes(e, [op[e] EXCEPT !.at = "load"])
      BY <1>7, <2>3, <3>2 DEF WriteDevice, At, Where
    <3> QED BY <2>3, <3>1, <3>2 DEF WriteDevice
  <2>4. CASE DropDevice(e) \/ DelHash(e) \/ SetHash(e)
    BY <1>7, <2>4 DEF DropDevice, DelHash, SetHash, At, Where
  <2>5. CASE LoadDevice(e)
    <3>0. op[e].at = "load"
      BY <2>5 DEF LoadDevice, At
    <3>1. CASE dev[op[e].on] = None
      <4>1. Goes(e, [op[e] EXCEPT !.at = "unlink"]) /\ "unlink" \in Where
        BY <2>5, <3>1 DEF LoadDevice, Where
      <4>2. op'[e].at = "unlink" /\ SameRest(op'[e], op[e])
        BY <1>0, <4>1, MoveFields
      <4> QED BY <1>0, <2>2, <3>0, <4>2 DEF GateKinds, SameRest, SameRead, Spooling
    <3>2. CASE dev[op[e].on] # None
      <4> DEFINE r == dev[op[e].on]
                 w == IF r.ip = None THEN "unlink" ELSE "del"
                 pl == [ip |-> r.ip, gw |-> r.gw]
                 x == r.info
      <4>1. op'[e] = [op[e] EXCEPT !.at = w, !.cur = pl, !.info = x]
        BY <1>0, <2>5, <3>2, GoesBecomes DEF LoadDevice
      <4>2. w \in {"unlink", "del"} /\ w \in Where /\ pl \in Place /\ x \in InfoSet /\ pl.ip \notin Pub
        BY <1>0, <2>2, <3>2, RowsTyped DEF Where, Place, AddrSet, GateSet, InfoSet, Types
      <4> HIDE DEF w, pl, x
      <4>3. /\ op'[e].on = op[e].on /\ op'[e].at = w /\ op'[e].new = op[e].new /\ op'[e].cur = pl
            /\ op'[e].prev = op[e].prev /\ op'[e].row = op[e].row
        BY <1>0, <4>1, <4>2, RequestsAre
      <4> QED BY <1>0, <2>2, <3>0, <4>2, <4>3 DEF GateKinds, Spooling
    <3> QED BY <3>1, <3>2
  <2>6. CASE UnlinkOld(e)
    <3>1. Goes(e, After(e, ToSpool(e))) /\ ToSpool(e) \in GateSeq
      BY <1>0, <2>6, ToSpoolTyped DEF UnlinkOld
    <3>2. GoesAfter(e, ToSpool(e), op[e].cur.ip)
      BY <1>0, <3>1, AfterGoes
    <3>3. \A g \in Gateway : In(g, ToSpool(e)) => g \in {op[e].prev.gw, op[e].cur.gw}
      BY <1>0, InToSpool
    <3> QED BY <1>0, <2>2, <3>1, <3>2, <3>3, AfterKind
  <2> QED BY <1>8, <2>3, <2>4, <2>5, <2>6 DEF DeviceStep
<1>9. CASE GatewayStep(e)
  <2>1. \A f \in Op : f # e => op'[f] = op[f]
    BY <1>0, <1>9, SpoolStepTyped, GatewayStepTyped DEF GatewayStep
  <2> SUFFICES GateKinds(op'[e])
    BY <1>3, <2>1
  <2>2. ASSUME NEW x, GoesAfter(e, Tail(op[e].todo), x), op[e].at \in Spooling, op[e].todo # <<>>
        PROVE  GateKinds(op'[e])
    BY <1>0, <2>2, TailKind, AfterKind
  <2>3. op[e].at \in Spooling => op[e].todo # <<>>
    BY <1>0 DEF Shape, Spooling
  <2>4. CASE ReadGateway(e)
    <3>0. op[e].at = "gate" /\ op[e].at \in Spooling
      BY <2>4 DEF ReadGateway, At, Spooling
    <3>1. CASE Goes(e, After(e, Tail(op[e].todo)))
      <4>1. Tail(op[e].todo) \in GateSeq
        BY <1>0, <2>3, <3>0, TailKind
      <4> QED BY <1>0, <2>2, <2>3, <3>0, <3>1, <4>1, AfterGoes
    <3>2. CASE Goes(e, [op[e] EXCEPT !.at = "devices", !.row = gate[Head(op[e].todo)]])
      <4>1. Head(op[e].todo) \in Gateway
        BY <1>0, <2>3, <3>0, TailKind
      <4>2. gate[Head(op[e].todo)] \in RowSet /\ "devices" \in Where
        BY <1>0, <4>1 DEF Types, TableTypes, RowSet, Where
      <4>3. op'[e] = [op[e] EXCEPT !.at = "devices", !.row = gate[Head(op[e].todo)]]
        BY <1>0, <3>2, GoesBecomes
      <4>4. op'[e].at = "devices" /\ SameRead(op'[e], op[e]) /\ op'[e].todo = op[e].todo
        BY <1>0, <4>2, <4>3, RequestsAre DEF SameRead
      <4> QED BY <1>0, <3>0, <4>4 DEF GateKinds, SameRead, Spooling
    <3> QED BY <2>4, <3>1, <3>2 DEF ReadGateway
  <2>5. CASE ReadDevices(e)
    <3> DEFINE x == {dev[d].ip : d \in Attached(Head(op[e].todo))} \ {None}
    <3>1. op[e].at = "devices" /\ Goes(e, [op[e] EXCEPT !.at = "psk", !.ips = x])
      BY <2>5 DEF ReadDevices, At
    <3> HIDE DEF x
    <3>2. op'[e] = [op[e] EXCEPT !.at = "psk", !.ips = x] /\ "psk" \in Where
      BY <1>0, <3>1, GoesBecomes DEF Where
    <3>3. op'[e].at = "psk" /\ SameRead(op'[e], op[e]) /\ op'[e].todo = op[e].todo
      BY <1>0, <3>2, RequestsAre DEF SameRead
    <3> QED BY <1>0, <3>1, <3>3 DEF GateKinds, SameRead, Spooling
  <2>6. CASE SetPsk(e) \/ SetSite(e)
    BY <1>7, <2>6 DEF SetPsk, SetSite, At, Where
  <2>7. CASE SetNat(e)
    BY <1>0, <2>2, <2>3, <2>7, NatGoes DEF SetNat, At, Spooling
  <2>8. CASE WriteGateway(e)
    <3>1. op[e].at = "gupdate" /\ op[e].on \in Gateway /\ <<op[e].on>> \in GateSeq /\ "gate" \in Where
      BY <1>0, <2>8 DEF WriteGateway, At, Shape, GateSeq, Where
    <3>2. op'[e] = [op[e] EXCEPT !.at = "gate", !.todo = <<op[e].on>>]
      BY <1>0, <2>8, GoesBecomes DEF WriteGateway
    <3>3. op'[e].at = "gate" /\ SameRead(op'[e], op[e]) /\ op'[e].todo = <<op[e].on>> /\ op'[e].row = op[e].row
      BY <1>0, <3>1, <3>2, RequestsAre DEF SameRead
    <3> QED BY <1>0, <3>1, <3>3 DEF GateKinds, SameRead, Spooling
  <2>9. CASE SelectGateway(e)
    <3> DEFINE x == IF gate[op[e].on] = None THEN None ELSE gate[op[e].on].ip
    <3>1. /\ op[e].at = "gselect" /\ op[e].on \in Gateway /\ "gdelete" \in Where
          /\ op'[e] = [op[e] EXCEPT !.at = "gdelete", !.prev.ip = x]
      BY <1>0, <2>9, GoesBecomes DEF SelectGateway, At, Shape, Where
    <3>2. x \in AddrSet
      BY <1>0, <3>1, RowsTyped DEF AddrSet, Types
    <3> HIDE DEF x
    <3>3. /\ op'[e].at = "gdelete" /\ op'[e].on = op[e].on /\ op'[e].cur = op[e].cur
          /\ op'[e].row = op[e].row
      BY <1>0, <3>1, <3>2, RequestsAre DEF Place
    <3> QED BY <1>0, <3>1, <3>3 DEF GateKinds, Spooling
  <2>10. CASE DropGateway(e)
    <3>1. CASE End(e)
      BY <1>0, <3>1, GoesBecomes, NoOpGateKind DEF End
    <3>2. CASE Goes(e, [op[e] EXCEPT !.at = "stale"])
      BY <1>7, <2>10, <3>2 DEF DropGateway, At, Where
    <3> QED BY <2>10, <3>1, <3>2 DEF DropGateway
  <2>11. CASE UnlinkGateway(e)
    BY <1>0, <2>11, GoesBecomes, NoOpGateKind DEF UnlinkGateway, End
  <2> QED BY <1>9, <2>4, <2>5, <2>6, <2>7, <2>8, <2>9, <2>10, <2>11 DEF GatewayStep
<1> QED BY <1>4, <1>5, <1>6, <1>8, <1>9

--------------------------------------------------------------------------------
(* Every step keeps the keys of every public address in order *)

\* Of a table and keys left alone.
LEMMA SameAll ==
  ASSUME NEW q \in Pub, UNCHANGED <<gate, dev>>
  PROVE  /\ Holders(q)' = Holders(q) /\ \A g \in Gateway : Attached(g)' = Attached(g)
         /\ NoneJoins(q)
         /\ (\A g \in Holders(q) : g \in saved' <=> g \in saved) => SameTables(q)
BY DEF Holders, Attached, NoneJoins, SameTables

\* A request about a device begins.
LEMMA GateDeviceRequestAt ==
  ASSUME IInv, GateFacts', NEW q \in Pub, q \notin raced', GateOk(q), NEW e \in Op, DeviceRequest(e)
  PROVE  GateOk(q)'
<1> DEFINE d == op'[e].on
<1>1. /\ ~Active(e) /\ UNCHANGED <<keys, gate>> /\ d \in Device
      /\ op'[e].cur = [ip |-> None, gw |-> None] /\ op'[e].row = None
      /\ op'[e].new \in DeviceRow \cup {None}
      /\ \A f \in Op : f # e => SameFields(op'[f], op[f])
      /\ Reads(e) \/ Makes(e)
  BY DeviceRequestEffect DEF IInv, Reads, Makes
<1>2. /\ None # q /\ q \notin Ip /\ Device \cap Gateway = {} /\ None \notin Gateway
      /\ dev \in [Device -> DeviceRow \cup {None}] /\ None \notin DeviceRow
  BY SpoolsAssumption DEF IInv, Types, TableTypes
<1>3. /\ SameKeys(q) /\ Holders(q)' = Holders(q) /\ Holders(q) \subseteq Gateway /\ ~Touches(e, q)
      /\ op'[e].cur.ip = None /\ op'[e].cur.gw = None
  BY <1>1 DEF keys, SameKeys, Holders, Touches
<1>4. CASE Reads(e)
  <2>1. SameTables(q) /\ \A g \in Holders(q) : Attached(g)' = Attached(g)
    BY <1>1, <1>3, <1>4, SameAll DEF Reads
  <2>2. CASE ~Touches(e, q)'
    BY <1>1, <1>3, <2>1, <2>2, GateElsewhere
  <2>3. CASE Touches(e, q)'
    <3>1. InOrder(q) /\ (Owing(e, q)' => GateOk(q)')
      BY <1>1, <1>3, <2>1, <2>3, GateBegins
    <3>2. InOrder(q)'
      BY <1>3, <2>1, <3>1, SameOrder
    <3>3. \A g \in Holders(q)' : d \in Attached(g)' => op'[e].prev.gw = g
      BY <1>4 DEF Reads, Attached
    <3>4. op'[e].at \in {"update", "delete"} /\ d \notin Gateway
      BY <1>1, <1>2, <1>4 DEF Reads
    <3>5. Owing(e, q)'
      BY <3>2, <3>3, <3>4 DEF Owing
    <3> QED BY <3>1, <3>5
  <2> QED BY <2>2, <2>3
<1>5. CASE Makes(e)
  <2>1. /\ op'[e].at = "load" /\ op'[e].prev.ip = None /\ op'[e].prev.gw = None
        /\ op'[e].new \in DeviceRow /\ op'[e].new # None /\ op'[e].new.ip # q
        /\ dev[d] = None /\ dev'[d] = op'[e].new /\ saved' = saved \cup {d}
        /\ \A c \in Device : c # d => dev'[c] = dev[c]
    BY <1>2, <1>5 DEF Makes, DeviceRow
  <2> HIDE DEF d
  <2>2. \A g \in Holders(q) : /\ d \notin Attached(g) /\ Attached(g)' \subseteq Attached(g) \cup {d}
                              /\ Attached(g) \subseteq Attached(g)'
                              /\ d \in Attached(g)' <=> op'[e].new.gw = g
    BY <1>1, <1>2, <2>1 DEF Attached, d
  <2>3. Touches(e, q)' <=> \E g \in Holders(q) : d \in Attached(g)'
    <3>1. d \notin Holders(q)
      BY <1>1, <1>2, <1>3 DEF d
    <3>2. op'[e].on = d /\ d \in Device
      BY <1>1 DEF d
    <3> QED BY <1>1, <1>2, <1>3, <2>1, <2>2, <3>1, <3>2 DEF Touches, Active
  <2>4. CASE ~Touches(e, q)'
    <3>1. \A g \in Holders(q) : Attached(g)' = Attached(g) /\ \A c \in Attached(g) : dev'[c] = dev[c]
      BY <2>1, <2>2, <2>3, <2>4 DEF Attached
    <3>2. \A g \in Holders(q) : gate'[g] = gate[g] /\ (g \in saved' <=> g \in saved)
      BY <1>1, <1>2, <1>3, <2>1 DEF d
    <3>3. SameTables(q)
      BY <1>3, <3>1, <3>2 DEF SameTables
    <3> QED BY <1>1, <1>3, <2>4, <3>3, GateElsewhere
  <2>5. CASE Touches(e, q)'
    <3>1. Owing(e, q)' => GateOk(q)'
      BY <1>1, <1>3, <2>2, <2>5, GateBegins
    <3>2. \E g \in Holders(q)' : op'[e].on \in Attached(g)'
      BY <1>3, <2>3, <2>5 DEF d
    <3>3. Owing(e, q)'
      BY <1>2, <2>1, <3>2 DEF Owing, Spooling
    <3> QED BY <3>1, <3>3
  <2> QED BY <2>4, <2>5
<1> QED BY <1>1, <1>4, <1>5

\* A request about a gateway begins.
LEMMA GateGatewayRequestAt ==
  ASSUME IInv, GateFacts', NEW q \in Pub, q \notin raced', q \notin shared', GateOk(q),
         NEW e \in Op, GatewayRequest(e)
  PROVE  GateOk(q)'
<1> DEFINE d == op'[e].on
<1>1. /\ ~Active(e) /\ UNCHANGED <<keys, dev>> /\ d \in Gateway
      /\ op'[e].cur.ip = None /\ op'[e].row = None
      /\ op'[e].new \in GatewayRow \cup {None}
      /\ \A f \in Op : f # e => SameFields(op'[f], op[f])
      /\ Asks(e) \/ ReadsGate(e) \/ MakesGate(e)
  BY GatewayRequestFields DEF IInv
<1>2. /\ None # q /\ Device \cap Gateway = {} /\ None \notin GatewayRow
      /\ gate \in [Gateway -> GatewayRow \cup {None}]
  BY SpoolsAssumption DEF IInv, Types, TableTypes
<1>3. SameKeys(q) /\ ~Touches(e, q) /\ \A g, h \in Holders(q)' : g = h
  BY <1>1 DEF keys, SameKeys, Touches, GateFacts
<1>4. CASE Asks(e) \/ ReadsGate(e)
  <2>1. UNCHANGED <<gate, saved>>
    BY <1>4 DEF Asks, ReadsGate
  <2>2. SameTables(q) /\ Holders(q)' = Holders(q) /\ \A g \in Gateway : Attached(g)' = Attached(g)
    BY <1>1, <2>1, SameAll
  <2>3. CASE ~Touches(e, q)'
    BY <1>1, <1>3, <2>2, <2>3, GateElsewhere
  <2>4. CASE Touches(e, q)'
    <3>1. InOrder(q) /\ (Owing(e, q)' => GateOk(q)')
      BY <1>1, <1>3, <2>2, <2>4, GateBegins DEF Holders
    <3>2. InOrder(q)'
      BY <1>3, <2>2, <3>1, SameOrder
    <3>3. CASE Asks(e)
      BY <1>2, <3>1, <3>2, <3>3 DEF Owing, Asks, Spooling
    <3>4. CASE ReadsGate(e)
      <4>1. op'[e].prev.ip = q <=> d \in Holders(q)'
        BY <1>1, <2>1, <3>4 DEF ReadsGate, Holders
      <4>2. op'[e].prev.ip = q => Holders(q)' \subseteq {d}
        BY <1>3, <4>1
      <4> QED BY <3>1, <3>2, <3>4, <4>1, <4>2 DEF Owing, ReadsGate, Spooling
    <3> QED BY <1>4, <3>3, <3>4
  <2> QED BY <2>3, <2>4
<1>5. CASE MakesGate(e)
  <2>1. /\ op'[e].at = "gate" /\ op'[e].prev.ip = None /\ op'[e].todo = <<d>>
        /\ op'[e].new \in GatewayRow /\ op'[e].new # None
        /\ gate[d] = None /\ gate'[d] = op'[e].new /\ saved' = saved \cup {d}
        /\ \A c \in Gateway : c # d => gate'[c] = gate[c]
    BY <1>1, <1>2, <1>5 DEF MakesGate
  <2>2. \A g \in Gateway : In(g, op'[e].todo) <=> g = d
    BY <1>1, <2>1, InTodo
  <2> HIDE DEF d
  <2>3. /\ d \notin Holders(q) /\ Holders(q) \subseteq Holders(q)'
        /\ Holders(q)' \subseteq Holders(q) \cup {d}
        /\ d \in Holders(q)' <=> op'[e].new.ip = q
    BY <1>1, <1>2, <2>1 DEF Holders, d
  <2>4. \A g \in Holders(q) : Attached(g)' = Attached(g) /\ \A c \in Attached(g) : dev'[c] = dev[c]
    BY <1>1 DEF Attached
  <2>5. CASE ~Touches(e, q)'
    <3>1. d \notin Holders(q)'
      BY <2>1, <2>5 DEF Touches, Active, d
    <3>2. \A g \in Holders(q) : gate'[g] = gate[g] /\ (g \in saved' <=> g \in saved)
      BY <2>1, <2>3 DEF Holders
    <3>3. SameTables(q)
      BY <2>3, <2>4, <3>1, <3>2 DEF SameTables
    <3> QED BY <1>1, <1>3, <2>5, <3>3, GateElsewhere
  <2>6. CASE Touches(e, q)'
    <3>1. Owing(e, q)' => GateOk(q)'
      BY <1>1, <1>3, <2>3, <2>4, <2>6, GateBegins
    <3>2. d \in Holders(q)' /\ In(d, op'[e].todo)
      <4>1. d \notin Device /\ op'[e].on = d /\ d \in Gateway
        BY <1>1, <1>2 DEF d
      <4> QED BY <1>1, <1>2, <2>1, <2>2, <2>3, <2>6, <4>1 DEF Touches
    <3>3. Owing(e, q)'
      BY <1>2, <2>1, <3>2 DEF Owing, Spooling
    <3> QED BY <3>1, <3>3
  <2> QED BY <2>5, <2>6
<1> QED BY <1>1, <1>4, <1>5

\* A request that fails is remembered at its addresses.
LEMMA GateFailAt ==
  ASSUME IInv, GateFacts, NEW q \in Pub, q \notin failed', GateOk(q), NEW e \in Op,
         Fail(e), Remember(e)
  PROVE  GateOk(q)'
<1>1. op'[e].at = "idle" /\ \A f \in Op : f # e => op'[f] = op[f]
  BY FailTyped, NoOpTyped DEF IInv
<1>2. UNCHANGED <<psk, site, nat, dev, gate, saved>> /\ faults' # faults
  BY DEF Fail, keys, tables, IInv, Types, CountTypes
<1>3. ~Touches(e, q)
  BY <1>2 DEF Remember, GateFacts
<1>4. ~Touches(e, q)'
  BY <1>1 DEF Touches, Active
<1>5. SameTables(q) /\ SameKeys(q)
  BY <1>2, SameAll DEF SameKeys
<1> QED BY <1>1, <1>3, <1>4, <1>5, GateElsewhere DEF SameFields

\* A step that leaves the request with nothing to concern.
LEMMA GateEnds ==
  ASSUME GateFacts, GateFacts', raced \subseteq raced', NEW q \in Pub, q \notin raced', GateOk(q),
         NEW e \in Op, op'[e] = NoOp, UNCHANGED <<psk, site, nat, dev, gate, saved>>,
         \A f \in Op : f # e => op'[f] = op[f], Touches(e, q) => InOrder(q)
  PROVE  GateOk(q)'
<1>1. ~Touches(e, q)' /\ \A f \in Op : f # e => SameFields(op'[f], op[f])
  BY NoOpTyped DEF Touches, Active, SameFields
<1>2. SameTables(q) /\ SameKeys(q) /\ NoneJoins(q)
  BY SameAll DEF SameKeys
<1>3. Touches(e, q) => InOrder(q)'
  BY <1>2, SameOrder
<1> QED BY <1>1, <1>2, <1>3, GateStepOk

\* UPDATE device: a gateway the device joins or leaves is to be spooled.
LEMMA GateWriteAt ==
  ASSUME IInv, GateTypes, GateFacts, GateFacts', raced \subseteq raced', NEW q \in Pub,
         q \notin raced', GateOk(q), NEW e \in Op, WriteDevice(e),
         \A f \in Op : f # e => op'[f] = op[f]
  PROVE  GateOk(q)'
<1> DEFINE d == op[e].on
<1>0. /\ op[e] \in Requests /\ OpTypes /\ op[e].at = "update" /\ d \in Device /\ d \notin Gateway
      /\ op[e].new \in DeviceRow /\ op[e].new # None /\ UNCHANGED <<gate, keys>>
      /\ dev \in [Device -> DeviceRow \cup {None}] /\ GateKinds(op[e])
      /\ \A f \in Op : f # e => SameFields(op'[f], op[f])
  BY SpoolsAssumption
     DEF IInv, Types, OpTypes, GateTypes, Shape, WriteDevice, At, TableTypes, SameFields
<1>1. CASE End(e) /\ UNCHANGED <<dev, saved>>
  <2>1. op'[e] = NoOp
    BY <1>0, <1>1, GoesBecomes DEF End
  <2>2. Touches(e, q) => InOrder(q)
    BY <1>0 DEF GateOk, Owing
  <2> QED BY <1>0, <1>1, <2>1, <2>2, GateEnds DEF keys
<1>2. CASE /\ dev' = [dev EXCEPT ![d] = IF @ = None THEN None ELSE op[e].new]
           /\ saved' = saved \cup {d}
           /\ Goes(e, [op[e] EXCEPT !.at = "load"])
  <2>1. op'[e].at = "load" /\ SameRest(op'[e], op[e])
    BY <1>0, <1>2, MoveFields DEF Where
  <2> HIDE DEF d
  <2>2. /\ \A c \in Device : c # d => dev'[c] = dev[c]
        /\ \A g \in Gateway : /\ d \in Attached(g)' => op[e].new.gw = g
                              /\ Attached(g)' \cup {d} = Attached(g) \cup {d}
    BY <1>0, <1>2 DEF Attached
  <2>3. Holders(q)' = Holders(q) /\ Holders(q) \subseteq Gateway /\ SameKeys(q)
    BY <1>0 DEF Holders, SameKeys, keys
  <2>4. ASSUME \A g \in Holders(q) : d \notin Attached(g) /\ d \notin Attached(g)'
        PROVE  SameTables(q)
    <3>1. ASSUME NEW g \in Holders(q)
          PROVE  /\ gate'[g] = gate[g] /\ (g \in saved' <=> g \in saved)
                 /\ Attached(g)' = Attached(g) /\ \A c \in Attached(g) : dev'[c] = dev[c]
      <4>1. Attached(g)' = Attached(g)
        BY <2>2, <2>3, <2>4
      <4>2. Attached(g) \subseteq Device /\ d \notin Attached(g)
        BY <2>4 DEF Attached
      <4> QED BY <1>0, <1>2, <2>2, <2>3, <4>1, <4>2
    <3> QED BY <2>3, <3>1 DEF SameTables
  <2>5. Touches(e, q)' => Touches(e, q)
    BY <1>0, <2>1, <2>2, <2>3 DEF Touches, Active, SameRest, SameRead, d
  <2>6. ASSUME ~Touches(e, q) PROVE SameTables(q)
    <3>1. \A g \in Holders(q) : d \notin Attached(g) /\ d \notin Attached(g)'
      BY <1>0, <2>2, <2>3, <2>6 DEF Touches, Active, d
    <3> QED BY <2>4, <3>1
  <2>7. ASSUME Touches(e, q) PROVE Touches(e, q)' /\ Owing(e, q)'
    <3>1. InOrder(q) /\ \A g \in Holders(q) : d \in Attached(g) => op[e].prev.gw = g
      BY <1>0, <2>7 DEF GateOk, Owing, d
    <3>2. Touches(e, q)'
      BY <1>0, <2>1, <2>3, <2>7, <3>1 DEF Touches, Active, SameRest, SameRead, d
    <3>3. InOrder(q)' \/ \E g \in Holders(q)' : op[e].prev.gw = g \/ d \in Attached(g)'
      <4>1. CASE \A g \in Holders(q) : d \notin Attached(g) /\ d \notin Attached(g)'
        BY <2>3, <2>4, <3>1, <4>1, SameOrder
      <4>2. CASE ~\A g \in Holders(q) : d \notin Attached(g) /\ d \notin Attached(g)'
        BY <2>3, <3>1, <4>2
      <4> QED BY <4>1, <4>2
    <3>4. Owing(e, q)'
      BY <1>0, <2>1, <3>3 DEF Owing, SameRest, SameRead, Spooling, d
    <3> QED BY <3>2, <3>4
  <2> QED BY <1>0, <2>3, <2>5, <2>6, <2>7, GateStepOk
<1> QED BY <1>1, <1>2 DEF WriteDevice

\* DELETE of a device.
LEMMA GateDropAt ==
  ASSUME IInv, GateTypes, GateFacts, GateFacts', raced \subseteq raced', NEW q \in Pub,
         q \notin raced', GateOk(q), NEW e \in Op, DropDevice(e),
         \A f \in Op : f # e => op'[f] = op[f]
  PROVE  GateOk(q)'
<1> DEFINE d == op[e].on
<1>0. /\ op[e] \in Requests /\ OpTypes /\ op[e].at = "delete" /\ d \in Device /\ d \notin Gateway
      /\ UNCHANGED <<gate, keys, saved>> /\ dev' = [dev EXCEPT ![d] = None]
      /\ dev \in [Device -> DeviceRow \cup {None}] /\ GateKinds(op[e])
      /\ \A f \in Op : f # e => SameFields(op'[f], op[f])
  BY SpoolsAssumption
     DEF IInv, Types, OpTypes, GateTypes, Shape, DropDevice, At, TableTypes, SameFields
<1>1. op'[e].at = "unlink" /\ SameRest(op'[e], op[e])
  BY <1>0, MoveFields DEF DropDevice, Where
<1> HIDE DEF d
<1>2. /\ \A c \in Device : c # d => dev'[c] = dev[c]
      /\ \A g \in Gateway : d \notin Attached(g)' /\ Attached(g)' = Attached(g) \ {d}
  BY <1>0 DEF Attached
<1>3. Holders(q)' = Holders(q) /\ Holders(q) \subseteq Gateway /\ SameKeys(q)
  BY <1>0 DEF Holders, SameKeys, keys
<1>4. ASSUME \A g \in Holders(q) : d \notin Attached(g) PROVE SameTables(q)
  <2>1. \A g \in Holders(q) : Attached(g)' = Attached(g) /\ \A c \in Attached(g) : dev'[c] = dev[c]
    <3>1. \A g \in Gateway : Attached(g) \subseteq Device
      BY DEF Attached
    <3> QED BY <1>2, <1>3, <1>4, <3>1
  <2> QED BY <1>0, <1>3, <2>1 DEF SameTables
<1>5. Touches(e, q)' => Touches(e, q)
  BY <1>0, <1>1, <1>2, <1>3 DEF Touches, Active, SameRest, SameRead, d
<1>6. ASSUME ~Touches(e, q) PROVE SameTables(q)
  <2>1. \A g \in Holders(q) : d \notin Attached(g)
    BY <1>0, <1>6 DEF Touches, Active, d
  <2> QED BY <1>4, <2>1
<1>7. ASSUME Touches(e, q) PROVE Touches(e, q)' /\ Owing(e, q)'
  <2>1. InOrder(q) /\ \A g \in Holders(q) : d \in Attached(g) => op[e].prev.gw = g
    BY <1>0, <1>7 DEF GateOk, Owing, d
  <2>2. Touches(e, q)'
    BY <1>0, <1>1, <1>3, <1>7, <2>1 DEF Touches, Active, SameRest, SameRead, d
  <2>3. InOrder(q)' \/ \E g \in Holders(q)' : g \in {op[e].prev.gw, op[e].cur.gw}
    <3>1. CASE \A g \in Holders(q) : d \notin Attached(g)
      BY <1>3, <1>4, <2>1, <3>1, SameOrder
    <3>2. CASE ~\A g \in Holders(q) : d \notin Attached(g)
      BY <1>3, <2>1, <3>2
    <3> QED BY <3>1, <3>2
  <2>4. Owing(e, q)'
    BY <1>0, <1>1, <2>3 DEF Owing, SameRest, SameRead, Spooling, d
  <2> QED BY <2>2, <2>4
<1> QED BY <1>0, <1>3, <1>5, <1>6, <1>7, GateStepOk

\* The row as it is now: the gateway it names is to be spooled.
LEMMA GateLoadAt ==
  ASSUME IInv, GateTypes, GateFacts, GateFacts', raced \subseteq raced', NEW q \in Pub,
         q \notin raced', GateOk(q), NEW e \in Op, LoadDevice(e),
         \A f \in Op : f # e => op'[f] = op[f]
  PROVE  GateOk(q)'
<1> DEFINE d == op[e].on
           r == dev[d]
<1>0. /\ op[e] \in Requests /\ OpTypes /\ op[e].at = "load" /\ d \in Device /\ d \notin Gateway
      /\ UNCHANGED <<gate, dev, keys, saved>> /\ GateKinds(op[e]) /\ TableTypes
      /\ q # None /\ q \notin Ip /\ None \notin Gateway
      /\ \A f \in Op : f # e => SameFields(op'[f], op[f])
  BY SpoolsAssumption
     DEF IInv, Types, OpTypes, GateTypes, Shape, LoadDevice, At, tables, SameFields
<1>1. /\ SameTables(q) /\ SameKeys(q) /\ NoneJoins(q) /\ Holders(q)' = Holders(q)
      /\ Holders(q) \subseteq Gateway /\ \A g \in Gateway : Attached(g)' = Attached(g)
  BY <1>0, SameAll DEF SameKeys, keys, Holders
<1>2. /\ op'[e].on = d /\ op'[e].new = op[e].new /\ op'[e].prev = op[e].prev
      /\ op'[e].row = op[e].row /\ op'[e].at \in {"unlink", "del"} /\ op'[e].cur.ip # q
      /\ \A g \in Gateway : op'[e].cur.gw = g <=> d \in Attached(g)
  <2>1. CASE r = None
    <3>1. Goes(e, [op[e] EXCEPT !.at = "unlink"]) /\ "unlink" \in Where
      BY <2>1 DEF LoadDevice, Where
    <3>2. op'[e].at = "unlink" /\ SameRest(op'[e], op[e])
      BY <1>0, <3>1, MoveFields
    <3>3. op[e].cur.gw = None /\ op[e].cur.ip # q
      BY <1>0 DEF GateKinds
    <3> QED BY <1>0, <2>1, <3>2, <3>3 DEF SameRest, SameRead, Attached
  <2>2. CASE r # None
    <3> DEFINE w == IF r.ip = None THEN "unlink" ELSE "del"
               pl == [ip |-> r.ip, gw |-> r.gw]
               x == r.info
    <3>1. op'[e] = [op[e] EXCEPT !.at = w, !.cur = pl, !.info = x]
      BY <1>0, <2>2, GoesBecomes DEF LoadDevice
    <3>2. /\ w \in {"unlink", "del"} /\ w \in Where /\ pl \in Place /\ x \in InfoSet
          /\ pl.ip # q /\ pl.gw = r.gw
      BY <1>0, <2>2, RowsTyped DEF Where, Place, AddrSet, GateSet, InfoSet
    <3>3. \A g \in Gateway : r.gw = g <=> d \in Attached(g)
      BY <1>0, <2>2 DEF Attached
    <3> HIDE DEF w, pl, x
    <3>4. /\ op'[e].on = op[e].on /\ op'[e].at = w /\ op'[e].new = op[e].new /\ op'[e].cur = pl
          /\ op'[e].prev = op[e].prev /\ op'[e].row = op[e].row
      BY <1>0, <3>1, <3>2, RequestsAre
    <3> QED BY <3>2, <3>3, <3>4
  <2> QED BY <2>1, <2>2
<1> HIDE DEF d, r
<1>3. Touches(e, q)' => Touches(e, q)
  BY <1>0, <1>1, <1>2 DEF Touches, Active, d
<1>4. ASSUME Touches(e, q) PROVE Touches(e, q)' /\ Owing(e, q)'
  <2>1. Touches(e, q)'
    <3>1. op[e].cur.gw = None /\ op[e].cur.ip # q
      BY <1>0 DEF GateKinds, d
    <3> QED BY <1>0, <1>1, <1>2, <1>4, <3>1 DEF Touches, Active, d
  <2>2. InOrder(q) \/ \E g \in Holders(q) : op[e].prev.gw = g \/ d \in Attached(g)
    BY <1>0, <1>4 DEF GateOk, Owing, d
  <2>3. InOrder(q)' \/ \E g \in Holders(q)' : g \in {op'[e].prev.gw, op'[e].cur.gw}
    <3>1. CASE InOrder(q)
      BY <1>1, <3>1, SameOrder
    <3>2. CASE \E g \in Holders(q) : op[e].prev.gw = g \/ d \in Attached(g)
      BY <1>1, <1>2, <3>2
    <3> QED BY <2>2, <3>1, <3>2
  <2>4. Owing(e, q)'
    BY <1>0, <1>2, <2>3 DEF Owing, Spooling
  <2> QED BY <2>1, <2>4
<1> QED BY <1>0, <1>1, <1>3, <1>4, GateStepOk

\* DEL and HSET of the key of the device.
LEMMA GateHashAt ==
  ASSUME IInv, GateTypes, GateFacts, GateFacts', raced \subseteq raced', NEW q \in Pub,
         q \notin raced', GateOk(q), NEW e \in Op, DelHash(e) \/ SetHash(e),
         \A f \in Op : f # e => op'[f] = op[f]
  PROVE  GateOk(q)'
<1>0. /\ OpTypes /\ op[e].at \in {"del", "hset"} /\ op[e].on \in Device /\ op[e].on \notin Gateway
      /\ UNCHANGED <<gate, dev, psk, site, nat, saved>>
      /\ \A f \in Op : f # e => SameFields(op'[f], op[f])
  BY SpoolsAssumption
     DEF IInv, Types, OpTypes, Shape, DelHash, SetHash, At, tables, SameFields
<1>1. SameTables(q) /\ SameKeys(q) /\ NoneJoins(q) /\ Holders(q)' = Holders(q)
      /\ \A g \in Gateway : Attached(g)' = Attached(g)
  BY <1>0, SameAll DEF SameKeys
<1>2. op'[e].at \in {"hset", "unlink"} /\ SameRest(op'[e], op[e])
  <2>1. PICK w \in {"hset", "unlink"} : Goes(e, [op[e] EXCEPT !.at = w])
    BY DEF DelHash, SetHash
  <2> QED BY <1>0, <2>1, MoveFields DEF Where
<1>3. Touches(e, q)' <=> Touches(e, q)
  BY <1>0, <1>1, <1>2 DEF Touches, Active, SameRest, SameRead, Holders
<1>4. ASSUME Touches(e, q) PROVE Owing(e, q)'
  <2>1. InOrder(q) \/ \E g \in Holders(q) : g \in {op[e].prev.gw, op[e].cur.gw}
    BY <1>0, <1>4 DEF GateOk, Owing
  <2>2. InOrder(q)' <=> InOrder(q)
    BY <1>1, SameOrder
  <2> QED BY <1>0, <1>1, <1>2, <2>1, <2>2 DEF Owing, SameRest, SameRead, Spooling
<1> QED BY <1>0, <1>1, <1>3, <1>4, GateStepOk

\* UNLINK of the old key of the device: its gateways come next.
LEMMA GateUnlinkAt ==
  ASSUME IInv, GateTypes, GateTypes', GateFacts, GateFacts', raced \subseteq raced', NEW q \in Pub,
         q \notin raced', GateOk(q), NEW e \in Op, UnlinkOld(e),
         \A f \in Op : f # e => op'[f] = op[f]
  PROVE  GateOk(q)'
<1>0. /\ OpTypes /\ op[e].at = "unlink" /\ op[e].on \in Device /\ op[e].on \notin Gateway
      /\ UNCHANGED <<gate, dev, psk, site, nat, saved>> /\ op[e] \in Requests
      /\ ToSpool(e) \in GateSeq /\ Goes(e, After(e, ToSpool(e))) /\ GateKinds(op'[e])
      /\ \A f \in Op : f # e => SameFields(op'[f], op[f])
  BY SpoolsAssumption, ToSpoolTyped
     DEF IInv, Types, OpTypes, GateTypes, GateKinds, UnlinkOld, At, tables, SameFields
<1>1. /\ SameTables(q) /\ SameKeys(q) /\ NoneJoins(q) /\ Holders(q)' = Holders(q)
      /\ Holders(q) \subseteq Gateway /\ \A g \in Gateway : Attached(g)' = Attached(g)
  BY <1>0, SameAll DEF SameKeys, Holders
<1>2. GoesAfter(e, ToSpool(e), op[e].cur.ip)
  BY <1>0, AfterGoes
<1>3. Touches(e, q)' => Touches(e, q)
  BY <1>0, <1>1, <1>2, NoOpTyped DEF GoesAfter, Touches, Active, SameRead, Holders
<1>4. ASSUME Touches(e, q)
      PROVE  (Touches(e, q)' => Owing(e, q)') /\ (~Touches(e, q)' => InOrder(q)')
  <2>1. InOrder(q) \/ \E g \in Holders(q) : g \in {op[e].prev.gw, op[e].cur.gw}
    BY <1>0, <1>4 DEF GateOk, Owing
  <2>2. InOrder(q)' \/ \E g \in Holders(q)' : In(g, ToSpool(e))
    BY <1>0, <1>1, <2>1, SameOrder, InToSpool
  <2> QED BY <1>0, <1>2, <2>2, AfterOwing
<1> QED BY <1>0, <1>1, <1>3, <1>4, GateStepOk

\* The gateway being spooled is the request's own or one its device was or is attached to, so
\* that a request that has read an address from it concerns that address.
LEMMA HeadTouches ==
  ASSUME NEW q \in Pub, NEW e \in Op, op[e] \in Requests, GateKinds(op[e]),
         op[e].at \in Spooling, op[e].todo # <<>>, Head(op[e].todo) \in Holders(q)
  PROVE  Touches(e, q)
BY TailKind DEF Touches, Active, Spooling

\* SELECT of a gateway to spool; one that has no row or no address is passed over.
LEMMA GateReadAt ==
  ASSUME IInv, GateTypes, GateTypes', GateFacts, GateFacts', raced \subseteq raced', NEW q \in Pub,
         q \notin raced', GateOk(q), NEW e \in Op, ReadGateway(e),
         \A f \in Op : f # e => op'[f] = op[f]
  PROVE  GateOk(q)'
<1> DEFINE h == Head(op[e].todo)
           t == Tail(op[e].todo)
<1>0. /\ OpTypes /\ op[e].at = "gate" /\ op[e] \in Requests /\ op[e].todo # <<>> /\ q # None
      /\ UNCHANGED <<gate, dev, psk, site, nat>> /\ GateKinds(op'[e]) /\ GateKinds(op[e])
      /\ op[e].row = None /\ Device \cap Gateway = {}
      /\ \A f \in Op : f # e => SameFields(op'[f], op[f])
  BY SpoolsAssumption
     DEF IInv, Types, OpTypes, Shape, GateTypes, GateKinds, ReadGateway, At, tables, keys, SameFields
<1>1. /\ h \in Gateway /\ t \in GateSeq /\ op[e].on \in Device \cup Gateway
      /\ op[e].on \in Gateway => h = op[e].on /\ t = <<>> /\ op[e].cur.ip = None
      /\ \A g \in Gateway : In(g, op[e].todo) <=> g = h \/ In(g, t)
  BY <1>0, TailKind DEF Spooling, GateKinds
<1>2. /\ SameKeys(q) /\ NoneJoins(q) /\ Holders(q)' = Holders(q)
      /\ Holders(q) \subseteq Gateway /\ \A g \in Gateway : Attached(g)' = Attached(g)
  BY <1>0, SameAll DEF SameKeys, Holders
<1>3. h \in Holders(q) => Touches(e, q)
  BY <1>0, HeadTouches DEF Spooling
<1>4. ASSUME Touches(e, q)
      PROVE  /\ op[e].on \in Gateway /\ op[e].prev.ip = q => Holders(q) \subseteq {op[e].on}
             /\ InOrder(q) \/ Lost(e, q) \/ \E g \in Holders(q) : In(g, op[e].todo)
  BY <1>0, <1>4 DEF GateOk, Owing
<1> HIDE DEF h, t
<1>5. CASE Keyless(h) /\ Goes(e, After(e, t)) /\ UNCHANGED saved
  <2>1. SameTables(q) /\ h \notin Holders(q)
    BY <1>0, <1>5, SameAll DEF Keyless, Holders
  <2>2. GoesAfter(e, t, op[e].cur.ip)
    BY <1>0, <1>1, <1>5, AfterGoes
  <2>3. Touches(e, q)' => Touches(e, q)
    BY <1>0, <1>2, <2>2, NoOpTyped DEF GoesAfter, Touches, Active, SameRead, Holders
  <2>4. ASSUME Touches(e, q)
        PROVE  (Touches(e, q)' => Owing(e, q)') /\ (~Touches(e, q)' => InOrder(q)')
    <3>1. InOrder(q) \/ Lost(e, q) \/ \E g \in Holders(q) : In(g, t)
      BY <1>1, <1>2, <1>4, <2>1, <2>4
    <3>2. InOrder(q)' <=> InOrder(q)
      BY <1>2, <2>1, SameOrder
    <3>3. \/ InOrder(q)' \/ (op[e].on \in Gateway /\ op[e].prev.ip = q /\ Holders(q)' = {})
          \/ \E g \in Holders(q)' : In(g, t)
      BY <1>2, <3>1, <3>2 DEF Lost
    <3>4. ASSUME t = <<>>, op[e].on \in Gateway
          PROVE  IF op[e].prev.ip = q /\ op[e].cur.ip # q THEN Holders(q)' = {} ELSE InOrder(q)'
      <4>1. CASE op[e].prev.ip = q
        BY <1>0, <1>1, <1>2, <1>4, <2>1, <2>4, <3>4, <4>1
      <4>2. CASE op[e].prev.ip # q
        BY <1>2, <3>1, <3>2, <3>4, <4>2, InTodo DEF Lost
      <4> QED BY <4>1, <4>2
    <3> QED BY <1>0, <1>1, <1>2, <1>4, <2>2, <2>4, <3>3, <3>4, AfterOwing
  <2> QED BY <1>0, <1>2, <2>1, <2>3, <2>4, GateStepOk
<1>6. CASE /\ ~Keyless(h) /\ Goes(e, [op[e] EXCEPT !.at = "devices", !.row = gate[h]])
           /\ saved' = saved \cup {h}
  <2>1. /\ op'[e].at = "devices" /\ SameRead(op'[e], op[e]) /\ op'[e].todo = op[e].todo
        /\ op'[e].row = gate[h]
    <3>1. gate[h] \in RowSet /\ "devices" \in Where
      BY <1>1 DEF IInv, Types, TableTypes, RowSet, Where
    <3>2. op'[e] = [op[e] EXCEPT !.at = "devices", !.row = gate[h]]
      BY <1>0, <1>6, GoesBecomes
    <3> QED BY <1>0, <3>1, <3>2, RequestsAre DEF SameRead
  <2>2. gate[h] # None /\ (gate[h].ip = q <=> h \in Holders(q))
    BY <1>1, <1>6 DEF Keyless, Holders
  <2>3. h \notin Holders(q) => SameTables(q)
    BY <1>0, <1>6, SameAll
  <2>4. Touches(e, q)' => Touches(e, q)
    BY <1>0, <1>2, <1>3, <2>1, <2>2 DEF Touches, Active, SameRead
  <2>5. ASSUME Touches(e, q) PROVE Touches(e, q)' /\ Owing(e, q)'
    <3>1. Touches(e, q)'
      BY <1>0, <1>2, <2>1, <2>5 DEF Touches, Active, SameRead
    <3>2. Head(op'[e].todo) = h /\ Tail(op'[e].todo) = t
      BY <2>1 DEF h, t
    <3>3. CASE h \in Holders(q)
      <4>1. op'[e].row.ip = q /\ Spools(e, q)'
        BY <1>0, <1>2, <1>6, <2>1, <2>2, <3>2, <3>3 DEF Spools
      <4> QED BY <1>2, <1>4, <2>1, <2>5, <3>1, <4>1 DEF Owing, SameRead
    <3>4. CASE h \notin Holders(q)
      <4>1. InOrder(q)' <=> InOrder(q)
        BY <1>2, <2>3, <3>4, SameOrder
      <4>2. Lost(e, q)' <=> Lost(e, q)
        BY <1>2, <2>1 DEF Lost, SameRead
      <4>3. InOrder(q)' \/ Lost(e, q)' \/ \E g \in Holders(q)' : In(g, t)
        BY <1>1, <1>2, <1>4, <2>5, <3>4, <4>1, <4>2
      <4> QED BY <1>2, <1>4, <2>1, <2>2, <2>5, <3>1, <3>2, <3>4, <4>3 DEF Owing, SameRead
    <3> QED BY <3>3, <3>4
  <2> QED BY <1>0, <1>2, <1>3, <2>3, <2>4, <2>5, GateStepOk
<1> QED BY <1>5, <1>6 DEF ReadGateway, h, t

\* Between the SELECT of a gateway and its NAT record: its devices are read, PSK and site set.
LEMMA GateFillAt ==
  ASSUME IInv, GateTypes, GateFacts, GateFacts', raced \subseteq raced', NEW q \in Pub,
         q \notin raced', GateOk(q), NEW e \in Op, ReadDevices(e) \/ SetPsk(e) \/ SetSite(e),
         \A f \in Op : f # e => op'[f] = op[f]
  PROVE  GateOk(q)'
<1> DEFINE t == Tail(op[e].todo)
<1>0. /\ OpTypes /\ op[e].at \in {"devices", "psk", "site"} /\ op[e] \in Requests
      /\ op[e].row \in GatewayRow /\ op[e].row.ip \in Pub /\ op[e].row # None
      /\ UNCHANGED <<gate, dev, nat, saved>> /\ KeyTypes
      /\ \A f \in Op : f # e => SameFields(op'[f], op[f])
  BY SpoolsAssumption
     DEF IInv, Types, OpTypes, Shape, ReadDevices, SetPsk, SetSite, At, tables, keys, SameFields
<1>h. PICK h \in Gateway : h = Head(op[e].todo)
  <2>1. op[e].todo \in GateSeq /\ op[e].todo # <<>>
    BY <1>0, FieldsTyped DEF OpTypes, Shape
  <2> QED BY <2>1, HeadTyped
<1>1. /\ SameTables(q) /\ NoneJoins(q) /\ Holders(q)' = Holders(q)
      /\ \A g \in Gateway : Attached(g)' = Attached(g)
  BY <1>0, SameAll
<1>2. /\ SameRead(op'[e], op[e]) /\ op'[e].todo = op[e].todo /\ op'[e].row = op[e].row
      /\ \/ op[e].at = "devices" /\ op'[e].at = "psk" /\ op'[e].ips = Ips(h)
         \/ op[e].at = "psk" /\ op'[e].at = "site" /\ op'[e].ips = op[e].ips
         \/ op[e].at = "site" /\ op'[e].at = "nat" /\ op'[e].ips = op[e].ips
  <2>1. CASE ReadDevices(e)
    <3> DEFINE x == {dev[d].ip : d \in Attached(h)} \ {None}
    <3>1. op[e].at = "devices" /\ Goes(e, [op[e] EXCEPT !.at = "psk", !.ips = x]) /\ x = Ips(h)
      BY <1>h, <2>1 DEF ReadDevices, At, Ips
    <3>2. x \in IpSets
      <4>1. \A d \in Attached(h) : dev[d].ip \in Ip \cup {None}
        BY RowsTyped DEF IInv, Types, Attached
      <4> QED BY <4>1 DEF IpSets
    <3> HIDE DEF x
    <3>3. op'[e] = [op[e] EXCEPT !.at = "psk", !.ips = x] /\ "psk" \in Where
      BY <1>0, <3>1, GoesBecomes DEF Where
    <3>4. /\ op'[e].at = "psk" /\ SameRead(op'[e], op[e]) /\ op'[e].todo = op[e].todo
          /\ op'[e].row = op[e].row /\ op'[e].ips = x
      BY <1>0, <3>2, <3>3, RequestsAre DEF SameRead
    <3> QED BY <3>1, <3>4
  <2>2. CASE SetPsk(e)
    BY <1>0, <2>2, MoveFields DEF SetPsk, At, Where, SameRest
  <2>3. CASE SetSite(e)
    BY <1>0, <2>3, MoveFields DEF SetSite, At, Where, SameRest
  <2> QED BY <2>1, <2>2, <2>3
<1>3. /\ op[e].row.ip # q => SameKeys(q)
      /\ op[e].at = "psk" => psk' = [psk EXCEPT ![op[e].row.ip] = op[e].row.psk]
      /\ op[e].at = "site" => /\ site' = [site EXCEPT ![op[e].row.ip] = op[e].row.mode]
                              /\ psk' = psk
  BY <1>0 DEF KeyTypes, SameKeys, ReadDevices, SetPsk, SetSite, At, keys
<1> HIDE DEF t
<1>4. Head(op'[e].todo) = h /\ Tail(op'[e].todo) = t /\ h = Head(op[e].todo) /\ t = Tail(op[e].todo)
  BY <1>2, <1>h DEF t
<1>5. Touches(e, q)' <=> Touches(e, q)
  BY <1>0, <1>1, <1>2 DEF Touches, Active, SameRead, Holders
<1>6. ~Touches(e, q) => op[e].row.ip # q
  BY <1>0 DEF Touches, Active
<1>7. ASSUME Touches(e, q) PROVE Owing(e, q)'
  <2>1. Owing(e, q)
    BY <1>7 DEF GateOk
  <2>2. CASE op[e].row.ip = q
    <3>1. Spools(e, q)
      BY <1>0, <2>1, <2>2 DEF Owing
    <3>2. h \in Holders(q)' /\ h \in saved' /\ gate'[h] = op'[e].row
      BY <1>0, <1>1, <1>2, <1>4, <3>1 DEF Spools
    <3>3. op'[e].ips = Ips(h)'
      <4>1. Ips(h)' = Ips(h)
        BY <1>0 DEF Ips, Attached
      <4> QED BY <1>2, <1>4, <3>1, <4>1 DEF Spools
    <3>4. op'[e].at \in {"site", "nat"} => psk'[q] = op'[e].row.psk
      BY <1>0, <1>2, <1>3, <2>2, <3>1 DEF Spools, KeyTypes
    <3>5. op'[e].at = "nat" => site'[q] = op'[e].row.mode
      BY <1>0, <1>2, <1>3, <2>2 DEF KeyTypes
    <3>6. Spools(e, q)'
      BY <1>4, <3>2, <3>3, <3>4, <3>5 DEF Spools
    <3> QED BY <1>1, <1>2, <2>1, <2>2, <3>6 DEF Owing, SameRead
  <2>3. CASE op[e].row.ip # q
    <3>1. InOrder(q)' <=> InOrder(q)
      BY <1>1, <1>3, <2>3, SameOrder
    <3>2. Lost(e, q)' <=> Lost(e, q)
      BY <1>1, <1>2 DEF Lost, SameRead
    <3>3. h \notin Holders(q) /\ (InOrder(q) \/ Lost(e, q) \/ \E g \in Holders(q) : In(g, t))
      BY <1>0, <1>4, <2>1, <2>3 DEF Owing
    <3> QED BY <1>1, <1>2, <1>4, <2>1, <2>3, <3>1, <3>2, <3>3 DEF Owing, SameRead
  <2> QED BY <2>2, <2>3
<1> QED BY <1>0, <1>1, <1>3, <1>5, <1>6, <1>7, GateStepOk

\* The NAT record comes last: all three keys are those of the gateway as it is.
LEMMA GateNatAt ==
  ASSUME IInv, GateTypes, GateTypes', GateFacts, GateFacts', raced \subseteq raced', NEW q \in Pub,
         q \notin raced', q \notin shared', GateOk(q), NEW e \in Op, SetNat(e),
         \A f \in Op : f # e => op'[f] = op[f]
  PROVE  GateOk(q)'
<1> DEFINE t == Tail(op[e].todo)
<1>r. PICK r : r = op[e].row
  OBVIOUS
<1>0. /\ OpTypes /\ op[e].at = "nat" /\ op[e] \in Requests /\ op[e].todo # <<>>
      /\ r \in GatewayRow /\ r.ip \in Pub /\ r # None /\ q # None
      /\ UNCHANGED <<gate, dev, psk, site, saved>> /\ KeyTypes
      /\ nat' = [nat EXCEPT ![r.ip] = [mode |-> r.mode, ips |-> op[e].ips]]
      /\ GateKinds(op'[e]) /\ GateKinds(op[e])
      /\ \A f \in Op : f # e => SameFields(op'[f], op[f])
  BY <1>r, SpoolsAssumption
     DEF IInv, Types, OpTypes, Shape, GateTypes, SetNat, At, tables, SameFields
<1>h. PICK h \in Gateway : h = Head(op[e].todo)
  BY <1>0, TailKind DEF Spooling
<1>1. /\ SameTables(q) /\ NoneJoins(q) /\ Holders(q)' = Holders(q) /\ Holders(q) \subseteq Gateway
      /\ \A g \in Gateway : Attached(g)' = Attached(g)
  BY <1>0, SameAll DEF Holders
<1>2. /\ h \in Gateway /\ t \in GateSeq /\ op[e].on \in Device \cup Gateway
      /\ op[e].on \in Gateway => h = op[e].on /\ t = <<>>
  BY <1>0, <1>h, TailKind DEF Spooling
<1>3. GoesAfter(e, t, r.ip)
  BY <1>0, <1>r, NatGoes
<1>4. r.ip # q => SameKeys(q)
  BY <1>0 DEF SameKeys, KeyTypes
<1>5. Touches(e, q)' => Touches(e, q)
  <2>1. SUFFICES ASSUME Touches(e, q)' PROVE Touches(e, q)
    OBVIOUS
  <2>2. op[e].on \in Device => op[e].on \notin Gateway
    BY SpoolsAssumption
  <2>3. CASE op'[e] = NoOp
    BY <2>1, <2>3, NoOpTyped DEF Touches, Active
  <2>4. CASE SameRead(op'[e], op[e]) /\ op'[e].row = None
    BY <1>0, <1>1, <2>1, <2>4 DEF Touches, Active, SameRead
  <2>5. CASE /\ op[e].on \in Gateway /\ op'[e].on = op[e].on /\ op'[e].new = op[e].new
             /\ op'[e].prev = op[e].prev /\ op'[e].cur.ip = r.ip /\ op'[e].row = None
    BY <1>0, <1>1, <1>r, <2>1, <2>2, <2>5 DEF Touches, Active
  <2> QED BY <1>3, <2>3, <2>4, <2>5 DEF GoesAfter
<1>6. ~Touches(e, q) => r.ip # q
  BY <1>0, <1>r DEF Touches, Active
<1> HIDE DEF t
<1>7. ASSUME Touches(e, q)
      PROVE  (Touches(e, q)' => Owing(e, q)') /\ (~Touches(e, q)' => InOrder(q)')
  <2>1. Owing(e, q) /\ (op[e].on \in Gateway /\ op[e].prev.ip = q => Holders(q) \subseteq {op[e].on})
    BY <1>7 DEF GateOk, Owing
  <2>2. CASE r.ip = q
    <3>1. Spools(e, q)
      BY <1>0, <1>r, <2>1, <2>2 DEF Owing
    <3>2. gate'[h] = r /\ h \in Holders(q)' /\ op[e].ips = Ips(h)' /\ psk'[q] = r.psk /\ site'[q] = r.mode
      <4>1. Ips(h)' = Ips(h)
        BY <1>0 DEF Ips, Attached
      <4> QED BY <1>0, <1>1, <1>h, <1>r, <3>1, <4>1 DEF Spools
    <3>3. nat'[q] = [mode |-> r.mode, ips |-> op[e].ips]
      BY <1>0, <2>2 DEF KeyTypes
    <3>4. Spooled(h)'
      BY <2>2, <3>2, <3>3 DEF Spooled, Ips
    <3>5. \A g \in Holders(q)' : g = h
      BY <3>2 DEF GateFacts
    <3>6. InOrder(q)'
      BY <3>2, <3>4, <3>5 DEF InOrder
    <3> QED BY <1>0, <1>1, <1>2, <1>3, <2>1, <2>2, <3>6, AfterOwing
  <2>3. CASE r.ip # q
    <3>1. InOrder(q)' <=> InOrder(q)
      BY <1>1, <1>4, <2>3, SameOrder
    <3>2. h \notin Holders(q) /\ (InOrder(q) \/ Lost(e, q) \/ \E g \in Holders(q) : In(g, t))
      BY <1>0, <1>h, <1>r, <2>1, <2>3 DEF Owing, t
    <3>3. \/ InOrder(q)' \/ (op[e].on \in Gateway /\ op[e].prev.ip = q /\ Holders(q)' = {})
          \/ \E g \in Holders(q)' : In(g, t)
      BY <1>1, <3>1, <3>2 DEF Lost
    <3>4. ASSUME t = <<>>, op[e].on \in Gateway
          PROVE  IF op[e].prev.ip = q /\ r.ip # q THEN Holders(q)' = {} ELSE InOrder(q)'
      <4>1. CASE op[e].prev.ip = q
        BY <1>1, <1>2, <2>1, <2>3, <3>2, <3>4, <4>1
      <4>2. CASE op[e].prev.ip # q
        BY <1>1, <3>1, <3>2, <3>4, <4>2, InTodo DEF Lost
      <4> QED BY <4>1, <4>2
    <3> QED BY <1>0, <1>1, <1>2, <1>3, <2>1, <3>3, <3>4, AfterOwing
  <2> QED BY <2>2, <2>3
<1> QED BY <1>0, <1>1, <1>4, <1>5, <1>6, <1>7, GateStepOk DEF SameKeys

\* UPDATE gateway: it is to be spooled, and the address it has left is to be emptied.
LEMMA GateUpdateAt ==
  ASSUME IInv, GateTypes, GateFacts, GateFacts', raced \subseteq raced', NEW q \in Pub,
         q \notin raced', GateOk(q), NEW e \in Op, WriteGateway(e),
         \A f \in Op : f # e => op'[f] = op[f]
  PROVE  GateOk(q)'
<1>d. PICK d \in Gateway : d = op[e].on
  BY DEF IInv, Types, OpTypes, Shape, WriteGateway, At
<1>0. /\ OpTypes /\ op[e].at = "gupdate" /\ op[e] \in Requests /\ op[e].new \in GatewayRow
      /\ op[e].new # None /\ UNCHANGED <<dev, psk, site, nat>> /\ GateKinds(op[e])
      /\ gate' = [gate EXCEPT ![d] = IF @ = None THEN None ELSE op[e].new]
      /\ saved' = saved \cup {d} /\ gate \in [Gateway -> GatewayRow \cup {None}]
      /\ d \notin Device
      /\ \A f \in Op : f # e => SameFields(op'[f], op[f])
  BY <1>d, SpoolsAssumption
     DEF IInv, Types, OpTypes, GateTypes, TableTypes, Shape, WriteGateway, At, keys, SameFields
<1>1. op'[e].at = "gate" /\ SameRead(op'[e], op[e]) /\ op'[e].todo = <<d>> /\ op'[e].row = op[e].row
  <2>1. <<d>> \in GateSeq /\ "gate" \in Where
    BY DEF GateSeq, Where
  <2>2. op'[e] = [op[e] EXCEPT !.at = "gate", !.todo = <<d>>]
    BY <1>0, <1>d, GoesBecomes DEF WriteGateway
  <2> QED BY <1>0, <2>1, <2>2, RequestsAre DEF SameRead
<1>2. /\ \A g \in Gateway : g # d => gate'[g] = gate[g]
      /\ d \in Holders(q)' => op[e].new.ip = q
      /\ Holders(q)' \cup {d} = Holders(q) \cup {d} /\ Holders(q) \subseteq Gateway
  BY <1>0 DEF Holders
<1>3. SameKeys(q) /\ \A g \in Gateway : Attached(g)' = Attached(g)
  BY <1>0 DEF SameKeys, Attached
<1>4. ASSUME d \notin Holders(q), d \notin Holders(q)' PROVE SameTables(q)
  <2>1. Holders(q)' = Holders(q)
    BY <1>2, <1>4
  <2>2. \A g \in Holders(q) : /\ g # d /\ gate'[g] = gate[g] /\ (g \in saved' <=> g \in saved)
                              /\ Attached(g)' = Attached(g)
    BY <1>0, <1>2, <1>3, <1>4
  <2> QED BY <1>0, <2>1, <2>2 DEF SameTables
<1>5. Touches(e, q)' => Touches(e, q)
  BY <1>0, <1>1, <1>2, <1>d DEF Touches, Active, SameRead
<1>6. ASSUME ~Touches(e, q) PROVE SameTables(q)
  <2>1. d \notin Holders(q) /\ d \notin Holders(q)'
    BY <1>0, <1>2, <1>6, <1>d DEF Touches, Active
  <2> QED BY <1>4, <2>1
<1>7. ASSUME Touches(e, q) PROVE Touches(e, q)' /\ Owing(e, q)'
  <2>1. /\ InOrder(q) /\ (d \in Holders(q) => op[e].prev.ip = q)
        /\ op[e].prev.ip = q => Holders(q) \subseteq {d}
    BY <1>0, <1>7, <1>d DEF GateOk, Owing
  <2>2. Touches(e, q)'
    BY <1>0, <1>1, <1>7, <1>d, <2>1 DEF Touches, Active, SameRead
  <2>3. op[e].prev.ip = q => Holders(q)' \subseteq {d}
    BY <1>2, <2>1
  <2>4. InOrder(q)' \/ Lost(e, q)' \/ \E g \in Holders(q)' : In(g, op'[e].todo)
    <3>1. CASE d \in Holders(q)'
      BY <1>1, <3>1, InTodo
    <3>2. CASE d \notin Holders(q)' /\ d \in Holders(q)
      <4>1. Holders(q)' = {} /\ op[e].prev.ip = q
        BY <2>1, <2>3, <3>2
      <4> QED BY <1>1, <1>d, <4>1 DEF Lost, SameRead
    <3>3. CASE d \notin Holders(q)' /\ d \notin Holders(q)
      BY <1>3, <1>4, <2>1, <3>3, SameOrder
    <3> QED BY <3>1, <3>2, <3>3
  <2>5. Owing(e, q)'
    BY <1>1, <1>d, <2>3, <2>4 DEF Owing, SameRead
  <2> QED BY <2>2, <2>5
<1> QED BY <1>0, <1>3, <1>5, <1>6, <1>7, GateStepOk

\* SELECT of the address of a gateway to delete.
LEMMA GateSelectAt ==
  ASSUME IInv, GateTypes, GateFacts, GateFacts', raced \subseteq raced', NEW q \in Pub,
         q \notin raced', q \notin shared', GateOk(q), NEW e \in Op, SelectGateway(e),
         \A f \in Op : f # e => op'[f] = op[f]
  PROVE  GateOk(q)'
<1> DEFINE d == op[e].on
           x == IF gate[d] = None THEN None ELSE gate[d].ip
<1>0. /\ OpTypes /\ op[e].at = "gselect" /\ op[e] \in Requests /\ d \in Gateway
      /\ UNCHANGED <<dev, gate, psk, site, nat, saved>> /\ q # None /\ TableTypes
      /\ \A f \in Op : f # e => SameFields(op'[f], op[f])
  BY SpoolsAssumption
     DEF IInv, Types, OpTypes, Shape, SelectGateway, At, tables, keys, SameFields
<1>1. /\ SameTables(q) /\ SameKeys(q) /\ NoneJoins(q) /\ Holders(q)' = Holders(q)
      /\ Holders(q) \subseteq Gateway /\ \A g \in Gateway : Attached(g)' = Attached(g)
  BY <1>0, SameAll DEF SameKeys, Holders
<1>2. /\ op'[e].at = "gdelete" /\ op'[e].on = d /\ op'[e].new = op[e].new /\ op'[e].row = op[e].row
      /\ op'[e].cur = op[e].cur /\ op'[e].prev.ip = x
  <2>1. op'[e] = [op[e] EXCEPT !.at = "gdelete", !.prev.ip = x] /\ "gdelete" \in Where
    BY <1>0, GoesBecomes DEF SelectGateway, Where
  <2>2. x \in AddrSet
    BY <1>0, RowsTyped DEF AddrSet
  <2> HIDE DEF x
  <2> QED BY <1>0, <2>1, <2>2, RequestsAre DEF Place
<1>3. x = q <=> d \in Holders(q)
  BY <1>0 DEF Holders
<1>4. x = q => Holders(q)' \subseteq {d}
  BY <1>1, <1>3 DEF GateFacts
<1> HIDE DEF x
<1>5. d \notin Device
  BY <1>0, SpoolsAssumption
<1>6. Touches(e, q)' => Touches(e, q)
  BY <1>0, <1>1, <1>2, <1>3, <1>5 DEF Touches, Active
<1>7. ASSUME Touches(e, q)
      PROVE  (Touches(e, q)' => Owing(e, q)') /\ (~Touches(e, q)' => InOrder(q)')
  <2>1. InOrder(q)
    BY <1>0, <1>7 DEF GateOk, Owing
  <2>2. InOrder(q)'
    BY <1>1, <2>1, SameOrder
  <2> QED BY <1>1, <1>2, <1>3, <1>4, <2>2 DEF Owing, Spooling
<1> QED BY <1>0, <1>1, <1>6, <1>7, GateStepOk

\* DELETE of a gateway: its keys are to be removed.
LEMMA GateDeleteAt ==
  ASSUME IInv, GateTypes, GateFacts, GateFacts', raced \subseteq raced', NEW q \in Pub,
         q \notin raced', GateOk(q), NEW e \in Op, DropGateway(e),
         \A f \in Op : f # e => op'[f] = op[f]
  PROVE  GateOk(q)'
<1>d. PICK d \in Gateway : d = op[e].on
  BY DEF IInv, Types, OpTypes, Shape, DropGateway, At
<1>0. /\ OpTypes /\ op[e].at = "gdelete" /\ op[e] \in Requests /\ GateKinds(op[e])
      /\ UNCHANGED <<dev, psk, site, nat, saved>> /\ gate \in [Gateway -> GatewayRow \cup {None}]
      /\ d \notin Device /\ q # None /\ op[e].cur.ip = None
      /\ \A f \in Op : f # e => SameFields(op'[f], op[f])
  BY <1>d, SpoolsAssumption
     DEF IInv, Types, OpTypes, GateTypes, GateKinds, TableTypes, Shape, DropGateway, At, keys, SameFields
<1>1. CASE End(e) /\ UNCHANGED gate
  <2>1. op'[e] = NoOp
    BY <1>0, <1>1, GoesBecomes DEF End
  <2>2. Touches(e, q) => InOrder(q)
    BY <1>0 DEF GateOk, Owing
  <2> QED BY <1>0, <1>1, <2>1, <2>2, GateEnds
<1>2. CASE gate' = [gate EXCEPT ![d] = None] /\ Goes(e, [op[e] EXCEPT !.at = "stale"])
  <2>1. op'[e].at = "stale" /\ SameRest(op'[e], op[e])
    BY <1>0, <1>2, MoveFields DEF Where
  <2>2. /\ \A g \in Gateway : g # d => gate'[g] = gate[g]
        /\ Holders(q)' = Holders(q) \ {d} /\ Holders(q) \subseteq Gateway
    BY <1>0, <1>2 DEF Holders
  <2>3. SameKeys(q) /\ NoneJoins(q) /\ \A g \in Gateway : Attached(g)' = Attached(g)
    BY <1>0, <2>2 DEF SameKeys, Attached, NoneJoins
  <2>4. ASSUME d \notin Holders(q) PROVE SameTables(q)
    BY <1>0, <2>2, <2>3, <2>4 DEF SameTables
  <2>5. Touches(e, q)' => Touches(e, q)
    BY <1>0, <1>d, <2>1, <2>2 DEF Touches, Active, SameRest, SameRead
  <2>6. ~Touches(e, q) => SameTables(q)
    BY <1>0, <1>d, <2>4 DEF Touches, Active
  <2>7. ASSUME Touches(e, q)
        PROVE  (Touches(e, q)' => Owing(e, q)') /\ (~Touches(e, q)' => InOrder(q)')
    <3>1. /\ InOrder(q) /\ (d \in Holders(q) => op[e].prev.ip = q)
          /\ op[e].prev.ip = q => Holders(q) \subseteq {d}
      BY <1>0, <1>d, <2>7 DEF GateOk, Owing
    <3>2. op[e].prev.ip = q => Holders(q)' = {}
      BY <2>2, <3>1
    <3>3. op[e].prev.ip # q => InOrder(q)'
      BY <2>3, <2>4, <3>1, SameOrder
    <3>4. Owing(e, q)'
      BY <1>0, <2>1, <3>2, <3>3 DEF Owing, SameRest, SameRead, Spooling
    <3>5. ~Touches(e, q)' => op[e].prev.ip # q
      BY <2>1 DEF Touches, Active, SameRest, SameRead
    <3> QED BY <3>3, <3>4, <3>5
  <2> QED BY <1>0, <2>3, <2>5, <2>6, <2>7, GateStepOk
<1> QED BY <1>1, <1>2, <1>d DEF DropGateway

\* UNLINK of the three keys of an address that was left.
LEMMA GateUnlinkKeysAt ==
  ASSUME IInv, GateTypes, GateFacts, GateFacts', raced \subseteq raced', NEW q \in Pub,
         q \notin raced', GateOk(q), NEW e \in Op, UnlinkGateway(e),
         \A f \in Op : f # e => op'[f] = op[f]
  PROVE  GateOk(q)'
<1>0. /\ OpTypes /\ op[e].at = "stale" /\ op[e] \in Requests /\ q # None /\ KeyTypes
      /\ UNCHANGED <<dev, gate, saved>> /\ op'[e] = NoOp
      /\ \A f \in Op : f # e => SameFields(op'[f], op[f])
  BY SpoolsAssumption, GoesBecomes
     DEF IInv, Types, OpTypes, UnlinkGateway, End, At, tables, SameFields
<1>1. SameTables(q) /\ NoneJoins(q) /\ Holders(q)' = Holders(q)
  BY <1>0, SameAll
<1>2. ~Touches(e, q)'
  BY <1>0, NoOpTyped DEF Touches, Active
<1>3. CASE op[e].prev.ip = q /\ op[e].cur.ip # q
  <2>1. Leaves(e)
    BY <1>0, <1>3 DEF Leaves
  <2>2. /\ psk' = [psk EXCEPT ![op[e].prev.ip] = None] /\ site' = [site EXCEPT ![op[e].prev.ip] = None]
        /\ nat' = [nat EXCEPT ![op[e].prev.ip] = None]
    BY <2>1 DEF UnlinkGateway
  <2>3. Bare(q)'
    BY <1>0, <1>3, <2>2 DEF KeyTypes, Bare
  <2>4. Touches(e, q) /\ Holders(q) = {}
    BY <1>0, <1>3 DEF Touches, Active, GateOk, Owing
  <2>5. InOrder(q)'
    BY <1>1, <2>3, <2>4 DEF InOrder
  <2> QED BY <1>0, <1>1, <1>2, <2>4, <2>5, GateStepOk
<1>4. CASE ~(op[e].prev.ip = q /\ op[e].cur.ip # q)
  <2>1. SameKeys(q)
    <3>1. CASE Leaves(e)
      <4>1. op[e].prev.ip # q
        BY <1>4, <3>1 DEF Leaves
      <4>2. /\ psk' = [psk EXCEPT ![op[e].prev.ip] = None] /\ site' = [site EXCEPT ![op[e].prev.ip] = None]
            /\ nat' = [nat EXCEPT ![op[e].prev.ip] = None]
        BY <3>1 DEF UnlinkGateway
      <4> QED BY <1>0, <4>1, <4>2 DEF KeyTypes, SameKeys
    <3>2. CASE ~Leaves(e)
      BY <3>2 DEF UnlinkGateway, SameKeys
    <3> QED BY <3>1, <3>2
  <2>2. Touches(e, q) => InOrder(q)
    BY <1>0, <1>4 DEF GateOk, Owing
  <2>3. Touches(e, q) => InOrder(q)'
    BY <1>1, <2>1, <2>2, SameOrder
  <2> QED BY <1>0, <1>1, <1>2, <2>1, <2>3, GateStepOk
<1> QED BY <1>3, <1>4

--------------------------------------------------------------------------------
(* The invariant of the gateways *)

\* The imported gateways may have no keys, and there are no others.
LEMMA GateInit == Init => GateInv
<1> SUFFICES ASSUME Init PROVE GateInv
  OBVIOUS
<1>1. \A e \in Op : op[e] = NoOp
  BY DEF Init
<1>2. GateTypes
  BY <1>1, NoOpGateKind DEF GateTypes
<1>3. ASSUME NEW q \in Pub PROVE GateOk(q)
  <2>1. Bare(q) /\ \A g \in Holders(q) : g \notin saved
    BY DEF Init, Bare
  <2>2. \A e \in Op : ~Touches(e, q)
    BY <1>1, NoOpTyped DEF Touches, Active
  <2> QED BY <2>1, <2>2 DEF GateOk, InOrder
<1> QED BY <1>2, <1>3, KeysInit DEF GateInv

\* Every step of every request keeps every public address in order.
LEMMA GateStep == GateInv /\ [Next]_vars => GateInv'
<1> SUFFICES ASSUME GateInv, [Next]_vars PROVE GateInv'
  OBVIOUS
<1>1. KeyInv' /\ KeyInv /\ IInv' /\ IInv /\ GateTypes /\ Doubles \subseteq shared /\ (Doubles \subseteq shared)'
  BY KeysStep DEF GateInv, KeyInv
<1>2. GateFacts
  BY <1>1, GateFactsHold
<1>3. CASE UNCHANGED vars
  <2>1. GateTypes'
    BY <1>1, <1>3 DEF vars, GateTypes
  <2>2. ASSUME NEW q \in Pub, q \notin Suspect' PROVE GateOk(q)'
    <3>1. GateOk(q)
      BY <1>3, <2>2 DEF vars, history, Suspect, GateInv
    <3>2. SameTables(q) /\ SameKeys(q) /\ \A f \in Op : SameFields(op'[f], op[f])
      BY <1>3, SameAll DEF vars, tables, keys, SameKeys, SameFields
    <3>3. \A f \in Op : (Touches(f, q)' <=> Touches(f, q)) /\ (Owing(f, q) => Owing(f, q)')
      BY <3>2, SameTouches
    <3> QED BY <3>1, <3>2, <3>3, SameOrder DEF GateOk
  <2> QED BY <1>1, <2>1, <2>2 DEF GateInv
<1>4. ASSUME NEW e \in Op, Remember(e),
             DeviceRequest(e) \/ GatewayRequest(e) \/ DeviceStep(e) \/ GatewayStep(e) \/ Fail(e)
      PROVE  GateInv'
  <2>1. GateTypes'
    BY <1>1, <1>4, GateKindsStep
  <2>2. raced \subseteq raced' /\ Suspect \subseteq Suspect'
    BY <1>4 DEF Remember, Suspect
  <2>3. GateFacts'
    BY <1>1, <2>1, GateFactsNext
  <2>4. ASSUME NEW q \in Pub, q \notin Suspect' PROVE GateOk(q)'
    <3>1. GateOk(q) /\ q \notin raced' /\ q \notin shared' /\ q \notin failed'
      BY <2>2, <2>4 DEF Suspect, GateInv
    <3>2. CASE DeviceRequest(e)
      BY <1>1, <2>3, <3>1, <3>2, GateDeviceRequestAt
    <3>3. CASE GatewayRequest(e)
      BY <1>1, <2>3, <3>1, <3>3, GateGatewayRequestAt
    <3>4. CASE Fail(e)
      BY <1>1, <1>2, <1>4, <3>1, <3>4, GateFailAt
    <3>5. CASE DeviceStep(e)
      <4>1. \A f \in Op : f # e => op'[f] = op[f]
        BY <1>1, <3>5, DeviceStepTyped DEF IInv
      <4>2. CASE WriteDevice(e)
        BY <1>1, <1>2, <2>2, <2>3, <3>1, <4>1, <4>2, GateWriteAt
      <4>3. CASE DropDevice(e)
        BY <1>1, <1>2, <2>2, <2>3, <3>1, <4>1, <4>3, GateDropAt
      <4>4. CASE LoadDevice(e)
        BY <1>1, <1>2, <2>2, <2>3, <3>1, <4>1, <4>4, GateLoadAt
      <4>5. CASE DelHash(e) \/ SetHash(e)
        BY <1>1, <1>2, <2>2, <2>3, <3>1, <4>1, <4>5, GateHashAt
      <4>6. CASE UnlinkOld(e)
        BY <1>1, <1>2, <2>1, <2>2, <2>3, <3>1, <4>1, <4>6, GateUnlinkAt
      <4> QED BY <3>5, <4>2, <4>3, <4>4, <4>5, <4>6 DEF DeviceStep
    <3>6. CASE GatewayStep(e)
      <4>1. \A f \in Op : f # e => op'[f] = op[f]
        BY <1>1, <3>6, SpoolStepTyped, GatewayStepTyped DEF GatewayStep, IInv
      <4>2. CASE ReadGateway(e)
        BY <1>1, <1>2, <2>1, <2>2, <2>3, <3>1, <4>1, <4>2, GateReadAt
      <4>3. CASE ReadDevices(e) \/ SetPsk(e) \/ SetSite(e)
        BY <1>1, <1>2, <2>2, <2>3, <3>1, <4>1, <4>3, GateFillAt
      <4>4. CASE SetNat(e)
        BY <1>1, <1>2, <2>1, <2>2, <2>3, <3>1, <4>1, <4>4, GateNatAt
      <4>5. CASE WriteGateway(e)
        BY <1>1, <1>2, <2>2, <2>3, <3>1, <4>1, <4>5, GateUpdateAt
      <4>6. CASE SelectGateway(e)
        BY <1>1, <1>2, <2>2, <2>3, <3>1, <4>1, <4>6, GateSelectAt
      <4>7. CASE DropGateway(e)
        BY <1>1, <1>2, <2>2, <2>3, <3>1, <4>1, <4>7, GateDeleteAt
      <4>8. CASE UnlinkGateway(e)
        BY <1>1, <1>2, <2>2, <2>3, <3>1, <4>1, <4>8, GateUnlinkKeysAt
      <4> QED BY <3>6, <4>2, <4>3, <4>4, <4>5, <4>6, <4>7, <4>8 DEF GatewayStep
    <3> QED BY <1>4, <3>2, <3>3, <3>4, <3>5, <3>6
  <2> QED BY <1>1, <2>1, <2>4 DEF GateInv
<1> QED BY <1>3, <1>4 DEF Next

\* Every public address that was never raced, failed or shared is in order in every reachable
\* state.
THEOREM GateInvariant == Spec => []GateInv
BY GateInit, GateStep, PTL DEF Spec

\* So are the three keys of a gateway, for every number of gateways, devices, requests, edits and
\* failures: where no request is under way they exist together and agree with the row and with
\* the devices attached now, or are gone with the gateway.
THEOREM GatewayKeysHolds == Spec => []GatewayKeys
<1>1. GateInv => GatewayKeys
  <2> SUFFICES ASSUME GateInv, NEW q \in Pub \ Suspect, Untouched(q) PROVE InOrder(q)
    BY DEF GatewayKeys, InOrder
  <2>1. GateFacts /\ GateOk(q)
    BY GateFactsHold DEF GateInv, KeyInv
  <2>2. \A e \in Op : ~Touches(e, q)
    BY <2>1 DEF GateFacts, Untouched
  <2> QED BY <2>1, <2>2 DEF GateOk
<1> QED BY <1>1, GateInvariant, PTL

--------------------------------------------------------------------------------
(***************************************************************************)
(* SaveRepairs: what a request that runs alone concerns is right when it    *)
(* ends, whatever the keys were when it began.  Nothing is assumed of the   *)
(* keys then; Repairing says, for each place of such a request, what it has *)
(* read is still so and what it has already made good.  Its operators are   *)
(* about the record of a request, so that the one a step leads to can be    *)
(* held against the tables and keys after the step.                         *)
(***************************************************************************)

\* The gateway has an address to itself; its keys are then its own, or it still waits.
Sole(g)   == gate[g] # None /\ gate[g].ip # None /\ Holders(gate[g].ip) = {g}
Due(g, s) == Sole(g) => Spooled(g) \/ In(g, s)

\* The gateways to spool.
Wanted(r) == IF r.on \in Gateway THEN {r.on} ELSE {r.prev.gw, r.cur.gw} \ {None}

\* What was written and read back of a device is its row.
RowRead(r) ==
    IF dev[r.on] = None THEN r.new = None /\ r.cur.ip = None /\ r.cur.gw = None
    ELSE r.new = dev[r.on] /\ r.cur.ip = dev[r.on].ip /\ r.cur.gw = dev[r.on].gw

\* The key of its address is set, that of the old one is gone.
Hashed(r)   == r.cur.ip # None => sys[r.cur.ip] = dev[r.on].info
Unlinked(r) == r.prev.ip \notin {None, r.cur.ip} => sys[r.prev.ip] = NoHash

RepairsDevice(r) ==
    r.on \in Device =>
      /\ r.at \in {"update", "delete", "load", "del", "hset"} => dev[r.on] # None
      /\ r.at = "update" => (r.new.gw # None => gate[r.new.gw] # None)
      /\ r.at = "delete" => r.new = None
      /\ r.at = "load" => r.new = dev[r.on]
      /\ r.at \in {"del", "hset", "unlink"} \cup Spooling => RowRead(r)
      /\ r.at \in {"del", "hset"} => r.info = dev[r.on].info
      /\ r.at = "hset" => sys[r.cur.ip] = NoHash
      /\ r.at \in {"unlink"} \cup Spooling => Hashed(r)
      /\ r.at \in Spooling => Unlinked(r)

\* What was read of the gateway being spooled is what there is, what was set is what was read.
RepairsKeys(r) ==
    /\ r.at = "gate" => \A g \in Wanted(r) : Due(g, r.todo)
    /\ r.at \in {"devices", "psk", "site", "nat"} =>
          /\ gate[Head(r.todo)] = r.row
          /\ \A g \in Wanted(r) : g # Head(r.todo) => Due(g, Tail(r.todo))
    /\ r.at \in {"psk", "site", "nat"} => r.ips = Ips(Head(r.todo))
    /\ r.at \in {"site", "nat"} => psk[r.row.ip] = r.row.psk
    /\ r.at = "nat" => site[r.row.ip] = r.row.mode

\* What was written of a gateway is its row, and that is spooled before stale keys are removed.
RepairsGateway(r) ==
    r.on \in Gateway =>
      /\ r.at = "gupdate" => gate[r.on] # None
      /\ r.at \in {"gselect", "gdelete"} => Attached(r.on) = {} /\ r.new = None
      /\ r.at \in Spooling => gate[r.on] # None /\ r.new = gate[r.on]
      /\ r.at = "stale" =>
            IF gate[r.on] = None THEN r.new = None /\ r.cur.ip = None
            ELSE r.new = gate[r.on] /\ r.cur.ip = gate[r.on].ip /\ Due(r.on, <<>>)

Repairing(r) == RepairsDevice(r) /\ RepairsKeys(r) /\ RepairsGateway(r)

Lone(e) == Active(e) /\ op[e].alone

\* The record of a request is bound, so that Repairing is of a value also after a step.
RepairInv ==
    /\ GateInv
    /\ \A e \in Op : Lone(e) => /\ \A r \in {op[e]} : Repairing(r)
                               /\ \A f \in Op : f # e => ~Active(f)

--------------------------------------------------------------------------------
(* The steps of a request that runs alone *)

Good(r) == r \in Requests /\ Shape(r) /\ Kinds(r) /\ GateKinds(r)

\* The request of e, r before the step and p after it.
Moving(e, r, p) ==
    /\ TableTypes /\ KeyTypes /\ OpTypes
    /\ r = op[e] /\ p = op'[e] /\ Good(r) /\ Good(p)
    /\ Repairing(r)

\* It goes on.
Onward(p) == p.at # "idle" /\ Repairing(p)'

\* What is written is what the row then is.
LEMMA RepairWrite ==
  ASSUME NEW e \in Op, NEW r, NEW p, Moving(e, r, p), WriteDevice(e)
  PROVE  Onward(p)
<1>1. r.at = "update" /\ r.on \in Device /\ r.new \in DeviceRow /\ r.new # None
  BY SpoolsAssumption DEF Moving, Good, Shape, WriteDevice, At
<1>2. dev[r.on] # None /\ (r.new.gw # None => gate[r.new.gw] # None)
  BY <1>1 DEF Moving, Repairing, RepairsDevice
<1>3. /\ dev' = [dev EXCEPT ![r.on] = r.new]
      /\ Goes(e, [op[e] EXCEPT !.at = "load"])
  BY <1>2 DEF Moving, WriteDevice
<1>4. p.at = "load" /\ SameRest(p, r)
  BY <1>3, MoveFields DEF Moving, Where
<1>5. dev'[r.on] = r.new
  BY <1>1, <1>3 DEF Moving, TableTypes
<1> QED BY <1>1, <1>4, <1>5 DEF Onward, Repairing, RepairsDevice, RepairsKeys, RepairsGateway,
                             SameRest, SameRead, Spooling

\* Of a row that was deleted there is nothing left.
LEMMA RepairDrop ==
  ASSUME NEW e \in Op, NEW r, NEW p, Moving(e, r, p), DropDevice(e)
  PROVE  Onward(p)
<1>1. r.at = "delete" /\ r.on \in Device
  BY DEF Moving, Good, Shape, DropDevice, At
<1>2. r.new = None /\ r.cur.gw = None /\ r.cur.ip = None
  <2>1. r.cur.ip \in AddrSet /\ r.cur.ip \notin Ip /\ r.cur.ip \notin Pub
    BY <1>1, FieldsTyped DEF Moving, Good, Kinds, GateKinds
  <2> QED BY <1>1, <2>1 DEF Moving, Good, GateKinds, Repairing, RepairsDevice, AddrSet
<1>3. dev' = [dev EXCEPT ![r.on] = None] /\ Goes(e, [op[e] EXCEPT !.at = "unlink"])
  BY DEF Moving, DropDevice
<1>4. p.at = "unlink" /\ SameRest(p, r)
  BY <1>3, MoveFields DEF Moving, Where
<1>5. dev'[r.on] = None
  BY <1>1, <1>3 DEF Moving, TableTypes
<1> QED BY <1>1, <1>2, <1>4, <1>5 DEF Onward, Repairing, RepairsDevice, RepairsKeys, RepairsGateway,
                             RowRead, Hashed, SameRest, SameRead, Spooling

\* The row that was written is read back.
LEMMA RepairLoad ==
  ASSUME NEW e \in Op, NEW r, NEW p, Moving(e, r, p), LoadDevice(e)
  PROVE  Onward(p)
<1>1. r.at = "load" /\ r.on \in Device /\ UNCHANGED <<dev, gate, sys>>
  BY DEF Moving, Good, Shape, LoadDevice, At, tables, keys
<1>2. dev[r.on] # None /\ r.new = dev[r.on]
  BY <1>1 DEF Moving, Repairing, RepairsDevice
<1> DEFINE w == IF dev[r.on].ip = None THEN "unlink" ELSE "del"
           x == [ip |-> dev[r.on].ip, gw |-> dev[r.on].gw]
           y == dev[r.on].info
<1>3. p = [r EXCEPT !.at = w, !.cur = x, !.info = y]
  BY <1>2, GoesBecomes DEF Moving, LoadDevice
<1>4. w \in Where /\ x \in Place /\ y \in InfoSet /\ r \in Requests
  BY <1>1, <1>2, RowsTyped DEF Moving, Good, Where, Place, AddrSet, InfoSet
<1>5. /\ p.at = w /\ p.cur = x /\ p.info = y /\ p.on = r.on /\ p.new = r.new
  <2> HIDE DEF w, x, y
  <2> QED BY <1>3, <1>4, RequestsAre
<1>6. p.cur.ip = dev[r.on].ip /\ p.cur.gw = dev[r.on].gw
  BY <1>5
<1> QED BY <1>1, <1>2, <1>5, <1>6 DEF Onward, Repairing, RepairsDevice, RepairsKeys, RepairsGateway,
                             RowRead, Hashed, Spooling

\* DEL leaves nothing under the address,
LEMMA RepairDel ==
  ASSUME NEW e \in Op, NEW r, NEW p, Moving(e, r, p), DelHash(e)
  PROVE  Onward(p)
<1>1. /\ r.at = "del" /\ r.on \in Device /\ r.cur.ip \in Ip /\ UNCHANGED <<dev, gate>>
      /\ sys' = [sys EXCEPT ![r.cur.ip] = NoHash] /\ Goes(e, [op[e] EXCEPT !.at = "hset"])
  BY DEF Moving, Good, Shape, DelHash, At, tables
<1>2. p.at = "hset" /\ SameRest(p, r) /\ p.info = r.info
  <2>1. p = [r EXCEPT !.at = "hset"] /\ r \in Requests /\ "hset" \in Where
    BY <1>1, GoesBecomes DEF Moving, Where, Good
  <2> QED BY <2>1, MoveTyped DEF SameRest, SameRead
<1>3. sys'[r.cur.ip] = NoHash
  BY <1>1 DEF Moving, KeyTypes
<1>4. dev[r.on] # None /\ RowRead(r) /\ r.info = dev[r.on].info
  BY <1>1 DEF Moving, Repairing, RepairsDevice
<1>5. RowRead(p)'
  BY <1>1, <1>2, <1>4 DEF RowRead, SameRest, SameRead
<1> QED BY <1>1, <1>2, <1>3, <1>4, <1>5 DEF Onward, Repairing, RepairsDevice, RepairsKeys, RepairsGateway,
                             SameRest, SameRead, Spooling

\* so that HSET makes it what it writes.
LEMMA RepairSet ==
  ASSUME NEW e \in Op, NEW r, NEW p, Moving(e, r, p), SetHash(e)
  PROVE  Onward(p)
<1>1. /\ r.at = "hset" /\ r.on \in Device /\ r.cur.ip \in Ip /\ r.info \in Info /\ UNCHANGED <<dev, gate>>
      /\ sys' = [sys EXCEPT ![r.cur.ip] = Merge(@, r.info)] /\ Goes(e, [op[e] EXCEPT !.at = "unlink"])
  BY DEF Moving, Good, Shape, SetHash, At, tables
<1>2. p.at = "unlink" /\ SameRest(p, r)
  BY <1>1, MoveFields DEF Moving, Where
<1>3. dev[r.on] # None /\ RowRead(r) /\ r.info = dev[r.on].info /\ sys[r.cur.ip] = NoHash
  BY <1>1 DEF Moving, Repairing, RepairsDevice
<1>4. sys'[r.cur.ip] = r.info
  <2>1. r.info \in Hash
    BY <1>1, SpoolsAssumption
  <2>2. Merge(NoHash, r.info) = r.info
    BY <2>1 DEF Merge, Hash, NoHash
  <2> QED BY <1>1, <1>3, <2>2 DEF Moving, KeyTypes
<1>5. RowRead(p)' /\ Hashed(p)'
  BY <1>1, <1>2, <1>3, <1>4 DEF RowRead, Hashed, SameRest, SameRead
<1> QED BY <1>1, <1>2, <1>5 DEF Onward, Repairing, RepairsDevice, RepairsKeys, RepairsGateway,
                             SameRest, SameRead, Spooling

\* A request about a device is over with its key, the old key or a gateway: row and keys of the
\* device are right, and the gateways that still wait are all that is left.
Passed(e, r) ==
    /\ r.on \in Device /\ UNCHANGED <<dev, gate>>
    /\ RowRead(r) /\ Hashed(r)' /\ Unlinked(r)'
    /\ r.row # None => \E h \in Gateway : gate[h] = r.row
    /\ \E todo \in GateSeq :
          (\E x : GoesAfter(e, todo, x)) /\ \A g \in Wanted(r) : Due(g, todo)'

\* Then it goes on to them.
LEMMA RepairNext ==
  ASSUME NEW e \in Op, NEW r, NEW p, Moving(e, r, p), Passed(e, r), p.at # "idle"
  PROVE  Repairing(p)'
<1>0. PICK todo \in GateSeq : (\E x : GoesAfter(e, todo, x)) /\ \A g \in Wanted(r) : Due(g, todo)'
  BY DEF Passed
<1>1. r.on \in Device /\ r.on \notin Gateway
  BY SpoolsAssumption DEF Passed
<1>2. p.at = "gate" /\ SameRead(p, r) /\ p.todo = todo
  BY <1>0, <1>1, NoOpTyped DEF GoesAfter, Moving
<1>3. RowRead(p)' /\ Hashed(p)' /\ Unlinked(p)' /\ Wanted(p) = Wanted(r)
  BY <1>2 DEF Passed, RowRead, Hashed, Unlinked, Wanted, SameRead
<1> QED BY <1>0, <1>1, <1>2, <1>3 DEF Repairing, RepairsDevice, RepairsKeys, RepairsGateway,
                             SameRead, Spooling

\* The old key goes, and the gateways concerned are about to be spooled.
LEMMA RepairUnlink ==
  ASSUME NEW e \in Op, NEW r, NEW p, Moving(e, r, p), UnlinkOld(e)
  PROVE  Passed(e, r)
<1>1. /\ r.at = "unlink" /\ r.on \in Device /\ UNCHANGED <<dev, gate, psk, site, nat>>
      /\ sys' = IF Leaves(e) THEN [sys EXCEPT ![r.prev.ip] = NoHash] ELSE sys
      /\ Goes(e, After(e, ToSpool(e))) /\ r.row = None
  BY DEF Moving, Good, Kinds, GateKinds, UnlinkOld, At, tables
<1>2. RowRead(r) /\ Hashed(r)
  BY <1>1 DEF Moving, Repairing, RepairsDevice
<1>3. r.on \notin Gateway /\ op[e] \in Requests
  BY <1>1, SpoolsAssumption DEF Moving, Good
<1>4. ToSpool(e) \in GateSeq /\ GoesAfter(e, ToSpool(e), r.cur.ip)
  BY <1>1, <1>3, ToSpoolTyped, AfterGoes DEF Moving
<1>5. \A g \in Wanted(r) : g \in Gateway /\ In(g, ToSpool(e))
  <2>1. Wanted(r) \subseteq Gateway
    BY <1>3, FieldsTyped DEF Wanted, GateSet, Moving
  <2> QED BY <1>3, <2>1, InToSpool DEF Wanted, Moving
<1>6. PICK todo \in GateSeq : todo = ToSpool(e)
  BY <1>4
<1>7. \A g \in Wanted(r) : Due(g, todo)'
  BY <1>5, <1>6 DEF Due
<1>8. r.prev.ip \in Ip \cup {None}
  <2>1. r.prev.ip \notin Pub
    BY <1>1 DEF Moving, Good, GateKinds
  <2> QED BY <2>1, <1>3, FieldsTyped DEF Moving, AddrSet
<1>9. Unlinked(r)' /\ Hashed(r)'
  BY <1>1, <1>2, <1>8 DEF Unlinked, Hashed, Leaves, Moving, KeyTypes
<1> QED BY <1>1, <1>2, <1>4, <1>6, <1>7, <1>9 DEF Passed

--------------------------------------------------------------------------------
(* The steps of spoolGateway *)

\* A request that spools and the gateway it is at.
LEMMA AtHead ==
  ASSUME NEW r, Good(r), r.at \in Spooling
  PROVE  /\ r.on \in Device \cup Gateway /\ Head(r.todo) \in Gateway /\ Tail(r.todo) \in GateSeq
         /\ r.todo \in GateSeq /\ r.todo # <<>> /\ Wanted(r) \subseteq Gateway
         /\ r.on \in Gateway => Head(r.todo) = r.on /\ Tail(r.todo) = <<>> /\ r.cur.ip = None
<1>1. r.todo \in GateSeq /\ r.todo # <<>> /\ r.on \in Device \cup Gateway
  BY FieldsTyped DEF Good, Shape, Kinds, Spooling
<1>2. Wanted(r) \subseteq Gateway
  BY FieldsTyped DEF Good, Wanted, GateSet
<1>3. r.on \in Gateway => r.todo = <<r.on>> /\ r.cur.ip = None
  BY DEF Good, GateKinds
<1>4. \A g : Head(<<g>>) = g /\ Tail(<<g>>) = <<>>
  OBVIOUS
<1> QED BY <1>1, <1>2, <1>3, <1>4, HeadTyped

\* Whoever has an address to himself is not disturbed by the keys of another.
LEMMA DueElsewhere ==
  ASSUME NEW r, Good(r), r.at \in {"psk", "site", "nat"}, TableTypes, gate[Head(r.todo)] = r.row,
         NEW g \in Gateway, g # Head(r.todo), UNCHANGED <<dev, gate>>,
         \A q \in Pub : q # r.row.ip => SameKeys(q),
         NEW s, Due(g, s)
  PROVE  Due(g, s)'
<1>1. Head(r.todo) \in Gateway /\ r.row # None
  BY AtHead, SpoolsAssumption DEF Spooling, Good, Shape
<1>2. Head(r.todo) \in Holders(r.row.ip)
  BY <1>1 DEF Holders
<1> SUFFICES ASSUME Sole(g)' PROVE Spooled(g)' \/ In(g, s)
  BY DEF Due
<1>3. Sole(g)
  BY DEF Sole, Holders
<1>4. gate[g].ip # r.row.ip /\ gate[g].ip \in Pub
  BY <1>2, <1>3, RowsTyped DEF Sole
<1>5. Spooled(g) => Spooled(g)'
  BY <1>4 DEF Spooled, SameKeys, Attached
<1> QED BY <1>3, <1>5 DEF Due

\* What is right of a device while its gateways are spooled stays so.
LEMMA DeviceStays ==
  ASSUME NEW r, RepairsDevice(r), r.on \in Device, r.at \in Spooling, UNCHANGED <<dev, sys>>
  PROVE  RowRead(r) /\ RowRead(r)' /\ Hashed(r)' /\ Unlinked(r)'
BY DEF RepairsDevice, RowRead, Hashed, Unlinked

\* A gateway without an address needs nothing; of another the row is read.
LEMMA RepairRead ==
  ASSUME NEW e \in Op, NEW r, NEW p, Moving(e, r, p), ReadGateway(e)
  PROVE  Passed(e, r) \/ Onward(p)
<1>1. /\ r.at = "gate" /\ r.at \in Spooling /\ UNCHANGED <<dev, gate, sys, psk, site, nat>>
      /\ r.row = None /\ r \in Requests
  BY DEF Moving, Good, GateKinds, ReadGateway, At, tables, keys, Spooling
<1>2. PICK h \in Gateway : h = Head(r.todo)
  BY <1>1, AtHead DEF Moving
<1>3. /\ r.on \in Device \cup Gateway /\ Tail(r.todo) \in GateSeq /\ r.todo \in GateSeq
      /\ r.todo # <<>> /\ Wanted(r) \subseteq Gateway
      /\ r.on \in Gateway => h = r.on /\ Tail(r.todo) = <<>> /\ r.cur.ip = None
  BY <1>1, <1>2, AtHead DEF Moving
<1>4. \A g \in Wanted(r) : Due(g, r.todo)
  BY <1>1 DEF Moving, Repairing, RepairsKeys
<1>5. \A g \in Gateway : In(g, r.todo) <=> g = h \/ In(g, Tail(r.todo))
  BY <1>2, <1>3, InTodo
<1>6. \A g \in Wanted(r) : g # h => Due(g, Tail(r.todo))
  BY <1>3, <1>4, <1>5 DEF Due
<1>7. \A g, s : Due(g, s) => Due(g, s)'
  BY <1>1 DEF Due, Sole, Spooled, Holders, Attached
<1>8. CASE Keyless(h) /\ Goes(e, After(e, Tail(r.todo)))
  <2>1. GoesAfter(e, Tail(r.todo), r.cur.ip)
    BY <1>3, <1>8, AfterGoes DEF Moving
  <2>2. Due(h, Tail(r.todo))
    BY <1>8 DEF Keyless, Due, Sole
  <2>3. CASE r.on \in Device
    <3>1. RowRead(r) /\ Hashed(r)' /\ Unlinked(r)'
      BY <1>1, <2>3, DeviceStays DEF Moving, Repairing
    <3>2. \A g \in Wanted(r) : Due(g, Tail(r.todo))'
      BY <1>6, <1>7, <2>2
    <3> QED BY <1>1, <1>3, <2>1, <2>3, <3>1, <3>2 DEF Passed
  <2>4. CASE r.on \in Gateway
    <3>1. /\ p.at = "stale" /\ p.on = r.on /\ p.new = r.new /\ p.cur.ip = None
      BY <1>3, <2>1, <2>4 DEF GoesAfter, Moving
    <3>2. gate[r.on] # None /\ r.new = gate[r.on]
      BY <1>1, <2>4 DEF Moving, Repairing, RepairsGateway
    <3>3. gate[r.on].ip = None /\ Due(r.on, <<>>)'
      BY <1>3, <1>7, <1>8, <2>2, <2>4, <3>2 DEF Keyless
    <3> QED BY <1>1, <2>4, <3>1, <3>2, <3>3, SpoolsAssumption
              DEF Onward, Repairing, RepairsDevice, RepairsKeys, RepairsGateway, Spooling
  <2> QED BY <1>3, <2>3, <2>4
<1>9. CASE Goes(e, [op[e] EXCEPT !.at = "devices", !.row = gate[h]])
  <2>1. p = [r EXCEPT !.at = "devices", !.row = gate[h]]
    BY <1>9, GoesBecomes DEF Moving
  <2>2. "devices" \in Where /\ gate[h] \in RowSet
    BY DEF Where, RowSet, Moving, TableTypes
  <2>3. p.at = "devices" /\ p.row = gate[h] /\ SameRead(p, r) /\ p.todo = r.todo
    BY <1>1, <2>1, <2>2, RequestsAre DEF SameRead
  <2>4. Wanted(p) = Wanted(r)
    BY <2>3 DEF Wanted, SameRead
  <2>5. RepairsKeys(p)'
    BY <1>1, <1>2, <1>6, <1>7, <2>3, <2>4 DEF RepairsKeys
  <2>6. RepairsDevice(p)'
    <3>1. r.on \in Device => RowRead(r)' /\ Hashed(r)' /\ Unlinked(r)'
      BY <1>1, DeviceStays DEF Moving, Repairing
    <3> QED BY <2>3, <3>1 DEF RepairsDevice, RowRead, Hashed, Unlinked, SameRead, Spooling
  <2>7. RepairsGateway(p)'
    BY <1>1, <2>3 DEF Moving, Repairing, RepairsGateway, SameRead, Spooling
  <2> QED BY <2>3, <2>5, <2>6, <2>7 DEF Onward, Repairing
<1> QED BY <1>2, <1>8, <1>9 DEF ReadGateway, Moving

\* What a step of spoolGateway leaves right that writes at most the keys of its gateway.
LEMMA SpoolingStays ==
  ASSUME NEW e \in Op, NEW r, NEW p, Moving(e, r, p), r.at \in {"devices", "psk", "site"},
         SameRead(p, r), p.todo = r.todo, p.row = r.row,
         UNCHANGED <<dev, gate, sys>>, \A q \in Pub : q # r.row.ip => SameKeys(q),
         r.at = "devices" => \A q \in Pub : SameKeys(q)
  PROVE  /\ p.at \in {"psk", "site", "nat"} => RepairsDevice(p)' /\ RepairsGateway(p)'
         /\ gate'[Head(p.todo)] = p.row
         /\ \A g \in Wanted(p) : g # Head(p.todo) => Due(g, Tail(p.todo))'
         /\ Ips(Head(p.todo))' = Ips(Head(r.todo))
<1>1. r.at \in Spooling /\ Wanted(r) \subseteq Gateway
  BY AtHead DEF Spooling, Moving
<1>2. /\ gate[Head(r.todo)] = r.row
      /\ \A g \in Wanted(r) : g # Head(r.todo) => Due(g, Tail(r.todo))
  BY DEF Moving, Repairing, RepairsKeys
<1>3. Wanted(p) = Wanted(r)
  BY DEF Wanted, SameRead
<1>4. ASSUME NEW g \in Gateway, g # Head(r.todo), Due(g, Tail(r.todo)) PROVE Due(g, Tail(r.todo))'
  <2>1. CASE r.at = "devices"
    <3>1. Sole(g)' => Sole(g) /\ gate[g].ip \in Pub
      BY RowsTyped DEF Sole, Holders, Moving
    <3>2. gate[g].ip \in Pub /\ Spooled(g) => Spooled(g)'
      BY <2>1 DEF Spooled, SameKeys, Attached
    <3> QED BY <1>4, <3>1, <3>2 DEF Due
  <2>2. CASE r.at # "devices"
    <3> DEFINE s == Tail(r.todo)
    <3>1. r.at \in {"psk", "site", "nat"} /\ Due(g, s)
      BY <1>4, <2>2
    <3> HIDE DEF s
    <3>2. Due(g, s)'
      BY <1>2, <1>4, <3>1, DueElsewhere DEF Moving
    <3> QED BY <3>2 DEF s
  <2> QED BY <2>1, <2>2
<1>5. Ips(Head(p.todo))' = Ips(Head(r.todo))
  BY DEF Ips, Attached
<1>6. p.at \in {"psk", "site", "nat"} => RepairsDevice(p)'
  <2>1. r.on \in Device => RowRead(r)' /\ Hashed(r)' /\ Unlinked(r)'
    BY <1>1, DeviceStays DEF Moving, Repairing
  <2> QED BY <2>1 DEF RepairsDevice, RowRead, Hashed, Unlinked, SameRead, Spooling
<1>7. p.at \in {"psk", "site", "nat"} => RepairsGateway(p)'
  <2>1. r.on \in Gateway => gate[r.on] # None /\ r.new = gate[r.on]
    BY <1>1 DEF Moving, Repairing, RepairsGateway
  <2> QED BY <2>1 DEF RepairsGateway, SameRead, Spooling
<1>8. \A g \in Wanted(p) : g # Head(p.todo) => Due(g, Tail(p.todo))'
  BY <1>1, <1>2, <1>3, <1>4
<1> QED BY <1>2, <1>5, <1>6, <1>7, <1>8

\* The devices of the gateway are read, and its first two keys set.
LEMMA RepairFill ==
  ASSUME NEW e \in Op, NEW r, NEW p, Moving(e, r, p), ReadDevices(e) \/ SetPsk(e) \/ SetSite(e)
  PROVE  Onward(p)
<1>1. r \in Requests /\ UNCHANGED <<dev, gate, sys, nat>>
  BY DEF Moving, Good, ReadDevices, SetPsk, SetSite, tables, keys
<1>2. CASE ReadDevices(e)
  <2> DEFINE h == Head(r.todo)
             x == {dev[c].ip : c \in Attached(h)} \ {None}
  <2>1. r.at = "devices" /\ p = [r EXCEPT !.at = "psk", !.ips = x] /\ UNCHANGED <<psk, site>>
    BY <1>2, GoesBecomes DEF Moving, ReadDevices, At, keys
  <2>2. x = Ips(h)
    BY DEF Ips
  <2>3. x \in IpSets /\ "psk" \in Where
    <3>1. \A c \in Attached(h) : dev[c].ip \in Ip \cup {None}
      BY RowsTyped DEF Attached, Moving
    <3> QED BY <3>1 DEF IpSets, Where
  <2> HIDE DEF x
  <2>4. p.at = "psk" /\ SameRead(p, r) /\ p.todo = r.todo /\ p.row = r.row /\ p.ips = x
    BY <1>1, <2>1, <2>3, RequestsAre DEF SameRead
  <2>5. \A q \in Pub : SameKeys(q)
    BY <1>1, <2>1 DEF SameKeys
  <2> QED BY <1>1, <2>1, <2>2, <2>4, <2>5, SpoolingStays DEF Onward, Repairing, RepairsKeys
<1>3. CASE SetPsk(e) \/ SetSite(e)
  <2>0. /\ r.at \in {"psk", "site"} /\ r.row.ip \in Pub
        /\ p.at = (IF r.at = "psk" THEN "site" ELSE "nat") /\ SameRest(p, r)
    <3>1. r.at \in {"psk", "site"} /\ r.row.ip \in Pub
      BY <1>3 DEF Moving, Good, Shape, SetPsk, SetSite, At
    <3>2. CASE SetPsk(e)
      <4>1. r.at = "psk" /\ Goes(e, [op[e] EXCEPT !.at = "site"]) /\ "site" \in Where
        BY <3>2 DEF SetPsk, At, Where, Moving
      <4> QED BY <3>1, <4>1, MoveFields DEF Moving
    <3>3. CASE SetSite(e)
      <4>1. r.at = "site" /\ Goes(e, [op[e] EXCEPT !.at = "nat"]) /\ "nat" \in Where
        BY <3>3 DEF SetSite, At, Where, Moving
      <4> QED BY <3>1, <4>1, MoveFields DEF Moving
    <3> QED BY <1>3, <3>2, <3>3
  <2>1. SameRead(p, r) /\ p.todo = r.todo /\ p.row = r.row /\ p.ips = r.ips
    BY <2>0 DEF SameRest
  <2>2. /\ psk' = IF r.at = "psk" THEN [psk EXCEPT ![r.row.ip] = r.row.psk] ELSE psk
        /\ site' = IF r.at = "site" THEN [site EXCEPT ![r.row.ip] = r.row.mode] ELSE site
    BY <1>3 DEF Moving, SetPsk, SetSite, At
  <2>3. \A q \in Pub : q # r.row.ip => SameKeys(q)
    BY <1>1, <2>0, <2>2 DEF SameKeys, Moving, KeyTypes
  <2>4. /\ r.at = "psk" => psk'[r.row.ip] = r.row.psk
        /\ r.at = "site" => psk'[r.row.ip] = psk[r.row.ip] /\ site'[r.row.ip] = r.row.mode
    BY <2>0, <2>2 DEF Moving, KeyTypes
  <2>5. r.ips = Ips(Head(r.todo)) /\ (r.at = "site" => psk[r.row.ip] = r.row.psk)
    BY <2>0 DEF Moving, Repairing, RepairsKeys
  <2>6. /\ RepairsDevice(p)' /\ RepairsGateway(p)'
        /\ gate'[Head(p.todo)] = p.row
        /\ \A g \in Wanted(p) : g # Head(p.todo) => Due(g, Tail(p.todo))'
        /\ Ips(Head(p.todo))' = Ips(Head(r.todo))
    BY <1>1, <2>0, <2>1, <2>3, SpoolingStays
  <2> QED BY <2>0, <2>1, <2>4, <2>5, <2>6 DEF Onward, Repairing, RepairsKeys
<1> QED BY <1>2, <1>3

\* With the NAT entry the keys of the gateway are those of its row and its devices.
LEMMA RepairNat ==
  ASSUME NEW e \in Op, NEW r, NEW p, Moving(e, r, p), SetNat(e)
  PROVE  Passed(e, r) \/ Onward(p)
<1>1. /\ r.at = "nat" /\ r.at \in Spooling /\ UNCHANGED <<dev, gate, sys, psk, site>>
      /\ r.row \in GatewayRow /\ r.row.ip \in Pub /\ r.row # None
      /\ nat' = [nat EXCEPT ![r.row.ip] = [mode |-> r.row.mode, ips |-> r.ips]]
  BY SpoolsAssumption DEF Moving, Good, Shape, SetNat, At, tables, Spooling
<1>2. PICK h \in Gateway : h = Head(r.todo)
  BY <1>1, AtHead DEF Moving
<1>3. /\ r.on \in Device \cup Gateway /\ Tail(r.todo) \in GateSeq
      /\ Wanted(r) \subseteq Gateway
      /\ r.on \in Gateway => h = r.on /\ Tail(r.todo) = <<>>
  BY <1>1, <1>2, AtHead DEF Moving
<1>4. /\ gate[h] = r.row /\ r.ips = Ips(h) /\ psk[r.row.ip] = r.row.psk /\ site[r.row.ip] = r.row.mode
      /\ \A g \in Wanted(r) : g # h => Due(g, Tail(r.todo))
  BY <1>1, <1>2 DEF Moving, Repairing, RepairsKeys
<1>5. Spooled(h)'
  <2>1. nat'[r.row.ip] = [mode |-> r.row.mode, ips |-> r.ips]
    BY <1>1 DEF Moving, KeyTypes
  <2> QED BY <1>1, <1>4, <2>1 DEF Spooled, Ips, Attached
<1>6. \A q \in Pub : q # r.row.ip => SameKeys(q)
  BY <1>1 DEF SameKeys, Moving, KeyTypes
<1>7. GoesAfter(e, Tail(r.todo), r.row.ip)
  BY NatGoes DEF Moving
<1>8. CASE r.on \in Device
  <2>1. RowRead(r) /\ Hashed(r)' /\ Unlinked(r)'
    BY <1>1, <1>8, DeviceStays DEF Moving, Repairing
  <2> DEFINE s == Tail(r.todo)
  <2>2. ASSUME NEW g \in Wanted(r) PROVE Due(g, s)'
    <3>1. CASE g = h
      BY <1>5, <3>1 DEF Due
    <3>2. CASE g # h
      <4>1. Due(g, s) /\ g \in Gateway
        BY <1>3, <1>4, <3>2
      <4> HIDE DEF s
      <4> QED BY <1>1, <1>2, <1>4, <1>6, <3>2, <4>1, DueElsewhere DEF Moving
    <3> QED BY <3>1, <3>2
  <2> QED BY <1>1, <1>2, <1>3, <1>4, <1>7, <1>8, <2>1, <2>2 DEF Passed
<1>9. CASE r.on \in Gateway
  <2>1. p.at = "stale" /\ p.on = r.on /\ p.new = r.new /\ p.cur.ip = r.row.ip
    BY <1>3, <1>7, <1>9 DEF GoesAfter, Moving
  <2>2. r.new = gate[r.on] /\ gate[r.on] = r.row
    BY <1>1, <1>3, <1>4, <1>9 DEF Moving, Repairing, RepairsGateway
  <2>3. Due(r.on, <<>>)'
    BY <1>3, <1>5, <1>9 DEF Due
  <2> QED BY <1>1, <1>9, <2>1, <2>2, <2>3, SpoolsAssumption
            DEF Onward, Repairing, RepairsDevice, RepairsKeys, RepairsGateway, Spooling
<1> QED BY <1>3, <1>8, <1>9

--------------------------------------------------------------------------------
(* The steps of a request about a gateway *)

\* What is written is what the row then is, and it waits to be spooled.
LEMMA RepairUpdate ==
  ASSUME NEW e \in Op, NEW r, NEW p, Moving(e, r, p), WriteGateway(e)
  PROVE  Onward(p)
<1>1. /\ r.at = "gupdate" /\ r.on \in Gateway /\ r.new \in GatewayRow /\ r.new # None /\ r.row = None
      /\ r \in Requests /\ gate' = [gate EXCEPT ![r.on] = IF @ = None THEN None ELSE r.new]
      /\ p = [r EXCEPT !.at = "gate", !.todo = <<r.on>>]
  BY SpoolsAssumption, GoesBecomes DEF Moving, Good, Shape, GateKinds, WriteGateway, At
<1>2. gate[r.on] # None
  BY <1>1 DEF Moving, Repairing, RepairsGateway
<1>3. gate'[r.on] = r.new
  BY <1>1, <1>2 DEF Moving, TableTypes
<1>4. p.at = "gate" /\ SameRead(p, r) /\ p.todo = <<r.on>>
  <2>1. "gate" \in Where /\ <<r.on>> \in GateSeq
    BY <1>1 DEF Where, GateSeq
  <2> QED BY <1>1, <2>1, RequestsAre DEF SameRead
<1>5. Wanted(p) = {r.on} /\ In(r.on, p.todo)
  BY <1>1, <1>4, InTodo DEF Wanted, SameRead
<1>6. r.on \notin Device
  BY <1>1, SpoolsAssumption
<1> QED BY <1>1, <1>3, <1>4, <1>5, <1>6
        DEF Onward, Repairing, RepairsDevice, RepairsKeys, RepairsGateway, Due, SameRead, Spooling

\* Nobody has come to use the gateway, which is deleted.
LEMMA RepairDelete ==
  ASSUME NEW e \in Op, NEW r, NEW p, Moving(e, r, p), SelectGateway(e) \/ DropGateway(e)
  PROVE  Onward(p)
<1>1. /\ r.at \in {"gselect", "gdelete"} /\ r.on \in Gateway /\ r.on \notin Device /\ r \in Requests
      /\ r.at = "gdelete" => r.cur.ip = None
  <2>1. r.at = "gdelete" => r.cur.ip = None
    BY DEF Moving, Good, GateKinds
  <2> QED BY <2>1, SpoolsAssumption DEF Moving, Good, Shape, SelectGateway, DropGateway, At
<1>2. Attached(r.on) = {} /\ r.new = None
  BY <1>1 DEF Moving, Repairing, RepairsGateway
<1>3. CASE SelectGateway(e)
  <2> DEFINE x == IF gate[r.on] = None THEN None ELSE gate[r.on].ip
  <2>1. p = [r EXCEPT !.at = "gdelete", !.prev.ip = x] /\ UNCHANGED dev
    BY <1>3, GoesBecomes DEF Moving, SelectGateway, tables
  <2> HIDE DEF x
  <2>2. p.at = "gdelete" /\ p.on = r.on /\ p.new = r.new
    BY <1>1, <2>1, RequestsAre DEF Where
  <2>3. Attached(p.on)' = {}
    BY <1>2, <2>1, <2>2 DEF Attached
  <2> QED BY <1>1, <1>2, <2>2, <2>3 DEF Onward, Repairing, RepairsDevice, RepairsKeys, RepairsGateway, Spooling
<1>4. CASE DropGateway(e)
  <2>1. /\ r.at = "gdelete" /\ gate' = [gate EXCEPT ![r.on] = None]
        /\ Goes(e, [op[e] EXCEPT !.at = "stale"])
    BY <1>2, <1>4 DEF Moving, DropGateway, At
  <2>2. p.at = "stale" /\ SameRest(p, r)
    BY <2>1, MoveFields DEF Moving, Where
  <2>3. gate'[r.on] = None
    BY <1>1, <2>1 DEF Moving, TableTypes
  <2> QED BY <1>1, <1>2, <2>1, <2>2, <2>3
          DEF Onward, Repairing, RepairsDevice, RepairsKeys, RepairsGateway, Spooling, SameRest, SameRead
<1> QED BY <1>3, <1>4

--------------------------------------------------------------------------------
(* The end of a request *)

\* What SaveRepairs promises.
Mends(e) ==
    \A a \in Concerns(e) :
        /\ a \in Ip /\ Owners(a)' = {} => sys'[a] = NoHash
        /\ a \in Pub /\ Holders(a)' = {} => Bare(a)'
        /\ \A d \in Device : Owners(a)' = {d} /\ d = op[e].on => sys'[a] = dev'[d].info
        /\ \A g \in Gates(e) : Holders(a)' = {g} => Spooled(g)'

\* At the end of a request about a device no gateway waits any more.
LEMMA DeviceMends ==
  ASSUME NEW e \in Op, NEW r, NEW p, Moving(e, r, p), KTypes, GateTypes, Active(e), Passed(e, r),
         p.at = "idle"
  PROVE  Mends(e)
<1>0. PICK todo \in GateSeq : (\E x : GoesAfter(e, todo, x)) /\ \A g \in Wanted(r) : Due(g, todo)'
  BY DEF Passed
<1>1. /\ r.on \in Device /\ r.on \notin Gateway /\ UNCHANGED <<dev, gate>> /\ r \in Requests
      /\ RowRead(r) /\ Hashed(r)' /\ Unlinked(r)' /\ r = op[e]
      /\ r.row # None => \E h \in Gateway : gate[h] = r.row
  BY SpoolsAssumption DEF Passed, Moving, Good
<1>2. todo = <<>>
  BY <1>0, <1>1 DEF GoesAfter, Moving
<1>3. ASSUME NEW g \in Gates(e) PROVE g \in Wanted(r) /\ g \in Gateway
  <2>1. RowOf(op[e].on) = dev[r.on]
    BY <1>1 DEF RowOf
  <2>2. g \in Wanted(r)
    BY <1>1, <2>1 DEF Gates, Wanted, RowRead
  <2>3. Wanted(r) \subseteq Gateway
    BY <1>1, FieldsTyped DEF Wanted, GateSet
  <2> QED BY <2>2, <2>3
<1>4. \A b : Owners(b)' = Owners(b) /\ Holders(b)' = Holders(b)
  BY <1>1 DEF Owners, Holders
<1>5. SUFFICES ASSUME NEW a \in Concerns(e)
               PROVE  /\ a \in Ip /\ Owners(a) = {} => sys'[a] = NoHash
                      /\ a \in Pub /\ Holders(a) = {} => Bare(a)'
                      /\ \A d \in Device : Owners(a) = {d} /\ d = r.on => sys'[a] = dev[d].info
                      /\ \A g \in Gates(e) : Holders(a) = {g} => Spooled(g)'
  BY <1>1, <1>4 DEF Mends
<1>6. a # None
  BY DEF Concerns
<1>7. ASSUME a \in Ip, Owners(a) = {} PROVE sys'[a] = NoHash
  <2>1. Mine(e, a)
    BY <1>7, MineIs DEF Moving
  <2>2. r.prev.ip = a \/ r.cur.ip = a \/ (r.new # None /\ r.new.ip = a) \/ r.on \in Owners(a)
    BY <1>1, <2>1 DEF Mine
  <2>3. r.prev.ip = a /\ r.cur.ip # a
    BY <1>1, <1>6, <1>7, <2>2 DEF RowRead, Owners
  <2> QED BY <1>1, <1>6, <2>3 DEF Unlinked
<1>8. ASSUME a \in Pub, Holders(a) = {} PROVE FALSE
  <2>1. Touches(e, a)
    BY <1>8, TouchesIs DEF Moving
  <2>2. r.prev.ip \notin Pub /\ r.cur.ip \notin Pub /\ (r.new # None => r.new.ip \notin Pub)
    BY <1>1 DEF Moving, Good, GateKinds
  <2>3. r.row # None /\ r.row.ip = a
    BY <1>1, <1>8, <2>1, <2>2 DEF Touches
  <2>4. PICK h \in Gateway : gate[h] = r.row
    BY <1>1, <2>3
  <2> QED BY <1>8, <2>3, <2>4 DEF Holders
<1>9. ASSUME NEW d \in Device, Owners(a) = {d}, d = r.on PROVE sys'[a] = dev[d].info
  <2>1. dev[d] # None /\ dev[d].ip = a
    BY <1>9 DEF Owners
  <2>2. r.cur.ip = a
    BY <1>1, <1>9, <2>1 DEF RowRead
  <2> QED BY <1>1, <1>6, <1>9, <2>2 DEF Hashed
<1>10. ASSUME NEW g \in Gates(e), Holders(a) = {g} PROVE Spooled(g)'
  <2>1. g \in Wanted(r) /\ g \in Gateway /\ Due(g, todo)'
    BY <1>0, <1>3
  <2>2. Sole(g)'
    BY <1>1, <1>4, <1>6, <1>10 DEF Sole, Holders
  <2>3. ~In(g, todo)
    BY <1>2, <2>1, InTodo
  <2> QED BY <2>1, <2>2, <2>3 DEF Due
<1> QED BY <1>7, <1>8, <1>9, <1>10

\* A request about a gateway ends with the keys of the address it has left.
LEMMA GatewayMends ==
  ASSUME NEW e \in Op, NEW r, NEW p, Moving(e, r, p), KTypes, GateTypes, UnlinkGateway(e)
  PROVE  Mends(e)
<1>1. /\ r.at = "stale" /\ r.on \in Gateway /\ r.on \notin Device /\ UNCHANGED <<dev, gate, sys>>
      /\ r.row = None /\ r = op[e] /\ r \in Requests /\ Active(e)
  BY SpoolsAssumption DEF Moving, Good, GateKinds, UnlinkGateway, At, tables, Active
<1>2. IF gate[r.on] = None THEN r.new = None /\ r.cur.ip = None
      ELSE r.new = gate[r.on] /\ r.cur.ip = gate[r.on].ip /\ Due(r.on, <<>>)
  BY <1>1 DEF Moving, Repairing, RepairsGateway
<1>3. IF Leaves(e)
      THEN /\ psk' = [psk EXCEPT ![r.prev.ip] = None] /\ site' = [site EXCEPT ![r.prev.ip] = None]
           /\ nat' = [nat EXCEPT ![r.prev.ip] = None]
      ELSE UNCHANGED <<psk, site, nat>>
  BY <1>1 DEF UnlinkGateway
<1>4. \A b : Owners(b)' = Owners(b) /\ Holders(b)' = Holders(b)
  BY <1>1 DEF Owners, Holders
<1>5. SUFFICES ASSUME NEW a \in Concerns(e)
               PROVE  /\ a \in Ip /\ Owners(a) = {} => sys'[a] = NoHash
                      /\ a \in Pub /\ Holders(a) = {} => Bare(a)'
                      /\ \A g \in Gates(e) : Holders(a) = {g} => Spooled(g)'
  BY <1>1, <1>4 DEF Mends
<1>6. a # None
  BY DEF Concerns
<1>7. a \notin Ip
  BY <1>1, MineIs DEF Moving, Mine
<1>8. ASSUME a \in Pub, Holders(a) = {} PROVE Bare(a)'
  <2>1. Touches(e, a)
    BY <1>1, <1>8, TouchesIs DEF Moving
  <2>2. r.prev.ip = a \/ r.cur.ip = a \/ (r.new # None /\ r.new.ip = a)
    BY <1>1, <1>8, <2>1 DEF Touches
  <2>3. r.prev.ip = a /\ r.cur.ip # a
    BY <1>1, <1>2, <1>6, <1>8, <2>2 DEF Holders
  <2>4. Leaves(e)
    BY <1>1, <1>6, <2>3 DEF Leaves
  <2> QED BY <1>3, <1>8, <2>3, <2>4 DEF Bare, Moving, KeyTypes
<1>9. ASSUME NEW g \in Gates(e), Holders(a) = {g} PROVE Spooled(g)'
  <2>1. g = r.on
    BY <1>1 DEF Gates
  <2>2. gate[g] # None /\ gate[g].ip = a /\ Sole(g)
    BY <1>6, <1>9 DEF Sole, Holders
  <2>3. Spooled(g) /\ r.cur.ip = a
    BY <1>1, <1>2, <2>1, <2>2, InTodo DEF Due
  <2>4. a \in Pub
    BY <1>1, <1>6, <2>1, <2>2, RowsTyped DEF Moving
  <2>5. Leaves(e) => r.prev.ip # a
    BY <1>1, <2>3 DEF Leaves
  <2>6. psk'[a] = psk[a] /\ site'[a] = site[a] /\ nat'[a] = nat[a]
    BY <1>3, <2>4, <2>5 DEF Moving, KeyTypes
  <2> QED BY <1>1, <2>2, <2>3, <2>6 DEF Spooled, Attached
<1> QED BY <1>7, <1>8, <1>9

--------------------------------------------------------------------------------
(* A request goes on running alone *)

\* The mark stays with what follows a gateway,
LEMMA AfterAlone ==
  ASSUME NEW e \in Op, op[e] \in Requests, NEW todo \in GateSeq, After(e, todo).at # "idle"
  PROVE  After(e, todo) \in Requests /\ After(e, todo).alone = op[e].alone
<1> DEFINE q(w, t) == [op[e] EXCEPT !.at = w, !.todo = t, !.row = None, !.ips = {}]
<1>1. None \in RowSet /\ {} \in IpSets /\ <<>> \in GateSeq /\ "gate" \in Where /\ "stale" \in Where
  BY DEF RowSet, IpSets, GateSeq, Where
<1>2. \A w \in Where, t \in GateSeq : q(w, t) \in Requests /\ q(w, t).alone = op[e].alone
  BY <1>1, RequestsAre
<1>3. After(e, todo) \in {q("gate", todo), q("stale", <<>>)}
  BY NoOpTyped DEF After
<1> HIDE DEF q
<1> QED BY <1>1, <1>2, <1>3

\* and with every step but the beginning of a request.
LEMMA AloneKept ==
  ASSUME Types, NEW e \in Op, DeviceStep(e) \/ GatewayStep(e), op'[e].at # "idle"
  PROVE  op'[e].alone = op[e].alone
<1>0. op[e] \in Requests /\ OpTypes /\ Shape(op[e])
  BY DEF Types, OpTypes
<1>1. op'[e] # NoOp
  BY NoOpTyped
<1>2. ASSUME NEW w \in Where, Goes(e, [op[e] EXCEPT !.at = w]) PROVE op'[e].alone = op[e].alone
  <2>1. op'[e] = [op[e] EXCEPT !.at = w]
    BY <1>0, <1>2, GoesBecomes
  <2> QED BY <1>0, <2>1, RequestsAre
<1>3. ASSUME NEW todo \in GateSeq, Goes(e, After(e, todo)) PROVE op'[e].alone = op[e].alone
  <2>1. op'[e] = After(e, todo)
    BY <1>0, <1>3, GoesBecomes
  <2> QED BY <1>0, <2>1, AfterAlone
<1>4. op[e].at \in Spooling => Tail(op[e].todo) \in GateSeq
  BY <1>0, FieldsTyped, HeadTyped DEF Shape, Spooling
<1>5. {"load", "unlink", "hset", "site", "nat", "stale", "devices", "psk", "gate", "gdelete", "del"}
        \subseteq Where
  BY DEF Where
<1>6. CASE DeviceStep(e)
  <2>1. CASE WriteDevice(e)
    <3>1. Goes(e, NoOp) \/ Goes(e, [op[e] EXCEPT !.at = "load"])
      BY <2>1 DEF WriteDevice, End
    <3> QED BY <1>0, <1>1, <1>2, <1>5, <3>1, GoesBecomes
  <2>2. CASE DropDevice(e) \/ DelHash(e) \/ SetHash(e)
    BY <1>2, <1>5, <2>2 DEF DropDevice, DelHash, SetHash
  <2>3. CASE LoadDevice(e)
    <3>1. CASE dev[op[e].on] = None
      BY <1>2, <1>5, <2>3, <3>1 DEF LoadDevice
    <3>2. CASE dev[op[e].on] # None
      <4> DEFINE w == IF dev[op[e].on].ip = None THEN "unlink" ELSE "del"
                 x == [ip |-> dev[op[e].on].ip, gw |-> dev[op[e].on].gw]
                 y == dev[op[e].on].info
      <4>1. op'[e] = [op[e] EXCEPT !.at = w, !.cur = x, !.info = y]
        BY <1>0, <2>3, <3>2, GoesBecomes DEF LoadDevice
      <4> HIDE DEF w, x, y
      <4> QED BY <1>0, <4>1, RequestsAre
    <3> QED BY <3>1, <3>2
  <2>4. CASE UnlinkOld(e)
    BY <1>0, <1>3, <2>4, ToSpoolTyped DEF UnlinkOld
  <2> QED BY <1>6, <2>1, <2>2, <2>3, <2>4 DEF DeviceStep
<1>7. CASE GatewayStep(e)
  <2>1. CASE ReadGateway(e)
    <3>1. CASE Goes(e, After(e, Tail(op[e].todo)))
      BY <1>3, <1>4, <2>1, <3>1 DEF ReadGateway, At, Spooling
    <3>2. CASE Goes(e, [op[e] EXCEPT !.at = "devices", !.row = gate[Head(op[e].todo)]])
      <4> DEFINE x == gate[Head(op[e].todo)]
      <4>1. op'[e] = [op[e] EXCEPT !.at = "devices", !.row = x]
        BY <1>0, <3>2, GoesBecomes
      <4> HIDE DEF x
      <4> QED BY <1>0, <4>1, RequestsAre
    <3> QED BY <2>1, <3>1, <3>2 DEF ReadGateway
  <2>2. CASE ReadDevices(e)
    <3> DEFINE x == {dev[d].ip : d \in Attached(Head(op[e].todo))} \ {None}
    <3>1. op'[e] = [op[e] EXCEPT !.at = "psk", !.ips = x]
      BY <1>0, <2>2, GoesBecomes DEF ReadDevices
    <3> HIDE DEF x
    <3> QED BY <1>0, <3>1, RequestsAre
  <2>3. CASE SetPsk(e) \/ SetSite(e)
    BY <1>2, <1>5, <2>3 DEF SetPsk, SetSite
  <2>4. CASE SetNat(e)
    <3> DEFINE n == After(e, Tail(op[e].todo))
    <3>1. op'[e] = IF n.at = "stale" THEN [n EXCEPT !.cur.ip = op[e].row.ip] ELSE n
      BY <1>0, <2>4, GoesBecomes DEF SetNat
    <3>2. n.at = "idle" \/ (n \in Requests /\ n.alone = op[e].alone)
      BY <1>0, <1>4, <2>4, AfterAlone DEF SetNat, At, Spooling
    <3> HIDE DEF n
    <3>3. CASE n.at = "stale"
      BY <3>1, <3>2, <3>3, RequestsAre
    <3>4. CASE n.at # "stale"
      BY <3>1, <3>2, <3>4
    <3> QED BY <3>3, <3>4
  <2>5. CASE WriteGateway(e)
    <3> DEFINE x == <<op[e].on>>
    <3>1. op'[e] = [op[e] EXCEPT !.at = "gate", !.todo = x]
      BY <1>0, <2>5, GoesBecomes DEF WriteGateway
    <3> HIDE DEF x
    <3> QED BY <1>0, <3>1, RequestsAre
  <2>6. CASE SelectGateway(e)
    <3> DEFINE x == IF gate[op[e].on] = None THEN None ELSE gate[op[e].on].ip
    <3>1. op'[e] = [op[e] EXCEPT !.at = "gdelete", !.prev.ip = x]
      BY <1>0, <2>6, GoesBecomes DEF SelectGateway
    <3> HIDE DEF x
    <3> QED BY <1>0, <3>1, RequestsAre
  <2>7. CASE DropGateway(e)
    <3>1. Goes(e, NoOp) \/ Goes(e, [op[e] EXCEPT !.at = "stale"])
      BY <2>7 DEF DropGateway, End
    <3> QED BY <1>0, <1>1, <1>2, <1>5, <3>1, GoesBecomes
  <2>8. CASE UnlinkGateway(e)
    BY <1>0, <1>1, <2>8, GoesBecomes DEF UnlinkGateway, End
  <2> QED BY <1>7, <2>1, <2>2, <2>3, <2>4, <2>5, <2>6, <2>7, <2>8 DEF GatewayStep
<1> QED BY <1>6, <1>7

\* When it begins a request has nothing to make good yet but what it has written itself.
LEMMA RepairBegin ==
  ASSUME Types, NEW e \in Op, DeviceRequest(e) \/ GatewayRequest(e), NEW p, p = op'[e]
  PROVE  Repairing(p)'
<1>1. Device \cap Gateway = {} /\ None \notin DeviceRow \cup GatewayRow
  BY SpoolsAssumption
<1>2. CASE DeviceRequest(e)
  <2>1. UNCHANGED gate /\ (Reads(e) \/ Makes(e))
    BY <1>2, DeviceRequestEffect
  <2>2. CASE Reads(e)
    BY <1>1, <2>1, <2>2 DEF Reads, Repairing, RepairsDevice, RepairsKeys, RepairsGateway, Spooling
  <2>3. CASE Makes(e)
    <3>1. dev'[p.on] = p.new /\ p.on \in Device /\ p.at = "load" /\ p.new # None
      BY <1>1, <2>3 DEF Makes, Types, TableTypes
    <3> QED BY <1>1, <3>1 DEF Repairing, RepairsDevice, RepairsKeys, RepairsGateway, Spooling
  <2> QED BY <2>1, <2>2, <2>3
<1>3. CASE GatewayRequest(e)
  <2>1. UNCHANGED dev /\ p.on \in Gateway /\ p.on \notin Device /\ (Asks(e) \/ ReadsGate(e) \/ MakesGate(e))
    BY <1>1, <1>3, GatewayRequestFields
  <2>2. CASE Asks(e)
    <3>1. p.at = "gselect" /\ p.new = None /\ Attached(p.on)' = {}
      BY <2>1, <2>2 DEF Asks, Attached
    <3> QED BY <2>1, <3>1 DEF Repairing, RepairsDevice, RepairsKeys, RepairsGateway, Spooling
  <2>3. CASE ReadsGate(e)
    BY <2>1, <2>3 DEF ReadsGate, Repairing, RepairsDevice, RepairsKeys, RepairsGateway, Spooling
  <2>4. CASE MakesGate(e)
    <3>1. p.at = "gate" /\ gate'[p.on] = p.new /\ p.new # None /\ p.todo = <<p.on>>
      BY <1>1, <2>1, <2>4 DEF MakesGate, Types, TableTypes
    <3>2. Wanted(p) = {p.on} /\ In(p.on, p.todo)
      BY <2>1, <3>1, InTodo DEF Wanted
    <3> QED BY <2>1, <3>1, <3>2 DEF Repairing, RepairsDevice, RepairsKeys, RepairsGateway, Due, Spooling
  <2> QED BY <2>1, <2>2, <2>3, <2>4
<1> QED BY <1>2, <1>3

\* A step of the request either goes on making good or has made good.
LEMMA RepairMove ==
  ASSUME GateInv, GateInv', NEW e \in Op, DeviceStep(e) \/ GatewayStep(e),
         NEW r, NEW p, r = op[e], p = op'[e], Repairing(r)
  PROVE  Onward(p) \/ (p.at = "idle" /\ Mends(e))
<1>1. Types /\ KTypes /\ GateTypes /\ Types' /\ KTypes' /\ GateTypes'
  BY DEF GateInv, KeyInv, IInv
<1>2. Moving(e, r, p)
  BY <1>1 DEF Moving, Good, Types, OpTypes, KTypes, GateTypes
<1>3. Passed(e, r) => Onward(p) \/ (p.at = "idle" /\ Mends(e))
  <2>1. Passed(e, r) => Active(e)
    BY DEF DeviceStep, GatewayStep, WriteDevice, DropDevice, LoadDevice, DelHash, SetHash, UnlinkOld,
           ReadGateway, ReadDevices, SetPsk, SetSite, SetNat, WriteGateway, SelectGateway,
           DropGateway, UnlinkGateway, At, Active
  <2> QED BY <1>1, <1>2, <2>1, RepairNext, DeviceMends DEF Onward
<1>4. CASE UnlinkOld(e) \/ ReadGateway(e) \/ SetNat(e)
  BY <1>2, <1>3, <1>4, RepairUnlink, RepairRead, RepairNat
<1>5. CASE UnlinkGateway(e)
  <2>1. p.at = "idle"
    BY <1>2, <1>5, GoesBecomes, NoOpTyped DEF UnlinkGateway, End, Moving
  <2> QED BY <1>1, <1>2, <1>5, <2>1, GatewayMends
<1>6. CASE WriteDevice(e) \/ DropDevice(e) \/ LoadDevice(e) \/ DelHash(e) \/ SetHash(e)
  BY <1>2, <1>6, RepairWrite, RepairDrop, RepairLoad, RepairDel, RepairSet
<1>7. CASE ReadDevices(e) \/ SetPsk(e) \/ SetSite(e) \/ WriteGateway(e) \/ SelectGateway(e) \/ DropGateway(e)
  BY <1>2, <1>7, RepairFill, RepairUpdate, RepairDelete
<1> QED BY <1>4, <1>5, <1>6, <1>7 DEF DeviceStep, GatewayStep

\* A step changes the record of its own request only.
LEMMA OwnRecord ==
  ASSUME Types, NEW e \in Op, DeviceStep(e) \/ GatewayStep(e) \/ Fail(e)
  PROVE  Active(e) /\ \A f \in Op : f # e => op'[f] = op[f]
<1>1. Active(e)
  BY DEF DeviceStep, GatewayStep, WriteDevice, DropDevice, LoadDevice, DelHash, SetHash, UnlinkOld,
         ReadGateway, ReadDevices, SetPsk, SetSite, SetNat, WriteGateway, SelectGateway,
         DropGateway, UnlinkGateway, At, Active, Fail
<1> QED BY <1>1, DeviceStepTyped, SpoolStepTyped, GatewayStepTyped, FailTyped DEF GatewayStep

\* When the system begins no request is under way.
LEMMA RepairInit == Init => RepairInv
<1> SUFFICES ASSUME Init PROVE RepairInv
  OBVIOUS
<1>1. \A e \in Op : ~Active(e)
  BY NoOpTyped DEF Init, Active
<1> QED BY <1>1, GateInit DEF RepairInv, Lone

\* A request that runs alone after a step has run alone before it, or has just begun.
LEMMA RepairStep == RepairInv /\ [Next]_vars => RepairInv'
<1> SUFFICES ASSUME RepairInv, [Next]_vars PROVE RepairInv'
  OBVIOUS
<1>1. GateInv /\ GateInv' /\ Types
  BY GateStep DEF RepairInv, GateInv, KeyInv, IInv
<1> SUFFICES ASSUME NEW e \in Op, Lone(e)'
             PROVE  /\ \A p \in {op'[e]} : Repairing(p)'
                    /\ \A f \in Op : f # e => ~Active(f)'
  BY <1>1 DEF RepairInv
<1>2. PICK p : p = op'[e]
  OBVIOUS
<1>3. PICK r : r = op[e]
  OBVIOUS
<1>4. Lone(e) => Repairing(r) /\ \A f \in Op : f # e => ~Active(f)
  BY <1>3 DEF RepairInv
<1>5. CASE UNCHANGED vars
  <2>1. r = p /\ Lone(e) /\ \A f \in Op : Active(f)' <=> Active(f)
    BY <1>2, <1>3, <1>5 DEF vars, Lone, Active
  <2>2. Repairing(r)'
    <3>1. UNCHANGED <<dev, gate, sys, psk, site, nat>>
      BY <1>5 DEF vars, tables, keys
    <3>2. \A g : Attached(g)' = Attached(g) /\ Holders(g)' = Holders(g)
      BY <3>1 DEF Attached, Holders
    <3>3. \A g : (Spooled(g)' <=> Spooled(g)) /\ (Sole(g)' <=> Sole(g)) /\ Ips(g)' = Ips(g)
      BY <3>1, <3>2 DEF Spooled, Sole, Ips
    <3>4. \A g, s : Due(g, s)' <=> Due(g, s)
      BY <3>3 DEF Due
    <3>5. RepairsKeys(r)'
      BY <1>4, <2>1, <3>1, <3>3, <3>4 DEF Repairing, RepairsKeys
    <3>6. RepairsGateway(r)'
      BY <1>4, <2>1, <3>1, <3>2, <3>4 DEF Repairing, RepairsGateway
    <3>7. RepairsDevice(r)'
      <4>1. (RowRead(r)' <=> RowRead(r)) /\ (Hashed(r)' <=> Hashed(r)) /\ (Unlinked(r)' <=> Unlinked(r))
        BY <3>1 DEF RowRead, Hashed, Unlinked
      <4> QED BY <1>4, <2>1, <3>1, <4>1 DEF Repairing, RepairsDevice
    <3> QED BY <3>5, <3>6, <3>7 DEF Repairing
  <2> QED BY <1>2, <1>4, <2>1, <2>2
<1>6. ASSUME NEW x \in Op, DeviceRequest(x) \/ GatewayRequest(x)
      PROVE  Repairing(p)' /\ \A f \in Op : f # e => ~Active(f)'
  <2>1. Alone(x) /\ \A f \in Op : f # x => SameFields(op'[f], op[f])
    BY <1>1, <1>6, DeviceRequestEffect, GatewayRequestFields
  <2>2. x = e
    BY <2>1 DEF Alone, Lone
  <2>3. \A f \in Op : f # e => ~Active(f)'
    BY <2>1, <2>2 DEF Alone, Lone, SameFields, Active
  <2>4. Repairing(p)'
    BY <1>1, <1>2, <1>6, <2>2, RepairBegin
  <2> QED BY <2>3, <2>4
<1>7. ASSUME NEW x \in Op, DeviceStep(x) \/ GatewayStep(x) \/ Fail(x)
      PROVE  Repairing(p)' /\ \A f \in Op : f # e => ~Active(f)'
  <2>1. Active(x) /\ \A f \in Op : f # x => op'[f] = op[f]
    BY <1>1, <1>7, OwnRecord
  <2>2. CASE x # e
    <3>1. Lone(e)
      BY <2>1, <2>2 DEF Lone, Active
    <3> QED BY <1>4, <2>1, <2>2, <3>1
  <2>3. CASE x = e
    <3>1. p.at # "idle" /\ p.alone
      BY <1>2 DEF Lone, Active
    <3>2. DeviceStep(e) \/ GatewayStep(e)
      BY <1>1, <1>2, <1>7, <2>3, <3>1, FailTyped, NoOpTyped
    <3>3. Lone(e)
      BY <1>1, <1>2, <2>1, <2>3, <3>1, <3>2, AloneKept DEF Lone
    <3>4. Repairing(p)'
      BY <1>1, <1>2, <1>3, <1>4, <3>1, <3>2, <3>3, RepairMove DEF Onward
    <3> QED BY <1>4, <2>1, <2>3, <3>3, <3>4 DEF Active
  <2> QED BY <2>2, <2>3
<1> QED BY <1>2, <1>5, <1>6, <1>7 DEF Next

\* What a request that runs alone has read and made good is so in every reachable state.
THEOREM RepairInvariant == Spec => []RepairInv
BY RepairInit, RepairStep, PTL DEF Spec

\* A save heals, whatever earlier failures and races have left: a request that ran alone to its
\* end leaves the keys of every address it concerned right, for every number of devices, gateways,
\* requests, edits and failures.
THEOREM SaveRepairsHolds == Spec => SaveRepairs
<1>1. RepairInv /\ [Next]_vars =>
        [\A e \in Op : op[e].alone /\ op'[e].at = "idle" /\ Active(e) /\ faults' = faults =>
            \A a \in Concerns(e) :
              /\ a \in Ip /\ Owners(a)' = {} => sys'[a] = NoHash
              /\ a \in Pub /\ Holders(a)' = {} => Bare(a)'
              /\ \A d \in Device : Owners(a)' = {d} /\ d = op[e].on => sys'[a] = dev'[d].info
              /\ \A g \in Gates(e) : Holders(a)' = {g} => Spooled(g)']_vars
  <2> SUFFICES ASSUME RepairInv, Next, NEW e \in Op, op[e].alone, op'[e].at = "idle", Active(e),
                      faults' = faults
               PROVE  Mends(e)
    BY DEF Mends
  <2>1. GateInv /\ GateInv' /\ Types
    BY GateStep DEF RepairInv, GateInv, KeyInv, IInv
  <2>2. PICK x \in Op : DeviceRequest(x) \/ GatewayRequest(x) \/ DeviceStep(x) \/ GatewayStep(x) \/ Fail(x)
    BY DEF Next
  <2>3. x = e
    <3>1. DeviceRequest(x) \/ GatewayRequest(x) => \A f \in Op : f # x => op'[f].at = op[f].at
      BY <2>1, DeviceRequestEffect, GatewayRequestFields DEF SameFields
    <3> QED BY <2>1, <2>2, <3>1, OwnRecord DEF Active
  <2>4. DeviceStep(e) \/ GatewayStep(e)
    <3>1. ~DeviceRequest(e) /\ ~GatewayRequest(e)
      BY <2>1, DeviceRequestEffect, GatewayRequestFields
    <3>2. ~Fail(e)
      BY <2>1 DEF Fail, Types, CountTypes
    <3> QED BY <2>2, <2>3, <3>1, <3>2
  <2>5. PICK r, p : r = op[e] /\ p = op'[e]
    OBVIOUS
  <2>6. Repairing(r)
    BY <2>5 DEF RepairInv, Lone
  <2> QED BY <2>1, <2>4, <2>5, <2>6, RepairMove DEF Onward
<1> QED BY <1>1, RepairInvariant, PTL DEF Spec, SaveRepairs
=============================================================================
