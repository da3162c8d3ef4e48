---------------------------- MODULE SpoolsProofs ----------------------------
(***************************************************************************)
(* Proofs about Spools for every number of devices, gateways, addresses,    *)
(* hashes and requests, and for every number of edits and failures.         *)
(*                                                                         *)
(* Shape says which fields of a request are set where it is.  HashInv is    *)
(* what DEL before HSET is for: between the two the key is empty unless     *)
(* another request about the address is under way, and two requests that    *)
(* concern an address at the same time are remembered.                      *)
(***************************************************************************)
EXTENDS Spools, TLAPS

Where   == {"idle", "update", "delete", "load", "del", "hset", "unlink", "gate", "devices",
            "psk", "site", "nat", "gupdate", "gselect", "gdelete", "stale"}
Subject == Device \cup Gateway \cup {None}
NewRow  == DeviceRow \cup GatewayRow \cup {None}
AddrSet == Ip \cup Pub \cup {None}
GateSet == Gateway \cup {None}
Place   == [ip : AddrSet, gw : GateSet]
InfoSet == Info \cup {NoHash}
GateSeq == Seq(Gateway)
RowSet  == GatewayRow \cup {None}
IpSets  == SUBSET Ip

\* Requests in terms of sets that need not be looked into.
LEMMA RequestsAre ==
  Requests = [at : Where, on : Subject, new : NewRow, prev : Place, cur : Place, info : InfoSet,
              todo : GateSeq, row : RowSet, ips : IpSets, alone : BOOLEAN]
BY DEF Requests, Where, Subject, NewRow, AddrSet, GateSet, Place, InfoSet, GateSeq, RowSet, IpSets

\* What a request has read, by where it is.
Shape(q) ==
    /\ q.at \in {"update", "delete", "load", "del", "hset"} => q.on \in Device
    /\ q.at \in {"gupdate", "gselect", "gdelete"} => q.on \in Gateway
    /\ q.at = "update" => q.new \in DeviceRow
    /\ q.at = "gupdate" => q.new \in GatewayRow
    /\ q.on \notin Gateway => q.new \in DeviceRow \cup {None}
    /\ q.at \in {"del", "hset"} => q.cur.ip \in Ip /\ q.info \in Info
    /\ q.at \in {"gate", "devices", "psk", "site", "nat"} => q.todo # <<>>
    /\ q.at \in {"devices", "psk", "site", "nat"} => q.row \in GatewayRow /\ q.row.ip \in Pub

TableTypes ==
    /\ dev \in [Device -> DeviceRow \cup {None}]
    /\ gate \in [Gateway -> GatewayRow \cup {None}]

OpTypes == op \in [Op -> Requests] /\ \A e \in Op : Shape(op[e])

KeyTypes ==
    /\ sys \in [Ip -> Hash]
    /\ psk \in [Pub -> Psk \cup {None}]
    /\ site \in [Pub -> Mode \cup {None}]
    /\ nat \in [Pub -> NatRecord \cup {None}]

CountTypes ==
    /\ edits \in 0 .. MaxEdits /\ faults \in 0 .. MaxFaults
    /\ saved \subseteq Device \cup Gateway

HistoryTypes == raced \cup failed \cup shared \subseteq Ip \cup Pub

Types == TableTypes /\ OpTypes /\ KeyTypes /\ CountTypes

--------------------------------------------------------------------------------
(* Requests and their fields *)

\* A request that has not begun.
LEMMA NoOpTyped == NoOp \in Requests /\ Shape(NoOp) /\ NoOp.at = "idle"
<1>1. /\ NoOp.at = "idle" /\ NoOp.on = None /\ NoOp.new = None
      /\ None \in Subject /\ None \in NewRow /\ [ip |-> None, gw |-> None] \in Place
      /\ NoHash \in InfoSet /\ <<>> \in GateSeq /\ None \in RowSet /\ {} \in IpSets
  BY DEF NoOp, Subject, NewRow, AddrSet, GateSet, Place, InfoSet, GateSeq, RowSet, IpSets
<1>2. NoOp \in Requests
  BY <1>1, RequestsAre DEF NoOp, Where
<1> QED BY <1>1, <1>2 DEF Shape

\* A step moves its request and leaves the others.
LEMMA GoesTyped ==
  ASSUME OpTypes, NEW e \in Op, NEW q, q \in Requests, Shape(q), op' = [op EXCEPT ![e] = q]
  PROVE  /\ OpTypes' /\ op'[e] = q
         /\ \A f \in Op : f # e => op'[f] = op[f]
BY DEF OpTypes

\* A request that begins, with what it is about.
LEMMA BeginTyped ==
  ASSUME OpTypes, NEW e \in Op, NEW q, q \in Requests, Shape(q), Begin(e, q)
  PROVE  /\ OpTypes'
         /\ \A f \in Op : /\ op'[f].at = (IF f = e THEN q.at ELSE op[f].at)
                          /\ f # e => op'[f].cur = op[f].cur
<1> DEFINE r == [q EXCEPT !.alone = \A x \in Op \ {e} : ~Active(x)]
<1>1. r \in Requests /\ Shape(r) /\ r.at = q.at
  <2>1. (\A x \in Op \ {e} : ~Active(x)) \in BOOLEAN
    OBVIOUS
  <2>2. q \in [at : Where, on : Subject, new : NewRow, prev : Place, cur : Place, info : InfoSet,
              todo : GateSeq, row : RowSet, ips : IpSets, alone : BOOLEAN]
    BY RequestsAre
  <2>3. r \in [at : Where, on : Subject, new : NewRow, prev : Place, cur : Place, info : InfoSet,
              todo : GateSeq, row : RowSet, ips : IpSets, alone : BOOLEAN]
    BY <2>1, <2>2
  <2>4. /\ r.at = q.at /\ r.on = q.on /\ r.new = q.new /\ r.cur = q.cur /\ r.info = q.info
        /\ r.todo = q.todo /\ r.row = q.row
    BY <2>2
  <2> QED BY <2>3, <2>4, RequestsAre DEF Shape
<1>2. ASSUME NEW f \in Op PROVE
        /\ [op[f] EXCEPT !.alone = FALSE] \in Requests
        /\ Shape([op[f] EXCEPT !.alone = FALSE])
        /\ [op[f] EXCEPT !.alone = FALSE].at = op[f].at
        /\ [op[f] EXCEPT !.alone = FALSE].cur = op[f].cur
  <2> DEFINE s == [op[f] EXCEPT !.alone = FALSE]
  <2>1. op[f] \in [at : Where, on : Subject, new : NewRow, prev : Place, cur : Place, info : InfoSet,
                   todo : GateSeq, row : RowSet, ips : IpSets, alone : BOOLEAN]
    BY RequestsAre DEF OpTypes
  <2>2. s \in [at : Where, on : Subject, new : NewRow, prev : Place, cur : Place, info : InfoSet,
               todo : GateSeq, row : RowSet, ips : IpSets, alone : BOOLEAN]
    BY <2>1
  <2>3. /\ s.at = op[f].at /\ s.on = op[f].on /\ s.new = op[f].new /\ s.cur = op[f].cur
        /\ s.info = op[f].info /\ s.todo = op[f].todo /\ s.row = op[f].row
    BY <2>1
  <2> QED BY <2>2, <2>3, RequestsAre DEF Shape, OpTypes
<1> HIDE DEF r
<1>3. op' = [f \in Op |-> IF f = e THEN r ELSE [op[f] EXCEPT !.alone = FALSE]]
  BY DEF Begin, r
<1>4. \A f \in Op : op'[f] = IF f = e THEN r ELSE [op[f] EXCEPT !.alone = FALSE]
  BY <1>3
<1>5. op' \in [Op -> Requests]
  BY <1>1, <1>2, <1>3
<1> QED BY <1>1, <1>2, <1>4, <1>5 DEF OpTypes

\* The fields of a request.
LEMMA FieldsTyped ==
  ASSUME NEW q \in Requests
  PROVE  /\ q.at \in Where /\ q.on \in Subject /\ q.new \in NewRow
         /\ q.prev \in Place /\ q.cur \in Place /\ q.info \in InfoSet /\ q.todo \in GateSeq
         /\ q.row \in RowSet /\ q.ips \in IpSets
         /\ q.prev.ip \in AddrSet /\ q.prev.gw \in GateSet
         /\ q.cur.ip \in AddrSet /\ q.cur.gw \in GateSet
BY RequestsAre DEF Place

\* A request that only goes on to another place.
LEMMA MoveTyped ==
  ASSUME NEW q \in Requests, NEW w \in Where
  PROVE  LET r == [q EXCEPT !.at = w] IN
         /\ r \in Requests
         /\ r.at = w /\ r.on = q.on /\ r.new = q.new /\ r.prev = q.prev /\ r.cur = q.cur
         /\ r.info = q.info /\ r.todo = q.todo /\ r.row = q.row /\ r.ips = q.ips
BY RequestsAre

\* Rows of the tables.
LEMMA RowsTyped ==
  ASSUME TableTypes
  PROVE  /\ \A d \in Device : dev[d] # None =>
               dev[d] \in DeviceRow /\ dev[d].ip \in Ip \cup {None} /\ dev[d].gw \in GateSet
               /\ dev[d].info \in Info
         /\ \A g \in Gateway : gate[g] # None =>
               gate[g] \in GatewayRow /\ gate[g].ip \in Pub \cup {None}
BY DEF TableTypes, DeviceRow, GatewayRow, GateSet

--------------------------------------------------------------------------------
(* Types are kept *)

\* A step that moves its request on leaves the counters.
LEMMA MovesOn ==
  ASSUME Types, NEW e \in Op, NEW q, q \in Requests, Shape(q), Goes(e, q),
         TableTypes', KeyTypes', saved' \subseteq Device \cup Gateway
  PROVE  Types' /\ op'[e] = q /\ \A f \in Op : f # e => op'[f] = op[f]
BY GoesTyped DEF Types, Goes, CountTypes

\* A request that begins is counted.
LEMMA Begins ==
  ASSUME Types, NEW e \in Op, NEW q, q \in Requests, Shape(q), Begin(e, q),
         TableTypes', saved' \subseteq Device \cup Gateway
  PROVE  /\ Types'
         /\ \A f \in Op : /\ op'[f].at = (IF f = e THEN q.at ELSE op[f].at)
                          /\ f # e => op'[f].cur = op[f].cur
<1>1. /\ OpTypes'
      /\ \A f \in Op : /\ op'[f].at = (IF f = e THEN q.at ELSE op[f].at)
                       /\ f # e => op'[f].cur = op[f].cur
  BY BeginTyped DEF Types
<1>2. KeyTypes' /\ CountTypes'
  BY SpoolsAssumption DEF Begin, Types, KeyTypes, CountTypes, keys
<1> QED BY <1>1, <1>2 DEF Types

\* No request arrives between DEL and HSET by the step.
NoNewHash(f) == op'[f].at = "hset" => op[f].at = "hset" /\ op'[f].cur = op[f].cur

\* The user's requests about devices.
LEMMA DeviceRequestTyped ==
  ASSUME Types, NEW e \in Op, DeviceRequest(e)
  PROVE  Types' /\ UNCHANGED keys /\ \A f \in Op : NoNewHash(f)
<1> USE DEF Types
<1>0. PICK d \in Device : DeleteDevice(e, d)
                     \/ \E r \in DeviceRow : UpdateDevice(e, d, r) \/ CreateDevice(e, d, r)
  BY DEF DeviceRequest
<1>1. CASE DeleteDevice(e, d)
  <2> DEFINE pl == [ip |-> dev[d].ip, gw |-> dev[d].gw]
             q == [NoOp EXCEPT !.at = "delete", !.on = d, !.prev = pl]
  <2>1. pl \in Place
    BY <1>1, RowsTyped DEF DeleteDevice, Place, AddrSet
  <2> HIDE DEF pl
  <2>2. /\ q \in Requests /\ q.at = "delete" /\ q.on = d /\ q.new = None
    BY <2>1, NoOpTyped, RequestsAre DEF Where, Subject, NoOp
  <2> HIDE DEF q
  <2>3. Shape(q)
    BY <2>2 DEF Shape
  <2>4. Begin(e, q) /\ UNCHANGED <<tables, saved>>
    BY <1>1 DEF DeleteDevice, q, pl
  <2>5. TableTypes' /\ saved' \subseteq Device \cup Gateway
    BY <2>4 DEF TableTypes, tables, CountTypes
  <2>6. /\ Types'
        /\ \A f \in Op : /\ op'[f].at = (IF f = e THEN q.at ELSE op[f].at)
                         /\ f # e => op'[f].cur = op[f].cur
    BY <2>2, <2>3, <2>4, <2>5, Begins
  <2> QED BY <2>2, <2>4, <2>6 DEF Begin, NoNewHash
<1>2. ASSUME NEW r \in DeviceRow, UpdateDevice(e, d, r)
      PROVE  Types' /\ UNCHANGED keys /\ \A f \in Op : NoNewHash(f)
  <2> DEFINE pl == [ip |-> dev[d].ip, gw |-> dev[d].gw]
             q == [NoOp EXCEPT !.at = "update", !.on = d, !.new = r, !.prev = pl]
  <2>1. pl \in Place
    BY <1>2, RowsTyped DEF UpdateDevice, Place, AddrSet
  <2> HIDE DEF pl
  <2>2. /\ q \in Requests /\ q.at = "update" /\ q.on = d /\ q.new = r
    BY <2>1, NoOpTyped, RequestsAre DEF Where, Subject, NewRow, NoOp
  <2> HIDE DEF q
  <2>3. Shape(q)
    BY <2>2 DEF Shape
  <2>4. Begin(e, q) /\ UNCHANGED <<tables, saved>>
    BY <1>2 DEF UpdateDevice, q, pl
  <2>5. TableTypes' /\ saved' \subseteq Device \cup Gateway
    BY <2>4 DEF TableTypes, tables, CountTypes
  <2>6. /\ Types'
        /\ \A f \in Op : /\ op'[f].at = (IF f = e THEN q.at ELSE op[f].at)
                         /\ f # e => op'[f].cur = op[f].cur
    BY <2>2, <2>3, <2>4, <2>5, Begins
  <2> QED BY <2>2, <2>4, <2>6 DEF Begin, NoNewHash
<1>3. ASSUME NEW r \in DeviceRow, CreateDevice(e, d, r)
      PROVE  Types' /\ UNCHANGED keys /\ \A f \in Op : NoNewHash(f)
  <2> DEFINE q == [NoOp EXCEPT !.at = "load", !.on = d, !.new = r]
  <2>2. /\ q \in Requests /\ q.at = "load" /\ q.on = d /\ q.new = r
    BY NoOpTyped, RequestsAre DEF Where, Subject, NewRow, NoOp
  <2> HIDE DEF q
  <2>3. Shape(q)
    BY <2>2 DEF Shape
  <2>4. Begin(e, q) /\ dev' = [dev EXCEPT ![d] = r] /\ saved' = saved \cup {d} /\ gate' = gate
    BY <1>3 DEF CreateDevice, q
  <2>5. TableTypes' /\ saved' \subseteq Device \cup Gateway
    BY <2>4 DEF TableTypes, tables, CountTypes
  <2>6. /\ Types'
        /\ \A f \in Op : /\ op'[f].at = (IF f = e THEN q.at ELSE op[f].at)
                         /\ f # e => op'[f].cur = op[f].cur
    BY <2>2, <2>3, <2>4, <2>5, Begins
  <2> QED BY <2>2, <2>4, <2>6 DEF Begin, NoNewHash
<1> QED BY <1>0, <1>1, <1>2, <1>3

\* The user's requests about gateways.
LEMMA GatewayRequestTyped ==
  ASSUME Types, NEW e \in Op, GatewayRequest(e)
  PROVE  Types' /\ UNCHANGED keys /\ \A f \in Op : NoNewHash(f)
<1> USE DEF Types
<1>0. PICK g \in Gateway : DeleteGateway(e, g)
                     \/ \E r \in GatewayRow : UpdateGateway(e, g, r) \/ CreateGateway(e, g, r)
  BY DEF GatewayRequest
<1>1. CASE DeleteGateway(e, g)
  <2> DEFINE q == [NoOp EXCEPT !.at = "gselect", !.on = g]
  <2>2. /\ q \in Requests /\ q.at = "gselect" /\ q.on = g /\ q.new = None
    BY NoOpTyped, RequestsAre DEF Where, Subject, NoOp
  <2> HIDE DEF q
  <2>3. Shape(q)
    BY <2>2 DEF Shape
  <2>4. Begin(e, q) /\ UNCHANGED <<tables, saved>>
    BY <1>1 DEF DeleteGateway, q
  <2>5. TableTypes' /\ saved' \subseteq Device \cup Gateway
    BY <2>4 DEF TableTypes, tables, CountTypes
  <2>6. /\ Types'
        /\ \A f \in Op : /\ op'[f].at = (IF f = e THEN q.at ELSE op[f].at)
                         /\ f # e => op'[f].cur = op[f].cur
    BY <2>2, <2>3, <2>4, <2>5, Begins
  <2> QED BY <2>2, <2>4, <2>6 DEF Begin, NoNewHash
<1>2. ASSUME NEW r \in GatewayRow, UpdateGateway(e, g, r)
      PROVE  Types' /\ UNCHANGED keys /\ \A f \in Op : NoNewHash(f)
  <2> DEFINE q == [NoOp EXCEPT !.at = "gupdate", !.on = g, !.new = r, !.prev.ip = gate[g].ip]
  <2>1. gate[g].ip \in AddrSet
    BY <1>2, RowsTyped DEF UpdateGateway, AddrSet
  <2>2. /\ q \in Requests /\ q.at = "gupdate" /\ q.on = g /\ q.new = r
    BY <2>1, NoOpTyped, RequestsAre DEF Where, Subject, NewRow, NoOp, Place, GateSet
  <2> HIDE DEF q
  <2>3. Shape(q)
    BY <2>2 DEF Shape
  <2>4. Begin(e, q) /\ UNCHANGED <<tables, saved>>
    BY <1>2 DEF UpdateGateway, q
  <2>5. TableTypes' /\ saved' \subseteq Device \cup Gateway
    BY <2>4 DEF TableTypes, tables, CountTypes
  <2>6. /\ Types'
        /\ \A f \in Op : /\ op'[f].at = (IF f = e THEN q.at ELSE op[f].at)
                         /\ f # e => op'[f].cur = op[f].cur
    BY <2>2, <2>3, <2>4, <2>5, Begins
  <2> QED BY <2>2, <2>4, <2>6 DEF Begin, NoNewHash
<1>3. ASSUME NEW r \in GatewayRow, CreateGateway(e, g, r)
      PROVE  Types' /\ UNCHANGED keys /\ \A f \in Op : NoNewHash(f)
  <2> DEFINE q == [NoOp EXCEPT !.at = "gate", !.on = g, !.new = r, !.todo = <<g>>]
  <2>1. <<g>> \in GateSeq /\ <<g>> # <<>>
    BY DEF GateSeq
  <2>2. /\ q \in Requests /\ q.at = "gate" /\ q.on = g /\ q.new = r /\ q.todo = <<g>>
    BY <2>1, NoOpTyped, RequestsAre DEF Where, Subject, NewRow, NoOp
  <2> HIDE DEF q
  <2>3. Shape(q)
    BY <2>1, <2>2 DEF Shape
  <2>4. Begin(e, q) /\ gate' = [gate EXCEPT ![g] = r] /\ saved' = saved \cup {g} /\ dev' = dev
    BY <1>3 DEF CreateGateway, q
  <2>5. TableTypes' /\ saved' \subseteq Device \cup Gateway
    BY <2>4 DEF TableTypes, tables, CountTypes
  <2>6. /\ Types'
        /\ \A f \in Op : /\ op'[f].at = (IF f = e THEN q.at ELSE op[f].at)
                         /\ f # e => op'[f].cur = op[f].cur
    BY <2>2, <2>3, <2>4, <2>5, Begins
  <2> QED BY <2>2, <2>4, <2>6 DEF Begin, NoNewHash
<1> QED BY <1>0, <1>1, <1>2, <1>3

\* What follows a gateway, or the removal of an old address.
LEMMA AfterTyped ==
  ASSUME OpTypes, NEW e \in Op, NEW todo \in GateSeq
  PROVE  /\ After(e, todo) \in Requests /\ Shape(After(e, todo))
         /\ After(e, todo).at \in {"gate", "stale", "idle"}
         /\ After(e, todo).at = "stale" => \A x \in AddrSet :
               [After(e, todo) EXCEPT !.cur.ip = x] \in Requests
               /\ Shape([After(e, todo) EXCEPT !.cur.ip = x])
               /\ [After(e, todo) EXCEPT !.cur.ip = x].at = "stale"
<1>0. op[e] \in Requests /\ Shape(op[e]) /\ None \in RowSet /\ {} \in IpSets /\ <<>> \in GateSeq
  BY DEF OpTypes, RowSet, IpSets, GateSeq
<1>1. CASE todo # <<>>
  <2> DEFINE q == [op[e] EXCEPT !.at = "gate", !.todo = todo, !.row = None, !.ips = {}]
  <2>1. After(e, todo) = q
    BY <1>1 DEF After
  <2>2. q \in Requests /\ q.at = "gate" /\ q.todo = todo /\ q.on = op[e].on /\ q.new = op[e].new
    BY <1>0, RequestsAre DEF Where
  <2> HIDE DEF q
  <2>3. Shape(q)
    BY <1>0, <1>1, <2>2 DEF Shape
  <2> QED BY <2>1, <2>2, <2>3
<1>2. CASE todo = <<>> /\ op[e].on \in Gateway
  <2> DEFINE q == [op[e] EXCEPT !.at = "stale", !.todo = <<>>, !.row = None, !.ips = {}]
  <2>1. After(e, todo) = q
    BY <1>2 DEF After
  <2>2. q \in Requests /\ q.at = "stale" /\ q.on = op[e].on /\ q.new = op[e].new
    BY <1>0, RequestsAre DEF Where
  <2> HIDE DEF q
  <2>3. Shape(q)
    BY <1>0, <2>2 DEF Shape
  <2>4. ASSUME NEW x \in AddrSet
        PROVE  [q EXCEPT !.cur.ip = x] \in Requests /\ Shape([q EXCEPT !.cur.ip = x])
               /\ [q EXCEPT !.cur.ip = x].at = "stale"
    <3> DEFINE r == [q EXCEPT !.cur.ip = x]
    <3>1. r \in Requests /\ r.at = "stale" /\ r.on = q.on /\ r.new = q.new
      BY <2>2, RequestsAre DEF Place
    <3> HIDE DEF r
    <3>2. Shape(r)
      BY <2>2, <2>3, <3>1 DEF Shape
    <3> QED BY <3>1, <3>2 DEF r
  <2> QED BY <2>1, <2>2, <2>3, <2>4
<1>3. CASE todo = <<>> /\ op[e].on \notin Gateway
  <2>1. After(e, todo) = NoOp
    BY <1>3 DEF After
  <2> QED BY <2>1, NoOpTyped
<1> QED BY <1>1, <1>2, <1>3

\* The gateways to spool are gateways.
LEMMA ToSpoolTyped ==
  ASSUME NEW e \in Op, op[e] \in Requests PROVE ToSpool(e) \in GateSeq
<1>1. op[e].cur.gw \in Gateway \cup {None} /\ op[e].prev.gw \in Gateway \cup {None}
  BY FieldsTyped DEF GateSet
<1>2. \A g \in Gateway : <<g>> \in Seq(Gateway)
  OBVIOUS
<1>3. <<>> \in Seq(Gateway) /\ \A s, t \in Seq(Gateway) : s \o t \in Seq(Gateway)
  OBVIOUS
<1> DEFINE s == IF op[e].cur.gw = None THEN <<>> ELSE <<op[e].cur.gw>>
           t == IF op[e].prev.gw \in {None, op[e].cur.gw} THEN <<>> ELSE <<op[e].prev.gw>>
<1>4. s \in Seq(Gateway) /\ t \in Seq(Gateway)
  BY <1>1, <1>2, <1>3
<1>5. ToSpool(e) = s \o t
  BY DEF ToSpool
<1> HIDE DEF s, t
<1> QED BY <1>3, <1>4, <1>5 DEF GateSeq

\* The steps of a request about a device.
LEMMA DeviceStepTyped ==
  ASSUME Types, NEW e \in Op, DeviceStep(e)
  PROVE  Types' /\ \A f \in Op : f # e => op'[f] = op[f]
<1> USE DEF Types
<1>0. op[e] \in Requests /\ Shape(op[e])
  BY DEF OpTypes
<1>1. CASE WriteDevice(e)
  <2>1. At(e, "update") /\ op[e].on \in Device /\ op[e].new \in DeviceRow /\ UNCHANGED <<gate, keys>>
    BY <1>0, <1>1 DEF WriteDevice, Shape, At
  <2>2. KeyTypes'
    BY <2>1 DEF KeyTypes, keys
  <2>3. CASE End(e) /\ UNCHANGED <<dev, saved>>
    <3>1. TableTypes' /\ saved' \subseteq Device \cup Gateway
      BY <2>1, <2>3 DEF TableTypes, CountTypes
    <3> QED BY <2>2, <2>3, <3>1, NoOpTyped, MovesOn DEF End
  <2>4. CASE /\ dev' = [dev EXCEPT ![op[e].on] = IF @ = None THEN None ELSE op[e].new]
             /\ saved' = saved \cup {op[e].on}
             /\ Goes(e, [op[e] EXCEPT !.at = "load"])
    <3> DEFINE q == [op[e] EXCEPT !.at = "load"]
    <3>1. "load" \in Where
      BY DEF Where
    <3>2. q \in Requests /\ q.at = "load" /\ q.on = op[e].on /\ q.new = op[e].new
      BY <1>0, <3>1, MoveTyped
    <3>3. Goes(e, q)
      BY <2>4
    <3> HIDE DEF q
    <3>4. Shape(q)
      BY <2>1, <3>2 DEF Shape
    <3>5. TableTypes' /\ saved' \subseteq Device \cup Gateway
      BY <2>1, <2>4 DEF TableTypes, CountTypes
    <3> QED BY <2>2, <3>2, <3>3, <3>4, <3>5, MovesOn
  <2> QED BY <1>1, <2>3, <2>4 DEF WriteDevice
<1>2. CASE DropDevice(e)
  <2> DEFINE q == [op[e] EXCEPT !.at = "unlink"]
  <2>1. "unlink" \in Where
    BY DEF Where
  <2>2. q \in Requests /\ q.at = "unlink" /\ q.on = op[e].on /\ q.new = op[e].new
    BY <1>0, <2>1, MoveTyped
  <2>3. Goes(e, q) /\ dev' = [dev EXCEPT ![op[e].on] = None] /\ UNCHANGED <<gate, keys, saved>>
    BY <1>2 DEF DropDevice
  <2> HIDE DEF q
  <2>4. Shape(q)
    BY <1>0, <2>2 DEF Shape
  <2>5. TableTypes' /\ KeyTypes' /\ saved' \subseteq Device \cup Gateway
    BY <2>3 DEF TableTypes, KeyTypes, keys, CountTypes
  <2> QED BY <2>2, <2>3, <2>4, <2>5, MovesOn
<1>3. CASE LoadDevice(e)
  <2>1. At(e, "load") /\ op[e].on \in Device /\ UNCHANGED <<tables, keys, saved>>
    BY <1>0, <1>3 DEF LoadDevice, Shape, At
  <2>2. TableTypes' /\ KeyTypes' /\ saved' \subseteq Device \cup Gateway
    BY <2>1 DEF TableTypes, KeyTypes, keys, tables, CountTypes
  <2>3. CASE dev[op[e].on] = None
    <3> DEFINE q == [op[e] EXCEPT !.at = "unlink"]
    <3>1. "unlink" \in Where
      BY DEF Where
    <3>2. q \in Requests /\ q.at = "unlink" /\ q.on = op[e].on /\ q.new = op[e].new
      BY <1>0, <3>1, MoveTyped
    <3>3. Goes(e, q)
      BY <1>3, <2>3 DEF LoadDevice
    <3> HIDE DEF q
    <3>4. Shape(q)
      BY <1>0, <3>2 DEF Shape
    <3> QED BY <2>2, <3>2, <3>3, <3>4, MovesOn
  <2>4. CASE dev[op[e].on] # None
    <3> DEFINE r  == dev[op[e].on]
               w  == IF r.ip = None THEN "unlink" ELSE "del"
               pl == [ip |-> r.ip, gw |-> r.gw]
               q  == [op[e] EXCEPT !.at = w, !.cur = pl, !.info = r.info]
    <3>1. r.ip \in Ip \cup {None} /\ r.gw \in GateSet /\ r.info \in Info
      BY <2>1, <2>4, RowsTyped
    <3>2. pl \in Place /\ pl.ip = r.ip /\ r.info \in InfoSet
      BY <3>1 DEF Place, AddrSet, InfoSet
    <3>3. Goes(e, q)
      BY <1>3, <2>4 DEF LoadDevice
    <3>4. w \in Where /\ (w = "del" => r.ip \in Ip) /\ w \in {"unlink", "del"}
      BY <3>1 DEF Where
    <3> HIDE DEF w, pl, r
    <3>5. /\ q \in Requests /\ q.at = w /\ q.cur = pl /\ q.info = r.info
          /\ q.on = op[e].on /\ q.new = op[e].new
      BY <1>0, <3>2, <3>4, RequestsAre
    <3> HIDE DEF q
    <3>6. Shape(q)
      BY <1>0, <2>1, <3>1, <3>2, <3>4, <3>5 DEF Shape
    <3> QED BY <2>2, <3>3, <3>5, <3>6, MovesOn
  <2> QED BY <2>3, <2>4
<1>4. CASE DelHash(e)
  <2> DEFINE q == [op[e] EXCEPT !.at = "hset"]
  <2>1. "hset" \in Where
    BY DEF Where
  <2>2. /\ q \in Requests /\ q.at = "hset" /\ q.on = op[e].on /\ q.new = op[e].new
        /\ q.cur = op[e].cur /\ q.info = op[e].info
    BY <1>0, <2>1, MoveTyped
  <2>3. /\ Goes(e, q) /\ sys' = [sys EXCEPT ![op[e].cur.ip] = NoHash]
        /\ op[e].at = "del" /\ UNCHANGED <<tables, psk, site, nat, saved>>
    BY <1>4 DEF DelHash, At
  <2> HIDE DEF q
  <2>4. Shape(q)
    BY <1>0, <2>2, <2>3 DEF Shape
  <2>5. NoHash \in Hash
    BY DEF NoHash, Hash
  <2>6. TableTypes' /\ KeyTypes' /\ saved' \subseteq Device \cup Gateway
    BY <2>3, <2>5 DEF TableTypes, tables, KeyTypes, CountTypes
  <2> QED BY <2>2, <2>3, <2>4, <2>6, MovesOn
<1>5. CASE SetHash(e)
  <2> DEFINE q == [op[e] EXCEPT !.at = "unlink"]
  <2>1. "unlink" \in Where
    BY DEF Where
  <2>2. q \in Requests /\ q.at = "unlink" /\ q.on = op[e].on /\ q.new = op[e].new
    BY <1>0, <2>1, MoveTyped
  <2>3. /\ Goes(e, q) /\ sys' = [sys EXCEPT ![op[e].cur.ip] = Merge(@, op[e].info)]
        /\ op[e].at = "hset" /\ UNCHANGED <<tables, psk, site, nat, saved>>
    BY <1>5 DEF SetHash, At
  <2> HIDE DEF q
  <2>4. Shape(q)
    BY <1>0, <2>2 DEF Shape
  <2>5. op[e].cur.ip \in Ip /\ op[e].info \in Hash /\ sys[op[e].cur.ip] \in Hash
    BY <1>0, <2>3, SpoolsAssumption DEF Shape, KeyTypes
  <2>6. Merge(sys[op[e].cur.ip], op[e].info) \in Hash
    BY <2>5 DEF Merge, Hash
  <2>7. TableTypes' /\ KeyTypes' /\ saved' \subseteq Device \cup Gateway
    BY <2>3, <2>6 DEF TableTypes, tables, KeyTypes, CountTypes
  <2> QED BY <2>2, <2>3, <2>4, <2>7, MovesOn
<1>6. CASE UnlinkOld(e)
  <2>1. ToSpool(e) \in GateSeq
    BY <1>0, ToSpoolTyped
  <2>2. After(e, ToSpool(e)) \in Requests /\ Shape(After(e, ToSpool(e)))
    BY <2>1, AfterTyped
  <2>3. NoHash \in Hash
    BY DEF NoHash, Hash
  <2>4. TableTypes' /\ KeyTypes' /\ saved' \subseteq Device \cup Gateway
    BY <1>6, <2>3 DEF UnlinkOld, TableTypes, tables, KeyTypes, CountTypes
  <2> QED BY <1>6, <2>2, <2>4, MovesOn DEF UnlinkOld
<1> QED BY <1>1, <1>2, <1>3, <1>4, <1>5, <1>6 DEF DeviceStep

\* Gateways that wait to be spooled.
LEMMA HeadTyped ==
  ASSUME NEW s \in GateSeq, s # <<>> PROVE Head(s) \in Gateway /\ Tail(s) \in GateSeq
BY DEF GateSeq

\* A step that writes keys and goes on to another place of spoolGateway.
LEMMA SpoolMoves ==
  ASSUME Types, NEW e \in Op, NEW w \in {"site", "nat"}, op[e].at \in {"psk", "site"},
         Goes(e, [op[e] EXCEPT !.at = w]), KeyTypes', UNCHANGED <<tables, saved>>
  PROVE  Types' /\ \A f \in Op : f # e => op'[f] = op[f]
<1> USE DEF Types
<1> DEFINE q == [op[e] EXCEPT !.at = w]
<1>1. op[e] \in Requests /\ Shape(op[e]) /\ w \in Where
  BY DEF OpTypes, Where
<1>2. /\ q \in Requests /\ q.at = w /\ q.on = op[e].on /\ q.new = op[e].new
      /\ q.todo = op[e].todo /\ q.row = op[e].row
  BY <1>1, MoveTyped
<1>3. Goes(e, q)
  OBVIOUS
<1> HIDE DEF q
<1>4. Shape(q)
  BY <1>1, <1>2 DEF Shape
<1>5. TableTypes' /\ saved' \subseteq Device \cup Gateway
  BY DEF TableTypes, tables, CountTypes
<1> QED BY <1>2, <1>3, <1>4, <1>5, MovesOn

\* The steps of spoolGateway.
LEMMA SpoolStepTyped ==
  ASSUME Types, NEW e \in Op,
         ReadGateway(e) \/ ReadDevices(e) \/ SetPsk(e) \/ SetSite(e) \/ SetNat(e)
  PROVE  Types' /\ \A f \in Op : f # e => op'[f] = op[f]
<1> USE DEF Types
<1>0. op[e] \in Requests /\ Shape(op[e])
  BY DEF OpTypes
<1>1. /\ op[e].at \in {"gate", "devices", "nat"}
         => op[e].todo # <<>> /\ Head(op[e].todo) \in Gateway /\ Tail(op[e].todo) \in GateSeq
      /\ op[e].at \in {"devices", "psk", "site", "nat"}
         => op[e].row \in GatewayRow /\ op[e].row.ip \in Pub
  BY <1>0, FieldsTyped, HeadTyped DEF Shape
<1>2. CASE ReadGateway(e)
  <2>1. op[e].at = "gate" /\ UNCHANGED <<tables, keys>>
    BY <1>2 DEF ReadGateway, At
  <2>2. TableTypes' /\ KeyTypes'
    BY <2>1 DEF TableTypes, tables, KeyTypes, keys
  <2>3. CASE Goes(e, After(e, Tail(op[e].todo))) /\ UNCHANGED saved
    <3>1. saved' \subseteq Device \cup Gateway
      BY <2>3 DEF CountTypes
    <3>2. After(e, Tail(op[e].todo)) \in Requests /\ Shape(After(e, Tail(op[e].todo)))
      BY <1>1, <2>1, AfterTyped
    <3> QED BY <2>2, <2>3, <3>1, <3>2, MovesOn
  <2>4. CASE /\ ~Keyless(Head(op[e].todo))
             /\ Goes(e, [op[e] EXCEPT !.at = "devices", !.row = gate[Head(op[e].todo)]])
             /\ saved' = saved \cup {Head(op[e].todo)}
    <3> DEFINE g == Head(op[e].todo)
               q == [op[e] EXCEPT !.at = "devices", !.row = gate[g]]
    <3>1. g \in Gateway /\ gate[g] \in GatewayRow /\ gate[g].ip \in Pub
      BY <1>1, <2>1, <2>4, RowsTyped DEF Keyless
    <3>2. Goes(e, q) /\ saved' \subseteq Device \cup Gateway
      BY <2>4, <3>1 DEF CountTypes
    <3> HIDE DEF g
    <3>3. /\ q \in Requests /\ q.at = "devices" /\ q.row = gate[g] /\ q.todo = op[e].todo
          /\ q.on = op[e].on /\ q.new = op[e].new
      BY <1>0, <3>1, RequestsAre DEF Where, RowSet
    <3> HIDE DEF q
    <3>4. Shape(q)
      BY <1>0, <1>1, <2>1, <3>1, <3>3 DEF Shape
    <3> QED BY <2>2, <3>2, <3>3, <3>4, MovesOn
  <2> QED BY <1>2, <2>3, <2>4 DEF ReadGateway
<1>3. CASE ReadDevices(e)
  <2> DEFINE ips == {dev[d].ip : d \in Attached(Head(op[e].todo))} \ {None}
             q == [op[e] EXCEPT !.at = "psk", !.ips = ips]
  <2>1. op[e].at = "devices" /\ UNCHANGED <<tables, keys, saved>> /\ Goes(e, q)
    BY <1>3 DEF ReadDevices, At
  <2>2. ips \in IpSets
    <3>1. \A d \in Attached(Head(op[e].todo)) : dev[d].ip \in Ip \cup {None}
      BY RowsTyped DEF Attached
    <3> QED BY <3>1 DEF IpSets
  <2> HIDE DEF ips
  <2>3. /\ q \in Requests /\ q.at = "psk" /\ q.row = op[e].row /\ q.todo = op[e].todo
        /\ q.on = op[e].on /\ q.new = op[e].new
    BY <1>0, <2>2, RequestsAre DEF Where
  <2> HIDE DEF q
  <2>4. Shape(q)
    BY <1>0, <1>1, <2>1, <2>3 DEF Shape
  <2>5. TableTypes' /\ KeyTypes' /\ saved' \subseteq Device \cup Gateway
    BY <2>1 DEF TableTypes, tables, KeyTypes, keys, CountTypes
  <2> QED BY <2>1, <2>3, <2>4, <2>5, MovesOn
<1>4. CASE SetPsk(e)
  <2>1. /\ op[e].at = "psk" /\ psk' = [psk EXCEPT ![op[e].row.ip] = op[e].row.psk]
        /\ Goes(e, [op[e] EXCEPT !.at = "site"]) /\ UNCHANGED <<tables, sys, site, nat, saved>>
    BY <1>4 DEF SetPsk, At
  <2>2. op[e].row.psk \in Psk \cup {None}
    BY <1>1, <2>1 DEF GatewayRow
  <2>3. KeyTypes'
    BY <2>1, <2>2 DEF KeyTypes
  <2> QED BY <2>1, <2>3, SpoolMoves
<1>5. CASE SetSite(e)
  <2>1. /\ op[e].at = "site" /\ site' = [site EXCEPT ![op[e].row.ip] = op[e].row.mode]
        /\ Goes(e, [op[e] EXCEPT !.at = "nat"]) /\ UNCHANGED <<tables, sys, psk, nat, saved>>
    BY <1>5 DEF SetSite, At
  <2>2. op[e].row.mode \in Mode
    BY <1>1, <2>1 DEF GatewayRow
  <2>3. KeyTypes'
    BY <2>1, <2>2 DEF KeyTypes
  <2> QED BY <2>1, <2>3, SpoolMoves
<1>6. CASE SetNat(e)
  <2> DEFINE g == op[e].row
             next == After(e, Tail(op[e].todo))
             q == IF next.at = "stale" THEN [next EXCEPT !.cur.ip = g.ip] ELSE next
  <2>1. op[e].at = "nat" /\ UNCHANGED <<tables, sys, psk, site, saved>>
    BY <1>6 DEF SetNat, At
  <2>2. Goes(e, q) /\ nat' = [nat EXCEPT ![g.ip] = [mode |-> g.mode, ips |-> op[e].ips]]
    BY <1>6 DEF SetNat
  <2>3. next \in Requests /\ Shape(next) /\ g.ip \in AddrSet
        /\ (next.at = "stale" => \A x \in AddrSet :
               [next EXCEPT !.cur.ip = x] \in Requests /\ Shape([next EXCEPT !.cur.ip = x]))
    BY <1>1, <2>1, AfterTyped DEF AddrSet
  <2>4. g.mode \in Mode /\ op[e].ips \in SUBSET Ip
    BY <1>0, <1>1, <2>1, FieldsTyped DEF GatewayRow, IpSets
  <2> HIDE DEF next, g
  <2>5. q \in Requests /\ Shape(q)
    BY <2>3
  <2> HIDE DEF q
  <2>6. [mode |-> g.mode, ips |-> op[e].ips] \in NatRecord
    BY <2>4 DEF NatRecord
  <2>7. TableTypes' /\ KeyTypes' /\ saved' \subseteq Device \cup Gateway
    BY <2>1, <2>2, <2>6 DEF TableTypes, tables, KeyTypes, CountTypes
  <2> QED BY <2>2, <2>5, <2>7, MovesOn
<1> QED BY <1>2, <1>3, <1>4, <1>5, <1>6

\* The steps of a request about a gateway before and after it is spooled.
LEMMA GatewayStepTyped ==
  ASSUME Types, NEW e \in Op,
         WriteGateway(e) \/ SelectGateway(e) \/ DropGateway(e) \/ UnlinkGateway(e)
  PROVE  Types' /\ \A f \in Op : f # e => op'[f] = op[f]
<1> USE DEF Types
<1>0. op[e] \in Requests /\ Shape(op[e])
  BY DEF OpTypes
<1>1. CASE WriteGateway(e)
  <2> DEFINE g == op[e].on
             q == [op[e] EXCEPT !.at = "gate", !.todo = <<g>>]
  <2>1. /\ op[e].at = "gupdate" /\ Goes(e, q) /\ UNCHANGED <<dev, keys>>
        /\ gate' = [gate EXCEPT ![g] = IF @ = None THEN None ELSE op[e].new]
        /\ saved' = saved \cup {g}
    BY <1>1 DEF WriteGateway, At
  <2>2. g \in Gateway /\ op[e].new \in GatewayRow
    BY <1>0, <2>1 DEF Shape
  <2>3. <<g>> \in GateSeq /\ <<g>> # <<>>
    BY <2>2 DEF GateSeq
  <2>4. /\ q \in Requests /\ q.at = "gate" /\ q.todo = <<g>> /\ q.on = op[e].on
        /\ q.new = op[e].new
    BY <1>0, <2>3, RequestsAre DEF Where
  <2> HIDE DEF q
  <2>5. Shape(q)
    BY <2>2, <2>3, <2>4 DEF Shape
  <2>6. TableTypes' /\ KeyTypes' /\ saved' \subseteq Device \cup Gateway
    BY <2>1, <2>2 DEF TableTypes, KeyTypes, keys, CountTypes
  <2> QED BY <2>1, <2>4, <2>5, <2>6, MovesOn
<1>2. CASE SelectGateway(e)
  <2> DEFINE g == op[e].on
             x == IF gate[g] = None THEN None ELSE gate[g].ip
             q == [op[e] EXCEPT !.at = "gdelete", !.prev.ip = x]
  <2>1. op[e].at = "gselect" /\ Goes(e, q) /\ UNCHANGED <<tables, keys, saved>>
    BY <1>2 DEF SelectGateway, At
  <2>2. g \in Gateway /\ x \in AddrSet
    BY <1>0, <2>1, RowsTyped DEF Shape, AddrSet
  <2> HIDE DEF x
  <2>3. q \in Requests /\ q.at = "gdelete" /\ q.on = op[e].on /\ q.new = op[e].new
    BY <1>0, <2>2, RequestsAre DEF Where, Place
  <2> HIDE DEF q
  <2>4. Shape(q)
    BY <2>2, <2>3 DEF Shape
  <2>5. TableTypes' /\ KeyTypes' /\ saved' \subseteq Device \cup Gateway
    BY <2>1 DEF TableTypes, tables, KeyTypes, keys, CountTypes
  <2> QED BY <2>1, <2>3, <2>4, <2>5, MovesOn
<1>3. CASE DropGateway(e)
  <2>1. op[e].at = "gdelete" /\ UNCHANGED <<dev, keys, saved>>
    BY <1>3 DEF DropGateway, At
  <2>2. KeyTypes' /\ saved' \subseteq Device \cup Gateway
    BY <2>1 DEF KeyTypes, keys, CountTypes
  <2>3. CASE End(e) /\ UNCHANGED gate
    <3>1. TableTypes'
      BY <2>1, <2>3 DEF TableTypes
    <3> QED BY <2>2, <2>3, <3>1, NoOpTyped, MovesOn DEF End
  <2>4. CASE gate' = [gate EXCEPT ![op[e].on] = None] /\ Goes(e, [op[e] EXCEPT !.at = "stale"])
    <3> DEFINE q == [op[e] EXCEPT !.at = "stale"]
    <3>1. "stale" \in Where
      BY DEF Where
    <3>2. q \in Requests /\ q.at = "stale" /\ q.on = op[e].on /\ q.new = op[e].new
      BY <1>0, <3>1, MoveTyped
    <3>3. Goes(e, q)
      BY <2>4
    <3> HIDE DEF q
    <3>4. Shape(q)
      BY <1>0, <3>2 DEF Shape
    <3>5. TableTypes'
      BY <2>1, <2>4 DEF TableTypes
    <3> QED BY <2>2, <3>2, <3>3, <3>4, <3>5, MovesOn
  <2> QED BY <1>3, <2>3, <2>4 DEF DropGateway
<1>4. CASE UnlinkGateway(e)
  <2>1. End(e) /\ UNCHANGED <<tables, sys, saved>>
    BY <1>4 DEF UnlinkGateway
  <2>2. KeyTypes'
    BY <1>4 DEF UnlinkGateway, KeyTypes
  <2>3. TableTypes' /\ saved' \subseteq Device \cup Gateway
    BY <2>1 DEF TableTypes, tables, CountTypes
  <2> QED BY <2>1, <2>2, <2>3, NoOpTyped, MovesOn DEF End
<1> QED BY <1>1, <1>2, <1>3, <1>4

\* A request fails.
LEMMA FailTyped ==
  ASSUME Types, NEW e \in Op, Fail(e)
  PROVE  Types' /\ op'[e] = NoOp /\ \A f \in Op : f # e => op'[f] = op[f]
<1> USE DEF Types
<1>1. OpTypes' /\ op'[e] = NoOp /\ \A f \in Op : f # e => op'[f] = op[f]
  BY NoOpTyped, GoesTyped DEF Fail
<1>2. TableTypes' /\ KeyTypes'
  BY DEF Fail, TableTypes, tables, KeyTypes, keys
<1>3. CountTypes'
  BY SpoolsAssumption DEF Fail, CountTypes
<1> QED BY <1>1, <1>2, <1>3

--------------------------------------------------------------------------------
(* Addresses and hashes *)

\* The addresses a request concerns are addresses.
LEMMA ConcernsTyped ==
  ASSUME TableTypes, OpTypes, NEW e \in Op
  PROVE  Concerns(e) \subseteq Ip \cup Pub
<1>1. op[e] \in Requests /\ Shape(op[e])
  BY DEF OpTypes
<1>2. op[e].prev.ip \in AddrSet /\ op[e].cur.ip \in AddrSet
  BY <1>1, FieldsTyped
<1>3. op[e].new \in NewRow /\ op[e].row \in RowSet /\ op[e].on \in Subject
  BY <1>1, FieldsTyped
<1>4. \A r \in DeviceRow \cup GatewayRow : r.ip \in AddrSet
  BY DEF DeviceRow, GatewayRow, AddrSet
<1>5. RowOf(op[e].on) \in DeviceRow \cup GatewayRow \cup {None}
  BY <1>3 DEF RowOf, Subject, TableTypes
<1>6. \A r \in {op[e].new, op[e].row, RowOf(op[e].on)} \ {None} : r.ip \in AddrSet
  BY <1>3, <1>4, <1>5 DEF NewRow, RowSet
<1>7. Gates(e) \subseteq Gateway
  <2>1. CASE op[e].on \in Gateway
    BY <2>1 DEF Gates
  <2>2. CASE op[e].on \notin Gateway
    <3>1. op[e].new \in DeviceRow \cup {None}
      BY <1>1, <2>2 DEF Shape
    <3>2. RowOf(op[e].on) \in DeviceRow \cup {None}
      BY <1>3, <2>2 DEF RowOf, Subject, TableTypes
    <3>3. \A r \in {op[e].new, RowOf(op[e].on)} \ {None} : r.gw \in Gateway \cup {None}
      BY <3>1, <3>2 DEF DeviceRow
    <3>4. op[e].prev.gw \in Gateway \cup {None} /\ op[e].cur.gw \in Gateway \cup {None}
      BY <1>1, FieldsTyped DEF GateSet
    <3> QED BY <2>2, <3>3, <3>4 DEF Gates
  <2> QED BY <2>1, <2>2
<1>8. \A g \in {h \in Gates(e) : gate[h] # None} : gate[g].ip \in AddrSet
  BY <1>7, RowsTyped DEF AddrSet
<1> QED BY <1>2, <1>6, <1>8 DEF Concerns, AddrSet

\* Addresses where requests meet, and addresses of two rows, are addresses.
LEMMA MeetingsTyped ==
  ASSUME TableTypes, OpTypes PROVE Meetings \subseteq Ip \cup Pub /\ Doubles \subseteq Ip \cup Pub
BY ConcernsTyped DEF Meetings, Doubles

\* Wherever requests or rows meet, it is at an address.
MeetAtAddress == Meetings \subseteq Ip \cup Pub /\ Doubles \subseteq Ip \cup Pub

\* The same after a step.
LEMMA MeetingsTypedNext == TableTypes' /\ OpTypes' => MeetAtAddress'
<1>1. TableTypes /\ OpTypes => MeetAtAddress
  BY MeetingsTyped DEF MeetAtAddress
<1> QED BY <1>1, PTL

\* Two requests under way meet at an address both concern.
LEMMA TheyMeet ==
  ASSUME NEW e \in Op, NEW f \in Op, e # f, Active(e), Active(f),
         NEW a, a \in Concerns(e), a \in Concerns(f)
  PROVE  a \in Meetings
BY DEF Meetings

\* Between DEL and HSET the key is empty unless another request has met this one.
Emptied == \A e \in Op : op[e].at = "hset" /\ op[e].cur.ip \notin raced => sys[op[e].cur.ip] = NoHash

HashInv == Meetings \subseteq raced /\ Emptied /\ NoMixedHash

IInv == Types /\ HistoryTypes /\ HashInv

\* Nothing but a HSET puts anything into a key.
LEMMA HashKept ==
  ASSUME IInv, OpTypes', raced \subseteq raced',
         \A i \in Ip : sys'[i] \in {sys[i], NoHash},
         \A f \in Op : NoNewHash(f) \/ sys'[op'[f].cur.ip] = NoHash
  PROVE  Emptied' /\ NoMixedHash'
<1>1. NoMixedHash'
  BY DEF IInv, HashInv, NoMixedHash
<1>2. ASSUME NEW f \in Op, op'[f].at = "hset", op'[f].cur.ip \notin raced'
      PROVE  sys'[op'[f].cur.ip] = NoHash
  <2>1. op'[f].cur.ip \in Ip
    BY <1>2 DEF OpTypes, Shape
  <2>2. CASE NoNewHash(f)
    <3>1. op[f].at = "hset" /\ op'[f].cur = op[f].cur /\ op[f].cur.ip \notin raced
      BY <1>2, <2>2 DEF NoNewHash
    <3>2. sys[op'[f].cur.ip] = NoHash
      BY <3>1 DEF IInv, HashInv, Emptied
    <3> QED BY <2>1, <3>2
  <2> QED BY <2>2
<1> QED BY <1>1, <1>2 DEF Emptied

\* A HSET finds its key empty, unless another request has met its own.
LEMMA HashSet ==
  ASSUME IInv, NEW e \in Op, SetHash(e), OpTypes', raced \subseteq raced',
         \A f \in Op : f # e => op'[f] = op[f]
  PROVE  Emptied' /\ NoMixedHash'
<1> DEFINE i == op[e].cur.ip
           h == op[e].info
<1>1. i \in Ip /\ h \in Info /\ h \in Hash /\ op[e].at = "hset"
  BY SpoolsAssumption DEF SetHash, At, IInv, Types, OpTypes, Shape
<1>2. sys' = [sys EXCEPT ![i] = Merge(@, h)] /\ sys \in [Ip -> Hash]
  BY DEF SetHash, IInv, Types, KeyTypes
<1>3. op'[e].at = "unlink"
  <2>1. op' = [op EXCEPT ![e] = [op[e] EXCEPT !.at = "unlink"]] /\ op \in [Op -> Requests]
    BY DEF SetHash, Goes, IInv, Types, OpTypes
  <2>2. op[e] \in Requests /\ "unlink" \in Where
    BY <2>1 DEF Where
  <2>3. [op[e] EXCEPT !.at = "unlink"].at = "unlink"
    BY <2>2, MoveTyped
  <2> QED BY <2>1, <2>3
<1>4. i \in Concerns(e) /\ Active(e)
  BY <1>1, SpoolsAssumption DEF Concerns, Active
<1> HIDE DEF i, h
<1>5. Merge(NoHash, h) = h
  BY <1>1 DEF Merge, NoHash, Hash
<1>6. i \notin raced => sys'[i] = h
  <2>1. i \notin raced => sys[i] = NoHash
    BY <1>1 DEF i, IInv, HashInv, Emptied
  <2> QED BY <1>1, <1>2, <1>5, <2>1
<1>7. \A k \in Ip : k # i => sys'[k] = sys[k]
  BY <1>2
<1>8. NoMixedHash'
  BY <1>1, <1>6, <1>7 DEF NoMixedHash, IInv, HashInv
<1>9. ASSUME NEW f \in Op, op'[f].at = "hset", op'[f].cur.ip \notin raced'
      PROVE  sys'[op'[f].cur.ip] = NoHash
  <2>1. f # e /\ op'[f] = op[f]
    BY <1>3, <1>9
  <2>2. op[f].at = "hset" /\ op[f].cur.ip \in Ip /\ op[f].cur.ip \notin raced
    BY <1>9, <2>1 DEF OpTypes, Shape
  <2>3. sys[op[f].cur.ip] = NoHash
    BY <2>2 DEF IInv, HashInv, Emptied
  <2>4. op[f].cur.ip \in Concerns(f) /\ Active(f)
    BY <2>2, SpoolsAssumption DEF Concerns, Active
  <2>5. op[f].cur.ip # i
    BY <1>4, <2>1, <2>2, <2>4, TheyMeet DEF IInv, HashInv
  <2> QED BY <1>7, <2>1, <2>2, <2>3, <2>5
<1> QED BY <1>8, <1>9 DEF Emptied

\* The steps of a request about a device, as to hashes.
LEMMA HashDevice ==
  ASSUME IInv, NEW e \in Op, DeviceStep(e), OpTypes', raced \subseteq raced',
         \A f \in Op : f # e => op'[f] = op[f]
  PROVE  Emptied' /\ NoMixedHash'
<1>0. op[e] \in Requests /\ op \in [Op -> Requests] /\ sys \in [Ip -> Hash] /\ Shape(op[e])
  BY DEF IInv, Types, OpTypes, KeyTypes
<1>1. \A f \in Op : f # e => NoNewHash(f)
  BY DEF NoNewHash
<1>2. ASSUME NEW w \in {"load", "unlink"}, Goes(e, [op[e] EXCEPT !.at = w]), UNCHANGED sys
      PROVE  Emptied' /\ NoMixedHash'
  <2>1. w \in Where
    BY DEF Where
  <2>2. op'[e].at = w
    BY <1>0, <1>2, <2>1, MoveTyped DEF Goes
  <2> QED BY <1>1, <1>2, <2>2, HashKept DEF NoNewHash
<1>3. ASSUME End(e), UNCHANGED sys PROVE Emptied' /\ NoMixedHash'
  <2>1. op'[e].at = "idle"
    BY <1>0, <1>3, NoOpTyped DEF End, Goes
  <2> QED BY <1>1, <1>3, <2>1, HashKept DEF NoNewHash
<1>4. CASE WriteDevice(e) \/ DropDevice(e)
  BY <1>2, <1>3, <1>4 DEF WriteDevice, DropDevice, keys
<1>5. CASE LoadDevice(e)
  <2>1. UNCHANGED sys
    BY <1>5 DEF LoadDevice, keys
  <2>2. CASE dev[op[e].on] = None
    BY <1>2, <1>5, <2>1, <2>2 DEF LoadDevice
  <2>3. CASE dev[op[e].on] # None
    <3> DEFINE r  == dev[op[e].on]
               w  == IF r.ip = None THEN "unlink" ELSE "del"
               q  == [op[e] EXCEPT !.at = w, !.cur = [ip |-> r.ip, gw |-> r.gw], !.info = r.info]
    <3>1. op' = [op EXCEPT ![e] = q]
      BY <1>5, <2>3 DEF LoadDevice, Goes
    <3>2. w # "hset" /\ q.at = w
      BY <1>0, RequestsAre
    <3> HIDE DEF q, w
    <3>3. op'[e].at # "hset"
      BY <1>0, <3>1, <3>2
    <3> QED BY <1>1, <2>1, <3>3, HashKept DEF NoNewHash
  <2> QED BY <2>2, <2>3
<1>6. CASE DelHash(e)
  <2>1. sys' = [sys EXCEPT ![op[e].cur.ip] = NoHash] /\ op[e].cur.ip \in Ip
    BY <1>0, <1>6 DEF DelHash, Shape, At
  <2>2. op' = [op EXCEPT ![e] = [op[e] EXCEPT !.at = "hset"]] /\ "hset" \in Where
    BY <1>6 DEF DelHash, Goes, Where
  <2>3. op'[e].cur = op[e].cur
    BY <1>0, <2>2, MoveTyped
  <2>4. sys'[op'[e].cur.ip] = NoHash /\ \A i \in Ip : sys'[i] \in {sys[i], NoHash}
    BY <1>0, <2>1, <2>3
  <2> QED BY <1>1, <2>4, HashKept
<1>7. CASE SetHash(e)
  BY <1>7, HashSet
<1>8. CASE UnlinkOld(e)
  <2>1. \A i \in Ip : sys'[i] \in {sys[i], NoHash}
    BY <1>0, <1>8 DEF UnlinkOld
  <2>2. ToSpool(e) \in GateSeq
    BY <1>0, ToSpoolTyped
  <2>3. op'[e].at # "hset"
    BY <1>0, <1>8, <2>2, AfterTyped DEF UnlinkOld, Goes, IInv, Types
  <2> QED BY <1>1, <2>1, <2>3, HashKept DEF NoNewHash
<1> QED BY <1>4, <1>5, <1>6, <1>7, <1>8 DEF DeviceStep

\* The steps about gateways leave the hashes alone.
LEMMA HashGateway ==
  ASSUME IInv, NEW e \in Op, GatewayStep(e), OpTypes', raced \subseteq raced',
         \A f \in Op : f # e => op'[f] = op[f]
  PROVE  Emptied' /\ NoMixedHash'
<1>0. op[e] \in Requests /\ op \in [Op -> Requests] /\ OpTypes /\ Shape(op[e])
  BY DEF IInv, Types, OpTypes
<1>1. \A f \in Op : f # e => NoNewHash(f)
  BY DEF NoNewHash
<1>2. UNCHANGED sys
  BY DEF GatewayStep, ReadGateway, ReadDevices, SetPsk, SetSite, SetNat, WriteGateway,
         SelectGateway, DropGateway, UnlinkGateway, keys
<1>3. op[e].at \in {"gate", "nat"} => Tail(op[e].todo) \in GateSeq
  BY <1>0, FieldsTyped, HeadTyped DEF Shape
<1>4. op'[e].at # "hset"
  <2>1. CASE ReadGateway(e)
    <3>1. op[e].at = "gate"
      BY <2>1 DEF ReadGateway, At
    <3>2. CASE Goes(e, After(e, Tail(op[e].todo)))
      BY <1>0, <1>3, <3>1, <3>2, AfterTyped DEF Goes
    <3>3. CASE Goes(e, [op[e] EXCEPT !.at = "devices", !.row = gate[Head(op[e].todo)]])
      BY <1>0, <3>3, RequestsAre DEF Goes
    <3> QED BY <2>1, <3>2, <3>3 DEF ReadGateway
  <2>2. CASE ReadDevices(e) \/ SetPsk(e) \/ SetSite(e) \/ WriteGateway(e) \/ SelectGateway(e)
    <3>1. CASE ReadDevices(e)
      BY <1>0, <3>1, RequestsAre DEF ReadDevices, Goes
    <3>2. CASE SetPsk(e) \/ SetSite(e)
      BY <1>0, <3>2, RequestsAre DEF SetPsk, SetSite, Goes
    <3>3. CASE WriteGateway(e)
      BY <1>0, <3>3, RequestsAre DEF WriteGateway, Goes
    <3>4. CASE SelectGateway(e)
      BY <1>0, <3>4, RequestsAre DEF SelectGateway, Goes
    <3> QED BY <2>2, <3>1, <3>2, <3>3, <3>4
  <2>3. CASE SetNat(e)
    <3>1. op[e].at = "nat" /\ op[e].row.ip \in AddrSet
      BY <1>0, <2>3 DEF SetNat, At, Shape, AddrSet
    <3> DEFINE next == After(e, Tail(op[e].todo))
               q == IF next.at = "stale" THEN [next EXCEPT !.cur.ip = op[e].row.ip] ELSE next
    <3>2. op' = [op EXCEPT ![e] = q]
      BY <2>3 DEF SetNat, Goes
    <3>3. /\ next.at \in {"gate", "stale", "idle"}
          /\ next.at = "stale" => [next EXCEPT !.cur.ip = op[e].row.ip].at = "stale"
      BY <1>0, <1>3, <3>1, AfterTyped
    <3> HIDE DEF next
    <3>4. q.at # "hset"
      BY <3>3
    <3> HIDE DEF q
    <3> QED BY <1>0, <3>2, <3>4
  <2>4. CASE DropGateway(e) \/ UnlinkGateway(e)
    <3>1. CASE End(e)
      BY <1>0, <3>1, NoOpTyped DEF End, Goes
    <3>2. CASE Goes(e, [op[e] EXCEPT !.at = "stale"])
      BY <1>0, <3>2, RequestsAre DEF Goes
    <3> QED BY <2>4, <3>1, <3>2 DEF DropGateway, UnlinkGateway
  <2> QED BY <2>1, <2>2, <2>3, <2>4 DEF GatewayStep
<1> QED BY <1>1, <1>2, <1>4, HashKept DEF NoNewHash

--------------------------------------------------------------------------------
(* The invariant *)

\* The imported tables and no keys.
LEMMA SpoolsInit == Init => IInv
<1> SUFFICES ASSUME Init PROVE IInv
  OBVIOUS
<1>1. \A e \in Op : op[e] = NoOp
  BY DEF Init
<1>2. OpTypes
  BY <1>1, NoOpTyped DEF Init, OpTypes
<1>3. NoHash \in Hash
  BY DEF NoHash, Hash
<1>4. Types
  BY <1>2, <1>3, SpoolsAssumption DEF Init, Types, TableTypes, KeyTypes, CountTypes
<1>5. HistoryTypes
  BY <1>4, MeetingsTyped DEF Init, HistoryTypes, Types
<1>6. Meetings = {}
  BY <1>1, NoOpTyped DEF Meetings, Active
<1>7. HashInv
  BY <1>1, <1>6, NoOpTyped DEF Init, HashInv, Emptied, NoMixedHash
<1> QED BY <1>4, <1>5, <1>7 DEF IInv

\* What is remembered of a step that keeps the types.
LEMMA RememberTyped ==
  ASSUME IInv, NEW e \in Op, Remember(e), Types', Meetings' \subseteq Ip \cup Pub,
         Doubles' \subseteq Ip \cup Pub
  PROVE  HistoryTypes' /\ raced \subseteq raced' /\ Meetings' \subseteq raced'
<1>1. Concerns(e) \subseteq Ip \cup Pub
  BY ConcernsTyped DEF IInv, Types
<1> QED BY <1>1 DEF Remember, HistoryTypes, IInv

\* Every step of every request keeps the invariant.
LEMMA SpoolsStep == IInv /\ [Next]_vars => IInv'
<1> SUFFICES ASSUME IInv, [Next]_vars PROVE IInv'
  OBVIOUS
<1>2. CASE UNCHANGED vars
  <2>1. Types' /\ HistoryTypes'
    BY <1>2 DEF vars, tables, keys, history, IInv, Types, TableTypes, OpTypes, KeyTypes,
                CountTypes, HistoryTypes
  <2>2. Meetings' = Meetings
    BY <1>2 DEF vars, tables, Meetings, Concerns, Gates, RowOf, Active
  <2>3. HashInv'
    BY <1>2, <2>2 DEF vars, keys, history, IInv, HashInv, Emptied, NoMixedHash
  <2> QED BY <2>1, <2>3 DEF IInv
<1>3. ASSUME NEW e \in Op, Remember(e),
             DeviceRequest(e) \/ GatewayRequest(e) \/ DeviceStep(e) \/ GatewayStep(e) \/ Fail(e)
      PROVE  IInv'
  <2>0. Types
    BY DEF IInv
  <2>1. Types'
    BY <1>3, <2>0, DeviceRequestTyped, GatewayRequestTyped, DeviceStepTyped, SpoolStepTyped,
       GatewayStepTyped, FailTyped DEF GatewayStep
  <2>2. HistoryTypes' /\ raced \subseteq raced' /\ Meetings' \subseteq raced'
    BY <1>3, <2>1, MeetingsTypedNext, RememberTyped DEF Types, MeetAtAddress
  <2>3. OpTypes'
    BY <2>1 DEF Types
  <2>4. CASE DeviceRequest(e) \/ GatewayRequest(e)
    <3>1. UNCHANGED sys /\ \A f \in Op : NoNewHash(f)
      BY <2>0, <2>4, DeviceRequestTyped, GatewayRequestTyped DEF keys
    <3> QED BY <2>1, <2>2, <2>3, <3>1, HashKept DEF IInv, HashInv
  <2>5. CASE DeviceStep(e)
    <3>1. \A f \in Op : f # e => op'[f] = op[f]
      BY <2>0, <2>5, DeviceStepTyped
    <3> QED BY <2>1, <2>2, <2>3, <2>5, <3>1, HashDevice DEF IInv, HashInv
  <2>6. CASE GatewayStep(e)
    <3>1. \A f \in Op : f # e => op'[f] = op[f]
      BY <2>0, <2>6, SpoolStepTyped, GatewayStepTyped DEF GatewayStep
    <3> QED BY <2>1, <2>2, <2>3, <2>6, <3>1, HashGateway DEF IInv, HashInv
  <2>7. CASE Fail(e)
    <3>1. op'[e] = NoOp /\ \A f \in Op : f # e => op'[f] = op[f]
      BY <2>0, <2>7, FailTyped
    <3>2. UNCHANGED sys /\ \A f \in Op : NoNewHash(f)
      BY <2>7, <3>1, NoOpTyped DEF Fail, keys, NoNewHash
    <3> QED BY <2>1, <2>2, <2>3, <3>2, HashKept DEF IInv, HashInv
  <2> QED BY <1>3, <2>4, <2>5, <2>6, <2>7
<1> QED BY <1>2, <1>3 DEF Next

--------------------------------------------------------------------------------
(* Theorems *)

\* The invariant holds in every reachable state.
THEOREM SpoolsInvariant == Spec => []IInv
BY SpoolsInit, SpoolsStep, PTL DEF Spec

\* Tables, keys and requests keep their types for every instance, and no key of a gateway ever
\* lists a device without an address.
THEOREM SpoolsTypes == Spec => []TypeOK
<1>1. IInv => TypeOK
  BY DEF IInv, Types, TableTypes, OpTypes, KeyTypes, CountTypes, HistoryTypes, TypeOK
<1> QED BY <1>1, SpoolsInvariant, PTL

\* For every number of requests under way, edits and failures: a key that no two requests have
\* concerned at the same time is empty or the hash of one row.
THEOREM NoMixedHashHolds == Spec => []NoMixedHash
<1>1. IInv => NoMixedHash
  BY DEF IInv, HashInv
<1> QED BY <1>1, SpoolsInvariant, PTL

--------------------------------------------------------------------------------
(***************************************************************************)
(* DeviceKeys: the key of an address is a projection of the table wherever  *)
(* no request is under way.                                                 *)
(*                                                                         *)
(* At an address that no two requests have concerned together, at most one  *)
(* request may have left table and key apart.  Pending says, for each place *)
(* of that request, what is still to be made good and why the steps to come *)
(* will do it; Settled is what holds when none is under way.                *)
(***************************************************************************)

\* The places of a request that is spooling a gateway.
Spooling == {"gate", "devices", "psk", "site", "nat"}

\* Requests about gateways concern no address of a device.
Kinds(q) ==
    /\ q.at # "idle" => q.on \in Device \cup Gateway
    /\ q.at = "unlink" => q.on \in Device
    /\ q.at = "stale" => q.on \in Gateway
    /\ q.at \in {"update", "delete", "load"} => q.cur.ip \notin Ip
    /\ q.on \in Gateway => /\ q.prev.ip \notin Ip /\ q.cur.ip \notin Ip
                           /\ q.new # None => q.new.ip \notin Ip

KTypes == \A e \in Op : Kinds(op[e])

\* The request may still read or change the address or its key.
Mine(e, i) ==
    /\ Active(e) /\ op[e].on \in Device
    /\ \/ op[e].prev.ip = i \/ op[e].cur.ip = i
       \/ op[e].new # None /\ op[e].new.ip = i
       \/ op[e].on \in Owners(i)

Settled(i) ==
    IF Owners(i) = {} THEN sys[i] = NoHash
    ELSE \A d \in Owners(i) : sys[i] = dev[d].info \/ (d \notin saved /\ sys[i] = NoHash)

\* Until it is written the row is as the request read it; from then until HSET the key is its
\* own to rewrite, or its own to remove until UNLINK; afterwards nothing is left to do.
Pending(e, i) ==
    LET q == op[e]  d == op[e].on IN
    /\ q.prev.ip = i => Owners(i) \subseteq {d}
    /\ q.at \in {"update", "delete"} => Settled(i) /\ (d \in Owners(i) => q.prev.ip = i)
    /\ q.at = "load" =>
          IF d \in Owners(i) THEN d \in saved ELSE q.prev.ip # i => Settled(i)
    /\ q.at \in {"del", "hset"} =>
          IF q.cur.ip = i
          THEN /\ d \in Owners(i) /\ d \in saved /\ q.info = dev[d].info
               /\ q.at = "hset" => sys[i] = NoHash
          ELSE d \notin Owners(i) /\ (q.prev.ip # i => Settled(i))
    /\ q.at = "unlink" => IF q.prev.ip = i /\ q.cur.ip # i THEN d \notin Owners(i) ELSE Settled(i)
    /\ q.at \in Spooling => Settled(i)

KeyOk(i) ==
    /\ \A e \in Op : Mine(e, i) => Pending(e, i)
    /\ (\A e \in Op : ~Mine(e, i)) => Settled(i)

KeyInv ==
    /\ IInv /\ KTypes
    /\ Doubles \subseteq shared
    /\ \A i \in Ip \ Suspect : KeyOk(i)

--------------------------------------------------------------------------------
(* What the histories say *)

Facts ==
    /\ \A i \in Ip, e \in Op : Mine(e, i) <=> Active(e) /\ i \in Concerns(e)
    /\ \A i \in Ip \ raced : \A e, f \in Op : Mine(e, i) /\ Mine(f, i) => e = f
    /\ \A i \in Ip \ shared : \A c, d \in Owners(i) : c = d

\* Of the addresses a request concerns, those of devices are the ones it has read, will write
\* or finds in its row now.
LEMMA MineIs ==
  ASSUME TableTypes, OpTypes, KTypes, NEW i \in Ip, NEW e \in Op
  PROVE  Mine(e, i) <=> Active(e) /\ i \in Concerns(e)
<1>1. op[e] \in Requests /\ Shape(op[e]) /\ Kinds(op[e])
  BY DEF OpTypes, KTypes
<1>2. i # None /\ i \notin Pub /\ Device \cap Gateway = {}
  BY SpoolsAssumption
<1>3. op[e].row # None => op[e].row.ip \in Pub \cup {None}
  BY <1>1, FieldsTyped DEF RowSet, GatewayRow
<1>4. Gates(e) \subseteq Gateway
  <2>1. CASE op[e].on \in Gateway
    BY <2>1 DEF Gates
  <2>2. CASE op[e].on \notin Gateway
    <3>1. op[e].new \in DeviceRow \cup {None} /\ op[e].on \in Subject
      BY <1>1, <2>2, FieldsTyped DEF Shape
    <3>2. RowOf(op[e].on) \in DeviceRow \cup {None}
      BY <3>1, <2>2 DEF RowOf, Subject, TableTypes
    <3>3. \A r \in {op[e].new, RowOf(op[e].on)} \ {None} : r.gw \in Gateway \cup {None}
      BY <3>1, <3>2 DEF DeviceRow
    <3>4. op[e].prev.gw \in Gateway \cup {None} /\ op[e].cur.gw \in Gateway \cup {None}
      BY <1>1, FieldsTyped DEF GateSet
    <3> QED BY <2>2, <3>3, <3>4 DEF Gates
  <2> QED BY <2>1, <2>2
<1>5. i \notin {gate[g].ip : g \in {h \in Gates(e) : gate[h] # None}}
  BY <1>2, <1>4, RowsTyped
<1>6. i \in Concerns(e) <=>
        \/ op[e].prev.ip = i \/ op[e].cur.ip = i
        \/ op[e].new # None /\ op[e].new.ip = i
        \/ RowOf(op[e].on) # None /\ RowOf(op[e].on).ip = i
  BY <1>2, <1>3, <1>5 DEF Concerns
<1>7. CASE op[e].on \in Device
  <2>1. RowOf(op[e].on) = dev[op[e].on]
    BY <1>7 DEF RowOf
  <2> QED BY <1>6, <1>7, <2>1 DEF Mine, Owners
<1>8. CASE op[e].on \in Gateway
  <2>1. RowOf(op[e].on) = gate[op[e].on] /\ op[e].on \notin Device
    BY <1>2, <1>8 DEF RowOf
  <2>2. ~(RowOf(op[e].on) # None /\ RowOf(op[e].on).ip = i)
    BY <1>2, <1>8, <2>1, RowsTyped
  <2> QED BY <1>1, <1>6, <1>8, <2>1, <2>2 DEF Mine, Kinds
<1>9. CASE ~Active(e)
  BY <1>9 DEF Mine
<1> QED BY <1>1, <1>7, <1>8, <1>9 DEF Kinds, Active

\* At most one request concerns an address that is not remembered as raced, and at most one row
\* has one that is not remembered as shared.
LEMMA FactsHold == IInv /\ KTypes /\ Doubles \subseteq shared => Facts
<1> SUFFICES ASSUME IInv, KTypes, Doubles \subseteq shared PROVE Facts
  OBVIOUS
<1>1. \A i \in Ip, e \in Op : Mine(e, i) <=> Active(e) /\ i \in Concerns(e)
  BY MineIs DEF IInv, Types
<1>2. ASSUME NEW i \in Ip \ raced, NEW e \in Op, NEW f \in Op, Mine(e, i), Mine(f, i), e # f
      PROVE  FALSE
  <2>1. i \in Meetings
    BY <1>1, <1>2, TheyMeet
  <2> QED BY <1>2, <2>1 DEF IInv, HashInv
<1>3. \A i \in Ip \ shared : \A c, d \in Owners(i) : c = d
  BY DEF Doubles
<1> QED BY <1>1, <1>2, <1>3 DEF Facts

\* The same after a step.
LEMMA FactsNext == IInv' /\ KTypes' /\ (Doubles \subseteq shared)' => Facts'
BY FactsHold, PTL

--------------------------------------------------------------------------------
(* What a step does to an address *)

SameFields(p, q) ==
    /\ p.at = q.at /\ p.on = q.on /\ p.new = q.new /\ p.prev = q.prev /\ p.cur = q.cur
    /\ p.info = q.info /\ p.todo = q.todo /\ p.row = q.row /\ p.ips = q.ips

\* The step gives the request e the fields of q and leaves the others their own.
Becomes(e, q) == SameFields(op'[e], q) /\ \A f \in Op : f # e => SameFields(op'[f], op[f])

SameAt(i) ==
    /\ sys'[i] = sys[i] /\ Owners(i)' = Owners(i)
    /\ \A d \in Owners(i) : dev'[d] = dev[d] /\ (d \in saved' <=> d \in saved)

\* What is settled, concerned or pending depends on the address and the request alone.
LEMMA SameSettled ==
  ASSUME NEW i \in Ip, SameAt(i) PROVE Settled(i)' <=> Settled(i)
BY DEF SameAt, Settled

\* What a request still owes an address does not change with what is elsewhere.
LEMMA SameMine ==
  ASSUME NEW i \in Ip, SameAt(i), NEW f \in Op, SameFields(op'[f], op[f])
  PROVE  (Mine(f, i)' <=> Mine(f, i)) /\ (Pending(f, i) => Pending(f, i)')
<1>1. Owners(i)' = Owners(i) /\ sys'[i] = sys[i] /\ (Settled(i)' <=> Settled(i))
  BY SameSettled DEF SameAt
<1>2. \A d \in Owners(i) : dev'[d] = dev[d] /\ (d \in saved' <=> d \in saved)
  BY DEF SameAt
<1> QED BY <1>1, <1>2 DEF SameFields, Mine, Active, Pending

\* A step of a request that does not concern the address.
LEMMA Elsewhere ==
  ASSUME NEW i \in Ip, NEW e \in Op, KeyOk(i), SameAt(i), ~Mine(e, i), ~Mine(e, i)',
         \A f \in Op : f # e => SameFields(op'[f], op[f])
  PROVE  KeyOk(i)'
<1>1. \A f \in Op : f # e => (Mine(f, i)' <=> Mine(f, i)) /\ (Pending(f, i) => Pending(f, i)')
  BY SameMine
<1> QED BY <1>1, SameSettled DEF KeyOk

\* A step of the request that concerns the address: no other does, before or after it.
LEMMA OwnStep ==
  ASSUME Facts, Facts', raced \subseteq raced', NEW i \in Ip, i \notin raced',
         NEW e \in Op, Mine(e, i), \A f \in Op : f # e => SameFields(op'[f], op[f]),
         Owners(i)' \subseteq Owners(i) \/ Mine(e, i)',
         Mine(e, i)' => Pending(e, i)', ~Mine(e, i)' => Settled(i)'
  PROVE  KeyOk(i)'
<1>1. ASSUME NEW f \in Op, f # e PROVE ~Mine(f, i)'
  <2>1. CASE Mine(e, i)'
    BY <1>1, <2>1 DEF Facts
  <2>2. CASE ~Mine(e, i)'
    <3>1. ~Mine(f, i)
      BY <1>1 DEF Facts
    <3> QED BY <1>1, <2>2, <3>1 DEF Mine, Active, SameFields
  <2> QED BY <2>1, <2>2
<1> QED BY <1>1 DEF KeyOk

\* A request that begins to concern an address finds it settled.
LEMMA BeginsAt ==
  ASSUME Facts', NEW i \in Ip, i \notin raced', KeyOk(i),
         NEW e \in Op, Mine(e, i)', ~Active(e), \A f \in Op : f # e => SameFields(op'[f], op[f]),
         Owners(i) \subseteq Owners(i)'
  PROVE  Settled(i) /\ (Pending(e, i)' => KeyOk(i)')
<1>1. ASSUME NEW f \in Op, f # e PROVE ~Mine(f, i)' /\ ~Mine(f, i)
  <2>1. ~Mine(f, i)'
    BY <1>1 DEF Facts
  <2> QED BY <1>1, <2>1 DEF Mine, Active, SameFields
<1>2. ~Mine(e, i)
  BY DEF Mine
<1> QED BY <1>1, <1>2 DEF KeyOk

--------------------------------------------------------------------------------
(* The fields a step gives its request *)

\* A request that begins runs alone if no other does, and the others no longer do.
Alone(e) ==
    /\ op'[e].alone => \A f \in Op : f # e => ~Active(f)
    /\ \A f \in Op : f # e => ~op'[f].alone

\* Only the mark that it ran alone is taken from the others when a request begins.
LEMMA BeginBecomes ==
  ASSUME OpTypes, NEW e \in Op, NEW q \in Requests, Begin(e, q)
  PROVE  Becomes(e, q) /\ UNCHANGED keys /\ ~Active(e) /\ Alone(e)
<1>1. \A p \in Requests, b \in BOOLEAN : SameFields([p EXCEPT !.alone = b], p)
  BY RequestsAre DEF SameFields
<1>0. \A p \in Requests, b \in BOOLEAN : [p EXCEPT !.alone = b].alone = b
  BY RequestsAre
<1> DEFINE b == \A x \in Op \ {e} : ~Active(x)
<1>2. op' = [f \in Op |-> IF f = e THEN [q EXCEPT !.alone = b] ELSE [op[f] EXCEPT !.alone = FALSE]]
  BY DEF Begin
<1>3. b \in BOOLEAN
  OBVIOUS
<1> HIDE DEF b
<1>4. \A f \in Op : op'[f] = IF f = e THEN [q EXCEPT !.alone = b] ELSE [op[f] EXCEPT !.alone = FALSE]
  BY <1>2
<1>5. SameFields(op'[e], q) /\ \A f \in Op : f # e => SameFields(op'[f], op[f])
  BY <1>1, <1>3, <1>4 DEF OpTypes
<1>6. op'[e].alone = b /\ \A f \in Op : f # e => op'[f].alone = FALSE
  <2>1. op'[e].alone = b
    BY <1>0, <1>3, <1>4
  <2>2. ASSUME NEW f \in Op, f # e PROVE op'[f].alone = FALSE
    <3>1. op[f] \in Requests /\ FALSE \in BOOLEAN
      BY DEF OpTypes
    <3>2. op'[f] = [op[f] EXCEPT !.alone = FALSE]
      BY <1>4, <2>2
    <3> QED BY <1>0, <3>1, <3>2
  <2> QED BY <2>1, <2>2
<1>7. Alone(e)
  <2>1. b => \A f \in Op : f # e => ~Active(f)
    BY DEF b
  <2>2. op'[e].alone => b
    BY <1>6
  <2>3. \A f \in Op : f # e => ~op'[f].alone
    BY <1>6
  <2> QED BY <2>1, <2>2, <2>3 DEF Alone
<1> QED BY <1>5, <1>7 DEF Becomes, Begin, At, Active, keys

\* A step that moves its request on gives it the fields it says.
LEMMA GoesBecomes ==
  ASSUME OpTypes, NEW e \in Op, NEW q, Goes(e, q) PROVE op'[e] = q /\ Becomes(e, q)
BY DEF OpTypes, Goes, Becomes, SameFields

\* A request about a device begins with the row it has read, or with the row it has made.
Reads(e) ==
    /\ op'[e].at \in {"update", "delete"} /\ op'[e].on \in Device
    /\ dev[op'[e].on] # None
    /\ op'[e].prev.ip = dev[op'[e].on].ip /\ op'[e].prev.gw = dev[op'[e].on].gw
    /\ op'[e].at = "update" => (op'[e].new.gw # None => gate[op'[e].new.gw] # None)
    /\ op'[e].at = "delete" => op'[e].new = None
    /\ UNCHANGED <<dev, saved>>

Makes(e) ==
    /\ op'[e].at = "load" /\ op'[e].on \in Device /\ op'[e].new \in DeviceRow
    /\ op'[e].prev.ip = None /\ op'[e].prev.gw = None /\ dev[op'[e].on] = None
    /\ dev' = [dev EXCEPT ![op'[e].on] = op'[e].new]
    /\ saved' = saved \cup {op'[e].on}

\* What a request about a device begins with.
LEMMA DeviceRequestEffect ==
  ASSUME Types, NEW e \in Op, DeviceRequest(e)
  PROVE  /\ ~Active(e) /\ UNCHANGED <<keys, gate>> /\ Alone(e)
         /\ op'[e].cur = [ip |-> None, gw |-> None] /\ op'[e].row = None
         /\ op'[e].new \in DeviceRow \cup {None}
         /\ \A f \in Op : f # e => SameFields(op'[f], op[f])
         /\ Reads(e) \/ Makes(e)
<1> USE DEF Types
<1>0. PICK d \in Device : DeleteDevice(e, d)
                     \/ \E r \in DeviceRow : UpdateDevice(e, d, r) \/ CreateDevice(e, d, r)
  BY DEF DeviceRequest
<1> DEFINE pl == [ip |-> dev[d].ip, gw |-> dev[d].gw]
<1>1. dev[d] # None => pl \in Place
  BY RowsTyped DEF Place, AddrSet
<1>2. CASE DeleteDevice(e, d)
  <2> DEFINE q == [NoOp EXCEPT !.at = "delete", !.on = d, !.prev = pl]
  <2>1. Begin(e, q) /\ dev[d] # None /\ UNCHANGED <<dev, saved, gate>>
    BY <1>2 DEF DeleteDevice, tables
  <2>2. /\ q \in Requests /\ q.at = "delete" /\ q.on = d /\ q.new = None /\ q.prev = pl
        /\ q.cur = [ip |-> None, gw |-> None] /\ q.row = None
    BY <1>1, <2>1, NoOpTyped, RequestsAre DEF Where, Subject, NoOp
  <2> HIDE DEF q
  <2> QED BY <2>1, <2>2, BeginBecomes DEF Becomes, SameFields, Reads
<1>3. ASSUME NEW r \in DeviceRow, UpdateDevice(e, d, r)
      PROVE  /\ ~Active(e) /\ UNCHANGED <<keys, gate>> /\ Alone(e)
             /\ op'[e].cur = [ip |-> None, gw |-> None] /\ op'[e].row = None
             /\ op'[e].new \in DeviceRow \cup {None}
             /\ \A f \in Op : f # e => SameFields(op'[f], op[f])
             /\ Reads(e)
  <2> DEFINE q == [NoOp EXCEPT !.at = "update", !.on = d, !.new = r, !.prev = pl]
  <2>1. /\ Begin(e, q) /\ dev[d] # None /\ UNCHANGED <<dev, saved, gate>>
        /\ r.gw # None => gate[r.gw] # None
    BY <1>3 DEF UpdateDevice, tables
  <2>2. /\ q \in Requests /\ q.at = "update" /\ q.on = d /\ q.new = r /\ q.prev = pl
        /\ q.cur = [ip |-> None, gw |-> None] /\ q.row = None
    BY <1>1, <2>1, NoOpTyped, RequestsAre DEF Where, Subject, NewRow, NoOp
  <2> HIDE DEF q
  <2> QED BY <2>1, <2>2, BeginBecomes DEF Becomes, SameFields, Reads
<1>4. ASSUME NEW r \in DeviceRow, CreateDevice(e, d, r)
      PROVE  /\ ~Active(e) /\ UNCHANGED <<keys, gate>> /\ Alone(e)
             /\ op'[e].cur = [ip |-> None, gw |-> None] /\ op'[e].row = None
             /\ op'[e].new \in DeviceRow \cup {None}
             /\ \A f \in Op : f # e => SameFields(op'[f], op[f])
             /\ Makes(e)
  <2> DEFINE q == [NoOp EXCEPT !.at = "load", !.on = d, !.new = r]
  <2>1. /\ Begin(e, q) /\ dev[d] = None
        /\ dev' = [dev EXCEPT ![d] = r] /\ saved' = saved \cup {d} /\ UNCHANGED gate
    BY <1>4 DEF CreateDevice
  <2>2. /\ q \in Requests /\ q.at = "load" /\ q.on = d /\ q.new = r
        /\ q.prev = [ip |-> None, gw |-> None] /\ q.cur = [ip |-> None, gw |-> None] /\ q.row = None
    BY NoOpTyped, RequestsAre DEF Where, Subject, NewRow, NoOp
  <2> HIDE DEF q
  <2>3. /\ SameFields(op'[e], q) /\ \A f \in Op : f # e => SameFields(op'[f], op[f])
        /\ ~Active(e) /\ UNCHANGED keys /\ Alone(e)
    BY <2>1, <2>2, BeginBecomes DEF Becomes
  <2>4. /\ op'[e].at = "load" /\ op'[e].on = d /\ op'[e].new = r
        /\ op'[e].prev = [ip |-> None, gw |-> None] /\ op'[e].cur = [ip |-> None, gw |-> None]
        /\ op'[e].row = None
    BY <2>2, <2>3 DEF SameFields
  <2> QED BY <2>1, <2>3, <2>4 DEF Makes
<1> QED BY <1>0, <1>2, <1>3, <1>4

\* A request about a gateway begins with the address it has read, with a row it has made, or with
\* nothing yet.
Asks(e) ==
    /\ op'[e].at = "gselect" /\ op'[e].prev.ip = None /\ op'[e].new = None
    /\ Attached(op'[e].on) = {} /\ UNCHANGED <<gate, saved>>

ReadsGate(e) ==
    /\ op'[e].at = "gupdate" /\ gate[op'[e].on] # None
    /\ op'[e].prev.ip = gate[op'[e].on].ip /\ op'[e].new \in GatewayRow
    /\ UNCHANGED <<gate, saved>>

MakesGate(e) ==
    /\ op'[e].at = "gate" /\ op'[e].todo = <<op'[e].on>> /\ op'[e].new \in GatewayRow
    /\ op'[e].prev.ip = None /\ gate[op'[e].on] = None
    /\ gate' = [gate EXCEPT ![op'[e].on] = op'[e].new]
    /\ saved' = saved \cup {op'[e].on}

\* What a request about a gateway begins with.
LEMMA GatewayRequestFields ==
  ASSUME Types, NEW e \in Op, GatewayRequest(e)
  PROVE  /\ ~Active(e) /\ UNCHANGED <<keys, dev>> /\ Alone(e)
         /\ op'[e].on \in Gateway /\ op'[e].new \in GatewayRow \cup {None}
         /\ op'[e].cur.ip = None /\ op'[e].row = None
         /\ \A f \in Op : f # e => SameFields(op'[f], op[f])
         /\ Asks(e) \/ ReadsGate(e) \/ MakesGate(e)
<1> USE DEF Types
<1>0. PICK g \in Gateway : DeleteGateway(e, g)
                     \/ \E r \in GatewayRow : UpdateGateway(e, g, r) \/ CreateGateway(e, g, r)
  BY DEF GatewayRequest
<1>1. gate[g] # None => gate[g].ip \in AddrSet
  BY RowsTyped DEF AddrSet
<1>2. CASE DeleteGateway(e, g)
  <2> DEFINE q == [NoOp EXCEPT !.at = "gselect", !.on = g]
  <2>1. Begin(e, q) /\ UNCHANGED <<dev, saved, gate>> /\ Attached(g) = {}
    BY <1>2 DEF DeleteGateway, tables
  <2>2. /\ q \in Requests /\ q.at = "gselect" /\ q.on = g /\ q.new = None /\ q.prev.ip = None
        /\ q.cur.ip = None /\ q.row = None
    BY NoOpTyped, RequestsAre DEF Where, Subject, NoOp
  <2> HIDE DEF q
  <2> QED BY <2>1, <2>2, BeginBecomes DEF Becomes, SameFields, Asks
<1>3. ASSUME NEW r \in GatewayRow, UpdateGateway(e, g, r)
      PROVE  /\ ~Active(e) /\ UNCHANGED <<keys, dev>> /\ Alone(e)
             /\ op'[e].on \in Gateway /\ op'[e].new \in GatewayRow
             /\ op'[e].cur.ip = None /\ op'[e].row = None
             /\ \A f \in Op : f # e => SameFields(op'[f], op[f])
             /\ ReadsGate(e)
  <2> DEFINE x == gate[g].ip
             q == [NoOp EXCEPT !.at = "gupdate", !.on = g, !.new = r, !.prev.ip = x]
  <2>1. Begin(e, q) /\ UNCHANGED <<dev, saved, gate>> /\ gate[g] # None
    BY <1>3 DEF UpdateGateway, tables
  <2>2. x \in AddrSet /\ x = gate[g].ip
    BY <1>1, <2>1
  <2> HIDE DEF x
  <2>3. /\ q \in Requests /\ q.at = "gupdate" /\ q.on = g /\ q.new = r /\ q.prev.ip = x
        /\ q.cur.ip = None /\ q.row = None
    BY <2>2, NoOpTyped, RequestsAre DEF Where, Subject, NewRow, Place, NoOp
  <2> HIDE DEF q
  <2> QED BY <2>1, <2>2, <2>3, BeginBecomes DEF Becomes, SameFields, ReadsGate
<1>4. ASSUME NEW r \in GatewayRow, CreateGateway(e, g, r)
      PROVE  /\ ~Active(e) /\ UNCHANGED <<keys, dev>> /\ Alone(e)
             /\ op'[e].on \in Gateway /\ op'[e].new \in GatewayRow
             /\ op'[e].cur.ip = None /\ op'[e].row = None
             /\ \A f \in Op : f # e => SameFields(op'[f], op[f])
             /\ MakesGate(e)
  <2> DEFINE q == [NoOp EXCEPT !.at = "gate", !.on = g, !.new = r, !.todo = <<g>>]
  <2>1. /\ Begin(e, q) /\ UNCHANGED dev /\ gate[g] = None
        /\ gate' = [gate EXCEPT ![g] = r] /\ saved' = saved \cup {g}
    BY <1>4 DEF CreateGateway
  <2>2. /\ q \in Requests /\ q.at = "gate" /\ q.on = g /\ q.new = r /\ q.prev.ip = None
        /\ q.cur.ip = None /\ q.row = None /\ q.todo = <<g>>
    <3>1. <<g>> \in GateSeq
      BY DEF GateSeq
    <3> QED BY <3>1, NoOpTyped, RequestsAre DEF Where, Subject, NewRow, NoOp
  <2> HIDE DEF q
  <2> QED BY <2>1, <2>2, BeginBecomes DEF Becomes, SameFields, MakesGate
<1> QED BY <1>0, <1>2, <1>3, <1>4

\* It has no address of a device.
LEMMA GatewayRequestEffect ==
  ASSUME Types, NEW e \in Op, GatewayRequest(e)
  PROVE  /\ ~Active(e) /\ UNCHANGED <<sys, dev>>
         /\ \A d \in Device : d \in saved' <=> d \in saved
         /\ op'[e].on \in Gateway /\ Kinds(op'[e])
         /\ \A f \in Op : f # e => SameFields(op'[f], op[f])
<1>1. /\ \A r \in GatewayRow : r.ip \notin Ip
      /\ None \notin Ip /\ Device \cap Gateway = {}
      /\ \A g \in Gateway : gate[g] # None => gate[g].ip \notin Ip
  BY SpoolsAssumption, RowsTyped DEF GatewayRow, Types
<1>2. Kinds(op'[e])
  BY <1>1, GatewayRequestFields DEF Kinds, Asks, ReadsGate, MakesGate
<1>3. \A d \in Device : d \in saved' <=> d \in saved
  BY <1>1, GatewayRequestFields DEF Asks, ReadsGate, MakesGate
<1> QED BY <1>2, <1>3, GatewayRequestFields DEF keys

SameRead(p, q) == p.on = q.on /\ p.new = q.new /\ p.prev = q.prev /\ p.cur = q.cur

\* What follows a gateway keeps what the request has read, or ends a request about a device.
LEMMA AfterFields ==
  ASSUME NEW e \in Op, op[e] \in Requests, NEW todo \in GateSeq
  PROVE  LET r == After(e, todo) IN
         \/ op[e].on \notin Gateway /\ r = NoOp
         \/ r \in Requests /\ r.at = "gate" /\ SameRead(r, op[e])
         \/ op[e].on \in Gateway /\ r \in Requests /\ r.at = "stale" /\ SameRead(r, op[e])
<1> DEFINE q(w, t) == [op[e] EXCEPT !.at = w, !.todo = t, !.row = None, !.ips = {}]
<1>1. None \in RowSet /\ {} \in IpSets /\ <<>> \in GateSeq
  BY DEF RowSet, IpSets, GateSeq
<1>2. \A w \in Where, t \in GateSeq :
          q(w, t) \in Requests /\ q(w, t).at = w /\ SameRead(q(w, t), op[e])
  BY <1>1, RequestsAre DEF SameRead
<1>3. /\ todo # <<>> => After(e, todo) = q("gate", todo)
      /\ todo = <<>> /\ op[e].on \in Gateway => After(e, todo) = q("stale", <<>>)
      /\ todo = <<>> /\ op[e].on \notin Gateway => After(e, todo) = NoOp
  BY DEF After
<1>4. "gate" \in Where /\ "stale" \in Where
  BY DEF Where
<1> HIDE DEF q
<1> QED BY <1>1, <1>2, <1>3, <1>4

\* A request that has the fields of another is of its kind.
LEMMA SameKind ==
  ASSUME NEW p, NEW q, Kinds(q), SameRead(p, q), q.on \in Device \cup Gateway,
         p.at \in Spooling \/ (p.at \in {"stale", "gdelete", "gselect"} /\ q.on \in Gateway)
  PROVE  Kinds(p)
BY DEF Kinds, SameRead, Spooling

\* The steps about gateways, as to addresses of devices.
GateMove(e) ==
    \/ op[e].on \in Gateway /\ op'[e].on \in Gateway \cup {None}
    \/ /\ op[e].on \in Device /\ op[e].at \in Spooling
       /\ op'[e] = NoOp \/ (op'[e].at \in Spooling /\ SameRead(op'[e], op[e]))

\* A request that has ended concerns nothing.
LEMMA NoOpKind == Kinds(NoOp) /\ NoOp.on = None
BY NoOpTyped, SpoolsAssumption DEF Kinds, NoOp

\* Spooling a gateway changes nothing of the request but its place and its gateways.
LEMMA SpoolStepEffect ==
  ASSUME Types, KTypes, NEW e \in Op,
         ReadGateway(e) \/ ReadDevices(e) \/ SetPsk(e) \/ SetSite(e) \/ SetNat(e)
  PROVE  GateMove(e) /\ Kinds(op'[e])
<1>0. /\ op[e] \in Requests /\ Shape(op[e]) /\ Kinds(op[e]) /\ op[e].at \in Spooling
      /\ OpTypes /\ op[e].on \in Device \cup Gateway
  <2>1. op[e].at \in Spooling
    BY DEF ReadGateway, ReadDevices, SetPsk, SetSite, SetNat, At, Spooling
  <2> QED BY <2>1 DEF Types, OpTypes, KTypes, Kinds, Spooling
<1>1. Tail(op[e].todo) \in GateSeq
  BY <1>0, FieldsTyped, HeadTyped DEF Shape, Spooling
<1>2. ASSUME op'[e].at \in Spooling, SameRead(op'[e], op[e]) PROVE GateMove(e) /\ Kinds(op'[e])
  BY <1>0, <1>2, SameKind DEF GateMove, SameRead
<1>3. ASSUME Goes(e, After(e, Tail(op[e].todo))) PROVE GateMove(e) /\ Kinds(op'[e])
  <2>1. op'[e] = After(e, Tail(op[e].todo))
    BY <1>0, <1>3, GoesBecomes
  <2>2. CASE op[e].on \notin Gateway /\ op'[e] = NoOp
    BY <1>0, <2>2, NoOpKind DEF GateMove
  <2>3. CASE op'[e].at = "gate" /\ SameRead(op'[e], op[e])
    BY <1>2, <2>3 DEF Spooling
  <2>4. CASE op[e].on \in Gateway /\ op'[e].at = "stale" /\ SameRead(op'[e], op[e])
    BY <1>0, <2>4, SameKind DEF GateMove, SameRead
  <2> QED BY <1>0, <1>1, <2>1, <2>2, <2>3, <2>4, AfterFields
<1>4. ASSUME NEW w \in Spooling, NEW r \in RowSet, NEW x \in IpSets,
             op'[e] = [op[e] EXCEPT !.at = w, !.row = r, !.ips = x]
      PROVE  GateMove(e) /\ Kinds(op'[e])
  <2>1. op'[e].at = w /\ SameRead(op'[e], op[e])
    BY <1>0, <1>4, RequestsAre DEF SameRead
  <2> QED BY <1>2, <2>1
<1>5. CASE ReadGateway(e)
  <2>1. CASE Goes(e, After(e, Tail(op[e].todo)))
    BY <1>3, <2>1
  <2>2. CASE Goes(e, [op[e] EXCEPT !.at = "devices", !.row = gate[Head(op[e].todo)]])
    <3>1. op'[e] = [op[e] EXCEPT !.at = "devices", !.row = gate[Head(op[e].todo)]]
      BY <1>0, <2>2, GoesBecomes
    <3>2. op'[e].at = "devices" /\ SameRead(op'[e], op[e])
      BY <1>0, <3>1, RequestsAre DEF SameRead
    <3> QED BY <1>2, <3>2 DEF Spooling
  <2> QED BY <1>5, <2>1, <2>2 DEF ReadGateway
<1>6. CASE ReadDevices(e)
  <2> DEFINE x == {dev[d].ip : d \in Attached(Head(op[e].todo))} \ {None}
  <2>1. Goes(e, [op[e] EXCEPT !.at = "psk", !.ips = x])
    BY <1>6 DEF ReadDevices
  <2> HIDE DEF x
  <2>2. op'[e] = [op[e] EXCEPT !.at = "psk", !.ips = x]
    BY <1>0, <2>1, GoesBecomes
  <2>3. op'[e].at = "psk" /\ SameRead(op'[e], op[e])
    BY <1>0, <2>2, RequestsAre DEF SameRead
  <2> QED BY <1>2, <2>3 DEF Spooling
<1>7. CASE SetPsk(e) \/ SetSite(e)
  <2>1. PICK w \in {"site", "nat"} : Goes(e, [op[e] EXCEPT !.at = w])
    BY <1>7 DEF SetPsk, SetSite
  <2>2. w \in Where /\ op'[e] = [op[e] EXCEPT !.at = w]
    BY <1>0, <2>1, GoesBecomes DEF Where
  <2>3. op'[e].at = w /\ SameRead(op'[e], op[e])
    BY <1>0, <2>2, MoveTyped DEF SameRead
  <2> QED BY <1>2, <2>1, <2>3 DEF Spooling
<1>8. CASE SetNat(e)
  <2> DEFINE next == After(e, Tail(op[e].todo))
             q == IF next.at = "stale" THEN [next EXCEPT !.cur.ip = op[e].row.ip] ELSE next
  <2>1. Goes(e, q)
    BY <1>8 DEF SetNat
  <2>2. CASE next.at # "stale"
    BY <1>3, <2>1, <2>2
  <2>3. CASE next.at = "stale"
    <3>1. op[e].on \in Gateway /\ next \in Requests /\ SameRead(next, op[e])
      BY <1>0, <1>1, <2>3, AfterFields, NoOpTyped
    <3>2. op[e].row.ip \in Pub /\ op[e].row.ip \notin Ip
      BY <1>0, <1>8, SpoolsAssumption DEF Shape, SetNat, At
    <3>3. op'[e] = [next EXCEPT !.cur.ip = op[e].row.ip]
      <4>1. op'[e] = q
        BY <1>0, <2>1, GoesBecomes
      <4> QED BY <2>3, <4>1
    <3> DEFINE n == next
    <3>4. n \in Requests /\ n.at = "stale" /\ SameRead(n, op[e]) /\ op'[e] = [n EXCEPT !.cur.ip = op[e].row.ip]
      BY <2>3, <3>1, <3>3
    <3> HIDE DEF n, next, q
    <3>5. /\ op'[e].at = "stale" /\ op'[e].on = n.on /\ op'[e].new = n.new /\ op'[e].prev = n.prev
          /\ op'[e].cur.ip = op[e].row.ip
      BY <3>4, RequestsAre DEF Place
    <3> QED BY <1>0, <3>1, <3>2, <3>4, <3>5 DEF GateMove, Kinds, SameRead
  <2> QED BY <2>2, <2>3
<1> QED BY <1>5, <1>6, <1>7, <1>8

\* No step about a gateway changes a device or a key of one.
LEMMA GatewayStepEffect ==
  ASSUME Types, KTypes, NEW e \in Op, GatewayStep(e)
  PROVE  /\ GateMove(e) /\ Kinds(op'[e])
         /\ UNCHANGED <<sys, dev>>
         /\ \A d \in Device : d \in saved' <=> d \in saved
<1>0. /\ op[e] \in Requests /\ Shape(op[e]) /\ Kinds(op[e]) /\ OpTypes
      /\ Device \cap Gateway = {} /\ None \notin Ip
  BY SpoolsAssumption DEF Types, OpTypes, KTypes
<1>1. UNCHANGED <<sys, dev>>
  BY DEF GatewayStep, ReadGateway, ReadDevices, SetPsk, SetSite, SetNat, WriteGateway,
         SelectGateway, DropGateway, UnlinkGateway, keys, tables
<1>2. op[e].at \in Spooling => Head(op[e].todo) \in Gateway
  BY <1>0, FieldsTyped, HeadTyped DEF Shape, Spooling
<1>3. \A d \in Device : d \in saved' <=> d \in saved
  <2>1. saved' = saved \/ \E g \in Gateway : saved' = saved \cup {g}
    <3>1. CASE ReadGateway(e)
      BY <1>2, <3>1 DEF ReadGateway, At, Spooling
    <3>2. CASE WriteGateway(e)
      BY <1>0, <3>2 DEF WriteGateway, At, Shape
    <3> QED BY <3>1, <3>2 DEF GatewayStep, ReadDevices, SetPsk, SetSite, SetNat,
               SelectGateway, DropGateway, UnlinkGateway
  <2> QED BY <1>0, <2>1
<1>4. CASE ReadGateway(e) \/ ReadDevices(e) \/ SetPsk(e) \/ SetSite(e) \/ SetNat(e)
  BY <1>1, <1>3, <1>4, SpoolStepEffect
<1>5. CASE WriteGateway(e)
  <2>1. op[e].on \in Gateway /\ op'[e] = [op[e] EXCEPT !.at = "gate", !.todo = <<op[e].on>>]
    BY <1>0, <1>5, GoesBecomes DEF WriteGateway, At, Shape
  <2>2. op'[e].at = "gate" /\ SameRead(op'[e], op[e])
    BY <1>0, <2>1, RequestsAre DEF SameRead
  <2> QED BY <1>0, <1>1, <1>3, <2>1, <2>2, SameKind DEF GateMove, Spooling, SameRead
<1>6. CASE SelectGateway(e)
  <2> DEFINE x == IF gate[op[e].on] = None THEN None ELSE gate[op[e].on].ip
  <2>1. op[e].on \in Gateway /\ op'[e] = [op[e] EXCEPT !.at = "gdelete", !.prev.ip = x]
    BY <1>0, <1>6, GoesBecomes DEF SelectGateway, At, Shape
  <2>2. x \in AddrSet /\ x \notin Ip
    BY <2>1, SpoolsAssumption, RowsTyped DEF AddrSet, Types
  <2> HIDE DEF x
  <2>3. /\ op'[e].at = "gdelete" /\ op'[e].on = op[e].on /\ op'[e].new = op[e].new
        /\ op'[e].prev.ip = x /\ op'[e].cur = op[e].cur
    BY <1>0, <2>1, <2>2, RequestsAre DEF Place
  <2> QED BY <1>0, <1>1, <1>3, <2>1, <2>2, <2>3 DEF GateMove, Kinds
<1>7. CASE DropGateway(e)
  <2>1. op[e].on \in Gateway
    BY <1>0, <1>7 DEF DropGateway, At, Shape
  <2>2. CASE End(e)
    <3>1. op'[e] = NoOp
      BY <1>0, <2>2, GoesBecomes DEF End
    <3> QED BY <1>1, <1>3, <2>1, <3>1, NoOpKind DEF GateMove
  <2>3. CASE Goes(e, [op[e] EXCEPT !.at = "stale"])
    <3>1. op'[e] = [op[e] EXCEPT !.at = "stale"] /\ "stale" \in Where
      BY <1>0, <2>3, GoesBecomes DEF Where
    <3>2. op'[e].at = "stale" /\ SameRead(op'[e], op[e])
      BY <1>0, <3>1, MoveTyped DEF SameRead
    <3> QED BY <1>0, <1>1, <1>3, <2>1, <3>2, SameKind DEF GateMove, SameRead
  <2> QED BY <1>7, <2>2, <2>3 DEF DropGateway
<1>8. CASE UnlinkGateway(e)
  <2>1. op[e].on \in Gateway
    BY <1>0, <1>8 DEF UnlinkGateway, At, Kinds
  <2>2. op'[e] = NoOp
    BY <1>0, <1>8, GoesBecomes DEF UnlinkGateway, End
  <2> QED BY <1>1, <1>3, <2>1, <2>2, NoOpKind DEF GateMove
<1> QED BY <1>4, <1>5, <1>6, <1>7, <1>8 DEF GatewayStep

--------------------------------------------------------------------------------
(* Every step keeps every address in order *)

\* A request about a device begins.
LEMMA DeviceRequestAt ==
  ASSUME IInv, Facts', NEW i \in Ip, i \notin raced', i \notin shared', KeyOk(i),
         NEW e \in Op, DeviceRequest(e)
  PROVE  KeyOk(i)'
<1>1. /\ ~Active(e) /\ UNCHANGED sys /\ (Reads(e) \/ Makes(e))
      /\ op'[e].cur.ip = None /\ None # i
      /\ \A f \in Op : f # e => SameFields(op'[f], op[f])
  BY DeviceRequestEffect, SpoolsAssumption DEF IInv, keys
<1>2. ~Mine(e, i) /\ dev \in [Device -> DeviceRow \cup {None}] /\ None \notin DeviceRow
  BY <1>1, SpoolsAssumption DEF Mine, IInv, Types, TableTypes
<1>3. \A c, d \in Owners(i)' : c = d
  BY DEF Facts
<1>4. CASE Reads(e)
  <2>1. SameAt(i)
    BY <1>1, <1>4 DEF SameAt, Reads, Owners
  <2>2. CASE ~Mine(e, i)'
    BY <1>1, <1>2, <2>1, <2>2, Elsewhere
  <2>3. CASE Mine(e, i)'
    <3>1. Settled(i) /\ (Pending(e, i)' => KeyOk(i)')
      BY <1>1, <2>1, <2>3, BeginsAt DEF SameAt
    <3>2. Settled(i)'
      BY <2>1, <3>1, SameSettled
    <3>3. op'[e].prev.ip = i <=> op'[e].on \in Owners(i)'
      BY <1>4 DEF Reads, Owners
    <3>4. Pending(e, i)'
      BY <1>3, <1>4, <3>2, <3>3 DEF Pending, Reads, Spooling
    <3> QED BY <3>1, <3>4
  <2> QED BY <2>2, <2>3
<1>5. CASE Makes(e)
  <2> DEFINE d == op'[e].on
  <2>1. /\ d \in Device /\ d \notin Owners(i) /\ dev'[d] = op'[e].new /\ op'[e].new # None
        /\ op'[e].prev.ip = None /\ op'[e].at = "load" /\ saved' = saved \cup {d}
        /\ \A c \in Device : c # d => dev'[c] = dev[c]
    BY <1>2, <1>5 DEF Makes, Owners
  <2> HIDE DEF d
  <2>2. d \in Owners(i)' <=> op'[e].new.ip = i
    BY <2>1 DEF Owners
  <2>3. CASE ~Mine(e, i)'
    <3>1. d \notin Owners(i)'
      BY <2>1, <2>3 DEF Mine, Active, d
    <3>2. Owners(i)' = Owners(i)
      BY <2>1, <3>1 DEF Owners
    <3>3. SameAt(i)
      BY <1>1, <2>1, <3>2 DEF SameAt, Owners
    <3> QED BY <1>1, <1>2, <2>3, <3>3, Elsewhere
  <2>4. CASE Mine(e, i)'
    <3>1. d \in Owners(i)'
      BY <1>1, <2>1, <2>2, <2>4 DEF Mine, d
    <3>2. Owners(i) \subseteq Owners(i)'
      BY <2>1 DEF Owners
    <3>3. Pending(e, i)' => KeyOk(i)'
      BY <1>1, <2>4, <3>2, BeginsAt
    <3>4. Pending(e, i)'
      BY <1>1, <2>1, <3>1 DEF Pending, d, Spooling
    <3> QED BY <3>3, <3>4
  <2> QED BY <2>3, <2>4
<1> QED BY <1>1, <1>4, <1>5

\* A request about a gateway begins.
LEMMA GatewayRequestAt ==
  ASSUME IInv, NEW i \in Ip, KeyOk(i), NEW e \in Op, GatewayRequest(e)
  PROVE  KeyOk(i)'
<1>1. /\ ~Active(e) /\ UNCHANGED <<sys, dev>> /\ op'[e].on \in Gateway
      /\ \A d \in Device : d \in saved' <=> d \in saved
      /\ \A f \in Op : f # e => SameFields(op'[f], op[f])
  BY GatewayRequestEffect DEF IInv
<1>2. SameAt(i)
  BY <1>1 DEF SameAt, Owners
<1>3. ~Mine(e, i) /\ ~Mine(e, i)'
  BY <1>1, SpoolsAssumption DEF Mine
<1> QED BY <1>1, <1>2, <1>3, Elsewhere

\* A request that fails is remembered at its addresses.
LEMMA FailAt ==
  ASSUME IInv, Facts, NEW i \in Ip, i \notin failed', KeyOk(i), NEW e \in Op, Fail(e), Remember(e)
  PROVE  KeyOk(i)'
<1>1. op'[e].at = "idle" /\ \A f \in Op : f # e => op'[f] = op[f]
  BY FailTyped, NoOpTyped DEF IInv
<1>2. UNCHANGED <<sys, dev, saved>> /\ faults' # faults
  BY DEF Fail, keys, tables, IInv, Types, CountTypes
<1>3. ~Mine(e, i)
  BY <1>2 DEF Remember, Facts
<1>4. ~Mine(e, i)'
  BY <1>1 DEF Mine, Active
<1>5. SameAt(i)
  BY <1>2 DEF SameAt, Owners
<1> QED BY <1>1, <1>3, <1>4, <1>5, Elsewhere DEF SameFields

\* A step about gateways.
LEMMA GatewayStepAt ==
  ASSUME IInv, KTypes, Facts, Facts', raced \subseteq raced', NEW i \in Ip, i \notin raced',
         KeyOk(i), NEW e \in Op, GatewayStep(e), \A f \in Op : f # e => op'[f] = op[f]
  PROVE  KeyOk(i)'
<1>1. GateMove(e) /\ UNCHANGED <<sys, dev>> /\ \A d \in Device : d \in saved' <=> d \in saved
  BY GatewayStepEffect DEF IInv
<1>2. SameAt(i) /\ \A f \in Op : f # e => SameFields(op'[f], op[f])
  BY <1>1 DEF SameAt, Owners, SameFields
<1>3. CASE op[e].on \in Gateway /\ op'[e].on \in Gateway \cup {None}
  <2>1. ~Mine(e, i) /\ ~Mine(e, i)'
    BY <1>3, SpoolsAssumption DEF Mine
  <2> QED BY <1>2, <2>1, Elsewhere
<1>4. CASE op[e].at \in Spooling /\ op'[e] = NoOp
  <2>1. ~Mine(e, i)'
    BY <1>4, NoOpTyped DEF Mine, Active
  <2>2. CASE ~Mine(e, i)
    BY <1>2, <2>1, <2>2, Elsewhere
  <2>3. CASE Mine(e, i)
    <3>1. Settled(i)'
      BY <1>2, <1>4, <2>3, SameSettled DEF KeyOk, Pending
    <3> QED BY <1>2, <2>1, <2>3, <3>1, OwnStep DEF SameAt
  <2> QED BY <2>2, <2>3
<1>5. CASE op[e].at \in Spooling /\ op'[e].at \in Spooling /\ SameRead(op'[e], op[e])
  <2>1. Mine(e, i)' <=> Mine(e, i)
    BY <1>2, <1>5 DEF Mine, Active, SameRead, SameAt, Spooling
  <2>2. CASE ~Mine(e, i)
    BY <1>2, <2>1, <2>2, Elsewhere
  <2>3. CASE Mine(e, i)
    <3>1. Pending(e, i) /\ Settled(i)
      BY <1>5, <2>3 DEF KeyOk, Pending
    <3>2. Settled(i)'
      BY <1>2, <3>1, SameSettled
    <3>3. Pending(e, i)'
      BY <1>2, <1>5, <3>1, <3>2 DEF Pending, SameRead, SameAt, Spooling
    <3> QED BY <1>2, <2>1, <2>3, <3>3, OwnStep DEF SameAt
  <2> QED BY <2>2, <2>3
<1> QED BY <1>1, <1>3, <1>4, <1>5 DEF GateMove

\* UPDATE device.
LEMMA WriteAt ==
  ASSUME IInv, Facts, Facts', raced \subseteq raced', NEW i \in Ip, i \notin raced',
         KeyOk(i), NEW e \in Op, WriteDevice(e), \A f \in Op : f # e => op'[f] = op[f]
  PROVE  KeyOk(i)'
<1> DEFINE d == op[e].on
<1>0. /\ op[e] \in Requests /\ OpTypes /\ op[e].at = "update" /\ d \in Device
      /\ op[e].new \in DeviceRow /\ op[e].new # None /\ sys' = sys
      /\ dev \in [Device -> DeviceRow \cup {None}]
      /\ \A f \in Op : f # e => SameFields(op'[f], op[f])
  BY SpoolsAssumption DEF IInv, Types, OpTypes, Shape, WriteDevice, At, keys, TableTypes, SameFields
<1>1. CASE End(e) /\ UNCHANGED <<dev, saved>>
  <2>1. ~Mine(e, i)'
    BY <1>0, <1>1, GoesBecomes, NoOpTyped DEF End, Mine, Active
  <2>2. SameAt(i)
    BY <1>0, <1>1 DEF SameAt, Owners
  <2>3. CASE ~Mine(e, i)
    BY <1>0, <2>1, <2>2, <2>3, Elsewhere
  <2>4. CASE Mine(e, i)
    <3>1. Settled(i)'
      BY <1>0, <2>2, <2>4, SameSettled DEF KeyOk, Pending
    <3> QED BY <1>0, <2>1, <2>2, <2>4, <3>1, OwnStep DEF SameAt
  <2> QED BY <2>3, <2>4
<1>2. CASE /\ dev' = [dev EXCEPT ![d] = IF @ = None THEN None ELSE op[e].new]
           /\ saved' = saved \cup {d}
           /\ Goes(e, [op[e] EXCEPT !.at = "load"])
  <2>1. op'[e].at = "load" /\ SameRead(op'[e], op[e])
    <3>1. op'[e] = [op[e] EXCEPT !.at = "load"] /\ "load" \in Where
      BY <1>0, <1>2, GoesBecomes DEF Where
    <3> QED BY <1>0, <3>1, MoveTyped DEF SameRead
  <2> HIDE DEF d
  <2>2. /\ d \in Owners(i)' => op[e].new.ip = i
        /\ \A c \in Device : c # d => dev'[c] = dev[c] /\ (c \in Owners(i)' <=> c \in Owners(i))
    BY <1>0, <1>2 DEF Owners
  <2>3. d \notin Owners(i) /\ d \notin Owners(i)' => SameAt(i)
    <3>1. ASSUME d \notin Owners(i), d \notin Owners(i)' PROVE SameAt(i)
      <4>1. Owners(i)' = Owners(i) /\ d \notin Owners(i)
        BY <2>2, <3>1 DEF Owners
      <4> QED BY <1>0, <1>2, <2>2, <4>1 DEF SameAt, Owners
    <3> QED BY <3>1
  <2>4. CASE ~Mine(e, i)
    <3>1. d \notin Owners(i) /\ d \notin Owners(i)'
      BY <1>0, <2>2, <2>4 DEF Mine, Active, d
    <3>2. ~Mine(e, i)'
      BY <1>0, <2>1, <2>4, <3>1 DEF Mine, Active, SameRead, d
    <3> QED BY <1>0, <2>3, <2>4, <3>1, <3>2, Elsewhere
  <2>5. CASE Mine(e, i)
    <3>1. Pending(e, i) /\ Settled(i) /\ (d \in Owners(i) => op[e].prev.ip = i)
      BY <1>0, <2>5 DEF KeyOk, Pending, d
    <3>2. d \in Owners(i)' => Mine(e, i)'
      BY <1>0, <2>1 DEF Mine, Active, SameRead, d
    <3>3. Owners(i)' \subseteq Owners(i) \cup {d}
      BY <2>2 DEF Owners
    <3>4. ASSUME d \notin Owners(i)', op[e].prev.ip # i PROVE Settled(i)'
      BY <2>3, <3>1, <3>4, SameSettled
    <3>5. ~Mine(e, i)' => Settled(i)'
      BY <1>0, <2>1, <3>2, <3>4 DEF Mine, Active, SameRead, d
    <3>6. Pending(e, i)'
      BY <1>2, <2>1, <3>1, <3>3, <3>4 DEF Pending, SameRead, Spooling, d
    <3> QED BY <1>0, <2>5, <3>2, <3>3, <3>5, <3>6, OwnStep
  <2> QED BY <2>4, <2>5
<1> QED BY <1>1, <1>2 DEF WriteDevice

\* DELETE of the row.
LEMMA DropAt ==
  ASSUME IInv, KTypes, Facts, Facts', raced \subseteq raced', NEW i \in Ip, i \notin raced',
         KeyOk(i), NEW e \in Op, DropDevice(e), \A f \in Op : f # e => op'[f] = op[f]
  PROVE  KeyOk(i)'
<1> DEFINE d == op[e].on
<1>0. /\ op[e] \in Requests /\ OpTypes /\ op[e].at = "delete" /\ d \in Device
      /\ op[e].cur.ip # i
      /\ dev' = [dev EXCEPT ![d] = None] /\ dev \in [Device -> DeviceRow \cup {None}]
      /\ sys' = sys /\ saved' = saved
      /\ \A f \in Op : f # e => SameFields(op'[f], op[f])
  BY DEF IInv, Types, OpTypes, Shape, KTypes, Kinds, DropDevice, At, keys, TableTypes, SameFields
<1>1. op'[e].at = "unlink" /\ SameRead(op'[e], op[e])
  <2>1. op'[e] = [op[e] EXCEPT !.at = "unlink"] /\ "unlink" \in Where
    BY <1>0, GoesBecomes DEF DropDevice, Where
  <2> QED BY <1>0, <2>1, MoveTyped DEF SameRead
<1> HIDE DEF d
<1>2. Owners(i)' = Owners(i) \ {d} /\ \A c \in Device : c # d => dev'[c] = dev[c]
  BY <1>0 DEF Owners
<1>3. d \notin Owners(i) => SameAt(i)
  BY <1>0, <1>2 DEF SameAt, Owners
<1>4. Mine(e, i)' => Mine(e, i)
  BY <1>0, <1>1, <1>2 DEF Mine, Active, SameRead, d
<1>5. CASE ~Mine(e, i)
  <2>1. d \notin Owners(i)
    BY <1>0, <1>5 DEF Mine, Active, d
  <2> QED BY <1>0, <1>3, <1>4, <1>5, <2>1, Elsewhere
<1>6. CASE Mine(e, i)
  <2>1. Pending(e, i) /\ Settled(i) /\ (d \in Owners(i) => op[e].prev.ip = i)
    BY <1>0, <1>6 DEF KeyOk, Pending, d
  <2>2. op[e].prev.ip # i => Settled(i)'
    BY <1>3, <2>1, SameSettled
  <2>3. ~Mine(e, i)' => Settled(i)'
    BY <1>0, <1>1, <2>2 DEF Mine, Active, SameRead, d
  <2>4. Pending(e, i)'
    BY <1>0, <1>1, <1>2, <2>1, <2>2 DEF Pending, SameRead, Spooling, d
  <2> QED BY <1>0, <1>2, <1>6, <2>3, <2>4, OwnStep
<1> QED BY <1>5, <1>6

\* loadDeviceRow.
LEMMA LoadAt ==
  ASSUME IInv, KTypes, Facts, Facts', raced \subseteq raced', NEW i \in Ip, i \notin raced',
         KeyOk(i), NEW e \in Op, LoadDevice(e), \A f \in Op : f # e => op'[f] = op[f]
  PROVE  KeyOk(i)'
<1> DEFINE d == op[e].on
           r == dev[op[e].on]
<1>0. /\ op[e] \in Requests /\ OpTypes /\ op[e].at = "load" /\ d \in Device
      /\ op[e].cur.ip # i /\ i # None
      /\ UNCHANGED <<sys, dev, saved>>
      /\ r # None => [ip |-> r.ip, gw |-> r.gw] \in Place /\ r.info \in InfoSet
      /\ \A f \in Op : f # e => SameFields(op'[f], op[f])
  <2>1. op[e].at = "load" /\ d \in Device /\ UNCHANGED <<sys, dev, saved>> /\ i # None
    BY SpoolsAssumption DEF IInv, Types, OpTypes, Shape, LoadDevice, At, keys, tables
  <2>2. r # None => [ip |-> r.ip, gw |-> r.gw] \in Place /\ r.info \in InfoSet
    BY <2>1, RowsTyped DEF IInv, Types, Place, AddrSet, GateSet, InfoSet
  <2> QED BY <2>1, <2>2 DEF IInv, Types, OpTypes, KTypes, Kinds, SameFields
<1>1. SameAt(i) /\ (d \in Owners(i) <=> r # None /\ r.ip = i)
  BY <1>0 DEF SameAt, Owners
<1>2. /\ op'[e].on = d /\ op'[e].new = op[e].new /\ op'[e].prev = op[e].prev
      /\ r = None => op'[e].at = "unlink" /\ op'[e].cur = op[e].cur
      /\ r # None => /\ op'[e].at = (IF r.ip = None THEN "unlink" ELSE "del")
                     /\ op'[e].cur.ip = r.ip /\ op'[e].info = r.info
  <2>1. CASE r = None
    <3>1. op'[e] = [op[e] EXCEPT !.at = "unlink"] /\ "unlink" \in Where
      BY <1>0, <2>1, GoesBecomes DEF LoadDevice, Where
    <3> QED BY <1>0, <2>1, <3>1, MoveTyped
  <2>2. CASE r # None
    <3> DEFINE w == IF r.ip = None THEN "unlink" ELSE "del"
               pl == [ip |-> r.ip, gw |-> r.gw]
               x == r.info
    <3>1. op'[e] = [op[e] EXCEPT !.at = w, !.cur = pl, !.info = x]
      BY <1>0, <2>2, GoesBecomes DEF LoadDevice
    <3>2. w \in Where /\ pl \in Place /\ x \in InfoSet /\ pl.ip = r.ip
      BY <1>0, <2>2 DEF Where
    <3> HIDE DEF w, pl, x
    <3>3. /\ op'[e].on = d /\ op'[e].new = op[e].new /\ op'[e].prev = op[e].prev
          /\ op'[e].at = w /\ op'[e].cur = pl /\ op'[e].info = x
      BY <1>0, <3>1, <3>2, RequestsAre
    <3> QED BY <2>2, <3>2, <3>3 DEF w, x
  <2> QED BY <2>1, <2>2
<1> HIDE DEF d, r
<1>3. d \in Owners(i)' <=> d \in Owners(i)
  BY <1>1 DEF SameAt
<1>4. op'[e].at \in {"unlink", "del"}
  BY <1>2
<1>5. Mine(e, i)' <=> Mine(e, i)
  <2>1. Mine(e, i) <=> \/ op[e].prev.ip = i \/ d \in Owners(i)
                       \/ op[e].new # None /\ op[e].new.ip = i
    BY <1>0 DEF Mine, Active, d
  <2>2. Mine(e, i)' <=> \/ op[e].prev.ip = i \/ op'[e].cur.ip = i \/ d \in Owners(i)
                        \/ op[e].new # None /\ op[e].new.ip = i
    BY <1>0, <1>2, <1>3, <1>4 DEF Mine, Active
  <2>3. op'[e].cur.ip = i => d \in Owners(i)
    BY <1>0, <1>1, <1>2
  <2> QED BY <2>1, <2>2, <2>3
<1>6. CASE ~Mine(e, i)
  BY <1>0, <1>1, <1>5, <1>6, Elsewhere
<1>7. CASE Mine(e, i)
  <2>1. /\ op[e].prev.ip = i => Owners(i) \subseteq {d}
        /\ d \in Owners(i) => d \in saved
        /\ d \notin Owners(i) /\ op[e].prev.ip # i => Settled(i)
    BY <1>0, <1>7 DEF KeyOk, Pending, d
  <2>2. d \notin Owners(i) /\ op[e].prev.ip # i => Settled(i)'
    BY <1>1, <2>1, SameSettled
  <2>3. Owners(i)' = Owners(i) /\ saved' = saved /\ dev' = dev
    BY <1>0, <1>1 DEF SameAt
  <2>4. op'[e].cur.ip = i => d \in Owners(i) /\ op'[e].at = "del" /\ op'[e].info = dev[d].info
    BY <1>0, <1>1, <1>2 DEF d, r
  <2>5. op'[e].cur.ip # i => d \notin Owners(i)
    BY <1>0, <1>1, <1>2
  <2>6. Pending(e, i)'
    BY <1>2, <1>4, <2>1, <2>2, <2>3, <2>4, <2>5 DEF Pending, Spooling
  <2> QED BY <1>0, <1>5, <1>7, <2>3, <2>6, OwnStep
<1> QED BY <1>6, <1>7

\* DEL of the key.
LEMMA DelAt ==
  ASSUME IInv, Facts, Facts', raced \subseteq raced', NEW i \in Ip, i \notin raced',
         KeyOk(i), NEW e \in Op, DelHash(e), \A f \in Op : f # e => op'[f] = op[f]
  PROVE  KeyOk(i)'
<1>0. /\ op[e] \in Requests /\ OpTypes /\ op[e].at = "del" /\ op[e].on \in Device
      /\ UNCHANGED <<dev, saved>> /\ sys' = [sys EXCEPT ![op[e].cur.ip] = NoHash]
      /\ sys \in [Ip -> Hash]
      /\ \A f \in Op : f # e => SameFields(op'[f], op[f])
  BY DEF IInv, Types, OpTypes, Shape, DelHash, At, tables, KeyTypes, SameFields
<1>1. op'[e].at = "hset" /\ SameRead(op'[e], op[e]) /\ op'[e].info = op[e].info
  <2>1. op'[e] = [op[e] EXCEPT !.at = "hset"] /\ "hset" \in Where
    BY <1>0, GoesBecomes DEF DelHash, Where
  <2> QED BY <1>0, <2>1, MoveTyped DEF SameRead
<1>2. /\ Owners(i)' = Owners(i)
      /\ op[e].cur.ip = i => sys'[i] = NoHash
      /\ op[e].cur.ip # i => SameAt(i)
  BY <1>0 DEF Owners, SameAt
<1>3. Mine(e, i)' <=> Mine(e, i)
  BY <1>0, <1>1, <1>2 DEF Mine, Active, SameRead
<1>4. CASE ~Mine(e, i)
  <2>1. op[e].cur.ip # i
    BY <1>0, <1>4 DEF Mine, Active
  <2> QED BY <1>0, <1>2, <1>3, <1>4, <2>1, Elsewhere
<1>5. CASE Mine(e, i)
  <2>1. Pending(e, i)
    BY <1>5 DEF KeyOk
  <2>2. op[e].cur.ip # i => (Settled(i)' <=> Settled(i))
    BY <1>2, SameSettled
  <2>3. Pending(e, i)'
    BY <1>0, <1>1, <1>2, <2>1, <2>2 DEF Pending, SameRead, Spooling
  <2> QED BY <1>0, <1>2, <1>3, <1>5, <2>3, OwnStep
<1> QED BY <1>4, <1>5

\* HSET of the row's hash on the empty key.
LEMMA SetAt ==
  ASSUME IInv, Facts, Facts', raced \subseteq raced', NEW i \in Ip, i \notin raced',
         i \notin shared', KeyOk(i), NEW e \in Op, SetHash(e),
         \A f \in Op : f # e => op'[f] = op[f]
  PROVE  KeyOk(i)'
<1>0. /\ op[e] \in Requests /\ OpTypes /\ op[e].at = "hset" /\ op[e].on \in Device
      /\ UNCHANGED <<dev, saved>> /\ sys' = [sys EXCEPT ![op[e].cur.ip] = Merge(@, op[e].info)]
      /\ sys \in [Ip -> Hash] /\ op[e].info \in Info
      /\ \A f \in Op : f # e => SameFields(op'[f], op[f])
  BY DEF IInv, Types, OpTypes, Shape, SetHash, At, tables, KeyTypes, SameFields
<1>1. op'[e].at = "unlink" /\ SameRead(op'[e], op[e])
  <2>1. op'[e] = [op[e] EXCEPT !.at = "unlink"] /\ "unlink" \in Where
    BY <1>0, GoesBecomes DEF SetHash, Where
  <2> QED BY <1>0, <2>1, MoveTyped DEF SameRead
<1>2. Merge(NoHash, op[e].info) = op[e].info
  <2>1. op[e].info \in Hash
    BY <1>0, SpoolsAssumption
  <2> QED BY <2>1 DEF Merge, NoHash, Hash
<1>3. /\ Owners(i)' = Owners(i)
      /\ op[e].cur.ip = i /\ sys[i] = NoHash => sys'[i] = op[e].info
      /\ op[e].cur.ip # i => SameAt(i)
  BY <1>0, <1>2 DEF Owners, SameAt
<1>4. Mine(e, i)' <=> Mine(e, i)
  BY <1>0, <1>1, <1>3 DEF Mine, Active, SameRead
<1>5. CASE ~Mine(e, i)
  <2>1. op[e].cur.ip # i
    BY <1>0, <1>5 DEF Mine, Active
  <2> QED BY <1>0, <1>3, <1>4, <1>5, <2>1, Elsewhere
<1>6. CASE Mine(e, i)
  <2>1. Pending(e, i)
    BY <1>6 DEF KeyOk
  <2>2. op[e].cur.ip # i => (Settled(i)' <=> Settled(i))
    BY <1>3, SameSettled
  <2>3. op[e].cur.ip = i => Settled(i)'
    <3>1. SUFFICES ASSUME op[e].cur.ip = i PROVE Settled(i)'
      OBVIOUS
    <3>2. sys[i] = NoHash /\ op[e].on \in Owners(i) /\ op[e].info = dev[op[e].on].info
      BY <1>0, <2>1, <3>1 DEF Pending
    <3>3. \A c \in Owners(i)' : c = op[e].on
      BY <1>3, <3>2 DEF Facts
    <3> QED BY <1>0, <1>3, <3>1, <3>2, <3>3 DEF Settled
  <2>4. Pending(e, i)'
    BY <1>0, <1>1, <1>3, <2>1, <2>2, <2>3 DEF Pending, SameRead, Spooling
  <2> QED BY <1>0, <1>3, <1>4, <1>6, <2>4, OwnStep
<1> QED BY <1>5, <1>6

\* UNLINK of the old key.
LEMMA UnlinkAt ==
  ASSUME IInv, KTypes, Facts, Facts', raced \subseteq raced', NEW i \in Ip, i \notin raced',
         KeyOk(i), NEW e \in Op, UnlinkOld(e), \A f \in Op : f # e => op'[f] = op[f]
  PROVE  KeyOk(i)'
<1>0. /\ op[e] \in Requests /\ OpTypes /\ op[e].at = "unlink" /\ op[e].on \in Device
      /\ UNCHANGED <<dev, saved>> /\ sys \in [Ip -> Hash] /\ i # None
      /\ op[e].on \notin Gateway
      /\ sys' = IF Leaves(e) THEN [sys EXCEPT ![op[e].prev.ip] = NoHash] ELSE sys
      /\ \A f \in Op : f # e => SameFields(op'[f], op[f])
  BY SpoolsAssumption
     DEF IInv, Types, OpTypes, KTypes, Kinds, UnlinkOld, At, tables, KeyTypes, SameFields
<1>1. \/ op'[e] = NoOp
      \/ op'[e].at = "gate" /\ SameRead(op'[e], op[e])
  <2>1. op'[e] = After(e, ToSpool(e)) /\ ToSpool(e) \in GateSeq
    BY <1>0, GoesBecomes, ToSpoolTyped DEF UnlinkOld
  <2> QED BY <1>0, <2>1, AfterFields
<1>2. /\ Owners(i)' = Owners(i)
      /\ op[e].prev.ip = i /\ op[e].cur.ip # i => sys'[i] = NoHash
      /\ ~(op[e].prev.ip = i /\ op[e].cur.ip # i) => SameAt(i)
  BY <1>0 DEF Owners, SameAt, Leaves
<1>3. Mine(e, i)' => Mine(e, i)
  BY <1>0, <1>1, <1>2, NoOpTyped DEF Mine, Active, SameRead
<1>4. CASE ~Mine(e, i)
  <2>1. op[e].prev.ip # i
    BY <1>0, <1>4 DEF Mine, Active
  <2> QED BY <1>0, <1>2, <1>3, <1>4, <2>1, Elsewhere
<1>5. CASE Mine(e, i)
  <2>1. Pending(e, i)
    BY <1>5 DEF KeyOk
  <2>2. Settled(i)'
    <3>1. CASE op[e].prev.ip = i /\ op[e].cur.ip # i
      <4>1. Owners(i) = {}
        BY <1>0, <2>1, <3>1 DEF Pending
      <4> QED BY <1>2, <3>1, <4>1 DEF Settled
    <3>2. CASE ~(op[e].prev.ip = i /\ op[e].cur.ip # i)
      BY <1>0, <1>2, <2>1, <3>2, SameSettled DEF Pending
    <3> QED BY <3>1, <3>2
  <2>3. Mine(e, i)' => Pending(e, i)'
    <3>1. SUFFICES ASSUME Mine(e, i)' PROVE Pending(e, i)'
      OBVIOUS
    <3>2. op'[e].at = "gate" /\ SameRead(op'[e], op[e])
      BY <1>1, <3>1, NoOpTyped DEF Mine, Active
    <3> QED BY <1>2, <2>1, <2>2, <3>2 DEF Pending, SameRead, Spooling
  <2> QED BY <1>0, <1>2, <1>5, <2>2, <2>3, OwnStep
<1> QED BY <1>4, <1>5

--------------------------------------------------------------------------------
(* The invariant *)

\* Requests stay of their kinds.
LEMMA KindsStep ==
  ASSUME IInv, KTypes, NEW e \in Op,
         DeviceRequest(e) \/ GatewayRequest(e) \/ DeviceStep(e) \/ GatewayStep(e) \/ Fail(e)
  PROVE  KTypes'
<1>0. Types /\ OpTypes /\ op[e] \in Requests /\ Shape(op[e]) /\ Kinds(op[e]) /\ None \notin Ip
      /\ Device \cap Gateway = {}
  BY SpoolsAssumption DEF IInv, Types, OpTypes, KTypes
<1>1. \A p, q : SameFields(p, q) /\ Kinds(q) => Kinds(p)
  BY DEF SameFields, Kinds
<1>2. ASSUME Kinds(op'[e]), \A f \in Op : f # e => SameFields(op'[f], op[f]) PROVE KTypes'
  BY <1>1, <1>2 DEF KTypes
<1>3. ASSUME Kinds(op'[e]), \A f \in Op : f # e => op'[f] = op[f] PROVE KTypes'
  BY <1>3 DEF KTypes
<1>4. CASE DeviceRequest(e)
  <2>1. Kinds(op'[e])
    BY <1>0, <1>4, DeviceRequestEffect DEF Kinds, Reads, Makes
  <2> QED BY <1>0, <1>2, <1>4, <2>1, DeviceRequestEffect
<1>5. CASE GatewayRequest(e)
  BY <1>0, <1>2, <1>5, GatewayRequestEffect
<1>6. CASE GatewayStep(e)
  BY <1>0, <1>3, <1>6, GatewayStepEffect, SpoolStepTyped, GatewayStepTyped DEF GatewayStep
<1>7. CASE Fail(e)
  BY <1>0, <1>3, <1>7, FailTyped, NoOpKind
<1>8. CASE DeviceStep(e)
  <2>1. \A f \in Op : f # e => op'[f] = op[f]
    BY <1>0, <1>8, DeviceStepTyped
  <2> SUFFICES Kinds(op'[e])
    BY <1>3, <2>1
  <2>2. op[e].on \in Device
    BY <1>0, <1>8 DEF DeviceStep, WriteDevice, DropDevice, LoadDevice, DelHash, SetHash, UnlinkOld,
                      At, Shape, Kinds
  <2>3. ASSUME NEW w \in {"load", "unlink", "hset"}, Goes(e, [op[e] EXCEPT !.at = w]),
               op[e].cur.ip \notin Ip \/ w # "load"
        PROVE  Kinds(op'[e])
    <3>1. op'[e] = [op[e] EXCEPT !.at = w] /\ w \in Where
      BY <1>0, <2>3, GoesBecomes DEF Where
    <3>2. op'[e].at = w /\ SameRead(op'[e], op[e])
      BY <1>0, <3>1, MoveTyped DEF SameRead
    <3> QED BY <1>0, <2>2, <2>3, <3>2 DEF Kinds, SameRead
  <2>4. ASSUME op'[e] = NoOp PROVE Kinds(op'[e])
    BY <2>4, NoOpKind
  <2>5. CASE WriteDevice(e)
    <3>1. op[e].cur.ip \notin Ip
      BY <1>0, <2>5 DEF WriteDevice, At, Kinds
    <3>2. CASE End(e)
      BY <1>0, <2>4, <3>2, GoesBecomes DEF End
    <3> QED BY <2>3, <2>5, <3>1, <3>2 DEF WriteDevice
  <2>6. CASE DropDevice(e) \/ DelHash(e) \/ SetHash(e)
    BY <2>3, <2>6 DEF DropDevice, DelHash, SetHash
  <2>7. CASE LoadDevice(e)
    <3>1. CASE dev[op[e].on] = None
      BY <2>3, <2>7, <3>1 DEF LoadDevice
    <3>2. CASE dev[op[e].on] # None
      <4> DEFINE r == dev[op[e].on]
                 w == IF r.ip = None THEN "unlink" ELSE "del"
                 pl == [ip |-> r.ip, gw |-> r.gw]
                 x == r.info
      <4>1. op'[e] = [op[e] EXCEPT !.at = w, !.cur = pl, !.info = x]
        BY <1>0, <2>7, <3>2, GoesBecomes DEF LoadDevice
      <4>2. w \in {"unlink", "del"} /\ w \in Where /\ pl \in Place /\ x \in InfoSet
        BY <1>0, <2>2, <3>2, RowsTyped DEF Where, Place, AddrSet, GateSet, InfoSet, Types
      <4> HIDE DEF w, pl, x
      <4>3. op'[e].on = op[e].on /\ op'[e].at = w
        BY <1>0, <4>1, <4>2, RequestsAre
      <4> QED BY <1>0, <2>2, <4>2, <4>3 DEF Kinds
    <3> QED BY <3>1, <3>2
  <2>8. CASE UnlinkOld(e)
    <3>1. op'[e] = After(e, ToSpool(e)) /\ ToSpool(e) \in GateSeq
      BY <1>0, <2>8, GoesBecomes, ToSpoolTyped DEF UnlinkOld
    <3>2. op'[e] = NoOp \/ (op'[e].at = "gate" /\ SameRead(op'[e], op[e]))
      BY <1>0, <2>2, <3>1, AfterFields
    <3> QED BY <1>0, <2>2, <2>4, <3>2 DEF Kinds, SameRead
  <2> QED BY <1>8, <2>5, <2>6, <2>7, <2>8 DEF DeviceStep
<1> QED BY <1>4, <1>5, <1>6, <1>7, <1>8

\* The imported devices may have no keys, and there are no others.
LEMMA KeysInit == Init => KeyInv
<1> SUFFICES ASSUME Init PROVE KeyInv
  OBVIOUS
<1>1. \A e \in Op : op[e] = NoOp
  BY DEF Init
<1>2. KTypes
  BY <1>1, NoOpKind DEF KTypes
<1>3. \A i \in Ip : KeyOk(i)
  BY <1>1, NoOpTyped DEF Init, KeyOk, Mine, Active, Settled
<1> QED BY <1>2, <1>3, SpoolsInit DEF KeyInv, Init

\* Every step of every request keeps every address in order.
LEMMA KeysStep == KeyInv /\ [Next]_vars => KeyInv'
<1> SUFFICES ASSUME KeyInv, [Next]_vars PROVE KeyInv'
  OBVIOUS
<1>1. IInv' /\ IInv /\ KTypes /\ Doubles \subseteq shared
  BY SpoolsStep DEF KeyInv
<1>2. Facts
  BY <1>1, FactsHold
<1>3. CASE UNCHANGED vars
  <2>1. KTypes' /\ (Doubles \subseteq shared)'
    BY <1>1, <1>3 DEF vars, tables, history, KTypes, Doubles, Owners, Holders
  <2>2. ASSUME NEW i \in Ip, i \notin Suspect' PROVE KeyOk(i)'
    <3>1. KeyOk(i)
      BY <1>3, <2>2 DEF vars, history, Suspect, KeyInv
    <3>2. SameAt(i) /\ \A f \in Op : SameFields(op'[f], op[f])
      BY <1>3 DEF vars, tables, keys, SameAt, Owners, SameFields
    <3>3. \A f \in Op : (Mine(f, i)' <=> Mine(f, i)) /\ (Pending(f, i) => Pending(f, i)')
      BY <3>2, SameMine
    <3> QED BY <3>1, <3>2, <3>3, SameSettled DEF KeyOk
  <2> QED BY <1>1, <2>1, <2>2 DEF KeyInv
<1>4. ASSUME NEW e \in Op, Remember(e),
             DeviceRequest(e) \/ GatewayRequest(e) \/ DeviceStep(e) \/ GatewayStep(e) \/ Fail(e)
      PROVE  KeyInv'
  <2>1. KTypes'
    BY <1>1, <1>4, KindsStep
  <2>2. (Doubles \subseteq shared)' /\ raced \subseteq raced' /\ Suspect \subseteq Suspect'
    BY <1>4 DEF Remember, Suspect
  <2>3. Facts'
    BY <1>1, <2>1, <2>2, FactsNext
  <2>4. ASSUME NEW i \in Ip, i \notin Suspect' PROVE KeyOk(i)'
    <3>1. KeyOk(i) /\ i \notin raced' /\ i \notin shared' /\ i \notin failed'
      BY <2>2, <2>4 DEF Suspect, KeyInv
    <3>2. CASE DeviceRequest(e)
      BY <1>1, <2>3, <3>1, <3>2, DeviceRequestAt
    <3>3. CASE GatewayRequest(e)
      BY <1>1, <3>1, <3>3, GatewayRequestAt
    <3>4. CASE Fail(e)
      BY <1>1, <1>2, <1>4, <3>1, <3>4, FailAt
    <3>5. CASE GatewayStep(e)
      <4>1. \A f \in Op : f # e => op'[f] = op[f]
        BY <1>1, <3>5, SpoolStepTyped, GatewayStepTyped DEF GatewayStep, IInv
      <4> QED BY <1>1, <1>2, <2>2, <2>3, <3>1, <3>5, <4>1, GatewayStepAt
    <3>6. CASE DeviceStep(e)
      <4>1. \A f \in Op : f # e => op'[f] = op[f]
        BY <1>1, <3>6, DeviceStepTyped DEF IInv
      <4>2. CASE WriteDevice(e)
        BY <1>1, <1>2, <2>2, <2>3, <3>1, <4>1, <4>2, WriteAt
      <4>3. CASE DropDevice(e)
        BY <1>1, <1>2, <2>2, <2>3, <3>1, <4>1, <4>3, DropAt
      <4>4. CASE LoadDevice(e)
        BY <1>1, <1>2, <2>2, <2>3, <3>1, <4>1, <4>4, LoadAt
      <4>5. CASE DelHash(e)
        BY <1>1, <1>2, <2>2, <2>3, <3>1, <4>1, <4>5, DelAt
      <4>6. CASE SetHash(e)
        BY <1>1, <1>2, <2>2, <2>3, <3>1, <4>1, <4>6, SetAt
      <4>7. CASE UnlinkOld(e)
        BY <1>1, <1>2, <2>2, <2>3, <3>1, <4>1, <4>7, UnlinkAt
      <4> QED BY <3>6, <4>2, <4>3, <4>4, <4>5, <4>6, <4>7 DEF DeviceStep
    <3> QED BY <1>4, <3>2, <3>3, <3>4, <3>5, <3>6
  <2> QED BY <1>1, <2>1, <2>2, <2>4 DEF KeyInv
<1> QED BY <1>3, <1>4 DEF Next

\* Every address that was never raced, failed or shared is in order in every reachable state.
THEOREM KeysInvariant == Spec => []KeyInv
BY KeysInit, KeysStep, PTL DEF Spec

\* The hash under an address is a projection of the table, for every number of devices, requests,
\* edits and failures: where no request is under way the key of an address is that of the one
\* device that has it, unless requests met, failed or devices shared it there.
THEOREM DeviceKeysHolds == Spec => []DeviceKeys
<1>1. KeyInv => DeviceKeys
  <2> SUFFICES ASSUME KeyInv, NEW i \in Ip \ Suspect, Untouched(i) PROVE Settled(i)
    BY DEF DeviceKeys, Settled
  <2>1. Facts /\ KeyOk(i)
    BY FactsHold DEF KeyInv
  <2>2. \A e \in Op : ~Mine(e, i)
    BY <2>1 DEF Facts, Untouched
  <2> QED BY <2>1, <2>2 DEF KeyOk
<1> QED BY <1>1, KeysInvariant, PTL
=============================================================================
