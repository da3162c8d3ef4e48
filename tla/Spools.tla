------------------------------- MODULE Spools --------------------------------
(***************************************************************************)
(* The write-through spools of the portal: what saving or deleting a device *)
(* or a gateway does to the tables device and gateway and to the keys that  *)
(* other programs read, systems:by-ip:<ip> (aeroftp) and                    *)
(* fleetipsec:psk|site|nat:<public ip> (ipsecnode).                         *)
(*                                                                         *)
(* A request is a sequence of single statements and commands: it reads the  *)
(* row as it was, writes it, reads it again, rewrites the key of the device *)
(* (DEL, then HSET), removes the key of the old address and spools the      *)
(* gateways concerned, each from a fresh read of the gateway and of its     *)
(* devices. Requests interleave between any two of these steps, in one      *)
(* portal process or several, and any of them may fail; a failure while     *)
(* spooling is logged and the request ends as if saved.                     *)
(*                                                                         *)
(* Info stands for the hash buildDeviceHash makes of the row's other        *)
(* columns: which fields there are, and their values. Of the IPsec record   *)
(* only the NAT mode is kept, of a NAT entry only its global address. Rows  *)
(* exist that were imported and never spooled (device0, gateway0).          *)
(***************************************************************************)
EXTENDS Naturals, Sequences

CONSTANTS
    Device, Gateway,     \* identifiers of rows
    Ip, Pub,             \* addresses of devices, public addresses of gateways
    Psk,
    Field, Value,        \* fields of systems:by-ip and their values
    Info,                \* the hashes devices may have
    Op,                  \* requests that may be in progress at the same time
    None,
    device0, gateway0,   \* the imported tables
    MaxEdits,            \* bound: requests begun
    MaxFaults            \* bound: requests that fail

Mode == {"customer", "backend"}

Hash   == [Field -> Value \cup {None}]
NoHash == [f \in Field |-> None]

DeviceRow  == [ip : Ip \cup {None}, gw : Gateway \cup {None}, info : Info]
GatewayRow == [ip : Pub \cup {None}, psk : Psk \cup {None}, mode : Mode]
NatRecord  == [mode : Mode, ips : SUBSET Ip]

ASSUME SpoolsAssumption ==
    /\ None \notin Device \cup Gateway \cup Ip \cup Pub \cup Psk \cup Value
    /\ None \notin DeviceRow \cup GatewayRow \cup NatRecord
    /\ Ip \cap Pub = {} /\ Device \cap Gateway = {} /\ None \notin Mode
    /\ Info \subseteq Hash \ {NoHash}            \* dtm is always there
    /\ device0 \in [Device -> DeviceRow \cup {None}]
    /\ gateway0 \in [Gateway -> GatewayRow \cup {None}]
    /\ MaxEdits \in Nat /\ MaxFaults \in Nat

VARIABLES
    dev, gate,           \* the tables
    sys,                 \* systems:by-ip, NoHash if there is no key
    psk, site, nat,      \* fleetipsec:psk, :site (its NAT mode) and :nat, None if absent
    op,                  \* the requests
    edits, faults,       \* counters of the bounds
    raced, failed, shared,  \* history: addresses that two requests concerned at the same
                         \*   time, a failed request concerned, two rows had at once
    saved                \* history: the rows a request has written or spooled

tables  == <<dev, gate>>
keys    == <<sys, psk, site, nat>>
history == <<raced, failed, shared>>
vars    == <<tables, keys, op, edits, faults, history, saved>>

\* on: the row the request is about; new: what it writes; prev: address and gateway it read
\* first; cur: the row it read back, or the address a gateway was spooled under; todo: gateways
\* to spool; row, ips: what it read of the first of them; alone: no other request during it.
NoOp == [at |-> "idle", on |-> None, new |-> None, prev |-> [ip |-> None, gw |-> None],
         cur |-> [ip |-> None, gw |-> None], info |-> NoHash, todo |-> <<>>,
         row |-> None, ips |-> {}, alone |-> FALSE]

Requests == [at : {"idle", "update", "delete", "load", "del", "hset", "unlink", "gate", "devices",
                   "psk", "site", "nat", "gupdate", "gselect", "gdelete", "stale"},
             on : Device \cup Gateway \cup {None}, new : DeviceRow \cup GatewayRow \cup {None},
             prev : [ip : Ip \cup Pub \cup {None}, gw : Gateway \cup {None}],
             cur : [ip : Ip \cup Pub \cup {None}, gw : Gateway \cup {None}],
             info : Info \cup {NoHash}, todo : Seq(Gateway), row : GatewayRow \cup {None},
             ips : SUBSET Ip, alone : BOOLEAN]

--------------------------------------------------------------------------------
(* Which addresses a request concerns, and what is remembered of it *)

Active(e)   == op[e].at # "idle"
Owners(i)   == {d \in Device : dev[d] # None /\ dev[d].ip = i}
Holders(q)  == {g \in Gateway : gate[g] # None /\ gate[g].ip = q}
Attached(g) == {d \in Device : dev[d] # None /\ dev[d].gw = g}
RowOf(x)    == IF x \in Device THEN dev[x] ELSE IF x \in Gateway THEN gate[x] ELSE None

\* The gateways a request about a device spools or would spool.
Gates(e) ==
    IF op[e].on \in Gateway THEN {op[e].on}
    ELSE ({op[e].prev.gw, op[e].cur.gw}
            \cup {r.gw : r \in {op[e].new, RowOf(op[e].on)} \ {None}}) \ {None}

Concerns(e) ==
    ({op[e].prev.ip, op[e].cur.ip}
        \cup {r.ip : r \in {op[e].new, op[e].row, RowOf(op[e].on)} \ {None}}
        \cup {gate[g].ip : g \in {h \in Gates(e) : gate[h] # None}}) \ {None}

Untouched(a) == \A e \in Op : Active(e) => a \notin Concerns(e)

Meetings ==
    LET Busy == {e \in Op : Active(e)} IN
    UNION {Concerns(e) \cap UNION {Concerns(f) : f \in Busy \ {e}} : e \in Busy}

Doubles ==
    {i \in Ip : \E c, d \in Owners(i) : c # d} \cup {q \in Pub : \E g, h \in Holders(q) : g # h}

Init ==
    /\ dev = device0 /\ gate = gateway0
    /\ sys = [i \in Ip |-> NoHash]
    /\ psk = [q \in Pub |-> None] /\ site = [q \in Pub |-> None] /\ nat = [q \in Pub |-> None]
    /\ op = [e \in Op |-> NoOp]
    /\ edits = 0 /\ faults = 0
    /\ raced = {} /\ failed = {} /\ saved = {}
    /\ shared = Doubles

--------------------------------------------------------------------------------
(* The steps of a request *)

At(e, where) == op[e].at = where

Begin(e, q) ==
    /\ At(e, "idle")
    /\ edits < MaxEdits
    /\ edits' = edits + 1
    /\ op' = [f \in Op |->
                IF f = e THEN [q EXCEPT !.alone = \A x \in Op \ {e} : ~Active(x)]
                         ELSE [op[f] EXCEPT !.alone = FALSE]]
    /\ UNCHANGED <<keys, faults>>

\* A step that only moves the request on.
Goes(e, q) == op' = [op EXCEPT ![e] = q] /\ UNCHANGED <<edits, faults>>

End(e) == Goes(e, NoOp)

\* What follows a gateway: the next, then (for a saved gateway) the stale keys, then the end.
After(e, todo) ==
    IF todo # <<>> THEN [op[e] EXCEPT !.at = "gate", !.todo = todo, !.row = None, !.ips = {}]
    ELSE IF op[e].on \in Gateway
         THEN [op[e] EXCEPT !.at = "stale", !.todo = <<>>, !.row = None, !.ips = {}]
         ELSE NoOp

\* updateDevice: the row as it was. The form offers the gateways there are.
UpdateDevice(e, d, r) ==
    /\ dev[d] # None
    /\ r.gw # None => gate[r.gw] # None
    /\ Begin(e, [NoOp EXCEPT !.at = "update", !.on = d, !.new = r,
                             !.prev = [ip |-> dev[d].ip, gw |-> dev[d].gw]])
    /\ UNCHANGED <<tables, saved>>

\* UPDATE device: for a row that is gone nothing is written and the request goes on to spool;
\* for a row that is there, a gateway that is gone fails the foreign key and ends it.
WriteDevice(e) ==
    LET d == op[e].on  r == op[e].new IN
    /\ At(e, "update")
    /\ \/ /\ dev[d] # None /\ r.gw # None => gate[r.gw] # None
          /\ dev' = [dev EXCEPT ![d] = IF @ = None THEN None ELSE r]
          /\ saved' = saved \cup {d}
          /\ Goes(e, [op[e] EXCEPT !.at = "load"])
       \/ /\ dev[d] # None /\ r.gw # None /\ gate[r.gw] = None
          /\ End(e)
          /\ UNCHANGED <<dev, saved>>
    /\ UNCHANGED <<gate, keys>>

\* createDevice: a new row under a new id.
CreateDevice(e, d, r) ==
    /\ dev[d] = None
    /\ \A f \in Op : op[f].on # d
    /\ r.gw # None => gate[r.gw] # None
    /\ dev' = [dev EXCEPT ![d] = r]
    /\ saved' = saved \cup {d}
    /\ Begin(e, [NoOp EXCEPT !.at = "load", !.on = d, !.new = r])
    /\ UNCHANGED gate

\* deleteDevice: the row as it was, then the DELETE, then the spools.
DeleteDevice(e, d) ==
    /\ dev[d] # None
    /\ Begin(e, [NoOp EXCEPT !.at = "delete", !.on = d,
                             !.prev = [ip |-> dev[d].ip, gw |-> dev[d].gw]])
    /\ UNCHANGED <<tables, saved>>

DropDevice(e) ==
    /\ At(e, "delete")
    /\ dev' = [dev EXCEPT ![op[e].on] = None]
    /\ Goes(e, [op[e] EXCEPT !.at = "unlink"])
    /\ UNCHANGED <<gate, keys, saved>>

\* loadDeviceRow: without a row or an address no key is written.
LoadDevice(e) ==
    LET r == dev[op[e].on] IN
    /\ At(e, "load")
    /\ Goes(e, IF r = None THEN [op[e] EXCEPT !.at = "unlink"]
               ELSE [op[e] EXCEPT !.at = IF r.ip = None THEN "unlink" ELSE "del",
                                  !.cur = [ip |-> r.ip, gw |-> r.gw], !.info = r.info])
    /\ UNCHANGED <<tables, keys, saved>>

\* Mutant of DelHash: the key is emptied only when the address has changed.
DelHashOnMove(e) ==
    /\ At(e, "del")
    /\ sys' = IF op[e].prev.ip = op[e].cur.ip THEN sys
              ELSE [sys EXCEPT ![op[e].cur.ip] = NoHash]
    /\ Goes(e, [op[e] EXCEPT !.at = "hset"])
    /\ UNCHANGED <<tables, psk, site, nat, saved>>

DelHash(e) ==
    /\ At(e, "del")
    /\ sys' = [sys EXCEPT ![op[e].cur.ip] = NoHash]
    /\ Goes(e, [op[e] EXCEPT !.at = "hset"])
    /\ UNCHANGED <<tables, psk, site, nat, saved>>

\* HSET sets the fields it names and leaves the others.
Merge(h, new) == [f \in Field |-> IF new[f] # None THEN new[f] ELSE h[f]]

SetHash(e) ==
    /\ At(e, "hset")
    /\ sys' = [sys EXCEPT ![op[e].cur.ip] = Merge(@, op[e].info)]
    /\ Goes(e, [op[e] EXCEPT !.at = "unlink"])
    /\ UNCHANGED <<tables, psk, site, nat, saved>>

\* Mutant of Leaves: an address that was cleared is not taken for a change.
LeavesForAnother(e) == op[e].prev.ip # None /\ op[e].cur.ip \notin {None, op[e].prev.ip}

\* The key of an old address goes. A delete comes here with nothing read back.
Leaves(e) == op[e].prev.ip # None /\ op[e].prev.ip # op[e].cur.ip

\* Mutant of ToSpool: only the gateway the device is attached to now.
ToSpoolPresent(e) == IF op[e].cur.gw = None THEN <<>> ELSE <<op[e].cur.gw>>

\* The gateways to spool: the present one and the one the device was attached to.
ToSpool(e) ==
    LET c == op[e].cur.gw  p == op[e].prev.gw IN
    (IF c = None THEN <<>> ELSE <<c>>) \o (IF p \in {None, c} THEN <<>> ELSE <<p>>)

UnlinkOld(e) ==
    /\ At(e, "unlink")
    /\ sys' = IF Leaves(e) THEN [sys EXCEPT ![op[e].prev.ip] = NoHash] ELSE sys
    /\ Goes(e, After(e, ToSpool(e)))
    /\ UNCHANGED <<tables, psk, site, nat, saved>>

--------------------------------------------------------------------------------
(* spoolGateway *)

\* Nothing to key on: the row is gone or has no public address.
Keyless(g) == IF gate[g] = None THEN TRUE ELSE gate[g].ip = None

ReadGateway(e) ==
    LET g == Head(op[e].todo) IN
    /\ At(e, "gate")
    /\ \/ /\ Keyless(g)
          /\ Goes(e, After(e, Tail(op[e].todo)))
          /\ UNCHANGED saved
       \/ /\ ~Keyless(g)
          /\ Goes(e, [op[e] EXCEPT !.at = "devices", !.row = gate[g]])
          /\ saved' = saved \cup {g}
    /\ UNCHANGED <<tables, keys>>

\* Mutant of ReadDevices: a device without an address is listed as well.
ReadDevicesAll(e) ==
    /\ At(e, "devices")
    /\ Goes(e, [op[e] EXCEPT !.at = "psk",
                             !.ips = {dev[d].ip : d \in Attached(Head(op[e].todo))}])
    /\ UNCHANGED <<tables, keys, saved>>

ReadDevices(e) ==
    /\ At(e, "devices")
    /\ Goes(e, [op[e] EXCEPT !.at = "psk",
                             !.ips = {dev[d].ip : d \in Attached(Head(op[e].todo))} \ {None}])
    /\ UNCHANGED <<tables, keys, saved>>

\* Mutant of SetPsk: a PSK that was cleared stays in its key.
SetPskIfAny(e) ==
    /\ At(e, "psk")
    /\ psk' = [psk EXCEPT ![op[e].row.ip] = IF op[e].row.psk = None THEN @ ELSE op[e].row.psk]
    /\ Goes(e, [op[e] EXCEPT !.at = "site"])
    /\ UNCHANGED <<tables, sys, site, nat, saved>>

SetPsk(e) ==
    /\ At(e, "psk")
    /\ psk' = [psk EXCEPT ![op[e].row.ip] = op[e].row.psk]
    /\ Goes(e, [op[e] EXCEPT !.at = "site"])
    /\ UNCHANGED <<tables, sys, site, nat, saved>>

SetSite(e) ==
    /\ At(e, "site")
    /\ site' = [site EXCEPT ![op[e].row.ip] = op[e].row.mode]
    /\ Goes(e, [op[e] EXCEPT !.at = "nat"])
    /\ UNCHANGED <<tables, sys, psk, nat, saved>>

SetNat(e) ==
    LET g == op[e].row IN
    /\ At(e, "nat")
    /\ nat' = [nat EXCEPT ![g.ip] = [mode |-> g.mode, ips |-> op[e].ips]]
    /\ Goes(e, LET next == After(e, Tail(op[e].todo))
               IN  IF next.at = "stale" THEN [next EXCEPT !.cur.ip = g.ip] ELSE next)
    /\ UNCHANGED <<tables, sys, psk, site, saved>>

--------------------------------------------------------------------------------
(* Saving and deleting a gateway *)

UpdateGateway(e, g, r) ==
    /\ gate[g] # None
    /\ Begin(e, [NoOp EXCEPT !.at = "gupdate", !.on = g, !.new = r, !.prev.ip = gate[g].ip])
    /\ UNCHANGED <<tables, saved>>

WriteGateway(e) ==
    LET g == op[e].on IN
    /\ At(e, "gupdate")
    /\ gate' = [gate EXCEPT ![g] = IF @ = None THEN None ELSE op[e].new]
    /\ saved' = saved \cup {g}
    /\ Goes(e, [op[e] EXCEPT !.at = "gate", !.todo = <<g>>])
    /\ UNCHANGED <<dev, keys>>

CreateGateway(e, g, r) ==
    /\ gate[g] = None
    /\ \A f \in Op : g # op[f].on /\ g \notin Gates(f)
    /\ gate' = [gate EXCEPT ![g] = r]
    /\ saved' = saved \cup {g}
    /\ Begin(e, [NoOp EXCEPT !.at = "gate", !.on = g, !.new = r, !.todo = <<g>>])
    /\ UNCHANGED dev

\* deleteGateway: refused while devices use it.
DeleteGateway(e, g) ==
    /\ gate[g] # None /\ Attached(g) = {}
    /\ Begin(e, [NoOp EXCEPT !.at = "gselect", !.on = g])
    /\ UNCHANGED <<tables, saved>>

SelectGateway(e) ==
    LET g == op[e].on IN
    /\ At(e, "gselect")
    /\ Goes(e, [op[e] EXCEPT !.at = "gdelete",
                             !.prev.ip = IF gate[g] = None THEN None ELSE gate[g].ip])
    /\ UNCHANGED <<tables, keys, saved>>

\* The foreign key refuses the DELETE if a device has come in between.
DropGateway(e) ==
    LET g == op[e].on IN
    /\ At(e, "gdelete")
    /\ \/ /\ Attached(g) = {}
          /\ gate' = [gate EXCEPT ![g] = None]
          /\ Goes(e, [op[e] EXCEPT !.at = "stale"])
       \/ /\ Attached(g) # {}
          /\ End(e)
          /\ UNCHANGED gate
    /\ UNCHANGED <<dev, keys, saved>>

\* deleteGatewayKeys: one UNLINK of the three keys.
UnlinkGateway(e) ==
    LET q == op[e].prev.ip
        Without(k) == IF Leaves(e) THEN [k EXCEPT ![q] = None] ELSE k IN
    /\ At(e, "stale")
    /\ psk' = Without(psk) /\ site' = Without(site) /\ nat' = Without(nat)
    /\ End(e)
    /\ UNCHANGED <<tables, sys, saved>>

--------------------------------------------------------------------------------
(* A statement or command fails, or the process dies: the request ends where it is. *)
Fail(e) ==
    /\ Active(e)
    /\ faults < MaxFaults
    /\ faults' = faults + 1
    /\ op' = [op EXCEPT ![e] = NoOp]
    /\ UNCHANGED <<tables, keys, edits, saved>>

DeviceRequest(e) ==
    \E d \in Device : DeleteDevice(e, d)
        \/ \E r \in DeviceRow : UpdateDevice(e, d, r) \/ CreateDevice(e, d, r)

GatewayRequest(e) ==
    \E g \in Gateway : DeleteGateway(e, g)
        \/ \E r \in GatewayRow : UpdateGateway(e, g, r) \/ CreateGateway(e, g, r)

DeviceStep(e) ==
    WriteDevice(e) \/ DropDevice(e) \/ LoadDevice(e) \/ DelHash(e) \/ SetHash(e) \/ UnlinkOld(e)

GatewayStep(e) ==
    \/ ReadGateway(e) \/ ReadDevices(e) \/ SetPsk(e) \/ SetSite(e) \/ SetNat(e)
    \/ WriteGateway(e) \/ SelectGateway(e) \/ DropGateway(e) \/ UnlinkGateway(e)

\* The history is kept beside the steps, whatever they are.
Remember(e) ==
    /\ raced' = raced \cup Meetings'
    /\ shared' = shared \cup Doubles'
    /\ failed' = IF faults' # faults THEN failed \cup Concerns(e) ELSE failed

Next ==
    \E e \in Op :
        /\ DeviceRequest(e) \/ GatewayRequest(e) \/ DeviceStep(e) \/ GatewayStep(e) \/ Fail(e)
        /\ Remember(e)

Spec == Init /\ [][Next]_vars

--------------------------------------------------------------------------------
(* Properties *)

\* Tables, keys and requests have the values the code can give them; in particular no key
\* lists a device without an address.
TypeOK ==
    /\ dev \in [Device -> DeviceRow \cup {None}]
    /\ gate \in [Gateway -> GatewayRow \cup {None}]
    /\ sys \in [Ip -> Hash]
    /\ psk \in [Pub -> Psk \cup {None}]
    /\ site \in [Pub -> Mode \cup {None}]
    /\ nat \in [Pub -> NatRecord \cup {None}]
    /\ op \in [Op -> Requests]
    /\ edits \in 0 .. MaxEdits /\ faults \in 0 .. MaxFaults
    /\ raced \cup failed \cup shared \subseteq Ip \cup Pub
    /\ saved \subseteq Device \cup Gateway

Bare(q)     == psk[q] = None /\ site[q] = None /\ nat[q] = None
Spooled(g)  == LET q == gate[g].ip IN
    /\ psk[q] = gate[g].psk
    /\ site[q] = gate[g].mode
    /\ nat[q] = [mode |-> gate[g].mode, ips |-> {dev[d].ip : d \in Attached(g)} \ {None}]

Suspect == raced \cup failed \cup shared

\* systems:by-ip is a projection of the table: once no request concerns an address, its key is
\* what the device that has the address should have there, and there is no key without such a
\* device; devices nobody has saved since the import may have none. It may be otherwise where
\* two requests met, one failed, or two devices had the address at the same time.
DeviceKeys ==
    \A i \in Ip \ Suspect : Untouched(i) =>
        IF Owners(i) = {} THEN sys[i] = NoHash
        ELSE \A d \in Owners(i) : sys[i] = dev[d].info \/ (d \notin saved /\ sys[i] = NoHash)

\* So are the three keys of a gateway: they exist together, agree with the row and with the
\* devices attached now, and go with the gateway or its address: a device that moves, is
\* deleted or changes its address changes the NAT record of every gateway it concerns.
GatewayKeys ==
    \A q \in Pub \ Suspect : Untouched(q) =>
        IF Holders(q) = {} THEN Bare(q)
        ELSE \A g \in Holders(q) : Spooled(g) \/ (g \notin saved /\ Bare(q))

\* DEL before HSET: unless two requests about an address overlapped, its key is at every moment
\* the hash of one row, never fields of one with fields of an earlier one; and that holds also
\* where requests failed half-way or devices shared the address.
NoMixedHash == \A i \in Ip \ raced : sys[i] \in Info \cup {NoHash}

\* A save heals: a request that ran alone to its end leaves the keys of every address it
\* concerned right, whatever earlier failures and races had left there, unless another row has
\* the address.
SaveRepairs ==
    [][\A e \in Op : op[e].alone /\ op'[e].at = "idle" /\ Active(e) /\ faults' = faults =>
          \A a \in Concerns(e) :
              /\ a \in Ip /\ Owners(a)' = {} => sys'[a] = NoHash
              /\ a \in Pub /\ Holders(a)' = {} => Bare(a)'
              /\ \A d \in Device : Owners(a)' = {d} /\ d = op[e].on => sys'[a] = dev'[d].info
              /\ \A g \in Gates(e) : Holders(a)' = {g} => Spooled(g)']_vars
=============================================================================
