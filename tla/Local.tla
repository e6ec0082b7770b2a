-------------------------------- MODULE Local --------------------------------
(***************************************************************************)
(* The tables a household keeps of its own names (local.rs), and where a   *)
(* question goes that they do not answer (router.rs).                      *)
(*                                                                         *)
(* A zone is configured as [zone, closed, records], a record as [name,     *)
(* type, value, parses]; its name, and the value of one that points to a   *)
(* name, is [labels, absolute].  Time to live and the wire are left out,   *)
(* and that a name may get too long.                                       *)
(***************************************************************************)
EXTENDS Names, TLC

Types == {"A", "AAAA", "CNAME", "TXT", "PTR", "SRV"}
Pointers == {"CNAME", "PTR", "SRV"}

(* qualify: `@` is the relative name without labels. *)
Qualify(raw, zone) == IF raw.absolute THEN raw.labels ELSE raw.labels \o zone

(* qualify_target *)
Data(record, zone) ==
  [type |-> record.type,
   value |-> IF record.type \in Pointers THEN Qualify(record.value, zone)
             ELSE record.value]

(* build_zone: the table; more than one line of a name keep their order. *)
Table(c) ==
  LET NameOf(r) == Qualify(r.name, c.zone)
  IN  [n \in {NameOf(c.records[i]) : i \in DOMAIN c.records} |->
         LET own == SelectSeq(c.records, LAMBDA r : NameOf(r) = n)
         IN  [i \in DOMAIN own |-> Data(own[i], c.zone)]]

Ambiguous(data) ==
  \/ Len(data) > 1 /\ \E i \in DOMAIN data : data[i].type = "CNAME"
  \/ Cardinality(ToSet(data)) < Len(data)

(* build_zone: what it does not accept. *)
ZoneIsWrong(c) ==
  \/ c.zone = Root
  \/ \E i \in DOMAIN c.records :
       \/ ~Within(Qualify(c.records[i].name, c.zone), c.zone)
       \/ c.records[i].type \notin Types
       \/ ~c.records[i].parses
  \/ \E n \in DOMAIN Table(c) : Ambiguous(Table(c)[n])

(* build_zones: each zone for itself, then no zone and no name twice. *)
ZonesAreWrong(cs) ==
  \/ \E i \in DOMAIN cs : ZoneIsWrong(cs[i])
  \/ \E i, j \in DOMAIN cs :
       /\ i # j
       /\ \/ cs[i].zone = cs[j].zone
          \/ DOMAIN Table(cs[i]) \cap DOMAIN Table(cs[j]) # {}

BuildZones(cs) ==
  {[zone |-> cs[i].zone, closed |-> cs[i].closed, entries |-> Table(cs[i])] : i \in DOMAIN cs}

(* rebinding_exempt: a closed zone as a whole, of an open one its entries. *)
RebindingExempt(zone) == IF zone.closed THEN {zone.zone} ELSE DOMAIN zone.entries

-----------------------------------------------------------------------------
Apexes(zones) == {z.zone : z \in zones}

(* LocalBackend::new: of the zones to be forwarded, those in a local one. *)
Retained(zones, forward) ==
  {f \in forward : \E z \in Apexes(zones) : Len(f) > Len(z) /\ Within(f, z)}

LocalZoneOf(zones, name) == {z \in zones : z.zone \in Deepest(name, Apexes(zones))}

(* Mutation: any zone to be forwarded takes a name from a local zone. *)
OverruledByAny(zones, forward, name) ==
  LocalZoneOf(zones, name) # {} /\ Deepest(name, forward) # {}

(* resolve: a zone to be forwarded that is deeper than the local one. *)
Overruled(zones, forward, name) ==
  \E z \in LocalZoneOf(zones, name), f \in Retained(zones, forward) :
    Len(f) > Len(z.zone) /\ Within(name, f)

EntryIn(zones, name) == {z \in zones : name \in DOMAIN z.entries}

(* A CNAME answers to every type, and nothing to ANY. *)
Answers(data, type) ==
  SelectSeq(data, LAMBDA d : type # "ANY" /\ (d.type = type \/ d.type = "CNAME"))

Answered(code, records) == {[code |-> code, records |-> records]}

(***************************************************************************)
(* LocalBackend::resolve: the answer, or none if the question goes on to   *)
(* the router.  ddr is the set with the zone of RFC 9462, builtin that of  *)
(* RFC 6303.                                                               *)
(***************************************************************************)
LocalAnswer(zones, forward, ddr, builtin, q) ==
  LET local == LocalZoneOf(zones, q.name)
      underDdr == Deepest(q.name, ddr) # {}
      entry == EntryIn(zones, q.name)
  IN  CASE q.class # "IN" \/ (~underDdr /\ Overruled(zones, forward, q.name)) -> {}
        [] OTHER ->
           IF entry # {}
           THEN LET z == CHOOSE z \in entry : TRUE
                IN  Answered("NoError", ToSet(Answers(z.entries[q.name], q.type)))
           ELSE IF underDdr THEN Answered("NoError", {})
           ELSE IF \E z \in local : z.closed THEN Answered("NXDomain", {})
           ELSE IF /\ local = {} /\ Deepest(q.name, forward) = {}
                   /\ Deepest(q.name, builtin) # {}
           THEN Answered("NXDomain", {})
           ELSE {}

(* ZoneRouter::zone_for: the deepest zone, or the pool. *)
Route(forward, name) == Deepest(name, forward)

-----------------------------------------------------------------------------
(* `check` (main.rs): the zones to be forwarded that it does not call dead, *)
Live(forward, ddr) == {f \in forward : Deepest(f, ddr) = {}}

(* where it says that names without an entry in an open zone go, ...       *)
NamesGoOn(zone, forward, ddr) ==
  IF \E f \in Live(forward, ddr) : f # zone /\ Within(zone, f) THEN "resolution" ELSE "upstream"

(* ... and the pairs of a forwarded and a local zone it has a line for.    *)
ForwardInLocal(zones, forward, ddr) ==
  {p \in Live(forward, ddr) \X zones : p[1] # p[2].zone /\ Within(p[1], p[2].zone)}

LocalInForward(zones, forward, ddr) ==
  {p \in Live(forward, ddr) \X zones : p[1] # p[2].zone /\ Within(p[2].zone, p[1])}
=============================================================================
