------------------------ MODULE ServicePorts_proofs ------------------------
(***************************************************************************)
(* Proofs about ServicePorts, for any number of services and any ranges.   *)
(***************************************************************************)
EXTENDS ServicePorts, FiniteSetTheorems, WellFoundedInduction, TLAPS

\* Ranges hold natural numbers.
LEMMA RangesType ==
    \A f \in WebFields \cup PatroniFields : PortRange[f] \subseteq Nat
BY PortsAssumption DEF PortRange, WebFields, PatroniFields

\* A port that is allocated is in its range, and is not a used one.
LEMMA AllocatedPort ==
    ASSUME NEW used, NEW existing, NEW f, NEW port, Allocated(used, existing, f, port)
    PROVE  port \in PortRange[f] \ used
BY DEF Allocated

-----------------------------------------------------------------------------
(***************************************************************************)
(* The inductive invariant: the ports of a service differ from one another *)
(* and from those of every other service.                                  *)
(***************************************************************************)
Injective(service) ==
    \A f, g \in DOMAIN service.ports : service.ports[f] = service.ports[g] => f = g

PortInv ==
    /\ TypeOK
    /\ \A s \in Deployed : Injective(services[s])
    /\ \A s, t \in Deployed : s # t => PortsOf(services[s]) \cap PortsOf(services[t]) = {}

LEMMA PortInvDistinct == PortInv => PortsDistinct
BY DEF PortInv, PortsDistinct, PortsOf, Injective

\* A service may take the place of s if its ports are distinct and none of
\* them is one of another service.
LEMMA ReplaceKeepsInv ==
    ASSUME PortInv, NEW s \in Services, NEW v \in WebServices \cup PatroniServices,
           Injective(v), PortsOf(v) \cap UsedPorts(s) = {},
           services' = [services EXCEPT ![s] = v]
    PROVE  PortInv'
<1>1. TypeOK'
  BY DEF PortInv, TypeOK
<1>2. /\ services'[s] = v
      /\ \A t \in Services \ {s} : services'[t] = services[t]
  BY DEF PortInv, TypeOK
<1>3. Deployed' = Deployed \cup {s}
  BY <1>2, PortsAssumption DEF Deployed
<1>4. \A t \in Deployed' : Injective(services'[t])
  BY <1>2, <1>3 DEF PortInv, Deployed
<1>5. \A t \in Deployed \ {s} : PortsOf(services[t]) \cap PortsOf(v) = {}
  BY DEF UsedPorts
<1>6. \A t, u \in Deployed' : t # u => PortsOf(services'[t]) \cap PortsOf(services'[u]) = {}
  <2> SUFFICES ASSUME NEW t \in Deployed', NEW u \in Deployed', t # u
               PROVE  PortsOf(services'[t]) \cap PortsOf(services'[u]) = {}
    OBVIOUS
  <2>1. CASE t = s
    BY <1>2, <1>3, <1>5, <2>1 DEF Deployed
  <2>2. CASE u = s
    BY <1>2, <1>3, <1>5, <2>2 DEF Deployed
  <2>3. CASE t # s /\ u # s
    BY <1>2, <1>3, <2>3 DEF PortInv, Deployed
  <2>4. QED
    BY <2>1, <2>2, <2>3
<1>7. QED
  BY <1>1, <1>4, <1>6 DEF PortInv

LEMMA SetWebServiceKeepsInv ==
    ASSUME PortInv, NEW s \in Services, SetWebService(s)
    PROVE  PortInv'
<1>1. PICK port \in PortRange["exposed_port"] :
         /\ Allocated(UsedPorts(s), services[s], "exposed_port", port)
         /\ services' = [services EXCEPT ![s] =
               [type |-> "web", ports |-> [f \in WebFields |-> port]]]
  BY DEF SetWebService, WebAllocation
<1> DEFINE v == [type |-> "web", ports |-> [f \in WebFields |-> port]]
<1>2. v \in WebServices
  BY RangesType DEF WebServices, WebFields
<1>3. PortsOf(v) = {port} /\ Injective(v)
  BY DEF PortsOf, Injective, WebFields
<1>4. port \notin UsedPorts(s)
  BY <1>1, AllocatedPort
<1>5. QED
  BY <1>1, <1>2, <1>3, <1>4, ReplaceKeepsInv

LEMMA SetPatroniServiceKeepsInv ==
    ASSUME PortInv, NEW s \in Services, SetPatroniService(s)
    PROVE  PortInv'
<1>1. PICK pg \in PortRange["postgres_port"], rw \in PortRange["read_write_port"],
           ro \in PortRange["read_only_port"], rest \in PortRange["patroni_rest_port"] :
         /\ Allocated(UsedPorts(s), services[s], "postgres_port", pg)
         /\ Allocated(UsedPorts(s) \cup {pg}, services[s], "read_write_port", rw)
         /\ Allocated(UsedPorts(s) \cup {pg, rw}, services[s], "read_only_port", ro)
         /\ Allocated(UsedPorts(s) \cup {pg, rw, ro}, services[s], "patroni_rest_port", rest)
         /\ services' = [services EXCEPT ![s] =
               [type |-> "patroni", ports |-> PatroniPorts(pg, rw, ro, rest)]]
  BY DEF SetPatroniService, PatroniAllocation
<1> DEFINE p == PatroniPorts(pg, rw, ro, rest)
           v == [type |-> "patroni", ports |-> p]
<1>2. /\ pg \notin UsedPorts(s)
      /\ rw \notin UsedPorts(s) \cup {pg}
      /\ ro \notin UsedPorts(s) \cup {pg, rw}
      /\ rest \notin UsedPorts(s) \cup {pg, rw, ro}
  BY <1>1, AllocatedPort
<1>3. /\ DOMAIN p = PatroniFields
      /\ p["postgres_port"] = pg /\ p["read_write_port"] = rw
      /\ p["read_only_port"] = ro /\ p["patroni_rest_port"] = rest
  BY DEF PatroniPorts, PatroniFields
<1>4. \A f \in PatroniFields : p[f] \in PortRange[f] /\ p[f] \in Nat
  BY <1>1, <1>3, RangesType DEF PatroniFields
<1>5. p \in [PatroniFields -> Nat]
  BY <1>4, RangesType DEF PatroniPorts, PatroniFields
<1>6. v \in PatroniServices
  BY <1>4, <1>5 DEF PatroniServices
<1>7. Injective(v)
  BY <1>2, <1>3 DEF Injective, PatroniFields
<1>8. PortsOf(v) \cap UsedPorts(s) = {}
  BY <1>2, <1>3 DEF PortsOf, PatroniFields
<1>9. QED
  BY <1>1, <1>6, <1>7, <1>8, ReplaceKeepsInv

LEMMA RemoveServiceKeepsInv ==
    ASSUME PortInv, NEW s \in Services, RemoveService(s)
    PROVE  PortInv'
<1>1. TypeOK'
  BY DEF PortInv, TypeOK, RemoveService
<1>2. Deployed' \subseteq Deployed /\ \A t \in Deployed' : services'[t] = services[t]
  BY DEF PortInv, TypeOK, RemoveService, Deployed
<1>3. QED
  BY <1>1, <1>2 DEF PortInv

LEMMA PortInvStep == PortInv /\ [Next]_services => PortInv'
<1> SUFFICES ASSUME PortInv, [Next]_services  PROVE PortInv'
  OBVIOUS
<1>1. CASE Next
  BY <1>1, SetWebServiceKeepsInv, SetPatroniServiceKeepsInv, RemoveServiceKeepsInv DEF Next
<1>2. CASE UNCHANGED services
  BY <1>2 DEF PortInv, TypeOK, Deployed
<1>3. QED
  BY <1>1, <1>2

LEMMA PortInvHolds == Spec => []PortInv
<1>1. Init => PortInv
  BY DEF Init, PortInv, TypeOK, Deployed
<1>2. QED
  BY <1>1, PortInvStep, PTL DEF Spec

\* The services keep their types, and every port is one its schema accepts.
THEOREM TypeCorrect == Spec => []TypeOK
<1>1. PortInv => TypeOK
  BY DEF PortInv
<1>2. QED
  BY <1>1, PortInvHolds, PTL

\* Whatever is deployed, deployed again and removed, and however the ranges
\* overlap, no port is ever given twice.
THEOREM PortsNeverShared == Spec => []PortsDistinct
<1>1. QED
  BY PortInvHolds, PortInvDistinct, PTL

-----------------------------------------------------------------------------
(***************************************************************************)
(* Stability.  Because no other service has them, a service may always     *)
(* keep the ports it has; allocatePort then returns them.                  *)
(***************************************************************************)
\* A field that is deployed again keeps its port, if the fields before it do.
LEMMA AllocatedKeeps ==
    ASSUME PortInv, NEW s \in Deployed, NEW f \in DOMAIN services[s].ports,
           NEW before, services[s].ports[f] \notin before, NEW port,
           Allocated(UsedPorts(s) \cup before, services[s], f, port)
    PROVE  port = services[s].ports[f]
<1>1. services[s].ports[f] \in PortRange[f] /\ services[s] # NotDeployed
  BY DEF PortInv, TypeOK, Deployed, WebServices, PatroniServices
<1>2. services[s].ports[f] \in PortsOf(services[s])
  BY DEF PortsOf
<1>3. services[s].ports[f] \notin UsedPorts(s)
  BY <1>2 DEF PortInv, UsedPorts
<1>4. QED
  BY <1>1, <1>3 DEF Allocated

LEMMA SetWebServiceStable ==
    ASSUME PortInv, NEW s \in Deployed, SetWebService(s)
    PROVE  services'[s].ports = services[s].ports
<1>1. s \in Services /\ services[s] \in WebServices
  BY DEF SetWebService, HasType, PortInv, TypeOK, Deployed, PatroniServices
<1>2. PICK port \in PortRange["exposed_port"] :
         /\ Allocated(UsedPorts(s), services[s], "exposed_port", port)
         /\ services' = [services EXCEPT ![s] =
               [type |-> "web", ports |-> [f \in WebFields |-> port]]]
  BY DEF SetWebService, WebAllocation
<1>3. services[s].ports \in [WebFields -> Nat]
  BY <1>1 DEF WebServices
<1>4. port = services[s].ports["exposed_port"]
  <2>1. Allocated(UsedPorts(s) \cup {}, services[s], "exposed_port", port)
    BY <1>2
  <2>2. QED
    BY <1>3, <2>1, AllocatedKeeps DEF WebFields
<1>5. services'[s].ports = [f \in WebFields |-> port]
  BY <1>1, <1>2 DEF PortInv, TypeOK
<1>6. QED
  BY <1>3, <1>4, <1>5 DEF WebFields

LEMMA SetPatroniServiceStable ==
    ASSUME PortInv, NEW s \in Deployed, SetPatroniService(s)
    PROVE  services'[s].ports = services[s].ports
<1>1. s \in Services /\ services[s] \in PatroniServices
  BY DEF SetPatroniService, HasType, PortInv, TypeOK, Deployed, WebServices
<1>2. PICK pg \in PortRange["postgres_port"], rw \in PortRange["read_write_port"],
           ro \in PortRange["read_only_port"], rest \in PortRange["patroni_rest_port"] :
         /\ Allocated(UsedPorts(s), services[s], "postgres_port", pg)
         /\ Allocated(UsedPorts(s) \cup {pg}, services[s], "read_write_port", rw)
         /\ Allocated(UsedPorts(s) \cup {pg, rw}, services[s], "read_only_port", ro)
         /\ Allocated(UsedPorts(s) \cup {pg, rw, ro}, services[s], "patroni_rest_port", rest)
         /\ services' = [services EXCEPT ![s] =
               [type |-> "patroni", ports |-> PatroniPorts(pg, rw, ro, rest)]]
  BY DEF SetPatroniService, PatroniAllocation
<1> DEFINE old == services[s].ports
<1>3. old \in [PatroniFields -> Nat] /\ DOMAIN old = PatroniFields
  BY <1>1 DEF PatroniServices
<1>4. \A f, g \in PatroniFields : old[f] = old[g] => f = g
  BY <1>3 DEF PortInv, Injective
<1>5. pg = old["postgres_port"]
  <2>1. Allocated(UsedPorts(s) \cup {}, services[s], "postgres_port", pg)
    BY <1>2
  <2>2. QED
    BY <1>3, <2>1, AllocatedKeeps DEF PatroniFields
<1>6. rw = old["read_write_port"]
  <2>1. old["read_write_port"] \notin {pg}
    BY <1>4, <1>5 DEF PatroniFields
  <2>2. QED
    BY <1>2, <1>3, <2>1, AllocatedKeeps DEF PatroniFields
<1>7. ro = old["read_only_port"]
  <2>1. old["read_only_port"] \notin {pg, rw}
    BY <1>4, <1>5, <1>6 DEF PatroniFields
  <2>2. QED
    BY <1>2, <1>3, <2>1, AllocatedKeeps DEF PatroniFields
<1>8. rest = old["patroni_rest_port"]
  <2>1. old["patroni_rest_port"] \notin {pg, rw, ro}
    BY <1>4, <1>5, <1>6, <1>7 DEF PatroniFields
  <2>2. QED
    BY <1>2, <1>3, <2>1, AllocatedKeeps DEF PatroniFields
<1>9. services'[s].ports = PatroniPorts(pg, rw, ro, rest)
  BY <1>1, <1>2 DEF PortInv, TypeOK
<1>10. QED
  BY <1>3, <1>5, <1>6, <1>7, <1>8, <1>9 DEF PatroniPorts, PatroniFields

\* A service that stays deployed keeps all its ports, for any services, ranges
\* and history.
THEOREM PortsNeverMove == Spec => PortsStable
<1> DEFINE Keeps == \A s \in Deployed \cap Deployed' : services'[s].ports = services[s].ports
<1>1. PortInv /\ [Next]_services => [Keeps]_services
  <2> SUFFICES ASSUME PortInv, Next, NEW s \in Deployed \cap Deployed'
               PROVE  services'[s].ports = services[s].ports
    BY DEF Next
  <2>1. PICK t \in Services : SetWebService(t) \/ SetPatroniService(t) \/ RemoveService(t)
    BY DEF Next
  <2>2. CASE t = s
    <3>1. ~RemoveService(s)
      BY DEF RemoveService, PortInv, TypeOK, Deployed
    <3>2. QED
      BY <2>1, <2>2, <3>1, SetWebServiceStable, SetPatroniServiceStable
  <2>3. CASE t # s
    <3>1. \E v : services' = [services EXCEPT ![t] = v]
      BY <2>1 DEF SetWebService, SetPatroniService, RemoveService
    <3>2. services'[s] = services[s]
      BY <2>3, <3>1 DEF PortInv, TypeOK, Deployed
    <3>3. QED
      BY <3>2
  <2>4. QED
    BY <2>2, <2>3
<1>2. QED
  BY <1>1, PortInvHolds, PTL DEF Spec, PortsStable

-----------------------------------------------------------------------------
(***************************************************************************)
(* The daemon's port.  By counting: a service other than s takes at most   *)
(* one port of a range, so of as many ports as there are services one is   *)
(* free for s, and the first free one is taken.                            *)
(***************************************************************************)
\* Used ports of a range are charged by g to members of C.
Charged(used, g, C, lo, hi) ==
    \A p \in used : p \in lo .. hi => \E t \in C : g[t] = p

\* Of more ports than are charged one is free.
LEMMA OneIsFree ==
    ASSUME NEW lo \in Nat, NEW hi \in Int, NEW C, IsFiniteSet(C),
           Cardinality(C) < Cardinality(lo .. hi),
           NEW g \in [C -> Int], NEW used, Charged(used, g, C, lo, hi)
    PROVE  \E p \in lo .. hi : p \notin used
<1> DEFINE R == {g[t] : t \in C}
<1>1. IsFiniteSet(R) /\ Cardinality(R) <= Cardinality(C)
  <2>1. g \in Surjection(C, R)
    BY DEF Surjection
  <2>2. QED
    BY <2>1, FS_Surjection
<1>2. Cardinality(R) \in Nat /\ Cardinality(C) \in Nat /\ Cardinality(lo .. hi) \in Nat
  <2>1. IsFiniteSet(lo .. hi)
    BY FS_Interval
  <2>2. QED
    BY <1>1, <2>1, FS_CardinalityType
<1>3. ~ (lo .. hi \subseteq R)
  <2> SUFFICES ASSUME lo .. hi \subseteq R PROVE FALSE
    OBVIOUS
  <2>1. Cardinality(lo .. hi) <= Cardinality(R)
    BY <1>1, FS_Subset
  <2>2. QED
    BY <1>1, <1>2, <2>1
<1>4. QED
  BY <1>3 DEF Charged

LEMMA FirstFreeBelow ==
    ASSUME NEW lo \in Nat, NEW hi \in Nat, Cardinality(Services) <= hi - lo,
           hi <= MaxPort + 1, NEW s \in Services, NEW g \in [Services \ {s} -> Int],
           NEW used, Charged(used, g, Services \ {s}, lo, hi - 1),
           NEW f, PortRange[f] = lo .. MaxPort
    PROVE  /\ PortRange[f] \ used # {}
           /\ \A port : Allocated(used, NotDeployed, f, port) => port < hi
<1> DEFINE S == Services \ {s}
<1>1. IsFiniteSet(S) /\ Cardinality(S) < Cardinality(lo .. hi - 1)
  <2>1. /\ IsFiniteSet(S) /\ Cardinality(S) \in Nat /\ Cardinality(Services) \in Nat
        /\ Cardinality(S) = Cardinality(Services) - 1
    BY DaemonPortAssumption, FS_RemoveElement, FS_CardinalityType
  <2>2. Cardinality(lo .. hi - 1) = hi - lo
    BY <2>1, FS_Interval
  <2>3. QED
    BY <2>1, <2>2
<1>2. PICK p \in lo .. hi - 1 : p \notin used
  <2> DEFINE top == hi - 1
  <2>1. top \in Int /\ g \in [S -> Int] /\ Charged(used, g, S, lo, top)
    OBVIOUS
  <2>2. Cardinality(S) < Cardinality(lo .. top)
    BY <1>1
  <2> HIDE DEF top, S
  <2>3. \E p \in lo .. top : p \notin used
    BY <1>1, <2>1, <2>2, OneIsFree
  <2>4. QED
    BY <2>3 DEF top
<1>3. p \in PortRange[f] \ used
  BY <1>2, PortsAssumption
<1>4. ASSUME NEW port, Allocated(used, NotDeployed, f, port)
      PROVE  port < hi
  <2>1. port <= p /\ port \in Nat
    BY <1>3, <1>4, PortsAssumption DEF Allocated
  <2>2. QED
    BY <1>2, <2>1
<1>5. QED
  BY <1>3, <1>4

\* Postgres ports stay below the REST ports, REST ports below the daemon's.
LowPorts ==
    \A s \in Deployed :
        services[s].type = "patroni" =>
            /\ services[s].ports["postgres_port"] < RestStart
            /\ services[s].ports["patroni_rest_port"] < HttpDaemonPort

\* The one port a service has in a range.
PortIn(s, f) ==
    IF s \in Deployed /\ services[s].type = "patroni" THEN services[s].ports[f] ELSE -1

\* Where the fields' ports lie.
LEMMA PortPlaces ==
    ASSUME TypeOK, LowPorts, FewServices, NEW s \in Deployed, NEW f \in DOMAIN services[s].ports
    PROVE  /\ services[s].ports[f] \in Nat
           /\ f = "exposed_port" => services[s].ports[f] > HttpDaemonPort
           /\ f \in {"read_write_port", "read_only_port"} => services[s].ports[f] <= PatroniEnd
           /\ f = "patroni_rest_port" => services[s].ports[f] >= RestStart
           /\ f = "postgres_port" => services[s].ports[f] < RestStart
           /\ f = "postgres_port" => services[s].ports[f] > PatroniEnd
           /\ f = "exposed_port" => services[s].type = "web"
           /\ f \in {"exposed_port", "read_write_port", "read_only_port", "patroni_rest_port",
                     "postgres_port"}
           /\ f # "exposed_port" => services[s].type = "patroni"
<1>1. services[s] \in WebServices \cup PatroniServices /\ s \in Services
  BY DEF TypeOK, Deployed
<1>2. CASE services[s] \in WebServices
  <2>1. /\ services[s].ports \in [WebFields -> Nat] /\ f = "exposed_port"
        /\ services[s].type = "web"
    BY <1>2 DEF WebServices, WebFields
  <2>2. services[s].ports[f] \in WebStart .. MaxPort
    BY <1>2, <2>1 DEF WebServices, WebFields, PortRange
  <2>3. QED
    BY <2>1, <2>2, PortsAssumption, DaemonPortAssumption
<1>3. CASE services[s] \in PatroniServices
  <2>1. /\ services[s].type = "patroni" /\ services[s].ports \in [PatroniFields -> Nat]
        /\ f \in PatroniFields /\ services[s].ports[f] \in PortRange[f]
    BY <1>3 DEF PatroniServices
  <2>2. /\ f = "postgres_port" => services[s].ports[f] < RestStart
        /\ f = "postgres_port" => services[s].ports[f] > PatroniEnd
    BY <2>1, PortsAssumption DEF LowPorts, PortRange
  <2>3. /\ f \in {"read_write_port", "read_only_port"} => services[s].ports[f] <= PatroniEnd
        /\ f = "patroni_rest_port" => services[s].ports[f] >= RestStart
    BY <2>1, PortsAssumption DEF PatroniFields, PortRange
  <2>4. QED
    BY <2>1, <2>2, <2>3 DEF PatroniFields
<1>4. QED
  BY <1>1, <1>2, <1>3

\* A port another service has in the range of a field is its port of that field.
LEMMA UsedInRange ==
    ASSUME TypeOK, LowPorts, FewServices, NEW s \in Services, NEW p \in UsedPorts(s)
    PROVE  /\ p \in PatroniEnd + 1 .. RestStart - 1 =>
                 \E t \in Services \ {s} : PortIn(t, "postgres_port") = p
           /\ p \in RestStart .. HttpDaemonPort - 1 =>
                 \E t \in Services \ {s} : PortIn(t, "patroni_rest_port") = p
<1>1. PICK t \in Deployed \ {s} : \E f \in DOMAIN services[t].ports : services[t].ports[f] = p
  BY DEF UsedPorts, PortsOf
<1>2. PICK f \in DOMAIN services[t].ports : services[t].ports[f] = p
  BY <1>1
<1>3. /\ p \in Nat
      /\ f = "exposed_port" => p > HttpDaemonPort
      /\ f \in {"read_write_port", "read_only_port"} => p <= PatroniEnd
      /\ f = "patroni_rest_port" => p >= RestStart
      /\ f = "postgres_port" => p < RestStart
      /\ f \in {"exposed_port", "read_write_port", "read_only_port", "patroni_rest_port",
                "postgres_port"}
      /\ f # "exposed_port" => services[t].type = "patroni"
  BY <1>2, PortPlaces
<1>4. t \in Services \ {s} /\ t \in Deployed
  BY DEF Deployed
<1>5. Cardinality(Services) \in Nat
  BY DaemonPortAssumption, FS_CardinalityType
<1>6. ASSUME p \in PatroniEnd + 1 .. RestStart - 1
      PROVE  PortIn(t, "postgres_port") = p
  <2>1. f = "postgres_port"
    BY <1>3, <1>5, <1>6, PortsAssumption, DaemonPortAssumption DEF FewServices
  <2>2. QED
    BY <1>2, <1>3, <1>4, <2>1 DEF PortIn
<1>7. ASSUME p \in RestStart .. HttpDaemonPort - 1
      PROVE  PortIn(t, "patroni_rest_port") = p
  <2>1. f = "patroni_rest_port"
    BY <1>3, <1>5, <1>7, PortsAssumption, DaemonPortAssumption DEF FewServices
  <2>2. QED
    BY <1>2, <1>3, <1>4, <2>1 DEF PortIn
<1>8. QED
  BY <1>4, <1>6, <1>7

LEMMA PortInType ==
    ASSUME TypeOK, NEW s \in Services, NEW f \in {"postgres_port", "patroni_rest_port"}
    PROVE  PortIn(s, f) \in Int
BY DEF PortIn, TypeOK, Deployed, WebServices, PatroniServices, PatroniFields

\* What FewServices says of the ranges.
LEMMA RangesOfFew ==
    ASSUME FewServices, NEW s \in Services
    PROVE  /\ PatroniEnd + 1 \in Nat /\ RestStart \in Nat /\ HttpDaemonPort \in Nat
           /\ RestStart <= HttpDaemonPort /\ HttpDaemonPort <= MaxPort /\ MaxPort \in Nat
           /\ PatroniEnd < RestStart
           /\ Cardinality(Services) <= RestStart - (PatroniEnd + 1)
           /\ Cardinality(Services) <= HttpDaemonPort - RestStart
           /\ RestStart <= MaxPort + 1 /\ HttpDaemonPort <= MaxPort + 1
           /\ PortRange["postgres_port"] = PatroniEnd + 1 .. MaxPort
           /\ PortRange["patroni_rest_port"] = RestStart .. MaxPort
<1>1. Cardinality(Services) \in Nat
  BY DaemonPortAssumption, FS_CardinalityType
<1>2. QED
  BY <1>1, PortsAssumption, DaemonPortAssumption DEF FewServices, PortRange

\* A service that was not deployed is given low ports, and there are some.
LEMMA NewPostgresPort ==
    ASSUME TypeOK, LowPorts, FewServices, NEW s \in Services
    PROVE  /\ PortRange["postgres_port"] \ UsedPorts(s) # {}
           /\ \A pg : Allocated(UsedPorts(s), NotDeployed, "postgres_port", pg)
                         => pg < RestStart
<1> DEFINE g == [t \in Services \ {s} |-> PortIn(t, "postgres_port")]
<1>1. g \in [Services \ {s} -> Int]
  BY PortInType
<1>2. Charged(UsedPorts(s), g, Services \ {s}, PatroniEnd + 1, RestStart - 1)
  BY UsedInRange DEF Charged
<1> HIDE DEF g
<1>3. QED
  BY <1>1, <1>2, RangesOfFew, FirstFreeBelow

LEMMA NewRestPort ==
    ASSUME TypeOK, LowPorts, FewServices, NEW s \in Services,
           NEW before \in SUBSET Nat, \A p \in before : p < RestStart
    PROVE  /\ PortRange["patroni_rest_port"] \ (UsedPorts(s) \cup before) # {}
           /\ \A rest : Allocated(UsedPorts(s) \cup before, NotDeployed,
                                  "patroni_rest_port", rest) => rest < HttpDaemonPort
<1> DEFINE g == [t \in Services \ {s} |-> PortIn(t, "patroni_rest_port")]
           used == UsedPorts(s) \cup before
<1>1. g \in [Services \ {s} -> Int]
  BY PortInType
<1>2. \A p \in UsedPorts(s) : p \in RestStart .. HttpDaemonPort - 1 =>
         \E t \in Services \ {s} : g[t] = p
  BY UsedInRange
<1>3. \A p \in before : p \notin RestStart .. HttpDaemonPort - 1
  BY RangesOfFew
<1> HIDE DEF g
<1>4. Charged(used, g, Services \ {s}, RestStart, HttpDaemonPort - 1)
  BY <1>2, <1>3 DEF Charged
<1> HIDE DEF used
<1>5. /\ PortRange["patroni_rest_port"] \ used # {}
      /\ \A rest : Allocated(used, NotDeployed, "patroni_rest_port", rest)
                      => rest < HttpDaemonPort
  BY <1>1, <1>4, RangesOfFew, FirstFreeBelow
<1>6. QED
  BY <1>5 DEF used

LEMMA NewPortsLow ==
    ASSUME TypeOK, LowPorts, FewServices, NEW s \in Services,
           NEW pg \in PortRange["postgres_port"], NEW rw \in PortRange["read_write_port"],
           NEW ro \in PortRange["read_only_port"], NEW rest,
           Allocated(UsedPorts(s), NotDeployed, "postgres_port", pg),
           Allocated(UsedPorts(s) \cup {pg, rw, ro}, NotDeployed, "patroni_rest_port", rest)
    PROVE  pg < RestStart /\ rest < HttpDaemonPort
<1>1. pg < RestStart
  BY NewPostgresPort
<1>2. /\ {pg, rw, ro} \in SUBSET Nat
      /\ rw < RestStart /\ ro < RestStart
  BY RangesOfFew, PortsAssumption DEF PortRange
<1>3. QED
  BY <1>1, <1>2, NewRestPort

LEMMA SetPatroniServiceLow ==
    ASSUME PortInv, LowPorts, FewServices, NEW s \in Services, SetPatroniService(s)
    PROVE  LowPorts'
<1>1. PICK pg \in PortRange["postgres_port"], rw \in PortRange["read_write_port"],
           ro \in PortRange["read_only_port"], rest \in PortRange["patroni_rest_port"] :
         /\ Allocated(UsedPorts(s), services[s], "postgres_port", pg)
         /\ Allocated(UsedPorts(s) \cup {pg, rw, ro}, services[s], "patroni_rest_port", rest)
         /\ services' = [services EXCEPT ![s] =
               [type |-> "patroni", ports |-> PatroniPorts(pg, rw, ro, rest)]]
  BY DEF SetPatroniService, PatroniAllocation
<1>2. /\ services'[s].ports["postgres_port"] = pg
      /\ services'[s].ports["patroni_rest_port"] = rest
      /\ \A t \in Services \ {s} : services'[t] = services[t]
  BY <1>1 DEF PortInv, TypeOK, PatroniPorts
<1>3. services'[s].ports["postgres_port"] < RestStart
      /\ services'[s].ports["patroni_rest_port"] < HttpDaemonPort
  <2>1. CASE s \in Deployed
    <3>1. services'[s].ports = services[s].ports /\ services[s].type = "patroni"
      BY <2>1, SetPatroniServiceStable DEF SetPatroniService, HasType, Deployed
    <3>2. QED
      BY <2>1, <3>1 DEF LowPorts
  <2>2. CASE s \notin Deployed
    <3>1. services[s] = NotDeployed
      BY <2>2 DEF Deployed
    <3>2. QED
      BY <1>1, <1>2, <3>1, NewPortsLow DEF PortInv
  <2>3. QED
    BY <2>1, <2>2
<1>4. \A t \in Deployed' : t = s \/ (t \in Deployed /\ services'[t] = services[t])
  BY <1>2 DEF Deployed
<1>5. QED
  BY <1>3, <1>4 DEF LowPorts

LEMMA OthersLow ==
    ASSUME PortInv, LowPorts, NEW s \in Services, SetWebService(s) \/ RemoveService(s)
    PROVE  LowPorts'
<1>1. \A t \in Services \ {s} : services'[t] = services[t]
  BY DEF SetWebService, RemoveService, PortInv, TypeOK
<1>2. s \in Deployed' => services'[s].type = "web"
  BY DEF SetWebService, RemoveService, PortInv, TypeOK, Deployed
<1>3. QED
  BY <1>1, <1>2 DEF LowPorts, Deployed

LowInv == PortInv /\ (FewServices => LowPorts)

LEMMA LowInvHolds == Spec => []LowInv
<1>1. Init => LowInv
  BY DEF Init, LowInv, PortInv, TypeOK, LowPorts, Deployed
<1>2. LowInv /\ [Next]_services => LowInv'
  <2> SUFFICES ASSUME LowInv, [Next]_services  PROVE LowInv'
    OBVIOUS
  <2>1. PortInv'
    BY PortInvStep DEF LowInv
  <2>2. ASSUME FewServices PROVE LowPorts'
    <3>1. CASE Next
      BY <2>2, <3>1, SetPatroniServiceLow, OthersLow DEF Next, LowInv
    <3>2. CASE UNCHANGED services
      BY <2>2, <3>2 DEF LowInv, LowPorts, Deployed
    <3>3. QED
      BY <3>1, <3>2
  <2>3. QED
    BY <2>1, <2>2 DEF LowInv, FewServices
<1>3. QED
  BY <1>1, <1>2, PTL DEF Spec

\* With few services no service is ever given the port of the daemon.
THEOREM DaemonPortNeverTaken == Spec => []DaemonPortFree
<1>1. LowInv => DaemonPortFree
  <2> SUFFICES ASSUME PortInv, LowPorts, FewServices, NEW s \in Deployed,
                      NEW f \in DOMAIN services[s].ports
               PROVE  services[s].ports[f] # HttpDaemonPort
    BY DEF DaemonPortFree, PortsOf, LowInv
  <2>1. Cardinality(Services) \in Nat
    BY DaemonPortAssumption, FS_CardinalityType
  <2>2. services[s].ports["patroni_rest_port"] < HttpDaemonPort \/ f # "patroni_rest_port"
    BY PortPlaces DEF LowPorts, PortInv
  <2>3. QED
    BY <2>1, <2>2, PortPlaces, PortsAssumption, DaemonPortAssumption DEF PortInv, FewServices
<1>2. QED
  BY <1>1, LowInvHolds, PTL

-----------------------------------------------------------------------------
(***************************************************************************)
(* Ports suffice.  A deployed service finds its own ports free.  A port of *)
(* a type's own range that is used is charged to a service of the type, or *)
(* to one of the two ports such a service has there.                       *)
(***************************************************************************)
LEMMA LeastPort ==
    ASSUME NEW T, T \subseteq Nat, T # {}
    PROVE  \E x \in T : \A y \in T : x <= y
<1>1. PICK x \in T : \A y \in T : ~ (<<y, x>> \in OpToRel(<, Nat))
  BY NatLessThanWellFounded, WFMin
<1>2. \A y \in T : ~ (y < x)
  BY <1>1 DEF OpToRel
<1>3. QED
  BY <1>2

\* The first free port, if there is one.
LEMMA FirstFree ==
    ASSUME NEW used, NEW f \in WebFields \cup PatroniFields, PortRange[f] \ used # {}
    PROVE  \E port \in PortRange[f] : Allocated(used, NotDeployed, f, port)
<1> DEFINE free == PortRange[f] \ used
<1>1. free # {} /\ free \subseteq Nat
  BY RangesType
<1>2. PICK port \in free : \A p \in free : port <= p
  BY <1>1, LeastPort
<1>3. QED
  BY <1>2 DEF Allocated

\* A deployed service may keep a port, if the ports before it are others.
LEMMA KeptAllocated ==
    ASSUME PortInv, NEW s \in Deployed, NEW f \in DOMAIN services[s].ports,
           NEW before, services[s].ports[f] \notin before
    PROVE  /\ services[s].ports[f] \in PortRange[f]
           /\ Allocated(UsedPorts(s) \cup before, services[s], f, services[s].ports[f])
<1>1. services[s].ports[f] \in PortRange[f] /\ services[s] # NotDeployed
  BY DEF PortInv, TypeOK, Deployed, WebServices, PatroniServices
<1>2. services[s].ports[f] \in PortsOf(services[s])
  BY DEF PortsOf
<1>3. services[s].ports[f] \notin UsedPorts(s)
  BY <1>2 DEF PortInv, UsedPorts
<1>4. QED
  BY <1>1, <1>3 DEF Allocated

LEMMA DeployedFits ==
    ASSUME PortInv, NEW s \in Deployed
    PROVE  IF services[s].type = "web" THEN WebFits(s) ELSE PatroniFits(s)
<1> DEFINE old == services[s].ports
<1>1. CASE services[s] \in WebServices
  <2>1. "exposed_port" \in DOMAIN old /\ services[s].type = "web"
    BY <1>1 DEF WebServices, WebFields
  <2>2. /\ old["exposed_port"] \in PortRange["exposed_port"]
        /\ Allocated(UsedPorts(s) \cup {}, services[s], "exposed_port", old["exposed_port"])
    BY <2>1, KeptAllocated
  <2>3. UsedPorts(s) \cup {} = UsedPorts(s)
    OBVIOUS
  <2>4. WebAllocation(s, old["exposed_port"])
    BY <2>2, <2>3 DEF WebAllocation
  <2>5. QED
    BY <2>1, <2>2, <2>4 DEF WebFits
<1>2. CASE services[s] \in PatroniServices
  <2> DEFINE pg == old["postgres_port"]
             rw == old["read_write_port"]
             ro == old["read_only_port"]
             rest == old["patroni_rest_port"]
  <2>1. DOMAIN old = PatroniFields /\ services[s].type # "web"
    BY <1>2 DEF PatroniServices
  <2>2. \A f, g \in PatroniFields : old[f] = old[g] => f = g
    BY <2>1 DEF PortInv, Injective
  <2>3. rw \notin {pg} /\ ro \notin {pg, rw} /\ rest \notin {pg, rw, ro}
    BY <2>2 DEF PatroniFields
  <2>4. /\ pg \in PortRange["postgres_port"]
        /\ Allocated(UsedPorts(s) \cup {}, services[s], "postgres_port", pg)
    BY <2>1, KeptAllocated DEF PatroniFields
  <2>5. /\ rw \in PortRange["read_write_port"]
        /\ Allocated(UsedPorts(s) \cup {pg}, services[s], "read_write_port", rw)
    BY <2>1, <2>3, KeptAllocated DEF PatroniFields
  <2>6. /\ ro \in PortRange["read_only_port"]
        /\ Allocated(UsedPorts(s) \cup {pg, rw}, services[s], "read_only_port", ro)
    BY <2>1, <2>3, KeptAllocated DEF PatroniFields
  <2>7. /\ rest \in PortRange["patroni_rest_port"]
        /\ Allocated(UsedPorts(s) \cup {pg, rw, ro}, services[s], "patroni_rest_port", rest)
    BY <2>1, <2>3, KeptAllocated DEF PatroniFields
  <2> HIDE DEF pg, rw, ro, rest
  <2>8. UsedPorts(s) \cup {} = UsedPorts(s)
    OBVIOUS
  <2>9. PatroniAllocation(s, pg, rw, ro, rest)
    BY <2>4, <2>5, <2>6, <2>7, <2>8 DEF PatroniAllocation
  <2>10. QED
    BY <2>1, <2>4, <2>5, <2>6, <2>7, <2>9 DEF PatroniFits
<1>3. QED
  BY <1>1, <1>2 DEF PortInv, TypeOK, Deployed

\* Who uses the ports of the web services' range and of the range of the
\* read ports.
LEMMA UsedByType ==
    ASSUME TypeOK, LowPorts, FewServices, NEW s \in Services, NEW p \in UsedPorts(s)
    PROVE  /\ p \in WebStart .. MaxPort =>
                 \E t \in Others(s, "web") : services[t].ports["exposed_port"] = p
           /\ p \in PatroniStart .. PatroniEnd =>
                 \E t \in Others(s, "patroni"), f \in {"read_write_port", "read_only_port"} :
                    services[t].ports[f] = p
<1>1. PICK t \in Deployed \ {s} : \E f \in DOMAIN services[t].ports : services[t].ports[f] = p
  BY DEF UsedPorts, PortsOf
<1>2. PICK f \in DOMAIN services[t].ports : services[t].ports[f] = p
  BY <1>1
<1>3. /\ p \in Nat
      /\ f = "exposed_port" => p > HttpDaemonPort
      /\ f \in {"read_write_port", "read_only_port"} => p <= PatroniEnd
      /\ f = "patroni_rest_port" => p >= RestStart
      /\ f = "postgres_port" => p < RestStart
      /\ f = "postgres_port" => p > PatroniEnd
      /\ f = "exposed_port" => services[t].type = "web"
      /\ f \in {"exposed_port", "read_write_port", "read_only_port", "patroni_rest_port",
                "postgres_port"}
      /\ f # "exposed_port" => services[t].type = "patroni"
  BY <1>2, PortPlaces
<1>4. f = "patroni_rest_port" => p < HttpDaemonPort
  BY <1>2, <1>3 DEF LowPorts
<1>5. /\ WebStart \in Nat /\ MaxPort \in Nat /\ PatroniStart \in Nat /\ PatroniEnd \in Nat
      /\ RestStart \in Nat /\ HttpDaemonPort \in Nat
      /\ PatroniEnd < RestStart /\ RestStart <= HttpDaemonPort /\ HttpDaemonPort < WebStart
  BY RangesOfFew, PortsAssumption, DaemonPortAssumption
<1>6. ASSUME p \in WebStart .. MaxPort
      PROVE  \E o \in Others(s, "web") : services[o].ports["exposed_port"] = p
  <2>1. f = "exposed_port"
    BY <1>3, <1>4, <1>5, <1>6
  <2>2. QED
    BY <1>2, <1>3, <2>1 DEF Others
<1>7. ASSUME p \in PatroniStart .. PatroniEnd
      PROVE  \E o \in Others(s, "patroni"), h \in {"read_write_port", "read_only_port"} :
                services[o].ports[h] = p
  <2>1. f \in {"read_write_port", "read_only_port"}
    BY <1>3, <1>4, <1>5, <1>7
  <2>2. QED
    BY <1>2, <1>3, <2>1 DEF Others
<1>8. QED
  BY <1>6, <1>7

LEMMA OthersType ==
    ASSUME TypeOK, NEW s \in Services
    PROVE  /\ \A t \in Others(s, "web") : services[t].ports["exposed_port"] \in Int
           /\ \A t \in Others(s, "patroni") :
                 \A f \in {"read_write_port", "read_only_port"} : services[t].ports[f] \in Int
           /\ \A type : IsFiniteSet(Others(s, type)) /\ s \notin Others(s, type)
<1>1. \A type : Others(s, type) \subseteq Services
  BY DEF Others, Deployed
<1>2. \A type : IsFiniteSet(Others(s, type))
  BY <1>1, DaemonPortAssumption, FS_Subset
<1>3. \A t \in Others(s, "web") : services[t] \in WebServices
  BY DEF Others, TypeOK, Deployed, PatroniServices
<1>4. \A t \in Others(s, "patroni") : services[t] \in PatroniServices
  BY DEF Others, TypeOK, Deployed, WebServices
<1>5. \A t \in Others(s, "web") : services[t].ports["exposed_port"] \in Int
  BY <1>3 DEF WebServices, WebFields
<1>6. \A t \in Others(s, "patroni") :
         \A f \in {"read_write_port", "read_only_port"} : services[t].ports[f] \in Int
  BY <1>4 DEF PatroniServices, PatroniFields
<1>7. \A type : s \notin Others(s, type)
  BY DEF Others
<1>8. QED
  BY <1>2, <1>5, <1>6, <1>7

LEMMA WebPortFree ==
    ASSUME TypeOK, LowPorts, FewServices, NEW s \in Services,
           Cardinality(Others(s, "web")) < Cardinality(PortRange["exposed_port"])
    PROVE  PortRange["exposed_port"] \ UsedPorts(s) # {}
<1> DEFINE C == Others(s, "web")
           g == [t \in C |-> services[t].ports["exposed_port"]]
<1>1. IsFiniteSet(C) /\ g \in [C -> Int]
  BY OthersType
<1>2. PortRange["exposed_port"] = WebStart .. MaxPort /\ WebStart \in Nat /\ MaxPort \in Int
  BY PortsAssumption DEF PortRange
<1>3. Charged(UsedPorts(s), g, C, WebStart, MaxPort)
  BY UsedByType DEF Charged
<1>4. Cardinality(C) < Cardinality(WebStart .. MaxPort)
  BY <1>2
<1> HIDE DEF C, g
<1>5. \E p \in WebStart .. MaxPort : p \notin UsedPorts(s)
  BY <1>1, <1>2, <1>3, <1>4, OneIsFree
<1>6. QED
  BY <1>2, <1>5

LEMMA OneMoreAtMost ==
    ASSUME NEW S, IsFiniteSet(S), NEW x
    PROVE  IsFiniteSet(S \cup {x}) /\ Cardinality(S \cup {x}) <= Cardinality(S) + 1
<1>1. Cardinality(S) \in Nat
  BY FS_CardinalityType
<1>2. /\ IsFiniteSet(S \cup {x})
      /\ Cardinality(S \cup {x}) = IF x \in S THEN Cardinality(S) ELSE Cardinality(S) + 1
  BY FS_AddElement
<1>3. QED
  BY <1>1, <1>2

\* The two read ports: the second finds a port that the first has left.
LEMMA ReadPortFree ==
    ASSUME TypeOK, LowPorts, FewServices, NEW s \in Services,
           2 * Cardinality(Others(s, "patroni")) + 2 <= Cardinality(PatroniStart .. PatroniEnd),
           NEW pg \in Nat, pg > PatroniEnd, NEW rw \in Nat
    PROVE  \E p \in PatroniStart .. PatroniEnd : p \notin UsedPorts(s) \cup {pg, rw}
<1> DEFINE P == Others(s, "patroni")
           F == {"read_write_port", "read_only_port"}
           new == <<s, "read_write_port">>
           C == (P \X F) \cup {new}
           g == [c \in C |-> IF c[1] = s THEN rw ELSE services[c[1]].ports[c[2]]]
           used == UsedPorts(s) \cup {pg, rw}
<1>1. IsFiniteSet(P) /\ s \notin P
  BY OthersType
<1>2. IsFiniteSet(F) /\ Cardinality(F) = 2
  <2>1. IsFiniteSet({"read_write_port"}) /\ Cardinality({"read_write_port"}) = 1
    BY FS_Singleton
  <2>2. "read_only_port" \notin {"read_write_port"}
    OBVIOUS
  <2>3. /\ IsFiniteSet({"read_write_port"} \cup {"read_only_port"})
        /\ Cardinality({"read_write_port"} \cup {"read_only_port"}) =
              IF "read_only_port" \in {"read_write_port"}
                 THEN Cardinality({"read_write_port"})
                 ELSE Cardinality({"read_write_port"}) + 1
    BY <2>1, FS_AddElement
  <2>4. F = {"read_write_port"} \cup {"read_only_port"}
    OBVIOUS
  <2> HIDE DEF F
  <2>5. QED
    BY <2>1, <2>2, <2>3, <2>4
<1>3. IsFiniteSet(C) /\ Cardinality(C) < Cardinality(PatroniStart .. PatroniEnd)
  <2> HIDE DEF P, F
  <2>1. IsFiniteSet(P \X F) /\ Cardinality(P \X F) = Cardinality(P) * 2
    BY <1>1, <1>2, FS_Product
  <2>2. Cardinality(P) \in Nat
    BY <1>1, FS_CardinalityType
  <2> DEFINE pairs == P \X F
  <2>3. /\ IsFiniteSet(pairs \cup {new})
        /\ Cardinality(pairs \cup {new}) <= Cardinality(pairs) + 1
    <3> HIDE DEF pairs, new
    <3>1. IsFiniteSet(pairs)
      BY <2>1 DEF pairs
    <3>2. QED
      BY <3>1, OneMoreAtMost
  <2>4. Cardinality(C) <= Cardinality(P) * 2 + 1
    BY <2>1, <2>3
  <2>5. IsFiniteSet(C) /\ Cardinality(C) \in Nat
    BY <2>3, FS_CardinalityType
  <2>6. IsFiniteSet(PatroniStart .. PatroniEnd)
    BY PortsAssumption, FS_Interval
  <2>7. Cardinality(PatroniStart .. PatroniEnd) \in Nat
    BY <2>6, FS_CardinalityType
  <2>8. 2 * Cardinality(P) + 2 <= Cardinality(PatroniStart .. PatroniEnd)
    BY DEF P
  <2> HIDE DEF C
  <2>9. QED
    BY <2>2, <2>4, <2>5, <2>7, <2>8
<1>4. g \in [C -> Int]
  <2>1. \A c \in C : (IF c[1] = s THEN rw ELSE services[c[1]].ports[c[2]]) \in Int
    BY OthersType
  <2>2. QED
    BY <2>1
<1>5. Charged(used, g, C, PatroniStart, PatroniEnd)
  <2> SUFFICES ASSUME NEW p \in used, p \in PatroniStart .. PatroniEnd
               PROVE  \E c \in C : g[c] = p
    BY DEF Charged
  <2>1. CASE p \in UsedPorts(s)
    <3>1. PICK t \in P, f \in F : services[t].ports[f] = p
      BY <2>1, UsedByType
    <3>2. <<t, f>> \in C /\ t # s
      BY <1>1
    <3>3. g[<<t, f>>] = p
      BY <3>1, <3>2
    <3>4. QED
      BY <3>2, <3>3
  <2>2. CASE p = rw
    <3>1. new \in C /\ g[new] = rw
      OBVIOUS
    <3>2. QED
      BY <2>2, <3>1
  <2>3. p # pg
    BY PortsAssumption
  <2>4. QED
    BY <2>1, <2>2, <2>3
<1>6. PatroniStart \in Nat /\ PatroniEnd \in Int
  BY PortsAssumption
<1> HIDE DEF C, g, used
<1>7. \E p \in PatroniStart .. PatroniEnd : p \notin used
  BY <1>3, <1>4, <1>5, <1>6, OneIsFree
<1>8. QED
  BY <1>7 DEF used

\* A new service finds its ports.
LEMMA NewFits ==
    ASSUME TypeOK, LowPorts, FewServices, NEW s \in Services \ Deployed
    PROVE  /\ Cardinality(Others(s, "web")) < Cardinality(PortRange["exposed_port"])
                 => WebFits(s)
           /\ 2 * Cardinality(Others(s, "patroni")) + 2 <=
                 Cardinality(PortRange["read_write_port"])
                 => PatroniFits(s)
<1>1. services[s] = NotDeployed /\ s \in Services
  BY DEF Deployed
<1>2. ASSUME Cardinality(Others(s, "web")) < Cardinality(PortRange["exposed_port"])
      PROVE  WebFits(s)
  <2>1. PICK port \in PortRange["exposed_port"] :
           Allocated(UsedPorts(s), NotDeployed, "exposed_port", port)
    BY <1>1, <1>2, WebPortFree, FirstFree DEF WebFields
  <2>2. QED
    BY <1>1, <2>1 DEF WebFits, WebAllocation
<1>3. ASSUME 2 * Cardinality(Others(s, "patroni")) + 2 <=
                Cardinality(PortRange["read_write_port"])
      PROVE  PatroniFits(s)
  <2>1. /\ PortRange["read_write_port"] = PatroniStart .. PatroniEnd
        /\ PortRange["read_only_port"] = PatroniStart .. PatroniEnd
        /\ PatroniStart \in Nat /\ PatroniEnd \in Nat /\ RestStart \in Nat
        /\ PatroniEnd < RestStart
    BY PortsAssumption, RangesOfFew DEF PortRange
  <2>2. 2 * Cardinality(Others(s, "patroni")) + 2 <= Cardinality(PatroniStart .. PatroniEnd)
    BY <1>3, <2>1
  <2>3. PICK pg \in PortRange["postgres_port"] :
           Allocated(UsedPorts(s), NotDeployed, "postgres_port", pg)
    BY <1>1, NewPostgresPort, FirstFree DEF PatroniFields
  <2>4. pg \in Nat /\ pg > PatroniEnd /\ pg < RestStart
    <3>1. pg \in PatroniEnd + 1 .. MaxPort
      BY <2>3 DEF PortRange
    <3>2. pg < RestStart
      BY <1>1, <2>3, NewPostgresPort
    <3>3. QED
      BY <2>1, <3>1, <3>2, PortsAssumption
  <2>5. PICK rw \in PortRange["read_write_port"] :
           Allocated(UsedPorts(s) \cup {pg}, NotDeployed, "read_write_port", rw)
    <3>1. \E p \in PatroniStart .. PatroniEnd : p \notin UsedPorts(s) \cup {pg, pg}
      BY <1>1, <2>2, <2>4, ReadPortFree
    <3>2. PortRange["read_write_port"] \ (UsedPorts(s) \cup {pg}) # {}
      BY <2>1, <3>1
    <3>3. QED
      BY <3>2, FirstFree DEF PatroniFields
  <2>6. rw \in Nat /\ rw < RestStart
    BY <2>1, <2>5
  <2>7. PICK ro \in PortRange["read_only_port"] :
           Allocated(UsedPorts(s) \cup {pg, rw}, NotDeployed, "read_only_port", ro)
    <3>1. \E p \in PatroniStart .. PatroniEnd : p \notin UsedPorts(s) \cup {pg, rw}
      BY <1>1, <2>2, <2>4, <2>6, ReadPortFree
    <3>2. PortRange["read_only_port"] \ (UsedPorts(s) \cup {pg, rw}) # {}
      BY <2>1, <3>1
    <3>3. QED
      BY <3>2, FirstFree DEF PatroniFields
  <2>8. ro \in Nat /\ ro < RestStart
    BY <2>1, <2>7
  <2>9. PICK rest \in PortRange["patroni_rest_port"] :
           Allocated(UsedPorts(s) \cup {pg, rw, ro}, NotDeployed, "patroni_rest_port", rest)
    <3>1. {pg, rw, ro} \in SUBSET Nat /\ \A p \in {pg, rw, ro} : p < RestStart
      BY <2>4, <2>6, <2>8
    <3>2. PortRange["patroni_rest_port"] \ (UsedPorts(s) \cup {pg, rw, ro}) # {}
      BY <1>1, <3>1, NewRestPort
    <3>3. QED
      BY <3>2, FirstFree DEF PatroniFields
  <2>10. PatroniAllocation(s, pg, rw, ro, rest)
    BY <1>1, <2>3, <2>5, <2>7, <2>9 DEF PatroniAllocation
  <2>11. QED
    BY <2>10 DEF PatroniFits
<1>4. QED
  BY <1>2, <1>3

\* A redeployment never fails for want of ports, and with few services a new
\* deployment fails only if its own type has used up a range: whatever was
\* deployed and removed before, and however the ranges overlap.
THEOREM DeploymentsFindPorts == Spec => []PortsSuffice
<1>1. LowInv => PortsSuffice
  BY DeployedFits, NewFits DEF LowInv, PortInv, PortsSuffice
<1>2. QED
  BY <1>1, LowInvHolds, PTL
=============================================================================
