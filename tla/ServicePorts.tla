---------------------------- MODULE ServicePorts ----------------------------
(***************************************************************************)
(* The services of a cluster and the ports they are given: setWebService,  *)
(* setPatroniService and removeService of class Cluster with               *)
(* listUsedServicePorts and allocatePort (src/cluster/config.ts), run by   *)
(* the deploy and remove commands on the coordinator.  A port is the same  *)
(* on every node, so two services with one port cannot both be started.    *)
(*                                                                         *)
(* A service is its type and its ports.  An allocation that finds no port  *)
(* throws before anything is stored: the action is then not enabled.       *)
(***************************************************************************)
EXTENDS Integers, FiniteSets

CONSTANTS
    Services,        \* the ids services may have
    NotDeployed,     \* what an id without a service is mapped to
    PatroniStart,    \* PATRONI_PORT_START
    PatroniEnd,      \* PATRONI_PORT_END
    RestStart,       \* PATRONI_REST_PORT_START
    WebStart,        \* WEB_EXPOSED_PORT_START
    MaxPort,         \* the largest port (65535)
    HttpDaemonPort   \* HTTP_DAEMON_PORT, on which every node's daemon listens

WebFields == {"exposed_port"}

PatroniFields ==
    {"postgres_port", "read_write_port", "read_only_port", "patroni_rest_port"}

\* The ports each field of a service is allocated from.  Those of
\* postgres_port, patroni_rest_port and exposed_port overlap.
PortRange ==
    [exposed_port      |-> WebStart .. MaxPort,
     postgres_port     |-> PatroniEnd + 1 .. MaxPort,
     read_write_port   |-> PatroniStart .. PatroniEnd,
     read_only_port    |-> PatroniStart .. PatroniEnd,
     patroni_rest_port |-> RestStart .. MaxPort]

\* Every field has a port the schema of its type accepts.
WebServices ==
    [type  : {"web"},
     ports : {p \in [WebFields -> Nat] : \A f \in WebFields : p[f] \in PortRange[f]}]

PatroniServices ==
    [type  : {"patroni"},
     ports : {p \in [PatroniFields -> Nat] : \A f \in PatroniFields : p[f] \in PortRange[f]}]

ASSUME PortsAssumption ==
    /\ {PatroniStart, PatroniEnd, RestStart, WebStart, MaxPort} \subseteq Nat
    /\ NotDeployed \notin WebServices \cup PatroniServices

\* Web services get their ports above the daemon's.
ASSUME DaemonPortAssumption ==
    /\ IsFiniteSet(Services)
    /\ HttpDaemonPort \in Nat
    /\ HttpDaemonPort < WebStart
    /\ HttpDaemonPort <= MaxPort

VARIABLE services   \* services[s]: the service with id s

TypeOK == services \in [Services -> WebServices \cup PatroniServices \cup {NotDeployed}]

Init == services = [s \in Services |-> NotDeployed]

-----------------------------------------------------------------------------
Deployed == {s \in Services : services[s] # NotDeployed}

PortsOf(service) == {service.ports[f] : f \in DOMAIN service.ports}

\* Mutant: the port of Patroni's REST interface is not listed.
UsedPortsWithoutRest(excluded) ==
    UNION {{services[s].ports[f] : f \in DOMAIN services[s].ports \ {"patroni_rest_port"}} :
              s \in Deployed \ {excluded}}

\* Mutant: the service's own ports count as used.
UsedPortsOfAll(excluded) == UNION {PortsOf(services[s]) : s \in Deployed}

\* listUsedServicePorts: the ports of the other services.
UsedPorts(excluded) == UNION {PortsOf(services[s]) : s \in Deployed \ {excluded}}

\* Mutant: the first port above all the used ones of its range.
AllocatedOnTop(used, existing, f, port) ==
    LET free == {p \in PortRange[f] : \A q \in used \cap PortRange[f] : p > q}
        keep == existing # NotDeployed /\ existing.ports[f] \in PortRange[f] \ used
    IN  IF keep THEN port = existing.ports[f]
                ELSE port \in free /\ \A p \in free : port <= p

\* allocatePort: the port the service already has for the field if it may
\* keep it, and otherwise the first free one.
Allocated(used, existing, f, port) ==
    LET free == PortRange[f] \ used
        keep == existing # NotDeployed /\ existing.ports[f] \in free
    IN  IF keep THEN port = existing.ports[f]
                ELSE port \in free /\ \A p \in free : port <= p

\* A service of another type has the id: ServiceIdConflictError.
HasType(s, type) == services[s] # NotDeployed => services[s].type = type

WebAllocation(s, port) == Allocated(UsedPorts(s), services[s], "exposed_port", port)

SetWebService(s) ==
    /\ HasType(s, "web")
    /\ \E port \in PortRange["exposed_port"] :
          /\ WebAllocation(s, port)
          /\ services' = [services EXCEPT ![s] =
                [type |-> "web", ports |-> [f \in WebFields |-> port]]]

\* Mutant: the postgres and the read-write port are swapped.
PatroniPortsSwapped(pg, rw, ro, rest) ==
    [postgres_port |-> rw, read_write_port |-> pg, read_only_port |-> ro,
     patroni_rest_port |-> rest]

PatroniPorts(pg, rw, ro, rest) ==
    [postgres_port |-> pg, read_write_port |-> rw, read_only_port |-> ro,
     patroni_rest_port |-> rest]

\* The four ports are allocated one after the other, each of them taken from
\* what the ones before it left.
PatroniAllocation(s, pg, rw, ro, rest) ==
    /\ Allocated(UsedPorts(s), services[s], "postgres_port", pg)
    /\ Allocated(UsedPorts(s) \cup {pg}, services[s], "read_write_port", rw)
    /\ Allocated(UsedPorts(s) \cup {pg, rw}, services[s], "read_only_port", ro)
    /\ Allocated(UsedPorts(s) \cup {pg, rw, ro}, services[s], "patroni_rest_port", rest)

SetPatroniService(s) ==
    /\ HasType(s, "patroni")
    /\ \E pg \in PortRange["postgres_port"],
          rw \in PortRange["read_write_port"],
          ro \in PortRange["read_only_port"],
          rest \in PortRange["patroni_rest_port"] :
          /\ PatroniAllocation(s, pg, rw, ro, rest)
          /\ services' = [services EXCEPT ![s] =
                [type |-> "patroni", ports |-> PatroniPorts(pg, rw, ro, rest)]]

RemoveService(s) ==
    /\ s \in Deployed
    /\ services' = [services EXCEPT ![s] = NotDeployed]

Next ==
    \E s \in Services : SetWebService(s) \/ SetPatroniService(s) \/ RemoveService(s)

Spec == Init /\ [][Next]_services

-----------------------------------------------------------------------------
(***************************************************************************)
(* Properties                                                              *)
(***************************************************************************)
\* No port is given twice, neither to two services nor to two fields of one,
\* after any sequence of deployments, redeployments and removals.
PortsDistinct ==
    \A s, t \in Deployed :
        \A f \in DOMAIN services[s].ports, g \in DOMAIN services[t].ports :
            services[s].ports[f] = services[t].ports[g] => s = t /\ f = g

\* A service that stays deployed keeps its ports: to deploy it again, or to
\* deploy or remove another one, never moves the port its clients use.
PortsStable ==
    [][\A s \in Deployed \cap Deployed' : services'[s].ports = services[s].ports]_services

\* There are fewer service ids than ports before the daemon's in the range
\* of REST ports, and before that range in the range of Postgres ports (72
\* and 527 in the code).
FewServices ==
    /\ Cardinality(Services) <= HttpDaemonPort - RestStart
    /\ Cardinality(Services) <= RestStart - (PatroniEnd + 1)

\* The daemon listens on a port of the range Patroni's REST ports are taken
\* from.  No service is given it while there are few services: holes left by
\* removed services are filled before higher ports are touched.
DaemonPortFree ==
    FewServices => \A s \in Deployed : HttpDaemonPort \notin PortsOf(services[s])

WebFits(s) == \E port \in PortRange["exposed_port"] : WebAllocation(s, port)

PatroniFits(s) ==
    \E pg \in PortRange["postgres_port"],
       rw \in PortRange["read_write_port"],
       ro \in PortRange["read_only_port"],
       rest \in PortRange["patroni_rest_port"] : PatroniAllocation(s, pg, rw, ro, rest)

\* The other services of a type.
Others(s, type) == {t \in Deployed \ {s} : services[t].type = type}

\* To deploy a service again never fails for want of ports, and while there
\* are few services to deploy a new one fails only if the services of its own
\* type have used up their range: no history of deployments and removals
\* leaves holes that are not filled, nor do the types take each other's ports.
PortsSuffice ==
    /\ \A s \in Deployed : IF services[s].type = "web" THEN WebFits(s) ELSE PatroniFits(s)
    /\ FewServices =>
          \A s \in Services \ Deployed :
             /\ Cardinality(Others(s, "web")) < Cardinality(PortRange["exposed_port"])
                   => WebFits(s)
             /\ 2 * Cardinality(Others(s, "patroni")) + 2 <=
                   Cardinality(PortRange["read_write_port"])
                   => PatroniFits(s)
=============================================================================
