------------------------------ MODULE GeoStore ------------------------------
(***************************************************************************)
(* The cache of the places of addresses                                    *)
(* (web/client/src/store/geoStore.ts), which several pages ask for the     *)
(* same addresses: one that is pending is not asked for again, whoever     *)
(* asks and however.                                                       *)
(***************************************************************************)
EXTENDS FiniteSets

CONSTANTS
  Addresses,
  Slots      \* as many requests as are under way at a time (bound)

VARIABLES
  geoCache,            \* the addresses that are known
  pendingResolutions,
  requests             \* slot -> the addresses of its request

geoVars == <<geoCache, pendingResolutions, requests>>

GeoInit == geoCache = {} /\ pendingResolutions = {} /\ requests = [r \in Slots |-> {}]

\* Mutant of Wanted: a forced request does not look at what is pending.
WantedByForce(ips, force) == IF force THEN ips ELSE ips \ (geoCache \cup pendingResolutions)

\* What resolveIPs filters the addresses to.
Wanted(ips, force) ==
  ips \ (pendingResolutions \cup IF force THEN {} ELSE geoCache)

\* resolveIPs up to its await.
Resolve(ips, force) ==
  /\ Wanted(ips, force) # {}
  /\ \E r \in Slots :
       /\ requests[r] = {}
       /\ requests' = [requests EXCEPT ![r] = Wanted(ips, force)]
  /\ pendingResolutions' = pendingResolutions \cup Wanted(ips, force)
  /\ UNCHANGED geoCache

\* The answer, for some of the addresses.
Resolved(r, known) ==
  /\ requests[r] # {} /\ known \subseteq requests[r]
  /\ geoCache' = geoCache \cup known
  /\ pendingResolutions' = pendingResolutions \ requests[r]
  /\ requests' = [requests EXCEPT ![r] = {}]

ResolveFails(r) ==
  /\ requests[r] # {}
  /\ pendingResolutions' = pendingResolutions \ requests[r]
  /\ requests' = [requests EXCEPT ![r] = {}]
  /\ UNCHANGED geoCache

\* updateGeoInfo, by hand.
Update(ip) ==
  /\ geoCache' = geoCache \cup {ip}
  /\ UNCHANGED <<pendingResolutions, requests>>

GeoNext ==
  \/ \E ips \in SUBSET Addresses, b \in BOOLEAN : Resolve(ips, b)
  \/ \E r \in Slots : ResolveFails(r) \/ \E known \in SUBSET Addresses : Resolved(r, known)
  \/ \E ip \in Addresses : Update(ip)

GeoSpec == GeoInit /\ [][GeoNext]_geoVars
-----------------------------------------------------------------------------
\* An address is pending exactly while one request asks for it, and no two do:
\* none is left pending by a request that fails, to be asked for never again,
\* and none is freed by the answer to another request.
PendingIsAsked ==
  /\ pendingResolutions = UNION {requests[r] : r \in Slots}
  /\ \A q, r \in Slots : q # r => requests[q] \cap requests[r] = {}
=============================================================================
