--------------------------- MODULE MaintenanceMode ---------------------------
(***************************************************************************)
(* Maintenance mode: a row in the database that a super admin toggles, a   *)
(* cache of it in every server process, and the guard that asks the cache  *)
(* before a request may write.  A server fills its cache in two steps,     *)
(* with the time it took before it read the row.                           *)
(***************************************************************************)
EXTENDS Naturals

CONSTANTS
    Servers,
    Visitors,    \* requests that write, and the admins' toggles
    CacheTtl,    \* CACHE_TTL
    MaxTime      \* bound: the last tick of the clock

ASSUME ClockConstants == Servers # {} /\ {CacheTtl, MaxTime} \subseteq Nat \ {0}

VARIABLES
    maintenance,   \* Config IN_MAINTENANCE
    caches,        \* ConfigService.cache of each server
    visits,
    now,
    lastOff        \* history: the last moment at which the mode was off

gateVars == <<maintenance, caches, visits, now, lastOff>>

Empty == [value |-> FALSE, until |-> 0]

\* since: when the request came.  A visitor that is away is at no server in particular.
Visit == [at : {"idle", "reading", "filling", "inside", "refused", "toggling", "clearing"},
          server : Servers, since : 0..MaxTime, saw : BOOLEAN]

Away == [at |-> "idle", server |-> CHOOSE s \in Servers : TRUE, since |-> 0, saw |-> FALSE]

GateInit ==
    /\ maintenance = FALSE
    /\ caches = [s \in Servers |-> Empty]
    /\ visits = [v \in Visitors |-> Away]
    /\ now = 1 /\ lastOff = 1

\* Admitted or turned away.
Answer(inMaintenance) == IF inMaintenance THEN "refused" ELSE "inside"

\* MaintenanceGuard and inMaintenanceMode: the time is taken, and a live cache answers.
Arrive(v, s) ==
    /\ visits[v] = Away
    /\ visits' = [visits EXCEPT ![v] =
          [Away EXCEPT !.server = s, !.since = now,
              !.at = IF caches[s].until > now THEN Answer(caches[s].value) ELSE "reading"]]
    /\ UNCHANGED <<maintenance, caches, now, lastOff>>

\* Otherwise the row is read,
ReadMode(v) ==
    /\ visits[v].at = "reading"
    /\ visits' = [visits EXCEPT ![v].at = "filling", ![v].saw = maintenance]
    /\ UNCHANGED <<maintenance, caches, now, lastOff>>

\* Mutant: the cache lives from the moment it is filled.
UntilFromNow(v) == now + CacheTtl

\* The cache lives from the moment the request came.
Until(v) == visits[v].since + CacheTtl

\* and the cache filled with it, whatever else has happened on the server.
FillCache(v) ==
    /\ visits[v].at = "filling"
    /\ caches' = [caches EXCEPT ![visits[v].server] = [value |-> visits[v].saw, until |-> Until(v)]]
    /\ visits' = [visits EXCEPT ![v].at = Answer(visits[v].saw), ![v].saw = FALSE]
    /\ UNCHANGED <<maintenance, now, lastOff>>

LeaveGate(v) ==
    /\ visits[v].at \in {"inside", "refused"}
    /\ visits' = [visits EXCEPT ![v] = Away]
    /\ UNCHANGED <<maintenance, caches, now, lastOff>>

\* toggleMaintenanceMode, which the guard lets by: the row is read,
ReadForToggle(v, s) ==
    /\ visits[v] = Away
    /\ visits' = [visits EXCEPT ![v] =
          [Away EXCEPT !.at = "toggling", !.server = s, !.saw = maintenance]]
    /\ UNCHANGED <<maintenance, caches, now, lastOff>>

\* its opposite written,
WriteToggle(v) ==
    /\ visits[v].at = "toggling"
    /\ maintenance' = ~visits[v].saw
    /\ lastOff' = IF maintenance /\ maintenance' THEN lastOff ELSE now
    /\ visits' = [visits EXCEPT ![v].at = "clearing", ![v].saw = FALSE]
    /\ UNCHANGED <<caches, now>>

\* and the cache of this server, and no other, emptied.
ClearCache(v) ==
    /\ visits[v].at = "clearing"
    /\ caches' = [caches EXCEPT ![visits[v].server] = Empty]
    /\ visits' = [visits EXCEPT ![v] = Away]
    /\ UNCHANGED <<maintenance, now, lastOff>>

Tick ==
    /\ now < MaxTime /\ now' = now + 1
    /\ lastOff' = IF maintenance THEN lastOff ELSE now'
    /\ UNCHANGED <<maintenance, caches, visits>>

GateNext ==
    \/ Tick
    \/ \E v \in Visitors :
          \/ ReadMode(v) \/ FillCache(v) \/ LeaveGate(v) \/ WriteToggle(v) \/ ClearCache(v)
          \/ \E s \in Servers : Arrive(v, s) \/ ReadForToggle(v, s)

GateTypeOK ==
    /\ maintenance \in BOOLEAN
    /\ caches \in [Servers -> [value : BOOLEAN, until : 0..(MaxTime + CacheTtl)]]
    /\ visits \in [Visitors -> Visit]
    /\ now \in 1..MaxTime /\ lastOff \in 0..now
=============================================================================
