------------------------------- MODULE Presence -------------------------------
(***************************************************************************)
(* How the sessions of a project find each other: the endpoint a runtime   *)
(* opens and closes and the descriptor it publishes and refreshes in the   *)
(* discovery directory (createLocalPeerEndpoint and                        *)
(* discoverLocalPeerEndpoints of src/src/peers/local-transport.mjs), and   *)
(* the registry a runtime keeps of the peers it found (refreshLocalPeers   *)
(* of runtime.mjs, MemoryPeerRegistry of comms.mjs).                       *)
(*                                                                         *)
(* A descriptor is overwritten in place, so that it may be read half       *)
(* written.  Every session runs several refreshes at a time, one for each  *)
(* command or tool that starts with one.  The unit of time is the presence *)
(* heartbeat.  All sessions are of one project; what a descriptor says of  *)
(* the peer is left out.                                                   *)
(***************************************************************************)
EXTENDS Naturals, FiniteSets, Functions

CONSTANTS
  Sites,        \* sessions
  Endpoints,
  SiteOf,       \* of each endpoint: its session
  Configured,   \* peers in the project's configuration
  Watchers,     \* bound: the sessions whose refreshes are followed
  Looks,        \* bound: refreshes of a session at a time
  None, FromConfig,
  MaxAge,       \* maxAgeMs in heartbeats, of which it has ten
  LastMinute    \* bound: the clock

VARIABLES
  alive,        \* sessions whose process runs
  stage,        \* of each endpoint: from "unused" and "listening" to "up" and "stopped"
  localEndpoint,  \* of each session's runtime
  card,         \* of each endpoint: its descriptor, "none", "torn" or "whole", and its time
  pen,          \* endpoints whose descriptor is being written
  look,         \* of each watcher: its refreshes
  registry,     \* of each watcher: what it knows of each peer
  discovered,   \* of each watcher: discoveredPeerIds
  minute

endpointVars == <<alive, stage, localEndpoint, card, pen>>
watchVars    == <<look, registry, discovered>>
presenceVars == <<endpointVars, watchVars, minute>>

ASSUME PresenceConstants ==
  /\ SiteOf \in [Endpoints -> Sites] /\ Configured \subseteq Sites /\ Watchers \subseteq Sites
  /\ None \notin Endpoints /\ FromConfig \notin Endpoints \cup {None}
  /\ MaxAge \in Nat \ {0} /\ LastMinute \in Nat

NoCard == [state |-> "none", at |-> 0]
Serving(e) == stage[e] = "up" /\ SiteOf[e] \in alive
Gone(e) == stage[e] = "stopped" \/ SiteOf[e] \notin alive

-----------------------------------------------------------------------------
(* runtime.start: an endpoint is opened unless there is one; it listens,    *)
(* then publishes its descriptor, then becomes the runtime's.  A second     *)
(* start may begin before the first has finished.                           *)

StartEndpoint(s) ==
  /\ s \in alive /\ localEndpoint[s] = None
  /\ \E e \in Endpoints :
       /\ SiteOf[e] = s /\ stage[e] = "unused"
       /\ stage' = [stage EXCEPT ![e] = "listening"]
  /\ UNCHANGED <<alive, localEndpoint, card, pen, watchVars, minute>>

(* writeDescriptor: the file is opened and truncated, then written. *)
OpenDescriptor(e) ==
  /\ e \in pen /\ card[e].state # "torn"
  /\ card' = [card EXCEPT ![e] = [state |-> "torn", at |-> minute]]
  /\ UNCHANGED <<alive, stage, localEndpoint, pen, watchVars, minute>>

EndWrite(e) ==
  /\ e \in pen /\ card[e].state = "torn"
  /\ card' = [card EXCEPT ![e].state = "whole"]
  /\ pen' = pen \ {e}

Publish(e) ==
  /\ stage[e] = "listening" /\ SiteOf[e] \in alive
  /\ stage' = [stage EXCEPT ![e] = "publishing"]
  /\ pen' = pen \cup {e}
  /\ UNCHANGED <<alive, localEndpoint, card, watchVars, minute>>

Published(e) ==
  /\ stage[e] = "publishing"
  /\ EndWrite(e)
  /\ stage' = [stage EXCEPT ![e] = "up"]
  /\ localEndpoint' = [localEndpoint EXCEPT ![SiteOf[e]] = e]
  /\ UNCHANGED <<alive, watchVars, minute>>

(* refreshDescriptorPresence, at each presence heartbeat. *)
RefreshDescriptorPresence(e) ==
  /\ Serving(e) /\ card[e].at < minute /\ e \notin pen
  /\ pen' = pen \cup {e}
  /\ UNCHANGED <<alive, stage, localEndpoint, card, watchVars, minute>>

Refreshed(e) ==
  /\ stage[e] # "publishing"
  /\ EndWrite(e)
  /\ UNCHANGED <<alive, stage, localEndpoint, watchVars, minute>>

(* runtime.shutdown: no more heartbeats; the descriptor is removed once a   *)
(* write that has begun is over.                                            *)
StopEndpoint(s) ==
  LET e == localEndpoint[s] IN
  /\ s \in alive /\ e # None /\ stage[e] = "up"
  /\ stage' = [stage EXCEPT ![e] = "stopping"]
  /\ UNCHANGED <<alive, localEndpoint, card, pen, watchVars, minute>>

Removed(e) ==
  /\ stage' = [stage EXCEPT ![e] = "stopped"]
  /\ card' = [card EXCEPT ![e] = NoCard]
  /\ localEndpoint' = [localEndpoint EXCEPT ![SiteOf[e]] = IF @ = e THEN None ELSE @]
  /\ UNCHANGED <<alive, watchVars, minute>>

RemoveAtOnce(e) ==      \* as if a write under way were not awaited
  /\ stage[e] = "stopping" /\ SiteOf[e] \in alive
  /\ Removed(e) /\ UNCHANGED pen

RemoveDescriptor(e) ==
  /\ stage[e] = "stopping" /\ SiteOf[e] \in alive /\ e \notin pen
  /\ Removed(e) /\ UNCHANGED pen

(* The process ends; its descriptors stay, whole or torn. *)
KillSite(s) ==
  /\ s \in alive \ Watchers
  /\ alive' = alive \ {s}
  /\ pen' = {e \in pen : SiteOf[e] # s}
  /\ UNCHANGED <<stage, localEndpoint, card, watchVars, minute>>

-----------------------------------------------------------------------------
(* refreshLocalPeers: the directory is listed, then one descriptor after    *)
(* the other is read; the registry is updated without yielding.             *)

NotLooking == [left |-> {}, found |-> <<>>, on |-> FALSE, gone |-> {}, there |-> {}, torn |-> {}]

(* gone and there are history: what had ended, and what served, when the    *)
(* refresh began; torn: the descriptors it read half written.               *)
StartRefresh(s, i) ==
  /\ ~look[s][i].on
  /\ look' = [look EXCEPT ![s][i] =
       [NotLooking EXCEPT !.on = TRUE, !.left = {e \in Endpoints : card[e].state # "none"},
                          !.gone = {e \in Endpoints : Gone(e)},
                          !.there = {e \in Endpoints : Serving(e)}]]
  /\ UNCHANGED <<endpointVars, registry, discovered, minute>>

CountsAnyProcess(s, e) ==      \* as if the process were not looked at
  card[e].state = "whole" /\ SiteOf[e] # s /\ minute - card[e].at <= MaxAge

Counts(s, e) ==
  /\ card[e].state = "whole" /\ SiteOf[e] # s
  /\ minute - card[e].at <= MaxAge
  /\ SiteOf[e] \in alive

ReadDescriptor(s, i) ==
  \E e \in look[s][i].left :
    /\ look' = [look EXCEPT
         ![s][i].left  = @ \ {e},
         ![s][i].torn  = IF card[e].state = "torn" THEN @ \cup {e} ELSE @,
         ![s][i].found = IF Counts(s, e) THEN [q \in DOMAIN @ \cup {SiteOf[e]} |->
                                                IF q = SiteOf[e] THEN e ELSE @[q]] ELSE @]
    /\ UNCHANGED <<endpointVars, registry, discovered, minute>>

EndRefresh(s, i) ==
  LET found == look[s][i].found IN
  /\ look[s][i].on /\ look[s][i].left = {}
  /\ registry' = [registry EXCEPT ![s] =
       [q \in Sites |-> CASE q \in DOMAIN found -> found[q]
                          [] q \in discovered[s] \ DOMAIN found ->
                               IF q \in Configured THEN FromConfig ELSE None
                          [] OTHER -> @[q]]]
  /\ discovered' = [discovered EXCEPT ![s] = DOMAIN found]
  /\ look' = [look EXCEPT ![s][i] = NotLooking]
  /\ UNCHANGED <<endpointVars, minute>>

-----------------------------------------------------------------------------
(* The timers and writes of living sessions are not late by a whole heartbeat. *)
PassMinute ==
  /\ minute < LastMinute      \* bound
  /\ pen = {} /\ \A e \in Endpoints : Serving(e) => card[e].at = minute
  /\ minute' = minute + 1
  /\ UNCHANGED <<endpointVars, watchVars>>

PresenceInit ==
  /\ alive = Sites
  /\ stage = [e \in Endpoints |-> "unused"] /\ localEndpoint = [s \in Sites |-> None]
  /\ card = [e \in Endpoints |-> NoCard] /\ pen = {}
  /\ look = [s \in Watchers |-> [i \in Looks |-> NotLooking]]
  /\ registry = [s \in Watchers |-> [q \in Sites |-> IF q \in Configured THEN FromConfig ELSE None]]
  /\ discovered = [s \in Watchers |-> {}]
  /\ minute = 0

PresenceNext ==
  \/ \E s \in Sites : StartEndpoint(s) \/ StopEndpoint(s) \/ KillSite(s)
  \/ \E e \in Endpoints :
       \/ Publish(e) \/ OpenDescriptor(e) \/ Published(e)
       \/ RefreshDescriptorPresence(e) \/ Refreshed(e) \/ RemoveDescriptor(e)
  \/ \E s \in Watchers, i \in Looks : StartRefresh(s, i) \/ ReadDescriptor(s, i) \/ EndRefresh(s, i)
  \/ PassMinute

PresenceSpec == PresenceInit /\ [][PresenceNext]_presenceVars

-----------------------------------------------------------------------------
(* Properties. *)

(* An endpoint that was stopped is not seen again: no heartbeat that was    *)
(* under way puts its descriptor back.                                      *)
StoppedStaysHidden == \A e \in Endpoints : stage[e] = "stopped" => card[e] = NoCard

Ends(s, i) == look[s][i].on /\ ~look'[s][i].on

(* When a refresh ends, however many run at a time, the registry knows no   *)
(* endpoint that was gone before the refresh began, and knows every peer    *)
(* that was there all the time, unless its descriptor was just being        *)
(* written when it was read.                                                *)
RefreshTellsWhoIsThere ==
  [][\A s \in Watchers, i \in Looks : Ends(s, i) =>
       /\ \A q \in Sites : registry'[s][q] \notin look[s][i].gone
       /\ \A e \in look[s][i].there \ look[s][i].torn :
            Serving(e) /\ SiteOf[e] # s => registry'[s][SiteOf[e]] \in Endpoints]_presenceVars
=============================================================================
