---------------------------- MODULE HiddenServices ----------------------------
(***************************************************************************)
(* The hidden-service manager of packages/backend/src/torManager/          *)
(* torManager.ts (spawnHiddenService, createNewHiddenService,              *)
(* destroyHiddenService, getServiceAddress and the services cache) over    *)
(* the control channel TorControl.sendCommand, and the tor daemon that     *)
(* executes ADD_ONION and DEL_ONION.                                       *)
(*                                                                         *)
(* Each call of the manager is a caller c: it writes its command on the    *)
(* control connection and awaits the reply, and its continuation (parse    *)
(* the reply lines, update the cache) runs when a reply is handed to it.   *)
(* TorControl is not among the sources; it is modelled from spec 4.1 and   *)
(* 5: one connection, replies in the order of the commands, no timeout,   *)
(* and callers that serialize their calls, since TorControl has no queue  *)
(* of pending callers.                                                     *)
(***************************************************************************)
EXTENDS Naturals, Sequences, FiniteSets

CONSTANTS
    Calls,       \* the calls made on the manager, each made once
    Ports,       \* virtual ports
    Keys,        \* private keys passed to spawnHiddenService; a key is its service id
    FreshSids,   \* service ids the daemon can generate for NEW:BEST
    None         \* no cached record

ASSUME HiddenServicesAssumption ==
    /\ Keys \cap FreshSids = {}
    /\ None \notin Keys \cup FreshSids

VARIABLES
    onions,   \* the daemon's live onion services (service ids)
    created,  \* pairs <<s, v>>: the daemon has created service s for virtual port v
    cache,    \* this.services: cache[v] is the cached address of port v, or None
    op,       \* op[c]: the command of call c
    pc,       \* pc[c]: "idle", "waiting" for its reply, or "done"
    wire,     \* commands written and not yet executed by the daemon, in order
    replies   \* replies the daemon has written and no caller has read, in order

vars == <<onions, created, cache, op, pc, wire, replies>>

Sids == Keys \cup FreshSids

\* The commands the manager sends: ADD_ONION <key> (spawnHiddenService),
\* ADD_ONION NEW:BEST (createNewHiddenService), DEL_ONION (destroy).
Ops == [kind : {"spawn"}, port : Ports, key : Keys]
       \cup [kind : {"create"}, port : Ports]
       \cup [kind : {"destroy"}, sid : Sids]

\* Reply lines of the control protocol, as TorControl returns them in
\* status.messages: 250-ServiceID=<sid>, 250-PrivateKey=<key>, 250 OK.
Lines == [kind : {"ServiceID", "PrivateKey"}, val : Sids] \cup [kind : {"OK"}]

OkLine == [kind |-> "OK"]

Replies == [status : {"ok"}, lines : Seq(Lines)] \cup [status : {"error"}]

\* line.replace('250-ServiceID=', ''): the service id of a ServiceID line;
\* any other line comes back as it is.
Strip(line) == IF line.kind = "ServiceID" THEN line.val ELSE line

-----------------------------------------------------------------------------
(***************************************************************************)
(* The daemon executes the command at the head of the wire.                *)
(***************************************************************************)

\* ADD_ONION with a key: 550 when a service with that id is already up,
\* else the service starts and the reply names it.
AddOnionKey(o) ==
    LET s == o.key IN
    IF s \in onions
    THEN /\ replies' = Append(replies, [status |-> "error"])
         /\ UNCHANGED <<onions, created>>
    ELSE /\ onions' = onions \cup {s}
         /\ created' = created \cup {<<s, o.port>>}
         /\ replies' = Append(replies, [status |-> "ok",
                          lines |-> <<[kind |-> "ServiceID", val |-> s], OkLine>>])

\* ADD_ONION NEW:BEST: a fresh service id and key; the reply also carries
\* the private key.
AddOnionNew(o) ==
    \E s \in FreshSids :
        /\ \A v \in Ports : <<s, v>> \notin created
        /\ onions' = onions \cup {s}
        /\ created' = created \cup {<<s, o.port>>}
        /\ replies' = Append(replies, [status |-> "ok",
               lines |-> <<[kind |-> "ServiceID", val |-> s],
                           [kind |-> "PrivateKey", val |-> s], OkLine>>])

\* DEL_ONION: 552 for a service id the daemon does not know.
DelOnion(o) ==
    /\ IF o.sid \in onions
       THEN /\ onions' = onions \ {o.sid}
            /\ replies' = Append(replies, [status |-> "ok", lines |-> <<OkLine>>])
       ELSE /\ replies' = Append(replies, [status |-> "error"])
            /\ UNCHANGED onions
    /\ UNCHANGED created

DaemonExecutes ==
    /\ wire /= <<>>
    /\ LET o == op[Head(wire)] IN
         \/ o.kind = "spawn" /\ AddOnionKey(o)
         \/ o.kind = "create" /\ AddOnionNew(o)
         \/ o.kind = "destroy" /\ DelOnion(o)
    /\ wire' = Tail(wire)
    /\ UNCHANGED <<cache, op, pc>>

-----------------------------------------------------------------------------
(***************************************************************************)
(* The manager's calls.                                                    *)
(***************************************************************************)

\* A call of the manager writes its command line with sendCommand and
\* awaits the reply.  Callers serialize (spec 5): a call is made only when
\* none is pending.
Call(c, o) ==
    /\ pc[c] = "idle"
    /\ \A d \in Calls : pc[d] /= "waiting"
    /\ op' = [op EXCEPT ![c] = o]
    /\ pc' = [pc EXCEPT ![c] = "waiting"]
    /\ wire' = Append(wire, c)
    /\ UNCHANGED <<onions, created, cache, replies>>

\* Mutant of SpawnHiddenServiceReturns: the address read from messages[1].
SpawnHiddenServiceReturnsSecondLine(c, r) ==
    IF r.status = "error"
    THEN UNCHANGED cache
    ELSE cache' = [cache EXCEPT ![op[c].port] = Strip(r.lines[2])]

\* spawnHiddenService after its await: an error reply rejects the call (no
\* catch); else messages[0] with '250-ServiceID=' removed is cached for the
\* virtual port, overwriting what was there.
SpawnHiddenServiceReturns(c, r) ==
    IF r.status = "error"
    THEN UNCHANGED cache
    ELSE cache' = [cache EXCEPT ![op[c].port] = Strip(r.lines[1])]

\* Mutant of CreateNewHiddenServiceReturns: address and private key read
\* from each other's line.
CreateNewHiddenServiceReturnsSwapped(c, r) ==
    IF r.status = "error" \/ Len(r.lines) < 2
    THEN UNCHANGED cache
    ELSE cache' = [cache EXCEPT ![op[c].port] = Strip(r.lines[2])]

\* Mutant of CreateNewHiddenServiceReturns: a port that already has an
\* address keeps it.
CreateNewHiddenServiceReturnsKeepsOld(c, r) ==
    IF r.status = "error" \/ Len(r.lines) < 2 \/ cache[op[c].port] /= None
    THEN UNCHANGED cache
    ELSE cache' = [cache EXCEPT ![op[c].port] = Strip(r.lines[1])]

\* createNewHiddenService after its await: the address from messages[0],
\* the private key from messages[1]; a reply with fewer lines makes
\* messages[1].replace throw a TypeError before services.set runs.
CreateNewHiddenServiceReturns(c, r) ==
    IF r.status = "error" \/ Len(r.lines) < 2
    THEN UNCHANGED cache
    ELSE cache' = [cache EXCEPT ![op[c].port] = Strip(r.lines[1])]

\* The reply at the head of the connection is handed to the waiting call,
\* which runs its continuation; destroyHiddenService returns true, or false
\* on an error reply, and never touches the cache.
Deliver(c) ==
    /\ pc[c] = "waiting"
    /\ replies /= <<>>
    /\ LET r == Head(replies) IN
         CASE op[c].kind = "spawn"   -> SpawnHiddenServiceReturns(c, r)
           [] op[c].kind = "create"  -> CreateNewHiddenServiceReturns(c, r)
           [] op[c].kind = "destroy" -> UNCHANGED cache
    /\ replies' = Tail(replies)
    /\ pc' = [pc EXCEPT ![c] = "done"]
    /\ UNCHANGED <<onions, created, op, wire>>

-----------------------------------------------------------------------------

\* A fresh daemon (the supervisor spawns one per run; detached services die
\* with it) and an empty cache.
Init ==
    /\ onions = {}
    /\ created = {}
    /\ cache = [v \in Ports |-> None]
    /\ op = [c \in Calls |-> None]
    /\ pc = [c \in Calls |-> "idle"]
    /\ wire = <<>>
    /\ replies = <<>>

Next ==
    \/ DaemonExecutes
    \/ \E c \in Calls :
         \/ \E o \in Ops : Call(c, o)
         \/ Deliver(c)

Spec == Init /\ [][Next]_vars

\* The service an answer names: the ServiceID line of an ok reply.
ServiceOf(r) ==
    IF r.status = "ok" /\ r.lines /= <<>> /\ r.lines[1].kind = "ServiceID"
    THEN r.lines[1].val ELSE None

\* A waiting call whose command the daemon has executed has been answered.
CallPc == [c \in Calls |-> IF pc[c] = "waiting" /\ wire = <<>> THEN "answered" ELSE pc[c]]

CallAnswer == [c \in Calls |-> IF pc[c] = "waiting" /\ replies /= <<>>
                                THEN ServiceOf(Head(replies)) ELSE None]

\* What a caller sees, stated by HiddenServiceCalls: synchronous calls,
\* each spawn or create caching the service created in answer to it.
CallerView == INSTANCE HiddenServiceCalls WITH pc <- CallPc, answer <- CallAnswer

CallsSpec == CallerView!Spec

-----------------------------------------------------------------------------
(***************************************************************************)
(* Properties.                                                             *)
(***************************************************************************)

\* Type invariant.  The cache holds service ids, never another reply line.
TypeOK ==
    /\ onions \subseteq Sids
    /\ created \subseteq Sids \X Ports
    /\ cache \in [Ports -> Sids \cup {None}]
    /\ op \in [Calls -> Ops \cup {None}]
    /\ pc \in [Calls -> {"idle", "waiting", "done"}]
    /\ wire \in Seq(Calls)
    /\ replies \in Seq(Replies)

\* A cached address is a service id that the daemon created for that very
\* virtual port (spec 4.3, 8): spawnHiddenService and
\* createNewHiddenService cache the ServiceID of the reply to their own
\* ADD_ONION, read from the right line.
CachedAddressesAreServices ==
    \A v \in Ports : cache[v] /= None => <<cache[v], v>> \in created

=============================================================================
