-------------------------- MODULE HiddenServiceCalls --------------------------
(***************************************************************************)
(* What a caller of the hidden-service manager sees, without the control   *)
(* connection: a call is made, the daemon executes its command and answers *)
(* it, and the call returns.  One call is in progress at a time (callers   *)
(* serialize, spec 5).  A spawn or create that the daemon answers with a   *)
(* service caches, for the call's virtual port, the service created in     *)
(* answer to that very call; an error answer and a destroy leave the cache *)
(* as it is.                                                               *)
(***************************************************************************)

CONSTANTS Calls, Ports, Keys, FreshSids, None

VARIABLES
    onions,   \* the daemon's live onion services
    created,  \* pairs <<s, v>>: service s was created for virtual port v
    cache,    \* cache[v]: the address cached for port v, or None
    op,       \* op[c]: the command of call c
    pc,       \* pc[c]: "idle", "waiting", "answered" or "done"
    answer    \* answer[c]: the service the daemon answered call c with, or None

cvars == <<onions, created, cache, op, pc, answer>>

Sids == Keys \cup FreshSids

Ops == [kind : {"spawn"}, port : Ports, key : Keys]
       \cup [kind : {"create"}, port : Ports]
       \cup [kind : {"destroy"}, sid : Sids]

Request(c, o) ==
    /\ pc[c] = "idle"
    /\ \A d \in Calls : pc[d] \in {"idle", "done"}
    /\ op' = [op EXCEPT ![c] = o]
    /\ pc' = [pc EXCEPT ![c] = "waiting"]
    /\ UNCHANGED <<onions, created, cache, answer>>

\* The daemon starts a service s for the call's port and answers with it.
Start(c, s) ==
    /\ onions' = onions \cup {s}
    /\ created' = created \cup {<<s, op[c].port>>}
    /\ answer' = [answer EXCEPT ![c] = s]

\* The daemon answers without a service (an error, or a destroy).
NoService(c) == answer' = [answer EXCEPT ![c] = None]

Execute(c) ==
    /\ pc[c] = "waiting"
    /\ pc' = [pc EXCEPT ![c] = "answered"]
    /\ \/ /\ op[c].kind = "spawn"
          /\ \/ op[c].key \in onions /\ NoService(c) /\ UNCHANGED <<onions, created>>
             \/ op[c].key \notin onions /\ Start(c, op[c].key)
       \/ /\ op[c].kind = "create"
          /\ \E s \in FreshSids : (\A v \in Ports : <<s, v>> \notin created) /\ Start(c, s)
       \/ /\ op[c].kind = "destroy"
          /\ onions' = onions \ {op[c].sid}
          /\ NoService(c) /\ UNCHANGED created
    /\ UNCHANGED <<cache, op>>

Return(c) ==
    /\ pc[c] = "answered"
    /\ pc' = [pc EXCEPT ![c] = "done"]
    /\ cache' = IF op[c].kind /= "destroy" /\ answer[c] /= None
                THEN [cache EXCEPT ![op[c].port] = answer[c]]
                ELSE cache
    /\ NoService(c)
    /\ UNCHANGED <<onions, created, op>>

Init ==
    /\ onions = {} /\ created = {}
    /\ cache = [v \in Ports |-> None]
    /\ op = [c \in Calls |-> None]
    /\ pc = [c \in Calls |-> "idle"]
    /\ answer = [c \in Calls |-> None]

Next ==
    \E c \in Calls :
        \/ \E o \in Ops : Request(c, o)
        \/ Execute(c)
        \/ Return(c)

Spec == Init /\ [][Next]_cvars

=============================================================================
