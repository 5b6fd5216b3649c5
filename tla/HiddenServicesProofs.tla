------------------------ MODULE HiddenServicesProofs ------------------------
(***************************************************************************)
(* Proofs about HiddenServices for every set of calls, ports, keys and     *)
(* generated service ids: the type invariant, and that a cached address    *)
(* is a service the daemon created for that virtual port.                  *)
(***************************************************************************)
EXTENDS HiddenServices, SequenceTheorems, TLAPS

(***************************************************************************)
(* CachedAddressesAreServices is not inductive on its own: the             *)
(* continuation of a call caches the first line of whatever reply it is    *)
(* handed, so the invariant must say which replies can be on the          *)
(* connection.  Because callers serialize, at most one call is waiting;    *)
(* its command is either still on the wire or answered by exactly one      *)
(* reply, and an ok reply to an ADD_ONION starts with the ServiceID line   *)
(* of a service the daemon created for the call's port.                    *)
(***************************************************************************)
OneWaiting == \A c, d \in Calls : pc[c] = "waiting" /\ pc[d] = "waiting" => c = d

CallOps == \A c \in Calls : pc[c] /= "idle" => op[c] \in Ops

ReplyFits(c, r) ==
    r.status = "ok" /\ op[c].kind /= "destroy" =>
        /\ Len(r.lines) >= 1
        /\ r.lines[1].kind = "ServiceID"
        /\ <<r.lines[1].val, op[c].port>> \in created

Channel ==
    /\ (\A c \in Calls : pc[c] /= "waiting") => wire = <<>> /\ replies = <<>>
    /\ \A c \in Calls : pc[c] = "waiting" =>
          \/ wire = <<c>> /\ replies = <<>>
          \/ wire = <<>> /\ Len(replies) = 1 /\ ReplyFits(c, replies[1])

IInv == TypeOK /\ OneWaiting /\ CallOps /\ Channel /\ CachedAddressesAreServices

USE HiddenServicesAssumption

\* The initial state: no call made, an empty connection and cache.
LEMMA InitIInv == Init => IInv
BY DEF Init, IInv, TypeOK, OneWaiting, CallOps, Channel, CachedAddressesAreServices

\* A call is made only when none is waiting, so the connection is empty
\* and its command becomes the only one on the wire.
LEMMA CallPreserves ==
    ASSUME IInv, NEW c \in Calls, NEW o \in Ops, Call(c, o)
    PROVE  IInv'
<1> USE DEF IInv
<1>1. wire = <<>> /\ replies = <<>>
  BY DEF Call, Channel
<1>2. /\ wire' = <<c>> /\ replies' = <<>>
      /\ pc' = [pc EXCEPT ![c] = "waiting"] /\ op' = [op EXCEPT ![c] = o]
      /\ UNCHANGED <<onions, created, cache>>
  BY <1>1 DEF Call
<1>3. TypeOK'
  BY <1>2 DEF TypeOK
<1>4. \A d \in Calls : pc'[d] = "waiting" => d = c
  BY <1>2 DEF Call, TypeOK
<1>5. OneWaiting'
  BY <1>4 DEF OneWaiting
<1>6. CallOps'
  BY <1>2 DEF CallOps, TypeOK
<1>7. Channel'
  BY <1>2, <1>4 DEF Channel, TypeOK
<1>8. CachedAddressesAreServices'
  BY <1>2 DEF CachedAddressesAreServices
<1>9. QED
  BY <1>3, <1>5, <1>6, <1>7, <1>8

\* The daemon executes the command of the one waiting call and answers it
\* with one reply; an ok reply to ADD_ONION names the service it created
\* for the command's port on its first line.
LEMMA DaemonPreserves ==
    ASSUME IInv, DaemonExecutes
    PROVE  IInv'
<1> USE DEF IInv
<1>1. PICK c \in Calls : pc[c] = "waiting"
  BY DEF DaemonExecutes, Channel
<1>2. wire = <<c>> /\ replies = <<>>
  BY <1>1 DEF DaemonExecutes, Channel
<1>3. op[c] \in Ops
  BY <1>1 DEF CallOps
<1> DEFINE o == op[c]
<1>4. /\ wire' = <<>>
      /\ UNCHANGED <<cache, op, pc>>
      /\ \/ o.kind = "spawn" /\ AddOnionKey(o)
         \/ o.kind = "create" /\ AddOnionNew(o)
         \/ o.kind = "destroy" /\ DelOnion(o)
  BY <1>2 DEF DaemonExecutes
<1>5. /\ onions' \subseteq Sids
      /\ created \subseteq created' /\ created' \subseteq Sids \X Ports
      /\ \E r \in Replies : replies' = <<r>> /\ ReplyFits(c, r)'
  <2>1. CASE o.kind = "spawn" /\ AddOnionKey(o)
    <3>1. o.key \in Sids /\ o.port \in Ports
      BY <1>3, <2>1 DEF Ops, Sids
    <3>2. CASE o.key \in onions
      <4> DEFINE r == [status |-> "error"]
      <4>1. r \in Replies /\ ReplyFits(c, r)'
        BY DEF Replies, ReplyFits
      <4>2. replies' = <<r>> /\ UNCHANGED <<onions, created>>
        BY <1>2, <2>1, <3>2 DEF AddOnionKey
      <4>3. QED
        BY <4>1, <4>2 DEF TypeOK
    <3>3. CASE o.key \notin onions
      <4> DEFINE r == [status |-> "ok",
                       lines |-> <<[kind |-> "ServiceID", val |-> o.key], OkLine>>]
      <4>1. r \in Replies
        BY <3>1 DEF Replies, Lines, OkLine
      <4>2. replies' = <<r>> /\ created' = created \cup {<<o.key, o.port>>}
            /\ onions' = onions \cup {o.key}
        BY <1>2, <2>1, <3>3 DEF AddOnionKey
      <4>3. ReplyFits(c, r)'
        BY <1>4, <4>2 DEF ReplyFits
      <4>4. r' = r
        BY <1>4
      <4>5. \E rr \in Replies : replies' = <<rr>> /\ ReplyFits(c, rr)'
        BY <4>1, <4>2, <4>3, <4>4, Zenon
      <4>6. onions' \subseteq Sids /\ created' \subseteq Sids \X Ports
        BY <3>1, <4>2 DEF TypeOK
      <4>7. QED
        BY <4>2, <4>5, <4>6
    <3>4. QED
      BY <3>2, <3>3
  <2>2. CASE o.kind = "create" /\ AddOnionNew(o)
    <3>1. PICK s \in FreshSids :
             /\ onions' = onions \cup {s}
             /\ created' = created \cup {<<s, o.port>>}
             /\ replies' = Append(replies, [status |-> "ok",
                    lines |-> <<[kind |-> "ServiceID", val |-> s],
                                [kind |-> "PrivateKey", val |-> s], OkLine>>])
      BY <2>2 DEF AddOnionNew
    <3> DEFINE r == [status |-> "ok",
                     lines |-> <<[kind |-> "ServiceID", val |-> s],
                                 [kind |-> "PrivateKey", val |-> s], OkLine>>]
    <3>2. s \in Sids /\ o.port \in Ports
      BY <1>3, <2>2 DEF Ops, Sids
    <3>3. r \in Replies
      BY <3>2 DEF Replies, Lines, OkLine
    <3>4. replies' = <<r>>
      BY <1>2, <3>1
    <3>5. ReplyFits(c, r)'
      BY <1>4, <3>1 DEF ReplyFits
    <3>6. \E rr \in Replies : replies' = <<rr>> /\ ReplyFits(c, rr)'
      BY <3>3, <3>4, <3>5, Zenon
    <3>7. onions' \subseteq Sids /\ created' \subseteq Sids \X Ports
      BY <3>1, <3>2 DEF TypeOK
    <3>8. QED
      BY <3>1, <3>6, <3>7
  <2>3. CASE o.kind = "destroy" /\ DelOnion(o)
    <3>1. o.sid \in Sids
      BY <1>3, <2>3 DEF Ops
    <3>2. ReplyFits(c, [status |-> "error"])'
          /\ ReplyFits(c, [status |-> "ok", lines |-> <<OkLine>>])'
      BY <1>4, <2>3 DEF ReplyFits
    <3>3. [status |-> "error"] \in Replies
          /\ [status |-> "ok", lines |-> <<OkLine>>] \in Replies
      BY DEF Replies, Lines, OkLine
    <3>4. /\ onions' \subseteq onions /\ created' = created
          /\ \/ replies' = <<[status |-> "error"]>>
             \/ replies' = <<[status |-> "ok", lines |-> <<OkLine>>]>>
      BY <1>2, <2>3 DEF DelOnion
    <3>5. QED
      BY <3>2, <3>3, <3>4 DEF TypeOK
  <2>4. QED
    BY <1>4, <2>1, <2>2, <2>3
<1>6. TypeOK'
  BY <1>4, <1>5 DEF TypeOK
<1>7. OneWaiting' /\ CallOps'
  BY <1>4 DEF OneWaiting, CallOps
<1>8. Channel'
  <2>1. \A d \in Calls : pc'[d] = "waiting" => d = c
    BY <1>1, <1>4 DEF OneWaiting
  <2>2. QED
    BY <1>1, <1>4, <1>5, <2>1 DEF Channel
<1>9. CachedAddressesAreServices'
  BY <1>4, <1>5 DEF CachedAddressesAreServices
<1>10. QED
  BY <1>6, <1>7, <1>8, <1>9

\* Caching the address read from a fitting reply keeps the cache typed and
\* every cached address a created service of its port.
LEMMA CacheFromReply ==
    ASSUME TypeOK, CachedAddressesAreServices,
           NEW c \in Calls, op[c] \in Ops, op[c].kind /= "destroy",
           NEW r \in Replies, r.status = "ok", ReplyFits(c, r),
           cache' = [cache EXCEPT ![op[c].port] = Strip(r.lines[1])]
    PROVE  /\ cache' \in [Ports -> Sids \cup {None}]
           /\ \A v \in Ports : cache'[v] /= None => <<cache'[v], v>> \in created
<1>1. r.lines \in Seq(Lines) /\ Len(r.lines) >= 1 /\ r.lines[1].kind = "ServiceID"
      /\ <<r.lines[1].val, op[c].port>> \in created
  BY DEF Replies, ReplyFits
<1>2. Strip(r.lines[1]) = r.lines[1].val /\ r.lines[1].val \in Sids
  BY <1>1 DEF Strip, Lines
<1>3. op[c].port \in Ports
  BY DEF Ops
<1>4. QED
  BY <1>1, <1>2, <1>3 DEF TypeOK, CachedAddressesAreServices

\* What a delivery step finds and does: the reply it hands over is the only
\* one on the connection and fits its call, and the call's continuation runs
\* on it.
LEMMA DeliverFacts ==
    ASSUME IInv, NEW c \in Calls, Deliver(c)
    PROVE  /\ pc[c] = "waiting" /\ replies /= <<>>
           /\ wire = <<>> /\ Len(replies) = 1 /\ ReplyFits(c, replies[1])
           /\ op[c] \in Ops /\ replies[1] \in Replies /\ Head(replies) = replies[1]
           /\ replies' = <<>> /\ pc' = [pc EXCEPT ![c] = "done"]
           /\ UNCHANGED <<onions, created, op, wire>>
           /\ CASE op[c].kind = "spawn"   -> SpawnHiddenServiceReturns(c, replies[1])
                [] op[c].kind = "create"  -> CreateNewHiddenServiceReturns(c, replies[1])
                [] op[c].kind = "destroy" -> UNCHANGED cache
<1> USE DEF IInv
<1>1. pc[c] = "waiting" /\ replies /= <<>>
  BY DEF Deliver
<1>2. wire = <<>> /\ Len(replies) = 1 /\ ReplyFits(c, replies[1])
  BY <1>1 DEF Channel
<1>3. op[c] \in Ops /\ replies[1] \in Replies
  BY <1>1, <1>2 DEF CallOps, TypeOK
<1> DEFINE r == replies[1]
<1>4. /\ replies' = <<>> /\ pc' = [pc EXCEPT ![c] = "done"]
      /\ UNCHANGED <<onions, created, op, wire>>
      /\ CASE op[c].kind = "spawn"   -> SpawnHiddenServiceReturns(c, r)
           [] op[c].kind = "create"  -> CreateNewHiddenServiceReturns(c, r)
           [] op[c].kind = "destroy" -> UNCHANGED cache
  <2>1. Head(replies) = r /\ Tail(replies) = <<>>
    <3>1. replies \in Seq(Replies)
      BY DEF TypeOK
    <3>2. Head(replies) = r
      BY <3>1, <1>2
    <3>3. Tail(replies) \in Seq(Replies) /\ Len(Tail(replies)) = 0
      BY <3>1, <1>1, <1>2, HeadTailProperties
    <3>4. Tail(replies) = <<>>
      BY <3>3, EmptySeq
    <3>5. QED
      BY <3>2, <3>4
  <2>2. LET rr == Head(replies) IN
          CASE op[c].kind = "spawn"   -> SpawnHiddenServiceReturns(c, rr)
            [] op[c].kind = "create"  -> CreateNewHiddenServiceReturns(c, rr)
            [] op[c].kind = "destroy" -> UNCHANGED cache
    BY DEF Deliver
  <2>3. QED
    BY <2>1, <2>2, Zenon DEF Deliver
<1>5. Head(replies) = r
  BY <1>2 DEF TypeOK
<1>6. QED
  BY <1>1, <1>2, <1>3, <1>4, <1>5

\* The waiting call takes the one reply on the connection; its
\* continuation caches the ServiceID line of an ok reply to its ADD_ONION.
\* Afterwards no call is waiting and the connection is empty.
LEMMA DeliverPreserves ==
    ASSUME IInv, NEW c \in Calls, Deliver(c)
    PROVE  IInv'
<1> USE DEF IInv
<1>1. pc[c] = "waiting" /\ replies /= <<>>
  BY DeliverFacts
<1>2. wire = <<>> /\ Len(replies) = 1 /\ ReplyFits(c, replies[1])
  BY DeliverFacts
<1>3. op[c] \in Ops /\ replies[1] \in Replies
  BY DeliverFacts
<1> DEFINE r == replies[1]
<1>4. /\ replies' = <<>> /\ pc' = [pc EXCEPT ![c] = "done"]
      /\ UNCHANGED <<onions, created, op, wire>>
      /\ CASE op[c].kind = "spawn"   -> SpawnHiddenServiceReturns(c, r)
           [] op[c].kind = "create"  -> CreateNewHiddenServiceReturns(c, r)
           [] op[c].kind = "destroy" -> UNCHANGED cache
  BY DeliverFacts
<1>5. /\ cache' \in [Ports -> Sids \cup {None}]
      /\ \A v \in Ports : cache'[v] /= None => <<cache'[v], v>> \in created
  <2>1. CASE op[c].kind = "spawn"
    <3>1. SpawnHiddenServiceReturns(c, r)
      BY <1>4, <2>1
    <3>2. CASE r.status = "error"
      BY <3>1, <3>2 DEF SpawnHiddenServiceReturns, TypeOK, CachedAddressesAreServices
    <3>3. CASE r.status /= "error"
      <4>1. r.status = "ok" /\ cache' = [cache EXCEPT ![op[c].port] = Strip(r.lines[1])]
        BY <1>3, <3>1, <3>3 DEF SpawnHiddenServiceReturns, Replies
      <4>2. QED
        BY <1>2, <1>3, <2>1, <4>1, CacheFromReply
    <3>4. QED
      BY <3>2, <3>3
  <2>2. CASE op[c].kind = "create"
    <3>1. CreateNewHiddenServiceReturns(c, r)
      BY <1>4, <2>2
    <3>2. CASE r.status = "error" \/ Len(r.lines) < 2
      BY <3>1, <3>2 DEF CreateNewHiddenServiceReturns, TypeOK, CachedAddressesAreServices
    <3>3. CASE ~(r.status = "error" \/ Len(r.lines) < 2)
      <4>1. r.status = "ok" /\ cache' = [cache EXCEPT ![op[c].port] = Strip(r.lines[1])]
        BY <1>3, <3>1, <3>3 DEF CreateNewHiddenServiceReturns, Replies
      <4>2. QED
        BY <1>2, <1>3, <2>2, <4>1, CacheFromReply
    <3>4. QED
      BY <3>2, <3>3
  <2>3. CASE op[c].kind = "destroy"
    BY <1>4, <2>3 DEF TypeOK, CachedAddressesAreServices
  <2>4. QED
    BY <1>3, <2>1, <2>2, <2>3 DEF Ops
<1>6. \A d \in Calls : pc'[d] /= "waiting"
  BY <1>1, <1>4 DEF OneWaiting, TypeOK
<1>7. TypeOK'
  BY <1>4, <1>5 DEF TypeOK
<1>8. OneWaiting' /\ Channel'
  BY <1>2, <1>4, <1>6 DEF OneWaiting, Channel
<1>9. CallOps'
  BY <1>3, <1>4 DEF CallOps, TypeOK
<1>10. CachedAddressesAreServices'
  BY <1>4, <1>5 DEF CachedAddressesAreServices
<1>11. QED
  BY <1>7, <1>8, <1>9, <1>10

\* IInv is inductive.
LEMMA NextIInv == IInv /\ [Next]_vars => IInv'
<1> SUFFICES ASSUME IInv, [Next]_vars PROVE IInv'
  OBVIOUS
<1>1. CASE DaemonExecutes
  BY <1>1, DaemonPreserves
<1>2. CASE \E c \in Calls, o \in Ops : Call(c, o)
  BY <1>2, CallPreserves
<1>3. CASE \E c \in Calls : Deliver(c)
  BY <1>3, DeliverPreserves
<1>4. CASE UNCHANGED vars
  BY <1>4 DEF vars, IInv, TypeOK, OneWaiting, CallOps, Channel, ReplyFits,
              CachedAddressesAreServices
<1>5. QED
  BY <1>1, <1>2, <1>3, <1>4 DEF Next

\* Every reachable state of the hidden-service manager and its daemon is
\* well typed: the cache holds service ids, never another reply line.
THEOREM TypeCorrect == Spec => []TypeOK
<1>1. Spec => []IInv
  BY InitIInv, NextIInv, PTL DEF Spec
<1>2. QED
  BY <1>1, PTL DEF IInv

\* For every set of calls, ports, keys and generated ids: an address that
\* spawnHiddenService or createNewHiddenService caches is a service the
\* daemon created for that very virtual port.
THEOREM CachedAddressesCorrect == Spec => []CachedAddressesAreServices
<1>1. Spec => []IInv
  BY InitIInv, NextIInv, PTL DEF Spec
<1>2. QED
  BY <1>1, PTL DEF IInv

-----------------------------------------------------------------------------
(***************************************************************************)
(* Refinement: the manager over the control connection implements          *)
(* HiddenServiceCalls, the synchronous calls a caller sees, under the      *)
(* mapping CallPc, CallAnswer.  Besides IInv this needs to know that an ok *)
(* answer to ADD_ONION NEW:BEST has the PrivateKey line, so that           *)
(* createNewHiddenService reaches services.set.                            *)
(***************************************************************************)
CreateReplyFull ==
    \A c \in Calls :
        pc[c] = "waiting" /\ op[c].kind = "create" /\ replies /= <<>>
        /\ replies[1].status = "ok" => Len(replies[1].lines) >= 2


\* No call is waiting in the initial state.
LEMMA InitReplyFull == Init => CreateReplyFull
BY DEF Init, CreateReplyFull

\* Only the daemon puts a reply on the connection, and its answer to
\* NEW:BEST has three lines; a call and a delivery leave no reply to a
\* waiting call.
LEMMA NextReplyFull == IInv /\ CreateReplyFull /\ [Next]_vars => CreateReplyFull'
<1> SUFFICES ASSUME IInv, CreateReplyFull, [Next]_vars PROVE CreateReplyFull'
  OBVIOUS
<1>1. CASE DaemonExecutes
  <2>1. PICK c \in Calls : pc[c] = "waiting"
    BY <1>1 DEF DaemonExecutes, IInv, Channel
  <2>2. wire = <<c>> /\ replies = <<>> /\ op[c] \in Ops
    BY <1>1, <2>1 DEF DaemonExecutes, IInv, Channel, CallOps
  <2>3. \A d \in Calls : pc'[d] = "waiting" => d = c
    BY <1>1, <2>1 DEF DaemonExecutes, IInv, OneWaiting
  <2>4. CASE op[c].kind = "create"
    <3>1. PICK s \in FreshSids :
             replies' = Append(replies, [status |-> "ok",
                    lines |-> <<[kind |-> "ServiceID", val |-> s],
                                [kind |-> "PrivateKey", val |-> s], OkLine>>])
      BY <1>1, <2>2, <2>4 DEF DaemonExecutes, AddOnionNew
    <3>2. Len(replies'[1].lines) = 3
      BY <2>2, <3>1
    <3>3. QED
      BY <1>1, <2>3, <3>2 DEF DaemonExecutes, CreateReplyFull
  <2>5. CASE op[c].kind /= "create"
    BY <1>1, <2>3, <2>5 DEF DaemonExecutes, CreateReplyFull
  <2>6. QED
    BY <2>4, <2>5
<1>2. CASE \E c \in Calls, o \in Ops : Call(c, o)
  <2>1. replies = <<>>
    BY <1>2 DEF Call, IInv, Channel
  <2>2. QED
    BY <1>2, <2>1 DEF Call, CreateReplyFull
<1>3. CASE \E c \in Calls : Deliver(c)
  <2>1. PICK c \in Calls : Deliver(c)
    BY <1>3
  <2>2. \A d \in Calls : pc'[d] /= "waiting"
    BY <2>1 DEF Deliver, IInv, OneWaiting, TypeOK
  <2>3. QED
    BY <2>2 DEF CreateReplyFull
<1>4. CASE UNCHANGED vars
  BY <1>4 DEF vars, CreateReplyFull
<1>5. QED
  BY <1>1, <1>2, <1>3, <1>4 DEF Next


\* With no call waiting, the abstract view is the concrete one: every call
\* is idle or done and none has an answer.
LEMMA NoneWaiting ==
    ASSUME TypeOK, \A d \in Calls : pc[d] /= "waiting"
    PROVE  CallPc = pc /\ CallAnswer = [d \in Calls |-> None]
BY DEF CallPc, CallAnswer, TypeOK

\* A call of the manager is the abstract Request.
LEMMA CallRefines ==
    ASSUME IInv, NEW c \in Calls, NEW o \in Ops, Call(c, o)
    PROVE  CallerView!Request(c, o)
<1>0. (\A d \in Calls : pc[d] /= "waiting") /\ wire = <<>> /\ replies = <<>>
  BY DEF Call, IInv, Channel
<1>1. /\ \A d \in Calls : pc[d] /= "waiting"
      /\ wire' = <<c>> /\ replies' = <<>>
      /\ pc' = [pc EXCEPT ![c] = "waiting"] /\ op' = [op EXCEPT ![c] = o]
      /\ UNCHANGED <<onions, created, cache>>
  BY <1>0 DEF Call
<1>2. CallPc = pc /\ CallAnswer = [d \in Calls |-> None]
  BY <1>1, NoneWaiting DEF IInv
<1>3. TypeOK'
  BY CallPreserves DEF IInv
<1>4. CallPc' = pc'
  BY <1>1, <1>3 DEF CallPc, TypeOK
<1>5. CallAnswer' = [d \in Calls |-> None]
  BY <1>1 DEF CallAnswer
<1>6. \A d \in Calls : pc[d] \in {"idle", "done"}
  BY <1>1 DEF IInv, TypeOK
<1>7. QED
  BY <1>1, <1>2, <1>4, <1>5, <1>6 DEF Call, CallerView!Request


\* The daemon executing the command of the waiting call is the abstract
\* Execute of that call, answered with the service its reply names.
LEMMA DaemonRefines ==
    ASSUME IInv, DaemonExecutes
    PROVE  \E c \in Calls : CallerView!Execute(c)
<1>1. PICK c \in Calls : pc[c] = "waiting"
  BY DEF DaemonExecutes, IInv, Channel
<1>2. wire = <<c>> /\ replies = <<>> /\ op[c] \in Ops
  BY <1>1 DEF DaemonExecutes, IInv, Channel, CallOps
<1>3. \A d \in Calls : pc[d] = "waiting" => d = c
  BY <1>1 DEF IInv, OneWaiting
<1> DEFINE o == op[c]
<1>4. /\ wire' = <<>>
      /\ UNCHANGED <<cache, op, pc>>
      /\ \/ o.kind = "spawn" /\ AddOnionKey(o)
         \/ o.kind = "create" /\ AddOnionNew(o)
         \/ o.kind = "destroy" /\ DelOnion(o)
  BY <1>2 DEF DaemonExecutes
<1>5. CallPc = pc /\ CallAnswer = [d \in Calls |-> None]
  BY <1>2 DEF CallPc, CallAnswer, IInv, TypeOK
<1>6. CallPc' = [CallPc EXCEPT ![c] = "answered"]
  BY <1>1, <1>3, <1>4, <1>5 DEF CallPc, IInv, TypeOK
<1>7. ASSUME NEW r, replies' = <<r>>
      PROVE  CallAnswer' = [CallAnswer EXCEPT ![c] = ServiceOf(r)]
  <2>1. replies' /= <<>> /\ Head(replies') = r
    BY <1>7
  <2>2. pc' = pc /\ pc \in [Calls -> {"idle", "waiting", "done"}]
    BY <1>4 DEF IInv, TypeOK
  <2>3. CallAnswer' = [d \in Calls |-> IF d = c THEN ServiceOf(r) ELSE None]
    BY <1>1, <1>3, <2>1, <2>2 DEF CallAnswer
  <2>4. QED
    BY <1>5, <2>3
<1>8. o.kind = "spawn" /\ AddOnionKey(o) => CallerView!Execute(c)
  <2> SUFFICES ASSUME o.kind = "spawn", AddOnionKey(o) PROVE CallerView!Execute(c)
    OBVIOUS
  <2>1. CASE o.key \in onions
    <3>1. replies' = <<[status |-> "error"]>> /\ UNCHANGED <<onions, created>>
      BY <1>2, <2>1 DEF AddOnionKey
    <3>2. ServiceOf([status |-> "error"]) = None
      BY DEF ServiceOf
    <3>3. QED
      BY <1>1, <1>4, <1>5, <1>6, <1>7, <2>1, <3>1, <3>2
         DEF CallerView!Execute, CallerView!NoService
  <2>2. CASE o.key \notin onions
    <3> DEFINE r == [status |-> "ok",
                     lines |-> <<[kind |-> "ServiceID", val |-> o.key], OkLine>>]
    <3>1. /\ replies' = <<r>>
          /\ onions' = onions \cup {o.key}
          /\ created' = created \cup {<<o.key, o.port>>}
      BY <1>2, <2>2 DEF AddOnionKey
    <3>2. ServiceOf(r) = o.key
      BY DEF ServiceOf
    <3>3. QED
      BY <1>1, <1>4, <1>5, <1>6, <1>7, <2>2, <3>1, <3>2
         DEF CallerView!Execute, CallerView!Start
  <2>3. QED
    BY <2>1, <2>2
<1>9. o.kind = "create" /\ AddOnionNew(o) => CallerView!Execute(c)
  <2> SUFFICES ASSUME o.kind = "create", AddOnionNew(o) PROVE CallerView!Execute(c)
    OBVIOUS
  <2>1. PICK s \in FreshSids :
           /\ \A v \in Ports : <<s, v>> \notin created
           /\ onions' = onions \cup {s}
           /\ created' = created \cup {<<s, o.port>>}
           /\ replies' = Append(replies, [status |-> "ok",
                  lines |-> <<[kind |-> "ServiceID", val |-> s],
                              [kind |-> "PrivateKey", val |-> s], OkLine>>])
    BY DEF AddOnionNew
  <2> DEFINE r == [status |-> "ok",
                   lines |-> <<[kind |-> "ServiceID", val |-> s],
                               [kind |-> "PrivateKey", val |-> s], OkLine>>]
  <2>2. replies' = <<r>> /\ ServiceOf(r) = s
    BY <1>2, <2>1 DEF ServiceOf
  <2>3. CallerView!Start(c, s)
    BY <1>4, <1>5, <1>7, <2>1, <2>2 DEF CallerView!Start
  <2>4. QED
    BY <1>1, <1>4, <1>5, <1>6, <2>1, <2>3 DEF CallerView!Execute
<1>10. o.kind = "destroy" /\ DelOnion(o) => CallerView!Execute(c)
  <2> SUFFICES ASSUME o.kind = "destroy", DelOnion(o) PROVE CallerView!Execute(c)
    OBVIOUS
  <2>1. /\ onions' = onions \ {o.sid} /\ created' = created
        /\ \/ replies' = <<[status |-> "error"]>>
           \/ replies' = <<[status |-> "ok", lines |-> <<OkLine>>]>>
    BY <1>2 DEF DelOnion
  <2>2. /\ ServiceOf([status |-> "error"]) = None
        /\ ServiceOf([status |-> "ok", lines |-> <<OkLine>>]) = None
    BY DEF ServiceOf, OkLine
  <2>3. CallAnswer' = [CallAnswer EXCEPT ![c] = None]
    BY <1>7, <2>1, <2>2
  <2>4. QED
    BY <1>1, <1>4, <1>5, <1>6, <2>1, <2>3 DEF CallerView!Execute, CallerView!NoService
<1>11. QED
  BY <1>4, <1>8, <1>9, <1>10

\* Handing the reply to the waiting call is the abstract Return of that
\* call: the cache takes the service the daemon answered with, if any.
LEMMA DeliverRefines ==
    ASSUME IInv, CreateReplyFull, NEW c \in Calls, Deliver(c)
    PROVE  CallerView!Return(c)
<1> DEFINE r == replies[1]
<1>1. /\ pc[c] = "waiting" /\ replies /= <<>>
      /\ wire = <<>> /\ ReplyFits(c, r)
      /\ op[c] \in Ops /\ r \in Replies /\ Head(replies) = r
      /\ replies' = <<>> /\ pc' = [pc EXCEPT ![c] = "done"]
      /\ UNCHANGED <<onions, created, op, wire>>
      /\ CASE op[c].kind = "spawn"   -> SpawnHiddenServiceReturns(c, r)
           [] op[c].kind = "create"  -> CreateNewHiddenServiceReturns(c, r)
           [] op[c].kind = "destroy" -> UNCHANGED cache
  BY DeliverFacts
<1>2. \A d \in Calls : pc[d] = "waiting" => d = c
  BY <1>1 DEF IInv, OneWaiting
<1>3. pc \in [Calls -> {"idle", "waiting", "done"}]
  BY DEF IInv, TypeOK
<1>4. CallPc[c] = "answered" /\ CallPc' = [CallPc EXCEPT ![c] = "done"]
  BY <1>1, <1>2, <1>3 DEF CallPc
<1>5. CallAnswer[c] = ServiceOf(r) /\ CallAnswer' = [CallAnswer EXCEPT ![c] = None]
  BY <1>1, <1>2, <1>3 DEF CallAnswer
<1>6. /\ op[c].kind = "spawn"   => SpawnHiddenServiceReturns(c, r)
      /\ op[c].kind = "create"  => CreateNewHiddenServiceReturns(c, r)
      /\ op[c].kind = "destroy" => UNCHANGED cache
  BY <1>1 DEF Ops
<1>7. cache' = IF op[c].kind /= "destroy" /\ CallAnswer[c] /= None
               THEN [cache EXCEPT ![op[c].port] = CallAnswer[c]]
               ELSE cache
  <2>1. CASE r.status = "error"
    <3>1. ServiceOf(r) = None
      BY <2>1 DEF ServiceOf
    <3>2. UNCHANGED cache
      <4>1. op[c].kind \in {"spawn", "create", "destroy"}
        BY <1>1 DEF Ops
      <4>2. CASE op[c].kind = "spawn"
        BY <1>6, <2>1, <4>2 DEF SpawnHiddenServiceReturns
      <4>3. CASE op[c].kind = "create"
        BY <1>6, <2>1, <4>3 DEF CreateNewHiddenServiceReturns
      <4>4. CASE op[c].kind = "destroy"
        BY <1>6, <4>4
      <4>5. QED
        BY <4>1, <4>2, <4>3, <4>4
    <3>3. QED
      BY <1>5, <3>1, <3>2
  <2>2. CASE r.status = "ok" /\ op[c].kind = "destroy"
    BY <1>6, <2>2
  <2>3. CASE r.status = "ok" /\ op[c].kind /= "destroy"
    <3>1. op[c].kind \in {"spawn", "create"}
      BY <1>1, <2>3 DEF Ops
    <3>2. Len(r.lines) >= 1 /\ r.lines[1].kind = "ServiceID"
      BY <1>1, <2>3 DEF ReplyFits
    <3>3. r.lines \in Seq(Lines)
      BY <1>1, <2>3 DEF Replies
    <3>4. r.lines[1].val \in Sids
      BY <3>2, <3>3 DEF Lines
    <3>5. ServiceOf(r) = r.lines[1].val /\ Strip(r.lines[1]) = r.lines[1].val
      BY <2>3, <3>2 DEF ServiceOf, Strip
    <3>6. ServiceOf(r) /= None
      BY <3>4, <3>5, HiddenServicesAssumption DEF Sids
    <3>7. op[c].kind = "create" => Len(r.lines) >= 2
      BY <1>1, <2>3 DEF CreateReplyFull
    <3>8. cache' = [cache EXCEPT ![op[c].port] = Strip(r.lines[1])]
      BY <1>1, <1>6, <2>3, <3>1, <3>7
         DEF SpawnHiddenServiceReturns, CreateNewHiddenServiceReturns
    <3>9. QED
      BY <1>5, <2>3, <3>5, <3>6, <3>8
  <2>4. QED
    BY <1>1, <2>1, <2>2, <2>3 DEF Replies
<1>8. QED
  BY <1>1, <1>4, <1>5, <1>7 DEF CallerView!Return, CallerView!NoService

\* Every step of the manager and its daemon is a step of the caller's view
\* or leaves it unchanged.
LEMMA NextRefinesCalls ==
    IInv /\ CreateReplyFull /\ [Next]_vars => [CallerView!Next]_CallerView!cvars
<1> SUFFICES ASSUME IInv, CreateReplyFull, [Next]_vars
             PROVE  [CallerView!Next]_CallerView!cvars
  OBVIOUS
<1>1. CASE DaemonExecutes
  BY <1>1, DaemonRefines DEF CallerView!Next
<1>2. CASE \E c \in Calls, o \in Ops : Call(c, o)
  <2>1. PICK c \in Calls, o \in Ops : Call(c, o)
    BY <1>2
  <2>2. CallerView!Request(c, o)
    BY <2>1, CallRefines
  <2>3. o \in CallerView!Ops
    BY DEF Ops, CallerView!Ops, Sids, CallerView!Sids
  <2>4. QED
    BY <2>2, <2>3 DEF CallerView!Next
<1>3. CASE \E c \in Calls : Deliver(c)
  BY <1>3, DeliverRefines DEF CallerView!Next
<1>4. CASE UNCHANGED vars
  BY <1>4 DEF vars, CallerView!cvars, CallPc, CallAnswer
<1>5. QED
  BY <1>1, <1>2, <1>3, <1>4 DEF Next

\* The hidden-service manager, its control connection and the daemon
\* implement what a caller is promised (HiddenServiceCalls): one call at a
\* time is executed by the daemon and returns, and spawnHiddenService and
\* createNewHiddenService cache, for the call's virtual port, exactly the
\* service the daemon created in answer to that call.
THEOREM ImplementsCalls == Spec => CallsSpec
<1>1. Init => CallerView!Init
  <2> SUFFICES ASSUME Init PROVE CallerView!Init
    OBVIOUS
  <2>1. TypeOK /\ \A d \in Calls : pc[d] /= "waiting"
    BY InitIInv DEF Init, IInv
  <2>2. CallPc = pc /\ CallAnswer = [d \in Calls |-> None]
    BY <2>1, NoneWaiting
  <2>3. QED
    BY <2>2 DEF Init, CallerView!Init
<1>2. Spec => [](IInv /\ CreateReplyFull)
  BY InitIInv, InitReplyFull, NextIInv, NextReplyFull, PTL DEF Spec
<1>3. QED
  BY <1>1, <1>2, NextRefinesCalls, PTL DEF Spec, CallsSpec, CallerView!Spec

=============================================================================
