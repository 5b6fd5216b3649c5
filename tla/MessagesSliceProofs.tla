------------------------- MODULE MessagesSliceProofs -------------------------
(***************************************************************************)
(* Proofs about the reducers of MessagesSlice for every set of channels,   *)
(* ids and paths.  incomingMessages is a fold of IncomingMessage over the  *)
(* batch; what one iteration of its loop keeps is proved here, while the  *)
(* fold over a whole batch needs induction over the batch, which stays    *)
(* with TLC.                                                               *)
(***************************************************************************)
EXTENDS MessagesSlice, TLAPS

USE MessagesSliceAssumption, NoneAssumption

\* The accumulator of the incomingMessages loop: the store as the loop
\* leaves it, and whether the loop has returned or thrown.
Acc == [base : [Channels -> Entity \cup {None}], returned : BOOLEAN, threw : BOOLEAN]

\* One iteration of the loop keeps the accumulator well typed: the merged
\* media of a message is always a media value, never Absent.
LEMMA IncomingMessageTyped ==
    ASSUME NEW acc \in Acc, NEW m \in ChannelMessage \cup {NotAMessage}
    PROVE  IncomingMessage(acc, m) \in Acc
<1>1. CASE acc.returned \/ acc.threw \/ ~InstanceOfChannelMessage(m)
  BY <1>1 DEF IncomingMessage, Acc
<1>2. CASE ~(acc.returned \/ acc.threw) /\ InstanceOfChannelMessage(m)
  <2>1. m \in ChannelMessage
    BY <1>2 DEF InstanceOfChannelMessage
  <2> DEFINE ch == m.channelAddress
             draft == IF acc.base[ch] = None THEN Absent
                      ELSE acc.base[ch].messages[m.id]
             incoming == IF m.media /= NoMedia /\ draft \in Paths /\ m.media \notin Paths
                         THEN draft ELSE m.media
             stored == IF incoming = NoMedia /\ draft /= Absent THEN draft ELSE incoming
  <2>2. ch \in Channels /\ m.id \in Ids /\ m.media \in MediaVals
    BY <2>1 DEF ChannelMessage
  <2>3. draft \in MediaVals \cup {Absent}
    BY <2>2 DEF Acc, Entity
  <2>4. stored \in MediaVals
    BY <2>2, <2>3 DEF MediaVals
  <2>5. CASE (m.media /= NoMedia /\ draft = NoMedia) \/ acc.base[ch] = None
    BY <1>2, <2>5 DEF IncomingMessage, Acc
  <2>6. CASE ~((m.media /= NoMedia /\ draft = NoMedia) \/ acc.base[ch] = None)
    <3>1. IncomingMessage(acc, m) = [acc EXCEPT !.base[ch].messages[m.id] = stored]
      BY <1>2, <2>6 DEF IncomingMessage
    <3>2. acc.base[ch] \in Entity
      BY <2>2, <2>6 DEF Acc
    <3>3. [acc.base[ch] EXCEPT !.messages[m.id] = stored] \in Entity
      BY <2>2, <2>4, <3>2 DEF Entity
    <3> DEFINE e == [acc.base[ch] EXCEPT !.messages[m.id] = stored]
    <3>4. [acc.base EXCEPT ![ch] = e] \in [Channels -> Entity \cup {None}]
      BY <2>2, <3>3 DEF Acc
    <3>5. IncomingMessage(acc, m) = [acc EXCEPT !.base = [acc.base EXCEPT ![ch] = e]]
      BY <3>1
    <3>6. QED
      BY <3>4, <3>5 DEF Acc
  <2>7. QED
    BY <2>5, <2>6
<1>3. QED
  BY <1>1, <1>2


\* One iteration of the incomingMessages loop never drops a stored message
\* and never loses a downloaded path: a message received again without
\* media keeps the stored media (the shallow merge of upsertOne), and one
\* received with media but no path keeps the draft's path.
THEOREM IncomingMessageKeepsStored ==
    ASSUME NEW acc \in Acc, NEW m \in ChannelMessage \cup {NotAMessage},
           NEW ch \in Channels, NEW id \in Ids, Stored(acc.base, ch, id)
    PROVE  /\ Stored(IncomingMessage(acc, m).base, ch, id)
           /\ acc.base[ch].messages[id] \in Paths
                => IncomingMessage(acc, m).base[ch].messages[id] \in Paths
<1> DEFINE r == IncomingMessage(acc, m)
<1>1. acc.base[ch] \in Entity /\ acc.base[ch].messages[id] \in MediaVals
  BY DEF Stored, Acc, Entity
<1>2. CASE r.base = acc.base
  BY <1>2 DEF Stored
<1>3. CASE r.base /= acc.base
  <2>1. ~(acc.returned \/ acc.threw) /\ m \in ChannelMessage /\ InstanceOfChannelMessage(m)
    BY <1>3 DEF IncomingMessage, InstanceOfChannelMessage
  <2> DEFINE c == m.channelAddress
             draft == IF acc.base[c] = None THEN Absent
                      ELSE acc.base[c].messages[m.id]
             incoming == IF m.media /= NoMedia /\ draft \in Paths /\ m.media \notin Paths
                         THEN draft ELSE m.media
             stored == IF incoming = NoMedia /\ draft /= Absent THEN draft ELSE incoming
  <2>2. c \in Channels /\ m.id \in Ids /\ m.media \in MediaVals
    BY <2>1 DEF ChannelMessage
  <2>3. ~((m.media /= NoMedia /\ draft = NoMedia) \/ acc.base[c] = None)
    BY <1>3, <2>1 DEF IncomingMessage, InstanceOfChannelMessage
  <2>5. acc.base[c] \in Entity
    BY <2>2, <2>3 DEF Acc
  <2> DEFINE e == [acc.base[c] EXCEPT !.messages[m.id] = stored]
  <2>4. r.base = [acc.base EXCEPT ![c] = e]
    <3>1. r = [acc EXCEPT !.base[c].messages[m.id] = stored]
      BY <2>1, <2>3 DEF IncomingMessage
    <3>2. QED
      BY <3>1 DEF Acc
  <2>9. e.messages = [acc.base[c].messages EXCEPT ![m.id] = stored]
        /\ acc.base[c].messages \in [Ids -> MediaVals \cup {Absent}]
    BY <2>5 DEF Entity
  <2>10. stored \in MediaVals
    BY <2>2, <2>5, <2>9 DEF MediaVals
  <2>11. e \in Entity /\ r.base[c] = e /\ r.base[c] /= None
    <3>1. e \in Entity
      BY <2>2, <2>5, <2>9, <2>10 DEF Entity
    <3>2. r.base[c] = e
      BY <2>2, <2>4 DEF Acc
    <3>3. QED
      BY <3>1, <3>2, NoneAssumption
  <2>6. CASE c = ch /\ m.id = id
    <3>1. draft = acc.base[ch].messages[id] /\ draft /= Absent
      BY <1>1, <2>6 DEF MediaVals, Stored
    <3>2. r.base[ch].messages[id] = stored
      BY <2>2, <2>4, <2>6, <2>9 DEF Acc
    <3>3. stored \in MediaVals
      BY <1>1, <2>2, <3>1 DEF MediaVals
    <3>4. draft \in Paths => stored \in Paths
      BY <3>1, <2>3 DEF MediaVals
    <3>5. QED
      BY <2>6, <2>11, <3>1, <3>2, <3>3, <3>4 DEF Stored, MediaVals
  <2>7. CASE ~(c = ch /\ m.id = id)
    <3>1. r.base[ch] /= None /\ r.base[ch].messages[id] = acc.base[ch].messages[id]
      <4>1. CASE c = ch
        <5>1. r.base[ch] = e /\ r.base[ch] /= None
          BY <2>11, <4>1
        <5>2. m.id /= id /\ id \in DOMAIN acc.base[c].messages
          BY <2>7, <2>9, <4>1
        <5>3. e.messages[id] = acc.base[ch].messages[id]
          BY <2>9, <4>1, <5>2
        <5>4. QED
          BY <5>1, <5>3
      <4>2. CASE c /= ch
        BY <1>1, <2>2, <2>4, <4>2 DEF Acc, Stored
      <4>3. QED
        BY <4>1, <4>2
    <3>2. QED
      BY <1>1, <3>1 DEF Stored, MediaVals
  <2>8. QED
    BY <2>6, <2>7
<1>4. QED
  BY <1>2, <1>3

\* The other reducers keep what the store holds: addOne leaves an existing
\* entity as it is, updateOne changes only the display count, and the
\* sending statuses are a separate entity adapter.
THEOREM OtherReducersKeepStored ==
    ASSUME TypeOK, NEW ch \in Channels, NEW id \in Ids, Stored(base, ch, id),
           \/ \E c \in Channels : AddPublicChannelsMessagesBase(c)
           \/ \E c \in Channels, d \in Displays : SetDisplayedMessagesNumber(c, d)
           \/ \E i \in Ids : AddMessagesSendingStatus(i) \/ RemovePendingMessageStatus(i)
    PROVE  /\ Stored(base', ch, id)
           /\ base'[ch].messages[id] = base[ch].messages[id]
<1>1. CASE \E c \in Channels : AddPublicChannelsMessagesBase(c)
  BY <1>1 DEF AddPublicChannelsMessagesBase, Stored, TypeOK
<1>2. CASE \E c \in Channels, d \in Displays : SetDisplayedMessagesNumber(c, d)
  <2>1. PICK c \in Channels, d \in Displays : SetDisplayedMessagesNumber(c, d)
    BY <1>2
  <2>2. base[c] \in Entity
    BY <2>1 DEF SetDisplayedMessagesNumber, TypeOK
  <2>3. base' = [base EXCEPT ![c] = [base[c] EXCEPT !.display = d]]
    BY <2>1 DEF SetDisplayedMessagesNumber
  <2>4. [base[c] EXCEPT !.display = d].messages = base[c].messages
    BY <2>2 DEF Entity
  <2>5. [base[c] EXCEPT !.display = d] \in Entity
    BY <2>1, <2>2 DEF Entity
  <2>6. QED
    BY <2>3, <2>4, <2>5 DEF Stored, TypeOK
<1>3. CASE \E i \in Ids : AddMessagesSendingStatus(i) \/ RemovePendingMessageStatus(i)
  BY <1>3 DEF AddMessagesSendingStatus, RemovePendingMessageStatus, Stored
<1>4. QED
  BY <1>1, <1>2, <1>3

=============================================================================
