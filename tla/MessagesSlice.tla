---------------------------- MODULE MessagesSlice ----------------------------
(***************************************************************************)
(* The messages slice of the Redux store (packages/state-manager/src/      *)
(* sagas/messages/messages.slice.ts): per channel, a base entity with its  *)
(* message store and display count, and the sending statuses.              *)
(*                                                                         *)
(* A message is abstracted to its channel, its id and what is known of its *)
(* media: no media field (NoMedia), media with no local path yet (NoPath), *)
(* or media with a downloaded path.  A reducer is one action: Redux runs   *)
(* it inside an immer producer, so a reducer that throws leaves the store  *)
(* as it was, and what it did before the throw is discarded.               *)
(***************************************************************************)
EXTENDS Naturals, Sequences, SequencesExt

CONSTANTS
    Channels,     \* channel addresses
    Ids,          \* message ids
    Paths,        \* local paths of downloaded media
    NoMedia,      \* a message without a media field
    NoPath,       \* media whose path is not set
    Absent,       \* no message with that id in the store
    NotAMessage,  \* an entry of a batch without a channelAddress field
    None,         \* no base entity for that channel
    Displays,     \* display counts a caller may set
    MaxBatch      \* bound on the length of an incomingMessages batch

ASSUME MessagesSliceAssumption ==
    /\ {NoMedia, NoPath, Absent} \cap Paths = {}
    /\ NoMedia /= NoPath /\ NoMedia /= Absent /\ NoPath /= Absent
    /\ MaxBatch \in Nat

VARIABLES
    base,      \* publicChannelsMessagesBase: base[ch] is the entity of ch, or None
    sending,   \* messageSendingStatus: ids with a sending status
    received   \* history: messages handed to incomingMessages while their channel had a base

vars == <<base, sending, received>>

MediaVals == {NoMedia, NoPath} \cup Paths

\* ChannelMessage (publicChannels.types.ts), abstracted to what the
\* reducer reads.
ChannelMessage == [channelAddress : Channels, id : Ids, media : MediaVals]

\* instanceOfChannelMessage: 'channelAddress' in object.
InstanceOfChannelMessage(m) == m /= NotAMessage

Batches == BoundedSeq(ChannelMessage \cup {NotAMessage}, MaxBatch)

-----------------------------------------------------------------------------
(***************************************************************************)
(* incomingMessages: a loop over the batch.  The accumulator is the store  *)
(* of message entities as the loop leaves it, whether the loop has         *)
(* returned, and whether it has thrown.                                    *)
(***************************************************************************)

\* One iteration of the loop for message m.  The draft is read with
\* ?.: undefined when the channel has no base.  draft?.media.path throws
\* when the draft exists without media.  The merged media keeps the draft's
\* path when the incoming media has none.  upsertOne merges shallowly, so
\* an incoming message without media keeps the stored media, and it throws
\* when the channel has no base.
IncomingMessage(acc, m) ==
    IF acc.returned \/ acc.threw THEN acc
    ELSE IF ~InstanceOfChannelMessage(m) THEN [acc EXCEPT !.returned = TRUE]
    ELSE
      LET ch == m.channelAddress
          draft == IF acc.base[ch] = None THEN Absent
                   ELSE acc.base[ch].messages[m.id]
          incoming == IF m.media /= NoMedia /\ draft \in Paths /\ m.media \notin Paths
                      THEN draft ELSE m.media
          stored == IF incoming = NoMedia /\ draft /= Absent THEN draft ELSE incoming
      IN IF (m.media /= NoMedia /\ draft = NoMedia) \/ acc.base[ch] = None
         THEN [acc EXCEPT !.threw = TRUE]
         ELSE [acc EXCEPT !.base[ch].messages[m.id] = stored]

IncomingMessages(batch) ==
    LET r == FoldLeft(IncomingMessage,
                      [base |-> base, returned |-> FALSE, threw |-> FALSE], batch)
    IN /\ base' = IF r.threw THEN base ELSE r.base
       /\ received' = received \cup
            {<<batch[i].channelAddress, batch[i].id>> :
                i \in {j \in DOMAIN batch : InstanceOfChannelMessage(batch[j])
                                            /\ base[batch[j].channelAddress] /= None}}
       /\ UNCHANGED sending

-----------------------------------------------------------------------------
(***************************************************************************)
(* The other reducers.  sendMessage, askForMessages and the other reducers *)
(* that return the state as it is are stuttering steps.                    *)
(***************************************************************************)

\* Mutant of AddPublicChannelsMessagesBase: setOne instead of addOne.
AddPublicChannelsMessagesBaseOverwrites(ch) ==
    /\ base' = [base EXCEPT ![ch] = [display |-> 50,
                                     messages |-> [i \in Ids |-> Absent]]]
    /\ UNCHANGED <<sending, received>>

\* addOne with an empty message store and display 50; addOne leaves an
\* existing entity as it is.
AddPublicChannelsMessagesBase(ch) ==
    /\ base[ch] = None
    /\ base' = [base EXCEPT ![ch] = [display |-> 50,
                                     messages |-> [i \in Ids |-> Absent]]]
    /\ UNCHANGED <<sending, received>>

\* Mutant of SetDisplayedMessagesNumber: upsertOne of {id, display}.
SetDisplayedMessagesNumberUpserts(ch, d) ==
    /\ base' = [base EXCEPT ![ch] = IF @ = None THEN [display |-> d]
                                    ELSE [@ EXCEPT !.display = d]]
    /\ UNCHANGED <<sending, received>>

\* updateOne: changes display of an existing entity, nothing otherwise.
SetDisplayedMessagesNumber(ch, d) ==
    /\ base[ch] /= None
    /\ base' = [base EXCEPT ![ch].display = d]
    /\ UNCHANGED <<sending, received>>

\* addMessagesSendingStatus: upsertOne by message id.
AddMessagesSendingStatus(id) ==
    /\ sending' = sending \cup {id}
    /\ UNCHANGED <<base, received>>

\* removePendingMessageStatus: removeOne by message id.
RemovePendingMessageStatus(id) ==
    /\ sending' = sending \ {id}
    /\ UNCHANGED <<base, received>>

Init ==
    /\ base = [ch \in Channels |-> None]
    /\ sending = {}
    /\ received = {}

Next ==
    \/ \E batch \in Batches : IncomingMessages(batch)
    \/ \E ch \in Channels :
         \/ AddPublicChannelsMessagesBase(ch)
         \/ \E d \in Displays : SetDisplayedMessagesNumber(ch, d)
    \/ \E id \in Ids :
         \/ AddMessagesSendingStatus(id)
         \/ RemovePendingMessageStatus(id)

Spec == Init /\ [][Next]_vars

-----------------------------------------------------------------------------
(***************************************************************************)
(* Properties.                                                             *)
(***************************************************************************)

Entity == [display : Displays \cup {50}, messages : [Ids -> MediaVals \cup {Absent}]]

\* None, the absence of an entity, is not an entity.
ASSUME NoneAssumption == None \notin Entity

\* Type invariant: every base entity has a display count and a message
\* store.
TypeOK ==
    /\ base \in [Channels -> Entity \cup {None}]
    /\ sending \subseteq Ids
    /\ received \subseteq Channels \X Ids

Stored(b, ch, id) == b[ch] /= None /\ b[ch].messages[id] /= Absent

\* No reducer loses what the store holds: a stored message stays stored
\* (a second addPublicChannelsMessagesBase does not reset the channel), and
\* media that has a local path keeps one when the message is received
\* again without it (the draft merge of incomingMessages).
StoredMessagesKept ==
    [][\A ch \in Channels, id \in Ids :
         /\ Stored(base, ch, id) => Stored(base', ch, id)
         /\ Stored(base, ch, id) /\ base[ch].messages[id] \in Paths
            => base'[ch].messages[id] \in Paths]_vars

\* Every channel message handed to incomingMessages while its channel has a
\* base entity ends up in the store.
IncomingMessagesStored ==
    \A r \in received : Stored(base, r[1], r[2])

=============================================================================
