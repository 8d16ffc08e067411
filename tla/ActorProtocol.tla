---------------------------- MODULE ActorProtocol ----------------------------
(***************************************************************************)
(* The messages between actors (core/actor_protocol.py).  send calls the   *)
(* handlers one after the other in the caller's thread, and a handler may  *)
(* itself send, reply, subscribe and unsubscribe: the sends in progress    *)
(* form a stack.  A message is its index in the log, a conversation the    *)
(* index of the message that opened it.                                    *)
(***************************************************************************)
EXTENDS Naturals, Sequences, SequencesExt

CONSTANTS
  Handlers,
  MessageTypes,
  MaxMessages,      \* bound: messages sent
  MaxSubscribed     \* bound: calls of on

ASSUME ActorAssumption == MaxMessages \in Nat /\ MaxSubscribed \in Nat

VARIABLES
  messageLog,   \* _message_log
  handlersOf,   \* _handlers
  sends,        \* sends in progress: the message, the place of the next
                \* handler, and whether one is running
  conversation, \* _pending_replies, by correlation id
  heard,        \* history: the handlers that were given a message, in order
  due,          \* history: those registered when it was sent
  unsubscribed, \* history: messages during whose delivery one was removed
  subscribed    \* calls of on

actorVars == <<messageLog, handlersOf, sends, conversation, heard, due, unsubscribed, subscribed>>

ActorInit ==
  /\ messageLog = <<>> /\ sends = <<>> /\ heard = <<>> /\ due = <<>>
  /\ handlersOf = [t \in MessageTypes |-> <<>>]
  /\ conversation = [c \in 1..MaxMessages |-> <<>>]
  /\ unsubscribed = {} /\ subscribed = 0

-----------------------------------------------------------------------------
Sending   == sends # <<>>
Current   == Last(sends)
Running   == Sending /\ Current.running
HandlersFor(m) == handlersOf[messageLog[m].type]
InProgress(m)  == \E i \in DOMAIN sends : sends[i].msg = m

(* Outside code acts when no send is in progress, a handler while it runs. *)
MayAct == Running \/ ~Sending

(* ActorMessage: it opens a conversation unless it is given one. *)
Message(type, conv, original) ==
  [type |-> type, conv |-> conv, replyTo |-> original, inside |-> original # 0 /\ InProgress(original)]

(* send: into the log, and on to the first handler. *)
Send(message) ==
  /\ MayAct /\ Len(messageLog) < MaxMessages
  /\ messageLog' = Append(messageLog, message)
  /\ sends' = Append(sends, [msg |-> Len(messageLog'), next |-> 1, running |-> FALSE])
  /\ heard' = Append(heard, <<>>)
  /\ due' = Append(due, handlersOf[message.type])
  /\ UNCHANGED <<handlersOf, conversation, unsubscribed, subscribed>>

SendNew(type) == Send(Message(type, Len(messageLog) + 1, 0))

(* Slip: the response opens a conversation of its own. *)
ReplyUncorrelated(original, type) == Send(Message(type, Len(messageLog) + 1, original))

(* reply, to any message that the replier has in hand. *)
Reply(original, type) == Send(Message(type, messageLog[original].conv, original))

(* The next handler of the list, which is the live one. *)
CallHandler ==
  /\ Sending /\ ~Running
  /\ Current.next <= Len(HandlersFor(Current.msg))
  /\ heard' = [heard EXCEPT ![Current.msg] = Append(@, HandlersFor(Current.msg)[Current.next])]
  /\ sends' = [sends EXCEPT ![Len(sends)].next = @ + 1, ![Len(sends)].running = TRUE]
  /\ UNCHANGED <<messageLog, handlersOf, conversation, due, unsubscribed, subscribed>>

(* It returns, or raises, which is announced and no more. *)
HandlerEnds ==
  /\ Running
  /\ sends' = [sends EXCEPT ![Len(sends)].running = FALSE]
  /\ UNCHANGED <<messageLog, handlersOf, conversation, heard, due, unsubscribed, subscribed>>

(* After the last handler the message joins its conversation. *)
Delivered ==
  /\ Sending /\ ~Running
  /\ Current.next > Len(HandlersFor(Current.msg))
  /\ conversation' = [conversation EXCEPT ![messageLog[Current.msg].conv] = Append(@, Current.msg)]
  /\ sends' = Front(sends)
  /\ UNCHANGED <<messageLog, handlersOf, heard, due, unsubscribed, subscribed>>

(* on: twice is two registrations. *)
On(type, h) ==
  /\ MayAct /\ subscribed < MaxSubscribed /\ subscribed' = subscribed + 1
  /\ handlersOf' = [handlersOf EXCEPT ![type] = Append(@, h)]
  /\ UNCHANGED <<messageLog, sends, conversation, heard, due, unsubscribed>>

(* off: the first registration goes, under the feet of every send of that  *)
(* type in progress.                                                       *)
Off(type, h) ==
  /\ MayAct
  /\ \E i \in DOMAIN handlersOf[type] :
       /\ handlersOf[type][i] = h /\ \A k \in 1..(i - 1) : handlersOf[type][k] # h
       /\ handlersOf' = [handlersOf EXCEPT ![type] = RemoveAt(@, i)]
  /\ unsubscribed' = unsubscribed \union
       {m \in DOMAIN messageLog : InProgress(m) /\ messageLog[m].type = type}
  /\ UNCHANGED <<messageLog, sends, conversation, heard, due, subscribed>>

ActorNext ==
  \/ \E t \in MessageTypes : SendNew(t) \/ \E m \in DOMAIN messageLog : Reply(m, t)
  \/ \E t \in MessageTypes, h \in Handlers : On(t, h) \/ Off(t, h)
  \/ CallHandler \/ HandlerEnds \/ Delivered

ActorSpec == ActorInit /\ [][ActorNext]_actorVars

-----------------------------------------------------------------------------
(* Whatever its handlers do, a message whose delivery is over stands once  *)
(* in the conversation it belongs to, which for a reply is that of its     *)
(* original.                                                               *)
ConversationsAreComplete ==
  \A m \in DOMAIN messageLog :
    LET origin == IF messageLog[m].replyTo = 0 THEN m ELSE messageLog[m].replyTo
        thread == conversation[messageLog[origin].conv]
        places == {i \in DOMAIN thread : thread[i] = m}
    IN  IF InProgress(m) THEN places = {} ELSE \E i \in places : places = {i}

(* A conversation reads in the order in which the deliveries ended: a      *)
(* reply sent by a handler of its original stands before it, any other     *)
(* after it.                                                               *)
RepliesStandInOrder ==
  \A c \in DOMAIN conversation : \A i, k \in DOMAIN conversation[c] :
    messageLog[conversation[c][k]].replyTo = conversation[c][i]
      => (k < i) = messageLog[conversation[c][k]].inside

(* Every handler there was when the message was sent hears of it, in the   *)
(* order of registration, though others fail; only an off while it is      *)
(* being delivered may make one miss it.                                   *)
EveryHandlerHears ==
  \A m \in DOMAIN messageLog \ unsubscribed : ~InProgress(m) => IsPrefix(due[m], heard[m])

ConversationsAreSound == ConversationsAreComplete /\ RepliesStandInOrder /\ EveryHandlerHears
=============================================================================
