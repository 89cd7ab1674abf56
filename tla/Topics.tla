------------------------------- MODULE Topics -------------------------------
(***************************************************************************)
(* node.Node's bookkeeping of one GossipSub topic name: concurrent callers *)
(* of JoinTopic, LeaveTopic and Close over the topics, subs and joinLocks  *)
(* maps, which Publish and Subscribe only read.  The maps and the locks    *)
(* are keyed by name, so names do not influence each other and one is      *)
(* enough.                                                                 *)
(*                                                                         *)
(* Each load, store or library call is a step of its own.  The library is  *)
(* external: Join refuses a name that already has an open topic, Close     *)
(* refuses a topic with a live subscription, and every call may fail once  *)
(* the context given to NewGossipSub is cancelled.                         *)
(***************************************************************************)
EXTENDS Integers

CONSTANTS
    Callers,
    Operations,   \* the methods the callers use
    MaxCalls      \* bound: method calls in a behaviour

ASSUME TopicsAssumption ==
    /\ Operations \subseteq {"join", "leave", "close"}
    /\ MaxCalls \in Nat
    /\ "free" \notin Callers

VARIABLES
    pc,         \* where each caller stands
    result,     \* what its last call returned
    hand,       \* the *pubsub.Topic in its hand, 0 for none
    calls,      \* calls made so far
    lock,       \* holder of the name's lock in joinLocks
    topics,     \* the topic stored in n.topics, 0 for none
    subs,       \* the topic whose subscription is stored in n.subs, 0 for none
    topic,      \* the library's state of each topic it handed out
    cancelled,  \* n.cancel() was called
    faults      \* whether library calls also fail for reasons of their own

maps == <<topics, subs>>
caller == <<pc, result, hand>>
library == <<topic, cancelled, faults>>
vars == <<caller, calls, lock, maps, library>>

Handles == 1 .. MaxCalls

TypeOK ==
    /\ pc \in [Callers -> {"idle", "join", "check", "subscribe", "storetopic", "storesub",
                           "leave", "dropsub", "droptopic", "closesubs", "closetopics"}]
    /\ result \in [Callers -> {"none", "joined", "left", "closed", "error"}]
    /\ hand \in [Callers -> 0 .. MaxCalls]
    /\ \A c \in Callers :
         hand[c] # 0 <=> pc[c] \in {"subscribe", "storetopic", "storesub"}
    /\ calls \in 0 .. MaxCalls
    /\ lock \in Callers \cup {"free"}
    /\ topics \in 0 .. MaxCalls /\ subs \in 0 .. MaxCalls
    /\ topic \in [Handles -> {"unused", "open", "subscribed", "closed"}]
    /\ cancelled \in BOOLEAN /\ faults \in BOOLEAN

Init ==
    /\ pc = [c \in Callers |-> "idle"]
    /\ result = [c \in Callers |-> "none"]
    /\ hand = [c \in Callers |-> 0]
    /\ calls = 0
    /\ lock = "free"
    /\ topics = 0 /\ subs = 0
    /\ topic = [h \in Handles |-> "unused"]
    /\ cancelled = FALSE /\ faults \in BOOLEAN

Goto(c, from, to) == pc[c] = from /\ pc' = [pc EXCEPT ![c] = to]

Return(c, from, r) ==
    /\ Goto(c, from, "idle")
    /\ result' = [result EXCEPT ![c] = r]
    /\ hand' = [hand EXCEPT ![c] = 0]

\* A method call begins.
Call(c, operation) ==
    /\ operation \in Operations
    /\ calls < MaxCalls /\ calls' = calls + 1

MayFail == faults \/ cancelled

Lock(c) == lock = "free" /\ lock' = c

Unlock(c) == lock' = "free"

----------------------------------------------------------------------------
(* JoinTopic *)

\* The fast path: already joined.
JoinFast(c) ==
    /\ Call(c, "join")
    /\ topics # 0
    /\ Return(c, "idle", "joined")
    /\ UNCHANGED <<lock, maps, library>>

JoinSlow(c) ==
    /\ Call(c, "join")
    /\ topics = 0
    /\ Goto(c, "idle", "join")
    /\ UNCHANGED <<result, hand, lock, maps, library>>

JoinLock(c) ==
    /\ Goto(c, "join", "check")
    /\ Lock(c)
    /\ UNCHANGED <<result, hand, calls, maps, library>>

\* A bug: the topics map is not looked at again under the lock.
JoinedMeanwhileUnseen == FALSE

JoinedMeanwhile == topics # 0

JoinAgain(c) ==
    /\ JoinedMeanwhile
    /\ Return(c, "check", "joined")
    /\ Unlock(c)
    /\ UNCHANGED <<calls, maps, library>>

NameOpen == \E h \in Handles : topic[h] \in {"open", "subscribed"}

\* n.pubsub.Join hands out a new topic, unless the name has an open one.
PubsubJoin(c) ==
    /\ ~ JoinedMeanwhile
    /\ ~ NameOpen
    /\ Goto(c, "check", "subscribe")
    /\ LET new == CHOOSE h \in Handles : topic[h] = "unused"
       IN  /\ hand' = [hand EXCEPT ![c] = new]
           /\ topic' = [topic EXCEPT ![new] = "open"]
    /\ UNCHANGED <<result, calls, lock, maps, cancelled, faults>>

PubsubJoinFails(c) ==
    /\ ~ JoinedMeanwhile
    /\ MayFail \/ NameOpen
    /\ Return(c, "check", "error")
    /\ Unlock(c)
    /\ UNCHANGED <<calls, maps, library>>

TopicSubscribe(c) ==
    /\ Goto(c, "subscribe", "storetopic")
    /\ topic' = [topic EXCEPT ![hand[c]] = "subscribed"]
    /\ UNCHANGED <<result, hand, calls, lock, maps, cancelled, faults>>

\* A bug: the error of Subscribe is logged and nil is returned.
TopicSubscribeFailsQuietly(c) ==
    /\ MayFail
    /\ Return(c, "subscribe", "joined")
    /\ Unlock(c)
    /\ UNCHANGED <<calls, maps, library>>

\* A bug: the error return forgets the lock.
TopicSubscribeFailsLocked(c) ==
    /\ MayFail
    /\ Return(c, "subscribe", "error")
    /\ UNCHANGED <<calls, lock, maps, library>>

\* The topic stays open, in nobody's hand.
TopicSubscribeFails(c) ==
    /\ MayFail
    /\ Return(c, "subscribe", "error")
    /\ Unlock(c)
    /\ UNCHANGED <<calls, maps, library>>

StoreTopic(c) ==
    /\ Goto(c, "storetopic", "storesub")
    /\ topics' = hand[c]
    /\ UNCHANGED <<result, hand, calls, lock, subs, library>>

StoreSub(c) ==
    /\ subs' = hand[c]
    /\ Return(c, "storesub", "joined")
    /\ Unlock(c)
    /\ UNCHANGED <<calls, topics, library>>

----------------------------------------------------------------------------
(* LeaveTopic *)

LeaveCall(c) ==
    /\ Call(c, "leave")
    /\ Goto(c, "idle", "leave")
    /\ UNCHANGED <<result, hand, lock, maps, library>>

\* A bug: LeaveTopic does not take the lock.
LeaveLockFree(c) ==
    /\ Goto(c, "leave", "dropsub")
    /\ UNCHANGED <<result, hand, calls, lock, maps, library>>

LeaveLock(c) ==
    /\ Goto(c, "leave", "dropsub")
    /\ Lock(c)
    /\ UNCHANGED <<result, hand, calls, maps, library>>

Cancelled(h) ==
    IF h # 0 /\ topic[h] = "subscribed" THEN [topic EXCEPT ![h] = "open"] ELSE topic

\* n.subs.LoadAndDelete, and Cancel on what it held.
DropSub(c) ==
    /\ Goto(c, "dropsub", "droptopic")
    /\ subs' = 0
    /\ topic' = Cancelled(subs)
    /\ UNCHANGED <<result, hand, calls, lock, topics, cancelled, faults>>

\* n.topics.LoadAndDelete found nothing.
NotJoined(c) ==
    /\ topics = 0
    /\ Return(c, "droptopic", "left")
    /\ Unlock(c)
    /\ UNCHANGED <<calls, maps, library>>

DropTopic(c) ==
    /\ topics # 0 /\ topics' = 0
    /\ topic[topics] # "subscribed"
    /\ topic' = [topic EXCEPT ![topics] = "closed"]
    /\ Return(c, "droptopic", "left")
    /\ Unlock(c)
    /\ UNCHANGED <<calls, subs, cancelled, faults>>

\* Close of the topic failed; the map has forgotten it already.
DropTopicFails(c) ==
    /\ topics # 0 /\ topics' = 0
    /\ MayFail \/ topic[topics] = "subscribed"
    /\ Return(c, "droptopic", "error")
    /\ Unlock(c)
    /\ UNCHANGED <<calls, subs, library>>

----------------------------------------------------------------------------
(* Close *)

\* Close takes no lock and leaves the maps' entries in place.
CloseCall(c) ==
    /\ Call(c, "close")
    /\ cancelled' = TRUE
    /\ Goto(c, "idle", "closesubs")
    /\ UNCHANGED <<result, hand, lock, maps, topic, faults>>

CloseSubs(c) ==
    /\ Goto(c, "closesubs", "closetopics")
    /\ topic' = Cancelled(subs)
    /\ UNCHANGED <<result, hand, calls, lock, maps, cancelled, faults>>

\* The outcome of each topic's Close is ignored; then the DHT and the host.
CloseTopics(c) ==
    /\ \/ UNCHANGED topic
       \/ /\ topics # 0 /\ topic[topics] # "subscribed"
          /\ topic' = [topic EXCEPT ![topics] = "closed"]
    /\ Return(c, "closetopics", "closed")
    /\ UNCHANGED <<calls, lock, maps, cancelled, faults>>

----------------------------------------------------------------------------

Locks(c) == JoinLock(c) \/ LeaveLock(c)

\* The steps of a call under way that wait for nobody.
Proceeds(c) ==
    \/ JoinAgain(c) \/ PubsubJoin(c) \/ PubsubJoinFails(c)
    \/ TopicSubscribe(c) \/ TopicSubscribeFails(c) \/ StoreTopic(c) \/ StoreSub(c)
    \/ DropSub(c) \/ NotJoined(c) \/ DropTopic(c) \/ DropTopicFails(c)
    \/ CloseSubs(c) \/ CloseTopics(c)

Calls(c) == JoinFast(c) \/ JoinSlow(c) \/ LeaveCall(c) \/ CloseCall(c)

Next == \E c \in Callers : Calls(c) \/ Locks(c) \/ Proceeds(c)

\* A running goroutine goes on, and a sync.Mutex starves no waiter.
Fairness == \A c \in Callers : WF_vars(Proceeds(c)) /\ SF_vars(Locks(c))

Spec == Init /\ [][Next]_vars /\ Fairness

----------------------------------------------------------------------------
(* Properties *)

\* The call a caller is in, as its caller sees it.
CallOf(c) ==
    CASE pc[c] \in {"join", "check", "subscribe", "storetopic"} -> "join"
      [] pc[c] = "storesub" -> "joined"
      [] pc[c] \in {"leave", "dropsub", "droptopic"} -> "leave"
      [] pc[c] \in {"closesubs", "closetopics"} -> "close"
      [] OTHER -> "idle"

Register == INSTANCE TopicRegister
    WITH member <- topics # 0, at <- [c \in Callers |-> CallOf(c)]

(* JoinTopic and LeaveTopic are atomic for their callers: whatever the loads,  *)
(* stores and library calls of the others between theirs, and whichever fail,  *)
(* each behaves as if it had taken effect at one moment of its call.           *)
CallsAreAtomic == Register!Spec

(* Whenever nobody holds the name's lock, the two maps agree: both know the    *)
(* same topic or none, and until the node is closed that topic is open with a  *)
(* live subscription.  Joins and leaves that fail half-way keep this too.      *)
MapsAgree ==
    lock = "free" =>
        /\ topics = subs
        /\ (topics # 0 /\ ~ cancelled) => topic[topics] = "subscribed"

(* "JoinTopic is safe to call concurrently" (USER_GUIDE.md): while the library *)
(* itself does not fail and the node is open, no call of JoinTopic or          *)
(* LeaveTopic returns an error, however joins and leaves overlap; a name that  *)
(* was left can be joined again (TestLeaveTopicUndoesJoin).                    *)
OverlapCausesNoError ==
    ~ MayFail => \A c \in Callers : result[c] # "error"

(* Every call returns: no path of JoinTopic, LeaveTopic or Close, failing ones *)
(* included, leaves the name's lock held.                                      *)
CallsReturn ==
    \A c \in Callers : pc[c] # "idle" ~> pc[c] = "idle"

(* A caller whose JoinTopic returned nil finds a subscription, as long as      *)
(* nobody leaves: what the guide's Subscribe example relies on.                *)
JoinedHasSubscription ==
    \A c \in Callers : (result[c] = "joined" /\ pc[c] = "idle") => subs # 0
=============================================================================
