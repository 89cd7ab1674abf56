---------------------------- MODULE TopicsProofs ----------------------------
(***************************************************************************)
(* JoinTopic, LeaveTopic and Close for any callers and any number of       *)
(* calls: the two maps agree whenever the name's lock is free, overlapping *)
(* calls cause no error, and each call is atomic (TopicRegister).          *)
(*                                                                         *)
(* None of these is inductive.  The maps disagree while a caller is        *)
(* between two stores, so the invariant says what they hold at each place  *)
(* under the lock; that a join finds no topic open needs that no topic     *)
(* strays outside the map and the hand of the lock's holder.               *)
(***************************************************************************)
EXTENDS Topics, FiniteSets, FiniteSetTheorems, TLAPS

----------------------------------------------------------------------------
(* The inductive invariant *)

Locked == {"check", "subscribe", "storetopic", "storesub", "dropsub", "droptopic"}

LockHeld == \A c \in Callers : lock = c <=> pc[c] \in Locked

CloseCancels == \A c \in Callers : pc[c] \in {"closesubs", "closetopics"} => cancelled

Agree ==
    /\ topics = subs
    /\ (topics # 0 /\ ~ cancelled) => topic[topics] = "subscribed"

\* What the maps hold at each place of the caller that has the lock.
MapsByPlace ==
    /\ lock = "free" => Agree
    /\ \A c \in Callers :
         /\ pc[c] \in {"check", "dropsub"} => Agree
         /\ pc[c] \in {"subscribe", "storetopic"} => topics = 0 /\ subs = 0
         /\ pc[c] = "storesub" => topics = hand[c] /\ subs = 0
         /\ (pc[c] \in {"storetopic", "storesub"} /\ ~ cancelled) =>
              topic[hand[c]] = "subscribed"
         /\ pc[c] = "droptopic" => subs = 0

\* Unless the library fails, the open topics are the one in the map and the one in
\* a joiner's hand, and a topic that is being dropped is not subscribed any more.
NoStray ==
    ~ MayFail =>
        /\ \A h \in Handles : topic[h] \in {"open", "subscribed"} =>
             h = topics \/ \E c \in Callers : pc[c] \in {"subscribe", "storetopic"} /\ hand[c] = h
        /\ \A c \in Callers : (pc[c] = "droptopic" /\ topics # 0) => topic[topics] # "subscribed"

Joining == {c \in Callers : pc[c] \in {"join", "check"}}
Used == {h \in Handles : topic[h] # "unused"}

\* A topic is handed out at most once per call, so the handles do not run out.
HandlesLast == IsFiniteSet(Joining) /\ Cardinality(Joining) + Cardinality(Used) <= calls

\* A topic in the map or in a hand was handed out by the library.
HandedOut ==
    /\ topics # 0 => topic[topics] # "unused"
    /\ \A c \in Callers : hand[c] # 0 => topic[hand[c]] # "unused"

SafeInv ==
    /\ TypeOK /\ LockHeld /\ CloseCancels /\ MapsByPlace
    /\ HandedOut /\ NoStray /\ OverlapCausesNoError

IInv == SafeInv /\ HandlesLast

(* Nobody has called anything.                                                 *)
LEMMA InitIInv == Init => IInv
<1> SUFFICES ASSUME Init PROVE IInv
  OBVIOUS
<1>1. TypeOK
  <2>1. cancelled \in BOOLEAN /\ faults \in BOOLEAN
    BY Zenon DEF Init
  <2>2. 0 \in 0 .. MaxCalls
    BY TopicsAssumption
  <2> QED BY <2>1, <2>2 DEF Init, TypeOK
<1>2. LockHeld /\ CloseCancels /\ MapsByPlace /\ HandedOut /\ NoStray /\ OverlapCausesNoError
  BY TopicsAssumption DEF Init, LockHeld, CloseCancels, MapsByPlace, Agree, HandedOut,
     NoStray, OverlapCausesNoError, Locked
<1>3. Joining = {} /\ Used = {}
  BY DEF Init, Joining, Used
<1>4. HandlesLast
  BY <1>3, FS_EmptySet DEF Init, HandlesLast
<1> QED BY <1>1, <1>2, <1>4 DEF IInv, SafeInv

----------------------------------------------------------------------------
(* The handles *)

(* A caller that is about to join has a handle left to receive.                *)
LEMMA HandleLeft ==
    ASSUME IInv, NEW c \in Callers, pc[c] = "check"
    PROVE  \E h \in Handles : topic[h] = "unused"
<1> SUFFICES ASSUME \A h \in Handles : topic[h] # "unused" PROVE FALSE
  OBVIOUS
<1> USE TopicsAssumption DEF IInv, SafeInv, TypeOK, HandlesLast
<1>1. Used = Handles
  BY DEF Used
<1>2. Cardinality(Used) = MaxCalls
  BY <1>1, FS_Interval DEF Handles
<1>3. c \in Joining
  BY DEF Joining
<1>4. Cardinality(Joining) \in Nat \ {0}
  BY <1>3, FS_EmptySet, FS_CardinalityType
<1> QED BY <1>2, <1>4

(* So the topic that pubsub.Join hands out is a new one.                       *)
LEMMA NewHandle ==
    ASSUME IInv, NEW c \in Callers, PubsubJoin(c)
    PROVE  \E new \in Handles :
             /\ topic[new] = "unused"
             /\ hand' = [hand EXCEPT ![c] = new]
             /\ topic' = [topic EXCEPT ![new] = "open"]
<1>1. \E h \in Handles : topic[h] = "unused"
  BY HandleLeft DEF PubsubJoin, Goto
<1> QED BY <1>1, Zenon DEF PubsubJoin

(* A step that uses no handle, and puts nobody into JoinTopic but for a call.  *)
LEMMA HandlesKept ==
    ASSUME IInv, TypeOK', NEW c \in Callers, Used' = Used,
           \/ calls' = calls /\ (Joining' = Joining \/ Joining' = Joining \ {c})
           \/ calls' = calls + 1 /\ (Joining' = Joining \/ Joining' = Joining \cup {c})
    PROVE  HandlesLast'
<1> USE DEF IInv, SafeInv, TypeOK, HandlesLast
<1>1. Used \subseteq Handles /\ IsFiniteSet(Handles)
  BY FS_Interval, TopicsAssumption DEF Used, Handles
<1>2. Cardinality(Used) \in Nat
  BY <1>1, FS_Subset, FS_CardinalityType
<1>3. Cardinality(Joining) \in Nat
  BY FS_CardinalityType
<1>4. CASE Joining' = Joining
  BY <1>2, <1>3, <1>4
<1>5. CASE Joining' = Joining \ {c}
  <2>0. /\ IsFiniteSet(Joining \ {c})
        /\ Cardinality(Joining \ {c}) =
             IF c \in Joining THEN Cardinality(Joining) - 1 ELSE Cardinality(Joining)
    BY FS_RemoveElement
  <2>1. IsFiniteSet(Joining') /\ Cardinality(Joining') <= Cardinality(Joining)
    BY <1>3, <1>5, <2>0
  <2>2. Cardinality(Joining') \in Nat
    BY <2>1, FS_CardinalityType
  <2> QED BY <1>2, <1>3, <1>5, <2>1, <2>2
<1>6. CASE Joining' = Joining \cup {c} /\ calls' = calls + 1
  <2>0. /\ IsFiniteSet(Joining \cup {c})
        /\ Cardinality(Joining \cup {c}) =
             IF c \in Joining THEN Cardinality(Joining) ELSE Cardinality(Joining) + 1
    BY FS_AddElement
  <2>1. IsFiniteSet(Joining') /\ Cardinality(Joining') <= Cardinality(Joining) + 1
    BY <1>3, <1>6, <2>0
  <2>2. Cardinality(Joining') \in Nat
    BY <2>1, FS_CardinalityType
  <2> QED BY <1>2, <1>3, <1>6, <2>1, <2>2
<1> QED BY <1>4, <1>5, <1>6

----------------------------------------------------------------------------
(* The steps *)

(* Every load, store and library call of JoinTopic, LeaveTopic and Close keeps *)
(* the maps, the lock and the topics in step.                                  *)
LEMMA NextSafe == IInv /\ [Next]_vars => SafeInv'
<1> SUFFICES ASSUME IInv, [Next]_vars PROVE SafeInv'
  OBVIOUS
<1> USE TopicsAssumption
  DEF SafeInv, TypeOK, LockHeld, CloseCancels, MapsByPlace, HandedOut, NoStray,
      OverlapCausesNoError, Agree, MayFail, Locked, Goto, maps, library, caller, Handles
<1>0. SafeInv
  BY DEF IInv
<1>1. ASSUME NEW c \in Callers, JoinFast(c) PROVE SafeInv'
  BY <1>0, <1>1 DEF JoinFast, Return, Call
<1>2. ASSUME NEW c \in Callers, JoinSlow(c) PROVE SafeInv'
  BY <1>0, <1>2 DEF JoinSlow, Call
<1>3. ASSUME NEW c \in Callers, JoinLock(c) PROVE SafeInv'
  BY <1>0, <1>3 DEF JoinLock, Lock
<1>4. ASSUME NEW c \in Callers, JoinAgain(c) PROVE SafeInv'
  BY <1>0, <1>4 DEF JoinAgain, Return, Unlock, JoinedMeanwhile
<1>5. ASSUME NEW c \in Callers, PubsubJoin(c) PROVE SafeInv'
  <2>1. PICK new \in Handles :
          /\ topic[new] = "unused"
          /\ hand' = [hand EXCEPT ![c] = new]
          /\ topic' = [topic EXCEPT ![new] = "open"]
    BY <1>5, NewHandle
  <2> USE <1>0, <1>5, <2>1 DEF PubsubJoin, JoinedMeanwhile
  <2>2. TypeOK'
    BY SMTT(30)
  <2>3. LockHeld' /\ CloseCancels' /\ OverlapCausesNoError'
    OBVIOUS
  <2>4. MapsByPlace' /\ HandedOut'
    OBVIOUS
  <2>5. NoStray'
    OBVIOUS
  <2> QED BY <2>2, <2>3, <2>4, <2>5
<1>6. ASSUME NEW c \in Callers, PubsubJoinFails(c) PROVE SafeInv'
  <2>1. MayFail
    <3> SUFFICES ASSUME ~ MayFail PROVE FALSE
      OBVIOUS
    <3>1. PICK h \in Handles : topic[h] \in {"open", "subscribed"}
      BY <1>6 DEF PubsubJoinFails, NameOpen
    <3>2. topics = 0 /\ pc[c] = "check" /\ lock = c
      BY <1>0, <1>6 DEF PubsubJoinFails, Return, JoinedMeanwhile
    <3>3. PICK d \in Callers : pc[d] \in {"subscribe", "storetopic"}
      BY <1>0, <3>1, <3>2
    <3>4. lock = d
      BY <1>0, <3>3
    <3> QED BY <3>2, <3>3, <3>4
  <2> QED BY <1>0, <1>6, <2>1 DEF PubsubJoinFails, Return, Unlock
<1>7. ASSUME NEW c \in Callers, TopicSubscribe(c) PROVE SafeInv'
  BY <1>0, <1>7 DEF TopicSubscribe
<1>8. ASSUME NEW c \in Callers, TopicSubscribeFails(c) PROVE SafeInv'
  BY <1>0, <1>8 DEF TopicSubscribeFails, Return, Unlock
<1>9. ASSUME NEW c \in Callers, StoreTopic(c) PROVE SafeInv'
  BY <1>0, <1>9 DEF StoreTopic
<1>10. ASSUME NEW c \in Callers, StoreSub(c) PROVE SafeInv'
  BY <1>0, <1>10 DEF StoreSub, Return, Unlock
<1>11. ASSUME NEW c \in Callers, LeaveCall(c) PROVE SafeInv'
  BY <1>0, <1>11 DEF LeaveCall, Call
<1>12. ASSUME NEW c \in Callers, LeaveLock(c) PROVE SafeInv'
  BY <1>0, <1>12 DEF LeaveLock, Lock
<1>13. ASSUME NEW c \in Callers, DropSub(c) PROVE SafeInv'
  BY <1>0, <1>13 DEF DropSub, Cancelled
<1>14. ASSUME NEW c \in Callers, NotJoined(c) PROVE SafeInv'
  BY <1>0, <1>14 DEF NotJoined, Return, Unlock
<1>15. ASSUME NEW c \in Callers, DropTopic(c) PROVE SafeInv'
  BY <1>0, <1>15 DEF DropTopic, Return, Unlock
<1>16. ASSUME NEW c \in Callers, DropTopicFails(c) PROVE SafeInv'
  BY <1>0, <1>16 DEF DropTopicFails, Return, Unlock
<1>17. ASSUME NEW c \in Callers, CloseCall(c) PROVE SafeInv'
  BY <1>0, <1>17 DEF CloseCall, Call
<1>18. ASSUME NEW c \in Callers, CloseSubs(c) PROVE SafeInv'
  BY <1>0, <1>18 DEF CloseSubs, Cancelled
<1>19. ASSUME NEW c \in Callers, CloseTopics(c) PROVE SafeInv'
  BY <1>0, <1>19 DEF CloseTopics, Return
<1>20. CASE UNCHANGED vars
  BY <1>0, <1>20 DEF vars
<1> QED
  BY <1>1, <1>2, <1>3, <1>4, <1>5, <1>6, <1>7, <1>8, <1>9, <1>10, <1>11, <1>12, <1>13, <1>14,
     <1>15, <1>16, <1>17, <1>18, <1>19, <1>20, Zenon
  DEF Next, Calls, Locks, Proceeds

(* Only PubsubJoin uses a handle, and the call that pays for it ends there.    *)
LEMMA NextHandles == IInv /\ [Next]_vars => HandlesLast'
<1> SUFFICES ASSUME IInv, [Next]_vars PROVE HandlesLast'
  OBVIOUS
<1>0. TypeOK /\ TypeOK' /\ pc \in [Callers -> {"idle", "join", "check", "subscribe",
        "storetopic", "storesub", "leave", "dropsub", "droptopic", "closesubs", "closetopics"}]
  BY NextSafe DEF IInv, SafeInv, TypeOK
<1>1. ASSUME NEW c \in Callers, PubsubJoin(c) PROVE HandlesLast'
  <2>1. PICK new \in Handles :
          /\ topic[new] = "unused"
          /\ topic' = [topic EXCEPT ![new] = "open"]
    BY <1>1, NewHandle
  <2>2. Joining' = Joining \ {c} /\ c \in Joining
    BY <1>0, <1>1 DEF PubsubJoin, Goto, Joining
  <2>3. Used' = Used \cup {new} /\ new \notin Used
    BY <1>0, <2>1 DEF TypeOK, Used
  <2>4. IsFiniteSet(Used)
    <3>1. Used \subseteq Handles /\ IsFiniteSet(Handles)
      BY FS_Interval, TopicsAssumption DEF Used, Handles
    <3> QED BY <3>1, FS_Subset
  <2>5. IsFiniteSet(Joining) /\ Cardinality(Joining) + Cardinality(Used) <= calls
    BY DEF IInv, HandlesLast
  <2>6. Cardinality(Used \cup {new}) = Cardinality(Used) + 1
    BY <2>3, <2>4, FS_AddElement
  <2>7. /\ IsFiniteSet(Joining \ {c})
        /\ Cardinality(Joining \ {c}) = Cardinality(Joining) - 1
    BY <2>2, <2>5, FS_RemoveElement
  <2>8. Cardinality(Used) \in Nat /\ Cardinality(Joining) \in Nat
    BY <2>4, <2>5, FS_CardinalityType
  <2>9. calls' = calls /\ calls \in Nat
    BY <1>0, <1>1, TopicsAssumption DEF PubsubJoin, TypeOK
  <2> QED BY <2>2, <2>3, <2>5, <2>6, <2>7, <2>8, <2>9 DEF HandlesLast
<1>2. ASSUME NEW c \in Callers, JoinSlow(c) PROVE HandlesLast'
  <2>1. Joining' = Joining \cup {c} /\ Used' = Used /\ calls' = calls + 1
    BY <1>0, <1>2 DEF JoinSlow, Call, Goto, library, Joining, Used
  <2> QED BY <1>0, <2>1, HandlesKept
<1>3. ASSUME NEW c \in Callers, JoinFast(c) \/ LeaveCall(c) \/ CloseCall(c)
      PROVE  HandlesLast'
  <2>1. Joining' = Joining /\ Used' = Used /\ calls' = calls + 1
    BY <1>0, <1>3
    DEF JoinFast, LeaveCall, CloseCall, Call, Return, Goto, library, Joining, Used
  <2> QED BY <1>0, <2>1, HandlesKept
<1>4. ASSUME NEW c \in Callers, JoinAgain(c) \/ PubsubJoinFails(c) PROVE HandlesLast'
  <2>1. Joining' = Joining \ {c} /\ Used' = Used /\ calls' = calls
    BY <1>0, <1>4 DEF JoinAgain, PubsubJoinFails, Return, Goto, library, Joining, Used
  <2> QED BY <1>0, <2>1, HandlesKept
<1>5. ASSUME NEW c \in Callers, JoinLock(c) PROVE HandlesLast'
  <2>1. Joining' = Joining /\ Used' = Used /\ calls' = calls
    BY <1>0, <1>5 DEF JoinLock, Goto, library, Joining, Used
  <2> QED BY <1>0, <2>1, HandlesKept
<1>6. ASSUME NEW c \in Callers,
             \/ TopicSubscribe(c) \/ TopicSubscribeFails(c) \/ StoreTopic(c) \/ StoreSub(c)
             \/ LeaveLock(c) \/ DropSub(c) \/ NotJoined(c) \/ DropTopic(c) \/ DropTopicFails(c)
             \/ CloseSubs(c) \/ CloseTopics(c)
      PROVE  HandlesLast'
  <2>1. Joining' = Joining /\ calls' = calls
    BY <1>0, <1>6 DEF TopicSubscribe, TopicSubscribeFails, StoreTopic, StoreSub, LeaveLock,
       DropSub, NotJoined, DropTopic, DropTopicFails, CloseSubs, CloseTopics, Return, Goto,
       Joining
  <2>2. \A h \in Handles : topic'[h] = "unused" <=> topic[h] = "unused"
    <3>1. HandedOut /\ MapsByPlace
      BY DEF IInv, SafeInv
    <3>2. CASE TopicSubscribe(c) \/ TopicSubscribeFails(c)
      BY <1>0, <3>1, <3>2
      DEF TopicSubscribe, TopicSubscribeFails, Goto, Return, library, TypeOK, HandedOut
    <3>3. CASE StoreTopic(c) \/ StoreSub(c) \/ LeaveLock(c) \/ NotJoined(c)
      BY <3>3 DEF StoreTopic, StoreSub, LeaveLock, NotJoined, Goto, Return, library
    <3>4. CASE DropSub(c) \/ DropTopic(c) \/ DropTopicFails(c)
      BY <1>0, <3>1, <3>4
      DEF DropSub, DropTopic, DropTopicFails, Cancelled, Goto, Return, library, TypeOK,
          HandedOut, MapsByPlace, Agree
    <3>5. CASE CloseSubs(c) \/ CloseTopics(c)
      BY <1>0, <3>1, <3>5
      DEF CloseSubs, CloseTopics, Cancelled, Goto, Return, library, TypeOK, HandedOut
    <3> QED BY <1>6, <3>2, <3>3, <3>4, <3>5
  <2>3. Used' = Used
    BY <2>2 DEF Used
  <2> QED BY <1>0, <2>1, <2>3, HandlesKept
<1>7. CASE UNCHANGED vars
  BY <1>7 DEF vars, caller, library, IInv, HandlesLast, Joining, Used
<1> QED
  BY <1>1, <1>2, <1>3, <1>4, <1>5, <1>6, <1>7 DEF Next, Calls, Locks, Proceeds

(* The invariant holds in every state.                                         *)
LEMMA Inductive == Spec => []IInv
<1>1. IInv /\ [Next]_vars => IInv'
  BY NextSafe, NextHandles DEF IInv
<1> QED BY <1>1, InitIInv, PTL DEF Spec

(* The registry's maps, the library's handles and every caller's place in its  *)
(* call stay in their ranges, for any callers and any number of handles.       *)
THEOREM TopicsTypeOK == Spec => []TypeOK
<1>1. IInv => TypeOK
  BY DEF IInv, SafeInv
<1> QED BY <1>1, Inductive, PTL

(* Whenever nobody holds the name's lock the topics and subs maps agree, and   *)
(* until Close the topic they know is open with a live subscription.           *)
THEOREM MapsAlwaysAgree == Spec => []MapsAgree
<1>1. IInv => MapsAgree
  BY DEF IInv, SafeInv, MapsByPlace, Agree, MapsAgree
<1> QED BY <1>1, Inductive, PTL

(* While the library does not fail and the node is open no JoinTopic or        *)
(* LeaveTopic returns an error, however many of them overlap.                  *)
THEOREM OverlapIsHarmless == Spec => []OverlapCausesNoError
<1>1. IInv => OverlapCausesNoError
  BY DEF IInv, SafeInv
<1> QED BY <1>1, Inductive, PTL

----------------------------------------------------------------------------
(* The calls are atomic *)

at == [c \in Callers |-> CallOf(c)]

(* A step of a caller changes only its own place in its call.                  *)
LEMMA AtOf ==
    ASSUME TypeOK, NEW c \in Callers, NEW from, NEW to, Goto(c, from, to)
    PROVE  at' = [at EXCEPT ![c] = CallOf(c)'] /\ pc[c] = from /\ pc'[c] = to
<1>1. \A d \in Callers : pc'[d] = IF d = c THEN to ELSE pc[d]
  BY DEF Goto, TypeOK
<1>2. \A d \in Callers \ {c} : CallOf(d)' = CallOf(d)
  BY <1>1 DEF CallOf
<1> QED BY <1>1, <1>2, Zenon DEF at, Goto

(* Each step of a caller is the step of TopicRegister that takes effect there, *)
(* or none: a join takes effect when it stores the topic, or finds one, a      *)
(* leave when it deletes it.                                                   *)
LEMMA StepIsRegister == IInv /\ [Next]_vars => [Register!Next]_<<topics # 0, at, result>>
<1> SUFFICES ASSUME IInv, [Next]_vars PROVE [Register!Next]_<<topics # 0, at, result>>
  OBVIOUS
<1>0. TypeOK
  BY DEF IInv, SafeInv
<1>a. \A c \in Callers : at[c] = CallOf(c)
  BY DEF at
<1>1. ASSUME NEW c \in Callers, JoinFast(c) PROVE Register!JoinReturns(c)
  <2>1. at' = [at EXCEPT ![c] = CallOf(c)'] /\ pc[c] = "idle" /\ pc'[c] = "idle"
    BY <1>0, <1>1, AtOf DEF JoinFast, Call, Return
  <2>2. at[c] = "idle" /\ at' = [at EXCEPT ![c] = "idle"]
    BY <1>a, <2>1 DEF CallOf
  <2> QED
    BY <1>0, <1>1, <2>2
    DEF JoinFast, Call, Return, maps, TypeOK, at, Register!JoinReturns, Register!Answer
<1>2. ASSUME NEW c \in Callers, JoinSlow(c) PROVE Register!Begin(c, "join")
  <2>1. at' = [at EXCEPT ![c] = CallOf(c)'] /\ pc[c] = "idle" /\ pc'[c] = "join"
    BY <1>0, <1>2, AtOf DEF JoinSlow, Call
  <2>2. at[c] = "idle" /\ at' = [at EXCEPT ![c] = "join"]
    BY <1>a, <2>1 DEF CallOf
  <2> QED
    BY <1>0, <1>2, <2>2
    DEF JoinSlow, Call, maps, TypeOK, at, Register!Begin, Register!Answer
<1>3. ASSUME NEW c \in Callers, JoinAgain(c) PROVE Register!JoinReturns(c)
  <2>1. at' = [at EXCEPT ![c] = CallOf(c)'] /\ pc[c] = "check" /\ pc'[c] = "idle"
    BY <1>0, <1>3, AtOf DEF JoinAgain, Return, JoinedMeanwhile
  <2>2. at[c] = "join" /\ at' = [at EXCEPT ![c] = "idle"]
    BY <1>a, <2>1 DEF CallOf
  <2> QED
    BY <1>0, <1>3, <2>2
    DEF JoinAgain, Return, JoinedMeanwhile, maps, TypeOK, at, Register!JoinReturns, Register!Answer
<1>4. ASSUME NEW c \in Callers, PubsubJoinFails(c) PROVE Register!JoinFails(c)
  <2>1. at' = [at EXCEPT ![c] = CallOf(c)'] /\ pc[c] = "check" /\ pc'[c] = "idle"
    BY <1>0, <1>4, AtOf DEF PubsubJoinFails, Return
  <2>2. at[c] = "join" /\ at' = [at EXCEPT ![c] = "idle"]
    BY <1>a, <2>1 DEF CallOf
  <2> QED
    BY <1>0, <1>4, <2>2
    DEF PubsubJoinFails, Return, maps, TypeOK, at, Register!JoinFails, Register!Answer
<1>5. ASSUME NEW c \in Callers, TopicSubscribeFails(c) PROVE Register!JoinFails(c)
  <2>1. at' = [at EXCEPT ![c] = CallOf(c)'] /\ pc[c] = "subscribe" /\ pc'[c] = "idle"
    BY <1>0, <1>5, AtOf DEF TopicSubscribeFails, Return
  <2>2. at[c] = "join" /\ at' = [at EXCEPT ![c] = "idle"]
    BY <1>a, <2>1 DEF CallOf
  <2> QED
    BY <1>0, <1>5, <2>2
    DEF TopicSubscribeFails, Return, maps, TypeOK, at, Register!JoinFails, Register!Answer
<1>6. ASSUME NEW c \in Callers, StoreTopic(c) PROVE Register!Join(c)
  <2>1. at' = [at EXCEPT ![c] = CallOf(c)'] /\ pc[c] = "storetopic" /\ pc'[c] = "storesub"
    BY <1>0, <1>6, AtOf DEF StoreTopic
  <2>2. at[c] = "join" /\ at' = [at EXCEPT ![c] = "joined"]
    BY <1>a, <2>1 DEF CallOf
  <2>3. topics = 0 /\ topics' # 0
    BY <1>0, <1>6, <2>1 DEF StoreTopic, TypeOK, IInv, SafeInv, MapsByPlace
  <2> QED BY <1>6, <2>2, <2>3 DEF StoreTopic, at, Register!Join
<1>7. ASSUME NEW c \in Callers, StoreSub(c) PROVE Register!JoinReturns(c)
  <2>1. at' = [at EXCEPT ![c] = CallOf(c)'] /\ pc[c] = "storesub" /\ pc'[c] = "idle"
    BY <1>0, <1>7, AtOf DEF StoreSub, Return
  <2>2. at[c] = "joined" /\ at' = [at EXCEPT ![c] = "idle"]
    BY <1>a, <2>1 DEF CallOf
  <2> QED
    BY <1>0, <1>7, <2>2
    DEF StoreSub, Return, maps, TypeOK, at, Register!JoinReturns, Register!Answer
<1>8. ASSUME NEW c \in Callers, LeaveCall(c) PROVE Register!Begin(c, "leave")
  <2>1. at' = [at EXCEPT ![c] = CallOf(c)'] /\ pc[c] = "idle" /\ pc'[c] = "leave"
    BY <1>0, <1>8, AtOf DEF LeaveCall, Call
  <2>2. at[c] = "idle" /\ at' = [at EXCEPT ![c] = "leave"]
    BY <1>a, <2>1 DEF CallOf
  <2> QED
    BY <1>0, <1>8, <2>2
    DEF LeaveCall, Call, maps, TypeOK, at, Register!Begin, Register!Answer
<1>9. ASSUME NEW c \in Callers, NotJoined(c) PROVE Register!LeaveReturns(c)
  <2>1. at' = [at EXCEPT ![c] = CallOf(c)'] /\ pc[c] = "droptopic" /\ pc'[c] = "idle"
    BY <1>0, <1>9, AtOf DEF NotJoined, Return
  <2>2. at[c] = "leave" /\ at' = [at EXCEPT ![c] = "idle"]
    BY <1>a, <2>1 DEF CallOf
  <2> QED
    BY <1>0, <1>9, <2>2
    DEF NotJoined, Return, maps, TypeOK, at, Register!LeaveReturns, Register!Answer
<1>10. ASSUME NEW c \in Callers, DropTopic(c) PROVE Register!LeaveReturns(c)
  <2>1. at' = [at EXCEPT ![c] = CallOf(c)'] /\ pc[c] = "droptopic" /\ pc'[c] = "idle"
    BY <1>0, <1>10, AtOf DEF DropTopic, Return
  <2>2. at[c] = "leave" /\ at' = [at EXCEPT ![c] = "idle"]
    BY <1>a, <2>1 DEF CallOf
  <2> QED
    BY <1>0, <1>10, <2>2
    DEF DropTopic, Return, maps, TypeOK, at, Register!LeaveReturns, Register!Answer
<1>11. ASSUME NEW c \in Callers, DropTopicFails(c) PROVE Register!LeaveFails(c)
  <2>1. at' = [at EXCEPT ![c] = CallOf(c)'] /\ pc[c] = "droptopic" /\ pc'[c] = "idle"
    BY <1>0, <1>11, AtOf DEF DropTopicFails, Return
  <2>2. at[c] = "leave" /\ at' = [at EXCEPT ![c] = "idle"]
    BY <1>a, <2>1 DEF CallOf
  <2> QED
    BY <1>0, <1>11, <2>2
    DEF DropTopicFails, Return, maps, TypeOK, at, Register!LeaveFails, Register!Answer
<1>12. ASSUME NEW c \in Callers, CloseCall(c) PROVE Register!Begin(c, "close")
  <2>1. at' = [at EXCEPT ![c] = CallOf(c)'] /\ pc[c] = "idle" /\ pc'[c] = "closesubs"
    BY <1>0, <1>12, AtOf DEF CloseCall, Call
  <2>2. at[c] = "idle" /\ at' = [at EXCEPT ![c] = "close"]
    BY <1>a, <2>1 DEF CallOf
  <2> QED
    BY <1>0, <1>12, <2>2
    DEF CloseCall, Call, maps, TypeOK, at, Register!Begin, Register!Answer
<1>13. ASSUME NEW c \in Callers, CloseTopics(c) PROVE Register!CloseReturns(c)
  <2>1. at' = [at EXCEPT ![c] = CallOf(c)'] /\ pc[c] = "closetopics" /\ pc'[c] = "idle"
    BY <1>0, <1>13, AtOf DEF CloseTopics, Return
  <2>2. at[c] = "close" /\ at' = [at EXCEPT ![c] = "idle"]
    BY <1>a, <2>1 DEF CallOf
  <2> QED
    BY <1>0, <1>13, <2>2
    DEF CloseTopics, Return, maps, TypeOK, at, Register!CloseReturns, Register!Answer
<1>14. ASSUME NEW c \in Callers,
             \/ JoinLock(c) \/ PubsubJoin(c) \/ TopicSubscribe(c) \/ LeaveLock(c)
             \/ DropSub(c) \/ CloseSubs(c)
      PROVE  UNCHANGED <<topics # 0, at, result>>
  <2>1. PICK from, to : /\ Goto(c, from, to)
                        /\ <<from, to>> \in {<<"join", "check">>, <<"check", "subscribe">>,
                             <<"subscribe", "storetopic">>, <<"leave", "dropsub">>,
                             <<"dropsub", "droptopic">>, <<"closesubs", "closetopics">>}
    BY <1>14 DEF JoinLock, PubsubJoin, TopicSubscribe, LeaveLock, DropSub, CloseSubs
  <2>2. at' = [at EXCEPT ![c] = CallOf(c)'] /\ pc[c] = from /\ pc'[c] = to
    BY <1>0, <2>1, AtOf
  <2>3. CallOf(c)' = CallOf(c)
    BY <2>1, <2>2 DEF CallOf
  <2>4. at' = at
    BY <1>a, <2>2, <2>3, Zenon DEF at
  <2>5. UNCHANGED <<topics, result>>
    BY <1>14 DEF JoinLock, PubsubJoin, TopicSubscribe, LeaveLock, DropSub, CloseSubs, maps
  <2> QED BY <2>4, <2>5
<1>15. CASE UNCHANGED vars
  BY <1>15 DEF vars, caller, maps, at, CallOf
<1> QED
  BY <1>1, <1>2, <1>3, <1>4, <1>5, <1>6, <1>7, <1>8, <1>9, <1>10, <1>11, <1>12, <1>13, <1>14, <1>15
  DEF Next, Calls, Locks, Proceeds, Register!Next

(* JoinTopic and LeaveTopic implement TopicRegister: each takes effect at one  *)
(* moment of its call, whatever the others do and whichever calls fail.        *)
THEOREM CallsAreAtomicAlways == Spec => CallsAreAtomic
<1>1. Init => Register!Init
  BY DEF Init, Register!Init, CallOf
<1>2. IInv /\ [Next]_vars => [Register!Next]_<<topics # 0, [c \in Callers |-> CallOf(c)], result>>
  BY StepIsRegister DEF at
<1> QED BY <1>1, <1>2, Inductive, PTL DEF Spec, CallsAreAtomic, Register!Spec
=============================================================================
