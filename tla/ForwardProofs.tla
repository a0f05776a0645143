----------------------------- MODULE ForwardProofs -----------------------------
(***************************************************************************)
(* Proofs about requests that one domain makes of another: with its own    *)
(* hart, over the bridge (Bridge), and through the queue to harts of the   *)
(* other domain (Reqfwd), for any domains, senders and servers.            *)
(***************************************************************************)
EXTENDS Bridge, Reqfwd, SequenceTheorems, TLAPS

-------------------------------------------------------------------------------
(* The bridge *)

ContextState == {"NONE", "RUNNING", "CALLING", "IDLE"}

\* The types that matter: what names a domain names one.
BridgeTypes ==
  /\ bcur \in BDomain \cup {NoBDomain}
  /\ bctx \in [BDomain -> ContextState]
  /\ bcaller \in [BDomain -> BDomain \cup {NoBDomain}]
  /\ bstopping \in [BDomain -> BOOLEAN]
  /\ waits \in [BDomain -> {"none", "mm", "enter", "exit", "retrieve", "complete"}]
  /\ slot \in [BDomain -> SlotState]
  /\ request \in {"NONE", "TO", "BACK", "YIELD"}

\* Who is where: the hart's domain has the context that runs, a request of
\* MM_COMMUNICATE is a source's, any other one is the host's, and a context that
\* waits in MM_COMMUNICATE waits.
HartIsWhere ==
  /\ bcur # NoBDomain => bctx[bcur] = "RUNNING"
  /\ request = "TO" => bcur \in Source
  /\ request \in {"BACK", "YIELD"} => bcur = Host
  /\ \A d \in BDomain : waits[d] = "mm" => d \in Source /\ bctx[d] = "CALLING"

\* A slot is in use exactly while its source waits in MM_COMMUNICATE or is about
\* to hand the hart over for it.
SlotIsTheCalls ==
  \A d \in BDomain :
    slot[d] # "FREE" <=> waits[d] = "mm" \/ (bcur = d /\ request = "TO")

BridgeInv == BridgeTypes /\ HartIsWhere /\ SlotIsTheCalls /\ AnswerGoesToSender

\* A hart that moves by context_park() and context_switch(), from a context that
\* is not in MM_COMMUNICATE unless that is what it parks in.
LEMMA MoveStep ==
  ASSUME BridgeInv, bcur \in BDomain, NEW to \in BDomain, to # bcur,
         NEW park \in {"CALLING", "IDLE", "NONE"},
         NEW call \in {"none", "mm", "enter", "exit", "retrieve", "complete"},
         NEW caller \in BDomain \cup {NoBDomain},
         Move(park, call, to, caller), request' = "NONE",
         call = "mm" <=> request = "TO", call = "mm" => park = "CALLING",
         bctx[to] # "RUNNING"
  PROVE  BridgeInv'
<1> USE BridgeAssumption
<1>1. /\ bcur' = to
      /\ bctx' = [bctx EXCEPT ![bcur] = park, ![to] = "RUNNING"]
      /\ waits' = [waits EXCEPT ![bcur] = call, ![to] = "none"]
      /\ bstopping' = bstopping
  BY DEF Move
<1>2. bcaller' \in [BDomain -> BDomain \cup {NoBDomain}]
  BY DEF Move, BridgeInv, BridgeTypes
<1>3. \/ /\ bctx[to] = "NONE" /\ slot' = slot /\ given' = given
      \/ /\ bctx[to] # "NONE" /\ slot' = [slot EXCEPT ![to] = "FREE"]
         /\ given' = [waited |-> waits[to], got |-> Resumed(to)]
  BY DEF Move
<1>4. slot[to] # "FREE" <=> waits[to] = "mm"
  BY DEF BridgeInv, SlotIsTheCalls
<1>5. BridgeTypes'
  BY <1>1, <1>2, <1>3 DEF BridgeInv, BridgeTypes, ContextState, SlotState
<1>6. HartIsWhere'
  BY <1>1 DEF BridgeInv, BridgeTypes, HartIsWhere
<1>7. SlotIsTheCalls'
  <2> SUFFICES ASSUME NEW d \in BDomain
               PROVE  slot'[d] # "FREE" <=> waits'[d] = "mm"
    BY DEF SlotIsTheCalls
  <2>1. CASE d = to
    BY <1>1, <1>3, <1>4, <2>1 DEF BridgeInv, BridgeTypes, HartIsWhere
  <2>2. CASE d = bcur
    BY <1>1, <1>3, <2>2 DEF BridgeInv, BridgeTypes, HartIsWhere, SlotIsTheCalls
  <2>3. CASE d # to /\ d # bcur
    BY <1>1, <1>3, <2>3 DEF BridgeInv, BridgeTypes, SlotIsTheCalls
  <2> QED
    BY <2>1, <2>2, <2>3
<1>8. AnswerGoesToSender'
  BY <1>3, <1>4 DEF BridgeInv, AnswerGoesToSender, Resumed
<1> QED
  BY <1>5, <1>6, <1>7, <1>8 DEF BridgeInv

\* leave(): to the caller, which waits, or to a source that has no context yet.
LEMMA LeaveStep ==
  ASSUME BridgeInv, NEW call \in {"retrieve", "complete"}, bcur = Host, Leave(call),
         request' = "NONE", request # "TO"
  PROVE  BridgeInv'
<1> USE BridgeAssumption
<1>1. CASE BCallerWaits /\ Move("IDLE", call, bcaller[bcur], bcaller[bcaller[bcur]])
  <2>1. /\ bcaller[bcur] \in BDomain /\ bctx[bcaller[bcur]] = "CALLING"
        /\ bcaller[bcaller[bcur]] \in BDomain \cup {NoBDomain}
    BY <1>1 DEF BCallerWaits, BridgeInv, BridgeTypes
  <2>2. bcaller[bcur] # bcur
    BY <2>1 DEF BridgeInv, HartIsWhere
  <2> QED
    BY <1>1, <2>1, <2>2, MoveStep
<1>2. ASSUME NEW d \in Source, CanStart(d), Move("IDLE", call, d, NoBDomain)
      PROVE  BridgeInv'
  BY <1>2, MoveStep DEF CanStart
<1> QED
  BY <1>1, <1>2 DEF Leave

\* Every step keeps what the answers rest on, where the sources are not stopped
\* from outside.
LEMMA NextBridgeInv ==
  ASSUME MayStop \cap Source = {}, BridgeInv, [BridgeNext]_bridgeVars
  PROVE  BridgeInv'
<1> USE BridgeAssumption DEF BridgeInv
<1>1. CASE MmCommunicate
  <2>1. /\ bcur \in Source /\ slot' = [slot EXCEPT ![bcur] = "SENT"] /\ request = "NONE"
        /\ request' = "TO"
        /\ UNCHANGED <<bcur, bctx, bcaller, bstopping, lives, waits, given>>
    BY <1>1 DEF MmCommunicate
  <2>2. BridgeTypes'
    BY <2>1 DEF BridgeTypes, SlotState
  <2>3. HartIsWhere'
    BY <2>1 DEF HartIsWhere
  <2>4. SlotIsTheCalls'
    BY <2>1 DEF BridgeTypes, SlotIsTheCalls
  <2> QED
    BY <2>1, <2>2, <2>3, <2>4 DEF AnswerGoesToSender
<1>2. CASE SwitchTo
  <2>1. bcur \in Source /\ request = "TO" /\ request' = "NONE" /\ bcur # Host
    BY <1>2 DEF SwitchTo, HartIsWhere
  <2>2. CASE BEnterable(Host) /\ Move("CALLING", "mm", Host, bcur)
    BY <2>1, <2>2, MoveStep DEF BEnterable, CanStart
  <2>3. CASE /\ slot' = [slot EXCEPT ![bcur] = "FREE"]
             /\ given' = [waited |-> "mm", got |-> "mm"]
             /\ UNCHANGED <<bcur, bctx, bcaller, bstopping, lives, waits>>
    <3>1. BridgeTypes' /\ HartIsWhere'
      BY <2>1, <2>3 DEF BridgeTypes, SlotState, HartIsWhere
    <3>2. SlotIsTheCalls'
      BY <2>1, <2>3 DEF BridgeTypes, HartIsWhere, SlotIsTheCalls
    <3>3. AnswerGoesToSender'
      BY <2>3 DEF AnswerGoesToSender
    <3> QED
      BY <3>1, <3>2, <3>3
  <2> QED
    BY <1>2, <2>2, <2>3 DEF SwitchTo
<1>3. CASE BridgeRetrieve \/ BridgeComplete
  <2> DEFINE c == bcaller[bcur]
  <2>1. /\ bcur = Host /\ request = "NONE" /\ request' \in {"NONE", "YIELD", "BACK"}
        /\ UNCHANGED <<bcur, bctx, bcaller, bstopping, lives, waits, given>>
    BY <1>3 DEF BridgeRetrieve, BridgeComplete
  <2>2. \/ slot' = slot
        \/ /\ c \in BDomain /\ slot[c] # "FREE"
           /\ \E s \in SlotState \ {"FREE"} : slot' = [slot EXCEPT ![c] = s]
    BY <1>3 DEF BridgeRetrieve, BridgeComplete, SlotFor, BCallerWaits, BridgeTypes, SlotState
  <2>3. BridgeTypes' /\ HartIsWhere'
    BY <2>1, <2>2 DEF BridgeTypes, HartIsWhere
  <2>4. SlotIsTheCalls'
    BY <2>1, <2>2 DEF BridgeTypes, SlotIsTheCalls
  <2> QED
    BY <2>1, <2>3, <2>4 DEF AnswerGoesToSender
<1>4. CASE SwitchBack \/ SwitchYield
  <2>1. bcur = Host /\ request # "TO" /\ request' = "NONE"
    BY <1>4 DEF SwitchBack, SwitchYield, HartIsWhere
  <2>2. CASE Leave("complete") \/ Leave("retrieve")
    BY <2>1, <2>2, LeaveStep DEF BridgeInv
  <2>3. CASE UNCHANGED <<bcur, bctx, bcaller, bstopping, lives, waits, slot, given>>
    BY <2>1, <2>3 DEF BridgeTypes, HartIsWhere, SlotIsTheCalls, AnswerGoesToSender
  <2> QED
    BY <1>4, <2>2, <2>3 DEF SwitchBack, SwitchYield
<1>5. ASSUME NEW d \in BDomain, BridgeEnter(d) PROVE BridgeInv'
  BY <1>5, MoveStep DEF BridgeEnter, CanStart, BridgeTypes
<1>6. CASE BridgeExit
  <2>1. /\ bcaller[bcur] \in BDomain /\ bctx[bcaller[bcur]] = "CALLING"
        /\ bcaller[bcaller[bcur]] \in BDomain \cup {NoBDomain} /\ bcur \in BDomain
    BY <1>6 DEF BridgeExit, BCallerWaits, BridgeTypes
  <2>2. bcaller[bcur] # bcur
    BY <2>1 DEF HartIsWhere
  <2> QED
    BY <1>6, <2>1, <2>2, MoveStep DEF BridgeExit
<1>7. CASE StopSelf
  <2>0. bcur \in BDomain /\ request = "NONE" /\ request' = "NONE"
    BY <1>7 DEF StopSelf, BridgeTypes
  <2>1. CASE BCallerWaits
    <3>1. /\ bcaller[bcur] \in BDomain /\ bctx[bcaller[bcur]] = "CALLING"
          /\ bcaller[bcaller[bcur]] \in BDomain \cup {NoBDomain}
      BY <2>0, <2>1 DEF BCallerWaits, BridgeTypes
    <3>2. bcaller[bcur] # bcur
      BY <2>0, <3>1 DEF HartIsWhere
    <3> QED
      BY <1>7, <2>0, <2>1, <3>1, <3>2, MoveStep DEF StopSelf
  <2>2. CASE ~BCallerWaits
    <3>1. /\ bctx' = [bctx EXCEPT ![bcur] = "NONE"]
          /\ bcaller' = [bcaller EXCEPT ![bcur] = NoBDomain]
          /\ bcur' = NoBDomain
          /\ UNCHANGED <<bstopping, lives, waits, slot, given>>
      BY <1>7, <2>2 DEF StopSelf
    <3>2. BridgeTypes' /\ AnswerGoesToSender'
      BY <2>0, <3>1 DEF BridgeTypes, ContextState, AnswerGoesToSender
    <3>3. HartIsWhere'
      BY <2>0, <3>1 DEF BridgeTypes, HartIsWhere
    <3>4. SlotIsTheCalls'
      BY <2>0, <3>1 DEF SlotIsTheCalls
    <3> QED
      BY <3>2, <3>3, <3>4
  <2> QED
    BY <2>1, <2>2
<1>8. ASSUME NEW d \in BDomain, StopDomain(d) PROVE BridgeInv'
  <2>1. d \notin Source /\ UNCHANGED <<bcur, lives, slot, request, given>>
        /\ bstopping' = [bstopping EXCEPT ![d] = TRUE]
    BY <1>8 DEF StopDomain
  <2>2. \/ UNCHANGED <<bctx, bcaller, waits>>
        \/ /\ bctx[d] \in {"CALLING", "IDLE"}
           /\ bctx' = [bctx EXCEPT ![d] = "NONE"]
           /\ bcaller' = [bcaller EXCEPT ![d] = NoBDomain]
           /\ waits' = [waits EXCEPT ![d] = "none"]
    BY <1>8 DEF StopDomain
  <2>3. BridgeTypes' /\ AnswerGoesToSender'
    BY <2>1, <2>2 DEF BridgeTypes, ContextState, AnswerGoesToSender
  <2>4. HartIsWhere'
    BY <2>1, <2>2 DEF BridgeTypes, HartIsWhere
  <2>5. SlotIsTheCalls'
    BY <2>1, <2>2 DEF BridgeTypes, HartIsWhere, SlotIsTheCalls
  <2> QED
    BY <2>3, <2>4, <2>5
<1>9. ASSUME NEW d \in BDomain, StopDone(d) PROVE BridgeInv'
  BY <1>9 DEF StopDone, BridgeTypes, HartIsWhere, SlotIsTheCalls, AnswerGoesToSender
<1>10. ASSUME NEW d \in BDomain, StartDomain(d) PROVE BridgeInv'
  <2>1. /\ bcur = NoBDomain /\ bcur' = d /\ bctx[d] = "NONE"
        /\ bctx' = [bctx EXCEPT ![d] = "RUNNING"]
        /\ UNCHANGED <<bcaller, bstopping, waits, slot, request, given>>
    BY <1>10 DEF StartDomain, CanStart
  <2>2. BridgeTypes' /\ AnswerGoesToSender'
    BY <2>1 DEF BridgeTypes, ContextState, AnswerGoesToSender
  <2>3. HartIsWhere'
    BY <2>1 DEF BridgeTypes, HartIsWhere
  <2>4. SlotIsTheCalls'
    BY <2>1 DEF HartIsWhere, SlotIsTheCalls
  <2> QED
    BY <2>2, <2>3, <2>4
<1>11. CASE UNCHANGED bridgeVars
  BY <1>11 DEF bridgeVars, BridgeTypes, HartIsWhere, SlotIsTheCalls, AnswerGoesToSender
<1> QED
  BY <1>1, <1>2, <1>3, <1>4, <1>5, <1>6, <1>7, <1>8, <1>9, <1>10, <1>11 DEF BridgeNext

\* Where the sources of a bridge are not stopped by others, a context that gets the
\* hart back is given the answer to MM_COMMUNICATE exactly when it waits in one,
\* for any domains, whatever they enter, exit, stop and start.
THEOREM AnswersGoToSenders ==
  ASSUME MayStop \cap Source = {}
  PROVE  BridgeSpec => []AnswerGoesToSender
<1>1. BridgeInit => BridgeInv
  BY BridgeAssumption
  DEF BridgeInit, BridgeInv, BridgeTypes, ContextState, SlotState, HartIsWhere, SlotIsTheCalls,
      AnswerGoesToSender, NothingGiven
<1>2. BridgeInv => AnswerGoesToSender
  BY DEF BridgeInv
<1>3. BridgeInv /\ [BridgeNext]_bridgeVars => BridgeInv'
  BY NextBridgeInv
<1> QED
  BY <1>1, <1>2, <1>3, PTL DEF BridgeSpec
-------------------------------------------------------------------------------
(* The queue *)

\* A sequence without its k-th element.
LEMMA RemoveAtProperties ==
  ASSUME NEW T, NEW q \in Seq(T), NEW k \in 1 .. Len(q)
  PROVE  /\ RemoveAt(q, k) \in Seq(T)
         /\ Len(RemoveAt(q, k)) = Len(q) - 1
         /\ \A i \in 1 .. Len(q) - 1 :
              RemoveAt(q, k)[i] = IF i < k THEN q[i] ELSE q[i + 1]
<1> DEFINE a == SubSeq(q, 1, k - 1)
           b == SubSeq(q, k + 1, Len(q))
<1>0. Len(q) \in Nat
  BY LenProperties
<1>1. a \in Seq(T) /\ Len(a) = k - 1 /\ \A i \in 1 .. k - 1 : a[i] = q[i]
  BY SubSeqProperties
<1>2. b \in Seq(T) /\ Len(b) = Len(q) - k /\ \A i \in 1 .. Len(q) - k : b[i] = q[k + i]
  BY SubSeqProperties
<1>3. RemoveAt(q, k) = a \o b
  BY DEF RemoveAt
<1> HIDE DEF a, b
<1>c. /\ a \o b \in Seq(T) /\ Len(a \o b) = Len(a) + Len(b)
      /\ \A i \in 1 .. Len(a) + Len(b) :
           (a \o b)[i] = IF i <= Len(a) THEN a[i] ELSE b[i - Len(a)]
  BY <1>1, <1>2, ConcatProperties
<1>4. a \o b \in Seq(T) /\ Len(a \o b) = Len(q) - 1
  BY <1>0, <1>1, <1>2, <1>c
<1>5. ASSUME NEW i \in 1 .. Len(q) - 1
      PROVE  (a \o b)[i] = IF i < k THEN q[i] ELSE q[i + 1]
  <2>1. CASE i < k
    BY <1>0, <1>1, <1>2, <1>c, <2>1
  <2>2. CASE ~(i < k)
    <3>1. (a \o b)[i] = b[i - (k - 1)]
      BY <1>0, <1>1, <1>2, <1>c, <2>2
    <3>2. i - (k - 1) \in 1 .. Len(q) - k
      BY <1>0, <2>2
    <3>3. b[i - (k - 1)] = q[k + (i - (k - 1))]
      BY <1>2, <3>2
    <3>4. k + (i - (k - 1)) = i + 1
      BY <1>0
    <3> QED
      BY <2>2, <3>1, <3>3, <3>4
  <2> QED
    BY <2>1, <2>2
<1> QED
  BY <1>3, <1>4, <1>5

\* unlink(): the message is out of the queue and the others are in it, once, with
\* the first of them where it was.
LEMMA UnlinkTakesOut ==
  ASSUME NEW s, queue \in Seq(Sender),
         \A i, j \in 1 .. Len(queue) : queue[i] = queue[j] => i = j
  PROVE  /\ Unlink(s) \in Seq(Sender)
         /\ \A i \in 1 .. Len(Unlink(s)) :
              Unlink(s)[i] # s /\ \E j \in 1 .. Len(queue) : queue[j] = Unlink(s)[i]
         /\ \A i, j \in 1 .. Len(Unlink(s)) : Unlink(s)[i] = Unlink(s)[j] => i = j
         /\ Len(queue) > 0 /\ queue[1] # s => Len(Unlink(s)) > 0 /\ Unlink(s)[1] = queue[1]
<1>1. CASE \A i \in 1 .. Len(queue) : queue[i] # s
  <2>1. Unlink(s) = queue
    BY <1>1 DEF Unlink, RemoveFirst
  <2> QED
    BY <1>1, <2>1
<1>2. ASSUME NEW k \in 1 .. Len(queue), queue[k] = s
      PROVE  Unlink(s) = RemoveAt(queue, k)
  <2>1. {i \in 1 .. Len(queue) : queue[i] = s} = {k}
    BY <1>2
  <2>2. Min({k}) = k
    BY DEF Min
  <2> QED
    BY <1>2, <2>1, <2>2 DEF Unlink, RemoveFirst, SelectInSeq
<1>3. ASSUME NEW k \in 1 .. Len(queue), queue[k] = s
      PROVE  /\ Unlink(s) \in Seq(Sender)
             /\ \A i \in 1 .. Len(Unlink(s)) :
                  Unlink(s)[i] # s /\ \E j \in 1 .. Len(queue) : queue[j] = Unlink(s)[i]
             /\ \A i, j \in 1 .. Len(Unlink(s)) : Unlink(s)[i] = Unlink(s)[j] => i = j
             /\ queue[1] # s => Len(Unlink(s)) > 0 /\ Unlink(s)[1] = queue[1]
  <2> DEFINE u == Unlink(s)
  <2>1. /\ u \in Seq(Sender) /\ Len(u) = Len(queue) - 1 /\ Len(queue) \in Nat
        /\ \A i \in 1 .. Len(queue) - 1 : u[i] = IF i < k THEN queue[i] ELSE queue[i + 1]
    <3>1. u = RemoveAt(queue, k) /\ Len(queue) \in Nat
      BY <1>2, <1>3, LenProperties
    <3> HIDE DEF u
    <3> QED
      BY <3>1, RemoveAtProperties
  <2> HIDE DEF u
  <2>2. \A i \in 1 .. Len(u) : u[i] # s /\ \E j \in 1 .. Len(queue) : queue[j] = u[i]
    BY <1>3, <2>1
  <2>3. \A i, j \in 1 .. Len(u) : u[i] = u[j] => i = j
    BY <2>1
  <2>4. queue[1] # s => Len(u) > 0 /\ u[1] = queue[1]
    BY <1>3, <2>1
  <2> QED
    BY <2>1, <2>2, <2>3, <2>4 DEF u
<1> QED
  BY <1>1, <1>3

MessageState == {"none", "QUEUED", "RETRIEVED", "COMPLETED", "FAILED"}
SenderLabel == {"idle", "notify", "due", "indications", "wait", "indicate", "expired",
                "return", "last_indicate"}
Outcome == {"none", "SUCCESS", "TIMEOUT", "BAD_RANGE", "IO"}
ServerLabel == {"off", "sleep", "events", "peek", "retrieve", "complete"}

ReqfwdTypes ==
  /\ queue \in Seq(Sender)
  /\ mstate \in [Sender -> MessageState]
  /\ spc \in [Sender -> SenderLabel]
  /\ sent \in [Sender -> Nat]
  /\ outcome \in [Sender -> Outcome]
  /\ vpc \in [Server -> ServerLabel]
  /\ notify_enabled \in BOOLEAN /\ new_message \in BOOLEAN
  /\ events_due \in BOOLEAN /\ indications_due \in BOOLEAN /\ told \in BOOLEAN

\* The queue holds messages that wait for an answer, each of a hart that waits for
\* it and has given none up since, and none twice.
QueueIsWaiting ==
  /\ \A i \in 1 .. Len(queue) : mstate[queue[i]] \in {"QUEUED", "RETRIEVED"}
  /\ \A i, j \in 1 .. Len(queue) : queue[i] = queue[j] => i = j
  /\ \A s \in Sender :
       mstate[s] \in {"QUEUED", "RETRIEVED"} =>
         spc[s] \notin {"idle", "return", "last_indicate"} /\ outcome[s] # "TIMEOUT"

\* The message last completed was sent, and it has its answer for as long as its
\* sender has sent no other.
AgreedIsAnswered ==
  /\ agreed = <<>> \/ \E t \in Sender : \E n \in 0 .. sent[t] : agreed = <<t, n>>
  /\ \A s \in Sender : agreed = MessageOf(s) =>
       mstate[s] \in {"COMPLETED", "FAILED"} /\ outcome[s] # "TIMEOUT"

\* While all servers sleep or look for events, a message that waits is one its
\* sender is about to tell of, or the news of it is on its way: the event is there
\* to be found and so is what makes a server look for it.
NewsIsOnItsWay ==
  (queue # <<>> /\ notify_enabled /\ \A v \in Server : vpc[v] \in {"sleep", "events"}) =>
    \/ \E s \in Sender : spc[s] = "notify"
    \/ /\ new_message
       /\ \/ told
          \/ \E v \in Server : vpc[v] = "events"
          \/ \E s \in Sender : spc[s] = "due"
          \/ events_due /\ (indications_due \/ \E s \in Sender :
                              spc[s] \in {"indications", "indicate", "last_indicate"})

ReqfwdInv == ReqfwdTypes /\ QueueIsWaiting /\ AgreedIsAnswered /\ NewsIsOnItsWay

\* A hart that takes a step of its own, from label to label: no message, no answer
\* and no flag a server looks at is gone, and what was to be told still is.
SenderMoves(s, from, to) ==
  /\ SenderGoes(s, from, to) /\ from # "notify" /\ to \in SenderLabel
  /\ \/ from \in {"idle", "return", "last_indicate"}
     \/ to \notin {"idle", "return", "last_indicate"}
     \/ mstate[s] \notin {"QUEUED", "RETRIEVED"}
  /\ from = "due" => events_due' /\ to = "indications"
  /\ from = "indications" => indications_due'
  /\ from \in {"indicate", "last_indicate"} /\ events_due => told'
  /\ events_due => events_due' \/ told'
  /\ indications_due => indications_due' \/ to \in {"indicate", "last_indicate"}
  /\ told => told'
  /\ events_due' \in BOOLEAN /\ indications_due' \in BOOLEAN /\ told' \in BOOLEAN
  /\ UNCHANGED <<queue, mstate, answer, sent, vpc, got, notify_enabled, new_message, agreed>>
  /\ outcome' \in [Sender -> Outcome]
  /\ \A t \in Sender : outcome'[t] = outcome[t] \/ (t = s /\ outcome'[s] # "TIMEOUT")

\* Such a step keeps the invariant.
LEMMA SenderStep ==
  ASSUME ReqfwdInv, NEW s \in Sender, NEW from, NEW to, SenderMoves(s, from, to)
  PROVE  ReqfwdInv'
<1> USE DEF SenderMoves
<1>0. /\ spc[s] = from /\ spc' = [spc EXCEPT ![s] = to] /\ spc \in [Sender -> SenderLabel]
  BY DEF SenderGoes, ReqfwdInv, ReqfwdTypes
<1>s. spc'[s] = to /\ \A t \in Sender : t # s => spc'[t] = spc[t]
  BY <1>0
<1>1. ReqfwdTypes'
  BY <1>0 DEF ReqfwdInv, ReqfwdTypes
<1>2. QueueIsWaiting'
  BY <1>0, <1>s DEF ReqfwdInv, QueueIsWaiting
<1>3. AgreedIsAnswered'
  BY DEF ReqfwdInv, AgreedIsAnswered, MessageOf
<1>4. NewsIsOnItsWay'
  <2> SUFFICES ASSUME queue # <<>>, notify_enabled, \A v \in Server : vpc[v] \in {"sleep", "events"}
               PROVE  \/ \E t \in Sender : spc'[t] = "notify"
                      \/ /\ new_message
                         /\ \/ told'
                            \/ \E v \in Server : vpc[v] = "events"
                            \/ \E t \in Sender : spc'[t] = "due"
                            \/ events_due' /\ (indications_due' \/ \E t \in Sender :
                                 spc'[t] \in {"indications", "indicate", "last_indicate"})
    BY <1>0 DEF NewsIsOnItsWay
  <2>1. \/ \E t \in Sender : spc[t] = "notify"
        \/ new_message /\ (told \/ \E v \in Server : vpc[v] = "events")
        \/ new_message /\ \E t \in Sender : spc[t] = "due"
        \/ new_message /\ events_due /\ indications_due
        \/ new_message /\ events_due /\ \E t \in Sender :
                 spc[t] \in {"indications", "indicate", "last_indicate"}
    BY DEF ReqfwdInv, NewsIsOnItsWay
  <2>2. CASE \E t \in Sender : spc[t] = "notify"
    BY <1>0, <1>s, <2>2
  <2>3. CASE new_message /\ (told \/ \E v \in Server : vpc[v] = "events")
    BY <2>3
  <2>4. CASE new_message /\ \E t \in Sender : spc[t] = "due"
    BY <1>0, <1>s, <2>4
  <2>5. CASE new_message /\ events_due /\ indications_due
    BY <1>s, <2>5
  <2>6. CASE new_message /\ events_due /\ \E t \in Sender :
                spc[t] \in {"indications", "indicate", "last_indicate"}
    BY <1>0, <1>s, <2>6
  <2> QED
    BY <2>1, <2>2, <2>3, <2>4, <2>5, <2>6
<1> QED
  BY <1>1, <1>2, <1>3, <1>4 DEF ReqfwdInv

\* What mm_service() makes of a response is never a timeout.
LEMMA OutcomeIsNoTimeout == \A s : OutcomeOf(s) \in Outcome \ {"TIMEOUT"}
  BY DEF OutcomeOf, Outcome

\* A message is queued: its hart waits for none, so it is not in the queue, and the
\* first one is told of.
LEMMA SendStep ==
  ASSUME ReqfwdInv, NEW s \in Sender, ReqfwdSend(s)
  PROVE  ReqfwdInv'
<1>0. /\ spc[s] = "idle"
      /\ spc' = [spc EXCEPT ![s] = IF queue = <<>> THEN "notify" ELSE "wait"]
      /\ sent' = [sent EXCEPT ![s] = sent[s] + 1]
      /\ queue' = Append(queue, s)
      /\ mstate' = [mstate EXCEPT ![s] = "QUEUED"]
      /\ outcome' = [outcome EXCEPT ![s] = "none"]
      /\ UNCHANGED <<vpc, got, notify_enabled, new_message, events_due, indications_due, told, agreed>>
  BY DEF ReqfwdSend, SenderGoes, serverVars, flagVars
<1>1. ReqfwdTypes'
  BY <1>0 DEF ReqfwdInv, ReqfwdTypes, SenderLabel, MessageState, Outcome
<1>2. mstate[s] \notin {"QUEUED", "RETRIEVED"} /\ \A i \in 1 .. Len(queue) : queue[i] # s
  BY <1>0 DEF ReqfwdInv, QueueIsWaiting
<1>3. /\ Len(queue') = Len(queue) + 1 /\ queue'[Len(queue) + 1] = s /\ Len(queue) \in Nat
      /\ \A i \in 1 .. Len(queue) : queue'[i] = queue[i] /\ queue[i] \in Sender
  BY <1>0 DEF ReqfwdInv, ReqfwdTypes
<1>4. QueueIsWaiting'
  <2>1. \A i \in 1 .. Len(queue') : mstate'[queue'[i]] \in {"QUEUED", "RETRIEVED"}
    BY <1>0, <1>3 DEF ReqfwdInv, ReqfwdTypes, QueueIsWaiting
  <2>2. \A i, j \in 1 .. Len(queue') : queue'[i] = queue'[j] => i = j
    BY <1>2, <1>3 DEF ReqfwdInv, QueueIsWaiting
  <2>3. \A t \in Sender : mstate'[t] \in {"QUEUED", "RETRIEVED"} =>
                            spc'[t] \notin {"idle", "return", "last_indicate"} /\ outcome'[t] # "TIMEOUT"
    BY <1>0 DEF ReqfwdInv, ReqfwdTypes, QueueIsWaiting
  <2> QED
    BY <2>1, <2>2, <2>3 DEF QueueIsWaiting
<1>5. AgreedIsAnswered'
  <2>1. \A t \in Sender : t # s => MessageOf(t)' = MessageOf(t) /\ mstate'[t] = mstate[t]
    BY <1>0 DEF ReqfwdInv, ReqfwdTypes, MessageOf
  <2>2. agreed # <<s, sent[s] + 1>>
    <3>1. ASSUME NEW t \in Sender, NEW n \in 0 .. sent[t]
          PROVE  <<t, n>> # <<s, sent[s] + 1>>
      BY DEF ReqfwdInv, ReqfwdTypes
    <3>2. <<>> # <<s, sent[s] + 1>>
      OBVIOUS
    <3> QED
      BY <3>1, <3>2 DEF ReqfwdInv, AgreedIsAnswered
  <2>3. MessageOf(s)' = <<s, sent[s] + 1>>
    BY <1>0 DEF ReqfwdInv, ReqfwdTypes, MessageOf
  <2>4. agreed = <<>> \/ \E t \in Sender : \E n \in 0 .. sent'[t] : agreed = <<t, n>>
    BY <1>0 DEF ReqfwdInv, ReqfwdTypes, AgreedIsAnswered
  <2>5. \A t \in Sender : t # s => outcome'[t] = outcome[t]
    BY <1>0 DEF ReqfwdInv, ReqfwdTypes
  <2>6. \A t \in Sender : agreed = MessageOf(t)' =>
          mstate'[t] \in {"COMPLETED", "FAILED"} /\ outcome'[t] # "TIMEOUT"
    BY <2>1, <2>2, <2>3, <2>5 DEF ReqfwdInv, AgreedIsAnswered
  <2> QED
    BY <1>0, <2>4, <2>6 DEF AgreedIsAnswered
<1>6. NewsIsOnItsWay'
  <2>1. CASE queue = <<>>
    BY <1>0, <2>1 DEF ReqfwdInv, ReqfwdTypes, NewsIsOnItsWay
  <2>2. CASE queue # <<>>
    BY <1>0, <2>2 DEF ReqfwdInv, ReqfwdTypes, NewsIsOnItsWay
  <2> QED
    BY <2>1, <2>2
<1> QED
  BY <1>1, <1>4, <1>5, <1>6 DEF ReqfwdInv

\* reqfwd_notify(): where notifications are on, the event is set first.
LEMMA NotifyStep ==
  ASSUME ReqfwdInv, NEW s \in Sender, ReqfwdNotify(s)
  PROVE  ReqfwdInv'
<1>0. /\ spc[s] = "notify"
      /\ spc' = [spc EXCEPT ![s] = IF notify_enabled THEN "due" ELSE "wait"]
      /\ new_message' = (new_message \/ notify_enabled)
      /\ UNCHANGED <<queue, mstate, answer, sent, outcome, vpc, got, notify_enabled,
                     events_due, indications_due, told, agreed>>
  BY DEF ReqfwdNotify, SenderGoes, serverVars
<1>1. ReqfwdTypes'
  BY <1>0 DEF ReqfwdInv, ReqfwdTypes, SenderLabel
<1>2. QueueIsWaiting'
  BY <1>0 DEF ReqfwdInv, ReqfwdTypes, QueueIsWaiting
<1>3. AgreedIsAnswered'
  BY <1>0 DEF ReqfwdInv, AgreedIsAnswered, MessageOf
<1>4. NewsIsOnItsWay'
  BY <1>0 DEF ReqfwdInv, ReqfwdTypes, NewsIsOnItsWay
<1> QED
  BY <1>1, <1>2, <1>3, <1>4 DEF ReqfwdInv

\* The timeout's lock section: a message that is answered by now is not given up.
LEMMA GiveUpStep ==
  ASSUME ReqfwdInv, NEW s \in Sender, SendGivesUp(s)
  PROVE  ReqfwdInv'
<1>1. CASE mstate[s] \in {"QUEUED", "RETRIEVED"}
  <2>0. /\ spc' = [spc EXCEPT ![s] = "return"]
        /\ queue' = Unlink(s)
        /\ mstate' = [mstate EXCEPT ![s] = "none"]
        /\ outcome' = [outcome EXCEPT ![s] = "TIMEOUT"]
        /\ spc[s] = "expired"
        /\ UNCHANGED <<answer, sent, vpc, got, notify_enabled, new_message, events_due,
                       indications_due, told, agreed>>
    BY <1>1 DEF SendGivesUp, SenderGoes, serverVars, flagVars
  <2>1. /\ queue' \in Seq(Sender)
        /\ \A i \in 1 .. Len(queue') :
             queue'[i] # s /\ \E j \in 1 .. Len(queue) : queue[j] = queue'[i]
        /\ \A i, j \in 1 .. Len(queue') : queue'[i] = queue'[j] => i = j
    <3>1. queue \in Seq(Sender) /\ \A i, j \in 1 .. Len(queue) : queue[i] = queue[j] => i = j
      BY DEF ReqfwdInv, ReqfwdTypes, QueueIsWaiting
    <3> QED
      BY <2>0, <3>1, UnlinkTakesOut
  <2>2. ReqfwdTypes'
    BY <2>0, <2>1 DEF ReqfwdInv, ReqfwdTypes, SenderLabel, MessageState, Outcome
  <2>3. QueueIsWaiting'
    <3>1. \A i \in 1 .. Len(queue') : mstate'[queue'[i]] \in {"QUEUED", "RETRIEVED"}
      <4>1. \A j \in 1 .. Len(queue) :
              queue[j] \in Sender /\ mstate[queue[j]] \in {"QUEUED", "RETRIEVED"}
        BY DEF ReqfwdInv, ReqfwdTypes, QueueIsWaiting
      <4>2. \A t \in Sender : t # s => mstate'[t] = mstate[t]
        BY <2>0 DEF ReqfwdInv, ReqfwdTypes
      <4> QED
        BY <2>1, <4>1, <4>2
    <3>2. \A t \in Sender : mstate'[t] \in {"QUEUED", "RETRIEVED"} =>
                              spc'[t] \notin {"idle", "return", "last_indicate"} /\ outcome'[t] # "TIMEOUT"
      BY <2>0 DEF ReqfwdInv, ReqfwdTypes, QueueIsWaiting
    <3> QED
      BY <2>1, <3>1, <3>2 DEF QueueIsWaiting
  <2>4. AgreedIsAnswered'
    <3>1. agreed # MessageOf(s)
      BY <1>1 DEF ReqfwdInv, AgreedIsAnswered
    <3> QED
      BY <2>0, <3>1 DEF ReqfwdInv, ReqfwdTypes, AgreedIsAnswered, MessageOf
  <2>5. queue' # <<>> => queue # <<>>
    <3>1. ASSUME queue' # <<>> PROVE 1 \in 1 .. Len(queue')
      BY <2>1, <3>1
    <3>2. ASSUME NEW j \in 1 .. Len(queue) PROVE queue # <<>>
      OBVIOUS
    <3> QED
      BY <2>1, <3>1, <3>2
  <2>6. NewsIsOnItsWay'
    BY <2>0, <2>5 DEF ReqfwdInv, ReqfwdTypes, NewsIsOnItsWay
  <2> QED
    BY <2>2, <2>3, <2>4, <2>6 DEF ReqfwdInv
<1>2. CASE mstate[s] \notin {"QUEUED", "RETRIEVED"}
  <2>1. outcome' = [outcome EXCEPT ![s] = OutcomeOf(s)]
    BY <1>2 DEF SendGivesUp
  <2>2. /\ outcome' \in [Sender -> Outcome]
        /\ \A t \in Sender : outcome'[t] = outcome[t] \/ (t = s /\ outcome'[s] # "TIMEOUT")
    BY <2>1, OutcomeIsNoTimeout DEF ReqfwdInv, ReqfwdTypes
  <2>3. SenderMoves(s, "expired", "return")
    BY <1>2, <2>2
    DEF SenderMoves, SendGivesUp, serverVars, flagVars, SenderLabel, ReqfwdInv, ReqfwdTypes
  <2> QED
    BY <2>3, SenderStep
<1> QED
  BY <1>1, <1>2

\* A hart of the target domain goes on, without a message changing: it goes back to
\* sleep only when there is none, or none it has heard of.
ServerMoves(v, from, to) ==
  /\ ServerGoes(v, from, to) /\ to \in ServerLabel
  /\ to = "sleep" => queue = <<>> \/ (from = "events" /\ ~new_message)
  /\ from = "sleep" => to = "events"
  /\ from = "events" => to \in {"sleep", "peek"}
  /\ to = "events" => from = "sleep"
  /\ told => told' \/ to = "events"
  /\ new_message => new_message' \/ to \notin {"sleep", "events"}
  /\ new_message' \in BOOLEAN /\ told' \in BOOLEAN
  /\ notify_enabled' = notify_enabled \/ (notify_enabled' = TRUE /\ to \notin {"sleep", "events"})
  /\ UNCHANGED <<queue, spc, sent, outcome, events_due, indications_due, agreed>>
  /\ mstate' \in [Sender -> MessageState]
  /\ \A s \in Sender :
       \/ mstate'[s] = mstate[s]
       \/ mstate'[s] = "RETRIEVED" /\ mstate[s] \in {"QUEUED", "RETRIEVED"}

\* Such a step keeps the invariant.
LEMMA ServerStep ==
  ASSUME ReqfwdInv, NEW v \in Server, NEW from, NEW to, ServerMoves(v, from, to)
  PROVE  ReqfwdInv'
<1> USE DEF ServerMoves
<1>0. /\ vpc[v] = from /\ vpc' = [vpc EXCEPT ![v] = to] /\ vpc \in [Server -> ServerLabel]
      /\ queue \in Seq(Sender) /\ notify_enabled \in BOOLEAN
  BY DEF ServerGoes, ReqfwdInv, ReqfwdTypes
<1>s. vpc'[v] = to /\ \A w \in Server : w # v => vpc'[w] = vpc[w]
  BY <1>0
<1>1. ReqfwdTypes'
  BY <1>0 DEF ReqfwdInv, ReqfwdTypes
<1>2. QueueIsWaiting'
  <2>1. \A i \in 1 .. Len(queue) : queue[i] \in Sender
    BY <1>0
  <2> QED
    BY <2>1 DEF ReqfwdInv, QueueIsWaiting
<1>3. AgreedIsAnswered'
  BY DEF ReqfwdInv, AgreedIsAnswered, MessageOf
<1>4. NewsIsOnItsWay'
  <2> SUFFICES ASSUME queue # <<>>, notify_enabled', \A w \in Server : vpc'[w] \in {"sleep", "events"}
               PROVE  \/ \E s \in Sender : spc[s] = "notify"
                      \/ /\ new_message'
                         /\ \/ told'
                            \/ \E w \in Server : vpc'[w] = "events"
                            \/ \E s \in Sender : spc[s] = "due"
                            \/ events_due /\ (indications_due \/ \E s \in Sender :
                                 spc[s] \in {"indications", "indicate", "last_indicate"})
    BY <1>0 DEF NewsIsOnItsWay
  <2>1. notify_enabled /\ to \in {"sleep", "events"} /\ from \in {"sleep", "events"}
    BY <1>s
  <2>2. \A w \in Server : vpc[w] \in {"sleep", "events"}
    BY <1>0, <1>s, <2>1
  <2>3. \/ \E s \in Sender : spc[s] = "notify"
        \/ /\ new_message
           /\ \/ told
              \/ \E w \in Server : vpc[w] = "events"
              \/ \E s \in Sender : spc[s] = "due"
              \/ events_due /\ (indications_due \/ \E s \in Sender :
                                  spc[s] \in {"indications", "indicate", "last_indicate"})
    BY <2>1, <2>2 DEF ReqfwdInv, NewsIsOnItsWay
  <2>4. CASE to = "events"
    BY <1>s, <2>3, <2>4, <2>1
  <2>5. CASE to = "sleep" /\ ~new_message
    BY <2>3, <2>5
  <2> QED
    BY <2>1, <2>4, <2>5
<1> QED
  BY <1>1, <1>2, <1>3, <1>4 DEF ReqfwdInv

\* reqfwd_complete(): the message at the head, which is in the queue only there, has
\* its answer; a server sleeps when no message is left.
LEMMA CompleteStep ==
  ASSUME ReqfwdInv, NEW v \in Server, ReqfwdComplete(v)
  PROVE  ReqfwdInv'
<1> DEFINE s == Head(queue)
<1>0. /\ queue # <<>> /\ mstate[s] = "RETRIEVED" /\ vpc[v] = "complete"
      /\ vpc' = [vpc EXCEPT ![v] = IF Len(queue) > 1 THEN "retrieve" ELSE "sleep"]
      /\ queue' = Tail(queue) /\ agreed' = MessageOf(s)
      /\ \E k \in {"COMPLETED", "FAILED"} : mstate' = [mstate EXCEPT ![s] = k]
      /\ UNCHANGED <<spc, sent, outcome, notify_enabled, new_message, events_due,
                     indications_due, told>>
  BY DEF ReqfwdComplete, ServerGoes, senderVars, flagVars
<1>1. /\ s \in Sender /\ s = queue[1] /\ Len(queue) \in Nat \ {0}
      /\ queue' \in Seq(Sender) /\ Len(queue') = Len(queue) - 1
      /\ \A i \in 1 .. Len(queue') : queue'[i] = queue[i + 1]
  BY <1>0, HeadTailProperties, LenProperties DEF ReqfwdInv, ReqfwdTypes
<1> HIDE DEF s
<1>2. ReqfwdTypes'
  BY <1>0, <1>1 DEF ReqfwdInv, ReqfwdTypes, ServerLabel, MessageState
<1>3. QueueIsWaiting'
  <2>1. \A i, j \in 1 .. Len(queue) : queue[i] = queue[j] => i = j
    BY DEF ReqfwdInv, QueueIsWaiting
  <2>2. ASSUME NEW i \in 1 .. Len(queue'), NEW j \in 1 .. Len(queue'), queue'[i] = queue'[j]
        PROVE  i = j
    <3>1. i + 1 \in 1 .. Len(queue) /\ j + 1 \in 1 .. Len(queue)
      BY <1>1
    <3>2. queue[i + 1] = queue[j + 1]
      BY <1>1, <2>2
    <3>3. i + 1 = j + 1
      BY <2>1, <3>1, <3>2
    <3> QED
      BY <3>3
  <2>3. \A i \in 1 .. Len(queue') : mstate'[queue'[i]] \in {"QUEUED", "RETRIEVED"}
    <3> TAKE i \in 1 .. Len(queue')
    <3>1. i + 1 \in 1 .. Len(queue) /\ 1 \in 1 .. Len(queue) /\ i + 1 # 1
      BY <1>1
    <3>a. queue'[i] = queue[i + 1]
      BY <1>1
    <3>b. queue[i + 1] # queue[1]
      BY <2>1, <3>1
    <3>c. queue \in Seq(Sender)
      BY DEF ReqfwdInv, ReqfwdTypes
    <3>d. queue[i + 1] \in Sender
      BY <3>1, <3>c, ElementOfSeq
    <3>2. queue'[i] = queue[i + 1] /\ queue[i + 1] # s /\ queue[i + 1] \in Sender
      BY <1>1, <3>a, <3>b, <3>d
    <3>3. mstate[queue[i + 1]] \in {"QUEUED", "RETRIEVED"}
      BY <3>1 DEF ReqfwdInv, QueueIsWaiting
    <3> QED
      BY <1>0, <1>1, <3>2, <3>3 DEF ReqfwdInv, ReqfwdTypes
  <2>4. \A t \in Sender : mstate'[t] \in {"QUEUED", "RETRIEVED"} =>
                            spc'[t] \notin {"idle", "return", "last_indicate"} /\ outcome'[t] # "TIMEOUT"
    BY <1>0, <1>1 DEF ReqfwdInv, ReqfwdTypes, QueueIsWaiting
  <2> QED
    BY <2>2, <2>3, <2>4 DEF QueueIsWaiting
<1>4. AgreedIsAnswered'
  <2>1. outcome[s] # "TIMEOUT" /\ mstate'[s] \in {"COMPLETED", "FAILED"}
    BY <1>0, <1>1 DEF ReqfwdInv, ReqfwdTypes, QueueIsWaiting
  <2>2. \A t \in Sender : agreed' = MessageOf(t)' => t = s
    BY <1>0, <1>1 DEF MessageOf
  <2>3. agreed' = <<s, sent[s]>> /\ sent[s] \in 0 .. sent'[s]
    BY <1>0, <1>1 DEF MessageOf, ReqfwdInv, ReqfwdTypes
  <2> QED
    BY <1>0, <1>1, <2>1, <2>2, <2>3 DEF AgreedIsAnswered
<1>5. NewsIsOnItsWay'
  <2>1. CASE Len(queue) > 1
    BY <1>0, <2>1 DEF ReqfwdInv, ReqfwdTypes, NewsIsOnItsWay
  <2>2. CASE Len(queue) = 1
    <3>1. queue' = <<>>
      BY <1>1, <2>2, EmptySeq
    <3> QED
      BY <3>1 DEF NewsIsOnItsWay
  <2> QED
    BY <1>1, <2>1, <2>2
<1> QED
  BY <1>2, <1>3, <1>4, <1>5 DEF ReqfwdInv

\* Every step keeps it, for any senders, servers and pieces.
LEMMA NextReqfwdInv == ReqfwdInv /\ [ReqfwdNext]_reqfwdVars => ReqfwdInv'
<1> SUFFICES ASSUME ReqfwdInv, [ReqfwdNext]_reqfwdVars PROVE ReqfwdInv'
  OBVIOUS
<1>t. ReqfwdTypes /\ QueueIsWaiting
  BY DEF ReqfwdInv
<1>m. /\ mstate \in [Sender -> MessageState]
      /\ notify_enabled \in BOOLEAN /\ new_message \in BOOLEAN /\ told \in BOOLEAN
  BY <1>t DEF ReqfwdTypes
<1>1. ASSUME NEW s \in Sender, EventsDue(s) PROVE ReqfwdInv'
  <2>1. SenderMoves(s, "due", "indications") \/ SenderMoves(s, "indications", "wait")
    BY <1>t, <1>1 DEF EventsDue, SenderMoves, ReqfwdTypes, serverVars, SenderLabel
  <2> QED
    BY <2>1, SenderStep
<1>2. ASSUME NEW s \in Sender, Indicate(s) PROVE ReqfwdInv'
  <2>1. SenderMoves(s, "wait", "indicate") \/ SenderMoves(s, "return", "last_indicate")
    BY <1>t, <1>2 DEF Indicate, SenderMoves, ReqfwdTypes, serverVars, SenderLabel
  <2> QED
    BY <2>1, SenderStep
<1>3. ASSUME NEW s \in Sender, IndicateChannel(s) PROVE ReqfwdInv'
  <2>1. SenderMoves(s, "indicate", "wait") \/ SenderMoves(s, "last_indicate", "return")
    BY <1>t, <1>3 DEF IndicateChannel, SenderMoves, ReqfwdTypes, serverVars, SenderLabel
  <2> QED
    BY <2>1, SenderStep
<1>4. ASSUME NEW s \in Sender, SendAnswered(s) PROVE ReqfwdInv'
  <2>1. /\ outcome' \in [Sender -> Outcome]
        /\ \A t \in Sender : outcome'[t] = outcome[t] \/ (t = s /\ outcome'[s] # "TIMEOUT")
    BY <1>t, <1>4, OutcomeIsNoTimeout DEF SendAnswered, ReqfwdTypes
  <2>2. SenderMoves(s, "wait", "return")
    BY <1>t, <1>4, <2>1 DEF SendAnswered, SenderMoves, ReqfwdTypes, serverVars, flagVars, SenderLabel
  <2> QED
    BY <2>2, SenderStep
<1>5. ASSUME NEW s \in Sender, SendExpires(s) PROVE ReqfwdInv'
  <2>1. SenderMoves(s, "wait", "expired")
    BY <1>t, <1>5 DEF SendExpires, SenderMoves, ReqfwdTypes, serverVars, flagVars, SenderLabel
  <2> QED
    BY <2>1, SenderStep
<1>6. ASSUME NEW s \in Sender, SendReturns(s) PROVE ReqfwdInv'
  <2>1. SenderMoves(s, "return", "idle")
    BY <1>t, <1>6 DEF SendReturns, SenderMoves, ReqfwdTypes, serverVars, flagVars, SenderLabel
  <2> QED
    BY <2>1, SenderStep
<1>7. ASSUME NEW v \in Server, EnableNotification(v) PROVE ReqfwdInv'
  <2>1. ServerMoves(v, "off", "retrieve")
    BY <1>m, <1>7 DEF EnableNotification, ServerMoves, senderVars, ServerLabel
  <2> QED
    BY <2>1, ServerStep
<1>8. ASSUME NEW v \in Server, TakeInterrupt(v) PROVE ReqfwdInv'
  <2>1. ServerMoves(v, "sleep", "events")
    BY <1>m, <1>8 DEF TakeInterrupt, ServerMoves, senderVars, ServerLabel
  <2> QED
    BY <2>1, ServerStep
<1>9. ASSUME NEW v \in Server, GetEvents(v) PROVE ReqfwdInv'
  <2>1. ServerMoves(v, "events", IF new_message THEN "peek" ELSE "sleep")
    BY <1>m, <1>9 DEF GetEvents, ServerMoves, senderVars, ServerLabel
  <2> QED
    BY <2>1, ServerStep
<1>10. ASSUME NEW v \in Server, ReqfwdPeek(v) PROVE ReqfwdInv'
  <2>1. ServerMoves(v, "peek", IF queue = <<>> THEN "sleep" ELSE "retrieve")
    BY <1>m, <1>10 DEF ReqfwdPeek, ServerMoves, senderVars, flagVars, ServerLabel
  <2> QED
    BY <2>1, ServerStep
<1>11. ASSUME NEW v \in Server, ReqfwdRetrieve(v) PROVE ReqfwdInv'
  <2>1. CASE queue = <<>>
    <3>1. ServerMoves(v, "retrieve", "sleep")
      BY <1>m, <1>11, <2>1
      DEF ReqfwdRetrieve, ServerMoves, senderVars, flagVars, ServerLabel
    <3> QED
      BY <3>1, ServerStep
  <2>2. CASE queue # <<>>
    <3>1. queue[1] \in Sender /\ mstate[queue[1]] \in {"QUEUED", "RETRIEVED"}
      BY <1>t, <2>2 DEF ReqfwdTypes, QueueIsWaiting
    <3>2. mstate' = [mstate EXCEPT ![queue[1]] = "RETRIEVED"]
      BY <1>11, <2>2 DEF ReqfwdRetrieve
    <3>3. /\ mstate' \in [Sender -> MessageState]
          /\ \A s \in Sender :
               \/ mstate'[s] = mstate[s]
               \/ mstate'[s] = "RETRIEVED" /\ mstate[s] \in {"QUEUED", "RETRIEVED"}
      <4> DEFINE s0 == queue[1]
      <4> HIDE DEF s0
      <4>1. /\ s0 \in Sender /\ mstate[s0] \in {"QUEUED", "RETRIEVED"}
            /\ mstate' = [mstate EXCEPT ![s0] = "RETRIEVED"]
        BY <3>1, <3>2 DEF s0
      <4> QED
        BY <1>m, <4>1 DEF MessageState
    <3>4. ServerMoves(v, "retrieve", IF Len(got[v]) + 1 < Pieces THEN "retrieve" ELSE "complete")
      BY <1>m, <1>11, <2>2, <3>3
      DEF ReqfwdRetrieve, ServerMoves, senderVars, flagVars, ServerLabel
    <3> QED
      BY <3>4, ServerStep
  <2> QED
    BY <2>1, <2>2
<1>12. ASSUME NEW v \in Server, ReqfwdNothingToComplete(v) PROVE ReqfwdInv'
  <2>1. ServerMoves(v, "complete", IF queue # <<>> THEN "retrieve" ELSE "sleep")
    BY <1>m, <1>12
    DEF ReqfwdNothingToComplete, ServerMoves, senderVars, flagVars, ServerLabel
  <2> QED
    BY <2>1, ServerStep
<1>13. CASE UNCHANGED reqfwdVars
  BY <1>13
  DEF reqfwdVars, ReqfwdInv, ReqfwdTypes, QueueIsWaiting, AgreedIsAnswered, MessageOf, NewsIsOnItsWay
<1> QED
  BY <1>1, <1>2, <1>3, <1>4, <1>5, <1>6, <1>7, <1>8, <1>9, <1>10, <1>11, <1>12, <1>13,
     SendStep, NotifyStep, GiveUpStep, CompleteStep DEF ReqfwdNext

\* Nothing waits, nobody has been told of anything.
LEMMA InitReqfwdInv == ReqfwdInit => ReqfwdInv
<1> SUFFICES ASSUME ReqfwdInit PROVE ReqfwdInv
  OBVIOUS
<1>1. ReqfwdTypes
  <2>1. queue \in Seq(Sender)
    BY DEF ReqfwdInit
  <2>2. /\ mstate \in [Sender -> MessageState] /\ spc \in [Sender -> SenderLabel]
        /\ sent \in [Sender -> Nat] /\ outcome \in [Sender -> Outcome]
        /\ vpc \in [Server -> ServerLabel]
    BY DEF ReqfwdInit, MessageState, SenderLabel, ServerLabel, Outcome
  <2> QED
    BY <2>1, <2>2 DEF ReqfwdInit, ReqfwdTypes
<1>2. QueueIsWaiting
  BY DEF ReqfwdInit, QueueIsWaiting
<1>3. AgreedIsAnswered
  BY DEF ReqfwdInit, AgreedIsAnswered, MessageOf
<1>4. NewsIsOnItsWay
  BY DEF ReqfwdInit, NewsIsOnItsWay
<1> QED
  BY <1>1, <1>2, <1>3, <1>4 DEF ReqfwdInv

\* Whatever the senders give up and the servers complete late, the two ends agree on
\* what became of a message, and no message waits for a target that sleeps without
\* having been told: for any senders and servers, and messages in any number of
\* pieces.
THEOREM EndsAgree == ReqfwdSpec => [](OutcomesAgree /\ ServerIsTold)
<1>1. ReqfwdInv => OutcomesAgree
  BY DEF ReqfwdInv, AgreedIsAnswered, OutcomesAgree
<1>2. ReqfwdInv => ServerIsTold
  BY DEF ReqfwdInv, NewsIsOnItsWay, ServerIsTold, ServerSleeps
<1> QED
  BY <1>1, <1>2, InitReqfwdInv, NextReqfwdInv, PTL DEF ReqfwdSpec

\* One server, whole messages: what is retrieved is what it is about to complete,
\* and an answer is of the message it answers.
AnswerRecord == [kind : Response \cup {"none"}, of : Seq(Sender \X Nat)]

OursTypes ==
  got \in [Server -> Seq(Sender \X Nat)] /\ answer \in [Sender -> AnswerRecord]

HeldToComplete ==
  /\ \A v \in Server : vpc[v] # "complete" => got[v] = <<>>
  /\ \A s \in Sender : mstate[s] = "RETRIEVED" =>
       /\ Len(queue) > 0 /\ queue[1] = s
       /\ \A v \in Server : vpc[v] = "complete" /\ got[v] = <<MessageOf(s)>>

AnsweredWithOurs ==
  \A s \in Sender : mstate[s] \in {"COMPLETED", "FAILED"} => answer[s].of = <<MessageOf(s)>>

RetrievedIsOurs == OursTypes /\ HeldToComplete /\ AnsweredWithOurs

\* What a server hands back is a kind and the pieces it is about, and so is nothing.
LEMMA AnswerIsRecord ==
  ASSUME NEW kind \in Response \cup {"none"}, NEW of \in Seq(Sender \X Nat)
  PROVE  [kind |-> kind, of |-> of] \in AnswerRecord
BY Zenon DEF AnswerRecord

LEMMA NoAnswerIsAnswer == NoAnswer \in AnswerRecord
<1>1. <<>> \in Seq(Sender \X Nat)
  BY EmptySeq
<1> QED
  BY <1>1, AnswerIsRecord DEF NoAnswer

\* A step of a sender takes no message from the server and no answer from a message.
LEMMA SenderKeepsOurs ==
  ASSUME ReqfwdInv, RetrievedIsOurs, NEW s \in Sender,
         \/ ReqfwdSend(s) \/ ReqfwdNotify(s) \/ EventsDue(s) \/ Indicate(s) \/ IndicateChannel(s)
         \/ SendAnswered(s) \/ SendExpires(s) \/ SendGivesUp(s) \/ SendReturns(s)
  PROVE  RetrievedIsOurs'
<1>t. ReqfwdTypes
  BY DEF ReqfwdInv
<1>1. UNCHANGED <<vpc, got>>
  BY DEF ReqfwdSend, ReqfwdNotify, EventsDue, Indicate, IndicateChannel, SendAnswered, SendExpires,
         SendGivesUp, SendReturns, serverVars
<1>2. CASE ReqfwdSend(s)
  <2>1. /\ sent' = [sent EXCEPT ![s] = sent[s] + 1]
        /\ mstate' = [mstate EXCEPT ![s] = "QUEUED"]
        /\ answer' = [answer EXCEPT ![s] = NoAnswer]
    BY <1>2 DEF ReqfwdSend
  <2>2. \A t \in Sender : t # s => /\ MessageOf(t)' = MessageOf(t)
                                   /\ mstate'[t] = mstate[t] /\ answer'[t] = answer[t]
    BY <1>t, <2>1 DEF RetrievedIsOurs, OursTypes, ReqfwdTypes, MessageOf
  <2>3. mstate'[s] = "QUEUED"
    BY <1>t, <2>1 DEF ReqfwdTypes
  <2>4. NoAnswer \in AnswerRecord
    BY NoAnswerIsAnswer
  <2>5. OursTypes'
    BY <1>1, <2>1, <2>4 DEF RetrievedIsOurs, OursTypes
  <2>6. Len(queue) > 0 => Len(queue') > 0 /\ queue'[1] = queue[1]
    BY <1>t, <1>2 DEF ReqfwdSend, ReqfwdTypes
  <2>7. HeldToComplete'
    <3>1. ASSUME NEW t \in Sender, mstate'[t] = "RETRIEVED"
          PROVE  /\ Len(queue') > 0 /\ queue'[1] = t
                 /\ \A v \in Server : vpc'[v] = "complete" /\ got'[v] = <<MessageOf(t)'>>
      <4>1. t # s /\ mstate[t] = "RETRIEVED" /\ MessageOf(t)' = MessageOf(t)
        BY <2>2, <2>3, <3>1
      <4>2. /\ Len(queue) > 0 /\ queue[1] = t
            /\ \A v \in Server : vpc[v] = "complete" /\ got[v] = <<MessageOf(t)>>
        BY <4>1 DEF RetrievedIsOurs, HeldToComplete
      <4> QED
        BY <1>1, <2>6, <4>1, <4>2
    <3>2. \A v \in Server : vpc'[v] # "complete" => got'[v] = <<>>
      BY <1>1 DEF RetrievedIsOurs, HeldToComplete
    <3> QED
      BY <3>1, <3>2 DEF HeldToComplete
  <2>8. AnsweredWithOurs'
    BY <2>2, <2>3 DEF RetrievedIsOurs, AnsweredWithOurs
  <2> QED
    BY <2>5, <2>7, <2>8 DEF RetrievedIsOurs
<1>3. CASE ~ReqfwdSend(s)
  <2>1. UNCHANGED <<sent, answer>>
    BY <1>3 DEF ReqfwdNotify, EventsDue, Indicate, IndicateChannel, SendAnswered, SendExpires,
                SendGivesUp, SendReturns
  <2>2. \/ mstate' = mstate /\ queue' = queue
        \/ mstate' = [mstate EXCEPT ![s] = "none"] /\ queue' = Unlink(s)
    BY <1>3 DEF ReqfwdNotify, EventsDue, Indicate, IndicateChannel, SendAnswered, SendExpires,
                SendGivesUp, SendReturns
  <2>3. \A t \in Sender : mstate'[t] = mstate[t] \/ mstate'[t] = "none"
    BY <1>t, <2>2 DEF ReqfwdTypes
  <2>4. ASSUME NEW t \in Sender, mstate'[t] = "RETRIEVED"
        PROVE  Len(queue') > 0 /\ queue'[1] = t
    <3>1. mstate[t] = "RETRIEVED" /\ Len(queue) > 0 /\ queue[1] = t
      BY <2>3, <2>4 DEF RetrievedIsOurs, HeldToComplete
    <3>2. CASE queue' = queue
      BY <3>1, <3>2
    <3>3. CASE mstate' = [mstate EXCEPT ![s] = "none"] /\ queue' = Unlink(s)
      <4>1. t # s
        BY <1>t, <2>4, <3>3 DEF ReqfwdTypes
      <4>2. queue \in Seq(Sender) /\ \A i, j \in 1 .. Len(queue) : queue[i] = queue[j] => i = j
        BY DEF ReqfwdInv, ReqfwdTypes, QueueIsWaiting
      <4> QED
        BY <3>1, <3>3, <4>1, <4>2, UnlinkTakesOut
    <3> QED
      BY <2>2, <3>2, <3>3
  <2>5. OursTypes'
    BY <1>1, <2>1 DEF RetrievedIsOurs, OursTypes
  <2>6. \A t \in Sender : MessageOf(t)' = MessageOf(t)
    BY <2>1 DEF MessageOf
  <2>7. HeldToComplete'
    <3>1. \A v \in Server : vpc'[v] # "complete" => got'[v] = <<>>
      BY <1>1 DEF RetrievedIsOurs, HeldToComplete
    <3>2. ASSUME NEW t \in Sender, mstate'[t] = "RETRIEVED", NEW v \in Server
          PROVE  vpc'[v] = "complete" /\ got'[v] = <<MessageOf(t)'>>
      <4>1. mstate[t] = "RETRIEVED"
        BY <2>3, <3>2
      <4> QED
        BY <1>1, <2>6, <4>1 DEF RetrievedIsOurs, HeldToComplete
    <3> QED
      BY <2>4, <3>1, <3>2 DEF HeldToComplete
  <2>8. AnsweredWithOurs'
    BY <2>1, <2>3, <2>6 DEF RetrievedIsOurs, AnsweredWithOurs
  <2> QED
    BY <2>5, <2>7, <2>8 DEF RetrievedIsOurs
<1> QED
  BY <1>2, <1>3

\* Nor does a step of the server: it retrieves when it holds nothing, and completes
\* only what it has retrieved.
LEMMA ServerKeepsOurs ==
  ASSUME Pieces = 1, \A v, w \in Server : v = w, ReqfwdInv, RetrievedIsOurs, NEW v \in Server,
         \/ EnableNotification(v) \/ TakeInterrupt(v) \/ GetEvents(v) \/ ReqfwdPeek(v)
         \/ ReqfwdRetrieve(v) \/ ReqfwdComplete(v) \/ ReqfwdNothingToComplete(v)
  PROVE  RetrievedIsOurs'
<1>t. ReqfwdTypes
  BY DEF ReqfwdInv
<1>1. CASE EnableNotification(v) \/ TakeInterrupt(v) \/ GetEvents(v) \/ ReqfwdPeek(v)
  <2>1. /\ vpc[v] # "complete" /\ vpc' \in [Server -> ServerLabel] /\ vpc'[v] # "complete"
        /\ UNCHANGED <<queue, mstate, answer, sent, got>>
    BY <1>t, <1>1 DEF ReqfwdTypes, EnableNotification, TakeInterrupt, GetEvents, ReqfwdPeek,
                      ServerGoes, senderVars, ServerLabel
  <2> QED
    BY <2>1 DEF RetrievedIsOurs, OursTypes, HeldToComplete, AnsweredWithOurs, MessageOf
<1>2. CASE ReqfwdRetrieve(v) /\ queue = <<>>
  <2>1. /\ vpc[v] = "retrieve" /\ vpc' \in [Server -> ServerLabel] /\ vpc'[v] = "sleep"
        /\ got' = [got EXCEPT ![v] = <<>>]
        /\ UNCHANGED <<queue, mstate, answer, sent>>
    BY <1>t, <1>2 DEF ReqfwdTypes, ReqfwdRetrieve, ServerGoes, senderVars, ServerLabel
  <2>2. got' = got
    BY <2>1 DEF RetrievedIsOurs, OursTypes, HeldToComplete, AnsweredWithOurs
  <2> QED
    BY <2>1, <2>2 DEF RetrievedIsOurs, OursTypes, HeldToComplete, AnsweredWithOurs, MessageOf
<1>3. CASE ReqfwdRetrieve(v) /\ queue # <<>>
  <2> DEFINE s == queue[1]
  <2>1. vpc[v] = "retrieve" /\ got[v] = <<>> /\ s \in Sender
    <3>1. queue \in Seq(Sender) /\ Len(queue) > 0
      BY <1>t, <1>3, EmptySeq DEF ReqfwdTypes
    <3>2. s \in Sender
      BY <3>1, LenProperties, ElementOfSeq
    <3>3. vpc[v] = "retrieve"
      BY <1>3 DEF ReqfwdRetrieve, ServerGoes
    <3> QED
      BY <3>2, <3>3 DEF RetrievedIsOurs, HeldToComplete
  <2>2. /\ vpc' \in [Server -> ServerLabel] /\ vpc'[v] = "complete"
        /\ got' = [got EXCEPT ![v] = <<MessageOf(s)>>]
        /\ mstate' = [mstate EXCEPT ![s] = "RETRIEVED"]
        /\ UNCHANGED <<queue, answer, sent>>
    <3>1. Len(got[v]) + 1 = 1 /\ Append(got[v], MessageOf(s)) = <<MessageOf(s)>>
      <4>1. Len(<<>>) + 1 = 1 /\ Append(<<>>, MessageOf(s)) = <<MessageOf(s)>>
        OBVIOUS
      <4> QED
        BY <2>1, <4>1
    <3>2. /\ vpc' = [vpc EXCEPT ![v] = IF Len(got[v]) + 1 < Pieces THEN "retrieve" ELSE "complete"]
          /\ got' = [got EXCEPT ![v] = Append(got[v], MessageOf(s))]
          /\ mstate' = [mstate EXCEPT ![s] = "RETRIEVED"]
          /\ UNCHANGED <<queue, answer, sent>>
      BY <1>3 DEF ReqfwdRetrieve, ServerGoes, senderVars
    <3>a. (IF Len(got[v]) + 1 < Pieces THEN "retrieve" ELSE "complete") = "complete"
      BY <3>1
    <3>3. vpc' = [vpc EXCEPT ![v] = "complete"]
      BY <3>2, <3>a, Zenon
    <3>4. vpc' \in [Server -> ServerLabel] /\ vpc'[v] = "complete"
      BY <1>t, <3>3 DEF ReqfwdTypes, ServerLabel
    <3> QED
      BY <3>1, <3>2, <3>4
  <2>3. MessageOf(s) \in Sender \X Nat
    BY <1>t, <2>1 DEF ReqfwdTypes, MessageOf
  <2> HIDE DEF s
  <2>4. got' \in [Server -> Seq(Sender \X Nat)] /\ got'[v] = <<MessageOf(s)>>
    <3>1. <<MessageOf(s)>> \in Seq(Sender \X Nat)
      BY <2>3
    <3> HIDE DEF MessageOf
    <3> QED
      BY <2>2, <3>1 DEF RetrievedIsOurs, OursTypes
  <2>5. /\ \A t \in Sender : mstate[t] # "RETRIEVED"
        /\ \A t \in Sender : t # s => mstate'[t] = mstate[t]
        /\ mstate'[s] = "RETRIEVED"
    BY <1>t, <2>1, <2>2 DEF RetrievedIsOurs, OursTypes, HeldToComplete, AnsweredWithOurs, ReqfwdTypes
  <2>6. \A t \in Sender : MessageOf(t)' = MessageOf(t)
    BY <2>2 DEF MessageOf
  <2>7. Len(queue) > 0 /\ queue[1] = s
    BY <1>t, <1>3 DEF ReqfwdTypes, s
  <2>8. OursTypes'
    BY <2>2, <2>4 DEF RetrievedIsOurs, OursTypes
  <2>9. HeldToComplete'
    BY <2>2, <2>4, <2>5, <2>6, <2>7 DEF HeldToComplete
  <2>10. AnsweredWithOurs'
    BY <2>2, <2>5, <2>6 DEF RetrievedIsOurs, AnsweredWithOurs
  <2> QED
    BY <2>8, <2>9, <2>10 DEF RetrievedIsOurs
<1>4. CASE ReqfwdComplete(v)
  <2> DEFINE s == Head(queue)
  <2>1. PICK kind \in Response :
          /\ queue # <<>> /\ mstate[s] = "RETRIEVED" /\ vpc[v] = "complete"
          /\ vpc' = [vpc EXCEPT ![v] = IF Len(queue) > 1 THEN "retrieve" ELSE "sleep"]
          /\ mstate' = [mstate EXCEPT ![s] = IF kind = "long" THEN "FAILED" ELSE "COMPLETED"]
          /\ answer' = [answer EXCEPT ![s] = [kind |-> kind, of |-> got[v]]]
          /\ got' = [got EXCEPT ![v] = <<>>]
          /\ UNCHANGED sent
    BY <1>4 DEF ReqfwdComplete, ServerGoes, senderVars
  <2>2. s \in Sender
    BY <1>t, <2>1, HeadTailProperties DEF ReqfwdTypes
  <2> HIDE DEF s
  <2>3. got[v] = <<MessageOf(s)>> /\ got[v] \in Seq(Sender \X Nat)
    BY <2>1, <2>2 DEF RetrievedIsOurs, OursTypes, HeldToComplete, AnsweredWithOurs
  <2>4. vpc'[v] # "complete"
    BY <1>t, <2>1 DEF ReqfwdTypes
  <2>5. got' \in [Server -> Seq(Sender \X Nat)] /\ got'[v] = <<>>
    BY <2>1, EmptySeq DEF RetrievedIsOurs, OursTypes
  <2>6. ASSUME NEW t \in Sender, mstate[t] = "RETRIEVED" PROVE t = s
    <3>1. got[v] = <<MessageOf(t)>>
      BY <2>6 DEF RetrievedIsOurs, HeldToComplete
    <3>2. MessageOf(t) = MessageOf(s)
      BY <2>3, <3>1
    <3> QED
      BY <3>2 DEF MessageOf
  <2>7. \A t \in Sender : mstate'[t] # "RETRIEVED"
    BY <1>t, <2>1, <2>2, <2>6 DEF ReqfwdTypes
  <2>0. [kind |-> kind, of |-> got[v]] \in AnswerRecord
    BY <2>3, AnswerIsRecord
  <2>8. /\ answer' \in [Sender -> AnswerRecord]
        /\ answer'[s].of = <<MessageOf(s)>>
        /\ \A t \in Sender : t # s => answer'[t] = answer[t] /\ mstate'[t] = mstate[t]
    BY <1>t, <2>0, <2>1, <2>2, <2>3 DEF RetrievedIsOurs, OursTypes, ReqfwdTypes
  <2>9. \A t \in Sender : MessageOf(t)' = MessageOf(t)
    BY <2>1 DEF MessageOf
  <2>10. OursTypes'
    BY <2>5, <2>8 DEF OursTypes
  <2>11. HeldToComplete'
    BY <2>5, <2>7 DEF HeldToComplete
  <2>12. AnsweredWithOurs'
    BY <2>8, <2>9 DEF RetrievedIsOurs, AnsweredWithOurs
  <2> QED
    BY <2>10, <2>11, <2>12 DEF RetrievedIsOurs
<1>5. CASE ReqfwdNothingToComplete(v)
  <2>1. /\ vpc[v] = "complete" /\ vpc' \in [Server -> ServerLabel] /\ vpc'[v] # "complete"
        /\ got' = [got EXCEPT ![v] = <<>>]
        /\ UNCHANGED <<queue, mstate, answer, sent>>
    BY <1>t, <1>5 DEF ReqfwdTypes, ReqfwdNothingToComplete, ServerGoes, senderVars, ServerLabel
  <2>2. got' \in [Server -> Seq(Sender \X Nat)] /\ got'[v] = <<>>
    BY <2>1, EmptySeq DEF RetrievedIsOurs, OursTypes
  <2>3. \A t \in Sender : mstate[t] # "RETRIEVED"
    <3>1. Len(queue) > 0 => queue # <<>> /\ Head(queue) = queue[1]
      BY <1>t DEF ReqfwdTypes
    <3>2. queue # <<>> => mstate[Head(queue)] # "RETRIEVED"
      BY <1>5 DEF ReqfwdNothingToComplete
    <3> QED
      BY <3>1, <3>2 DEF RetrievedIsOurs, OursTypes, HeldToComplete, AnsweredWithOurs
  <2> QED
    BY <2>1, <2>2, <2>3 DEF RetrievedIsOurs, OursTypes, HeldToComplete, AnsweredWithOurs, MessageOf
<1> QED
  BY <1>1, <1>2, <1>3, <1>4, <1>5

\* With one server that retrieves messages whole, a message is answered with its own
\* response and no other's, and the two ends agree on it: a sender that gives up and
\* sends again, and a completion that comes late, change nothing about that.
THEOREM ForwardsExactly ==
  ASSUME Pieces = 1, \A v, w \in Server : v = w
  PROVE  ReqfwdSpec => []ForwardingIsExact
<1>1. ReqfwdInit => RetrievedIsOurs
  <2> SUFFICES ASSUME ReqfwdInit PROVE RetrievedIsOurs
    OBVIOUS
  <2>1. NoAnswer \in AnswerRecord
    BY NoAnswerIsAnswer
  <2>2. answer \in [Sender -> AnswerRecord]
    BY <2>1 DEF ReqfwdInit
  <2> QED
    BY <2>2 DEF ReqfwdInit, RetrievedIsOurs, OursTypes, HeldToComplete, AnsweredWithOurs
<1>2. ReqfwdInv /\ RetrievedIsOurs /\ [ReqfwdNext]_reqfwdVars => RetrievedIsOurs'
  <2>1. ASSUME ReqfwdInv, RetrievedIsOurs, ReqfwdNext PROVE RetrievedIsOurs'
    BY <2>1, SenderKeepsOurs, ServerKeepsOurs DEF ReqfwdNext
  <2>2. ASSUME RetrievedIsOurs, UNCHANGED reqfwdVars PROVE RetrievedIsOurs'
    BY <2>2 DEF RetrievedIsOurs, OursTypes, HeldToComplete, AnsweredWithOurs, reqfwdVars, MessageOf
  <2> QED
    BY <2>1, <2>2
<1>3. RetrievedIsOurs => ResponseIsOurs
  BY DEF RetrievedIsOurs, OursTypes, HeldToComplete, AnsweredWithOurs, ResponseIsOurs, Range
<1>4. ReqfwdSpec => [](ReqfwdInv /\ RetrievedIsOurs)
  BY <1>1, <1>2, InitReqfwdInv, NextReqfwdInv, PTL DEF ReqfwdSpec
<1> QED
  BY <1>3, <1>4, EndsAgree, PTL DEF ForwardingIsExact
================================================================================
