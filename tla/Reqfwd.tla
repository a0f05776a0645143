--------------------------------- MODULE Reqfwd ---------------------------------
(***************************************************************************)
(* Requests forwarded from a domain to another that has harts of its own:  *)
(* the queue of services/mpxy/reqfwd.c, whose messages live on the stacks  *)
(* of the harts that wait for them, the REQUEST_FORWARD and                *)
(* MANAGEMENT_MODE channels on both sides of it (mpxy_rpmi_fw.c), and the  *)
(* flags that have the target domain told (mpxy.c).                        *)
(*                                                                         *)
(* What the queue's lock covers is one step; m.state, the flags and the    *)
(* timer are read without it.  The target domain works the way the         *)
(* channel is meant to be used: it looks for an event when it is told of   *)
(* one, retrieves a message piece by piece, completes it, and goes on      *)
(* while messages are left.                                                *)
(***************************************************************************)
EXTENDS Naturals, Sequences, SequencesExt

CONSTANTS Sender,       \* harts that send MM_COMMUNICATE
          Server,       \* harts of the target domain
          Pieces,       \* the pieces a message is retrieved in
          MaxSends      \* bound: the messages a hart sends

ASSUME ReqfwdAssumption ==
  /\ Pieces \in Nat \ {0}
  /\ MaxSends \in Nat \ {0}

VARIABLES queue,        \* the senders whose messages wait, oldest first
          mstate,       \* [Sender -> the state of its message]
          answer,       \* [Sender -> the response: its kind, and whose it is]
          spc,          \* [Sender -> what it is about to do]
          sent,         \* [Sender -> the messages it has sent]
          outcome,      \* [Sender -> what MM_COMMUNICATE returned]
          vpc,          \* [Server -> what it is about to do]
          got,          \* [Server -> the messages its pieces are of]
          notify_enabled, new_message, events_due, indications_due,
          told,         \* an interrupt that the target domain has not taken
          agreed        \* the message last completed, with the server's result

reqfwdVars == <<queue, mstate, answer, spc, sent, outcome, vpc, got, notify_enabled,
                new_message, events_due, indications_due, told, agreed>>
flagVars == <<notify_enabled, new_message, events_due, indications_due, told>>
senderVars == <<spc, sent, outcome>>
serverVars == <<vpc, got>>

\* A response that fits, one too short or that claims too much, one too long.
Response == {"good", "bad", "long"}
NoAnswer == [kind |-> "none", of |-> <<>>]
\* The message sender s waits for.
MessageOf(s) == <<s, sent[s]>>
ServerSleeps == \A v \in Server : vpc[v] = "sleep"

ReqfwdInit ==
  /\ queue = <<>>
  /\ mstate = [s \in Sender |-> "none"]
  /\ answer = [s \in Sender |-> NoAnswer]
  /\ spc = [s \in Sender |-> "idle"]
  /\ sent = [s \in Sender |-> 0]
  /\ outcome = [s \in Sender |-> "none"]
  /\ vpc = [v \in Server |-> "off"]
  /\ got = [v \in Server |-> <<>>]
  /\ notify_enabled = FALSE /\ new_message = FALSE
  /\ events_due = FALSE /\ indications_due = FALSE
  /\ told = FALSE
  /\ agreed = <<>>

SenderGoes(s, from, to) == spc[s] = from /\ spc' = [spc EXCEPT ![s] = to]
-------------------------------------------------------------------------------
(* The sending hart *)

\* mm_service() up to reqfwd_send()'s lock section: the server is told when the
\* queue was empty.
ReqfwdSend(s) ==
  /\ sent[s] < MaxSends
  /\ SenderGoes(s, "idle", IF queue = <<>> THEN "notify" ELSE "wait")
  /\ sent' = [sent EXCEPT ![s] = @ + 1]
  /\ queue' = Append(queue, s)
  /\ mstate' = [mstate EXCEPT ![s] = "QUEUED"]
  /\ answer' = [answer EXCEPT ![s] = NoAnswer]
  /\ outcome' = [outcome EXCEPT ![s] = "none"]
  /\ UNCHANGED <<serverVars, flagVars, agreed>>

\* reqfwd_notify(), then the two stores of mpxy_channel_events_due().
ReqfwdNotify(s) ==
  /\ SenderGoes(s, "notify", IF notify_enabled THEN "due" ELSE "wait")
  /\ new_message' = (new_message \/ notify_enabled)
  /\ UNCHANGED <<queue, mstate, answer, sent, outcome, serverVars, notify_enabled,
                 events_due, indications_due, told, agreed>>

EventsDue(s) ==
  /\ \/ /\ SenderGoes(s, "due", "indications")
        /\ events_due' = TRUE /\ UNCHANGED indications_due
     \/ /\ SenderGoes(s, "indications", "wait")
        /\ indications_due' = TRUE /\ UNCHANGED events_due
  /\ UNCHANGED <<queue, mstate, answer, sent, outcome, serverVars, notify_enabled,
                 new_message, told, agreed>>

\* mpxy_indicate(), in the wait and on the way out of the trap: a swap of the
\* flag of all channels, then of the channel's own.
Indicate(s) ==
  /\ indications_due
  /\ \/ SenderGoes(s, "wait", "indicate")
     \/ SenderGoes(s, "return", "last_indicate")
  /\ indications_due' = FALSE
  /\ UNCHANGED <<queue, mstate, answer, sent, outcome, serverVars, notify_enabled,
                 new_message, events_due, told, agreed>>

IndicateChannel(s) ==
  /\ \/ SenderGoes(s, "indicate", "wait")
     \/ SenderGoes(s, "last_indicate", "return")
  /\ events_due' = FALSE
  /\ told' = (told \/ events_due)
  /\ UNCHANGED <<queue, mstate, answer, sent, outcome, serverVars, notify_enabled,
                 new_message, indications_due, agreed>>

\* What mm_service() makes of the response; a response in the wrong form, or that
\* claims more than the output area holds, is not passed on.
OutcomeOf(s) ==
  CASE mstate[s] = "FAILED" -> "BAD_RANGE"
    [] mstate[s] = "COMPLETED" /\ answer[s].kind = "good" -> "SUCCESS"
    [] OTHER -> "IO"

\* The wait is over with a response.
SendAnswered(s) ==
  /\ mstate[s] \in {"COMPLETED", "FAILED"}
  /\ SenderGoes(s, "wait", "return")
  /\ outcome' = [outcome EXCEPT ![s] = OutcomeOf(s)]
  /\ UNCHANGED <<queue, mstate, answer, sent, serverVars, flagVars, agreed>>

\* The time is over; the message may be completed before the lock is had.
SendExpires(s) ==
  /\ mstate[s] \in {"QUEUED", "RETRIEVED"}
  /\ SenderGoes(s, "wait", "expired")
  /\ UNCHANGED <<queue, mstate, answer, sent, outcome, serverVars, flagVars, agreed>>

\* unlink(): out of the queue, wherever it is.
Unlink(s) == RemoveFirst(queue, s)

\* A bug to tell apart: the state from before the lock is what counts.
GiveUpStale(s) ==
  /\ SenderGoes(s, "expired", "return")
  /\ queue' = Unlink(s)
  /\ mstate' = [mstate EXCEPT ![s] = "none"]
  /\ outcome' = [outcome EXCEPT ![s] = "TIMEOUT"]
  /\ UNCHANGED <<answer, sent, serverVars, flagVars, agreed>>

\* The lock section of the timeout: unlink(), unless there is an answer.
SendGivesUp(s) ==
  /\ SenderGoes(s, "expired", "return")
  /\ IF mstate[s] \in {"QUEUED", "RETRIEVED"}
       THEN /\ queue' = Unlink(s)
            /\ mstate' = [mstate EXCEPT ![s] = "none"]
            /\ outcome' = [outcome EXCEPT ![s] = "TIMEOUT"]
       ELSE /\ outcome' = [outcome EXCEPT ![s] = OutcomeOf(s)]
            /\ UNCHANGED <<queue, mstate>>
  /\ UNCHANGED <<answer, sent, serverVars, flagVars, agreed>>

\* The trap returns to S-mode: nothing was due.
SendReturns(s) ==
  /\ ~indications_due
  /\ SenderGoes(s, "return", "idle")
  /\ UNCHANGED <<queue, mstate, answer, sent, outcome, serverVars, flagVars, agreed>>
-------------------------------------------------------------------------------
(* The harts of the target domain *)

ServerGoes(v, from, to) == vpc[v] = from /\ vpc' = [vpc EXCEPT ![v] = to]

\* enable_notification(); what came before it is looked for.
EnableNotification(v) ==
  /\ ServerGoes(v, "off", "retrieve")
  /\ notify_enabled' = TRUE
  /\ UNCHANGED <<queue, mstate, answer, senderVars, got, new_message, events_due,
                 indications_due, told, agreed>>

\* The interrupt; fw_get_events() swaps the flag, then looks at the queue.
TakeInterrupt(v) ==
  /\ told
  /\ told' = FALSE
  /\ ServerGoes(v, "sleep", "events")
  /\ UNCHANGED <<queue, mstate, answer, senderVars, got, notify_enabled, new_message,
                 events_due, indications_due, agreed>>

GetEvents(v) ==
  /\ ServerGoes(v, "events", IF new_message THEN "peek" ELSE "sleep")
  /\ new_message' = FALSE
  /\ UNCHANGED <<queue, mstate, answer, senderVars, got, notify_enabled, events_due,
                 indications_due, told, agreed>>

ReqfwdPeek(v) ==
  /\ ServerGoes(v, "peek", IF queue = <<>> THEN "sleep" ELSE "retrieve")
  /\ UNCHANGED <<queue, mstate, answer, senderVars, got, flagVars, agreed>>

\* reqfwd_retrieve() of the next piece of the current message, whichever that is.
ReqfwdRetrieve(v) ==
  \/ /\ queue = <<>>
     /\ ServerGoes(v, "retrieve", "sleep")
     /\ got' = [got EXCEPT ![v] = <<>>]
     /\ UNCHANGED <<queue, mstate, answer, senderVars, flagVars, agreed>>
  \/ /\ queue # <<>>
     /\ ServerGoes(v, "retrieve", IF Len(got[v]) + 1 < Pieces THEN "retrieve" ELSE "complete")
     /\ got' = [got EXCEPT ![v] = Append(@, MessageOf(queue[1]))]
     /\ mstate' = [mstate EXCEPT ![queue[1]] = "RETRIEVED"]
     /\ UNCHANGED <<queue, answer, senderVars, flagVars, agreed>>

\* reqfwd_complete(): the current message, if it was retrieved.
ReqfwdComplete(v) ==
  \E kind \in Response :
    /\ queue # <<>> /\ mstate[Head(queue)] = "RETRIEVED"
    /\ ServerGoes(v, "complete", IF Len(queue) > 1 THEN "retrieve" ELSE "sleep")
    /\ queue' = Tail(queue)
    /\ mstate' = [mstate EXCEPT ![Head(queue)] = IF kind = "long" THEN "FAILED" ELSE "COMPLETED"]
    /\ answer' = [answer EXCEPT ![Head(queue)] = [kind |-> kind, of |-> got[v]]]
    /\ agreed' = MessageOf(Head(queue))
    /\ got' = [got EXCEPT ![v] = <<>>]
    /\ UNCHANGED <<senderVars, flagVars>>

ReqfwdNothingToComplete(v) ==
  /\ queue # <<>> => mstate[Head(queue)] # "RETRIEVED"
  /\ ServerGoes(v, "complete", IF queue # <<>> THEN "retrieve" ELSE "sleep")
  /\ got' = [got EXCEPT ![v] = <<>>]
  /\ UNCHANGED <<queue, mstate, answer, senderVars, flagVars, agreed>>

ReqfwdNext ==
  \/ \E s \in Sender :
       \/ ReqfwdSend(s) \/ ReqfwdNotify(s) \/ EventsDue(s)
       \/ Indicate(s) \/ IndicateChannel(s)
       \/ SendAnswered(s) \/ SendExpires(s) \/ SendGivesUp(s) \/ SendReturns(s)
  \/ \E v \in Server :
       \/ EnableNotification(v) \/ TakeInterrupt(v) \/ GetEvents(v) \/ ReqfwdPeek(v)
       \/ ReqfwdRetrieve(v) \/ ReqfwdComplete(v) \/ ReqfwdNothingToComplete(v)

ReqfwdSpec == ReqfwdInit /\ [][ReqfwdNext]_reqfwdVars
-------------------------------------------------------------------------------
(* Properties *)

\* A message that is answered is answered with what was retrieved of it and of
\* no other: neither a late completion nor a retrieval that goes on reaches the
\* message behind one that was given up (reqfwd_complete(), reqfwd_retrieve()).
ResponseIsOurs ==
  \A s \in Sender :
    mstate[s] \in {"COMPLETED", "FAILED"} => Range(answer[s].of) = {MessageOf(s)}

\* The two ends agree: a message that the target completed is not one that its
\* sender takes for timed out, however late the completion was (the lock section
\* of reqfwd_send()'s timeout).
OutcomesAgree ==
  \A s \in Sender :
    agreed = MessageOf(s) => outcome[s] # "TIMEOUT"

\* A message is not left to a target that was never told: while the target waits
\* with notifications on, a message in the queue has its interrupt pending, or
\* flags set that a hart on its way through mpxy_indicate() finds.
ServerIsTold ==
  (queue # <<>> /\ notify_enabled /\ ServerSleeps /\ ~told) =>
    \/ \E s \in Sender : spc[s] \in {"notify", "due", "indications"}
    \/ events_due /\ (indications_due \/ \E s \in Sender : spc[s] \in {"indicate", "last_indicate"})

\* Forwarding is exact: a message reaches a target that knows of it, is answered with its
\* own response, and both ends agree on what became of it.
ForwardingIsExact == ResponseIsOurs /\ OutcomesAgree /\ ServerIsTold
================================================================================
