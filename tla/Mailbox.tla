------------------------------- MODULE Mailbox -------------------------------
(***************************************************************************)
(* What the message queues of the channels promise to a key whose traffic   *)
(* does not pause (app/channels/unified_queue_manager.py), without queue    *)
(* objects, consumer tasks, dictionary and cleanup loop: one mailbox per    *)
(* key.  What is waiting in it is taken as one batch, while no other batch  *)
(* of the key is being processed, or it is cleared; it is never lost, never *)
(* taken twice, and there is never more of it than the capacity.            *)
(*                                                                         *)
(* stop_all first turns away what has not arrived; from the cancellation    *)
(* of the consumers on nothing is promised but that messages do not go      *)
(* back.                                                                    *)
(***************************************************************************)
EXTENDS Integers, FiniteSets

CONSTANTS
    Keys,
    Msgs,       \* pool of messages
    Capacity,   \* of a mailbox
    NoKey

VARIABLES
    mail,       \* where each message stands
    to,         \* the key it was sent to
    busy,       \* a batch of the key is being processed
    stage       \* open, closing, closed

vars == <<mail, to, busy, stage>>

Init ==
    /\ mail = [m \in Msgs |-> "unsent"]
    /\ to = [m \in Msgs |-> NoKey]
    /\ busy = [k \in Keys |-> FALSE]
    /\ stage = "open"

Waiting(k) == {m \in Msgs : mail[m] = "waiting" /\ to[m] = k}

Full(k) == Cardinality(Waiting(k)) >= Capacity

Serving == stage # "closed"

Send(m, k) ==
    /\ Serving /\ mail[m] = "unsent"
    /\ mail' = [mail EXCEPT ![m] = "sent"]
    /\ to' = [to EXCEPT ![m] = k]
    /\ UNCHANGED <<busy, stage>>

(* A message to a key for which nothing is promised.                        *)
SendElsewhere(m) ==
    /\ Serving /\ mail[m] = "unsent"
    /\ mail' = [mail EXCEPT ![m] = "elsewhere"]
    /\ UNCHANGED <<to, busy, stage>>

Arrive(m) ==
    /\ Serving /\ mail[m] = "sent" /\ ~Full(to[m])
    /\ mail' = [mail EXCEPT ![m] = "waiting"]
    /\ UNCHANGED <<to, busy, stage>>

(* Only a full mailbox turns a message away.                                *)
GiveUp(m) ==
    /\ Serving /\ mail[m] = "sent" /\ Full(to[m])
    /\ mail' = [mail EXCEPT ![m] = "dropped"]
    /\ UNCHANGED <<to, busy, stage>>

Empty(k, fate) ==
    /\ Waiting(k) # {}
    /\ mail' = [m \in Msgs |-> IF m \in Waiting(k) THEN fate ELSE mail[m]]
    /\ UNCHANGED <<to, stage>>

Take(k) ==
    /\ Serving /\ ~busy[k]
    /\ Empty(k, "handled")
    /\ busy' = [busy EXCEPT ![k] = TRUE]

Finish(k) ==
    /\ Serving /\ busy[k]
    /\ busy' = [busy EXCEPT ![k] = FALSE]
    /\ UNCHANGED <<mail, to, stage>>

Clear(k) ==
    /\ Serving
    /\ Empty(k, "dropped")
    /\ UNCHANGED busy

StartClosing ==
    /\ stage = "open"
    /\ stage' = "closing"
    /\ mail' = [m \in Msgs |-> IF mail[m] = "sent" THEN "dropped" ELSE mail[m]]
    /\ UNCHANGED <<to, busy>>

Close ==
    /\ stage = "closing"
    /\ stage' = "closed"
    /\ UNCHANGED <<mail, to, busy>>

(* What may become of a message.                                            *)
Onward(s) ==
    CASE s = "unsent" -> {"sent", "elsewhere"}
      [] s = "sent" -> {"waiting", "dropped"}
      [] s = "waiting" -> {"handled", "dropped"}
      [] OTHER -> {}

Aftermath ==
    /\ stage = "closed" /\ stage' = "closed"
    /\ \A m \in Msgs : mail'[m] # mail[m] => mail'[m] \in Onward(mail[m])
    /\ \A m \in Msgs : mail[m] # "unsent" => to'[m] = to[m]

Next ==
    \/ \E m \in Msgs :
        \/ \E k \in Keys : Send(m, k)
        \/ SendElsewhere(m) \/ Arrive(m) \/ GiveUp(m)
    \/ \E k \in Keys : Take(k) \/ Finish(k) \/ Clear(k)
    \/ StartClosing \/ Close \/ Aftermath

Spec == Init /\ [][Next]_vars
==============================================================================
