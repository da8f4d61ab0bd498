-------------------------- MODULE WebhookDelivery --------------------------
(***************************************************************************)
(* Webhooks: the relay turns committed outbox rows into deliveries, one    *)
(* per subscribed endpoint, in one transaction; the dispatcher claims due  *)
(* deliveries, sends each one and records the outcome, in a transaction of *)
(* its own after the send.  The claim's row locks end with the claim, so   *)
(* two dispatchers may hold one delivery, and both send it.                *)
(*                                                                         *)
(* Relay and dispatcher are two loops of a worker process.  Time is        *)
(* abstracted to whether a delivery is due.                                *)
(***************************************************************************)
EXTENDS Naturals, Sequences, FiniteSets

CONSTANTS
    Workers,       \* worker processes
    Events,        \* outbox rows with a public topic, of one project
    Hooks,         \* endpoints subscribed to it
    MaxAttempts,
    DisableAfter,  \* DisableAfterFailures
    MaxReplays,    \* bound: manual replays
    MaxFails       \* bound: failed transactions, crashes of workers, and secrets
                   \* that cannot be unwrapped

ASSUME LimitsAssumption == MaxAttempts \in Nat \ {0} /\ DisableAfter \in Nat \ {0}
ASSUME BoundsAssumption == MaxReplays \in Nat /\ MaxFails \in Nat

Deliveries == Events \X Hooks

VARIABLES
    outbox,    \* [Events -> "none", "queued" or "sent"]
    relay,     \* [Workers -> the rows the relay's transaction locked, its inserts]
    queued,    \* [Deliveries -> how often a delivery row was inserted]
    status,    \* deliveries.status, "absent" without a row
    attempt,   \* deliveries.attempt
    due,       \* the deliveries whose next_attempt_at has come
    sends,     \* [Deliveries -> requests the receiver was sent]
    doubled,   \* history: those of a dispatcher that claimed the delivery while
               \* another one held it
    hook,      \* [Hooks -> "on", "disabled" or "deleted"]
    failures,  \* webhooks.consecutive_failures
    finals,    \* [Hooks -> recorded outcomes that end a delivery, in order]
    claimed,   \* [Workers -> the claimed deliveries with their attempt, and
               \* (history) whether another dispatcher held them]
    sent,      \* [Workers -> the send that waits to be recorded, if any]
    replays, fails

queue == <<outbox, relay, queued>>
requests == <<sends, doubled>>
endpoints == <<hook, failures, finals>>
vars == <<queue, status, attempt, due, requests, endpoints, claimed, sent, replays, fails>>

IdleRelay == [open |-> FALSE, locked |-> {}, todo |-> {}, inserts |-> {}]

Init ==
    /\ outbox = [e \in Events |-> "none"]
    /\ relay = [w \in Workers |-> IdleRelay]
    /\ queued = [d \in Deliveries |-> 0]
    /\ status = [d \in Deliveries |-> "absent"]
    /\ attempt = [d \in Deliveries |-> 0]
    /\ due = {}
    /\ sends = [d \in Deliveries |-> 0]
    /\ doubled = [d \in Deliveries |-> 0]
    /\ hook = [h \in Hooks |-> "on"]
    /\ failures = [h \in Hooks |-> 0]
    /\ finals = [h \in Hooks |-> <<>>]
    /\ claimed = [w \in Workers |-> {}]
    /\ sent = [w \in Workers |-> {}]
    /\ replays = 0
    /\ fails = 0

\* A business transaction commits its outbox row.
Announce(e) ==
    /\ outbox[e] = "none"
    /\ outbox' = [outbox EXCEPT ![e] = "queued"]
    /\ UNCHANGED <<relay, queued, status, attempt, due, requests, endpoints, claimed,
                   sent, replays, fails>>

-----------------------------------------------------------------------------
(* Dispatcher.Relay: one transaction.                                      *)

relayRest == <<status, attempt, due, requests, endpoints, claimed, sent, replays, fails>>

\* A mutant: no row locks.
RelayOpenUnlocked(w) ==
    /\ ~relay[w].open
    /\ LET rows == {e \in Events : outbox[e] = "queued"} IN
       relay' = [relay EXCEPT ![w] =
                    [open |-> TRUE, locked |-> rows, todo |-> rows, inserts |-> {}]]
    /\ UNCHANGED <<outbox, queued, relayRest>>

\* FOR UPDATE SKIP LOCKED over the unsent rows (100 at most; more than here).
RelayOpen(w) ==
    /\ ~relay[w].open
    /\ LET rows == {e \in Events : outbox[e] = "queued"
                        /\ \A v \in Workers : e \notin relay[v].locked} IN
       relay' = [relay EXCEPT ![w] =
                    [open |-> TRUE, locked |-> rows, todo |-> rows, inserts |-> {}]]
    /\ UNCHANGED <<outbox, queued, relayRest>>

\* INSERT ... SELECT over the endpoints that are on, and sent_at.
Fanout(w, e) ==
    /\ relay[w].open /\ e \in relay[w].todo
    /\ relay' = [relay EXCEPT
         ![w].todo = @ \ {e},
         ![w].inserts = @ \cup {<<e, h>> : h \in {x \in Hooks : hook[x] = "on"}}]
    /\ UNCHANGED <<outbox, queued, relayRest>>

\* COMMIT; the rows of an endpoint deleted meanwhile are gone with it.
RelayCommit(w) ==
    LET new == {d \in relay[w].inserts : hook[d[2]] # "deleted"} IN
    /\ relay[w].open /\ relay[w].todo = {}
    /\ outbox' = [e \in Events |-> IF e \in relay[w].locked THEN "sent" ELSE outbox[e]]
    /\ queued' = [d \in Deliveries |-> queued[d] + IF d \in new THEN 1 ELSE 0]
    /\ status' = [d \in Deliveries |-> IF d \in new THEN "pending" ELSE status[d]]
    /\ due' = due \cup new
    /\ relay' = [relay EXCEPT ![w] = IdleRelay]
    /\ UNCHANGED <<attempt, requests, endpoints, claimed, sent, replays, fails>>

RelayFail(w) ==
    /\ relay[w].open /\ fails < MaxFails
    /\ relay' = [relay EXCEPT ![w] = IdleRelay]
    /\ fails' = fails + 1
    /\ UNCHANGED <<outbox, queued, status, attempt, due, requests, endpoints, claimed,
                   sent, replays>>

-----------------------------------------------------------------------------
(* Dispatcher.Deliver: claim, and then one delivery after the other.       *)

Holds(w, d) == \E c \in claimed[w] \cup sent[w] : c.id = d

Claim(w, d) ==
    [id |-> d, attempt |-> attempt[d], again |-> \E v \in Workers \ {w} : Holds(v, d)]

\* A mutant: the claim leaves retries out.
ClaimFresh(w) ==
    /\ claimed[w] = {} /\ sent[w] = {}
    /\ claimed' = [claimed EXCEPT ![w] =
         {Claim(w, d) : d \in {x \in due : status[x] = "pending" /\ attempt[x] = 0
                                              /\ hook[x[2]] = "on"}}]
    /\ UNCHANGED <<queue, status, attempt, due, requests, endpoints, sent, replays, fails>>

\* The due deliveries of endpoints that are on (20 at most; more than here).
ClaimDue(w) ==
    /\ claimed[w] = {} /\ sent[w] = {}
    /\ claimed' = [claimed EXCEPT ![w] =
         {Claim(w, d) : d \in {x \in due : status[x] = "pending" /\ hook[x[2]] = "on"}}]
    /\ UNCHANGED <<queue, status, attempt, due, requests, endpoints, sent, replays, fails>>

Results == {"ok", "later", "refused"}  \* 2xx; 5xx, 408, 429, no answer; other

Send(w, c, result) ==
    /\ sent[w] = {} /\ c \in claimed[w]
    /\ claimed' = [claimed EXCEPT ![w] = @ \ {c}]
    /\ sent' = [sent EXCEPT ![w] =
           {[id |-> c.id, attempt |-> c.attempt, again |-> c.again, result |-> result]}]
    /\ sends' = [sends EXCEPT ![c.id] = @ + 1]
    /\ doubled' = [doubled EXCEPT ![c.id] = IF c.again THEN @ + 1 ELSE @]
    /\ UNCHANGED <<queue, status, attempt, due, endpoints, replays, fails>>

\* The endpoint's secret cannot be unwrapped: its delivery is left as it is.
UnwrapFails(w) ==
    /\ sent[w] = {} /\ fails < MaxFails
    /\ \E c \in claimed[w] : claimed' = [claimed EXCEPT ![w] = @ \ {c}]
    /\ fails' = fails + 1
    /\ UNCHANGED <<queue, status, attempt, due, requests, endpoints, sent, replays>>

Exists(d) == status[d] # "absent"

\* A mutant: the streak goes on after a success.
MarkDeliveredOnly(d) ==
    /\ status' = IF Exists(d) THEN [status EXCEPT ![d] = "delivered"] ELSE status
    /\ attempt' = IF Exists(d) THEN [attempt EXCEPT ![d] = @ + 1] ELSE attempt
    /\ finals' = [finals EXCEPT ![d[2]] = Append(@, "ok")]
    /\ UNCHANGED <<due, hook, failures>>

\* MarkDelivered: the failure streak of the endpoint ends.
MarkDelivered(d) ==
    /\ status' = IF Exists(d) THEN [status EXCEPT ![d] = "delivered"] ELSE status
    /\ attempt' = IF Exists(d) THEN [attempt EXCEPT ![d] = @ + 1] ELSE attempt
    /\ failures' = [failures EXCEPT ![d[2]] = 0]
    /\ finals' = [finals EXCEPT ![d[2]] = Append(@, "ok")]
    /\ UNCHANGED <<due, hook>>

MarkRetry(d) ==
    /\ attempt' = IF Exists(d) THEN [attempt EXCEPT ![d] = @ + 1] ELSE attempt
    /\ due' = due \ {d}
    /\ UNCHANGED <<status, endpoints>>

\* MarkFailed: a deleted endpoint makes it fail and roll back.
MarkFailed(d, final) ==
    IF hook[d[2]] = "deleted" THEN UNCHANGED <<status, attempt, due, endpoints>>
    ELSE /\ status' = IF Exists(d) THEN [status EXCEPT ![d] = final] ELSE status
         /\ attempt' = IF Exists(d) THEN [attempt EXCEPT ![d] = @ + 1] ELSE attempt
         /\ failures' = [failures EXCEPT ![d[2]] = @ + 1]
         /\ finals' = [finals EXCEPT ![d[2]] = Append(@, "failed")]
         /\ hook' = IF failures[d[2]] + 1 >= DisableAfter
                    THEN [hook EXCEPT ![d[2]] = "disabled"] ELSE hook
         /\ UNCHANGED due

\* The outcome is recorded, by the attempt the claim read.
Settle(w) ==
    /\ \E s \in sent[w] :
          LET last == s.attempt + 1 >= MaxAttempts IN
          \/ s.result = "ok" /\ MarkDelivered(s.id)
          \/ s.result = "later" /\ ~last /\ MarkRetry(s.id)
          \/ s.result = "later" /\ last /\ MarkFailed(s.id, "dead")
          \/ s.result = "refused" /\ MarkFailed(s.id, "failed")
    /\ sent' = [sent EXCEPT ![w] = {}]
    /\ UNCHANGED <<queue, requests, claimed, replays, fails>>

\* The outcome cannot be recorded: the send is forgotten.
SettleFails(w) ==
    /\ sent[w] # {} /\ fails < MaxFails
    /\ sent' = [sent EXCEPT ![w] = {}]
    /\ fails' = fails + 1
    /\ UNCHANGED <<queue, status, attempt, due, requests, endpoints, claimed, replays>>

Crash(w) ==
    /\ fails < MaxFails /\ (claimed[w] # {} \/ sent[w] # {})
    /\ relay' = [relay EXCEPT ![w] = IdleRelay]
    /\ claimed' = [claimed EXCEPT ![w] = {}]
    /\ sent' = [sent EXCEPT ![w] = {}]
    /\ fails' = fails + 1
    /\ UNCHANGED <<outbox, queued, status, attempt, due, requests, endpoints, replays>>

\* The backoff is over.
BecomeDue(d) ==
    /\ status[d] = "pending" /\ d \notin due
    /\ due' = due \cup {d}
    /\ UNCHANGED <<queue, status, attempt, requests, endpoints, claimed, sent, replays, fails>>

-----------------------------------------------------------------------------
(* The owner of an endpoint, and the history purge.                        *)

Replay(d) ==
    /\ status[d] \in {"dead", "failed"} /\ replays < MaxReplays
    /\ status' = [status EXCEPT ![d] = "pending"]
    /\ attempt' = [attempt EXCEPT ![d] = 0]
    /\ due' = due \cup {d}
    /\ replays' = replays + 1
    /\ UNCHANGED <<queue, requests, endpoints, claimed, sent, fails>>

Without(D) ==
    /\ status' = [d \in Deliveries |-> IF d \in D THEN "absent" ELSE status[d]]
    /\ attempt' = [d \in Deliveries |-> IF d \in D THEN 0 ELSE attempt[d]]
    /\ due' = due \ D

\* The deliveries of a deleted endpoint go with it.
DeleteHook(h) ==
    /\ hook[h] # "deleted"
    /\ hook' = [hook EXCEPT ![h] = "deleted"]
    /\ Without(Events \X {h})
    /\ UNCHANGED <<queue, requests, failures, finals, claimed, sent, replays, fails>>

\* PurgeOld goes by age alone: a replayed row may be old and pending.
Purge(d) ==
    /\ Exists(d)
    /\ Without({d})
    /\ UNCHANGED <<queue, requests, endpoints, claimed, sent, replays, fails>>

-----------------------------------------------------------------------------
RelayStep(w) == RelayOpen(w) \/ RelayCommit(w) \/ \E e \in Events : Fanout(w, e)

DeliverStep(w) ==
    \/ ClaimDue(w) \/ Settle(w)
    \/ \E c \in claimed[w], result \in Results : Send(w, c, result)

Next ==
    \/ \E e \in Events : Announce(e)
    \/ \E w \in Workers :
          \/ RelayStep(w) \/ RelayFail(w)
          \/ DeliverStep(w) \/ UnwrapFails(w) \/ SettleFails(w) \/ Crash(w)
    \/ \E d \in Deliveries : BecomeDue(d) \/ Replay(d) \/ Purge(d)
    \/ \E h \in Hooks : DeleteHook(h)

Spec == Init /\ [][Next]_vars

\* Both loops of a worker run for ever, and time passes.
Fairness ==
    /\ \A w \in Workers : WF_vars(RelayStep(w)) /\ WF_vars(DeliverStep(w))
    /\ \A d \in Deliveries : WF_vars(BecomeDue(d))

FairSpec == Spec /\ Fairness

-----------------------------------------------------------------------------
\* Every variable keeps its type; a dispatcher records one send before the next.
TypeOK ==
    /\ outbox \in [Events -> {"none", "queued", "sent"}]
    /\ relay \in [Workers -> [open : BOOLEAN, locked : SUBSET Events,
                              todo : SUBSET Events, inserts : SUBSET Deliveries]]
    /\ queued \in [Deliveries -> Nat]
    /\ status \in [Deliveries -> {"absent", "pending", "delivered", "failed", "dead"}]
    /\ attempt \in [Deliveries -> Nat]
    /\ due \subseteq Deliveries
    /\ sends \in [Deliveries -> Nat] /\ doubled \in [Deliveries -> Nat]
    /\ hook \in [Hooks -> {"on", "disabled", "deleted"}]
    /\ failures \in [Hooks -> Nat]
    /\ finals \in [Hooks -> Seq({"ok", "failed"})]
    /\ claimed \in [Workers -> SUBSET [id : Deliveries, attempt : Nat, again : BOOLEAN]]
    /\ sent \in [Workers -> SUBSET [id : Deliveries, attempt : Nat, again : BOOLEAN,
                                    result : Results]]
    /\ \A w \in Workers : \A s, t \in sent[w] : s = t
    /\ replays \in 0..MaxReplays /\ fails \in 0..MaxFails

\* Deliveries and requests add up, whatever relays overlap, fail or are stopped:
\* an endpoint gets one delivery of an event, of one that was relayed and never
\* of another, none if the event was relayed without it (an endpoint that is on
\* has been on all along); and the receiver is sent MaxAttempts requests for each
\* delivery and replay at most, one for each outcome that was lost, and those of
\* dispatchers that claimed the delivery while another one held it.
DeliveriesAddUp ==
    \A d \in Deliveries :
        /\ queued[d] <= 1
        /\ queued[d] = 1 => outbox[d[1]] = "sent"
        /\ outbox[d[1]] = "sent" /\ hook[d[2]] = "on" => queued[d] = 1
        /\ sends[d] <= MaxAttempts * (1 + replays) + fails + doubled[d]

\* An endpoint is disabled exactly by DisableAfter failures in a row (MarkFailed
\* and MarkDelivered keep the streak between them).
DisabledByStreak ==
    \A h \in Hooks :
        LET n == Len(finals[h]) IN
        /\ failures[h] <= n
        /\ \A i \in n - failures[h] + 1 .. n : finals[h][i] = "failed"
        /\ failures[h] < n => finals[h][n - failures[h]] = "ok"
        /\ hook[h] = "disabled" => \E i \in 1..n - DisableAfter + 1 :
              \A j \in i..i + DisableAfter - 1 : finals[h][j] = "failed"

\* Every committed event is relayed and every delivery of it settled, retries
\* and replays included, unless its endpoint is disabled under it.
EventIsSettled ==
    \A d \in Deliveries :
        (outbox[d[1]] = "queued" \/ status[d] = "pending")
            ~> (outbox[d[1]] = "sent" /\ (status[d] # "pending" \/ hook[d[2]] = "disabled"))
=============================================================================
