----------------------- MODULE WebhookDeliveryProofs -----------------------
(***************************************************************************)
(* Proofs about WebhookDelivery, for any number of workers, events and     *)
(* endpoints and any limits: relays that overlap, fail or are stopped      *)
(* insert one delivery of an event for each endpoint, the requests a       *)
(* receiver is sent add up, and an endpoint is disabled by a streak.       *)
(***************************************************************************)
EXTENDS WebhookDelivery, TLAPS

\* A relay in progress has locked rows of its own that are not sent yet, and
\* inserts deliveries for those it is through with.
RelayLocks ==
    /\ \A w \in Workers :
          /\ \A e \in relay[w].locked : outbox[e] = "queued"
          /\ relay[w].todo \subseteq relay[w].locked
          /\ \A d \in relay[w].inserts : d[1] \in relay[w].locked
    /\ \A v, w \in Workers : v # w => relay[v].locked \cap relay[w].locked = {}

\* ... one for every endpoint that is on.
FannedOut ==
    \A w \in Workers : \A e \in relay[w].locked \ relay[w].todo, h \in Hooks :
        hook[h] = "on" => <<e, h>> \in relay[w].inserts

\* One delivery of an event, of one that was relayed, for every endpoint.
QueuedOnce ==
    \A d \in Deliveries :
        /\ queued[d] <= 1
        /\ queued[d] = 1 => outbox[d[1]] = "sent"
        /\ outbox[d[1]] = "sent" /\ hook[d[2]] = "on" => queued[d] = 1

\* No delivery outlives its endpoint.
GoneWithHook == \A d \in Deliveries : hook[d[2]] = "deleted" => status[d] = "absent"

\* Nothing has happened to a delivery that was not inserted yet.
NotYet ==
    \A d \in Deliveries : queued[d] = 0 =>
        /\ status[d] = "absent" /\ attempt[d] = 0 /\ sends[d] = 0 /\ doubled[d] = 0
        /\ \A w \in Workers : \A c \in claimed[w] \cup sent[w] : c.id # d

QueueInv == TypeOK /\ RelayLocks /\ FannedOut /\ QueuedOnce /\ GoneWithHook /\ NotYet

-----------------------------------------------------------------------------
\* What a worker holds are different deliveries.
OwnApart ==
    \A w \in Workers :
        /\ \A b, c \in claimed[w] : b.id = c.id => b = c
        /\ \A c \in claimed[w], s \in sent[w] : c.id # s.id

\* Of two workers that hold one delivery one has claimed it after the other.
OneFirst ==
    \A v, w \in Workers : v # w =>
        \A b \in claimed[v] \cup sent[v], c \in claimed[w] \cup sent[w] :
            b.id = c.id => b.again \/ c.again

FirstHeld(d) == \E w \in Workers : \E c \in claimed[w] \cup sent[w] : c.id = d /\ ~c.again

\* The attempts of which some come after them.
Low(n) == IF n < MaxAttempts THEN n ELSE MaxAttempts - 1

\* The requests of those that claimed a delivery first, on a budget of b for
\* what is over (the replays and lost outcomes) and for the others: the attempts
\* recorded bound them, and so does what a worker has read of them, unless it
\* was replayed since.
Room(d, b) ==
    /\ sends[d] <= b + MaxAttempts
    /\ status[d] = "pending" /\ ~FirstHeld(d) => sends[d] <= b + Low(attempt[d])
    /\ \A w \in Workers : \A c \in claimed[w] : c.id = d /\ ~c.again =>
          /\ sends[d] <= b + Low(c.attempt)
          /\ status[d] = "pending" => c.attempt <= attempt[d] \/ sends[d] + 1 <= b
    /\ \A w \in Workers : \A s \in sent[w] : s.id = d /\ ~s.again =>
          /\ sends[d] <= b + Low(s.attempt) + 1
          /\ status[d] = "pending" => s.attempt <= attempt[d] \/ sends[d] <= b

Budget(d) == MaxAttempts * replays + fails + doubled[d]

SendsCounted == \A d \in Deliveries : Room(d, Budget(d))

IInv == QueueInv /\ DisabledByStreak /\ OwnApart /\ OneFirst /\ SendsCounted

-----------------------------------------------------------------------------
(* What steps do.                                                          *)

RelayRow == [open : BOOLEAN, locked : SUBSET Events, todo : SUBSET Events,
             inserts : SUBSET Deliveries]
Statuses == {"absent", "pending", "delivered", "failed", "dead"}
ClaimRow == [id : Deliveries, attempt : Nat, again : BOOLEAN]
Sending  == [id : Deliveries, attempt : Nat, again : BOOLEAN, result : Results]

\* A delivery is an event's to an endpoint.
LEMMA DeliveryFields ==
    ASSUME NEW d \in Deliveries
    PROVE  d[1] \in Events /\ d[2] \in Hooks /\ d = <<d[1], d[2]>>
BY DEF Deliveries

\* A relay that has ended holds nothing.
LEMMA IdleFields ==
    /\ IdleRelay \in RelayRow
    /\ IdleRelay.locked = {} /\ IdleRelay.todo = {} /\ IdleRelay.inserts = {}
BY DEF IdleRelay, RelayRow

\* RelayOpen locks the rows that are queued and that nobody has locked.
LEMMA OpenDoes ==
    ASSUME TypeOK, NEW w \in Workers, RelayOpen(w)
    PROVE  /\ relay' \in [Workers -> RelayRow]
           /\ \A v \in Workers \ {w} : relay'[v] = relay[v]
           /\ relay'[w].todo = relay'[w].locked /\ relay'[w].inserts = {}
           /\ \A e \in relay'[w].locked :
                 outbox[e] = "queued" /\ \A v \in Workers : e \notin relay[v].locked
<1> DEFINE rows == {e \in Events : outbox[e] = "queued"
                        /\ \A v \in Workers : e \notin relay[v].locked}
           r == [open |-> TRUE, locked |-> rows, todo |-> rows, inserts |-> {}]
<1>1. relay' = [relay EXCEPT ![w] = r] /\ relay \in [Workers -> RelayRow]
  BY DEF RelayOpen, TypeOK, RelayRow
<1>2. r \in RelayRow /\ r.locked = rows /\ r.todo = rows /\ r.inserts = {}
  BY DEF RelayRow
<1> HIDE DEF r
<1>3. relay' \in [Workers -> RelayRow] /\ relay'[w] = r /\ \A v \in Workers \ {w} : relay'[v] = relay[v]
  BY <1>1, <1>2
<1> QED BY <1>2, <1>3

\* Fanout adds a delivery of the event for every endpoint that is on.
LEMMA FanoutDoes ==
    ASSUME TypeOK, NEW w \in Workers, NEW e \in Events, Fanout(w, e)
    PROVE  /\ relay' \in [Workers -> RelayRow]
           /\ \A v \in Workers \ {w} : relay'[v] = relay[v]
           /\ relay'[w].locked = relay[w].locked
           /\ relay'[w].todo = relay[w].todo \ {e} /\ e \in relay[w].todo
           /\ relay'[w].inserts =
                 relay[w].inserts \cup {<<e, h>> : h \in {x \in Hooks : hook[x] = "on"}}
<1> DEFINE new == {<<e, h>> : h \in {x \in Hooks : hook[x] = "on"}}
           r == [relay[w] EXCEPT !.todo = relay[w].todo \ {e}, !.inserts = relay[w].inserts \cup new]
<1>1. /\ relay' = [relay EXCEPT ![w] = r] /\ relay \in [Workers -> RelayRow]
      /\ relay[w] \in RelayRow /\ e \in relay[w].todo
  BY DEF Fanout, TypeOK, RelayRow
<1>2. new \subseteq Deliveries
  BY DEF Deliveries
<1>3. /\ r \in RelayRow /\ r.locked = relay[w].locked /\ r.todo = relay[w].todo \ {e}
      /\ r.inserts = relay[w].inserts \cup new
  BY <1>1, <1>2 DEF RelayRow
<1> HIDE DEF r
<1>4. relay' \in [Workers -> RelayRow] /\ relay'[w] = r /\ \A v \in Workers \ {w} : relay'[v] = relay[v]
  BY <1>1, <1>3
<1> QED BY <1>1, <1>3, <1>4

\* A relay that ends, committed or not, leaves the others as they are.
LEMMA EndDoes ==
    ASSUME TypeOK, NEW w \in Workers, relay' = [relay EXCEPT ![w] = IdleRelay]
    PROVE  /\ relay' \in [Workers -> RelayRow]
           /\ \A v \in Workers \ {w} : relay'[v] = relay[v]
           /\ relay'[w] = IdleRelay
BY IdleFields DEF TypeOK, RelayRow

\* RelayCommit inserts what the relay collected, but for deleted endpoints.
LEMMA CommitDoes ==
    ASSUME TypeOK, NEW w \in Workers, RelayCommit(w)
    PROVE  /\ relay[w].todo = {} /\ relay' = [relay EXCEPT ![w] = IdleRelay]
           /\ outbox' \in [Events -> {"none", "queued", "sent"}]
           /\ \A e \in Events : outbox'[e] = IF e \in relay[w].locked THEN "sent" ELSE outbox[e]
           /\ queued' \in [Deliveries -> Nat] /\ status' \in [Deliveries -> Statuses]
           /\ due' \subseteq Deliveries
           /\ \A d \in Deliveries :
                 /\ d \in relay[w].inserts /\ hook[d[2]] # "deleted" =>
                       queued'[d] = queued[d] + 1 /\ status'[d] = "pending"
                 /\ ~(d \in relay[w].inserts /\ hook[d[2]] # "deleted") =>
                       queued'[d] = queued[d] /\ status'[d] = status[d]
           /\ UNCHANGED <<attempt, requests, endpoints, claimed, sent, replays, fails>>
<1> DEFINE new == {d \in relay[w].inserts : hook[d[2]] # "deleted"}
<1>1. relay[w].inserts \subseteq Deliveries
  BY DEF TypeOK
<1>2. \A d \in Deliveries : d \in new <=> d \in relay[w].inserts /\ hook[d[2]] # "deleted"
  OBVIOUS
<1>3. /\ queued' = [d \in Deliveries |-> queued[d] + IF d \in new THEN 1 ELSE 0]
      /\ status' = [d \in Deliveries |-> IF d \in new THEN "pending" ELSE status[d]]
      /\ due' = due \cup new /\ relay[w].todo = {} /\ relay' = [relay EXCEPT ![w] = IdleRelay]
      /\ outbox' = [e \in Events |-> IF e \in relay[w].locked THEN "sent" ELSE outbox[e]]
      /\ UNCHANGED <<attempt, requests, endpoints, claimed, sent, replays, fails>>
  BY DEF RelayCommit
<1>4. due' \subseteq Deliveries
  BY <1>1, <1>3 DEF TypeOK
<1> HIDE DEF new
<1>5. queued' \in [Deliveries -> Nat] /\ \A d \in Deliveries :
         /\ d \in new => queued'[d] = queued[d] + 1
         /\ d \notin new => queued'[d] = queued[d]
  BY <1>3 DEF TypeOK
<1>6. status' \in [Deliveries -> Statuses] /\ \A d \in Deliveries :
         /\ d \in new => status'[d] = "pending"
         /\ d \notin new => status'[d] = status[d]
  BY <1>3 DEF TypeOK, Statuses
<1>7. outbox' \in [Events -> {"none", "queued", "sent"}]
  BY <1>3 DEF TypeOK
<1> QED BY <1>2, <1>3, <1>4, <1>5, <1>6, <1>7

\* Settle ends the send of one delivery: its attempt is counted and it is
\* settled or left for later, unless it or its endpoint is gone.
LEMMA SettleDoes ==
    ASSUME TypeOK, NEW w \in Workers, Settle(w)
    PROVE  \E s \in sent[w] :
           /\ s \in Sending /\ s.id \in Deliveries
           /\ sent' = [sent EXCEPT ![w] = {}]
           /\ UNCHANGED <<queue, requests, claimed, replays, fails>>
           /\ status' \in [Deliveries -> Statuses] /\ attempt' \in [Deliveries -> Nat]
           /\ due' \subseteq due
           /\ \A d \in Deliveries \ {s.id} : status'[d] = status[d] /\ attempt'[d] = attempt[d]
           /\ status[s.id] = "absent" => status'[s.id] = "absent" /\ attempt'[s.id] = attempt[s.id]
           /\ status[s.id] # "absent" =>
                 \/ /\ hook[s.id[2]] = "deleted"
                    /\ status'[s.id] = status[s.id] /\ attempt'[s.id] = attempt[s.id]
                 \/ /\ status'[s.id] \in {"delivered", "failed", "dead"}
                    /\ attempt'[s.id] = attempt[s.id] + 1
                 \/ /\ status'[s.id] = status[s.id] /\ attempt'[s.id] = attempt[s.id] + 1
                    /\ s.attempt + 1 < MaxAttempts
           /\ hook' = hook \/ (hook[s.id[2]] # "deleted" /\ hook' = [hook EXCEPT ![s.id[2]] = "disabled"])
<1>1. PICK s \in sent[w] :
          \/ MarkDelivered(s.id)
          \/ ~(s.attempt + 1 >= MaxAttempts) /\ MarkRetry(s.id)
          \/ MarkFailed(s.id, "dead")
          \/ MarkFailed(s.id, "failed")
  BY DEF Settle
<1>2. /\ s \in Sending /\ s.id \in Deliveries /\ s.attempt \in Nat /\ MaxAttempts \in Nat
      /\ status \in [Deliveries -> Statuses] /\ attempt \in [Deliveries -> Nat]
      /\ sent' = [sent EXCEPT ![w] = {}] /\ UNCHANGED <<queue, requests, claimed, replays, fails>>
  BY LimitsAssumption DEF TypeOK, Sending, Statuses, Settle
<1>3. CASE MarkDelivered(s.id)
  <2>1. /\ status' = IF status[s.id] # "absent" THEN [status EXCEPT ![s.id] = "delivered"] ELSE status
        /\ attempt' = IF status[s.id] # "absent" THEN [attempt EXCEPT ![s.id] = attempt[s.id] + 1]
                      ELSE attempt
        /\ due' = due /\ hook' = hook
    BY <1>3 DEF MarkDelivered, Exists
  <2>2. status' \in [Deliveries -> Statuses] /\ attempt' \in [Deliveries -> Nat]
    BY <1>2, <2>1 DEF Statuses
  <2>3. \A d \in Deliveries \ {s.id} : status'[d] = status[d] /\ attempt'[d] = attempt[d]
    BY <1>2, <2>1
  <2>4. status[s.id] # "absent" => status'[s.id] = "delivered" /\ attempt'[s.id] = attempt[s.id] + 1
    BY <1>2, <2>1
  <2> QED BY <1>2, <2>1, <2>2, <2>3, <2>4
<1>4. CASE s.attempt + 1 < MaxAttempts /\ MarkRetry(s.id)
  BY <1>2, <1>4 DEF MarkRetry, Exists, Statuses, endpoints
<1>5. ASSUME NEW final \in {"dead", "failed"}, MarkFailed(s.id, final), hook[s.id[2]] = "deleted"
      PROVE  UNCHANGED <<status, attempt, due, hook>>
  BY <1>5 DEF MarkFailed, endpoints
<1>6. ASSUME NEW final \in {"dead", "failed"}, MarkFailed(s.id, final), hook[s.id[2]] # "deleted"
      PROVE  /\ status' = IF Exists(s.id) THEN [status EXCEPT ![s.id] = final] ELSE status
             /\ attempt' = IF Exists(s.id) THEN [attempt EXCEPT ![s.id] = @ + 1] ELSE attempt
             /\ hook' = [hook EXCEPT ![s.id[2]] = "disabled"] \/ hook' = hook
             /\ UNCHANGED due
  BY <1>6 DEF MarkFailed
<1>7. ASSUME NEW final \in {"dead", "failed"}, MarkFailed(s.id, final)
      PROVE  /\ status' \in [Deliveries -> Statuses] /\ attempt' \in [Deliveries -> Nat]
             /\ due' = due
             /\ \A d \in Deliveries \ {s.id} : status'[d] = status[d] /\ attempt'[d] = attempt[d]
             /\ status[s.id] = "absent" => status'[s.id] = "absent" /\ attempt'[s.id] = attempt[s.id]
             /\ status[s.id] # "absent" =>
                   \/ /\ hook[s.id[2]] = "deleted"
                      /\ status'[s.id] = status[s.id] /\ attempt'[s.id] = attempt[s.id]
                   \/ /\ status'[s.id] \in {"delivered", "failed", "dead"}
                      /\ attempt'[s.id] = attempt[s.id] + 1
             /\ hook' = hook \/ (hook[s.id[2]] # "deleted" /\ hook' = [hook EXCEPT ![s.id[2]] = "disabled"])
  BY <1>2, <1>5, <1>6, <1>7 DEF Exists, Statuses
<1>8. CASE MarkFailed(s.id, "dead") \/ MarkFailed(s.id, "failed")
  BY <1>2, <1>7, <1>8
<1> QED BY <1>1, <1>2, <1>3, <1>4, <1>8

\* Deliveries that are deleted are absent, with nothing counted.
LEMMA WithoutDoes ==
    ASSUME TypeOK, NEW D \in SUBSET Deliveries, Without(D)
    PROVE  /\ status' \in [Deliveries -> Statuses] /\ attempt' \in [Deliveries -> Nat]
           /\ due' \subseteq due
           /\ \A d \in D : status'[d] = "absent" /\ attempt'[d] = 0
           /\ \A d \in Deliveries \ D : status'[d] = status[d] /\ attempt'[d] = attempt[d]
BY DEF Without, TypeOK, Statuses

\* ClaimDue claims what is pending, with the attempt it reads.
LEMMA ClaimDoes ==
    ASSUME TypeOK, NEW w \in Workers, ClaimDue(w)
    PROVE  /\ claimed' \in [Workers -> SUBSET ClaimRow]
           /\ claimed[w] = {} /\ sent[w] = {}
           /\ \A v \in Workers \ {w} : claimed'[v] = claimed[v]
           /\ \A c \in claimed'[w] : /\ c \in ClaimRow /\ c.id \in Deliveries /\ status[c.id] = "pending"
                                     /\ c.attempt = attempt[c.id]
           /\ \A c \in claimed'[w] : c.again <=> \E v \in Workers \ {w} : Holds(v, c.id)
           /\ \A b, c \in claimed'[w] : b.id = c.id => b = c
           /\ UNCHANGED <<queue, status, attempt, due, requests, endpoints, sent, replays, fails>>
<1> DEFINE D == {x \in due : status[x] = "pending" /\ hook[x[2]] = "on"}
           C == {Claim(w, d) : d \in D}
<1>1. /\ claimed' = [claimed EXCEPT ![w] = C] /\ claimed[w] = {} /\ sent[w] = {}
      /\ UNCHANGED <<queue, status, attempt, due, requests, endpoints, sent, replays, fails>>
  BY DEF ClaimDue
<1>2. \A d \in D : d \in Deliveries /\ status[d] = "pending" /\ attempt[d] \in Nat
  BY DEF TypeOK
<1> HIDE DEF D
<1>a. \A d \in D : /\ Claim(w, d) \in ClaimRow /\ Claim(w, d).id = d
                   /\ Claim(w, d).attempt = attempt[d]
                   /\ Claim(w, d).again <=> \E v \in Workers \ {w} : Holds(v, d)
  BY <1>2 DEF ClaimRow, Claim
<1>3. \A c \in C : /\ c \in ClaimRow /\ c.id \in Deliveries /\ status[c.id] = "pending"
                   /\ c.attempt = attempt[c.id]
                   /\ c.again <=> \E v \in Workers \ {w} : Holds(v, c.id)
  BY <1>2, <1>a
<1>4. \A b, c \in C : b.id = c.id => b = c
  BY <1>a
<1> HIDE DEF C
<1>5. C \in SUBSET ClaimRow /\ claimed \in [Workers -> SUBSET ClaimRow]
  BY <1>3 DEF TypeOK, ClaimRow
<1>6. /\ claimed' \in [Workers -> SUBSET ClaimRow] /\ claimed'[w] = C
      /\ \A v \in Workers \ {w} : claimed'[v] = claimed[v]
  BY <1>1, <1>5
<1> QED BY <1>1, <1>3, <1>4, <1>6

\* Send sends one that was claimed, again or not.
LEMMA SendDoes ==
    ASSUME TypeOK, NEW w \in Workers, NEW c \in claimed[w], NEW result \in Results, Send(w, c, result)
    PROVE  /\ c \in ClaimRow /\ c.id \in Deliveries /\ sent[w] = {}
           /\ claimed' \in [Workers -> SUBSET ClaimRow] /\ sent' \in [Workers -> SUBSET Sending]
           /\ claimed'[w] = claimed[w] \ {c}
           /\ \A v \in Workers \ {w} : claimed'[v] = claimed[v] /\ sent'[v] = sent[v]
           /\ \A s, t \in sent'[w] : s = t
           /\ \A s \in sent'[w] : s.id = c.id /\ s.attempt = c.attempt /\ s.again = c.again
           /\ \E s \in sent'[w] : s.id = c.id /\ s.again = c.again
           /\ doubled' \in [Deliveries -> Nat]
           /\ doubled'[c.id] = IF c.again THEN doubled[c.id] + 1 ELSE doubled[c.id]
           /\ \A d \in Deliveries \ {c.id} : doubled'[d] = doubled[d]
           /\ sends' \in [Deliveries -> Nat] /\ sends'[c.id] = sends[c.id] + 1
           /\ \A d \in Deliveries \ {c.id} : sends'[d] = sends[d]
           /\ UNCHANGED <<queue, status, attempt, due, endpoints, replays, fails>>
<1> DEFINE s == [id |-> c.id, attempt |-> c.attempt, again |-> c.again, result |-> result]
<1>1. /\ c \in ClaimRow /\ claimed \in [Workers -> SUBSET ClaimRow] /\ sent \in [Workers -> SUBSET Sending]
      /\ sends \in [Deliveries -> Nat] /\ doubled \in [Deliveries -> Nat]
  BY DEF TypeOK, ClaimRow, Sending
<1>2. /\ claimed' = [claimed EXCEPT ![w] = claimed[w] \ {c}] /\ sent' = [sent EXCEPT ![w] = {s}]
      /\ sends' = [sends EXCEPT ![c.id] = sends[c.id] + 1] /\ sent[w] = {}
      /\ doubled' = [doubled EXCEPT ![c.id] = IF c.again THEN doubled[c.id] + 1
                                              ELSE doubled[c.id]]
      /\ UNCHANGED <<queue, status, attempt, due, endpoints, replays, fails>>
  BY DEF Send
<1>3. /\ c.id \in Deliveries /\ s \in Sending
      /\ s.id = c.id /\ s.attempt = c.attempt /\ s.again = c.again
  BY <1>1 DEF ClaimRow, Sending
<1> HIDE DEF s
<1>4. /\ claimed' \in [Workers -> SUBSET ClaimRow] /\ claimed'[w] = claimed[w] \ {c}
      /\ \A v \in Workers \ {w} : claimed'[v] = claimed[v]
  BY <1>1, <1>2
<1>5. /\ sent' \in [Workers -> SUBSET Sending] /\ sent'[w] = {s}
      /\ \A v \in Workers \ {w} : sent'[v] = sent[v]
  BY <1>1, <1>2, <1>3
<1>6. /\ sends' \in [Deliveries -> Nat] /\ sends'[c.id] = sends[c.id] + 1
      /\ \A d \in Deliveries \ {c.id} : sends'[d] = sends[d]
  BY <1>1, <1>2, <1>3
<1>7. /\ doubled' \in [Deliveries -> Nat]
      /\ doubled'[c.id] = IF c.again THEN doubled[c.id] + 1 ELSE doubled[c.id]
      /\ \A d \in Deliveries \ {c.id} : doubled'[d] = doubled[d]
  BY <1>1, <1>2, <1>3
<1> QED BY <1>1, <1>2, <1>3, <1>4, <1>5, <1>6, <1>7

-----------------------------------------------------------------------------
(* Types.                                                                  *)

\* The types by their names.
Types ==
    /\ outbox \in [Events -> {"none", "queued", "sent"}]
    /\ relay \in [Workers -> RelayRow]
    /\ queued \in [Deliveries -> Nat]
    /\ status \in [Deliveries -> Statuses]
    /\ attempt \in [Deliveries -> Nat]
    /\ due \subseteq Deliveries
    /\ sends \in [Deliveries -> Nat] /\ doubled \in [Deliveries -> Nat]
    /\ hook \in [Hooks -> {"on", "disabled", "deleted"}]
    /\ failures \in [Hooks -> Nat]
    /\ finals \in [Hooks -> Seq({"ok", "failed"})]
    /\ claimed \in [Workers -> SUBSET ClaimRow]
    /\ sent \in [Workers -> SUBSET Sending]
    /\ \A w \in Workers : \A s, t \in sent[w] : s = t
    /\ replays \in 0..MaxReplays /\ fails \in 0..MaxFails

\* TypeOK with its sets written out.
LEMMA TypesAre == TypeOK <=> Types
BY DEF TypeOK, Types, RelayRow, Statuses, ClaimRow, Sending

\* The same of the next state.
LEMMA TypesAreNext == TypeOK' <=> Types'
BY DEF TypeOK, Types, RelayRow, Statuses, ClaimRow, Sending

\* Every step keeps the types.
LEMMA TypeStep ==
    ASSUME TypeOK, [Next]_vars
    PROVE  TypeOK'
<1>a. Types /\ (Types' => TypeOK')
  BY TypesAre, TypesAreNext
<1>0. MaxFails \in Nat /\ MaxReplays \in Nat
  BY <1>a, BoundsAssumption
<1>1. ASSUME NEW e \in Events, Announce(e) PROVE Types'
  BY <1>a, <1>1 DEF Announce, Types, endpoints, requests
<1>2. ASSUME NEW w \in Workers, RelayOpen(w) PROVE Types'
  <2>1. relay' \in [Workers -> RelayRow]
    BY <1>2, OpenDoes
  <2> QED BY <1>a, <1>2, <2>1 DEF RelayOpen, Types, relayRest, endpoints, requests
<1>3. ASSUME NEW w \in Workers, NEW e \in Events, Fanout(w, e) PROVE Types'
  <2>1. relay' \in [Workers -> RelayRow]
    BY <1>3, FanoutDoes
  <2> QED BY <1>a, <1>3, <2>1 DEF Fanout, Types, relayRest, endpoints, requests
<1>4. ASSUME NEW w \in Workers, RelayCommit(w) PROVE Types'
  <2>1. /\ outbox' \in [Events -> {"none", "queued", "sent"}] /\ queued' \in [Deliveries -> Nat]
        /\ status' \in [Deliveries -> Statuses] /\ due' \subseteq Deliveries
        /\ UNCHANGED <<attempt, requests, endpoints, claimed, sent, replays, fails>>
        /\ relay' \in [Workers -> RelayRow]
    BY <1>4, CommitDoes, EndDoes
  <2> QED BY <1>a, <2>1 DEF Types, endpoints, requests
<1>5. ASSUME NEW w \in Workers, RelayFail(w) PROVE Types'
  <2>1. relay' = [relay EXCEPT ![w] = IdleRelay]
    BY <1>5 DEF RelayFail
  <2>2. relay' \in [Workers -> RelayRow]
    BY <2>1, EndDoes
  <2> QED BY <1>a, <1>0, <1>5, <2>2 DEF RelayFail, Types, endpoints, requests
<1>6. ASSUME NEW w \in Workers, ClaimDue(w) PROVE Types'
  BY <1>a, <1>6, ClaimDoes DEF Types, queue, endpoints, requests
<1>7. ASSUME NEW w \in Workers, NEW c \in claimed[w], NEW result \in Results, Send(w, c, result)
      PROVE  Types'
  <2>1. /\ claimed' \in [Workers -> SUBSET ClaimRow] /\ sent' \in [Workers -> SUBSET Sending]
        /\ \A v \in Workers \ {w} : sent'[v] = sent[v]
        /\ \A s, t \in sent'[w] : s = t
        /\ sends' \in [Deliveries -> Nat] /\ doubled' \in [Deliveries -> Nat]
        /\ UNCHANGED <<queue, status, attempt, due, endpoints, replays, fails>>
    BY <1>7, SendDoes
  <2>2. \A v \in Workers : \A s, t \in sent'[v] : s = t
    BY <1>a, <2>1 DEF Types
  <2> QED BY <1>a, <2>1, <2>2 DEF Types, queue, endpoints, requests
<1>8. ASSUME NEW w \in Workers, Settle(w) PROVE Types'
  <2>1. /\ sent' = [sent EXCEPT ![w] = {}] /\ UNCHANGED <<queue, requests, claimed, replays, fails>>
        /\ status' \in [Deliveries -> Statuses] /\ attempt' \in [Deliveries -> Nat]
        /\ due' \subseteq Deliveries
    BY <1>a, <1>8, SettleDoes DEF Types
  <2>2. /\ hook' \in [Hooks -> {"on", "disabled", "deleted"}] /\ failures' \in [Hooks -> Nat]
        /\ finals' \in [Hooks -> Seq({"ok", "failed"})]
    <3>1. PICK s \in sent[w] : \/ MarkDelivered(s.id) \/ MarkRetry(s.id)
                               \/ \E final \in {"dead", "failed"} : MarkFailed(s.id, final)
      BY <1>a, <1>8 DEF Settle
    <3> DEFINE h == s.id[2]
    <3>2. h \in Hooks
      <4>1. s.id \in Deliveries
        BY <1>a DEF Types, Sending
      <4> QED BY <4>1, DeliveryFields
    <3>3. CASE UNCHANGED endpoints
      BY <1>a, <3>3 DEF Types, endpoints, requests
    <3>4. CASE /\ failures' = [failures EXCEPT ![h] = 0]
               /\ finals' = [finals EXCEPT ![h] = Append(@, "ok")] /\ hook' = hook
      BY <1>a, <3>2, <3>4 DEF Types
    <3>5. CASE /\ failures' = [failures EXCEPT ![h] = @ + 1]
               /\ finals' = [finals EXCEPT ![h] = Append(@, "failed")]
               /\ hook' = hook \/ hook' = [hook EXCEPT ![h] = "disabled"]
      <4>1. failures' \in [Hooks -> Nat]
        BY <1>a, <3>2, <3>5 DEF Types
      <4>2. finals' \in [Hooks -> Seq({"ok", "failed"})]
        BY <1>a, <3>2, <3>5 DEF Types
      <4>3. hook' \in [Hooks -> {"on", "disabled", "deleted"}]
        BY <1>a, <3>2, <3>5 DEF Types
      <4> QED BY <4>1, <4>2, <4>3
    <3>6. MarkDelivered(s.id) => /\ failures' = [failures EXCEPT ![h] = 0]
                                 /\ finals' = [finals EXCEPT ![h] = Append(@, "ok")] /\ hook' = hook
      BY DEF MarkDelivered
    <3>7. MarkRetry(s.id) => UNCHANGED endpoints
      BY DEF MarkRetry
    <3>8. ASSUME NEW final \in {"dead", "failed"}, MarkFailed(s.id, final)
          PROVE  \/ UNCHANGED endpoints
                 \/ /\ failures' = [failures EXCEPT ![h] = @ + 1]
                    /\ finals' = [finals EXCEPT ![h] = Append(@, "failed")]
                    /\ hook' = hook \/ hook' = [hook EXCEPT ![h] = "disabled"]
      BY <3>8 DEF MarkFailed
    <3> QED BY <3>1, <3>3, <3>4, <3>5, <3>6, <3>7, <3>8
  <2>3. /\ sent' \in [Workers -> SUBSET Sending] /\ \A v \in Workers : \A s, t \in sent'[v] : s = t
    BY <1>a, <2>1 DEF Types
  <2> QED BY <1>a, <2>1, <2>2, <2>3 DEF Types, queue, requests
<1>9. ASSUME NEW w \in Workers, SettleFails(w) PROVE Types'
  <2>1. /\ sent' \in [Workers -> SUBSET Sending] /\ \A v \in Workers : \A s, t \in sent'[v] : s = t
    BY <1>a, <1>9 DEF SettleFails, Types
  <2> QED BY <1>a, <1>0, <1>9, <2>1 DEF SettleFails, Types, queue, endpoints, requests
<1>10. ASSUME NEW w \in Workers, Crash(w) PROVE Types'
  <2>1. /\ sent' \in [Workers -> SUBSET Sending] /\ \A v \in Workers : \A s, t \in sent'[v] : s = t
        /\ claimed' \in [Workers -> SUBSET ClaimRow]
    BY <1>a, <1>10 DEF Crash, Types
  <2>2. relay' \in [Workers -> RelayRow]
    BY <1>a, <1>10, EndDoes DEF Crash
  <2> QED BY <1>a, <1>0, <1>10, <2>1, <2>2 DEF Crash, Types, endpoints, requests
<1>b. ASSUME NEW w \in Workers, UnwrapFails(w) PROVE Types'
  <2>1. claimed' \in [Workers -> SUBSET ClaimRow]
    BY <1>a, <1>b DEF UnwrapFails, Types
  <2> QED BY <1>a, <1>0, <1>b, <2>1 DEF UnwrapFails, Types, queue, endpoints, requests
<1>11. ASSUME NEW d \in Deliveries, BecomeDue(d) PROVE Types'
  BY <1>a, <1>11 DEF BecomeDue, Types, queue, endpoints, requests
<1>12. ASSUME NEW d \in Deliveries, Replay(d) PROVE Types'
  <2>1. status' \in [Deliveries -> Statuses] /\ attempt' \in [Deliveries -> Nat]
        /\ due' \subseteq Deliveries
    BY <1>a, <1>12 DEF Replay, Types, Statuses
  <2>2. replays' \in 0..MaxReplays
    BY <1>a, <1>0, <1>12 DEF Replay, Types
  <2> QED BY <1>a, <1>12, <2>1, <2>2 DEF Replay, Types, queue, endpoints, requests
<1>13. ASSUME NEW d \in Deliveries, Purge(d) PROVE Types'
  BY <1>a, <1>13, WithoutDoes DEF Purge, Types, queue, endpoints, requests
<1>14. ASSUME NEW h \in Hooks, DeleteHook(h) PROVE Types'
  <2>1. Events \X {h} \in SUBSET Deliveries
    BY <1>a DEF Deliveries
  <2> QED BY <1>a, <1>14, <2>1, WithoutDoes DEF DeleteHook, Types, queue, requests
<1>15. UNCHANGED vars => Types'
  BY <1>a DEF Types, vars, queue, endpoints, requests
<1> QED BY <1>a, <1>b, <1>0, <1>1, <1>2, <1>3, <1>4, <1>5, <1>6, <1>7, <1>8, <1>9, <1>10, <1>11, <1>12, <1>13,
           <1>14, <1>15 DEF Next, RelayStep, DeliverStep

\* A step that leaves the deliveries alone.
Quiet ==
    /\ UNCHANGED <<queued, status, attempt, requests, endpoints, claimed, sent, replays>>
    /\ fails' = fails \/ fails' = fails + 1
    /\ \/ UNCHANGED <<outbox, relay>>
       \/ \E e \in Events : Announce(e)
       \/ \E w \in Workers : \/ RelayOpen(w) \/ RelayFail(w)
                             \/ \E e \in Events : Fanout(w, e)

\* The others.
LEMMA Steps ==
    ASSUME [Next]_vars
    PROVE  \/ Quiet
           \/ \E w \in Workers : RelayCommit(w)
           \/ \E w \in Workers :
                 \/ ClaimDue(w) \/ Settle(w) \/ UnwrapFails(w) \/ SettleFails(w) \/ Crash(w)
                 \/ \E c \in claimed[w], result \in Results : Send(w, c, result)
           \/ \E d \in Deliveries : Replay(d) \/ Purge(d)
           \/ \E h \in Hooks : DeleteHook(h)
<1>1. ASSUME NEW e \in Events, Announce(e) PROVE Quiet
  BY <1>1 DEF Announce, Quiet, endpoints, requests
<1>2. ASSUME NEW w \in Workers, RelayOpen(w) PROVE Quiet
  BY <1>2 DEF RelayOpen, Quiet, relayRest, endpoints, requests
<1>3. ASSUME NEW w \in Workers, NEW e \in Events, Fanout(w, e) PROVE Quiet
  BY <1>3 DEF Fanout, Quiet, relayRest, endpoints, requests
<1>4. ASSUME NEW w \in Workers, RelayFail(w) PROVE Quiet
  BY <1>4 DEF RelayFail, Quiet, endpoints, requests
<1>5. ASSUME NEW d \in Deliveries, BecomeDue(d) PROVE Quiet
  BY <1>5 DEF BecomeDue, Quiet, queue, endpoints, requests
<1>6. UNCHANGED vars => Quiet
  BY DEF vars, Quiet, queue, endpoints, requests
<1> QED BY <1>1, <1>2, <1>3, <1>4, <1>5, <1>6 DEF Next, RelayStep, DeliverStep

\* An endpoint is never turned on, and a deleted one is not there again.
LEMMA HookMoves ==
    ASSUME TypeOK, [Next]_vars, NEW h \in Hooks
    PROVE  (hook'[h] = "on" => hook[h] = "on") /\ (hook[h] = "deleted" => hook'[h] = "deleted")
<1>0. hook \in [Hooks -> {"on", "disabled", "deleted"}]
  BY DEF TypeOK
<1>1. ASSUME NEW w \in Workers, Settle(w)
      PROVE  (hook'[h] = "on" => hook[h] = "on") /\ (hook[h] = "deleted" => hook'[h] = "deleted")
  <2>1. PICK s \in sent[w] : \/ hook' = hook
                             \/ /\ hook[s.id[2]] # "deleted"
                                /\ hook' = [hook EXCEPT ![s.id[2]] = "disabled"]
    BY <1>1, SettleDoes
  <2> QED BY <1>0, <2>1
<1>2. ASSUME NEW g \in Hooks, DeleteHook(g)
      PROVE  (hook'[h] = "on" => hook[h] = "on") /\ (hook[h] = "deleted" => hook'[h] = "deleted")
  BY <1>0, <1>2 DEF DeleteHook
<1>3. ASSUME NEW w \in Workers, RelayCommit(w) PROVE UNCHANGED hook
  BY <1>3 DEF RelayCommit, endpoints
<1>4. ASSUME NEW w \in Workers,
             \/ ClaimDue(w) \/ UnwrapFails(w) \/ SettleFails(w) \/ Crash(w)
             \/ \E c \in claimed[w], result \in Results : Send(w, c, result)
      PROVE  UNCHANGED hook
  BY <1>4 DEF ClaimDue, UnwrapFails, SettleFails, Crash, Send, endpoints
<1>5. ASSUME NEW d \in Deliveries, Replay(d) \/ Purge(d) PROVE UNCHANGED hook
  BY <1>5 DEF Replay, Purge, endpoints
<1>6. Quiet => UNCHANGED hook
  BY DEF Quiet, endpoints, requests
<1> QED BY <1>1, <1>2, <1>3, <1>4, <1>5, <1>6, Steps

\* The outbox, the relays and the queue have their few writers.
LEMMA RelayMoves ==
    ASSUME [Next]_vars
    PROVE  \/ UNCHANGED queue
           \/ (\E e \in Events : Announce(e)) /\ UNCHANGED <<relay, queued>>
           \/ \E w \in Workers :
                 \/ RelayOpen(w) /\ UNCHANGED <<outbox, queued>>
                 \/ (\E e \in Events : Fanout(w, e)) /\ UNCHANGED <<outbox, queued>>
                 \/ relay' = [relay EXCEPT ![w] = IdleRelay] /\ UNCHANGED <<outbox, queued>>
                 \/ RelayCommit(w)
<1>1. CASE Quiet
  <2>1. UNCHANGED <<outbox, relay>> => UNCHANGED queue
    BY <1>1 DEF Quiet, queue, requests
  <2>2. \A e \in Events : Announce(e) => UNCHANGED <<relay, queued>>
    BY DEF Announce
  <2>3. \A w \in Workers : RelayOpen(w) => UNCHANGED <<outbox, queued>>
    BY DEF RelayOpen
  <2>4. \A w \in Workers, e \in Events : Fanout(w, e) => UNCHANGED <<outbox, queued>>
    BY DEF Fanout
  <2>5. \A w \in Workers :
            RelayFail(w) => relay' = [relay EXCEPT ![w] = IdleRelay] /\ UNCHANGED <<outbox, queued>>
    BY DEF RelayFail
  <2> QED BY <1>1, <2>1, <2>2, <2>3, <2>4, <2>5 DEF Quiet
<1>2. ASSUME NEW w \in Workers, Crash(w)
      PROVE  relay' = [relay EXCEPT ![w] = IdleRelay] /\ UNCHANGED <<outbox, queued>>
  BY <1>2 DEF Crash
<1>3. ASSUME NEW w \in Workers,
             \/ ClaimDue(w) \/ UnwrapFails(w) \/ SettleFails(w) \/ Settle(w)
             \/ \E c \in claimed[w], result \in Results : Send(w, c, result)
      PROVE  UNCHANGED queue
  BY <1>3 DEF ClaimDue, UnwrapFails, SettleFails, Settle, Send
<1>4. ASSUME NEW d \in Deliveries, Replay(d) \/ Purge(d) PROVE UNCHANGED queue
  BY <1>4 DEF Replay, Purge
<1>5. ASSUME NEW h \in Hooks, DeleteHook(h) PROVE UNCHANGED queue
  BY <1>5 DEF DeleteHook
<1> QED BY <1>1, <1>2, <1>3, <1>4, <1>5, Steps

-----------------------------------------------------------------------------
(* The relay.                                                              *)

\* Relays lock rows of their own and fan them out.
LEMMA RelayStays ==
    ASSUME QueueInv, [Next]_vars
    PROVE  RelayLocks' /\ FannedOut'
<1>0. TypeOK /\ RelayLocks /\ FannedOut
  BY DEF QueueInv
<1>1. \A h \in Hooks : hook'[h] = "on" => hook[h] = "on"
  BY <1>0, HookMoves
<1>2. ASSUME NEW w \in Workers
      PROVE  /\ relay[w].locked \subseteq Events /\ relay[w].todo \subseteq Events
             /\ relay[w].inserts \subseteq Deliveries
  BY <1>0 DEF TypeOK
<1>3. CASE UNCHANGED queue
  BY <1>0, <1>1, <1>3 DEF RelayLocks, FannedOut, queue
<1>4. ASSUME NEW e \in Events, Announce(e), UNCHANGED relay PROVE RelayLocks' /\ FannedOut'
  <2>1. \A x \in Events : outbox[x] = "queued" => outbox'[x] = "queued"
    BY <1>0, <1>4 DEF Announce, TypeOK
  <2> QED BY <1>0, <1>1, <1>2, <1>4, <2>1 DEF RelayLocks, FannedOut
<1>5. ASSUME NEW w \in Workers, RelayOpen(w), UNCHANGED outbox PROVE RelayLocks' /\ FannedOut'
  <2>1. /\ \A v \in Workers \ {w} : relay'[v] = relay[v]
        /\ relay'[w].todo = relay'[w].locked /\ relay'[w].inserts = {}
        /\ \A e \in relay'[w].locked :
              outbox[e] = "queued" /\ \A v \in Workers : e \notin relay[v].locked
    BY <1>0, <1>5, OpenDoes
  <2>2. RelayLocks'
    BY <1>0, <1>5, <2>1 DEF RelayLocks
  <2>3. FannedOut'
    BY <1>0, <1>1, <2>1 DEF FannedOut
  <2> QED BY <2>2, <2>3
<1>6. ASSUME NEW w \in Workers, NEW e \in Events, Fanout(w, e), UNCHANGED outbox
      PROVE  RelayLocks' /\ FannedOut'
  <2> DEFINE new == {<<e, h>> : h \in {x \in Hooks : hook[x] = "on"}}
  <2>1. /\ \A v \in Workers \ {w} : relay'[v] = relay[v]
        /\ relay'[w].locked = relay[w].locked
        /\ relay'[w].todo = relay[w].todo \ {e} /\ e \in relay[w].todo
        /\ relay'[w].inserts = relay[w].inserts \cup new
    BY <1>0, <1>6, FanoutDoes
  <2>2. /\ \A d \in new : d[1] = e
        /\ \A h \in Hooks : hook[h] = "on" => <<e, h>> \in new
    OBVIOUS
  <2> HIDE DEF new
  <2>3. RelayLocks'
    <3>1. e \in relay[w].locked
      BY <1>0, <2>1 DEF RelayLocks
    <3>2. \A v \in Workers : /\ \A x \in relay'[v].locked : outbox'[x] = "queued"
                             /\ relay'[v].todo \subseteq relay'[v].locked
      BY <1>0, <1>6, <2>1 DEF RelayLocks
    <3>3. \A v \in Workers : \A d \in relay'[v].inserts : d[1] \in relay'[v].locked
      BY <1>0, <2>1, <2>2, <3>1 DEF RelayLocks
    <3>4. \A u, v \in Workers : u # v => relay'[u].locked \cap relay'[v].locked = {}
      BY <1>0, <2>1 DEF RelayLocks
    <3> QED BY <3>2, <3>3, <3>4 DEF RelayLocks
  <2>4. FannedOut'
    BY <1>0, <1>1, <2>1, <2>2 DEF FannedOut
  <2> QED BY <2>3, <2>4
<1>7. ASSUME NEW w \in Workers, relay' = [relay EXCEPT ![w] = IdleRelay],
             \A e \in Events : e \notin relay[w].locked => outbox'[e] = outbox[e]
      PROVE  RelayLocks' /\ FannedOut'
  <2>1. /\ \A v \in Workers \ {w} : relay'[v] = relay[v]
        /\ relay'[w].locked = {} /\ relay'[w].todo = {} /\ relay'[w].inserts = {}
    BY <1>0, <1>7, EndDoes, IdleFields
  <2>2. \A v \in Workers : \A x \in relay'[v].locked : outbox'[x] = "queued"
    BY <1>0, <1>2, <1>7, <2>1 DEF RelayLocks
  <2>3. RelayLocks'
    BY <1>0, <2>1, <2>2 DEF RelayLocks
  <2>4. FannedOut'
    BY <1>0, <1>1, <2>1 DEF FannedOut
  <2> QED BY <2>3, <2>4
<1>8. ASSUME NEW w \in Workers, RelayCommit(w) PROVE RelayLocks' /\ FannedOut'
  BY <1>0, <1>7, <1>8, CommitDoes
<1> QED BY <1>3, <1>4, <1>5, <1>6, <1>7, <1>8, RelayMoves

\* What is queued is queued once, for every endpoint.
LEMMA QueueStays ==
    ASSUME QueueInv, [Next]_vars
    PROVE  QueuedOnce' /\ \A d \in Deliveries : queued'[d] = 0 => queued[d] = 0
<1>0. /\ TypeOK /\ RelayLocks /\ FannedOut /\ QueuedOnce
      /\ \A d \in Deliveries : queued[d] \in Nat /\ d[1] \in Events /\ d[2] \in Hooks
  BY DeliveryFields DEF QueueInv, TypeOK
<1>1. \A h \in Hooks : hook'[h] = "on" => hook[h] = "on"
  BY <1>0, HookMoves
<1>2. CASE UNCHANGED <<outbox, queued>>
  BY <1>0, <1>1, <1>2 DEF QueuedOnce
<1>3. ASSUME NEW e \in Events, Announce(e), UNCHANGED queued
      PROVE  QueuedOnce' /\ \A d \in Deliveries : queued'[d] = 0 => queued[d] = 0
  <2>1. \A x \in Events : outbox'[x] = "sent" <=> outbox[x] = "sent"
    BY <1>0, <1>3 DEF Announce, TypeOK
  <2> QED BY <1>0, <1>1, <1>3, <2>1 DEF QueuedOnce
<1>4. ASSUME NEW w \in Workers, RelayCommit(w)
      PROVE  QueuedOnce' /\ \A d \in Deliveries : queued'[d] = 0 => queued[d] = 0
  <2> SUFFICES ASSUME NEW d \in Deliveries
               PROVE  /\ queued'[d] <= 1
                      /\ queued'[d] = 1 => outbox'[d[1]] = "sent"
                      /\ outbox'[d[1]] = "sent" /\ hook'[d[2]] = "on" => queued'[d] = 1
                      /\ queued'[d] = 0 => queued[d] = 0
    BY DEF QueuedOnce
  <2>0. d[1] \in Events /\ d[2] \in Hooks /\ d = <<d[1], d[2]>> /\ queued[d] \in Nat
    BY <1>0, DeliveryFields
  <2>1. /\ outbox'[d[1]] = IF d[1] \in relay[w].locked THEN "sent" ELSE outbox[d[1]]
        /\ relay[w].todo = {}
        /\ d \in relay[w].inserts /\ hook[d[2]] # "deleted" => queued'[d] = queued[d] + 1
        /\ ~(d \in relay[w].inserts /\ hook[d[2]] # "deleted") => queued'[d] = queued[d]
    BY <1>0, <1>4, <2>0, CommitDoes
  <2>2. /\ queued[d] <= 1 /\ (queued[d] = 1 => outbox[d[1]] = "sent")
        /\ outbox[d[1]] = "sent" /\ hook[d[2]] = "on" => queued[d] = 1
    BY <1>0 DEF QueuedOnce
  <2>3. /\ d \in relay[w].inserts => d[1] \in relay[w].locked
        /\ d[1] \in relay[w].locked => outbox[d[1]] = "queued"
    BY <1>0 DEF RelayLocks
  <2>4. d[1] \in relay[w].locked /\ hook[d[2]] = "on" => d \in relay[w].inserts
    BY <1>0, <2>0, <2>1 DEF FannedOut
  <2>5. hook'[d[2]] = "on" => hook[d[2]] = "on"
    BY <1>1, <2>0
  <2>6. CASE d \in relay[w].inserts /\ hook[d[2]] # "deleted"
    <3>1. queued[d] = 0 /\ outbox'[d[1]] = "sent"
      BY <2>0, <2>1, <2>2, <2>3, <2>6
    <3> QED BY <2>1, <2>6, <3>1
  <2>7. CASE ~(d \in relay[w].inserts /\ hook[d[2]] # "deleted")
    BY <2>1, <2>2, <2>3, <2>4, <2>5, <2>7
  <2> QED BY <2>6, <2>7
<1>5. UNCHANGED queue => UNCHANGED <<outbox, queued>>
  BY DEF queue
<1> QED BY <1>2, <1>3, <1>4, <1>5, RelayMoves

\* Deliveries go with their endpoints.
LEMMA HooksStay ==
    ASSUME QueueInv, [Next]_vars
    PROVE  GoneWithHook'
<1> SUFFICES ASSUME NEW d \in Deliveries, hook'[d[2]] = "deleted" PROVE status'[d] = "absent"
  BY DEF GoneWithHook
<1>0. /\ TypeOK /\ d[1] \in Events /\ d[2] \in Hooks /\ d = <<d[1], d[2]>>
      /\ status \in [Deliveries -> Statuses] /\ hook \in [Hooks -> {"on", "disabled", "deleted"}]
      /\ hook[d[2]] = "deleted" => status[d] = "absent"
  BY DeliveryFields DEF QueueInv, TypeOK, Statuses, GoneWithHook
<1>1. ASSUME NEW h \in Hooks, DeleteHook(h) PROVE status'[d] = "absent"
  <2>1. Events \X {h} \in SUBSET Deliveries
    BY DEF Deliveries
  <2>2. d[2] = h => d \in Events \X {h}
    BY <1>0
  <2>3. d[2] # h => hook[d[2]] = "deleted"
    BY <1>0, <1>1 DEF DeleteHook
  <2> QED BY <1>0, <1>1, <2>1, <2>2, <2>3, WithoutDoes DEF DeleteHook
<1>2. ASSUME NEW w \in Workers, Settle(w) PROVE status'[d] = "absent"
  <2>1. PICK s \in sent[w] :
           /\ s.id \in Deliveries
           /\ \A x \in Deliveries \ {s.id} : status'[x] = status[x]
           /\ status[s.id] = "absent" => status'[s.id] = "absent"
           /\ hook' = hook \/ (hook[s.id[2]] # "deleted" /\ hook' = [hook EXCEPT ![s.id[2]] = "disabled"])
    BY <1>0, <1>2, SettleDoes
  <2>2. hook[d[2]] = "deleted"
    BY <1>0, <2>1
  <2> QED BY <1>0, <2>1, <2>2
<1>3. ASSUME NEW w \in Workers, RelayCommit(w) PROVE status'[d] = "absent"
  <2>1. hook' = hook
    BY <1>3 DEF RelayCommit, endpoints
  <2> QED BY <1>0, <1>3, <2>1, CommitDoes
<1>4. ASSUME NEW w \in Workers,
             \/ ClaimDue(w) \/ UnwrapFails(w) \/ SettleFails(w) \/ Crash(w)
             \/ \E c \in claimed[w], result \in Results : Send(w, c, result)
      PROVE  UNCHANGED <<hook, status>>
  BY <1>4 DEF ClaimDue, UnwrapFails, SettleFails, Crash, Send, endpoints
<1>5. ASSUME NEW x \in Deliveries, Replay(x) PROVE status'[d] = "absent"
  BY <1>0, <1>5 DEF Replay, endpoints
<1>6. ASSUME NEW x \in Deliveries, Purge(x) PROVE status'[d] = "absent"
  <2>1. hook' = hook /\ Without({x})
    BY <1>6 DEF Purge, endpoints
  <2> QED BY <1>0, <2>1, WithoutDoes
<1>7. Quiet => UNCHANGED <<hook, status>>
  BY DEF Quiet, endpoints, requests
<1> QED BY <1>0, <1>1, <1>2, <1>3, <1>4, <1>5, <1>6, <1>7, Steps

\* What is not queued stays untouched.
LEMMA NotYetStays ==
    ASSUME QueueInv, [Next]_vars
    PROVE  NotYet'
<1> SUFFICES ASSUME NEW d \in Deliveries, queued'[d] = 0
             PROVE  /\ status'[d] = "absent" /\ attempt'[d] = 0
                    /\ sends'[d] = 0 /\ doubled'[d] = 0
                    /\ \A v \in Workers : /\ \A c \in claimed'[v] : c.id # d
                                          /\ \A c \in sent'[v] : c.id # d
  BY DEF NotYet
<1>0. /\ TypeOK /\ queued[d] = 0 /\ status[d] = "absent" /\ attempt[d] = 0
      /\ sends[d] = 0 /\ doubled[d] = 0
      /\ \A v \in Workers : (\A c \in claimed[v] : c.id # d) /\ (\A c \in sent[v] : c.id # d)
  BY QueueStays DEF QueueInv, NotYet
<1>1. CASE Quiet
  BY <1>0, <1>1 DEF Quiet, requests
<1>2. ASSUME NEW w \in Workers, RelayCommit(w)
      PROVE  UNCHANGED <<attempt, requests, claimed, sent>> /\ status'[d] = "absent"
  BY <1>0, <1>2, CommitDoes
<1>3. ASSUME NEW w \in Workers, ClaimDue(w)
      PROVE  /\ UNCHANGED <<status, attempt, requests, sent>>
             /\ \A v \in Workers : \A c \in claimed'[v] : c.id # d
  BY <1>0, <1>3, ClaimDoes
<1>4. ASSUME NEW w \in Workers, NEW c \in claimed[w], NEW result \in Results, Send(w, c, result)
      PROVE  /\ UNCHANGED <<status, attempt>> /\ sends'[d] = 0 /\ doubled'[d] = 0
             /\ \A v \in Workers : /\ \A b \in claimed'[v] : b.id # d
                                   /\ \A b \in sent'[v] : b.id # d
  BY <1>0, <1>4, SendDoes
<1>5. ASSUME NEW w \in Workers, Settle(w)
      PROVE  /\ UNCHANGED <<requests, claimed>> /\ status'[d] = "absent" /\ attempt'[d] = 0
             /\ \A v \in Workers : \A b \in sent'[v] : b.id # d
  <2>1. PICK s \in sent[w] :
           /\ s.id \in Deliveries /\ UNCHANGED <<requests, claimed>>
           /\ sent' = [sent EXCEPT ![w] = {}]
           /\ \A x \in Deliveries \ {s.id} : status'[x] = status[x] /\ attempt'[x] = attempt[x]
    BY <1>0, <1>5, SettleDoes
  <2> QED BY <1>0, <2>1 DEF TypeOK
<1>6. ASSUME NEW w \in Workers, UnwrapFails(w) \/ SettleFails(w) \/ Crash(w)
      PROVE  /\ UNCHANGED <<status, attempt, requests>>
             /\ \A v \in Workers : claimed'[v] \subseteq claimed[v] /\ sent'[v] \subseteq sent[v]
  <2>1. /\ UNCHANGED <<status, attempt, requests>>
        /\ sent' = sent \/ sent' = [sent EXCEPT ![w] = {}]
        /\ \/ claimed' = claimed \/ claimed' = [claimed EXCEPT ![w] = {}]
           \/ \E c \in claimed[w] : claimed' = [claimed EXCEPT ![w] = @ \ {c}]
    BY <1>6 DEF UnwrapFails, SettleFails, Crash
  <2>2. claimed \in [Workers -> SUBSET ClaimRow] /\ sent \in [Workers -> SUBSET Sending]
    BY <1>0 DEF TypeOK, ClaimRow, Sending
  <2> QED BY <2>1, <2>2
<1>7. ASSUME NEW x \in Deliveries, Replay(x)
      PROVE  UNCHANGED <<requests, claimed, sent>> /\ status'[d] = "absent" /\ attempt'[d] = 0
  BY <1>0, <1>7 DEF Replay, TypeOK
<1>8. ASSUME NEW D \in SUBSET Deliveries, Without(D), UNCHANGED <<requests, claimed, sent>>
      PROVE  UNCHANGED <<requests, claimed, sent>> /\ status'[d] = "absent" /\ attempt'[d] = 0
  BY <1>0, <1>8, WithoutDoes
<1>9. ASSUME NEW x \in Deliveries, Purge(x)
      PROVE  UNCHANGED <<requests, claimed, sent>> /\ status'[d] = "absent" /\ attempt'[d] = 0
  BY <1>8, <1>9 DEF Purge
<1>10. ASSUME NEW h \in Hooks, DeleteHook(h)
       PROVE  UNCHANGED <<requests, claimed, sent>> /\ status'[d] = "absent" /\ attempt'[d] = 0
  <2>1. Events \X {h} \in SUBSET Deliveries
    BY DEF Deliveries
  <2> QED BY <1>8, <1>10, <2>1 DEF DeleteHook
<1> QED BY <1>0, <1>1, <1>2, <1>3, <1>4, <1>5, <1>6, <1>7, <1>9, <1>10, Steps
   DEF requests

-----------------------------------------------------------------------------
(* The endpoints.                                                          *)

\* What the outcomes of an endpoint say of its streak.
Streak(outcomes, n) ==
    /\ n <= Len(outcomes)
    /\ \A i \in Len(outcomes) - n + 1 .. Len(outcomes) : outcomes[i] = "failed"
    /\ n < Len(outcomes) => outcomes[Len(outcomes) - n] = "ok"

\* DisableAfter failures in a row are among them.
Struck(outcomes) ==
    \E i \in 1 .. Len(outcomes) - DisableAfter + 1 :
        \A j \in i .. i + DisableAfter - 1 : outcomes[j] = "failed"

\* DisabledByStreak says that of every endpoint.
LEMMA StreakIs ==
    DisabledByStreak <=>
        \A h \in Hooks : Streak(finals[h], failures[h]) /\ (hook[h] = "disabled" => Struck(finals[h]))
BY DEF DisabledByStreak, Streak, Struck

\* The same of the next state.
LEMMA StreakIsNext ==
    DisabledByStreak' <=>
        \A h \in Hooks : /\ Streak(finals'[h], failures'[h])
                         /\ hook'[h] = "disabled" => Struck(finals'[h])
BY DEF DisabledByStreak, Streak, Struck

\* A success ends the streak, a failure prolongs it, and what was struck stays so.
LEMMA StreakGoes ==
    ASSUME NEW s \in Seq({"ok", "failed"}), NEW n \in Nat, Streak(s, n)
    PROVE  /\ Streak(Append(s, "ok"), 0)
           /\ Streak(Append(s, "failed"), n + 1)
           /\ \A x \in {"ok", "failed"} : Struck(s) => Struck(Append(s, x))
           /\ n + 1 >= DisableAfter => Struck(Append(s, "failed"))
<1>0. /\ Len(s) \in Nat /\ DisableAfter \in Nat /\ DisableAfter > 0
      /\ \A x \in {"ok", "failed"} :
            /\ Len(Append(s, x)) = Len(s) + 1 /\ Append(s, x)[Len(s) + 1] = x
            /\ \A i \in 1 .. Len(s) : Append(s, x)[i] = s[i]
  BY LimitsAssumption
<1>1. Streak(Append(s, "ok"), 0)
  BY <1>0 DEF Streak
<1>2. Streak(Append(s, "failed"), n + 1)
  <2>1. ASSUME NEW i \in Len(s) + 1 - (n + 1) + 1 .. Len(s) + 1
        PROVE  Append(s, "failed")[i] = "failed"
    <3>1. CASE i = Len(s) + 1
      BY <1>0, <3>1
    <3>2. CASE i # Len(s) + 1
      <4>1. i \in Len(s) - n + 1 .. Len(s)
        BY <1>0, <3>2
      <4> QED BY <1>0, <4>1 DEF Streak
    <3> QED BY <3>1, <3>2
  <2> QED BY <1>0, <2>1 DEF Streak
<1>3. ASSUME NEW x \in {"ok", "failed"}, Struck(s) PROVE Struck(Append(s, x))
  <2>1. PICK i \in 1 .. Len(s) - DisableAfter + 1 :
            \A j \in i .. i + DisableAfter - 1 : s[j] = "failed"
    BY <1>3 DEF Struck
  <2>2. \A j \in i .. i + DisableAfter - 1 : j \in 1 .. Len(s)
    BY <1>0, <2>1
  <2>3. \A j \in i .. i + DisableAfter - 1 : Append(s, x)[j] = "failed"
    BY <1>0, <2>1, <2>2
  <2>4. i \in 1 .. Len(Append(s, x)) - DisableAfter + 1
    BY <1>0, <2>1
  <2> QED BY <2>3, <2>4 DEF Struck
<1>4. ASSUME n + 1 >= DisableAfter PROVE Struck(Append(s, "failed"))
  <2> DEFINE t == Append(s, "failed")
             i == Len(s) + 1 - DisableAfter + 1
  <2>1. n <= Len(s) /\ \A j \in Len(t) - (n + 1) + 1 .. Len(t) : t[j] = "failed"
    BY <1>2 DEF Streak
  <2>2. i \in 1 .. Len(t) - DisableAfter + 1
    BY <1>0, <1>4, <2>1
  <2>3. \A j \in i .. i + DisableAfter - 1 : t[j] = "failed"
    BY <1>0, <1>4, <2>1
  <2> QED BY <2>2, <2>3 DEF Struck
<1> QED BY <1>1, <1>2, <1>3, <1>4

\* The endpoints change when an outcome is recorded, and when one is deleted.
LEMMA EndpointMoves ==
    ASSUME [Next]_vars
    PROVE  \/ UNCHANGED endpoints
           \/ \E w \in Workers : \E s \in sent[w] :
                 MarkDelivered(s.id) \/ \E final \in {"dead", "failed"} : MarkFailed(s.id, final)
           \/ \E h \in Hooks : DeleteHook(h)
<1>1. ASSUME NEW w \in Workers, Settle(w)
      PROVE  \/ UNCHANGED endpoints
             \/ \E s \in sent[w] :
                   MarkDelivered(s.id) \/ \E final \in {"dead", "failed"} : MarkFailed(s.id, final)
  BY <1>1 DEF Settle, MarkRetry
<1>2. ASSUME NEW w \in Workers,
             \/ RelayCommit(w) \/ ClaimDue(w) \/ UnwrapFails(w) \/ SettleFails(w) \/ Crash(w)
             \/ \E c \in claimed[w], result \in Results : Send(w, c, result)
      PROVE  UNCHANGED endpoints
  BY <1>2 DEF RelayCommit, ClaimDue, UnwrapFails, SettleFails, Crash, Send
<1>3. ASSUME NEW d \in Deliveries, Replay(d) \/ Purge(d) PROVE UNCHANGED endpoints
  BY <1>3 DEF Replay, Purge
<1>4. Quiet => UNCHANGED endpoints
  BY DEF Quiet
<1> QED BY <1>1, <1>2, <1>3, <1>4, Steps

\* The streak is counted right, and disables an endpoint when it is long enough.
LEMMA StreakStays ==
    ASSUME TypeOK, DisabledByStreak, [Next]_vars
    PROVE  DisabledByStreak'
<1> SUFFICES ASSUME NEW h \in Hooks
             PROVE  Streak(finals'[h], failures'[h]) /\ (hook'[h] = "disabled" => Struck(finals'[h]))
  BY StreakIsNext
<1>0. /\ hook \in [Hooks -> {"on", "disabled", "deleted"}] /\ failures \in [Hooks -> Nat]
      /\ finals \in [Hooks -> Seq({"ok", "failed"})]
      /\ Streak(finals[h], failures[h]) /\ (hook[h] = "disabled" => Struck(finals[h]))
  BY StreakIs DEF TypeOK
<1>1. CASE UNCHANGED endpoints
  BY <1>0, <1>1 DEF endpoints
<1>2. ASSUME NEW g \in Hooks, DeleteHook(g)
      PROVE  Streak(finals'[h], failures'[h]) /\ (hook'[h] = "disabled" => Struck(finals'[h]))
  BY <1>0, <1>2 DEF DeleteHook
<1>3. ASSUME NEW w \in Workers, NEW s \in sent[w], MarkDelivered(s.id)
      PROVE  Streak(finals'[h], failures'[h]) /\ (hook'[h] = "disabled" => Struck(finals'[h]))
  <2>1. /\ failures' = [failures EXCEPT ![s.id[2]] = 0] /\ hook' = hook
        /\ finals' = [finals EXCEPT ![s.id[2]] = Append(finals[s.id[2]], "ok")]
    BY <1>3 DEF MarkDelivered
  <2>2. CASE s.id[2] = h
    <3>1. failures'[h] = 0 /\ finals'[h] = Append(finals[h], "ok")
      BY <1>0, <2>1, <2>2
    <3> QED BY <1>0, <2>1, <3>1, StreakGoes
  <2>3. CASE s.id[2] # h
    BY <1>0, <2>1, <2>3
  <2> QED BY <2>2, <2>3
<1>4. ASSUME NEW w \in Workers, NEW s \in sent[w], NEW final \in {"dead", "failed"},
             MarkFailed(s.id, final)
      PROVE  Streak(finals'[h], failures'[h]) /\ (hook'[h] = "disabled" => Struck(finals'[h]))
  <2>0. CASE hook[s.id[2]] = "deleted"
    BY <1>1, <1>4, <2>0 DEF MarkFailed
  <2>1. CASE hook[s.id[2]] # "deleted"
    <3>1. /\ failures' = [failures EXCEPT ![s.id[2]] = failures[s.id[2]] + 1]
          /\ finals' = [finals EXCEPT ![s.id[2]] = Append(finals[s.id[2]], "failed")]
          /\ hook' = IF failures[s.id[2]] + 1 >= DisableAfter
                     THEN [hook EXCEPT ![s.id[2]] = "disabled"] ELSE hook
      BY <1>4, <2>1 DEF MarkFailed
    <3>2. CASE s.id[2] = h
      <4>1. failures'[h] = failures[h] + 1 /\ finals'[h] = Append(finals[h], "failed")
        BY <1>0, <3>1, <3>2
      <4>2. hook'[h] = "disabled" => hook[h] = "disabled" \/ failures[h] + 1 >= DisableAfter
        BY <1>0, <3>1, <3>2
      <4> QED BY <1>0, <4>1, <4>2, StreakGoes
    <3>3. CASE s.id[2] # h
      BY <1>0, <3>1, <3>3
    <3> QED BY <3>2, <3>3
  <2> QED BY <2>0, <2>1
<1> QED BY <1>1, <1>2, <1>3, <1>4, EndpointMoves

-----------------------------------------------------------------------------
(* The sends.                                                              *)

\* A relay that commits changes what has not been queued yet.
LEMMA CommitsTheNew ==
    ASSUME QueueInv, NEW w \in Workers, RelayCommit(w), NEW d \in Deliveries, status'[d] # status[d]
    PROVE  queued[d] = 0 /\ status'[d] = "pending"
<1>0. TypeOK /\ RelayLocks /\ QueuedOnce /\ queued[d] \in Nat
  BY DEF QueueInv, TypeOK
<1>1. d \in relay[w].inserts /\ status'[d] = "pending"
  BY <1>0, CommitDoes
<1>2. outbox[d[1]] = "queued"
  BY <1>0, <1>1 DEF RelayLocks
<1>3. queued[d] <= 1 /\ (queued[d] = 1 => outbox[d[1]] = "sent")
  BY <1>0 DEF QueuedOnce
<1> QED BY <1>0, <1>1, <1>2, <1>3

\* What a worker claimed or sent is forgotten when it dies, cannot unwrap the
\* secret, or cannot record the outcome.
LEMMA ForgetDoes ==
    ASSUME TypeOK, NEW w \in Workers, UnwrapFails(w) \/ SettleFails(w) \/ Crash(w)
    PROVE  /\ UNCHANGED <<queued, status, attempt, requests, endpoints, replays>>
           /\ fails' = fails + 1
           /\ \A v \in Workers : claimed'[v] \subseteq claimed[v] /\ sent'[v] \subseteq sent[v]
<1>1. /\ UNCHANGED <<queued, status, attempt, requests, endpoints, replays>>
      /\ fails' = fails + 1
      /\ sent' = sent \/ sent' = [sent EXCEPT ![w] = {}]
      /\ \/ claimed' = claimed \/ claimed' = [claimed EXCEPT ![w] = {}]
         \/ \E c \in claimed[w] : claimed' = [claimed EXCEPT ![w] = @ \ {c}]
  BY DEF UnwrapFails, SettleFails, Crash, queue
<1>2. claimed \in [Workers -> SUBSET ClaimRow] /\ sent \in [Workers -> SUBSET Sending]
  BY DEF TypeOK, ClaimRow, Sending
<1> QED BY <1>1, <1>2

\* Replay starts over with one that was given up.
LEMMA ReplayDoes ==
    ASSUME TypeOK, NEW x \in Deliveries, Replay(x)
    PROVE  /\ status[x] \in {"dead", "failed"} /\ status'[x] = "pending" /\ attempt'[x] = 0
           /\ \A d \in Deliveries \ {x} : status'[d] = status[d] /\ attempt'[d] = attempt[d]
           /\ replays' = replays + 1
           /\ UNCHANGED <<queue, requests, endpoints, claimed, sent, fails>>
BY DEF Replay, TypeOK

\* Purge and DeleteHook delete deliveries.
LEMMA DeletesDo ==
    ASSUME TypeOK, \/ \E d \in Deliveries : Purge(d)
                   \/ \E h \in Hooks : DeleteHook(h)
    PROVE  /\ UNCHANGED <<queue, requests, claimed, sent, replays, fails>>
           /\ \A d \in Deliveries : \/ status'[d] = "absent" /\ attempt'[d] = 0
                                    \/ status'[d] = status[d] /\ attempt'[d] = attempt[d]
<1>1. ASSUME NEW D \in SUBSET Deliveries, Without(D)
      PROVE  \A d \in Deliveries : \/ status'[d] = "absent" /\ attempt'[d] = 0
                                   \/ status'[d] = status[d] /\ attempt'[d] = attempt[d]
  BY <1>1, WithoutDoes
<1>2. ASSUME NEW d \in Deliveries, Purge(d)
      PROVE  UNCHANGED <<queue, requests, claimed, sent, replays, fails>>
             /\ \E D \in SUBSET Deliveries : Without(D)
  <2>1. {d} \in SUBSET Deliveries
    OBVIOUS
  <2> QED BY <1>2, <2>1 DEF Purge
<1>3. ASSUME NEW h \in Hooks, DeleteHook(h)
      PROVE  UNCHANGED <<queue, requests, claimed, sent, replays, fails>>
             /\ \E D \in SUBSET Deliveries : Without(D)
  <2>1. Events \X {h} \in SUBSET Deliveries
    BY DEF Deliveries
  <2> QED BY <1>3, <2>1 DEF DeleteHook
<1>4. UNCHANGED <<queue, requests, claimed, sent, replays, fails>>
      /\ \E D \in SUBSET Deliveries : Without(D)
  BY <1>2, <1>3
<1>5. PICK D \in SUBSET Deliveries : Without(D)
  BY <1>4
<1> QED BY <1>1, <1>4, <1>5

\* What is left of the attempts.
LEMMA LowIs ==
    ASSUME NEW n \in Nat
    PROVE  /\ Low(n) \in Nat /\ Low(n) <= n /\ Low(n) + 1 <= MaxAttempts
           /\ n + 1 < MaxAttempts => Low(n) = n
           /\ \A m \in Nat : n <= m => Low(n) <= Low(m)
BY LimitsAssumption DEF Low

\* A replay more is MaxAttempts requests more.
LEMMA BudgetGrows ==
    ASSUME NEW n \in Nat
    PROVE  /\ MaxAttempts * n \in Nat /\ MaxAttempts \in Nat
           /\ MaxAttempts * (1 + n) = MaxAttempts * n + MaxAttempts
           /\ MaxAttempts * (n + 1) = MaxAttempts * n + MaxAttempts
BY LimitsAssumption

\* What a worker has sent it has held before the step.
LEMMA SentStays ==
    ASSUME TypeOK, NEW w \in Workers, Settle(w)
    PROVE  /\ claimed' = claimed /\ sent'[w] = {}
           /\ \A v \in Workers \ {w} : sent'[v] = sent[v]
BY DEF Settle, TypeOK

\* Nobody holds more than before, unless it claims, or sends what it holds.
LEMMA HeldMoves ==
    ASSUME TypeOK, [Next]_vars
    PROVE  \/ \A v \in Workers : claimed'[v] \subseteq claimed[v] /\ sent'[v] \subseteq sent[v]
           \/ \E w \in Workers : ClaimDue(w)
           \/ \E w \in Workers : \E c \in claimed[w], result \in Results : Send(w, c, result)
<1>1. ASSUME NEW w \in Workers, Settle(w)
      PROVE  \A v \in Workers : claimed'[v] \subseteq claimed[v] /\ sent'[v] \subseteq sent[v]
  BY <1>1, SentStays
<1>2. ASSUME NEW w \in Workers, UnwrapFails(w) \/ SettleFails(w) \/ Crash(w)
      PROVE  \A v \in Workers : claimed'[v] \subseteq claimed[v] /\ sent'[v] \subseteq sent[v]
  BY <1>2, ForgetDoes
<1>3. ASSUME NEW w \in Workers, RelayCommit(w) PROVE UNCHANGED <<claimed, sent>>
  BY <1>3 DEF RelayCommit
<1>4. ASSUME NEW d \in Deliveries, Replay(d) \/ Purge(d) PROVE UNCHANGED <<claimed, sent>>
  BY <1>4 DEF Replay, Purge
<1>5. ASSUME NEW h \in Hooks, DeleteHook(h) PROVE UNCHANGED <<claimed, sent>>
  BY <1>5 DEF DeleteHook
<1>6. Quiet => UNCHANGED <<claimed, sent>>
  BY DEF Quiet
<1> QED BY <1>1, <1>2, <1>3, <1>4, <1>5, <1>6, Steps

\* What a worker holds stay different deliveries.
LEMMA ApartStay ==
    ASSUME TypeOK, OwnApart, [Next]_vars
    PROVE  OwnApart'
<1>1. CASE \A v \in Workers : claimed'[v] \subseteq claimed[v] /\ sent'[v] \subseteq sent[v]
  BY <1>1 DEF OwnApart
<1>2. ASSUME NEW w \in Workers, ClaimDue(w) PROVE OwnApart'
  <2>1. /\ \A v \in Workers \ {w} : claimed'[v] = claimed[v]
        /\ sent[w] = {} /\ UNCHANGED sent
        /\ \A b, c \in claimed'[w] : b.id = c.id => b = c
    BY <1>2, ClaimDoes
  <2> QED BY <2>1 DEF OwnApart
<1>3. ASSUME NEW w \in Workers, NEW c \in claimed[w], NEW result \in Results, Send(w, c, result)
      PROVE  OwnApart'
  <2>1. /\ claimed'[w] = claimed[w] \ {c}
        /\ \A v \in Workers \ {w} : claimed'[v] = claimed[v] /\ sent'[v] = sent[v]
        /\ \A s \in sent'[w] : s.id = c.id
    BY <1>3, SendDoes
  <2> QED BY <2>1 DEF OwnApart
<1> QED BY <1>1, <1>2, <1>3, HeldMoves

\* Of two that hold one delivery one has claimed it after the other.
LEMMA OneFirstStays ==
    ASSUME TypeOK, OneFirst, [Next]_vars
    PROVE  OneFirst'
<1> SUFFICES ASSUME NEW v \in Workers, NEW w \in Workers, v # w,
                    NEW b \in claimed'[v] \cup sent'[v], NEW c \in claimed'[w] \cup sent'[w],
                    b.id = c.id
             PROVE  b.again \/ c.again
  BY DEF OneFirst
<1>1. CASE \A u \in Workers : claimed'[u] \subseteq claimed[u] /\ sent'[u] \subseteq sent[u]
  BY <1>1 DEF OneFirst
<1>2. ASSUME NEW u \in Workers, ClaimDue(u) PROVE b.again \/ c.again
  <2>1. /\ \A x \in Workers \ {u} : claimed'[x] = claimed[x]
        /\ sent[u] = {} /\ UNCHANGED sent
        /\ \A y \in claimed'[u] : y.again <=> \E x \in Workers \ {u} : Holds(x, y.id)
    BY <1>2, ClaimDoes
  <2>2. CASE u = v
    <3>1. b \in claimed'[v] /\ c \in claimed[w] \cup sent[w]
      BY <2>1, <2>2
    <3> QED BY <2>1, <2>2, <3>1 DEF Holds
  <2>3. CASE u = w
    <3>1. c \in claimed'[w] /\ b \in claimed[v] \cup sent[v]
      BY <2>1, <2>3
    <3> QED BY <2>1, <2>3, <3>1 DEF Holds
  <2>4. CASE u # v /\ u # w
    BY <2>1, <2>4 DEF OneFirst
  <2> QED BY <2>2, <2>3, <2>4
<1>3. ASSUME NEW u \in Workers, NEW y \in claimed[u], NEW result \in Results, Send(u, y, result)
      PROVE  b.again \/ c.again
  <2>1. /\ claimed'[u] = claimed[u] \ {y}
        /\ \A x \in Workers \ {u} : claimed'[x] = claimed[x] /\ sent'[x] = sent[x]
        /\ \A s \in sent'[u] : s.id = y.id /\ s.again = y.again
    BY <1>3, SendDoes
  <2>2. ASSUME NEW x \in Workers, NEW z \in claimed'[x] \cup sent'[x]
        PROVE  \E o \in claimed[x] \cup sent[x] : o.id = z.id /\ o.again = z.again
    BY <2>1
  <2>3. PICK p \in claimed[v] \cup sent[v] : p.id = b.id /\ p.again = b.again
    BY <2>2
  <2>4. PICK q \in claimed[w] \cup sent[w] : q.id = c.id /\ q.again = c.again
    BY <2>2
  <2> QED BY <2>3, <2>4 DEF OneFirst
<1> QED BY <1>1, <1>2, <1>3, HeldMoves

\* The budgets are numbers.
LEMMA BudgetIs ==
    ASSUME TypeOK, TypeOK', NEW d \in Deliveries
    PROVE  /\ Budget(d) \in Nat /\ Budget(d)' \in Nat
           /\ replays' = replays =>
                 Budget(d)' + fails + doubled[d] = Budget(d) + fails' + doubled'[d]
           /\ replays' = replays + 1 =>
                 Budget(d)' + fails + doubled[d] = Budget(d) + MaxAttempts + fails' + doubled'[d]
           /\ fails \in Nat /\ fails' \in Nat /\ doubled[d] \in Nat /\ doubled'[d] \in Nat
           /\ sends[d] \in Nat /\ attempt[d] \in Nat
<1>1. /\ replays \in Nat /\ fails \in Nat /\ doubled[d] \in Nat
      /\ sends[d] \in Nat /\ attempt[d] \in Nat
  BY BoundsAssumption DEF TypeOK
<1>2. replays' \in Nat /\ fails' \in Nat /\ doubled'[d] \in Nat
  BY BoundsAssumption DEF TypeOK
<1>3. /\ MaxAttempts * replays \in Nat /\ MaxAttempts \in Nat
      /\ MaxAttempts * (replays + 1) = MaxAttempts * replays + MaxAttempts
  BY <1>1, BudgetGrows
<1>4. MaxAttempts * replays' \in Nat
  BY <1>2, BudgetGrows
<1>5. Budget(d) = MaxAttempts * replays + fails + doubled[d]
  BY DEF Budget
<1>6. Budget(d)' = MaxAttempts * replays' + fails' + doubled'[d]
  BY DEF Budget
<1>7. CASE replays' = replays
  <2>1. MaxAttempts * replays' = MaxAttempts * replays
    BY <1>7
  <2> QED BY <1>1, <1>2, <1>3, <1>4, <1>5, <1>6, <1>7, <2>1
<1>8. CASE replays' = replays + 1
  <2>1. MaxAttempts * replays' = MaxAttempts * replays + MaxAttempts
    BY <1>3, <1>8
  <2> QED BY <1>1, <1>2, <1>3, <1>4, <1>5, <1>6, <1>8, <2>1
<1> QED BY <1>1, <1>2, <1>3, <1>4, <1>5, <1>6, <1>7, <1>8

\* What is held, and what is read of it, are numbers.
LEMMA HeldIs ==
    ASSUME TypeOK, NEW w \in Workers, NEW c \in claimed[w] \cup sent[w]
    PROVE  c.id \in Deliveries /\ c.attempt \in Nat /\ c.again \in BOOLEAN
BY DEF TypeOK

\* A step that holds no more, sends nothing and lets no attempt go leaves room.
LEMMA RoomKept ==
    ASSUME TypeOK, NEW d \in Deliveries, NEW b \in Nat, NEW k \in Nat, Room(d, b), b <= k,
           sends'[d] = sends[d],
           status'[d] = "pending" => status[d] = "pending" /\ attempt[d] <= attempt'[d],
           attempt'[d] \in Nat,
           \A w \in Workers : claimed'[w] \subseteq claimed[w] /\ sent'[w] \subseteq sent[w],
           \/ FirstHeld(d)' \/ ~FirstHeld(d)
           \/ b + 1 <= k
    PROVE  /\ sends'[d] <= k + MaxAttempts
           /\ status'[d] = "pending" /\ ~FirstHeld(d)' => sends'[d] <= k + Low(attempt'[d])
           /\ \A w \in Workers : \A c \in claimed'[w] : c.id = d /\ ~c.again =>
                 /\ sends'[d] <= k + Low(c.attempt)
                 /\ status'[d] = "pending" => c.attempt <= attempt'[d] \/ sends'[d] + 1 <= k
           /\ \A w \in Workers : \A s \in sent'[w] : s.id = d /\ ~s.again =>
                 /\ sends'[d] <= k + Low(s.attempt) + 1
                 /\ status'[d] = "pending" => s.attempt <= attempt'[d] \/ sends'[d] <= k
<1>0. sends[d] \in Nat /\ attempt[d] \in Nat /\ MaxAttempts \in Nat
  BY LimitsAssumption DEF TypeOK
<1>1. sends'[d] <= k + MaxAttempts
  BY <1>0 DEF Room
<1>2. ASSUME NEW w \in Workers, NEW c \in claimed'[w], c.id = d, ~c.again
      PROVE  /\ sends'[d] <= k + Low(c.attempt)
             /\ status'[d] = "pending" => c.attempt <= attempt'[d] \/ sends'[d] + 1 <= k
  <2>1. /\ c \in claimed[w] /\ c.attempt \in Nat /\ Low(c.attempt) \in Nat
        /\ sends[d] <= b + Low(c.attempt)
        /\ status[d] = "pending" => c.attempt <= attempt[d] \/ sends[d] + 1 <= b
    BY <1>2, HeldIs, LowIs DEF Room
  <2> QED BY <1>0, <2>1
<1>3. ASSUME NEW w \in Workers, NEW s \in sent'[w], s.id = d, ~s.again
      PROVE  /\ sends'[d] <= k + Low(s.attempt) + 1
             /\ status'[d] = "pending" => s.attempt <= attempt'[d] \/ sends'[d] <= k
  <2>1. /\ s \in sent[w] /\ s.attempt \in Nat /\ Low(s.attempt) \in Nat
        /\ sends[d] <= b + Low(s.attempt) + 1
        /\ status[d] = "pending" => s.attempt <= attempt[d] \/ sends[d] <= b
    BY <1>3, HeldIs, LowIs DEF Room
  <2> QED BY <1>0, <2>1
<1>4. ASSUME status'[d] = "pending", ~FirstHeld(d)' PROVE sends'[d] <= k + Low(attempt'[d])
  <2>0. /\ status[d] = "pending" /\ attempt[d] <= attempt'[d]
        /\ Low(attempt[d]) \in Nat /\ Low(attempt'[d]) \in Nat
        /\ Low(attempt[d]) <= Low(attempt'[d])
    BY <1>0, <1>4, LowIs
  <2>1. CASE ~FirstHeld(d)
    BY <1>0, <2>0, <2>1 DEF Room
  <2>2. CASE FirstHeld(d)
    <3>1. b + 1 <= k
      BY <1>4, <2>2
    <3>2. PICK w \in Workers : \E c \in claimed[w] \cup sent[w] : c.id = d /\ ~c.again
      BY <2>2 DEF FirstHeld
    <3>3. PICK c \in claimed[w] \cup sent[w] : c.id = d /\ ~c.again
      BY <3>2
    <3>4. /\ c.attempt \in Nat /\ Low(c.attempt) \in Nat
          /\ c.attempt <= attempt[d] => Low(c.attempt) <= Low(attempt[d])
      BY <1>0, HeldIs, LowIs
    <3>5. /\ sends[d] <= b + Low(c.attempt) + 1
          /\ c.attempt <= attempt[d] \/ sends[d] <= b
      BY <1>0, <2>0, <3>3, <3>4 DEF Room
    <3> QED BY <1>0, <2>0, <3>1, <3>4, <3>5
  <2> QED BY <2>1, <2>2
<1> QED BY <1>1, <1>2, <1>3, <1>4

\* The requests add up after every step.
LEMMA SendsStay ==
    ASSUME QueueInv, TypeOK', OwnApart, OneFirst, SendsCounted, [Next]_vars
    PROVE  SendsCounted'
<1> SUFFICES ASSUME NEW d \in Deliveries PROVE Room(d, Budget(d))'
  BY DEF SendsCounted
<1> DEFINE b == Budget(d)
           k == Budget(d)'
           Fits ==
             /\ sends'[d] <= k + MaxAttempts
             /\ status'[d] = "pending" /\ ~FirstHeld(d)' => sends'[d] <= k + Low(attempt'[d])
             /\ \A w \in Workers : \A c \in claimed'[w] : c.id = d /\ ~c.again =>
                   /\ sends'[d] <= k + Low(c.attempt)
                   /\ status'[d] = "pending" => c.attempt <= attempt'[d] \/ sends'[d] + 1 <= k
             /\ \A w \in Workers : \A s \in sent'[w] : s.id = d /\ ~s.again =>
                   /\ sends'[d] <= k + Low(s.attempt) + 1
                   /\ status'[d] = "pending" => s.attempt <= attempt'[d] \/ sends'[d] <= k
<1> SUFFICES Fits
  BY DEF Room, Low
<1>a. /\ b \in Nat /\ k \in Nat
      /\ replays' = replays => k + fails + doubled[d] = b + fails' + doubled'[d]
      /\ replays' = replays + 1 => k + fails + doubled[d] = b + MaxAttempts + fails' + doubled'[d]
      /\ fails \in Nat /\ fails' \in Nat /\ doubled[d] \in Nat /\ doubled'[d] \in Nat
      /\ sends[d] \in Nat /\ attempt[d] \in Nat /\ attempt'[d] \in Nat
      /\ MaxAttempts \in Nat /\ MaxAttempts > 0
  <2>1. attempt'[d] \in Nat
    BY DEF TypeOK
  <2> QED BY <2>1, BudgetIs, LimitsAssumption DEF QueueInv
<1>b. Room(d, b)
  BY DEF SendsCounted
<1>0. TypeOK /\ NotYet /\ GoneWithHook
  BY DEF QueueInv
<1> HIDE DEF b, k
<1>1. ASSUME Quiet PROVE Fits
  <2>1. /\ UNCHANGED <<status, attempt, sends, doubled, claimed, sent, replays>>
        /\ fails' = fails \/ fails' = fails + 1
    BY <1>1 DEF Quiet, requests
  <2>2. (FirstHeld(d)' <=> FirstHeld(d)) /\ b <= k
    BY <1>a, <2>1 DEF FirstHeld
  <2> QED BY <1>0, <1>a, <1>b, <2>1, <2>2, RoomKept
<1>2. ASSUME NEW w \in Workers, RelayCommit(w) PROVE Fits
  <2>1. UNCHANGED <<attempt, sends, doubled, claimed, sent, replays, fails>>
    BY <1>2 DEF RelayCommit, requests
  <2>2. (FirstHeld(d)' <=> FirstHeld(d)) /\ b <= k
    BY <1>a, <2>1 DEF FirstHeld
  <2>3. CASE status'[d] = status[d]
    BY <1>0, <1>a, <1>b, <2>1, <2>2, <2>3, RoomKept
  <2>4. CASE status'[d] # status[d]
    <3>1. queued[d] = 0
      BY <1>2, <2>4, CommitsTheNew
    <3>2. sends[d] = 0 /\ \A v \in Workers : \A c \in claimed[v] \cup sent[v] : c.id # d
      BY <1>0, <3>1 DEF NotYet
    <3>3. Low(attempt'[d]) \in Nat
      BY <1>a, LowIs
    <3> QED BY <1>a, <2>1, <3>2, <3>3
  <2> QED BY <2>3, <2>4
<1>3. ASSUME NEW w \in Workers, ClaimDue(w) PROVE Fits
  <2>1. /\ sent[w] = {} /\ UNCHANGED <<status, attempt, sends, doubled, sent, replays, fails>>
        /\ \A v \in Workers \ {w} : claimed'[v] = claimed[v]
        /\ claimed[w] = {}
        /\ \A c \in claimed'[w] : /\ status[c.id] = "pending" /\ c.attempt = attempt[c.id]
                                  /\ c.again <=> \E v \in Workers \ {w} : Holds(v, c.id)
    BY <1>0, <1>3, ClaimDoes DEF requests
  <2>2. k = b
    BY <1>a, <2>1
  <2>3. FirstHeld(d) => FirstHeld(d)'
    BY <2>1 DEF FirstHeld
  <2>4. ASSUME NEW c \in claimed'[w], c.id = d, ~c.again PROVE sends[d] <= b + Low(attempt[d])
    <3>1. ~FirstHeld(d)
      BY <2>1, <2>4 DEF FirstHeld, Holds
    <3> QED BY <1>b, <2>1, <2>4, <3>1 DEF Room
  <2>5. ASSUME NEW c \in claimed'[w], c.id = d, ~c.again
        PROVE  sends'[d] <= k + Low(c.attempt) /\ c.attempt <= attempt'[d]
    BY <1>a, <2>1, <2>2, <2>4, <2>5
  <2>6. ASSUME NEW v \in Workers, NEW c \in claimed'[v], c.id = d, ~c.again
        PROVE  /\ sends'[d] <= k + Low(c.attempt)
               /\ status'[d] = "pending" => c.attempt <= attempt'[d] \/ sends'[d] + 1 <= k
    <3>1. CASE v = w
      BY <2>5, <2>6, <3>1
    <3>2. CASE v # w
      BY <1>b, <2>1, <2>2, <2>6, <3>2 DEF Room
    <3> QED BY <3>1, <3>2
  <2>7. sends'[d] <= k + MaxAttempts
    BY <1>b, <2>1, <2>2 DEF Room
  <2>8. status'[d] = "pending" /\ ~FirstHeld(d)' => sends'[d] <= k + Low(attempt'[d])
    <3>1. status[d] = "pending" /\ ~FirstHeld(d) => sends[d] <= b + Low(attempt[d])
      BY <1>b DEF Room
    <3>2. Low(attempt[d])' = Low(attempt'[d])
      BY DEF Low
    <3> QED BY <2>1, <2>2, <2>3, <3>1
  <2>9. ASSUME NEW v \in Workers, NEW s \in sent'[v], s.id = d, ~s.again
        PROVE  /\ sends'[d] <= k + Low(s.attempt) + 1
               /\ status'[d] = "pending" => s.attempt <= attempt'[d] \/ sends'[d] <= k
    BY <1>b, <2>1, <2>2, <2>9 DEF Room
  <2> QED BY <2>6, <2>7, <2>8, <2>9
<1>4. ASSUME NEW w \in Workers, NEW x \in claimed[w], NEW result \in Results, Send(w, x, result)
      PROVE  Fits
  <2>1. /\ x.id \in Deliveries /\ sent[w] = {}
        /\ claimed'[w] = claimed[w] \ {x}
        /\ \A v \in Workers \ {w} : claimed'[v] = claimed[v] /\ sent'[v] = sent[v]
        /\ \A s \in sent'[w] : s.id = x.id /\ s.attempt = x.attempt /\ s.again = x.again
        /\ \E s \in sent'[w] : s.id = x.id /\ s.again = x.again
        /\ sends'[x.id] = sends[x.id] + 1
        /\ doubled'[x.id] = IF x.again THEN doubled[x.id] + 1 ELSE doubled[x.id]
        /\ \A y \in Deliveries \ {x.id} : sends'[y] = sends[y] /\ doubled'[y] = doubled[y]
        /\ UNCHANGED <<status, attempt, replays, fails>>
    BY <1>0, <1>4, SendDoes
  <2>2. FirstHeld(d)' <=> FirstHeld(d)
    <3>1. ASSUME NEW v \in Workers
          PROVE  (\E c \in claimed'[v] \cup sent'[v] : c.id = d /\ ~c.again)
                    <=> (\E c \in claimed[v] \cup sent[v] : c.id = d /\ ~c.again)
      BY <2>1
    <3> QED BY <3>1 DEF FirstHeld
  <2>3. CASE x.id = d /\ ~x.again
    <3>1. sends'[d] = sends[d] + 1 /\ k = b
      BY <1>a, <2>1, <2>3
    <3>2. /\ x.attempt \in Nat /\ Low(x.attempt) \in Nat /\ Low(x.attempt) + 1 <= MaxAttempts
          /\ sends[d] <= b + Low(x.attempt)
          /\ status[d] = "pending" => x.attempt <= attempt[d] \/ sends[d] + 1 <= b
      BY <1>0, <1>b, <2>3, HeldIs, LowIs DEF Room
    <3>3. FirstHeld(d)'
      BY <2>2, <2>3 DEF FirstHeld
    <3>4. ASSUME NEW v \in Workers, NEW c \in claimed'[v], c.id = d PROVE c.again
      <4>1. CASE v = w
        BY <2>1, <2>3, <3>4, <4>1 DEF OwnApart
      <4>2. CASE v # w
        BY <2>1, <2>3, <3>4, <4>2 DEF OneFirst
      <4> QED BY <4>1, <4>2
    <3>5. ASSUME NEW v \in Workers, NEW s \in sent'[v], s.id = d, ~s.again
          PROVE  s.attempt = x.attempt
      <4>1. v = w
        BY <2>1, <2>3, <3>5 DEF OneFirst
      <4> QED BY <2>1, <4>1
    <3>6. /\ sends'[d] <= k + Low(x.attempt) + 1
          /\ status'[d] = "pending" => x.attempt <= attempt'[d] \/ sends'[d] <= k
      BY <1>a, <2>1, <3>1, <3>2
    <3>7. sends'[d] <= k + MaxAttempts
      BY <1>a, <3>1, <3>2
    <3> QED BY <3>3, <3>4, <3>5, <3>6, <3>7
  <2>4. CASE x.id # d \/ x.again
    <3>1. \/ sends'[d] = sends[d] /\ k = b
          \/ sends'[d] = sends[d] + 1 /\ k = b + 1
      BY <1>a, <2>1, <2>4
    <3>2. ASSUME NEW v \in Workers, NEW c \in claimed'[v], c.id = d, ~c.again
          PROVE  /\ sends'[d] <= k + Low(c.attempt)
                 /\ status'[d] = "pending" => c.attempt <= attempt'[d] \/ sends'[d] + 1 <= k
      <4>1. c \in claimed[v] /\ c.attempt \in Nat /\ Low(c.attempt) \in Nat
        BY <1>0, <2>1, HeldIs, LowIs
      <4>2. /\ sends[d] <= b + Low(c.attempt)
            /\ status[d] = "pending" => c.attempt <= attempt[d] \/ sends[d] + 1 <= b
        BY <1>b, <3>2, <4>1 DEF Room
      <4> QED BY <1>a, <2>1, <3>1, <4>1, <4>2
    <3>3. ASSUME NEW v \in Workers, NEW s \in sent'[v], s.id = d, ~s.again
          PROVE  /\ sends'[d] <= k + Low(s.attempt) + 1
                 /\ status'[d] = "pending" => s.attempt <= attempt'[d] \/ sends'[d] <= k
      <4>1. s \in sent[v] /\ s.attempt \in Nat /\ Low(s.attempt) \in Nat
        BY <1>0, <2>1, <2>4, <3>3, HeldIs, LowIs
      <4>2. /\ sends[d] <= b + Low(s.attempt) + 1
            /\ status[d] = "pending" => s.attempt <= attempt[d] \/ sends[d] <= b
        BY <1>b, <3>3, <4>1 DEF Room
      <4> QED BY <1>a, <2>1, <3>1, <4>1, <4>2
    <3>4. sends'[d] <= k + MaxAttempts
      BY <1>a, <1>b, <3>1 DEF Room
    <3>5. status'[d] = "pending" /\ ~FirstHeld(d)' => sends'[d] <= k + Low(attempt'[d])
      <4>1. Low(attempt[d]) \in Nat /\ attempt'[d] = attempt[d] /\ status'[d] = status[d]
        BY <1>a, <2>1, LowIs
      <4>2. status[d] = "pending" /\ ~FirstHeld(d) => sends[d] <= b + Low(attempt[d])
        BY <1>b DEF Room
      <4> QED BY <1>a, <2>2, <3>1, <4>1, <4>2
    <3> QED BY <3>2, <3>3, <3>4, <3>5
  <2> QED BY <2>3, <2>4
<1>5. ASSUME NEW w \in Workers, Settle(w) PROVE Fits
  <2>1. PICK s \in sent[w] :
           /\ s.id \in Deliveries
           /\ UNCHANGED <<sends, doubled, replays, fails>>
           /\ \A x \in Deliveries \ {s.id} : status'[x] = status[x] /\ attempt'[x] = attempt[x]
           /\ status[s.id] = "absent" => status'[s.id] = "absent" /\ attempt'[s.id] = attempt[s.id]
           /\ status[s.id] # "absent" =>
                 \/ /\ hook[s.id[2]] = "deleted"
                    /\ status'[s.id] = status[s.id] /\ attempt'[s.id] = attempt[s.id]
                 \/ /\ status'[s.id] \in {"delivered", "failed", "dead"}
                    /\ attempt'[s.id] = attempt[s.id] + 1
                 \/ /\ status'[s.id] = status[s.id] /\ attempt'[s.id] = attempt[s.id] + 1
                    /\ s.attempt + 1 < MaxAttempts
    BY <1>0, <1>5, SettleDoes DEF requests
  <2>2. /\ claimed' = claimed /\ sent'[w] = {}
        /\ \A v \in Workers \ {w} : sent'[v] = sent[v]
        /\ \A v \in Workers : claimed'[v] \subseteq claimed[v] /\ sent'[v] \subseteq sent[v]
    BY <1>0, <1>5, SentStays
  <2>3. k = b
    BY <1>a, <2>1
  <2>4. \A t \in sent[w] : t = s
    BY <1>0 DEF TypeOK
  <2>5. status[d] = "pending" => hook[d[2]] # "deleted"
    BY <1>0 DEF GoneWithHook
  <2>6. status'[d] = "pending" => status[d] = "pending" /\ attempt[d] <= attempt'[d]
    <3>1. CASE s.id = d
      BY <1>a, <2>1, <2>5, <3>1
    <3>2. CASE s.id # d
      BY <1>a, <2>1, <3>2
    <3> QED BY <3>1, <3>2
  <2>7. CASE s.id # d \/ s.again
    <3>1. FirstHeld(d) => FirstHeld(d)'
      BY <2>2, <2>4, <2>7 DEF FirstHeld
    <3>2. sends'[d] = sends[d] /\ b <= k /\ attempt'[d] \in Nat
      BY <1>a, <2>1, <2>3
    <3> HIDE DEF Fits
    <3>3. Fits
      BY <1>0, <1>a, <1>b, <2>2, <2>6, <3>1, <3>2, RoomKept DEF Fits
    <3> QED BY <3>3
  <2>8. CASE s.id = d /\ ~s.again
    <3>1. ASSUME NEW v \in Workers, NEW c \in claimed'[v] \cup sent'[v], c.id = d PROVE c.again
      <4>1. CASE v = w
        BY <2>2, <2>8, <3>1, <4>1 DEF OwnApart
      <4>2. CASE v # w
        BY <2>2, <2>8, <3>1, <4>2 DEF OneFirst
      <4> QED BY <4>1, <4>2
    <3>2. sends'[d] <= k + MaxAttempts
      BY <1>b, <2>1, <2>3 DEF Room
    <3>3. ASSUME status'[d] = "pending" PROVE sends'[d] <= k + Low(attempt'[d])
      <4>1. /\ status[d] = "pending" /\ attempt'[d] = attempt[d] + 1 /\ s.attempt + 1 < MaxAttempts
        BY <2>1, <2>5, <2>6, <2>8, <3>3
      <4>2. /\ sends[d] <= b + Low(s.attempt) + 1
            /\ s.attempt <= attempt[d] \/ sends[d] <= b
        BY <1>b, <2>8, <4>1 DEF Room
      <4>3. s.attempt \in Nat /\ Low(s.attempt) = s.attempt /\ Low(s.attempt + 1) = s.attempt + 1
        BY <1>0, <4>1, HeldIs, LowIs DEF Low
      <4>4. /\ Low(attempt'[d]) \in Nat
            /\ s.attempt + 1 <= attempt'[d] => Low(s.attempt + 1) <= Low(attempt'[d])
        BY <1>a, <4>3, LowIs
      <4> QED BY <1>a, <2>1, <2>3, <4>1, <4>2, <4>3, <4>4
    <3> QED BY <3>1, <3>2, <3>3
  <2> QED BY <2>7, <2>8
<1>6. ASSUME NEW w \in Workers, UnwrapFails(w) \/ SettleFails(w) \/ Crash(w) PROVE Fits
  <2>1. /\ UNCHANGED <<status, attempt, sends, doubled, replays>> /\ fails' = fails + 1
        /\ \A v \in Workers : claimed'[v] \subseteq claimed[v] /\ sent'[v] \subseteq sent[v]
    BY <1>0, <1>6, ForgetDoes DEF requests
  <2>2. k = b + 1
    BY <1>a, <2>1
  <2> QED BY <1>0, <1>a, <1>b, <2>1, <2>2, RoomKept
<1>7. ASSUME NEW x \in Deliveries, Replay(x) PROVE Fits
  <2>1. /\ status[x] \in {"dead", "failed"} /\ status'[x] = "pending" /\ attempt'[x] = 0
        /\ \A y \in Deliveries \ {x} : status'[y] = status[y] /\ attempt'[y] = attempt[y]
        /\ replays' = replays + 1 /\ UNCHANGED <<sends, doubled, claimed, sent, fails>>
    BY <1>0, <1>7, ReplayDoes DEF requests
  <2>2. k = b + MaxAttempts
    BY <1>a, <2>1
  <2>3. ASSUME NEW n \in Nat PROVE Low(n) \in Nat /\ Low(n) + 1 <= MaxAttempts
    BY LowIs
  <2>4. sends[d] <= k /\ Low(attempt'[d]) \in Nat
    BY <1>a, <1>b, <2>2, <2>3 DEF Room
  <2>5. ASSUME NEW v \in Workers, NEW c \in claimed[v], c.id = d, ~c.again
        PROVE  sends[d] + 1 <= k /\ Low(c.attempt) \in Nat
    <3>1. c.attempt \in Nat /\ sends[d] <= b + Low(c.attempt)
      BY <1>0, <1>b, <2>5, HeldIs DEF Room
    <3> QED BY <1>a, <2>2, <2>3, <3>1
  <2>6. ASSUME NEW v \in Workers, NEW s \in sent[v], s.id = d, ~s.again
        PROVE  Low(s.attempt) \in Nat
    BY <1>0, <2>3, HeldIs
  <2>7. \A v \in Workers : \A c \in claimed'[v] : c.id = d /\ ~c.again =>
           sends'[d] <= k + Low(c.attempt) /\ sends'[d] + 1 <= k
    BY <1>a, <2>1, <2>5
  <2>8. \A v \in Workers : \A s \in sent'[v] : s.id = d /\ ~s.again =>
           sends'[d] <= k + Low(s.attempt) + 1 /\ sends'[d] <= k
    BY <1>a, <2>1, <2>4, <2>6
  <2> QED BY <1>a, <2>1, <2>4, <2>7, <2>8
<1>8. ASSUME (\E x \in Deliveries : Purge(x)) \/ (\E h \in Hooks : DeleteHook(h)) PROVE Fits
  <2>1. /\ UNCHANGED <<sends, doubled, claimed, sent, replays, fails>>
        /\ \/ status'[d] = "absent"
           \/ status'[d] = status[d] /\ attempt'[d] = attempt[d]
    BY <1>0, <1>8, DeletesDo DEF requests
  <2>2. (FirstHeld(d)' <=> FirstHeld(d)) /\ k = b
    BY <1>a, <2>1 DEF FirstHeld
  <2> QED BY <1>0, <1>a, <1>b, <2>1, <2>2, RoomKept
<1> HIDE DEF Fits
<1> QED BY <1>1, <1>2, <1>3, <1>4, <1>5, <1>6, <1>7, <1>8, Steps

-----------------------------------------------------------------------------
(* The theorems.                                                           *)

\* The invariant holds at first.
LEMMA InvInit == Init => IInv
<1> SUFFICES ASSUME Init PROVE IInv
  OBVIOUS
<1>0. /\ IdleRelay \in RelayRow
      /\ IdleRelay.locked = {} /\ IdleRelay.todo = {} /\ IdleRelay.inserts = {}
      /\ MaxAttempts \in Nat /\ MaxAttempts > 0 /\ MaxReplays \in Nat /\ MaxFails \in Nat
  BY IdleFields, LimitsAssumption, BoundsAssumption
<1>1. Types
  BY <1>0 DEF Init, Types, Statuses
<1>2. RelayLocks /\ FannedOut
  BY <1>0 DEF Init, RelayLocks, FannedOut
<1>3. QueuedOnce /\ GoneWithHook /\ NotYet
  BY DeliveryFields DEF Init, QueuedOnce, GoneWithHook, NotYet
<1>4. DisabledByStreak
  BY StreakIs DEF Init, Streak
<1>5. OwnApart /\ OneFirst
  BY DEF Init, OwnApart, OneFirst
<1>6. SendsCounted
  <2>1. \A d \in Deliveries : /\ sends[d] = 0 /\ status[d] = "absent" /\ Budget(d) \in Nat
                              /\ \A w \in Workers : claimed[w] = {} /\ sent[w] = {}
    BY <1>0, BudgetGrows DEF Init, Budget
  <2> QED BY <1>0, <2>1 DEF SendsCounted, Room
<1> QED BY <1>1, <1>2, <1>3, <1>4, <1>5, <1>6, TypesAre DEF IInv, QueueInv

\* Every step keeps it.
LEMMA InvStep == IInv /\ [Next]_vars => IInv'
<1> SUFFICES ASSUME IInv, [Next]_vars PROVE IInv'
  OBVIOUS
<1>1. QueueInv /\ TypeOK /\ DisabledByStreak
  BY DEF IInv, QueueInv
<1>2. TypeOK' /\ DisabledByStreak'
  BY <1>1, TypeStep, StreakStays
<1>3. RelayLocks' /\ FannedOut' /\ QueuedOnce' /\ GoneWithHook' /\ NotYet'
  BY <1>1, RelayStays, QueueStays, HooksStay, NotYetStays
<1>4. OwnApart' /\ OneFirst'
  BY <1>1, ApartStay, OneFirstStays DEF IInv
<1>5. SendsCounted'
  BY <1>1, <1>2, SendsStay DEF IInv
<1> QED BY <1>2, <1>3, <1>4, <1>5 DEF IInv, QueueInv

\* Relays lock rows of their own and fan them out; what is queued is queued once
\* and goes with its endpoint; the streaks are right; of the workers that hold a
\* delivery one was the first, and the requests of the first are within budget.
THEOREM Inductive == Spec => []IInv
<1>1. Init => IInv
  BY InvInit
<1>2. IInv /\ [Next]_vars => IInv'
  BY InvStep
<1> QED BY <1>1, <1>2, PTL DEF Spec

\* Every variable keeps its type; a dispatcher records one send before the next.
THEOREM TypeCorrect == Spec => []TypeOK
<1>1. IInv => TypeOK
  BY DEF IInv, QueueInv
<1> QED BY <1>1, Inductive, PTL

\* Relays that overlap, fail and are stopped insert one delivery of an event for
\* an endpoint, of an event that was relayed, and none is left out; this holds
\* with any number of dispatchers.
THEOREM RelayedOnce == Spec => []QueuedOnce
<1>1. IInv => QueuedOnce
  BY DEF IInv, QueueInv
<1> QED BY <1>1, Inductive, PTL

\* Deliveries and requests add up, with any number of dispatchers: one delivery
\* for each event and endpoint, and MaxAttempts requests for it and for each
\* replay at most, one for each outcome that was lost, and those of dispatchers
\* that claimed the delivery while another one held it.
THEOREM RequestsAddUp == Spec => []DeliveriesAddUp
<1>1. IInv => DeliveriesAddUp
  <2> SUFFICES ASSUME IInv, NEW d \in Deliveries
               PROVE  sends[d] <= MaxAttempts * (1 + replays) + fails + doubled[d]
    BY DEF IInv, QueueInv, QueuedOnce, DeliveriesAddUp
  <2>1. sends[d] <= Budget(d) + MaxAttempts
    BY DEF IInv, SendsCounted, Room
  <2>2. replays \in Nat /\ fails \in Nat /\ doubled[d] \in Nat /\ sends[d] \in Nat
    BY BoundsAssumption DEF IInv, QueueInv, TypeOK
  <2>3. /\ MaxAttempts * replays \in Nat /\ MaxAttempts \in Nat
        /\ MaxAttempts * (1 + replays) = MaxAttempts * replays + MaxAttempts
    BY <2>2, BudgetGrows
  <2>4. Budget(d) = MaxAttempts * replays + fails + doubled[d]
    BY DEF Budget
  <2> QED BY <2>1, <2>2, <2>3, <2>4
<1> QED BY <1>1, Inductive, PTL

\* An endpoint is disabled exactly by DisableAfter failures in a row, whatever
\* dispatchers record them, and in whatever order.
THEOREM StreaksDisable == Spec => []DisabledByStreak
<1>1. IInv => DisabledByStreak
  BY DEF IInv
<1> QED BY <1>1, Inductive, PTL

=============================================================================
