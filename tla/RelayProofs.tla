---------------------------- MODULE RelayProofs ----------------------------
(***************************************************************************)
(* On-chain merges and redeems: the loop never forgets what the wallet has *)
(* and never books money the chain did not pay, for any number of fills    *)
(* and faults.                                                             *)
(*                                                                         *)
(* Neither invariant is inductive: shares leave the wallet when a batch    *)
(* lands and the inventory when its outcome is drained.  What is on its    *)
(* way in between (Coming) is what makes the difference, and it is at most *)
(* one merge: a task polls one batch, and the latch keeps a second from    *)
(* starting.  A redeem needs no such account, for a resolved market buys   *)
(* nothing more: once a redeem has landed the wallet stays empty.          *)
(***************************************************************************)
EXTENDS Relay, TLAPS

State == {"pending", "confirmed", "failed"}
Batch == [kind : Kind, amount : 0 .. MaxFills, polled : BOOLEAN, state : State]

\* what a task has been given to do
Job(k) ==
  IF k = "merge" THEN 0 .. MaxFills
  ELSE {what \in [legs : SUBSET Token, priced : Token \cup {NoOne}] :
          winner # NoOne /\ what.priced \in {winner, NoOne}}

Fetching == [pc : {"fetch"}, held : SUBSET Token]
Signing(k) == [pc : {"nonce"}, what : Job(k)]
Submitting(k) == [pc : {"submit"}, what : Job(k), nonce : {"next", "used"}]
Polling(k) == [pc : {"poll"}, what : Job(k)]

Watched(k) == {b \in batches : b.kind = k /\ b.polled}

\* a redeem has landed
Collected == winner # NoOne /\ \A t \in Token : wallet[t] = 0

\* Numbers, and no more in the books than was bought.
Amounts ==
  /\ wallet \in [Token -> Nat] /\ inv \in [Token -> Nat] /\ unseen \in [Token -> Nat]
  /\ owed \in Int /\ bought \in 0 .. MaxFills /\ faults \in Nat
  /\ \A t \in Token : inv[t] + unseen[t] <= bought

\* Who won, at the venue and as the Data API lists it.
Resolved ==
  /\ winner \in Token \cup {NoOne}
  /\ indexed \in [held : SUBSET Token, winner : {winner, NoOne}]

\* The tasks; a busy one has left nothing in its channel.
Tasks ==
  /\ at \in {"settle", "quote", "fills"}
  /\ task = [k \in Kind |-> task[k]] /\ outcome = [k \in Kind |-> outcome[k]]
  /\ \A k \in Kind :
       /\ \/ task[k] = Idle
          \/ k = "redeem" /\ task[k] \in Fetching
          \/ task[k] \in Signing(k) \cup Submitting(k) \cup Polling(k)
       /\ outcome[k] \in {Silent, Failed} \cup [tag : {"ok"}, what : Job(k)]
       /\ task[k] # Idle => outcome[k] = Silent

\* A task polls one batch, its own.
Batches ==
  /\ batches \subseteq Batch
  /\ \A k \in Kind : task[k].pc = "poll" => Watched(k) # {}
  /\ \A k \in Kind : \A b \in Watched(k) :
       /\ task[k].pc = "poll" /\ (k = "merge" => b.amount = task[k].what)
       /\ \A c \in Watched(k) : c = b

\* A redeem that was confirmed has emptied the wallet.
Redeems ==
  /\ \A b \in Watched("redeem") : b.state = "confirmed" => Collected
  /\ outcome["redeem"].tag = "ok" => Collected

\* the shares of a merge that landed and is still to be drained
Coming ==
  IF outcome["merge"].tag = "ok" THEN outcome["merge"].what
  ELSE IF \E b \in Watched("merge") : b.state = "confirmed" THEN task["merge"].what
  ELSE 0

\* What is in the wallet or on its way is in the books.
Accounted == Collected \/ \A t \in Token : wallet[t] + Coming <= inv[t] + unseen[t]

\* What the books have and the wallet has not, the chain paid for.
PaidFor ==
  \A t \in Token : winner \in {t, NoOne} => inv[t] + unseen[t] <= wallet[t] + owed

IInv == Amounts /\ Resolved /\ Tasks /\ Batches /\ Redeems /\ Accounted /\ PaidFor

-----------------------------------------------------------------------------
\* What the position of a task says of the rest of it.
LEMMA TaskAt ==
  ASSUME Tasks, NEW k \in Kind
  PROVE  /\ task[k].pc \in {"idle", "fetch", "nonce", "submit", "poll"}
         /\ task[k].pc = "idle" => task[k] = Idle
         /\ task[k].pc = "fetch" => k = "redeem" /\ task[k] \in Fetching
         /\ task[k].pc = "nonce" => task[k] \in Signing(k)
         /\ task[k].pc = "submit" => task[k] \in Submitting(k)
         /\ task[k].pc = "poll" => task[k] \in Polling(k)
         /\ task[k].pc # "idle" => outcome[k] = Silent
BY DEF Tasks, Idle, Fetching, Signing, Submitting, Polling

\* Only the task that moves has another position.
LEMMA Moves ==
  ASSUME Tasks, NEW k \in Kind, NEW next, Step(k, next)
  PROVE  /\ task' = [j \in Kind |-> task'[j]] /\ task'[k] = next
         /\ \A j \in Kind \ {k} : task'[j] = task[j]
BY DEF Tasks, Step

LEMMA Says ==
  ASSUME Tasks, NEW k \in Kind, NEW ok, Report(k, ok)
  PROVE  /\ task' = [j \in Kind |-> task'[j]] /\ outcome' = [j \in Kind |-> outcome'[j]]
         /\ task'[k] = Idle
         /\ outcome'[k] = IF ok THEN [tag |-> "ok", what |-> task[k].what] ELSE Failed
         /\ \A j \in Kind \ {k} : task'[j] = task[j] /\ outcome'[j] = outcome[j]
BY DEF Tasks, Report, Step

\* The batch a task polls.
LEMMA ItsBatch ==
  ASSUME Batches, NEW k \in Kind, task[k].pc = "poll"
  PROVE  /\ Polled(k) \in batches /\ Polled(k) \in Batch
         /\ Polled(k).kind = k /\ Polled(k).polled
         /\ k = "merge" => Polled(k).amount = task[k].what
         /\ \A b \in Watched(k) : b = Polled(k)
<1>1. \E b \in batches : b.kind = k /\ b.polled
  BY DEF Batches, Watched
<1>2. Polled(k) \in batches /\ Polled(k).kind = k /\ Polled(k).polled
  BY <1>1 DEF Polled
<1> QED BY <1>2 DEF Batches, Watched

\* Jobs are what they were while nobody wins or has won.
LEMMA JobsStay ==
  ASSUME winner' = winner \/ winner = NoOne
  PROVE  \A k \in Kind : Job(k) \subseteq Job(k)'
BY DEF Job

LEMMA InitIInv == Init => IInv
BY RelayAssumption DEF Init, IInv, Amounts, Resolved, Tasks, Batches, Redeems, Accounted, PaidFor,
   Coming, Collected, Watched, Listed, Idle, Silent, Kind, Token, NoOne

\* IInv does not speak of where the tick is, beyond its name.
LEMMA Stays ==
  ASSUME IInv, at' \in {"settle", "quote", "fills"}, faults' \in Nat,
         UNCHANGED <<wallet, winner, batches, indexed, inv, unseen, task, outcome, owed, bought>>
  PROVE  IInv'
<1> USE DEF IInv
<1>1. Amounts' /\ Resolved' /\ PaidFor'
  BY DEF Amounts, Resolved, PaidFor
<1>2. Tasks'
  BY DEF Tasks, Job, Signing, Submitting, Polling
<1>3. Batches'
  BY DEF Batches, Watched
<1>4. Redeems' /\ Accounted'
  BY DEF Redeems, Accounted, Coming, Watched, Collected
<1> QED BY <1>1, <1>2, <1>3, <1>4

\* What is on its way is a number.
LEMMA ComingType ==
  ASSUME IInv
  PROVE  Coming \in Nat
BY RelayAssumption DEF IInv, Coming, Tasks, Batches, Watched, Kind, Job, Silent, Failed, Polling, Signing,
   Submitting, Idle

LEMMA BidFillsKeeps ==
  ASSUME IInv, NEW t \in Token, BidFills(t)
  PROVE  IInv'
<1> USE DEF IInv, BidFills
<1>1. Amounts'
  BY RelayAssumption DEF Amounts
<1>2. Resolved' /\ Tasks' /\ Batches'
  BY DEF Resolved, Tasks, Batches, Watched, Job, Signing, Submitting, Polling
<1>3. ~Collected
  BY DEF Collected
<1>4. Redeems' /\ Coming' = Coming
  BY <1>3 DEF Redeems, Coming, Watched
<1>5. Accounted'
  BY <1>3, <1>4, ComingType DEF Accounted, Amounts
<1>6. PaidFor'
  BY DEF PaidFor, Amounts
<1> QED BY <1>1, <1>2, <1>4, <1>5, <1>6

LEMMA ResolveKeeps ==
  ASSUME IInv, NEW t \in Token, Resolve(t)
  PROVE  IInv'
<1> USE DEF IInv, Resolve
<1>1. Amounts'
  BY DEF Amounts
<1>2. Resolved'
  BY DEF Resolved
<1>3. Tasks'
  BY JobsStay DEF Tasks, Signing, Submitting, Polling
<1>4. Batches'
  BY DEF Batches, Watched
<1>5. ~Collected
  BY DEF Collected
<1>6. Redeems' /\ Coming' = Coming
  BY <1>5 DEF Redeems, Coming, Watched
<1>7. Accounted'
  BY <1>5, <1>6 DEF Accounted
<1>8. PaidFor'
  BY DEF PaidFor
<1> QED BY <1>1, <1>2, <1>3, <1>4, <1>6, <1>7, <1>8

LEMMA IndexKeeps ==
  ASSUME IInv, Index
  PROVE  IInv'
<1> USE DEF IInv, Index
<1>1. Amounts' /\ PaidFor'
  BY DEF Amounts, PaidFor
<1>2. Resolved'
  BY DEF Resolved, Listed
<1>3. Tasks' /\ Batches'
  BY DEF Tasks, Batches, Watched, Job, Signing, Submitting, Polling
<1>4. Redeems' /\ Accounted'
  BY DEF Redeems, Accounted, Coming, Watched, Collected
<1> QED BY <1>1, <1>2, <1>3, <1>4

\* A task that has no batch moves on or gives up: nothing is on its way from
\* it, and nobody polls another batch than before.
LEMMA Prepares ==
  ASSUME IInv, NEW k \in Kind, task[k].pc # "poll", outcome[k] = Silent,
         task' = [j \in Kind |-> task'[j]], outcome' = [j \in Kind |-> outcome'[j]],
         \A j \in Kind \ {k} : task'[j] = task[j] /\ outcome'[j] = outcome[j],
         \/ task'[k] = Idle /\ outcome'[k] = Failed
         \/ task'[k] \in Signing(k) \cup Submitting(k) /\ outcome'[k] = Silent,
         batches' \subseteq Batch,
         \A b \in Batch : b.polled => (b \in batches' <=> b \in batches),
         at' \in {"settle", "quote", "fills"}, faults' \in Nat,
         UNCHANGED <<wallet, winner, indexed, inv, unseen, owed, bought>>
  PROVE  IInv'
<1> USE DEF IInv
<1>1. Amounts' /\ Resolved' /\ PaidFor'
  BY DEF Amounts, Resolved, PaidFor
<1>2. task'[k].pc # "poll" /\ outcome'[k].tag # "ok"
  BY DEF Idle, Silent, Failed, Signing, Submitting
<1>3. \A j \in Kind : Watched(j)' = Watched(j)
  BY DEF Watched, Batches
<1>4. Watched(k) = {}
  BY DEF Batches
<1>5. Tasks'
  <2>1. \A j \in Kind : Job(j)' = Job(j)
    BY DEF Job
  <2> QED BY <2>1 DEF Tasks, Signing, Submitting, Polling, Idle
<1>6. Batches'
  BY <1>2, <1>3, <1>4 DEF Batches
<1>7. Coming' = Coming
  <2>1. CASE k = "merge"
    BY <1>2, <1>3, <1>4, <2>1 DEF Coming, Silent
  <2>2. CASE k # "merge"
    BY <1>3, <2>2 DEF Coming, Kind
  <2> QED BY <2>1, <2>2
<1>8. Redeems' /\ Accounted'
  <2>1. Collected' = Collected
    BY DEF Collected
  <2>2. outcome'["redeem"].tag = "ok" => outcome["redeem"].tag = "ok"
    BY <1>2 DEF Kind
  <2> QED BY <1>3, <1>7, <2>1, <2>2 DEF Redeems, Accounted, Kind
<1> QED BY <1>1, <1>5, <1>6, <1>8

LEMMA FetchPositionsKeeps ==
  ASSUME IInv, FetchPositions
  PROVE  IInv'
<1> USE DEF IInv
<1> DEFINE given == [legs |-> task["redeem"].held, priced |-> Priced]
<1>1. /\ "redeem" \in Kind /\ task["redeem"].pc = "fetch" /\ task["redeem"] \in Fetching
      /\ outcome["redeem"] = Silent
  BY TaskAt DEF FetchPositions, Doing, Kind
<1>2. batches \subseteq Batch /\ at \in {"settle", "quote", "fills"} /\ faults \in Nat
  BY DEF Batches, Tasks, Amounts
<1>3. CASE indexed.winner # NoOne /\ indexed.held # {} /\ task["redeem"].held # {}
  <2>1. Step("redeem", [pc |-> "nonce", what |-> given]) /\ UNCHANGED outcome
    BY <1>3 DEF FetchPositions
  <2>2. given \in Job("redeem")
    <3>1. Priced \in {winner, NoOne} /\ winner # NoOne /\ winner \in Token \cup {NoOne}
      BY <1>3 DEF Priced, Resolved
    <3> QED BY <3>1, <1>1 DEF Job, Fetching
  <2>3. [pc |-> "nonce", what |-> given] \in Signing("redeem")
    BY <2>2 DEF Signing
  <2>4. /\ task' = [j \in Kind |-> task'[j]] /\ task'["redeem"] = [pc |-> "nonce", what |-> given]
        /\ \A j \in Kind \ {"redeem"} : task'[j] = task[j]
    BY <2>1, <1>1, Moves
  <2>5. outcome' = [j \in Kind |-> outcome'[j]]
    BY <2>1 DEF Tasks
  <2> HIDE DEF given
  <2> QED BY <1>1, <1>2, <2>1, <2>3, <2>4, <2>5, Prepares DEF FetchPositions
<1>4. CASE ~(indexed.winner # NoOne /\ indexed.held # {} /\ task["redeem"].held # {})
  <2>1. Report("redeem", FALSE)
    BY <1>4 DEF FetchPositions
  <2>2. /\ task' = [j \in Kind |-> task'[j]] /\ outcome' = [j \in Kind |-> outcome'[j]]
        /\ task'["redeem"] = Idle /\ outcome'["redeem"] = Failed
        /\ \A j \in Kind \ {"redeem"} : task'[j] = task[j] /\ outcome'[j] = outcome[j]
    BY <2>1, <1>1, Says
  <2> QED BY <1>1, <1>2, <2>2, Prepares DEF FetchPositions
<1> QED BY <1>3, <1>4

LEMMA FetchNonceKeeps ==
  ASSUME IInv, NEW k \in Kind, FetchNonce(k)
  PROVE  IInv'
<1> USE DEF IInv
<1> DEFINE next == [pc |-> "submit", what |-> task[k].what, nonce |-> "next"]
<1>1. task[k].pc = "nonce" /\ task[k] \in Signing(k) /\ outcome[k] = Silent
  BY TaskAt DEF FetchNonce, Doing
<1>2. next \in Submitting(k)
  BY <1>1 DEF Signing, Submitting
<1>3. /\ task' = [j \in Kind |-> task'[j]] /\ task'[k] = next
      /\ \A j \in Kind \ {k} : task'[j] = task[j]
  BY Moves DEF FetchNonce
<1>4. outcome' = [j \in Kind |-> outcome'[j]] /\ UNCHANGED outcome
  BY DEF FetchNonce, Tasks
<1>5. batches \subseteq Batch /\ at \in {"settle", "quote", "fills"} /\ faults \in Nat
  BY DEF Batches, Tasks, Amounts
<1> HIDE DEF next
<1> QED BY <1>1, <1>2, <1>3, <1>4, <1>5, Prepares DEF FetchNonce

LEMMA QuoteAndMergeKeeps ==
  ASSUME IInv, QuoteAndMerge
  PROVE  IInv'
<1> USE DEF IInv
<1> DEFINE next == [pc |-> "nonce", what |-> Matched]
<1>1. "merge" \in Kind /\ task["merge"].pc # "poll" /\ outcome["merge"] = Silent
  BY DEF QuoteAndMerge, Doing, Kind
<1>2. Matched \in 0 .. MaxFills
  BY RelayAssumption DEF Matched, MinOf, Amounts, Token
<1>3. next \in Signing("merge")
  BY <1>2 DEF Signing, Job
<1>4. /\ task' = [j \in Kind |-> task'[j]] /\ task'["merge"] = next
      /\ \A j \in Kind \ {"merge"} : task'[j] = task[j]
  BY <1>1, Moves DEF QuoteAndMerge
<1>5. outcome' = [j \in Kind |-> outcome'[j]] /\ UNCHANGED outcome
  BY DEF QuoteAndMerge, Tasks
<1>6. batches \subseteq Batch /\ faults \in Nat
  BY DEF Batches, Amounts
<1> HIDE DEF next
<1> QED BY <1>1, <1>3, <1>4, <1>5, <1>6, Prepares DEF QuoteAndMerge

LEMMA SubmitKeeps ==
  ASSUME IInv, NEW k \in Kind, Submit(k)
  PROVE  IInv'
<1> USE DEF IInv
<1> DEFINE next == [pc |-> "poll", what |-> task[k].what]
           new == [kind |-> k, amount |-> IF k = "merge" THEN task[k].what ELSE 0, polled |-> TRUE,
                   state |-> IF task[k].nonce = "next" THEN "pending" ELSE "failed"]
<1>1. task[k].pc = "submit" /\ task[k] \in Submitting(k) /\ outcome[k] = Silent
  BY TaskAt DEF Submit, Doing
<1>2. next \in Polling(k)
  BY <1>1 DEF Submitting, Polling
<1>3. /\ task' = [j \in Kind |-> task'[j]] /\ task'[k] = next
      /\ \A j \in Kind \ {k} : task'[j] = task[j]
  BY Moves DEF Submit
<1>4. batches' = batches \cup {new}
  BY DEF Submit, Taken
<1>5. new \in Batch /\ new.kind = k /\ new.polled /\ new.state # "confirmed"
  BY <1>1, RelayAssumption DEF Batch, State, Submitting, Job
<1>6. k = "merge" => new.amount = next.what
  OBVIOUS
<1>7. next.pc = "poll" /\ next # Idle
  BY DEF Idle
<1>8. Watched(k) = {} /\ Watched(k)' = {new} /\ \A j \in Kind \ {k} : Watched(j)' = Watched(j)
  BY <1>1, <1>4, <1>5 DEF Batches, Watched
<1> HIDE DEF new, next
<1>9. Amounts' /\ Resolved' /\ PaidFor'
  BY DEF Submit, Amounts, Resolved, PaidFor
<1>10. Tasks'
  <2>1. \A j \in Kind : Job(j)' = Job(j)
    BY DEF Job, Submit
  <2> QED BY <1>1, <1>2, <1>3, <2>1 DEF Tasks, Submit, Signing, Submitting, Polling
<1>11. Batches'
  BY <1>3, <1>4, <1>5, <1>6, <1>7, <1>8 DEF Batches
<1>12. Coming' = Coming
  <2>1. CASE k = "merge"
    BY <1>1, <1>5, <1>8, <2>1 DEF Coming, Submit, Silent
  <2>2. CASE k # "merge"
    BY <1>3, <1>8, <2>2 DEF Coming, Submit, Kind
  <2> QED BY <2>1, <2>2
<1>13. Redeems' /\ Accounted'
  <2>1. Collected' = Collected
    BY DEF Collected, Submit
  <2> QED BY <1>5, <1>8, <1>12, <2>1 DEF Redeems, Accounted, Kind, Submit
<1> QED BY <1>9, <1>10, <1>11, <1>13

\* Nobody polls the batch of a task that reports: what it says is drained
\* later, and nothing else is on its way from it.
LEMMA Reports ==
  ASSUME IInv, NEW k \in Kind, task[k].pc = "poll", NEW ok \in BOOLEAN, Report(k, ok),
         ok => Polled(k).state = "confirmed",
         batches' \subseteq Batch,
         \A b \in Batch : b.polled => (b \in batches' <=> b \in batches /\ b # Polled(k)),
         faults' \in Nat,
         UNCHANGED <<wallet, winner, indexed, inv, unseen, at, owed, bought>>
  PROVE  IInv'
<1> USE DEF IInv
<1>1. task[k] \in Polling(k) /\ outcome[k] = Silent
  BY TaskAt
<1>2. /\ task' = [j \in Kind |-> task'[j]] /\ outcome' = [j \in Kind |-> outcome'[j]]
      /\ task'[k] = Idle
      /\ outcome'[k] = IF ok THEN [tag |-> "ok", what |-> task[k].what] ELSE Failed
      /\ \A j \in Kind \ {k} : task'[j] = task[j] /\ outcome'[j] = outcome[j]
  BY Says
<1>3. Polled(k) \in Watched(k) /\ Watched(k) = {Polled(k)}
  BY ItsBatch DEF Watched
<1>4. Watched(k)' = {} /\ \A j \in Kind \ {k} : Watched(j)' = Watched(j)
  BY <1>3, ItsBatch DEF Watched, Batches
<1>5. Amounts' /\ Resolved' /\ PaidFor'
  BY DEF Amounts, Resolved, PaidFor
<1>6. Tasks'
  <2>1. \A j \in Kind : Job(j)' = Job(j)
    BY DEF Job
  <2>2. outcome'[k] \in {Silent, Failed} \cup [tag : {"ok"}, what : Job(k)]
    BY <1>1, <1>2 DEF Polling
  <2> QED BY <1>2, <2>1, <2>2 DEF Tasks, Signing, Submitting, Polling
<1>7. Batches'
  BY <1>2, <1>4 DEF Batches, Idle
<1>8. Coming' <= Coming /\ Coming' \in Nat
  <2>1. CASE k = "merge" /\ ok
    BY <1>1, <1>2, <1>3, <2>1, ComingType DEF Coming, Silent
  <2>2. CASE k = "merge" /\ ~ok
    BY <1>2, <1>4, <2>2, ComingType DEF Coming, Failed
  <2>3. CASE k # "merge"
    BY <1>2, <1>4, <2>3, ComingType DEF Coming, Kind
  <2> QED BY <2>1, <2>2, <2>3
<1>9. Redeems'
  <2>1. Collected' = Collected
    BY DEF Collected
  <2>2. CASE k = "redeem"
    BY <1>2, <1>3, <1>4, <2>1, <2>2 DEF Redeems, Failed
  <2>3. CASE k # "redeem"
    BY <1>2, <1>4, <2>1, <2>3 DEF Redeems, Kind
  <2> QED BY <2>2, <2>3
<1>10. Accounted'
  <2>1. wallet \in [Token -> Nat] /\ inv \in [Token -> Nat] /\ unseen \in [Token -> Nat]
    BY DEF Amounts
  <2> QED BY <1>8, <2>1, ComingType DEF Accounted, Collected
<1> QED BY <1>5, <1>6, <1>7, <1>9, <1>10

LEMMA PollEndsKeeps ==
  ASSUME IInv, NEW k \in Kind, PollEnds(k)
  PROVE  IInv'
<1>1. batches \subseteq Batch /\ faults \in Nat /\ task[k].pc = "poll"
  BY DEF IInv, Batches, Amounts, PollEnds, Doing
<1>2. Report(k, Polled(k).state = "confirmed") /\ batches' = batches \ {Polled(k)}
  BY DEF PollEnds
<1> DEFINE ok == Polled(k).state = "confirmed"
<1>3. ok \in BOOLEAN /\ Report(k, ok)
  BY <1>2
<1> HIDE DEF ok
<1>4. ok => Polled(k).state = "confirmed"
  BY DEF ok
<1> QED BY <1>1, <1>2, <1>3, <1>4, Reports DEF PollEnds

LEMMA CallFailsKeeps ==
  ASSUME IInv, NEW k \in Kind, CallFails(k)
  PROVE  IInv'
<1>1. batches \subseteq Batch /\ faults' \in Nat /\ task[k].pc # "idle"
  BY DEF IInv, Batches, Amounts, CallFails, Doing, Fault
<1>5. Report(k, FALSE)
  BY DEF CallFails
<1>2. at \in {"settle", "quote", "fills"} /\ Tasks
  BY DEF IInv, Tasks
<1>3. CASE task[k].pc = "poll"
  <2>1. batches' = Abandoned(k) /\ Polled(k) \in Batch
    BY <1>3, ItsBatch DEF CallFails, Doing, IInv
  <2>2. batches' \subseteq Batch
    <3>1. [Polled(k) EXCEPT !.polled = FALSE] \in Batch
      BY <2>1 DEF Batch
    <3> QED BY <1>1, <2>1, <3>1 DEF Abandoned
  <2>3. \A b \in Batch : b.polled => (b \in batches' <=> b \in batches /\ b # Polled(k))
    BY <2>1 DEF Abandoned, Batch
  <2> QED BY <1>1, <1>3, <1>5, <2>2, <2>3, Reports DEF CallFails
<1>4. CASE task[k].pc # "poll"
  <2>1. batches' \subseteq Batch /\ \A b \in Batch : b.polled => (b \in batches' <=> b \in batches)
    <3>1. CASE batches' = batches
      BY <1>1, <3>1
    <3>2. CASE task[k].pc = "submit" /\ batches' = Taken(k, FALSE)
      <4>1. task[k] \in Submitting(k)
        BY <1>2, <3>2, TaskAt
      <4> DEFINE new == [kind |-> k, amount |-> IF k = "merge" THEN task[k].what ELSE 0, polled |-> FALSE,
                         state |-> IF task[k].nonce = "next" THEN "pending" ELSE "failed"]
      <4>2. new \in Batch /\ ~new.polled
        BY <4>1, RelayAssumption DEF Batch, State, Submitting, Job
      <4>3. batches' \subseteq batches \cup {new} /\ batches \subseteq batches'
        BY <3>2 DEF Taken
      <4> HIDE DEF new
      <4> QED BY <1>1, <4>2, <4>3
    <3> QED BY <1>4, <3>1, <3>2 DEF CallFails, Doing
  <2>2. /\ task' = [j \in Kind |-> task'[j]] /\ outcome' = [j \in Kind |-> outcome'[j]]
        /\ task'[k] = Idle /\ outcome'[k] = Failed
        /\ \A j \in Kind \ {k} : task'[j] = task[j] /\ outcome'[j] = outcome[j]
    BY <1>2, <1>5, Says
  <2>3. outcome[k] = Silent
    BY <1>1, <1>2, TaskAt
  <2> QED BY <1>1, <1>2, <1>4, <2>1, <2>2, <2>3, Prepares DEF CallFails
<1> QED BY <1>3, <1>4

LEMMA FailsKeeps ==
  ASSUME IInv, NEW b \in batches, Fails(b)
  PROVE  IInv'
<1> USE DEF IInv
<1> DEFINE g(c) == IF c = b THEN [b EXCEPT !.state = "failed"] ELSE c
<1>1. b \in Batch /\ b.state = "pending" /\ batches \subseteq Batch
  BY DEF Fails, Batches
<1>2. \A c \in batches : g(c) \in Batch /\ g(c).kind = c.kind /\ g(c).polled = c.polled
                         /\ g(c).amount = c.amount /\ (g(c).state = "confirmed" <=> c.state = "confirmed")
  BY <1>1 DEF Batch, State
<1>3. batches' = (batches \ {b}) \cup (IF b.polled THEN {g(b)} ELSE {})
  BY DEF Fails, Ends
<1>4. UNCHANGED <<wallet, winner, indexed, inv, unseen, at, task, outcome, owed, bought>> /\ faults' \in Nat
  BY DEF Fails, Fault, Amounts
<1>5. \A j \in Kind : Watched(j)' = {g(c) : c \in Watched(j)}
  BY <1>2, <1>3 DEF Watched
<1>6. batches' \subseteq Batch
  BY <1>1, <1>2, <1>3
<1>7. Amounts' /\ Resolved' /\ PaidFor'
  BY <1>4 DEF Amounts, Resolved, PaidFor
<1>8. Tasks'
  <2>1. \A j \in Kind : Job(j)' = Job(j)
    BY <1>4 DEF Job
  <2> QED BY <1>4, <2>1 DEF Tasks, Signing, Submitting, Polling
<1> HIDE DEF g
<1>9. Batches'
  <2>1. \A j \in Kind : \A c \in Watched(j) : c \in batches /\ c.kind = j
    BY DEF Watched
  <2> QED BY <1>2, <1>4, <1>5, <1>6, <2>1 DEF Batches
<1>10. (\E c \in Watched("merge")' : c.state = "confirmed") <=> \E c \in Watched("merge") : c.state = "confirmed"
  BY <1>2, <1>5 DEF Watched, Kind
<1>11. Redeems' /\ Accounted'
  <2>1. Collected' = Collected
    BY <1>4 DEF Collected
  <2>2. Coming' = Coming
    BY <1>4, <1>10 DEF Coming
  <2>3. \A c \in Watched("redeem")' : c.state = "confirmed" => \E d \in Watched("redeem") : d.state = "confirmed"
    BY <1>2, <1>5 DEF Watched, Kind
  <2> QED BY <1>4, <2>1, <2>2, <2>3 DEF Redeems, Accounted
<1> QED BY <1>6, <1>7, <1>8, <1>9, <1>11

\* A batch that lands moves money; every other one in flight, polled or in
\* the hands of a task, is void.
LEMMA LandsKeeps ==
  ASSUME IInv, NEW b \in batches, Lands(b)
  PROVE  IInv'
<1> USE DEF IInv
<1> DEFINE void(c) == IF c.state = "pending" THEN [c EXCEPT !.state = "failed"] ELSE c
           g(c) == IF c = b THEN [b EXCEPT !.state = "confirmed"] ELSE void(c)
<1>1. b \in Batch /\ b.state = "pending" /\ Executable(b) /\ batches \subseteq Batch
  BY DEF Lands, Batches
<1>2. \A c \in batches : g(c) \in Batch /\ g(c).kind = c.kind /\ g(c).polled = c.polled
                         /\ g(c).amount = c.amount
                         /\ (g(c).state = "confirmed" <=> c = b \/ c.state = "confirmed")
  BY <1>1 DEF Batch, State
<1>3. batches' = {void(c) : c \in {c \in batches \ {b} : c.polled}} \cup (IF b.polled THEN {g(b)} ELSE {})
  BY DEF Lands, Ends
<1>4. UNCHANGED <<winner, indexed, inv, unseen, at, outcome, faults, bought>>
  BY DEF Lands
<1>5. \A j \in Kind : Watched(j)' = {g(c) : c \in Watched(j)}
  <2> SUFFICES ASSUME NEW j \in Kind PROVE Watched(j)' = {g(c) : c \in Watched(j)}
    OBVIOUS
  <2>1. ASSUME NEW c \in Watched(j)' PROVE c \in {g(d) : d \in Watched(j)}
    <3>1. c \in batches' /\ c.kind = j /\ c.polled
      BY <2>1 DEF Watched
    <3>2. PICK d \in batches : c = g(d) /\ d.polled
      BY <1>3, <3>1
    <3> QED BY <1>2, <3>1, <3>2 DEF Watched
  <2>2. ASSUME NEW c \in Watched(j) PROVE g(c) \in Watched(j)'
    <3>1. c \in batches /\ c.kind = j /\ c.polled
      BY <2>2 DEF Watched
    <3>2. g(c) \in batches'
      BY <1>3, <3>1
    <3> QED BY <1>2, <3>1, <3>2 DEF Watched
  <2> QED BY <2>1, <2>2
<1>6. batches' \subseteq Batch
  BY <1>1, <1>2, <1>3
<1>7. /\ task' = [k \in Kind |-> task'[k]]
      /\ \A k \in Kind : task'[k] = IF task[k].pc = "submit" THEN [task[k] EXCEPT !.nonce = "used"] ELSE task[k]
  BY DEF Lands
<1>8. /\ winner \in Token \cup {NoOne} /\ owed \in Int /\ b.amount \in Nat
      /\ wallet \in [Token -> Nat] /\ inv \in [Token -> Nat] /\ unseen \in [Token -> Nat]
      /\ b.kind \in Kind
  BY <1>1, RelayAssumption DEF Amounts, Resolved, Batch
<1>9. /\ b.kind = "merge" => /\ wallet' = [t \in Token |-> wallet[t] - b.amount] /\ owed' = owed + b.amount
                             /\ \A t \in Token : wallet[t] >= b.amount
      /\ b.kind = "redeem" => /\ wallet' = [t \in Token |-> 0] /\ owed' = owed + wallet[winner]
                              /\ winner # NoOne
  BY <1>1 DEF Lands, Executable
<1> HIDE DEF g, void
<1>10. \A j \in Kind : /\ task'[j].pc = task[j].pc
                       /\ task[j].pc \in {"nonce", "submit", "poll"} => task'[j].what = task[j].what
                       /\ task'[j] # Idle => task[j] # Idle
  <2> SUFFICES ASSUME NEW j \in Kind
               PROVE  /\ task'[j].pc = task[j].pc
                      /\ task[j].pc \in {"nonce", "submit", "poll"} => task'[j].what = task[j].what
                      /\ task'[j] # Idle => task[j] # Idle
    OBVIOUS
  <2>1. CASE task[j].pc = "submit"
    <3>1. task[j] \in Submitting(j) /\ task'[j] = [task[j] EXCEPT !.nonce = "used"]
      BY <1>7, <2>1, TaskAt
    <3>2. task'[j].pc = task[j].pc /\ task'[j].what = task[j].what
      BY <3>1 DEF Submitting
    <3> QED BY <2>1, <3>2 DEF Idle
  <2>2. CASE task[j].pc # "submit"
    BY <1>7, <2>2
  <2> QED BY <2>1, <2>2
<1>11. Amounts'
  BY <1>4, <1>8, <1>9 DEF Amounts, Kind
<1>12. Resolved'
  BY <1>4 DEF Resolved
<1>13. Tasks'
  <2>1. \A j \in Kind : Job(j)' = Job(j)
    BY <1>4 DEF Job
  <2>2. ASSUME NEW j \in Kind, task[j].pc = "submit" PROVE task'[j] \in Submitting(j)
    <3>1. task[j] \in Submitting(j)
      BY <2>2, TaskAt
    <3> QED BY <1>7, <2>2, <3>1 DEF Submitting
  <2>3. \A j \in Kind : task[j].pc # "submit" => task'[j] = task[j]
    BY <1>7
  <2>4. \A j \in Kind : Submitting(j)' = Submitting(j) /\ Signing(j)' = Signing(j) /\ Polling(j)' = Polling(j)
    BY <2>1 DEF Signing, Submitting, Polling
  <2> QED BY <1>4, <1>7, <1>10, <2>1, <2>2, <2>3, <2>4, TaskAt DEF Tasks
<1>14. Batches'
  <2>1. \A j \in Kind : \A c \in Watched(j) : c \in batches /\ c.kind = j
    BY DEF Watched
  <2> QED BY <1>2, <1>5, <1>6, <1>10, <2>1 DEF Batches
<1>15. Collected => Collected'
  BY <1>4, <1>8, <1>9 DEF Collected, Kind
<1>16. b.kind = "redeem" => Collected'
  BY <1>4, <1>9 DEF Collected
<1>17. Redeems'
  <2>1. ASSUME NEW c \in Watched("redeem")', c.state = "confirmed" PROVE Collected'
    <3>1. PICK d \in Watched("redeem") : c = g(d)
      BY <1>5 DEF Kind
    <3>2. d \in batches /\ d.kind = "redeem" /\ (d = b \/ d.state = "confirmed")
      BY <1>2, <2>1, <3>1 DEF Watched
    <3> QED BY <1>15, <1>16, <3>1, <3>2 DEF Redeems
  <2> QED BY <1>4, <1>15, <2>1 DEF Redeems
<1>18. b.kind = "merge" /\ b.polled => Coming = 0 /\ Coming' = b.amount
  <2> SUFFICES ASSUME b.kind = "merge", b.polled PROVE Coming = 0 /\ Coming' = b.amount
    OBVIOUS
  <2>1. b \in Watched("merge") /\ "merge" \in Kind
    BY DEF Watched, Kind
  <2>2. /\ \A c \in Watched("merge") : c = b
        /\ task["merge"].pc = "poll" /\ b.amount = task["merge"].what
    BY <2>1 DEF Batches
  <2>3. outcome["merge"] = Silent
    BY <2>1, <2>2, TaskAt
  <2>4. g(b) \in Watched("merge")' /\ g(b).state = "confirmed"
    BY <1>2, <1>5, <2>1
  <2> QED BY <1>1, <1>4, <1>10, <2>1, <2>2, <2>3, <2>4 DEF Coming, Silent
<1>19. b.kind = "merge" /\ ~b.polled => Coming' = Coming
  <2> SUFFICES ASSUME b.kind = "merge", ~b.polled PROVE Coming' = Coming
    OBVIOUS
  <2>1. (\E c \in Watched("merge")' : c.state = "confirmed") <=> \E c \in Watched("merge") : c.state = "confirmed"
    BY <1>2, <1>5 DEF Watched, Kind
  <2>2. (\E c \in Watched("merge") : c.state = "confirmed") => task'["merge"].what = task["merge"].what
    BY <1>10 DEF Batches, Kind
  <2> QED BY <1>4, <2>1, <2>2 DEF Coming
<1>20. Accounted'
  <2>1. CASE Collected \/ b.kind = "redeem"
    BY <2>1, <1>15, <1>16 DEF Accounted
  <2>2. CASE ~Collected /\ b.kind = "merge"
    <3>1. \A t \in Token : wallet[t] + Coming <= inv[t] + unseen[t]
      BY <2>2 DEF Accounted
    <3>2. \A t \in Token : wallet'[t] = wallet[t] - b.amount
      BY <1>9, <2>2
    <3>3. Coming \in Nat
      BY ComingType
    <3>4. Coming' <= Coming + b.amount /\ Coming' \in Nat
      BY <1>8, <1>18, <1>19, <2>2, <3>3
    <3>5. \A t \in Token : wallet'[t] + Coming' <= wallet[t] + Coming
      BY <1>8, <3>2, <3>3, <3>4
    <3>6. \A t \in Token : wallet'[t] \in Int /\ wallet[t] \in Int /\ inv[t] \in Int /\ unseen[t] \in Int
      BY <1>8, <3>2
    <3>7. \A t \in Token : wallet'[t] + Coming' <= inv[t] + unseen[t]
      BY <3>1, <3>3, <3>4, <3>5, <3>6
    <3> QED BY <1>4, <3>7 DEF Accounted
  <2> QED BY <1>8, <2>1, <2>2 DEF Kind
<1>21. PaidFor'
  BY <1>4, <1>8, <1>9, RelayAssumption DEF PaidFor, Kind
<1> QED BY <1>11, <1>12, <1>13, <1>14, <1>17, <1>20, <1>21

\* What the drains take from the books, and what is left on its way.
LEMMA Drains ==
  ASSUME IInv, Drained
  PROVE  /\ MergeDrained \in Nat /\ AfterMerge \in [Token -> Nat]
         /\ \A t \in Token : AfterMerge[t] = inv[t] - MergeDrained
         /\ Redeemed \subseteq Token /\ (Redeemed # {} => Collected)
         /\ \A t \in Token : inv'[t] = IF t \in Redeemed THEN 0 ELSE AfterMerge[t]
         /\ inv' \in [Token -> Nat]
         /\ RedeemCash \in Nat
         /\ RedeemCash # 0 => winner \in Redeemed /\ RedeemCash = AfterMerge[winner]
<1> USE DEF IInv
<1>1. wallet \in [Token -> Nat] /\ inv \in [Token -> Nat]
  BY DEF Amounts
<1>2. Matched \in Nat /\ \A t \in Token : Matched <= inv[t]
  BY <1>1 DEF Matched, MinOf, Token
<1>3. outcome["merge"].tag = "ok" => outcome["merge"].what \in Nat
  BY RelayAssumption DEF Tasks, Kind, Silent, Failed, Job
<1>4. MergeDrained \in Nat /\ MergeDrained <= Matched
  BY <1>2, <1>3 DEF MergeDrained, MinOf
<1>5. AfterMerge \in [Token -> Nat] /\ \A t \in Token : AfterMerge[t] = inv[t] - MergeDrained
  BY <1>1, <1>2, <1>4 DEF AfterMerge
<1>6. outcome["redeem"].tag = "ok" =>
        /\ outcome["redeem"].what.legs \subseteq Token
        /\ outcome["redeem"].what.priced \in {winner, NoOne} /\ winner # NoOne
  BY DEF Tasks, Kind, Silent, Failed, Job
<1>7. Redeemed \subseteq Token /\ (Redeemed # {} => Collected)
  BY <1>6 DEF Redeemed, Redeems
<1>8. /\ \A t \in Token : inv'[t] = IF t \in Redeemed THEN 0 ELSE AfterMerge[t]
      /\ inv' \in [Token -> Nat]
  BY <1>5 DEF Drained
<1>9. /\ RedeemCash \in Nat
      /\ RedeemCash # 0 => winner \in Redeemed /\ RedeemCash = AfterMerge[winner]
  <2> DEFINE paying == {t \in Redeemed : t = outcome["redeem"].what.priced}
  <2>1. CASE paying = {}
    BY <2>1 DEF RedeemCash
  <2>2. CASE paying # {}
    <3>1. outcome["redeem"].tag = "ok"
      BY <2>2 DEF Redeemed
    <3>2. \A t \in paying : t = winner
      BY <1>6, <1>7, <3>1, RelayAssumption
    <3>3. winner \in Redeemed /\ (CHOOSE t \in paying : TRUE) = winner
      BY <2>2, <3>2
    <3> QED BY <1>5, <1>7, <2>2, <3>3 DEF RedeemCash
  <2> QED BY <2>1, <2>2
<1> QED BY <1>4, <1>5, <1>7, <1>8, <1>9

\* A tick that drains, and may send the redeem sweep out.
LEMMA DrainedKeeps ==
  ASSUME IInv, Drained,
         task' = [k \in Kind |-> task'[k]], task'["merge"] = task["merge"],
         \/ task'["redeem"] = task["redeem"]
         \/ task["redeem"] = Idle /\ task'["redeem"] \in Fetching
  PROVE  IInv'
<1> USE DEF IInv
<1>1. /\ UNCHANGED <<wallet, winner, batches, indexed, unseen, faults, bought>>
      /\ at' = "quote" /\ outcome' = [k \in Kind |-> Silent]
      /\ owed' = owed - (MergeDrained + RedeemCash)
  BY DEF Drained
<1>2. /\ wallet \in [Token -> Nat] /\ inv \in [Token -> Nat] /\ unseen \in [Token -> Nat]
      /\ owed \in Int /\ bought \in 0 .. MaxFills /\ winner \in Token \cup {NoOne}
  BY DEF Amounts, Resolved
<1>3. Amounts'
  BY <1>1, <1>2, Drains, RelayAssumption DEF Amounts
<1>4. Resolved'
  BY <1>1 DEF Resolved
<1>5. \A k \in Kind : task'[k] = task[k] \/ (k = "redeem" /\ task[k] = Idle /\ task'[k] \in Fetching)
  BY DEF Kind
<1>6. Tasks'
  <2>1. \A j \in Kind : Job(j)' = Job(j)
    BY <1>1 DEF Job
  <2> QED BY <1>1, <1>5, <2>1 DEF Tasks, Signing, Submitting, Polling
<1>7. Batches'
  <2>1. \A k \in Kind : Watched(k)' = Watched(k)
    BY <1>1 DEF Watched
  <2>2. \A k \in Kind : task[k].pc = "poll" \/ task'[k].pc = "poll" => task'[k] = task[k]
    BY <1>5 DEF Fetching, Idle
  <2> QED BY <1>1, <2>1, <2>2 DEF Batches
<1>8. Redeems'
  <2>1. Collected' = Collected /\ Watched("redeem")' = Watched("redeem")
    BY <1>1 DEF Collected, Watched
  <2> QED BY <1>1, <2>1 DEF Redeems, Kind, Silent
<1>9. Accounted'
  <2>1. Collected => Collected'
    BY <1>1 DEF Collected
  <2>2. CASE ~Collected
    <3>1. Redeemed = {}
      BY <2>2, Drains
    <3>2. \A t \in Token : inv'[t] = inv[t] - MergeDrained
      BY <3>1, Drains
    <3>3. Coming' = Coming - MergeDrained \/ (Coming' = 0 /\ MergeDrained <= Coming)
      <4>1. Watched("merge")' = Watched("merge") /\ outcome'["merge"].tag # "ok"
        BY <1>1 DEF Watched, Kind, Silent
      <4>2. CASE outcome["merge"].tag = "ok"
        <5>1. task["merge"].pc # "poll"
          BY <4>2 DEF Tasks, Kind, Silent, Idle
        <5>2. Watched("merge") = {}
          BY <5>1 DEF Batches, Kind
        <5>3. outcome["merge"].what \in Nat
          BY <4>2, RelayAssumption DEF Tasks, Kind, Silent, Failed, Job
        <5>4. Matched \in Nat
          BY <1>2 DEF Matched, MinOf, Token
        <5> QED BY <4>1, <4>2, <5>2, <5>3, <5>4 DEF Coming, MergeDrained, MinOf
      <4>3. CASE outcome["merge"].tag # "ok"
        BY <4>1, <4>3, ComingType DEF Coming, MergeDrained
      <4> QED BY <4>2, <4>3
    <3>4. \A t \in Token : wallet[t] + Coming <= inv[t] + unseen[t]
      BY <2>2 DEF Accounted
    <3>5. CASE Coming' = Coming - MergeDrained
      BY <1>1, <1>2, <3>2, <3>4, <3>5, ComingType, Drains DEF Accounted
    <3>6. CASE Coming' = 0 /\ MergeDrained <= Coming
      <4>1. \A t \in Token : wallet[t] + 0 <= inv'[t] + unseen[t]
        BY <1>2, <3>2, <3>4, <3>6, ComingType, Drains
      <4> QED BY <1>1, <3>6, <4>1 DEF Accounted
    <3> QED BY <3>3, <3>5, <3>6
  <2> QED BY <2>1, <2>2 DEF Accounted
<1>10. PaidFor'
  <2> SUFFICES ASSUME NEW t \in Token, winner \in {t, NoOne}
               PROVE  inv'[t] + unseen[t] <= wallet[t] + (owed - (MergeDrained + RedeemCash))
    BY <1>1 DEF PaidFor
  <2>1. inv[t] + unseen[t] <= wallet[t] + owed
    BY DEF PaidFor
  <2>2. RedeemCash # 0 => t \in Redeemed /\ RedeemCash = AfterMerge[t]
    <3>1. RedeemCash # 0 => winner # NoOne /\ winner \in Redeemed /\ RedeemCash = AfterMerge[winner]
      BY Drains DEF Collected
    <3> QED BY <3>1
  <2>3. inv'[t] + RedeemCash <= inv[t] - MergeDrained
    BY <1>2, <2>2, Drains
  <2> QED BY <1>2, <2>1, <2>3, Drains
<1> QED BY <1>3, <1>4, <1>6, <1>7, <1>8, <1>9, <1>10

LEMMA ConsumeFillsKeeps ==
  ASSUME IInv, ConsumeFills
  PROVE  IInv'
<1> USE DEF IInv, ConsumeFills
<1>1. \A t \in Token : inv'[t] = inv[t] + unseen[t] /\ unseen'[t] = 0
  BY DEF Amounts
<1>2. Amounts' /\ PaidFor'
  BY <1>1 DEF Amounts, PaidFor
<1>3. Resolved' /\ Tasks' /\ Batches'
  BY DEF Resolved, Tasks, Batches, Watched, Job, Signing, Submitting, Polling
<1>4. Redeems' /\ Accounted'
  <2>1. Collected' = Collected /\ Coming' = Coming /\ Watched("redeem")' = Watched("redeem")
    BY DEF Collected, Coming, Watched
  <2> QED BY <1>1, <2>1, ComingType DEF Redeems, Accounted, Amounts
<1> QED BY <1>2, <1>3, <1>4

LEMMA NextKeeps == IInv /\ [Next]_vars => IInv'
<1> SUFFICES ASSUME IInv, [Next]_vars PROVE IInv'
  OBVIOUS
<1>1. at \in {"settle", "quote", "fills"} /\ faults \in Nat /\ Tasks
  BY DEF IInv, Tasks, Amounts
<1>2. ASSUME NEW t \in Token, BidFills(t) \/ Resolve(t) PROVE IInv'
  BY <1>2, BidFillsKeeps, ResolveKeeps
<1>3. CASE Index \/ FetchPositions
  BY <1>3, IndexKeeps, FetchPositionsKeeps
<1>4. ASSUME NEW k \in Kind,
             Answered(k) \/ FetchNonce(k) \/ Submit(k) \/ PollEnds(k) \/ CallFails(k)
      PROVE  IInv'
  <2>1. CASE Answered(k)
    BY <2>1, LandsKeeps, FailsKeeps DEF Answered
  <2> QED BY <1>4, <2>1, FetchNonceKeeps, SubmitKeeps, PollEndsKeeps, CallFailsKeeps
<1>5. CASE Settle
  BY <1>1, <1>5, DrainedKeeps DEF Settle, Tasks
<1>6. CASE SettleAndSweep
  <2> DEFINE next == [pc |-> "fetch", held |-> {t \in Token : inv'[t] > 0}]
  <2>1. Drained /\ task["redeem"].pc = "idle" /\ Step("redeem", next) /\ "redeem" \in Kind
    BY <1>6 DEF SettleAndSweep, Doing, Kind
  <2>2. task["redeem"] = Idle
    BY <1>1, <2>1, TaskAt
  <2>3. next \in Fetching
    BY DEF Fetching
  <2> HIDE DEF next
  <2>4. /\ task' = [j \in Kind |-> task'[j]] /\ task'["redeem"] = next
        /\ \A j \in Kind \ {"redeem"} : task'[j] = task[j]
    BY <1>1, <2>1, Moves
  <2> QED BY <2>1, <2>2, <2>3, <2>4, DrainedKeeps DEF Kind
<1>7. CASE Quote
  BY <1>1, <1>7, Stays DEF Quote
<1>8. CASE QuoteAndMerge
  BY <1>8, QuoteAndMergeKeeps
<1>9. CASE ConsumeFills
  BY <1>9, ConsumeFillsKeeps
<1>10. CASE PollFails
  BY <1>1, <1>10, Stays DEF PollFails, Fault
<1>11. CASE UNCHANGED vars
  BY <1>1, <1>11, Stays DEF vars
<1> QED BY <1>2, <1>3, <1>4, <1>5, <1>6, <1>7, <1>8, <1>9, <1>10, <1>11 DEF Next

LEMMA Invariance == Spec => []IInv
<1> QED BY InitIInv, NextKeeps, PTL DEF Spec

LEMMA Forgets == IInv => NothingForgotten
<1> SUFFICES ASSUME IInv PROVE NothingForgotten
  OBVIOUS
<1>1. wallet \in [Token -> Nat] /\ inv \in [Token -> Nat] /\ unseen \in [Token -> Nat] /\ Accounted
  BY DEF IInv, Amounts
<1> QED BY <1>1, ComingType DEF NothingForgotten, Accounted, Collected

(* The loop never believes it holds less than it does, whatever lands,     *)
(* times out, is polled late or drained after a redeem: apply_merge_result *)
(* and drain_redeem_outcomes take no more than what has left the wallet.   *)
THEOREM ForgetsNothing == Spec => []NothingForgotten
<1> QED BY Invariance, Forgets, PTL

(* The collateral the loop has booked never exceeds what the chain paid,   *)
(* in all: apply_merge_result's clamp and the flattening apply_redeem keep *)
(* a share from being credited twice.                                      *)
THEOREM OvercreditsNever == Spec => []NeverOvercredited
<1>1. IInv => NeverOvercredited
  <2> SUFFICES ASSUME IInv PROVE owed >= 0
    BY DEF NeverOvercredited
  <2>1. /\ wallet \in [Token -> Nat] /\ inv \in [Token -> Nat] /\ unseen \in [Token -> Nat]
        /\ owed \in Int /\ winner \in Token \cup {NoOne}
    BY DEF IInv, Amounts, Resolved
  <2>2. PICK t \in Token : winner \in {t, NoOne}
    BY <2>1 DEF Token
  <2>3. inv[t] + unseen[t] <= wallet[t] + owed /\ wallet[t] <= inv[t] + unseen[t]
    BY <2>2, Forgets DEF IInv, PaidFor, NothingForgotten
  <2> QED BY <2>1, <2>3
<1> QED BY <1>1, Invariance, PTL

(* Wallet, books and batches stay what TypeOK says, for any number of      *)
(* fills: neither the wallet nor a merge ever exceeds what was bought.     *)
THEOREM TypeCorrect == Spec => []TypeOK
<1>1. IInv => TypeOK
  <2> SUFFICES ASSUME IInv PROVE TypeOK
    OBVIOUS
  <2>1. /\ wallet \in [Token -> Nat] /\ inv \in [Token -> Nat] /\ unseen \in [Token -> Nat]
        /\ bought \in 0 .. MaxFills /\ owed \in Int
        /\ \A t \in Token : inv[t] + unseen[t] <= bought /\ wallet[t] <= inv[t] + unseen[t]
    BY Forgets DEF IInv, Amounts, NothingForgotten
  <2>2. /\ wallet \in [Token -> 0 .. MaxFills] /\ inv \in [Token -> 0 .. MaxFills]
        /\ unseen \in [Token -> 0 .. MaxFills]
    BY <2>1, RelayAssumption
  <2>3. /\ winner \in Token \cup {NoOne}
        /\ indexed \in [held : SUBSET Token, winner : Token \cup {NoOne}]
    BY DEF IInv, Resolved
  <2>4. \A k \in Kind : task[k].pc \in {"idle", "fetch", "nonce", "submit", "poll"}
    BY TaskAt DEF IInv
  <2> QED BY <2>1, <2>2, <2>3, <2>4 DEF TypeOK, IInv, Batches, Batch, State, Tasks
<1> QED BY <1>1, Invariance, PTL
=============================================================================
