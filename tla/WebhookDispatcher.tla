------------------------- MODULE WebhookDispatcher -------------------------
(***************************************************************************)
(* ucp.Dispatcher: order webhooks wait in a Redis stream, and the pods of  *)
(* the gateway deliver them as consumers of one group.  An entry is        *)
(* numbered by its place in the stream.  Redis keeps how far the group has *)
(* read and, for every entry it has handed out and not seen acknowledged,  *)
(* the consumer that owes it.                                              *)
(*                                                                         *)
(* A consumer is the name of a pod.  Its process reads entries and hands   *)
(* them to its workers; it may be killed or shut down at any step and come *)
(* back under the same name.                                               *)
(***************************************************************************)
EXTENDS Naturals, Sequences, FiniteSets

CONSTANTS
    Consumer,
    Slot,        \* the workers of a process
    NoOne,       \* no consumer owes the entry
    Delivery,    \* what is delivered
    MaxEntries,  \* bound on the entries of the stream
    Batch,       \* entries per read or reclaim
    Attempts,    \* posts before a delivery is given up
    Slow,        \* may a live process hold an entry past visibilityTimeout?
    Returns,     \* may a consumer come back while it is being removed?
    Faults       \* which failures a run includes, see DispatchFaults

(* "crash": a process is killed; "shutdown": it is asked to end; "redis":  *)
(* a call fails, with its effect applied or not.                           *)
DispatchFaults == {"crash", "shutdown", "redis"}

ASSUME DispatcherConstants ==
    /\ NoOne \notin Consumer
    /\ MaxEntries \in Nat
    /\ Batch \in Nat \ {0} /\ Attempts \in Nat \ {0}
    /\ Slow \in BOOLEAN /\ Returns \in BOOLEAN
    /\ Faults \subseteq DispatchFaults

VARIABLES
    entries,   \* the stream: everything that was added
    taken,     \* the last entry the group has read
    owner,     \* the consumer each entry is pending for
    known,     \* the consumers of the group
    acked,     \* the entries that were acknowledged and deleted
    mode,      \* what each process does, see Mode
    cursor,    \* how far it has replayed its own pending entries
    batch,     \* the entries it has read and not handed to a worker
    seen,      \* the consumers it is about to remove
    job,       \* the entry each worker delivers, 0 for none
    failed,    \* how many of its posts have failed
    accepted,  \* history: 2xx answers each entry got (counted to 2)
    spent,     \* history: the entries that failed all attempts of a worker
    unacked    \* history: those whose end a kill or Redis kept from the stream

stream == <<entries, taken, owner, known, acked>>
loop == <<mode, cursor, batch, seen>>
work == <<job, failed>>
outcome == <<accepted, spent, unacked>>
dispatchVars == <<entries, taken, owner, known, acked, mode, cursor, batch, seen, job,
          failed, accepted, spent, unacked>>

Entry == 1..MaxEntries
Mode == {"down", "replay", "run", "inspect", "remove", "drain", "cut"}
Alive == {"replay", "run", "inspect", "remove"}

(* failed = Attempts also marks a worker that has only to acknowledge.     *)
DispatchTypeOK ==
    /\ entries \in Seq(Delivery) /\ Len(entries) <= MaxEntries
    /\ taken \in 0..Len(entries)
    /\ owner \in [Entry -> Consumer \cup {NoOne}]
    /\ known \subseteq Consumer
    /\ acked \subseteq Entry
    /\ mode \in [Consumer -> Mode]
    /\ cursor \in [Consumer -> 0..MaxEntries]
    /\ batch \in [Consumer -> SUBSET Entry]
    /\ seen \in [Consumer -> SUBSET Consumer]
    /\ job \in [Consumer \X Slot -> 0..MaxEntries]
    /\ failed \in [Consumer \X Slot -> 0..Attempts]
    /\ accepted \in [Entry -> 0..2]
    /\ spent \subseteq Entry /\ unacked \subseteq Entry

DispatchInit ==
    /\ entries = <<>> /\ taken = 0
    /\ owner = [e \in Entry |-> NoOne]
    /\ known = {}
    /\ acked = {}
    /\ mode = [c \in Consumer |-> "down"]
    /\ cursor = [c \in Consumer |-> 0]
    /\ batch = [c \in Consumer |-> {}]
    /\ seen = [c \in Consumer |-> {}]
    /\ job = [s \in Consumer \X Slot |-> 0]
    /\ failed = [s \in Consumer \X Slot |-> 0]
    /\ accepted = [e \in Entry |-> 0]
    /\ spent = {} /\ unacked = {}

-----------------------------------------------------------------------------
(* The stream. *)

(* Enqueue: XADD.                                                          *)
Enqueue(d) ==
    /\ Len(entries) < MaxEntries
    /\ entries' = Append(entries, d)
    /\ UNCHANGED <<taken, owner, known, acked, loop, work, outcome>>

Owed(c) == {e \in Entry : owner[e] = c}
Held(c) == batch[c] \cup ({job[<<c, s>>] : s \in Slot} \ {0})

(* Entries a read returns: the first of a set, in the order of the stream. *)
Firsts(S) == {R \in SUBSET S :
                /\ R # {} /\ Cardinality(R) <= Batch
                /\ \A e \in R, f \in S \ R : e < f}

(* A call of Redis whose reply is lost has changed the stream, and the     *)
(* process goes on with nothing.                                           *)
Receive(c, R) ==
    \/ batch' = [batch EXCEPT ![c] = R]
    \/ "redis" \in Faults /\ batch' = batch

(* The group gets to know a consumer when it reads or reclaims.            *)
Joins(c) == known' = known \cup {c}

-----------------------------------------------------------------------------
(* Run. *)

(* A consumer that was away for an hour is not back while it is removed,   *)
(* unless Returns.                                                         *)
Start(c) ==
    /\ mode[c] = "down"
    /\ Returns \/ \A d \in Consumer : c \notin seen[d]
    /\ mode' = [mode EXCEPT ![c] = "replay"]
    /\ cursor' = [cursor EXCEPT ![c] = 0]
    /\ UNCHANGED <<stream, batch, seen, work, outcome>>

(* The entries this name still owes come first, page by page; a failed     *)
(* read ends the replay and leaves the rest to a reclaim.                  *)
Replay(c) ==
    /\ mode[c] = "replay" /\ batch[c] = {}
    /\ LET own == {e \in Owed(c) : e > cursor[c]} IN
       \/ \E R \in Firsts(own) :
            /\ batch' = [batch EXCEPT ![c] = R]
            /\ cursor' = [cursor EXCEPT ![c] =
                            CHOOSE e \in R : \A f \in R : f <= e]
            /\ mode' = mode
       \/ /\ own = {} \/ "redis" \in Faults
          /\ mode' = [mode EXCEPT ![c] = "run"]
          /\ UNCHANGED <<batch, cursor>>
    /\ Joins(c)
    /\ UNCHANGED <<entries, taken, owner, acked, seen, work, outcome>>

(* read(">"): entries nobody has been given.                               *)
ReadNew(c) ==
    /\ mode[c] = "run" /\ batch[c] = {}
    /\ \E last \in (taken + 1)..Len(entries) :
        /\ last <= taken + Batch
        /\ taken' = last
        /\ Receive(c, (taken + 1)..last)
    /\ owner' = [e \in Entry |-> IF taken < e /\ e <= taken' THEN c ELSE owner[e]]
    /\ Joins(c)
    /\ UNCHANGED <<entries, acked, mode, cursor, seen, work, outcome>>

(* Pending past visibilityTimeout, which outlasts the delivery of a        *)
(* process that is alive, its shutdown included, unless Slow.              *)
Overdue ==
    {e \in Entry : /\ owner[e] # NoOne
                   /\ Slow \/ \A c \in Consumer : e \notin Held(c)}

(* Mutant: whoever has been away is removed, whatever it owes.             *)
LongGone == {d \in known : mode[d] = "down"}

(* Away for an hour, which no running process is, and nothing pending.     *)
Gone == {d \in known : mode[d] = "down" /\ Owed(d) = {}}

(* reclaim: XAUTOCLAIM, whoever owes the entries.  Left out where it would *)
(* find nothing to take over and nobody to remove.                         *)
Reclaim(c) ==
    /\ mode[c] = "run" /\ batch[c] = {}
    /\ Overdue # {} \/ Gone # {}
    /\ \E R \in IF Overdue = {} THEN {{}} ELSE Firsts(Overdue) :
        /\ owner' = [e \in Entry |-> IF e \in R THEN c ELSE owner[e]]
        /\ Receive(c, R)
    /\ mode' = [mode EXCEPT ![c] = "inspect"]
    /\ Joins(c)
    /\ UNCHANGED <<entries, taken, acked, cursor, seen, work, outcome>>

(* XINFO CONSUMERS: some of those that are down have been for an hour.     *)
Inspect(c) ==
    /\ mode[c] = "inspect"
    /\ \E gone \in SUBSET Gone :
        /\ seen' = [seen EXCEPT ![c] = gone]
        /\ mode' = [mode EXCEPT ![c] = IF gone = {} THEN "run" ELSE "remove"]
    /\ UNCHANGED <<stream, cursor, batch, work, outcome>>

(* XGROUP DELCONSUMER takes the pending entries of the consumer with it.   *)
Remove(c) ==
    /\ mode[c] = "remove"
    /\ \E d \in seen[c] :
        /\ owner' = [e \in Entry |-> IF owner[e] = d THEN NoOne ELSE owner[e]]
        /\ known' = known \ {d}
        /\ seen' = [seen EXCEPT ![c] = @ \ {d}]
        /\ mode' = [mode EXCEPT ![c] = IF seen[c] = {d} THEN "run" ELSE @]
    /\ UNCHANGED <<entries, taken, acked, cursor, batch, work, outcome>>

(* The channel has no room: an entry waits for a free worker.              *)
Hand(c) ==
    /\ mode[c] \in {"replay", "run"}
    /\ \E e \in batch[c], s \in Slot :
        /\ \A f \in batch[c] : e <= f
        /\ job[<<c, s>>] = 0
        /\ job' = [job EXCEPT ![<<c, s>>] = e]
        /\ batch' = [batch EXCEPT ![c] = @ \ {e}]
    /\ UNCHANGED <<stream, mode, cursor, seen, failed, outcome>>

-----------------------------------------------------------------------------
(* deliver. *)

Working(c, s) == job[<<c, s>>] # 0

(* Mutant: no attempt is the last.                                         *)
KeepsPosting(c, s) == Working(c, s)

Posting(c, s) == Working(c, s) /\ failed[<<c, s>>] < Attempts

Acking(c, s) == Working(c, s) /\ failed[<<c, s>>] = Attempts

Free(c, s) ==
    /\ job' = [job EXCEPT ![<<c, s>>] = 0]
    /\ failed' = [failed EXCEPT ![<<c, s>>] = 0]

(* A post that is answered with a 2xx has only to be acknowledged.         *)
Accept(c, s) ==
    /\ Posting(c, s)
    /\ failed' = [failed EXCEPT ![<<c, s>>] = Attempts]
    /\ accepted' = [accepted EXCEPT ![job[<<c, s>>]] = IF @ = 2 THEN 2 ELSE @ + 1]
    /\ UNCHANGED <<stream, loop, job, spent, unacked>>

(* Refused, no answer, or no signing key; the last failure gives up.       *)
Refuse(c, s) ==
    /\ Posting(c, s) /\ mode[c] # "cut"
    /\ failed' = [failed EXCEPT ![<<c, s>>] = @ + 1]
    /\ spent' = IF failed'[<<c, s>>] = Attempts THEN spent \cup {job[<<c, s>>]}
                                                ELSE spent
    /\ UNCHANGED <<stream, loop, job, accepted, unacked>>

(* The deliveries' context ended: the entry stays pending.                 *)
Abort(c, s) ==
    /\ Posting(c, s) /\ mode[c] = "cut"
    /\ Free(c, s)
    /\ UNCHANGED <<stream, loop, outcome>>

(* Mutant: the acknowledgement uses the deliveries' context.               *)
AckWithDelivery(c, s) ==
    /\ Acking(c, s)
    /\ IF mode[c] = "cut" THEN UNCHANGED <<acked, owner>>
       ELSE /\ acked' = acked \cup {job[<<c, s>>]}
            /\ owner' = [owner EXCEPT ![job[<<c, s>>]] = NoOne]
    /\ Free(c, s)
    /\ UNCHANGED <<entries, taken, known, loop, outcome>>

(* XACKDEL, whoever the entry is pending for by now.  Its context is its   *)
(* own, so a shutdown does not keep it back.                               *)
Ack(c, s) ==
    /\ Acking(c, s)
    /\ \/ /\ acked' = acked \cup {job[<<c, s>>]}
          /\ owner' = [owner EXCEPT ![job[<<c, s>>]] = NoOne]
          /\ unacked' = unacked
       \/ /\ "redis" \in Faults
          /\ unacked' = unacked \cup {job[<<c, s>>]}
          /\ UNCHANGED <<acked, owner>>
    /\ Free(c, s)
    /\ UNCHANGED <<entries, taken, known, loop, accepted, spent>>

-----------------------------------------------------------------------------
(* The end of a process. *)

(* The consume loop ends; entries it has read and not started stay         *)
(* pending.                                                                *)
Shutdown(c) ==
    /\ "shutdown" \in Faults
    /\ mode[c] \in Alive
    /\ mode' = [mode EXCEPT ![c] = "drain"]
    /\ batch' = [batch EXCEPT ![c] = {}]
    /\ seen' = [seen EXCEPT ![c] = {}]
    /\ UNCHANGED <<stream, cursor, work, outcome>>

(* drainTimeout: deliveries still running are cut off.                     *)
CutOff(c) ==
    /\ mode[c] = "drain"
    /\ mode' = [mode EXCEPT ![c] = "cut"]
    /\ UNCHANGED <<stream, cursor, batch, seen, work, outcome>>

(* wg.Wait returned.                                                       *)
Exit(c) ==
    /\ mode[c] \in {"drain", "cut"}
    /\ \A s \in Slot : ~Working(c, s)
    /\ mode' = [mode EXCEPT ![c] = "down"]
    /\ UNCHANGED <<stream, cursor, batch, seen, work, outcome>>

Crash(c) ==
    /\ "crash" \in Faults
    /\ mode[c] # "down"
    /\ mode' = [mode EXCEPT ![c] = "down"]
    /\ batch' = [batch EXCEPT ![c] = {}]
    /\ seen' = [seen EXCEPT ![c] = {}]
    /\ job' = [s \in Consumer \X Slot |-> IF s[1] = c THEN 0 ELSE job[s]]
    /\ failed' = [s \in Consumer \X Slot |-> IF s[1] = c THEN 0 ELSE failed[s]]
    /\ unacked' = unacked \cup
                    {job[<<c, s>>] : s \in {s \in Slot : Acking(c, s)}}
    /\ UNCHANGED <<stream, cursor, accepted, spent>>

LoopStep(c) ==
    \/ Start(c) \/ Replay(c) \/ ReadNew(c) \/ Reclaim(c)
    \/ Inspect(c) \/ Remove(c) \/ Hand(c) \/ CutOff(c) \/ Exit(c)
WorkStep(c, s) == Accept(c, s) \/ Refuse(c, s) \/ Abort(c, s) \/ Ack(c, s)

Dispatch ==
    \/ \E c \in Consumer : LoopStep(c) \/ Shutdown(c) \/ Crash(c)
    \/ \E c \in Consumer, s \in Slot : WorkStep(c, s)

DispatchNext == Dispatch \/ \E d \in Delivery : Enqueue(d)

DispatchSpec == DispatchInit /\ [][DispatchNext]_dispatchVars

(* A call of Redis fails, or does its work and its reply is lost.          *)
ReplyIsLost ==
    \E c \in Consumer :
        \/ /\ batch[c] = {} /\ batch'[c] = {}
           /\ \/ mode[c] = "replay" /\ mode'[c] = "run" /\ \E e \in Owed(c) : e > cursor[c]
              \/ mode[c] = "run" /\ (taken' # taken \/ (mode'[c] = "inspect" /\ Overdue # {}))
        \/ \E s \in Slot : Acking(c, s) /\ job'[<<c, s>>] = 0 /\ job[<<c, s>>] \notin acked'

(* Processes are started again, their loops and workers go on, and         *)
(* failures end at some time.  A reclaim is due every thirty seconds only, *)
(* so reads come between.                                                  *)
DispatchFairness ==
    /\ \A c \in Consumer : WF_dispatchVars(LoopStep(c)) /\ SF_dispatchVars(ReadNew(c))
    /\ \A c \in Consumer, s \in Slot : WF_dispatchVars(WorkStep(c, s))
    /\ <>[][~ \E c \in Consumer : Crash(c) \/ Shutdown(c)]_dispatchVars
    /\ <>[][~ReplyIsLost]_dispatchVars

FairDispatchSpec == DispatchSpec /\ DispatchFairness

-----------------------------------------------------------------------------
(* At least once: an entry waits to be read, is pending for a consumer     *)
(* that will deliver it or lose it to a reclaim, or has been accepted or   *)
(* given up.                                                               *)
NothingLost ==
    \A e \in 1..Len(entries) :
        \/ e > taken
        \/ owner[e] # NoOne
        \/ accepted[e] > 0 \/ e \in spent

(* Why: a worker acknowledges only what was accepted or given up, and a    *)
(* consumer about to be removed owes nothing and stays away.               *)
AcksAreDue ==
    \A c \in Consumer, s \in Slot :
        IF Working(c, s)
        THEN failed[<<c, s>>] = Attempts
                => accepted[job[<<c, s>>]] > 0 \/ job[<<c, s>>] \in spent
        ELSE failed[<<c, s>>] = 0
RemovedOweNothing ==
    ~Returns => \A c \in Consumer : \A d \in seen[c] :
                    mode[d] = "down" /\ Owed(d) = {}

(* An accepted entry is not posted again, unless a kill or Redis kept its  *)
(* acknowledgement back, as long as visibilityTimeout outlasts a delivery: *)
(* neither a reclaim, a replay nor a shutdown repeats it.  On that alone,  *)
(* where ImplementsQueue, below, needs more.                               *)
AcceptedOnce == \A e \in Entry : accepted[e] > 1 => e \in unacked

(* Where an entry of the stream is.  One that nobody owes any more and     *)
(* that was read counts as gone, however it got there.                     *)
PlaceOf(e) ==
    IF e > Len(entries) THEN "none"
    ELSE IF e > taken THEN "waiting"
    ELSE IF owner[e] # NoOne THEN "pending" ELSE "left"

(* The pods, Redis and whatever fails of them together are the queue of    *)
(* DeliveryQueue, where no consumer comes back while it is removed and no  *)
(* live process holds an entry past visibilityTimeout: entries are handed  *)
(* out in order, leave after their end only and for good, and an end is    *)
(* not followed by another post but where a kill or Redis kept it back.    *)
Queue == INSTANCE DeliveryQueue WITH
            place <- [e \in Entry |-> PlaceOf(e)], answers <- accepted, kept <- unacked

ImplementsQueue == Queue!Spec

(* Every entry leaves the stream, whichever processes end on the way.      *)
EntriesEnd == \A e \in Entry : (Len(entries) >= e) ~> (e \in acked)
=============================================================================
