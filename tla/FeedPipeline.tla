---------------------------- MODULE FeedPipeline ----------------------------
(***************************************************************************)
(* fetchAllProducts, the part of a sweep that runs concurrently.  A        *)
(* producer schedules pages 2..Pages, an errgroup fetches a few of them at *)
(* a time, and the main goroutine emits them in page order.  A window of   *)
(* tokens, taken before a page is scheduled and returned after it is       *)
(* emitted, bounds what is fetched and not yet emitted.                    *)
(*                                                                         *)
(* Page 1 is fetched and emitted before any of this starts, and a          *)
(* catalogue of one page ends there.                                       *)
(***************************************************************************)
EXTENDS Naturals, FiniteSets

CONSTANTS
    Pages,    \* pages of the catalogue, capped at maxPages
    Workers,  \* fetchWorkers, the limit of the errgroup
    Window    \* emitWindow

ASSUME PipelineConstants ==
    /\ Pages \in Nat \ {0, 1} /\ Workers \in Nat \ {0} /\ Window \in Nat \ {0}

Page == 2..Pages

VARIABLES
    main,      \* the caller: emitting, in g.Wait, or back with its result
    next,      \* the page it emits next
    producer,  \* the producer: waiting for a token or for the group, or over
    due,       \* the page it schedules next
    tokens,    \* tokens in the window
    page,      \* what became of each page
    cancelled, \* is the group's context done?
    failure    \* has the group an error?

pipelineVars == <<main, next, producer, due, tokens, page, cancelled, failure>>

SweepTypeOK ==
    /\ main \in {"emit", "wait", "done", "failed"}
    /\ next \in 2..(Pages + 1)
    /\ producer \in {"token", "go", "over"}
    /\ due \in 2..(Pages + 1)
    /\ tokens \in 0..Window
    /\ page \in [Page -> {"none", "running", "fetched", "failed", "emitted"}]
    /\ cancelled \in BOOLEAN
    /\ failure \in BOOLEAN

PipelineInit ==
    /\ main = "emit" /\ next = 2
    /\ producer = "token" /\ due = 2
    /\ tokens = 0
    /\ page = [p \in Page |-> "none"]
    /\ cancelled = FALSE /\ failure = FALSE

Running == {p \in Page : page[p] = "running"}

-----------------------------------------------------------------------------
(* The producer. *)

TakeToken ==
    /\ producer = "token" /\ due <= Pages
    /\ tokens < Window
    /\ tokens' = tokens + 1
    /\ producer' = "go"
    /\ UNCHANGED <<main, next, due, page, cancelled, failure>>

(* All pages are scheduled, or the context is done while it waits for a    *)
(* token.                                                                  *)
StopProducer ==
    /\ producer = "token"
    /\ due > Pages \/ cancelled
    /\ producer' = "over"
    /\ UNCHANGED <<main, next, due, tokens, page, cancelled, failure>>

(* g.Go blocks while the group is full, cancelled or not.                  *)
Schedule ==
    /\ producer = "go"
    /\ Cardinality(Running) < Workers
    /\ page' = [page EXCEPT ![due] = "running"]
    /\ due' = due + 1
    /\ producer' = "token"
    /\ UNCHANGED <<main, next, tokens, cancelled, failure>>

-----------------------------------------------------------------------------
(* The fetches. *)

(* Each page has a channel of its own with room for it.                    *)
Fetch(p) ==
    /\ page[p] = "running"
    /\ page' = [page EXCEPT ![p] = "fetched"]
    /\ UNCHANGED <<main, next, producer, due, tokens, cancelled, failure>>

(* The first error of the group cancels its context.                       *)
FailFetch(p) ==
    /\ page[p] = "running"
    /\ page' = [page EXCEPT ![p] = "failed"]
    /\ failure' = TRUE /\ cancelled' = TRUE
    /\ UNCHANGED <<main, next, producer, due, tokens>>

-----------------------------------------------------------------------------
(* The caller. *)

Emit ==
    /\ main = "emit" /\ next <= Pages
    /\ page[next] = "fetched"
    /\ page' = [page EXCEPT ![next] = "emitted"]
    /\ next' = next + 1
    /\ tokens' = tokens - 1
    /\ UNCHANGED <<main, producer, due, cancelled, failure>>

(* Mutant: an emit error returns and leaves the context alone.             *)
ReturnUncancelled ==
    /\ main = "emit" /\ next <= Pages
    /\ page[next] = "fetched"
    /\ main' = "failed"
    /\ UNCHANGED <<next, producer, due, tokens, page, cancelled, failure>>

(* emit fails: the deferred cancel ends producer and fetches.              *)
FailEmit ==
    /\ main = "emit" /\ next <= Pages
    /\ page[next] = "fetched"
    /\ main' = "failed"
    /\ cancelled' = TRUE
    /\ UNCHANGED <<next, producer, due, tokens, page, failure>>

(* The select sees the context done, or every page is emitted; then        *)
(* g.Wait.                                                                 *)
StopEmitting ==
    /\ main = "emit"
    /\ next > Pages \/ cancelled
    /\ main' = "wait"
    /\ UNCHANGED <<next, producer, due, tokens, page, cancelled, failure>>

(* Mutant: the group's error alone decides the result.                     *)
AnyError == failure

(* The group's error, or that of the context if pages are missing.         *)
Incomplete == failure \/ next <= Pages

(* g.Wait returns and cancels the group's context.                         *)
Wait ==
    /\ main = "wait"
    /\ Running = {}
    /\ main' = IF Incomplete THEN "failed" ELSE "done"
    /\ cancelled' = TRUE
    /\ UNCHANGED <<next, producer, due, tokens, page, failure>>

(* The sweep's own timeout.                                                *)
Timeout ==
    /\ ~cancelled
    /\ cancelled' = TRUE
    /\ UNCHANGED <<main, next, producer, due, tokens, page, failure>>

Producer == TakeToken \/ StopProducer \/ Schedule
FetchEnds(p) == Fetch(p) \/ FailFetch(p)
Main == Emit \/ FailEmit \/ StopEmitting \/ Wait

PipelineNext == Producer \/ Main \/ Timeout \/ \E p \in Page : FetchEnds(p)

PipelineSpec == PipelineInit /\ [][PipelineNext]_pipelineVars

(* Goroutines that can go on do, and a fetch has a timeout.                *)
PipelineFairness ==
    /\ WF_pipelineVars(Producer) /\ WF_pipelineVars(Main)
    /\ \A p \in Page : WF_pipelineVars(FetchEnds(p))

FairPipelineSpec == PipelineSpec /\ PipelineFairness

-----------------------------------------------------------------------------
(* The pages held in memory, fetched or about to be, stay within the       *)
(* window, even if the emission stalls.                                    *)
WindowBounds ==
    Cardinality({p \in Page : page[p] \in {"running", "fetched"}}) <= Window

(* A sweep that reports success emitted every page: neither a failed fetch *)
(* nor a timeout truncates a feed silently.                                *)
DoneIsComplete == main = "done" => \A p \in Page : page[p] = "emitted"

(* Why: a token is out for every page that is scheduled and not emitted,   *)
(* and for the one the producer is about to schedule.                      *)
TokensFitPages ==
    /\ next <= due
    /\ tokens = (due - next) + (IF producer = "go" THEN 1 ELSE 0)
    /\ producer = "go" => due <= Pages
    /\ \A p \in Page : /\ page[p] = "emitted" <=> p < next
                       /\ page[p] = "none" <=> due <= p

(* Whatever fails, the caller returns, and producer and fetches end: none  *)
(* is left parked on the window or on the group.                           *)
EverythingEnds ==
    <>(main \in {"done", "failed"} /\ producer = "over" /\ Running = {})
=============================================================================
