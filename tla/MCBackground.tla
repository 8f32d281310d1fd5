---------------------------- MODULE MCBackground ----------------------------
(***************************************************************************)
(* What goes on behind the requests, in one run: each behaviour is one of  *)
(* the feed cache, of one sweep of it, or of the webhook dispatcher.  The  *)
(* others rest in a state in which none of their steps is due.             *)
(***************************************************************************)
EXTENDS FeedCache, FeedPipeline, WebhookDispatcher

VARIABLE on

\* A fresh feed, a sweep that is over, dispatchers with nothing to deliver.
CacheRests ==
    /\ catalog = 0 /\ announced = 0 /\ epoch = 0
    /\ cache = [data |-> 0, fresh |-> TRUE, build |-> "new"] /\ build = [p \in Pod |-> "new"]
    /\ phase = [p \in Pod |-> "none"] /\ began = [p \in Pod |-> 0] /\ data = [p \in Pod |-> 0]
    /\ watched = [p \in Pod |-> 0] /\ tries = [p \in Pod |-> 0]
SweepRests ==
    /\ main = "done" /\ next = Pages + 1 /\ producer = "over" /\ due = Pages + 1 /\ tokens = 0
    /\ page = [p \in Page |-> "emitted"]
    /\ cancelled = TRUE /\ failure = FALSE
DispatchRests ==
    /\ entries = <<>> /\ taken = 0 /\ owner = [e \in Entry |-> NoOne] /\ known = Consumer /\ acked = {}
    /\ mode = [c \in Consumer |-> "run"] /\ cursor = [c \in Consumer |-> 0]
    /\ batch = [c \in Consumer |-> {}] /\ seen = [c \in Consumer |-> {}]
    /\ job = [s \in Consumer \X Slot |-> 0] /\ failed = [s \in Consumer \X Slot |-> 0]
    /\ accepted = [e \in Entry |-> 0] /\ spent = {} /\ unacked = {}

MCInit ==
    \/ on = "cache" /\ FeedInit /\ SweepRests /\ DispatchRests
    \/ on = "sweep" /\ CacheRests /\ PipelineInit /\ DispatchRests
    \/ on = "dispatch" /\ CacheRests /\ SweepRests /\ DispatchInit

MCNext ==
    /\ on' = on
    /\ \/ on = "cache" /\ FeedNext /\ UNCHANGED <<pipelineVars, dispatchVars>>
       \/ on = "sweep" /\ PipelineNext /\ UNCHANGED <<feedVars, dispatchVars>>
       \/ on = "dispatch" /\ DispatchNext /\ UNCHANGED <<feedVars, pipelineVars>>

MCSpec ==
    /\ MCInit /\ [][MCNext]_<<on, feedVars, pipelineVars, dispatchVars>>
    /\ FeedFairness /\ PipelineFairness /\ DispatchFairness
=============================================================================
