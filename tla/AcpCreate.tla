----------------------------- MODULE AcpCreate -----------------------------
(***************************************************************************)
(* The creation of ACP sessions under one Idempotency-Key: requests that   *)
(* come at once or again, the claim of the key in Redis, the record of the *)
(* session it made, and the sessions.  What a session holds is the subject *)
(* of CartSync and CheckoutView.                                           *)
(***************************************************************************)
EXTENDS Naturals, FiniteSets

CONSTANTS
    Attempt,    \* requests that are served at once
    Body,       \* what they may ask for, by its hash
    SessionId,  \* the ids that may be minted
    NoId

ASSUME AcpCreateAssumption == NoId \notin SessionId /\ Body # {}

VARIABLES
    idem,      \* Redis: the key: not there, in flight, or its record
    alive,     \* Redis: the sessions
    mintedIds, \* the ids that were minted
    creating,  \* the requests
    named,     \* history: the bodies and sessions of the 201 answers
    lapsed     \* history: did the key expire under a request, or after an answer?

createVars == <<idem, alive, mintedIds, creating, named, lapsed>>

NoRequest(b) == [at |-> "idle", body |-> b, id |-> NoId]
NoIdem == [state |-> "none", body |-> CHOOSE b \in Body : TRUE, id |-> NoId]
InFlight == [NoIdem EXCEPT !.state = "inflight"]

CreateInit ==
    /\ idem = NoIdem
    /\ alive = {} /\ mintedIds = {}
    /\ creating = [r \in Attempt |-> NoRequest(NoIdem.body)]
    /\ named = {}
    /\ lapsed = FALSE

-----------------------------------------------------------------------------
CreateGoes(r, at) == creating' = [creating EXCEPT ![r].at = at]
CreateEnds(r) == creating' = [creating EXCEPT ![r] = NoRequest(NoIdem.body)]

ReceiveCreate(r, b) ==
    /\ creating[r].at = "idle"
    /\ creating' = [creating EXCEPT ![r] = [at |-> "claim", body |-> b, id |-> NoId]]
    /\ UNCHANGED <<idem, alive, mintedIds, named, lapsed>>

\* claimIdem, SETNX: the first takes the key; when Redis fails, it may be taken
\* for a request that is answered 503.
ClaimCreate(r) ==
    /\ creating[r].at = "claim"
    /\ IF idem = NoIdem
       THEN \/ idem' = InFlight /\ (CreateGoes(r, "build") \/ CreateEnds(r))
            \/ idem' = idem /\ CreateEnds(r)
       ELSE idem' = idem /\ (CreateGoes(r, "read") \/ CreateEnds(r))
    /\ UNCHANGED <<alive, mintedIds, named, lapsed>>

\* GET: in flight, or gone meanwhile, it is a conflict; so is another body.
ReadClaim(r) ==
    /\ creating[r].at = "read"
    /\ \/ /\ idem.state = "record" /\ idem.body = creating[r].body
          /\ creating' = [creating EXCEPT ![r].at = "replay", ![r].id = idem.id]
       \/ CreateEnds(r)
    /\ UNCHANGED <<idem, alive, mintedIds, named, lapsed>>

NameSession(r) == named' = named \cup {[body |-> creating[r].body, id |-> creating[r].id]}

\* A replay answers with the session as it is now, or that it has expired.
Replay(r) ==
    /\ creating[r].at = "replay"
    /\ IF creating[r].id \in alive THEN NameSession(r) ELSE UNCHANGED named
    /\ CreateEnds(r)
    /\ UNCHANGED <<idem, alive, mintedIds, lapsed>>

\* The checks and the calls of the store; whichever fails releases the key.
BuildSession(r) ==
    /\ creating[r].at = "build"
    /\ \/ \E id \in SessionId \ mintedIds :
             /\ mintedIds' = mintedIds \cup {id}
             /\ creating' = [creating EXCEPT ![r].at = "save", ![r].id = id]
       \/ CreateGoes(r, "release") /\ UNCHANGED mintedIds
    /\ UNCHANGED <<idem, alive, named, lapsed>>

\* Store.Save; one that fails may have been done.
SaveCreated(r) ==
    /\ creating[r].at = "save"
    /\ \/ alive' = alive \cup {creating[r].id} /\ (CreateGoes(r, "record") \/ CreateGoes(r, "release"))
       \/ alive' = alive /\ CreateGoes(r, "release")
    /\ UNCHANGED <<idem, mintedIds, named, lapsed>>

\* Mutant: the claim is released when the handler returns, whatever it did.
StoreRecordReleased(r) ==
    /\ creating[r].at = "record"
    /\ idem' = NoIdem
    /\ NameSession(r) /\ CreateEnds(r)
    /\ UNCHANGED <<alive, mintedIds, lapsed>>

\* storeIdem, whose error nobody looks at; then the 201.
StoreRecord(r) ==
    /\ creating[r].at = "record"
    /\ idem' \in {idem, [state |-> "record", body |-> creating[r].body, id |-> creating[r].id]}
    /\ NameSession(r) /\ CreateEnds(r)
    /\ UNCHANGED <<alive, mintedIds, lapsed>>

\* releaseIdem deletes the key, also one that is no longer this request's.
ReleaseClaim(r) ==
    /\ creating[r].at = "release"
    /\ idem' \in {idem, NoIdem}
    /\ CreateEnds(r)
    /\ UNCHANGED <<alive, mintedIds, named, lapsed>>

CreateCrash(r) ==
    /\ creating[r].at # "idle"
    /\ CreateEnds(r)
    /\ UNCHANGED <<idem, alive, mintedIds, named, lapsed>>

\* After a minute in flight, or a day as a record.
ExpireIdem ==
    /\ idem # NoIdem
    /\ idem' = NoIdem
    /\ lapsed' = (lapsed \/ named # {} \/ \E r \in Attempt : creating[r].at \in {"build", "save", "record", "release"})
    /\ UNCHANGED <<alive, mintedIds, creating, named>>

DropSession ==
    /\ \E id \in alive : alive' = alive \ {id}
    /\ UNCHANGED <<idem, mintedIds, creating, named, lapsed>>

CreateNext ==
    \/ \E r \in Attempt :
          \/ \E b \in Body : ReceiveCreate(r, b)
          \/ ClaimCreate(r) \/ ReadClaim(r) \/ Replay(r) \/ BuildSession(r) \/ SaveCreated(r)
          \/ StoreRecord(r) \/ ReleaseClaim(r) \/ CreateCrash(r)
    \/ ExpireIdem \/ DropSession

CreateSpec == CreateInit /\ [][CreateNext]_createVars

-----------------------------------------------------------------------------
CreateTypeOK ==
    /\ idem \in [state : {"none", "inflight", "record"}, body : Body, id : SessionId \cup {NoId}]
    /\ alive \subseteq mintedIds /\ mintedIds \subseteq SessionId
    /\ creating \in [Attempt -> [at : {"idle", "claim", "read", "replay", "build", "save", "record", "release"},
                                 body : Body, id : SessionId \cup {NoId}]]
    /\ named \subseteq [body : Body, id : SessionId] /\ lapsed \in BOOLEAN

\* However often and with whatever body a create is repeated, beside failing and
\* dying ones: as long as its key did not expire under a request or after an
\* answer, all 201 answers are to one body and name one session (Handler.create,
\* claimIdem).
CreateNamesOne == ~lapsed => Cardinality(named) <= 1
=============================================================================
