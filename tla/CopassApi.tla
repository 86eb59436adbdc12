------------------------------ MODULE CopassApi ------------------------------
(***************************************************************************)
(* The Python SDK's calls to the Copass API (copass_core): every resource  *)
(* method is one HttpClient.request(), which fetches a token once and      *)
(* hands the request to retry_with_backoff(); ensure_data_source() makes   *)
(* two of them, list then register; ComputeSession.fetch() bypasses both   *)
(* the retries and the error classification.                               *)
(*                                                                         *)
(* A request that left may be served late, after its caller has given up,  *)
(* or never.  What a request does on the server is known here by the row   *)
(* it leaves: the call and the attempt that made it.                       *)
(***************************************************************************)
EXTENDS Naturals

CONSTANTS
  Calls,        \* calls of the SDK, each made once
  Mixes,        \* what the calls of one program may be for
  MaxAttempts   \* RetryConfig.max_attempts

Jobs == {"method", "ensure", "fetch"}

ASSUME MixAssumption == Mixes \subseteq [Calls -> Jobs]
ASSUME LimitAssumption == MaxAttempts \in Nat \ {0}

(***************************************************************************)
(* The catalogue.  Of a method it keeps the verb, what the server does on  *)
(* each delivery (nothing; the same as before, so that a second delivery   *)
(* changes nothing; or something new each time), and what becomes of an    *)
(* answer with an empty body, which request() hands over as None: None is  *)
(* returned, a default is, the answer is dropped anyway, or the conversion *)
(* of the answer raises.                                                   *)
(***************************************************************************)
Effects == {"nothing", "same", "new"}
OnEmpty == {"none", "default", "dropped", "raises"}
Request == [verb : {"GET", "POST", "PATCH", "DELETE"}, effect : Effects,
            onEmpty : OnEmpty]

Get(e)    == [verb |-> "GET", effect |-> "nothing", onEmpty |-> e]
Query(e)  == [verb |-> "POST", effect |-> "nothing", onEmpty |-> e]
Set(e)    == [verb |-> "POST", effect |-> "same", onEmpty |-> e]
New(e)    == [verb |-> "POST", effect |-> "new", onEmpty |-> e]
Patch(e)  == [verb |-> "PATCH", effect |-> "same", onEmpty |-> e]
Delete(e) == [verb |-> "DELETE", effect |-> "same", onEmpty |-> e]

Compute ==
  [list_templates |-> Get("raises"), list_sessions |-> Get("raises"),
   create_session |-> New("raises"), get_session |-> Get("raises")]

ComputeRuns ==
  [stop_session |-> Delete("default"), exec |-> New("raises"),
   session_health |-> Get("raises")]

Triggers ==
  [create |-> New("none"), list |-> Get("none"), retrieve |-> Get("none"),
   update |-> Patch("none"), destroy |-> Delete("dropped"),
   update_by_id |-> Patch("none")]

Agents ==
  [create |-> Set("none"), list |-> Get("none"), retrieve |-> Get("none"),
   update |-> Patch("none"), archive |-> Delete("dropped"),
   update_model_settings |-> Patch("none")]

AgentWiring ==
  [update_tool_sources |-> Patch("none"), wire_integration |-> Set("raises")]

AgentRuns ==
  [test_fire |-> New("none"), start_chat_run |-> New("none"),
   list_runs |-> Get("none"), get_run |-> Get("none"),
   list_tools |-> Get("none"), list_trigger_components |-> Get("none")]

Sources ==
  [register |-> New("none"), list |-> Get("none"), retrieve |-> Get("none"),
   update |-> Patch("none"), connect_linear |-> New("none")]

SourceStates ==
  [pull |-> New("none"), pause |-> Set("none"), resume |-> Set("none"),
   disconnect |-> Set("none"), delete |-> Delete("none"),
   purge |-> Set("none")]

UserMcpSources ==
  [register_user_mcp |-> New("raises"), test_user_mcp |-> Set("raises"),
   revoke_user_mcp |-> Set("raises"), ingest |-> New("none")]

Ingest ==
  [text |-> New("none"), get_job |-> Get("none"),
   text_in_sandbox |-> New("none"), get_sandbox_job |-> Get("none")]

Integrations ==
  [catalog |-> Get("none"), list_accounts |-> Get("none"),
   connect |-> New("none"), list |-> Get("none"),
   disconnect |-> Delete("dropped"), reconcile |-> Set("none")]

Sandboxes ==
  [create |-> New("none"), list |-> Get("none"), retrieve |-> Get("none"),
   update |-> Patch("none"), suspend |-> Set("none"),
   reactivate |-> Set("none"), archive |-> Set("none"),
   destroy |-> Delete("none")]

Projects ==
  [create |-> New("none"), list |-> Get("none"), retrieve |-> Get("none"),
   update |-> Patch("none"), archive |-> Set("none"),
   delete |-> Delete("none"), link_source |-> Set("none"),
   unlink_source |-> Delete("none")]

SandboxConnections ==
  [create |-> New("none"), list |-> Get("none"), revoke |-> Delete("none"),
   spawn_api_key |-> New("none")]

Retrieval ==
  [discover |-> Query("none"), interpret |-> Query("none"),
   search |-> Query("none"), get_origin |-> Query("none")]

Users    == [create_profile |-> Set("none"), get_profile |-> Get("none")]
Usage    == [get_summary |-> Get("none"), get_balance |-> Get("none")]
ApiKeys  == [create |-> New("none"), list |-> Get("default"),
             revoke |-> Delete("none")]
Entities == [search |-> Get("default")]

\* A data source driver passes every call on to the resources.
BaseDataSource ==
  [push |-> UserMcpSources.ingest, get_job |-> Ingest.get_sandbox_job,
   describe |-> Sources.retrieve, pause |-> SourceStates.pause,
   resume |-> SourceStates.resume, disconnect |-> SourceStates.disconnect]

\* The resources CopassClient wires to its one HttpClient, and the driver.
Client ==
  <<Compute, ComputeRuns, Triggers, Agents, AgentWiring, AgentRuns, Sources,
    SourceStates, UserMcpSources, Ingest, Integrations, Sandboxes, Projects,
    SandboxConnections, Retrieval, Users, Usage, ApiKeys, Entities,
    BaseDataSource>>

Methods == UNION {{Client[i][m] : m \in DOMAIN Client[i]} : i \in DOMAIN Client}

ASSUME CatalogueAssumption == Methods \subseteq Request

-----------------------------------------------------------------------------
(***************************************************************************)
(* What can become of one attempt, by the message of its exception, which  *)
(* is all retry_with_backoff() looks at.  "reset" is a lost connection     *)
(* whose text names it; "silent" is a time out or a disconnect whose text  *)
(* has none of the tokens; "garbled" is a 2xx body that does not parse and *)
(* "unlucky" one whose parse error names a position that reads like a 5xx. *)
(***************************************************************************)
Errors == {"reset", "silent", "status4xx", "status5xx", "garbled", "unlucky"}

\* Mutant: every failure is worth another attempt.
AnyIsRetryable(e) == e \in Errors

IsRetryable(e) == e \in {"reset", "status5xx", "unlucky"}
IsNetwork(e)   == e = "reset"

\* What the server answers; a 2xx body may be empty or fail to parse.
Served  == {"value", "empty", "garbled", "unlucky"}
Refused == {"status4xx", "status5xx"}

Attempts == 1..MaxAttempts
Rows     == Calls \X Attempts
Stages   == {"idle", "auth", "send", "wait", "backoff", "done"}
Results  == {"pending", "value", "none", "api", "network", "other", "cancelled"}
NoReply  == [kind |-> "none", seen |-> {}]

VARIABLES
  call,    \* each call: what it does, where it is, what it ended with
  flying,  \* requests that have left and were not served
  reply,   \* the answer on its way back to the call that waits for it
  rows,    \* the new things on the server
  failure, \* what the client saw of each attempt that failed
  before,  \* the sources there were when a call of ensure_data_source began
  blind    \* the calls of it that registered without a list to look at

asked == <<before, blind>>
vars == <<call, flying, reply, rows, failure, asked>>

Packet == [call : Calls, req : Request, attempt : Attempts]

TypeOK ==
  /\ call \in [Calls -> [job : Jobs, req : Request, stage : Stages,
                         attempt : Attempts, result : Results]]
  /\ flying \subseteq Packet
  /\ reply \in [Calls -> [kind : Served \cup Refused \cup {"none"},
                          seen : SUBSET Rows]]
  /\ rows \subseteq Rows
  /\ failure \in [Rows -> Errors \cup {"none", "raised", "cancelled"}]
  /\ before \in [Calls -> SUBSET Rows]
  /\ blind \subseteq Calls

Init ==
  /\ \E mix \in Mixes :
       call = [c \in Calls |-> [job |-> mix[c], req |-> Get("none"),
                                stage |-> "idle", attempt |-> 1,
                                result |-> "pending"]]
  /\ flying = {}
  /\ reply = [c \in Calls |-> NoReply]
  /\ rows = {}
  /\ failure = [r \in Rows |-> "none"]
  /\ before = [c \in Calls |-> {}]
  /\ blind = {}

At(c, stage) == call[c].stage = stage

\* The rows that are data sources of the (provider, name) all ensures share.
SourceRows == {r \in rows : call[r[1]].job = "ensure"}

-----------------------------------------------------------------------------
(***************************************************************************)
(* The caller and HttpClient.request().                                    *)
(***************************************************************************)
Begin(c, job, req) ==
  /\ At(c, "idle") /\ call[c].job = job
  /\ call' = [call EXCEPT ![c].req = req, ![c].stage = "auth"]
  /\ UNCHANGED <<flying, reply, rows, failure>>

CallMethod(c) ==
  /\ \E req \in Methods : Begin(c, "method", req)
  /\ UNCHANGED asked

\* Without reuse_existing it registers at once.
EnsureDataSource(c) ==
  /\ before' = [before EXCEPT ![c] = SourceRows]
  /\ \/ Begin(c, "ensure", Sources.list) /\ UNCHANGED blind
     \/ Begin(c, "ensure", Sources.register) /\ blind' = blind \cup {c}

\* proxy_url() raises before any request when the session has no gateway.
Fetch(c) ==
  \/ Begin(c, "fetch", New("none")) /\ UNCHANGED asked
  \/ /\ At(c, "idle") /\ call[c].job = "fetch"
     /\ call' = [call EXCEPT ![c].stage = "done", ![c].result = "other"]
     /\ UNCHANGED <<flying, reply, rows, failure, asked>>

\* get_session(): once per request(), before the retries.
GetSession(c) ==
  /\ At(c, "auth")
  /\ call' = [call EXCEPT ![c].stage = "send"]
  /\ UNCHANGED <<flying, reply, rows, failure, asked>>

Send(c) ==
  /\ At(c, "send")
  /\ call' = [call EXCEPT ![c].stage = "wait"]
  /\ flying' = flying \cup {[call |-> c, req |-> call[c].req,
                             attempt |-> call[c].attempt]}
  /\ UNCHANGED <<reply, rows, failure, asked>>

-----------------------------------------------------------------------------
(***************************************************************************)
(* The server and the network.                                             *)
(***************************************************************************)
\* The answer reaches a call only while it waits for this very attempt.
Waits(p) ==
  LET k == call[p.call]
  IN k.stage = "wait" /\ k.req = p.req /\ k.attempt = p.attempt

Answer(p, kind) ==
  reply' = IF Waits(p)
           THEN [reply EXCEPT ![p.call] = [kind |-> kind, seen |-> SourceRows]]
           ELSE reply

\* A request may be refused, and a 5xx may come after the effect.
Serve(p) ==
  /\ p \in flying
  /\ flying' = flying \ {p}
  /\ \/ \E kind \in Refused :
          /\ Answer(p, kind)
          /\ UNCHANGED rows
     \/ \E kind \in Served \cup {"status5xx"} :
          /\ Answer(p, kind)
          /\ rows' = IF p.req.effect = "new"
                     THEN rows \cup {<<p.call, p.attempt>>} ELSE rows
  /\ UNCHANGED <<call, failure, asked>>

-----------------------------------------------------------------------------
(***************************************************************************)
(* The outcome of an attempt.                                              *)
(***************************************************************************)
Finish(c, result) ==
  call' = [call EXCEPT ![c].stage = "done", ![c].result = result]

\* request() returned payload; the method converts it.
Return(c, empty) ==
  LET e == call[c].req.onEmpty
  IN Finish(c, CASE e = "dropped"           -> "none"
                 [] ~empty                  -> "value"
                 [] empty /\ e = "default"  -> "value"
                 [] empty /\ e = "none"     -> "none"
                 [] empty /\ e = "raises"   -> "other")

Listing(c) == call[c].job = "ensure" /\ call[c].req = Sources.list

\* Mutant: the list is not searched.
EnsureAlwaysRegisters(c, empty) ==
  /\ call' = [call EXCEPT ![c].req = Sources.register,
                         ![c].stage = "auth", ![c].attempt = 1]
  /\ blind' = IF empty THEN blind \cup {c} ELSE blind

\* ensure_data_source(): the source of that name in the list, else a new one.
\* An answer that is not a dict counts as no source.
EnsureListed(c, empty) ==
  IF ~empty /\ reply[c].seen # {}
  THEN Finish(c, "value") /\ UNCHANGED blind
  ELSE /\ call' = [call EXCEPT ![c].req = Sources.register,
                               ![c].stage = "auth", ![c].attempt = 1]
       /\ blind' = IF empty THEN blind \cup {c} ELSE blind

\* Only of a request that makes something new is the failure remembered, and
\* only such a request may still be served when nobody waits for it.
Failed(c, e) ==
  failure' = IF call[c].req.effect = "new"
             THEN [failure EXCEPT ![<<c, call[c].attempt>>] = e] ELSE failure

Forget(c) == flying' = {p \in flying : p.call = c => p.req.effect = "new"}

Succeed(c) ==
  LET empty == reply[c].kind = "empty"
  IN /\ At(c, "wait")
     /\ reply[c].kind \in {"value", "empty"}
     /\ reply' = [reply EXCEPT ![c] = NoReply]
     /\ \/ Listing(c) /\ EnsureListed(c, empty) /\ UNCHANGED failure
        \/ /\ ~Listing(c)
           /\ \/ call[c].job = "fetch" /\ Finish(c, "value")
              \/ call[c].job # "fetch" /\ Return(c, empty)
           /\ IF empty /\ call[c].req.onEmpty = "raises"
              THEN Failed(c, "raised") ELSE UNCHANGED failure
           /\ UNCHANGED blind
     /\ UNCHANGED <<flying, rows, before>>

\* Mutant: the last attempt is not told apart.
RetryOnceMore(c, e) ==
  IF IsRetryable(e) /\ call[c].attempt <= MaxAttempts
  THEN call' = [call EXCEPT ![c].stage = "backoff"]
  ELSE Finish(c, "other")

\* The except clause: retry, or raise what the error is classified as.
RetryWithBackoff(c, e) ==
  IF IsRetryable(e) /\ call[c].attempt < MaxAttempts
  THEN call' = [call EXCEPT ![c].stage = "backoff"]
  ELSE Finish(c, CASE IsNetwork(e)                      -> "network"
                   [] e \in {"status4xx", "status5xx"}  -> "api"
                   [] OTHER                             -> "other")

\* fetch() hands every answer over and lets every transport error through.
FailFetch(c, e) ==
  Finish(c, IF e \in {"reset", "silent"} THEN "other" ELSE "value")

Fail(c, e) ==
  /\ At(c, "wait")
  /\ reply[c].kind = e \/ (e \in {"reset", "silent"} /\ reply[c] = NoReply)
  /\ reply' = [reply EXCEPT ![c] = NoReply]
  /\ Failed(c, e)
  /\ Forget(c)
  /\ IF call[c].job = "fetch" THEN FailFetch(c, e) ELSE RetryWithBackoff(c, e)
  /\ UNCHANGED <<rows, asked>>

\* Mutant: the attempts are not counted.
BackoffUncounted(c) ==
  /\ At(c, "backoff")
  /\ call' = [call EXCEPT ![c].stage = "send"]
  /\ UNCHANGED <<flying, reply, rows, failure, asked>>

\* asyncio.sleep(delay): the next attempt carries the same headers.
Backoff(c) ==
  /\ At(c, "backoff")
  /\ call' = [call EXCEPT ![c].stage = "send", ![c].attempt = @ + 1]
  /\ UNCHANGED <<flying, reply, rows, failure, asked>>

\* CancelledError is a BaseException whose text is empty: never retried.
Cancel(c) ==
  /\ call[c].stage \in {"auth", "wait", "backoff"}
  /\ Finish(c, "cancelled")
  /\ reply' = [reply EXCEPT ![c] = NoReply]
  /\ Failed(c, "cancelled")
  /\ Forget(c)
  /\ UNCHANGED <<rows, asked>>

Step(c) ==
  \/ GetSession(c)
  \/ Send(c)
  \/ Succeed(c)
  \/ \E e \in Errors : Fail(c, e)
  \/ Backoff(c)

Next ==
  \/ \E c \in Calls : CallMethod(c) \/ EnsureDataSource(c) \/ Fetch(c)
  \/ \E c \in Calls : Step(c) \/ Cancel(c)
  \/ \E p \in flying : Serve(p)

\* A step of the SDK's own that can be taken is taken: an attempt ends at
\* the latest with httpx's time out.
Fairness == \A c \in Calls : WF_vars(Step(c))

Spec == Init /\ [][Next]_vars /\ Fairness

-----------------------------------------------------------------------------
(***************************************************************************)
(* RepeatedOnlyWhenToldSo.  A request that made something new (a source, a *)
(* compute session, a run, a key, an ingest job) is sent again only after  *)
(* a failure whose text named a reset or a 5xx; in particular a time out,  *)
(* a body that does not parse, a cancellation and every call through the   *)
(* compute gateway leave at most one.                                      *)
(***************************************************************************)
RepeatedOnlyWhenToldSo ==
  \A r \in rows :
    r[2] < call[r[1]].attempt =>
      /\ failure[r] \in {"reset", "status5xx", "unlucky"}
      /\ call[r[1]].job # "fetch"

(***************************************************************************)
(* EnsureOnce.  ensure_data_source() is "Idempotent registration"          *)
(* (data_sources.py:131): a call that began when a source of the name was  *)
(* there registers none, however its list request was retried, unless the  *)
(* list came back with an empty body or reuse was switched off.            *)
(***************************************************************************)
EnsureOnce == \A r \in SourceRows : before[r[1]] = {} \/ r[1] \in blind

(***************************************************************************)
(* CallsEnd.  Every call of the SDK ends, whatever the server and the      *)
(* network do.                                                             *)
(***************************************************************************)
CallsEnd == \A c \in Calls : At(c, "auth") ~> At(c, "done")
=============================================================================
