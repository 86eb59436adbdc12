---------------------------- MODULE CopassApi_proofs ----------------------------
(***************************************************************************)
(* Proofs about CopassApi, for any number of calls, any mix of them and    *)
(* any limit of attempts.                                                  *)
(***************************************************************************)
EXTENDS CopassApi, TLAPS

CallRecord == [job : Jobs, req : Request, stage : Stages, attempt : Attempts,
               result : Results]

Retryable == {"reset", "status5xx", "unlucky"}

\* A call has its first attempt ahead of it until it begins, and after a
\* failure that is retried there is another.
AttemptInv ==
  \A c \in Calls :
    /\ At(c, "idle") => call[c].attempt = 1
    /\ At(c, "backoff") => call[c].attempt < MaxAttempts

\* An answer is there for a call that waits.
ReplyInv == \A c \in Calls : ~At(c, "wait") => reply[c] = NoReply

\* Only a call that makes something new has left a row, or still can.
RowInv ==
  /\ \A r \in rows : ~At(r[1], "idle") /\ call[r[1]].req.effect = "new"
  /\ \A p \in flying : /\ ~At(p.call, "idle")
                       /\ p.req.effect = "new" => call[p.call].req.effect = "new"

\* Every attempt before the last one of such a call failed as the retry needs.
FailureInv ==
  \A c \in Calls : call[c].req.effect = "new" =>
    /\ At(c, "backoff") => failure[<<c, call[c].attempt>>] \in Retryable /\ call[c].job # "fetch"
    /\ \A n \in Attempts : n < call[c].attempt =>
         failure[<<c, n>>] \in Retryable /\ call[c].job # "fetch"

\* What a list shows has all that was there when the call began, and a call that
\* registers found none or did not look.
EnsureInv ==
  \A c \in Calls :
    /\ before[c] \subseteq SourceRows
    /\ reply[c].kind # "none" => before[c] \subseteq reply[c].seen
    /\ call[c].job = "ensure" /\ call[c].req.effect = "new" => before[c] = {} \/ c \in blind

IInv == TypeOK /\ AttemptInv /\ ReplyInv /\ RowInv /\ FailureInv /\ EnsureInv

-----------------------------------------------------------------------------
(* Records.                                                                *)

\* The requests of ensure_data_source() and of the gateway.
LEMMA Requests ==
  /\ Sources.list \in Request /\ Sources.list.effect = "nothing"
  /\ Sources.register \in Request /\ Sources.register.effect = "new"
  /\ New("none") \in Request /\ Get("none") \in Request /\ Get("none").effect = "nothing"
  /\ Methods \subseteq Request
<1>1. Sources.list = Get("none") /\ Sources.register = New("none")
  BY DEF Sources
<1>2. /\ Get("none") \in Request /\ Get("none").effect = "nothing"
      /\ New("none") \in Request /\ New("none").effect = "new"
  BY DEF Get, New, Request, Effects, OnEmpty
<1> QED
  BY <1>1, <1>2, CatalogueAssumption

LEMMA InitInv == Init => IInv
<1> SUFFICES ASSUME Init PROVE IInv
  OBVIOUS
<1> USE DEF Init
<1>1. PICK mix \in Mixes :
        call = [c \in Calls |-> [job |-> mix[c], req |-> Get("none"), stage |-> "idle",
                                 attempt |-> 1, result |-> "pending"]]
  OBVIOUS
<1>2. \A c \in Calls : mix[c] \in Jobs
  BY MixAssumption
<1>3. 1 \in Attempts
  BY LimitAssumption DEF Attempts
<1>4. \A c \in Calls : /\ call[c] \in CallRecord /\ call[c].stage = "idle" /\ call[c].attempt = 1
                       /\ call[c].req.effect = "nothing"
  BY <1>1, <1>2, <1>3, Requests DEF CallRecord, Stages, Results
<1>5. NoReply.kind = "none" /\ NoReply.seen = {}
  BY DEF NoReply
<1>6. call \in [Calls -> CallRecord]
  BY <1>1, <1>4
<1>7. NoReply \in [kind : Served \union Refused \union {"none"}, seen : SUBSET Rows]
  BY DEF NoReply
<1>8. TypeOK
  BY <1>6, <1>7 DEF TypeOK, CallRecord
<1>9. AttemptInv /\ ReplyInv /\ RowInv
  BY <1>4 DEF AttemptInv, ReplyInv, RowInv, At
<1>10. FailureInv
  BY <1>4 DEF FailureInv
<1>11. EnsureInv
  BY <1>4, <1>5 DEF EnsureInv
<1> QED
  BY <1>8, <1>9, <1>10, <1>11 DEF IInv

-----------------------------------------------------------------------------
(* A step of one call.                                                     *)

\* What a step of call c leaves: the calls of others, and what c is for.
Steps(c, k) ==
  /\ k \in CallRecord /\ k.job = call[c].job
  /\ call' = [call EXCEPT ![c] = k]

\* The step of a call that makes no row and takes no answer but its own.
LEMMA StepTypes ==
  ASSUME TypeOK, NEW c \in Calls, NEW k, Steps(c, k),
         flying' \subseteq Packet, rows' = rows,
         reply' = reply \/ reply' = [reply EXCEPT ![c] = NoReply],
         \/ failure' = failure
         \/ \E e \in Errors \union {"raised", "cancelled"} : Failed(c, e),
         before' \in [Calls -> SUBSET Rows], blind' \subseteq Calls
  PROVE  TypeOK'
<1> USE DEF TypeOK
<1>1. call' \in [Calls -> CallRecord]
  BY DEF Steps, CallRecord
<1>2. reply' \in [Calls -> [kind : Served \union Refused \union {"none"}, seen : SUBSET Rows]]
  BY DEF NoReply
<1>3. failure' \in [Rows -> Errors \union {"none", "raised", "cancelled"}]
  BY DEF Failed
<1> QED
  BY <1>1, <1>2, <1>3 DEF CallRecord

\* A call's step keeps the invariant when what it leaves of that call does.
LEMMA StepKeeps ==
  ASSUME IInv, TypeOK', NEW c \in Calls, NEW k, Steps(c, k), k.stage # "idle",
         rows' = rows,
         \A p \in flying' : p \in flying \/ (p.call = c /\ p.req = k.req),
         reply' = reply \/ reply' = [reply EXCEPT ![c] = NoReply],
         k.stage = "wait" \/ reply'[c] = NoReply,
         k.stage = "backoff" => k.attempt < MaxAttempts,
         ~At(c, "idle") /\ call[c].req.effect = "new" => k.req.effect = "new",
         \A r \in Rows : r[1] # c => failure'[r] = failure[r],
         k.req.effect = "new" =>
           /\ k.stage = "backoff" => failure'[<<c, k.attempt>>] \in Retryable /\ k.job # "fetch"
           /\ \A n \in Attempts : n < k.attempt => failure'[<<c, n>>] \in Retryable /\ k.job # "fetch",
         \/ before' = before
         \/ At(c, "idle") /\ before' = [before EXCEPT ![c] = SourceRows],
         blind \subseteq blind',
         k.job = "ensure" /\ k.req.effect = "new" => before'[c] = {} \/ c \in blind'
  PROVE  IInv'
<1> USE DEF IInv, TypeOK
<1>1. call'[c] = k /\ \A b \in Calls : b # c => call'[b] = call[b]
  BY DEF Steps
<1>2. \A b \in Calls : call'[b].job = call[b].job
  BY <1>1 DEF Steps
<1>3. \A r \in rows : r[1] \in Calls
  BY DEF Rows
<1>4. SourceRows' = SourceRows
  BY <1>2, <1>3 DEF SourceRows
<1>5. \A b \in Calls : b # c => reply'[b] = reply[b]
  OBVIOUS
<1>6. reply'[c] \in {reply[c], NoReply}
  OBVIOUS
<1>7. AttemptInv'
  BY <1>1 DEF AttemptInv, At
<1>8. ReplyInv'
  BY <1>1, <1>5 DEF ReplyInv, At
<1>9. RowInv'
  <2>1. \A p \in flying' : p.call \in Calls
    BY DEF Packet
  <2>2. \A r \in rows : ~At(r[1], "idle")' /\ call'[r[1]].req.effect = "new"
    BY <1>1, <1>3 DEF RowInv, At
  <2>3. ASSUME NEW p \in flying'
        PROVE  ~At(p.call, "idle")' /\ (p.req.effect = "new" => call'[p.call].req.effect = "new")
    <3>1. CASE p.call = c
      BY <1>1, <2>3, <3>1 DEF RowInv, At
    <3>2. CASE p.call # c
      BY <1>1, <2>1, <2>3, <3>2 DEF RowInv, At
    <3> QED
      BY <3>1, <3>2
  <2> QED
    BY <2>2, <2>3 DEF RowInv
<1>10. FailureInv'
  <2> SUFFICES ASSUME NEW b \in Calls, call'[b].req.effect = "new"
               PROVE  /\ At(b, "backoff")' => failure'[<<b, call'[b].attempt>>] \in Retryable
                                              /\ call'[b].job # "fetch"
                      /\ \A n \in Attempts : n < call'[b].attempt =>
                           failure'[<<b, n>>] \in Retryable /\ call'[b].job # "fetch"
    BY DEF FailureInv
  <2>1. CASE b = c
    BY <1>1, <2>1 DEF At
  <2>2. CASE b # c
    <3>1. \A n \in Attempts : failure'[<<b, n>>] = failure[<<b, n>>]
      BY <2>2 DEF Rows
    <3>2. call[b].attempt \in Attempts
      OBVIOUS
    <3> QED
      BY <1>1, <2>2, <3>1, <3>2 DEF FailureInv, At
  <2> QED
    BY <2>1, <2>2
<1>11. EnsureInv'
  <2> SUFFICES ASSUME NEW b \in Calls
               PROVE  /\ before'[b] \subseteq SourceRows
                      /\ reply'[b].kind # "none" => before'[b] \subseteq reply'[b].seen
                      /\ call'[b].job = "ensure" /\ call'[b].req.effect = "new"
                           => before'[b] = {} \/ b \in blind'
    BY <1>4 DEF EnsureInv
  <2>1. CASE b = c
    <3>1. before'[c] \subseteq SourceRows
      BY DEF EnsureInv
    <3>2. ASSUME reply'[c].kind # "none" PROVE before'[c] \subseteq reply'[c].seen
      <4>1. reply'[c] = reply[c] /\ reply[c] # NoReply
        BY <1>6, <3>2 DEF NoReply
      <4>2. before' = before
        BY <4>1 DEF ReplyInv, At
      <4> QED
        BY <3>2, <4>1, <4>2 DEF EnsureInv
    <3> QED
      BY <1>1, <2>1, <3>1, <3>2
  <2>2. CASE b # c
    BY <1>1, <1>5, <2>2 DEF EnsureInv
  <2> QED
    BY <2>1, <2>2
<1> QED
  BY <1>7, <1>8, <1>9, <1>10, <1>11

\* What a call is after a step.
Becomes(c, req, stage, attempt, result) ==
  [job |-> call[c].job, req |-> req, stage |-> stage, attempt |-> attempt, result |-> result]

\* A call goes on.
LEMMA StageUpdate ==
  ASSUME TypeOK, NEW c \in Calls, NEW s \in Stages
  PROVE  [call EXCEPT ![c].stage = s]
           = [call EXCEPT ![c] = Becomes(c, call[c].req, s, call[c].attempt, call[c].result)]
<1> DEFINE k == call[c]
           l == [k EXCEPT !.stage = s]
<1>1. call \in [Calls -> CallRecord] /\ k \in CallRecord
  BY DEF TypeOK, CallRecord
<1>2. [call EXCEPT ![c].stage = s] = [call EXCEPT ![c] = l]
  BY <1>1
<1>3. l \in CallRecord /\ l.job = k.job /\ l.req = call[c].req /\ l.stage = s
      /\ l.attempt = call[c].attempt /\ l.result = call[c].result
  BY <1>1 DEF CallRecord
<1> HIDE DEF l
<1>4. l = [job |-> l.job, req |-> l.req, stage |-> l.stage, attempt |-> l.attempt,
           result |-> l.result]
  BY <1>3 DEF CallRecord
<1> QED
  BY <1>2, <1>3, <1>4 DEF Becomes, l

\* A call goes on with a request.
LEMMA RequestUpdate ==
  ASSUME TypeOK, NEW c \in Calls, NEW q \in Request, NEW s \in Stages
  PROVE  [call EXCEPT ![c].req = q, ![c].stage = s]
           = [call EXCEPT ![c] = Becomes(c, q, s, call[c].attempt, call[c].result)]
<1> DEFINE k == call[c]
           l == [k EXCEPT !.req = q, !.stage = s]
<1>1. call \in [Calls -> CallRecord] /\ k \in CallRecord
  BY DEF TypeOK, CallRecord
<1>2. [call EXCEPT ![c].req = q, ![c].stage = s] = [call EXCEPT ![c] = l]
  BY <1>1
<1>3. l \in CallRecord /\ l.job = k.job /\ l.req = q /\ l.stage = s
      /\ l.attempt = call[c].attempt /\ l.result = call[c].result
  BY <1>1 DEF CallRecord
<1> HIDE DEF l
<1>4. l = [job |-> l.job, req |-> l.req, stage |-> l.stage, attempt |-> l.attempt,
           result |-> l.result]
  BY <1>3 DEF CallRecord
<1> QED
  BY <1>2, <1>3, <1>4 DEF Becomes, l

\* A call ends.
LEMMA ResultUpdate ==
  ASSUME TypeOK, NEW c \in Calls, NEW e \in Results
  PROVE  [call EXCEPT ![c].stage = "done", ![c].result = e]
           = [call EXCEPT ![c] = Becomes(c, call[c].req, "done", call[c].attempt, e)]
<1> DEFINE k == call[c]
           l == [k EXCEPT !.stage = "done", !.result = e]
<1>1. call \in [Calls -> CallRecord] /\ k \in CallRecord
  BY DEF TypeOK, CallRecord
<1>2. [call EXCEPT ![c].stage = "done", ![c].result = e] = [call EXCEPT ![c] = l]
  BY <1>1
<1>3. l \in CallRecord /\ l.job = k.job /\ l.req = call[c].req /\ l.stage = "done"
      /\ l.attempt = call[c].attempt /\ l.result = e
  BY <1>1 DEF CallRecord, Stages
<1> HIDE DEF l
<1>4. l = [job |-> l.job, req |-> l.req, stage |-> l.stage, attempt |-> l.attempt,
           result |-> l.result]
  BY <1>3 DEF CallRecord
<1> QED
  BY <1>2, <1>3, <1>4 DEF Becomes, l

\* A call goes on with another attempt.
LEMMA AttemptUpdate ==
  ASSUME TypeOK, NEW c \in Calls, NEW s \in Stages, NEW n \in Attempts
  PROVE  [call EXCEPT ![c].stage = s, ![c].attempt = n]
           = [call EXCEPT ![c] = Becomes(c, call[c].req, s, n, call[c].result)]
<1> DEFINE k == call[c]
           l == [k EXCEPT !.stage = s, !.attempt = n]
<1>1. call \in [Calls -> CallRecord] /\ k \in CallRecord
  BY DEF TypeOK, CallRecord
<1>2. [call EXCEPT ![c].stage = s, ![c].attempt = n] = [call EXCEPT ![c] = l]
  BY <1>1
<1>3. l \in CallRecord /\ l.job = k.job /\ l.req = call[c].req /\ l.stage = s
      /\ l.attempt = n /\ l.result = call[c].result
  BY <1>1 DEF CallRecord
<1> HIDE DEF l
<1>4. l = [job |-> l.job, req |-> l.req, stage |-> l.stage, attempt |-> l.attempt,
           result |-> l.result]
  BY <1>3 DEF CallRecord
<1> QED
  BY <1>2, <1>3, <1>4 DEF Becomes, l

\* ensure_data_source() goes on to register.
LEMMA RegisterUpdate ==
  ASSUME TypeOK, NEW c \in Calls
  PROVE  [call EXCEPT ![c].req = Sources.register, ![c].stage = "auth", ![c].attempt = 1]
           = [call EXCEPT ![c] = Becomes(c, Sources.register, "auth", 1, call[c].result)]
<1> DEFINE k == call[c]
           l == [k EXCEPT !.req = Sources.register, !.stage = "auth", !.attempt = 1]
<1>1. call \in [Calls -> CallRecord] /\ k \in CallRecord
  BY DEF TypeOK, CallRecord
<1>2. [call EXCEPT ![c].req = Sources.register, ![c].stage = "auth", ![c].attempt = 1] = [call EXCEPT ![c] = l]
  BY <1>1
<1>a. Sources.register \in Request /\ "auth" \in Stages /\ 1 \in Attempts
  BY Requests, LimitAssumption DEF Stages, Attempts
<1>3. l \in CallRecord /\ l.job = k.job /\ l.req = Sources.register /\ l.stage = "auth"
      /\ l.attempt = 1 /\ l.result = call[c].result
  BY <1>1, <1>a DEF CallRecord
<1> HIDE DEF l
<1>4. l = [job |-> l.job, req |-> l.req, stage |-> l.stage, attempt |-> l.attempt,
           result |-> l.result]
  BY <1>3 DEF CallRecord
<1> QED
  BY <1>2, <1>3, <1>4 DEF Becomes, l

\* The fields of what a call becomes.
LEMMA Fields ==
  ASSUME TypeOK, NEW c \in Calls, NEW q \in Request, NEW s \in Stages, NEW n \in Attempts,
         NEW e \in Results, NEW k, k = Becomes(c, q, s, n, e)
  PROVE  /\ k \in CallRecord /\ k.job = call[c].job
         /\ k.req = q /\ k.stage = s /\ k.attempt = n /\ k.result = e
BY DEF TypeOK, Becomes, CallRecord

\* A step that neither fails nor begins: where the call goes is all it changes.
LEMMA PlainStep ==
  ASSUME IInv, NEW c \in Calls, ~At(c, "idle"), NEW s \in {"send", "wait", "done"},
         NEW n \in Attempts, NEW e \in Results,
         call' = [call EXCEPT ![c] = Becomes(c, call[c].req, s, n, e)],
         n = call[c].attempt \/ (At(c, "backoff") /\ s = "send" /\ n = call[c].attempt + 1),
         rows' = rows, flying' \subseteq Packet,
         \A p \in flying' : p \in flying \/ (p.call = c /\ p.req = call[c].req),
         (s = "wait" /\ ~At(c, "wait") /\ reply' = reply) \/ reply' = [reply EXCEPT ![c] = NoReply],
         failure' = failure \/ \E x \in Errors \union {"raised", "cancelled"} : Failed(c, x),
         s # "done" => failure' = failure,
         before' = before, blind' = blind
  PROVE  IInv'
<1> DEFINE k == Becomes(c, call[c].req, s, n, e)
<1>a. TypeOK
  BY DEF IInv
<1>1. call[c].req \in Request /\ s \in Stages /\ call[c].attempt \in Attempts
  BY <1>a DEF TypeOK, Stages
<1>2. /\ k \in CallRecord /\ k.job = call[c].job /\ k.req = call[c].req /\ k.stage = s
      /\ k.attempt = n
  BY <1>a, <1>1, Fields
<1>3. call' = [call EXCEPT ![c] = k]
  OBVIOUS
<1> HIDE DEF k
<1>4. Steps(c, k)
  BY <1>2, <1>3 DEF Steps
<1>5. reply' = reply \/ reply' = [reply EXCEPT ![c] = NoReply]
  OBVIOUS
<1>6. TypeOK'
  BY <1>a, <1>4, <1>5, StepTypes DEF TypeOK
<1>7. k.stage = "wait" \/ reply'[c] = NoReply
  BY <1>2, <1>a DEF TypeOK
<1>8. \A r \in Rows : r # <<c, call[c].attempt>> => failure'[r] = failure[r]
  BY <1>a DEF TypeOK, Failed
<1>9. \A r \in Rows : r[1] # c => failure'[r] = failure[r]
  BY <1>8
<1>10. ASSUME k.req.effect = "new", NEW m \in Attempts, m < k.attempt
       PROVE  failure'[<<c, m>>] \in Retryable /\ k.job # "fetch"
  <2>0. <<c, m>> \in Rows /\ m \in Nat /\ call[c].attempt \in Nat
    BY <1>1 DEF Rows, Attempts
  <2>1. CASE m < call[c].attempt
    <3>1. <<c, m>> # <<c, call[c].attempt>>
      BY <2>0, <2>1
    <3>2. failure'[<<c, m>>] = failure[<<c, m>>]
      BY <1>8, <2>0, <3>1
    <3> QED
      BY <1>2, <1>10, <2>1, <3>2 DEF IInv, FailureInv
  <2>2. CASE ~(m < call[c].attempt)
    <3>1. m = call[c].attempt /\ At(c, "backoff")
      BY <1>2, <1>10, <2>0, <2>2
    <3>2. failure' = failure
      BY <1>2, <1>10, <2>0, <3>1
    <3> QED
      BY <1>2, <1>10, <3>1, <3>2 DEF IInv, FailureInv
  <2> QED
    BY <2>1, <2>2
<1>11. k.job = "ensure" /\ k.req.effect = "new" => before'[c] = {} \/ c \in blind'
  BY <1>2 DEF IInv, EnsureInv
<1>12. k.stage # "idle" /\ k.stage # "backoff"
  BY <1>2
<1>13. \A p \in flying' : p \in flying \/ (p.call = c /\ p.req = k.req)
  BY <1>2
<1>14. call[c].req.effect = "new" => k.req.effect = "new"
  BY <1>2
<1> QED
  BY <1>4, <1>5, <1>6, <1>7, <1>9, <1>10, <1>11, <1>12, <1>13, <1>14, StepKeeps

\* A step after which the call's next request has its first attempt ahead.
LEMMA FirstStep ==
  ASSUME IInv, NEW c \in Calls, NEW q \in Request, NEW s \in {"auth", "done"}, NEW e \in Results,
         call' = [call EXCEPT ![c] = Becomes(c, q, s, 1, e)],
         rows' = rows, flying' = flying, failure' = failure,
         reply' = [reply EXCEPT ![c] = NoReply] \/ (reply' = reply /\ At(c, "idle")),
         ~At(c, "idle") /\ call[c].req.effect = "new" => q.effect = "new",
         \/ before' = before
         \/ At(c, "idle") /\ before' = [before EXCEPT ![c] = SourceRows],
         blind \subseteq blind', blind' \subseteq Calls,
         call[c].job = "ensure" /\ q.effect = "new" => before'[c] = {} \/ c \in blind'
  PROVE  IInv'
<1> DEFINE k == Becomes(c, q, s, 1, e)
<1>a. TypeOK
  BY DEF IInv
<1>1. s \in Stages /\ 1 \in Attempts
  BY LimitAssumption DEF Stages, Attempts
<1>2. k \in CallRecord /\ k.job = call[c].job /\ k.req = q /\ k.stage = s /\ k.attempt = 1
  BY <1>a, <1>1, Fields
<1>3. call' = [call EXCEPT ![c] = k]
  OBVIOUS
<1> HIDE DEF k
<1>4. Steps(c, k)
  BY <1>2, <1>3 DEF Steps
<1>5. reply' = reply \/ reply' = [reply EXCEPT ![c] = NoReply]
  OBVIOUS
<1>6. before' \in [Calls -> SUBSET Rows]
  BY <1>a DEF TypeOK, SourceRows
<1>7. TypeOK'
  BY <1>a, <1>4, <1>5, <1>6, StepTypes DEF TypeOK
<1>8. reply'[c] = NoReply
  BY <1>a DEF TypeOK, IInv, ReplyInv, At
<1>9. \A n \in Attempts : ~(n < k.attempt)
  BY <1>2 DEF Attempts
<1>10. k.stage # "idle" /\ k.stage # "backoff"
  BY <1>2
<1>11. \A p \in flying' : p \in flying \/ (p.call = c /\ p.req = k.req)
  OBVIOUS
<1>12. ~At(c, "idle") /\ call[c].req.effect = "new" => k.req.effect = "new"
  BY <1>2
<1>13. k.job = "ensure" /\ k.req.effect = "new" => before'[c] = {} \/ c \in blind'
  BY <1>2
<1>14. k.req.effect = "new" =>
         /\ k.stage = "backoff" => failure'[<<c, k.attempt>>] \in Retryable /\ k.job # "fetch"
         /\ \A n \in Attempts : n < k.attempt => failure'[<<c, n>>] \in Retryable /\ k.job # "fetch"
  BY <1>9, <1>10
<1> QED
  BY <1>4, <1>5, <1>7, <1>8, <1>10, <1>11, <1>12, <1>13, <1>14, StepKeeps

\* A failure that is retried.
LEMMA RetryStep ==
  ASSUME IInv, NEW c \in Calls, At(c, "wait"), NEW x \in Retryable, call[c].job # "fetch",
         call[c].attempt < MaxAttempts, call' = [call EXCEPT ![c].stage = "backoff"],
         rows' = rows, flying' \subseteq flying, reply' = [reply EXCEPT ![c] = NoReply],
         Failed(c, x), before' = before, blind' = blind
  PROVE  IInv'
<1> DEFINE k == Becomes(c, call[c].req, "backoff", call[c].attempt, call[c].result)
<1>a. TypeOK
  BY DEF IInv
<1>1. /\ call[c].req \in Request /\ "backoff" \in Stages /\ call[c].attempt \in Attempts
      /\ call[c].result \in Results /\ x \in Errors
  BY <1>a DEF TypeOK, Stages, Retryable, Errors
<1>2. /\ k \in CallRecord /\ k.job = call[c].job /\ k.req = call[c].req /\ k.stage = "backoff"
      /\ k.attempt = call[c].attempt
  BY <1>a, <1>1, Fields
<1>3. call' = [call EXCEPT ![c] = k]
  BY <1>a, <1>1, StageUpdate
<1> HIDE DEF k
<1>4. Steps(c, k)
  BY <1>2, <1>3 DEF Steps
<1>5. TypeOK'
  <2>1. flying' \subseteq Packet /\ before' \in [Calls -> SUBSET Rows] /\ blind' \subseteq Calls
    BY <1>a DEF TypeOK
  <2>2. \E e \in Errors \union {"raised", "cancelled"} : Failed(c, e)
    BY <1>1
  <2> QED
    BY <1>a, <1>4, <2>1, <2>2, StepTypes
<1>6. reply'[c] = NoReply
  BY <1>a DEF TypeOK
<1>7. \A r \in Rows : r # <<c, call[c].attempt>> => failure'[r] = failure[r]
  BY <1>a DEF TypeOK, Failed
<1>8. \A r \in Rows : r[1] # c => failure'[r] = failure[r]
  BY <1>7
<1>9. ASSUME k.req.effect = "new"
      PROVE  /\ k.stage = "backoff" => failure'[<<c, k.attempt>>] \in Retryable /\ k.job # "fetch"
             /\ \A n \in Attempts : n < k.attempt => failure'[<<c, n>>] \in Retryable /\ k.job # "fetch"
  <2>1. <<c, call[c].attempt>> \in Rows
    BY <1>1 DEF Rows
  <2>2. failure'[<<c, call[c].attempt>>] = x
    BY <1>a, <1>2, <1>9, <2>1 DEF TypeOK, Failed
  <2>3. ASSUME NEW n \in Attempts, n < call[c].attempt
        PROVE  failure'[<<c, n>>] \in Retryable
    <3>1. <<c, n>> \in Rows /\ <<c, n>> # <<c, call[c].attempt>>
      BY <1>1, <2>3 DEF Rows, Attempts
    <3> QED
      BY <1>2, <1>7, <1>9, <2>3, <3>1 DEF IInv, FailureInv
  <2> QED
    BY <1>2, <2>2, <2>3
<1>10. k.stage # "idle" /\ (k.stage = "backoff" => k.attempt < MaxAttempts)
  BY <1>2
<1>11. \A p \in flying' : p \in flying \/ (p.call = c /\ p.req = k.req)
  OBVIOUS
<1>12. ~At(c, "idle") /\ call[c].req.effect = "new" => k.req.effect = "new"
  BY <1>2
<1>13. k.job = "ensure" /\ k.req.effect = "new" => before'[c] = {} \/ c \in blind'
  BY <1>2 DEF IInv, EnsureInv
<1> QED
  BY <1>4, <1>5, <1>6, <1>8, <1>9, <1>10, <1>11, <1>12, <1>13, StepKeeps

-----------------------------------------------------------------------------
(* The actions.                                                            *)

\* A call begins; ensure_data_source() notes what it began with.
LEMMA BeginInv ==
  ASSUME IInv, NEW c \in Calls, NEW job, NEW req \in Request, Begin(c, job, req),
         before' = before \/ before' = [before EXCEPT ![c] = SourceRows],
         blind \subseteq blind', blind' \subseteq Calls,
         job = "ensure" /\ req.effect = "new" => c \in blind'
  PROVE  IInv'
<1>1. /\ At(c, "idle") /\ call[c].job = job
      /\ call' = [call EXCEPT ![c].req = req, ![c].stage = "auth"]
      /\ UNCHANGED <<flying, reply, rows, failure>>
  BY DEF Begin
<1>2. TypeOK /\ call[c].attempt = 1 /\ call[c].result \in Results
  BY <1>1 DEF IInv, TypeOK, AttemptInv
<1>3. 1 \in Attempts /\ "auth" \in Stages
  BY LimitAssumption DEF Attempts, Stages
<1>4. call' = [call EXCEPT ![c] = Becomes(c, req, "auth", 1, call[c].result)]
  <2>1. [call EXCEPT ![c].req = req, ![c].stage = "auth"]
          = [call EXCEPT ![c] = Becomes(c, req, "auth", call[c].attempt, call[c].result)]
    BY <1>2, <1>3, RequestUpdate
  <2> QED
    BY <1>1, <1>2, <2>1
<1> QED
  <2>1. /\ flying' = flying /\ reply' = reply /\ rows' = rows /\ failure' = failure
        /\ "auth" \in {"auth", "done"}
    BY <1>1
  <2>2. call[c].job = "ensure" /\ req.effect = "new" => before'[c] = {} \/ c \in blind'
    BY <1>1
  <2> QED
    BY <1>1, <1>2, <1>4, <2>1, <2>2, FirstStep

LEMMA CallInv ==
  ASSUME IInv, NEW c \in Calls, CallMethod(c) \/ EnsureDataSource(c) \/ Fetch(c)
  PROVE  IInv'
<1>1. CASE CallMethod(c)
  <2>1. PICK req \in Methods : Begin(c, "method", req)
    BY <1>1 DEF CallMethod
  <2>2. req \in Request /\ blind' = blind /\ before' = before /\ blind \subseteq Calls
    BY <1>1, Requests DEF CallMethod, asked, IInv, TypeOK
  <2> QED
    BY <2>1, <2>2, BeginInv
<1>2. CASE EnsureDataSource(c)
  <2>1. before' = [before EXCEPT ![c] = SourceRows]
    BY <1>2 DEF EnsureDataSource
  <2>2. CASE Begin(c, "ensure", Sources.list) /\ UNCHANGED blind
    <3>1. blind' = blind /\ blind \subseteq Calls /\ Sources.list.effect # "new"
      BY <2>2, Requests DEF IInv, TypeOK
    <3> QED
      BY <2>1, <2>2, <3>1, Requests, BeginInv
  <2>3. CASE Begin(c, "ensure", Sources.register) /\ blind' = blind \union {c}
    <3>1. blind \subseteq Calls
      BY DEF IInv, TypeOK
    <3> QED
      BY <2>1, <2>3, <3>1, Requests, BeginInv
  <2> QED
    BY <1>2, <2>2, <2>3 DEF EnsureDataSource
<1>3. CASE Fetch(c)
  <2>1. before' = before /\ blind' = blind /\ blind \subseteq Calls
    BY <1>3 DEF Fetch, asked, IInv, TypeOK
  <2>2. CASE Begin(c, "fetch", New("none"))
    BY <2>1, <2>2, Requests, BeginInv
  <2>3. CASE At(c, "idle") /\ call[c].job = "fetch"
             /\ call' = [call EXCEPT ![c].stage = "done", ![c].result = "other"]
             /\ UNCHANGED <<flying, reply, rows, failure, asked>>
    <3>1. TypeOK /\ call[c].attempt = 1 /\ call[c].req \in Request
      BY <2>3 DEF IInv, TypeOK, AttemptInv
    <3>2. 1 \in Attempts /\ "done" \in Stages /\ "other" \in Results
      BY LimitAssumption DEF Attempts, Stages, Results
    <3>3. call' = [call EXCEPT ![c] = Becomes(c, call[c].req, "done", 1, "other")]
      <4>1. [call EXCEPT ![c].stage = "done", ![c].result = "other"]
              = [call EXCEPT ![c] = Becomes(c, call[c].req, "done", call[c].attempt, "other")]
        BY <3>1, <3>2, ResultUpdate
      <4> QED
        BY <2>3, <3>1, <4>1
    <3> QED
      BY <2>1, <2>3, <3>1, <3>2, <3>3, FirstStep
  <2> QED
    BY <1>3, <2>2, <2>3 DEF Fetch
<1> QED
  BY <1>1, <1>2, <1>3

\* A call ends.
LEMMA FinishInv ==
  ASSUME IInv, NEW c \in Calls, ~At(c, "idle"), NEW e \in Results, Finish(c, e),
         rows' = rows, flying' \subseteq flying, reply' = [reply EXCEPT ![c] = NoReply],
         failure' = failure \/ \E x \in Errors \union {"raised", "cancelled"} : Failed(c, x),
         before' = before, blind' = blind
  PROVE  IInv'
<1>1. TypeOK /\ "done" \in Stages /\ call[c].attempt \in Attempts /\ flying' \subseteq Packet
  BY DEF IInv, TypeOK, Stages
<1>2. call' = [call EXCEPT ![c] = Becomes(c, call[c].req, "done", call[c].attempt, e)]
  <2>1. [call EXCEPT ![c].stage = "done", ![c].result = e]
          = [call EXCEPT ![c] = Becomes(c, call[c].req, "done", call[c].attempt, e)]
    BY <1>1, ResultUpdate
  <2> QED
    BY <2>1 DEF Finish
<1> QED
  BY <1>1, <1>2, PlainStep

LEMMA SendInv ==
  ASSUME IInv, NEW c \in Calls, GetSession(c) \/ Send(c) \/ Backoff(c)
  PROVE  IInv'
<1>1. /\ TypeOK /\ call[c].req \in Request /\ call[c].attempt \in Attempts
      /\ call[c].result \in Results /\ "send" \in Stages /\ "wait" \in Stages
  BY DEF IInv, TypeOK, Stages
<1>2. /\ ~At(c, "idle") /\ ~At(c, "wait") /\ reply' = reply /\ rows' = rows /\ failure' = failure
      /\ before' = before /\ blind' = blind
  BY DEF GetSession, Send, Backoff, At, asked
<1>3. reply' = [reply EXCEPT ![c] = NoReply]
  BY <1>1, <1>2 DEF IInv, ReplyInv, TypeOK
<1>4. CASE GetSession(c)
  <2>1. call' = [call EXCEPT ![c] = Becomes(c, call[c].req, "send", call[c].attempt, call[c].result)]
    BY <1>1, <1>4, StageUpdate DEF GetSession
  <2>2. flying' = flying /\ flying \subseteq Packet
    BY <1>1, <1>4 DEF GetSession, TypeOK
  <2> QED
    BY <1>1, <1>2, <1>3, <2>1, <2>2, PlainStep
<1>5. CASE Send(c)
  <2>1. call' = [call EXCEPT ![c] = Becomes(c, call[c].req, "wait", call[c].attempt, call[c].result)]
    BY <1>1, <1>5, StageUpdate DEF Send
  <2>2. flying' = flying \union {[call |-> c, req |-> call[c].req, attempt |-> call[c].attempt]}
    BY <1>5 DEF Send
  <2>3. /\ flying' \subseteq Packet
        /\ \A p \in flying' : p \in flying \/ (p.call = c /\ p.req = call[c].req)
    BY <1>1, <2>2 DEF TypeOK, Packet
  <2> QED
    BY <1>1, <1>2, <1>3, <2>1, <2>3, PlainStep
<1>6. CASE Backoff(c)
  <2>1. At(c, "backoff") /\ call[c].attempt + 1 \in Attempts
    BY <1>1, <1>6, LimitAssumption DEF Backoff, IInv, AttemptInv, Attempts
  <2>2. call' = [call EXCEPT ![c].stage = "send", ![c].attempt = call[c].attempt + 1]
    BY <1>1, <1>6 DEF Backoff, TypeOK
  <2>3. call' = [call EXCEPT ![c] =
                   Becomes(c, call[c].req, "send", call[c].attempt + 1, call[c].result)]
    BY <1>1, <2>1, <2>2, AttemptUpdate
  <2>4. flying' = flying /\ flying \subseteq Packet
    BY <1>1, <1>6 DEF Backoff, TypeOK
  <2> QED
    BY <1>1, <1>2, <1>3, <2>1, <2>3, <2>4, PlainStep
<1> QED
  BY <1>4, <1>5, <1>6

\* What a list without a source leads to.
LEMMA RegisterInv ==
  ASSUME IInv, NEW c \in Calls, At(c, "wait"), Listing(c),
         call' = [call EXCEPT ![c].req = Sources.register, ![c].stage = "auth", ![c].attempt = 1],
         \/ blind' = blind \union {c}
         \/ blind' = blind /\ reply[c].kind # "none" /\ reply[c].seen = {},
         reply' = [reply EXCEPT ![c] = NoReply], UNCHANGED <<flying, rows, failure, before>>
  PROVE  IInv'
<1>1. /\ TypeOK /\ 1 \in Attempts /\ "auth" \in Stages /\ call[c].result \in Results
      /\ blind' \subseteq Calls /\ before \in [Calls -> SUBSET Rows]
  BY LimitAssumption DEF IInv, TypeOK, Attempts, Stages
<1>2. call' = [call EXCEPT ![c] = Becomes(c, Sources.register, "auth", 1, call[c].result)]
  <2>1. [call EXCEPT ![c].req = Sources.register, ![c].stage = "auth", ![c].attempt = 1]
          = [call EXCEPT ![c] = Becomes(c, Sources.register, "auth", 1, call[c].result)]
    BY <1>1, Requests, RegisterUpdate
  <2> QED
    BY <2>1
<1>3. before'[c] = {} \/ c \in blind'
  BY DEF IInv, EnsureInv
<1>4. flying' = flying /\ rows' = rows /\ failure' = failure /\ before' = before
  OBVIOUS
<1>5. Sources.register \in Request /\ Sources.register.effect = "new" /\ blind \subseteq blind'
  BY Requests
<1> QED
  BY <1>1, <1>2, <1>3, <1>4, <1>5, FirstStep

LEMMA SucceedInv ==
  ASSUME IInv, NEW c \in Calls, Succeed(c)
  PROVE  IInv'
<1> DEFINE empty == reply[c].kind = "empty"
<1>1. /\ At(c, "wait") /\ ~At(c, "idle") /\ reply[c].kind # "none"
      /\ reply' = [reply EXCEPT ![c] = NoReply]
      /\ UNCHANGED <<flying, rows, before>>
  BY DEF Succeed, At
<1>2. CASE Listing(c) /\ EnsureListed(c, empty) /\ UNCHANGED failure
  <2>1. CASE ~empty /\ reply[c].seen # {}
    <3>1. Finish(c, "value") /\ blind' = blind /\ "value" \in Results
      BY <1>2, <2>1 DEF EnsureListed, Results
    <3> QED
      BY <1>1, <1>2, <3>1, FinishInv
  <2>2. CASE empty \/ reply[c].seen = {}
    <3>1. /\ call' = [call EXCEPT ![c].req = Sources.register, ![c].stage = "auth",
                                 ![c].attempt = 1]
          /\ blind' = IF empty THEN blind \union {c} ELSE blind
      BY <1>2, <2>2 DEF EnsureListed
    <3>2. \/ blind' = blind \union {c}
          \/ blind' = blind /\ reply[c].kind # "none" /\ reply[c].seen = {}
      BY <1>1, <2>2, <3>1
    <3> QED
      BY <1>1, <1>2, <3>1, <3>2, RegisterInv
  <2> QED
    BY <2>1, <2>2
<1>3. CASE ~Listing(c)
  <2>1. \E e \in Results : Finish(c, e)
    <3>1. CASE call[c].job = "fetch" /\ Finish(c, "value")
      BY <3>1 DEF Results
    <3>2. CASE Return(c, empty)
      <4>1. call[c].req.onEmpty \in OnEmpty
        BY DEF IInv, TypeOK, Request
      <4> QED
        BY <3>2, <4>1 DEF Return, Results, OnEmpty
    <3> QED
      BY <1>3, <3>1, <3>2 DEF Succeed
  <2>2. blind' = blind
    BY <1>3 DEF Succeed
  <2>3. failure' = failure \/ Failed(c, "raised")
    BY <1>3 DEF Succeed
  <2> QED
    BY <1>1, <2>1, <2>2, <2>3, FinishInv
<1> QED
  BY <1>2, <1>3 DEF Succeed

LEMMA FailInv ==
  ASSUME IInv, NEW c \in Calls, NEW x \in Errors, Fail(c, x)
  PROVE  IInv'
<1>1. /\ At(c, "wait") /\ ~At(c, "idle") /\ reply' = [reply EXCEPT ![c] = NoReply]
      /\ Failed(c, x) /\ flying' \subseteq flying /\ rows' = rows
      /\ before' = before /\ blind' = blind
  BY DEF Fail, Forget, asked, At
<1>2. CASE \E e \in Results : Finish(c, e)
  BY <1>1, <1>2, FinishInv
<1>3. CASE call[c].job = "fetch"
  <2>1. Finish(c, IF x \in {"reset", "silent"} THEN "other" ELSE "value")
    BY <1>3 DEF Fail, FailFetch
  <2> QED
    BY <1>2, <2>1 DEF Results
<1>4. CASE call[c].job # "fetch"
  <2>1. RetryWithBackoff(c, x)
    BY <1>4 DEF Fail
  <2>2. CASE IsRetryable(x) /\ call[c].attempt < MaxAttempts
    <3>1. call' = [call EXCEPT ![c].stage = "backoff"] /\ x \in Retryable
      BY <2>1, <2>2 DEF RetryWithBackoff, IsRetryable, Retryable
    <3> QED
      BY <1>1, <1>4, <2>2, <3>1, RetryStep
  <2>3. CASE ~(IsRetryable(x) /\ call[c].attempt < MaxAttempts)
    <3>1. \E e \in {"network", "api", "other"} : Finish(c, e)
      BY <2>1, <2>3 DEF RetryWithBackoff
    <3> QED
      BY <1>2, <3>1 DEF Results
  <2> QED
    BY <2>2, <2>3
<1> QED
  BY <1>3, <1>4

LEMMA CancelInv ==
  ASSUME IInv, NEW c \in Calls, Cancel(c)
  PROVE  IInv'
<1>1. /\ ~At(c, "idle") /\ Finish(c, "cancelled") /\ "cancelled" \in Results
      /\ reply' = [reply EXCEPT ![c] = NoReply]
      /\ Failed(c, "cancelled") /\ flying' \subseteq flying /\ rows' = rows
      /\ before' = before /\ blind' = blind
  BY DEF Cancel, Forget, asked, At, Results
<1> QED
  BY <1>1, FinishInv

\* The server answers at most the attempt that is awaited, and what it answers
\* to it shows all sources there are.
LEMMA ServeInv ==
  ASSUME IInv, NEW p \in flying, Serve(p)
  PROVE  IInv'
<1> USE DEF IInv, TypeOK
<1>1. p \in Packet /\ p.call \in Calls /\ p.attempt \in Attempts /\ p.req \in Request
  BY DEF Packet
<1>2. PICK kind \in Served \union Refused : Answer(p, kind)
  <2>1. \E kind \in Served \union {"status5xx"} \union Refused : Answer(p, kind)
    BY DEF Serve
  <2> QED
    BY <2>1 DEF Refused
<1>3. flying' = flying \ {p} /\ UNCHANGED <<call, failure, before, blind>>
  BY DEF Serve, asked
<1>4. rows' = rows \/ (p.req.effect = "new" /\ rows' = rows \union {<<p.call, p.attempt>>})
  BY DEF Serve
<1>5. SourceRows \subseteq SourceRows' /\ SourceRows \subseteq Rows
  BY <1>3, <1>4 DEF SourceRows
<1>6. /\ \A c \in Calls : c # p.call => reply'[c] = reply[c]
      /\ \/ reply' = reply
         \/ /\ At(p.call, "wait") /\ reply'[p.call].kind # "none"
            /\ reply'[p.call].seen = SourceRows
            /\ reply' \in [Calls -> [kind : Served \union Refused \union {"none"},
                                     seen : SUBSET Rows]]
  BY <1>1, <1>2, <1>5 DEF Answer, Waits, Served, Refused, At
<1>7. rows' \subseteq Rows
  BY <1>1, <1>4 DEF Rows
<1>8. TypeOK'
  BY <1>3, <1>6, <1>7
<1>9. AttemptInv' /\ FailureInv'
  BY <1>3 DEF AttemptInv, FailureInv, At
<1>10. ReplyInv'
  BY <1>3, <1>6 DEF ReplyInv, At
<1>11. RowInv'
  <2>1. p.req.effect = "new" => ~At(p.call, "idle") /\ call[p.call].req.effect = "new"
    BY DEF RowInv
  <2> QED
    BY <1>3, <1>4, <2>1 DEF RowInv, At
<1>12. EnsureInv'
  <2> SUFFICES ASSUME NEW c \in Calls
               PROVE  /\ before[c] \subseteq SourceRows'
                      /\ reply'[c].kind # "none" => before[c] \subseteq reply'[c].seen
                      /\ call[c].job = "ensure" /\ call[c].req.effect = "new"
                           => before[c] = {} \/ c \in blind
    BY <1>3 DEF EnsureInv
  <2>1. /\ before[c] \subseteq SourceRows
        /\ reply[c].kind # "none" => before[c] \subseteq reply[c].seen
        /\ call[c].job = "ensure" /\ call[c].req.effect = "new" => before[c] = {} \/ c \in blind
    BY DEF EnsureInv
  <2> QED
    BY <1>5, <1>6, <2>1
<1> QED
  BY <1>8, <1>9, <1>10, <1>11, <1>12

-----------------------------------------------------------------------------
(* The theorems.                                                           *)

LEMMA StepInv == IInv /\ [Next]_vars => IInv'
<1> SUFFICES ASSUME IInv, [Next]_vars PROVE IInv'
  OBVIOUS
<1>1. CASE UNCHANGED vars
  BY <1>1 DEF vars, asked, IInv, TypeOK, AttemptInv, ReplyInv, RowInv, FailureInv, EnsureInv,
              SourceRows, At
<1> QED
  BY <1>1, CallInv, SendInv, SucceedInv, FailInv, CancelInv, ServeInv DEF Next, Step

LEMMA Invariant == Spec => []IInv
BY InitInv, StepInv, PTL DEF Spec

\* Every reachable state is well typed: in particular no call counts more
\* attempts than max_attempts.
THEOREM TypeCorrect == Spec => []TypeOK
<1>1. IInv => TypeOK
  BY DEF IInv
<1> QED
  BY <1>1, Invariant, PTL

\* A request that made something new is sent again only after a failure whose
\* text named a reset or a 5xx, and never through the compute gateway.
THEOREM NoSilentRepeat == Spec => []RepeatedOnlyWhenToldSo
<1>1. IInv => RepeatedOnlyWhenToldSo
  <2> SUFFICES ASSUME IInv, NEW r \in rows, r[2] < call[r[1]].attempt
               PROVE  failure[r] \in Retryable /\ call[r[1]].job # "fetch"
    BY DEF RepeatedOnlyWhenToldSo, Retryable
  <2>1. r[1] \in Calls /\ r[2] \in Attempts /\ r = <<r[1], r[2]>>
    BY DEF IInv, TypeOK, Rows
  <2>2. call[r[1]].req.effect = "new"
    BY DEF IInv, RowInv
  <2> QED
    BY <2>1, <2>2 DEF IInv, FailureInv
<1> QED
  BY <1>1, Invariant, PTL

\* A call of ensure_data_source() that began when the source was there registers
\* none, unless its list came back empty or was not asked for.
THEOREM EnsuredOnce == Spec => []EnsureOnce
<1>1. IInv => EnsureOnce
  <2> SUFFICES ASSUME IInv, NEW r \in SourceRows PROVE before[r[1]] = {} \/ r[1] \in blind
    BY DEF EnsureOnce
  <2>1. r \in rows /\ r[1] \in Calls /\ call[r[1]].job = "ensure"
    BY DEF IInv, TypeOK, Rows, SourceRows
  <2>2. call[r[1]].req.effect = "new"
    BY <2>1 DEF IInv, RowInv
  <2> QED
    BY <2>1, <2>2 DEF IInv, EnsureInv
<1> QED
  BY <1>1, Invariant, PTL
-----------------------------------------------------------------------------
(* What an answer says of the server.                                      *)

\* The request of this call and attempt, which makes something new, has left
\* and was not served.
Flies(r) == \E p \in flying : p.req.effect = "new" /\ r = <<p.call, p.attempt>>

\* Each attempt sends its request once: it is on its way or it left its row.
FlightInv ==
  /\ \A r \in Rows : r \in rows \/ Flies(r) =>
       /\ r[2] <= call[r[1]].attempt
       /\ call[r[1]].stage \in {"auth", "send"} => r[2] < call[r[1]].attempt
       /\ ~(r \in rows /\ Flies(r))
  /\ \A p \in flying : p.req.effect = "new" => p.req = call[p.call].req

\* The answer that a call takes is the one to the attempt it waits for.
AnswerInv ==
  \A c \in Calls : reply[c].kind # "none" =>
    /\ reply[c].seen \subseteq SourceRows
    /\ call[c].req.effect = "new" =>
         /\ ~Flies(<<c, call[c].attempt>>)
         /\ reply[c].kind \in Served => <<c, call[c].attempt>> \in rows
         /\ reply[c].kind = "status4xx" => <<c, call[c].attempt>> \notin rows

\* A refused attempt was the last of its call, and is over on the server too.
RefusedInv ==
  \A r \in Rows : failure[r] = "status4xx" =>
    At(r[1], "done") /\ r \notin rows /\ ~Flies(r)

\* What a call that returned left on the server.
Truthful(c) ==
  At(c, "done") /\ call[c].result \in {"value", "none"} /\ call[c].job # "fetch" =>
    /\ call[c].req.effect = "new" => <<c, call[c].attempt>> \in rows
    /\ call[c].job = "ensure" => SourceRows # {}

ReturnInv ==
  \A c \in Calls :
    /\ Truthful(c)
    /\ call[c].job = "ensure" => call[c].req \in {Sources.list, Sources.register}

TruthInv == FlightInv /\ AnswerInv /\ RefusedInv /\ ReturnInv

LEMMA InitTruth == Init => TruthInv
<1> SUFFICES ASSUME Init PROVE TruthInv
  OBVIOUS
<1>1. PICK mix \in Mixes :
        call = [c \in Calls |-> [job |-> mix[c], req |-> Get("none"), stage |-> "idle",
                                 attempt |-> 1, result |-> "pending"]]
  BY DEF Init
<1>2. ASSUME NEW c \in Calls PROVE call[c].stage = "idle" /\ call[c].req = Get("none")
  <2>1. call[c] = [job |-> mix[c], req |-> Get("none"), stage |-> "idle",
                   attempt |-> 1, result |-> "pending"]
    BY <1>1, Zenon
  <2> QED
    BY <2>1
<1>3. NoReply.kind = "none" /\ Sources.list = Get("none")
  BY DEF NoReply, Sources
<1> QED
  BY <1>2, <1>3 DEF Init, TruthInv, FlightInv, AnswerInv, RefusedInv, ReturnInv, Truthful, Flies, At

\* A step of a call that sends nothing.
LEMMA TruthKept ==
  ASSUME IInv, TruthInv, NEW c \in Calls, ~At(c, "done"),
         NEW q \in Request, NEW s \in Stages, NEW n \in Attempts, NEW e \in Results,
         call' = [call EXCEPT ![c] = Becomes(c, q, s, n, e)],
         rows' = rows, flying' \subseteq flying, reply' = [reply EXCEPT ![c] = NoReply],
         ~At(c, "idle") /\ call[c].req.effect = "new" =>
           /\ q = call[c].req /\ call[c].attempt <= n
           /\ s \in {"auth", "send"} => call[c].attempt < n \/ call[c].stage \in {"auth", "send"},
         \A r \in Rows : failure'[r] = "status4xx" =>
           failure[r] = "status4xx" \/ (r[1] = c /\ s = "done" /\ r \notin rows /\ ~Flies(r)),
         s = "done" /\ e \in {"value", "none"} /\ call[c].job # "fetch" =>
           /\ q.effect = "new" => <<c, n>> \in rows
           /\ call[c].job = "ensure" => SourceRows # {},
         call[c].job = "ensure" => q \in {Sources.list, Sources.register}
  PROVE  TruthInv'
<1> DEFINE k == Becomes(c, q, s, n, e)
<1>a. TypeOK
  BY DEF IInv
<1>1. /\ k.job = call[c].job /\ k.req = q /\ k.stage = s /\ k.attempt = n /\ k.result = e
  BY <1>a, Fields
<1>2. call'[c] = k /\ \A b \in Calls : b # c => call'[b] = call[b]
  BY <1>a DEF TypeOK
<1> HIDE DEF k
<1>3. reply'[c].kind = "none" /\ \A b \in Calls : b # c => reply'[b] = reply[b]
  BY <1>a DEF TypeOK, NoReply
<1>4. /\ \A r \in Rows : r[1] \in Calls /\ r[2] \in Attempts /\ r = <<r[1], r[2]>>
      /\ rows \subseteq Rows /\ \A p \in flying : p.call \in Calls /\ <<p.call, p.attempt>> \in Rows
  BY <1>a DEF TypeOK, Rows, Packet
<1>5. SourceRows' = SourceRows
  BY <1>1, <1>2, <1>4 DEF SourceRows
<1>6. ASSUME NEW r PROVE Flies(r)' => Flies(r)
  BY DEF Flies
<1>7. ASSUME NEW r \in Rows, r \in rows \/ Flies(r), r[1] = c
      PROVE  ~At(c, "idle") /\ call[c].req.effect = "new"
  BY <1>4, <1>7 DEF IInv, RowInv, Flies
<1>8. FlightInv'
  <2>1. ASSUME NEW r \in Rows, r \in rows \/ Flies(r)
        PROVE  /\ r[2] <= call'[r[1]].attempt
               /\ call'[r[1]].stage \in {"auth", "send"} => r[2] < call'[r[1]].attempt
               /\ ~(r \in rows /\ Flies(r))
    <3>1. /\ r[2] <= call[r[1]].attempt
          /\ call[r[1]].stage \in {"auth", "send"} => r[2] < call[r[1]].attempt
          /\ ~(r \in rows /\ Flies(r))
      BY <2>1 DEF TruthInv, FlightInv
    <3>2. CASE r[1] = c
      <4>1. /\ q = call[c].req /\ call[c].attempt <= n
            /\ s \in {"auth", "send"} => call[c].attempt < n \/ call[c].stage \in {"auth", "send"}
        BY <1>7, <2>1, <3>2
      <4>2. r[2] \in Nat /\ n \in Nat /\ call[c].attempt \in Nat
        BY <1>a, <1>4 DEF TypeOK, Attempts
      <4> QED
        BY <1>1, <1>2, <3>1, <3>2, <4>1, <4>2
    <3>3. CASE r[1] # c
      BY <1>2, <1>4, <3>1, <3>3
    <3> QED
      BY <3>2, <3>3
  <2>2. ASSUME NEW p \in flying', p.req.effect = "new" PROVE p.req = call'[p.call].req
    <3>1. p \in flying /\ p.req = call[p.call].req /\ p.call \in Calls
      BY <1>4, <2>2 DEF TruthInv, FlightInv
    <3>2. CASE p.call = c
      BY <1>1, <1>2, <2>2, <3>1, <3>2 DEF IInv, RowInv
    <3> QED
      BY <1>2, <3>1, <3>2
  <2> QED
    BY <1>6, <2>1, <2>2 DEF FlightInv
<1>9. AnswerInv'
  <2> SUFFICES ASSUME NEW b \in Calls, b # c, reply[b].kind # "none"
               PROVE  /\ reply[b].seen \subseteq SourceRows
                      /\ call[b].req.effect = "new" =>
                           /\ ~Flies(<<b, call[b].attempt>>)'
                           /\ reply[b].kind \in Served => <<b, call[b].attempt>> \in rows
                           /\ reply[b].kind = "status4xx" => <<b, call[b].attempt>> \notin rows
    BY <1>2, <1>3, <1>5 DEF AnswerInv, Flies
  <2>1. ~Flies(<<b, call[b].attempt>>) => ~Flies(<<b, call[b].attempt>>)'
    BY <1>2 DEF Flies
  <2> QED
    BY <2>1 DEF TruthInv, AnswerInv
<1>10. RefusedInv'
  <2> SUFFICES ASSUME NEW r \in Rows, failure'[r] = "status4xx"
               PROVE  call'[r[1]].stage = "done" /\ r \notin rows /\ ~Flies(r)
    BY <1>6 DEF RefusedInv, At
  <2>1. CASE failure[r] = "status4xx"
    BY <1>2, <1>4, <2>1 DEF TruthInv, RefusedInv, At
  <2>2. CASE failure[r] # "status4xx"
    BY <1>1, <1>2, <2>2
  <2> QED
    BY <2>1, <2>2
<1>11. ReturnInv'
  <2> SUFFICES ASSUME NEW b \in Calls
               PROVE  /\ Truthful(b)'
                      /\ call'[b].job = "ensure" => call'[b].req \in {Sources.list, Sources.register}
    BY DEF ReturnInv
  <2>1. CASE b = c
    BY <1>1, <1>2, <1>5, <2>1 DEF Truthful, At
  <2>2. CASE b # c
    BY <1>2, <1>5, <2>2 DEF TruthInv, ReturnInv, Truthful, At
  <2> QED
    BY <2>1, <2>2
<1> QED
  BY <1>8, <1>9, <1>10, <1>11 DEF TruthInv

\* A call that does not wait has no answer to drop.
LEMMA NothingToDrop ==
  ASSUME IInv, NEW c \in Calls, ~At(c, "wait"), reply' = reply
  PROVE  reply' = [reply EXCEPT ![c] = NoReply]
BY DEF IInv, TypeOK, ReplyInv

LEMMA BeginTruth ==
  ASSUME IInv, TruthInv, NEW c \in Calls, CallMethod(c) \/ EnsureDataSource(c) \/ Fetch(c)
  PROVE  TruthInv'
<1>1. /\ TypeOK /\ At(c, "idle") /\ ~At(c, "done") /\ ~At(c, "wait")
      /\ UNCHANGED <<flying, reply, rows, failure>>
  BY DEF CallMethod, EnsureDataSource, Fetch, Begin, At, IInv
<1>2. /\ reply' = [reply EXCEPT ![c] = NoReply]
      /\ call[c].attempt \in Attempts /\ call[c].result \in Results /\ call[c].req \in Request
      /\ "auth" \in Stages /\ "done" \in Stages /\ "other" \in Results
  BY <1>1, NothingToDrop DEF TypeOK, Stages, Results
<1>3. /\ rows' = rows /\ flying' \subseteq flying
      /\ \A r \in Rows : failure'[r] = "status4xx" => failure[r] = "status4xx"
  BY <1>1
<1>4. ASSUME NEW job, NEW req \in Request, Begin(c, job, req),
             job = "ensure" => req \in {Sources.list, Sources.register}
      PROVE  TruthInv'
  <2>1. call[c].job = job /\ call' = [call EXCEPT ![c].req = req, ![c].stage = "auth"]
    BY <1>4 DEF Begin
  <2>2. call' = [call EXCEPT ![c] = Becomes(c, req, "auth", call[c].attempt, call[c].result)]
    BY <1>1, <1>2, <2>1, RequestUpdate
  <2>3. call[c].job = "ensure" => req \in {Sources.list, Sources.register}
    BY <1>4, <2>1
  <2> QED
    BY <1>1, <1>2, <1>3, <2>2, <2>3, TruthKept
<1>5. CASE call[c].job = "fetch" /\ call' = [call EXCEPT ![c].stage = "done", ![c].result = "other"]
  <2>1. call' = [call EXCEPT ![c] = Becomes(c, call[c].req, "done", call[c].attempt, "other")]
    BY <1>1, <1>2, <1>5, ResultUpdate
  <2>2. call[c].job # "ensure"
    BY <1>5
  <2> QED
    BY <1>1, <1>2, <1>3, <2>1, <2>2, TruthKept
<1>6. CASE CallMethod(c)
  <2>1. PICK req \in Methods : Begin(c, "method", req)
    BY <1>6 DEF CallMethod
  <2> QED
    BY <1>4, <2>1, Requests
<1>7. CASE EnsureDataSource(c)
  BY <1>4, <1>7, Requests DEF EnsureDataSource
<1>8. CASE Fetch(c)
  BY <1>4, <1>5, <1>8, Requests DEF Fetch
<1> QED
  BY <1>6, <1>7, <1>8

LEMMA GoOnTruth ==
  ASSUME IInv, TruthInv, NEW c \in Calls, GetSession(c) \/ Backoff(c)
  PROVE  TruthInv'
<1>1. /\ TypeOK /\ ~At(c, "done") /\ ~At(c, "idle") /\ ~At(c, "wait")
      /\ UNCHANGED <<flying, reply, rows, failure>>
  BY DEF GetSession, Backoff, At, IInv
<1>2. /\ reply' = [reply EXCEPT ![c] = NoReply]
      /\ call[c].attempt \in Attempts /\ call[c].result \in Results /\ call[c].req \in Request
      /\ "send" \in Stages
      /\ call[c].job = "ensure" => call[c].req \in {Sources.list, Sources.register}
  BY <1>1, NothingToDrop DEF TypeOK, Stages, TruthInv, ReturnInv
<1>3. CASE GetSession(c)
  <2>1. At(c, "auth") /\ call' = [call EXCEPT ![c].stage = "send"]
    BY <1>3 DEF GetSession
  <2>2. call' = [call EXCEPT ![c] = Becomes(c, call[c].req, "send", call[c].attempt, call[c].result)]
    BY <1>1, <1>2, <2>1, StageUpdate
  <2>3. call[c].attempt <= call[c].attempt /\ call[c].stage \in {"auth", "send"}
    BY <1>2, <2>1 DEF Attempts, At
  <2> QED
    BY <1>1, <1>2, <2>2, <2>3, TruthKept
<1>4. CASE Backoff(c)
  <2>1. At(c, "backoff") /\ call[c].attempt + 1 \in Attempts
    BY <1>2, <1>4, LimitAssumption DEF Backoff, IInv, AttemptInv, Attempts
  <2>2. call' = [call EXCEPT ![c].stage = "send", ![c].attempt = call[c].attempt + 1]
    BY <1>1, <1>4 DEF Backoff, TypeOK
  <2>3. call' = [call EXCEPT ![c] =
                   Becomes(c, call[c].req, "send", call[c].attempt + 1, call[c].result)]
    BY <1>1, <1>2, <2>1, <2>2, AttemptUpdate
  <2>4. call[c].attempt < call[c].attempt + 1 /\ call[c].attempt <= call[c].attempt + 1
    BY <1>2 DEF Attempts
  <2> QED
    BY <1>1, <1>2, <2>1, <2>3, <2>4, TruthKept
<1> QED
  BY <1>3, <1>4

\* A call ends: what it returns is true, or it raises.
LEMMA EndTruth ==
  ASSUME IInv, TruthInv, NEW c \in Calls, ~At(c, "done"), NEW e \in Results, Finish(c, e),
         rows' = rows, flying' \subseteq flying, reply' = [reply EXCEPT ![c] = NoReply],
         \/ failure' = failure
         \/ \E x \in Errors \union {"raised", "cancelled"} :
              Failed(c, x) /\ (x = "status4xx" => reply[c].kind = "status4xx"),
         e \in {"value", "none"} /\ call[c].job # "fetch" =>
           /\ call[c].req.effect = "new" => <<c, call[c].attempt>> \in rows
           /\ call[c].job = "ensure" => SourceRows # {}
  PROVE  TruthInv'
<1>1. /\ TypeOK /\ call[c].attempt \in Attempts /\ call[c].req \in Request /\ "done" \in Stages
      /\ call[c].job = "ensure" => call[c].req \in {Sources.list, Sources.register}
      /\ call[c].attempt <= call[c].attempt
  BY DEF IInv, TypeOK, Stages, TruthInv, ReturnInv, Attempts
<1>2. call' = [call EXCEPT ![c] = Becomes(c, call[c].req, "done", call[c].attempt, e)]
  <2>1. [call EXCEPT ![c].stage = "done", ![c].result = e]
          = [call EXCEPT ![c] = Becomes(c, call[c].req, "done", call[c].attempt, e)]
    BY <1>1, ResultUpdate
  <2> QED
    BY <2>1 DEF Finish
<1>3. ASSUME NEW r \in Rows, failure'[r] = "status4xx", failure[r] # "status4xx"
      PROVE  r[1] = c /\ r \notin rows /\ ~Flies(r)
  <2>1. PICK x \in Errors \union {"raised", "cancelled"} :
          Failed(c, x) /\ (x = "status4xx" => reply[c].kind = "status4xx")
    BY <1>3
  <2>2. /\ call[c].req.effect = "new" /\ x = "status4xx" /\ r = <<c, call[c].attempt>>
    BY <1>1, <1>3, <2>1 DEF Failed, TypeOK
  <2> QED
    BY <2>1, <2>2 DEF TruthInv, AnswerInv
<1> QED
  BY <1>1, <1>2, <1>3, TruthKept

\* What a list without a source leads to.
LEMMA RegisterTruth ==
  ASSUME IInv, TruthInv, NEW c \in Calls, At(c, "wait"), Listing(c),
         call' = [call EXCEPT ![c] = Becomes(c, Sources.register, "auth", 1, call[c].result)],
         reply' = [reply EXCEPT ![c] = NoReply],
         rows' = rows, flying' = flying, failure' = failure
  PROVE  TruthInv'
<1>1. /\ TypeOK /\ ~At(c, "done") /\ ~At(c, "idle")
      /\ call[c].req.effect # "new" /\ call[c].job = "ensure"
  BY Requests DEF IInv, At, Listing
<1>2. /\ 1 \in Attempts /\ "auth" \in Stages /\ call[c].result \in Results
      /\ Sources.register \in Request
  BY <1>1, Requests, LimitAssumption DEF Attempts, Stages, TypeOK
<1>3. flying' \subseteq flying
  OBVIOUS
<1> QED
  BY <1>1, <1>2, <1>3, TruthKept

LEMMA SucceedTruth ==
  ASSUME IInv, TruthInv, NEW c \in Calls, Succeed(c)
  PROVE  TruthInv'
<1> DEFINE empty == reply[c].kind = "empty"
<1>1. /\ At(c, "wait") /\ ~At(c, "idle") /\ ~At(c, "done")
      /\ reply[c].kind # "none" /\ reply[c].kind \in Served
      /\ reply' = [reply EXCEPT ![c] = NoReply]
      /\ UNCHANGED <<flying, rows, before>>
  BY DEF Succeed, At, Served
<1>2. /\ reply[c].seen \subseteq SourceRows
      /\ call[c].req.effect = "new" => <<c, call[c].attempt>> \in rows
      /\ call[c].job = "ensure" => call[c].req \in {Sources.list, Sources.register}
      /\ TypeOK
  BY <1>1 DEF TruthInv, AnswerInv, ReturnInv, IInv
<1>3. CASE Listing(c) /\ EnsureListed(c, empty) /\ UNCHANGED failure
  <2>1. CASE ~empty /\ reply[c].seen # {}
    <3>1. Finish(c, "value") /\ "value" \in Results
      BY <1>3, <2>1 DEF EnsureListed, Results
    <3> QED
      BY <1>1, <1>2, <1>3, <2>1, <3>1, EndTruth
  <2>2. CASE empty \/ reply[c].seen = {}
    <3>1. call' = [call EXCEPT ![c].req = Sources.register, ![c].stage = "auth", ![c].attempt = 1]
      BY <1>3, <2>2 DEF EnsureListed
    <3>2. TypeOK
      BY <1>2
    <3>3. call' = [call EXCEPT ![c] = Becomes(c, Sources.register, "auth", 1, call[c].result)]
      BY <3>1, <3>2, RegisterUpdate, Zenon
    <3>4. rows' = rows /\ flying' = flying /\ failure' = failure
      BY <1>1, <1>3
    <3>5. At(c, "wait") /\ Listing(c) /\ reply' = [reply EXCEPT ![c] = NoReply]
      BY <1>1, <1>3
    <3> QED
      BY <3>3, <3>4, <3>5, RegisterTruth
  <2> QED
    BY <2>1, <2>2
<1>4. CASE ~Listing(c)
  <2>1. PICK e \in Results : Finish(c, e)
    <3>1. CASE call[c].job = "fetch" /\ Finish(c, "value")
      BY <3>1 DEF Results
    <3>2. CASE Return(c, empty)
      <4>1. call[c].req.onEmpty \in OnEmpty
        BY <1>2 DEF TypeOK, Request
      <4> QED
        BY <3>2, <4>1 DEF Return, Results, OnEmpty
    <3> QED
      BY <1>4, <3>1, <3>2 DEF Succeed
  <2>2. \/ failure' = failure
        \/ \E x \in Errors \union {"raised", "cancelled"} :
             Failed(c, x) /\ (x = "status4xx" => reply[c].kind = "status4xx")
    <3>1. failure' = failure \/ Failed(c, "raised")
      BY <1>4 DEF Succeed
    <3> QED
      BY <3>1
  <2>3. call[c].job = "ensure" => SourceRows # {}
    <3>1. call[c].job = "ensure" => call[c].req.effect = "new"
      BY <1>2, <1>4, Requests DEF Listing
    <3>2. call[c].job = "ensure" => <<c, call[c].attempt>> \in SourceRows
      BY <1>2, <3>1 DEF SourceRows
    <3> QED
      BY <3>2
  <2> QED
    BY <1>1, <1>2, <2>1, <2>2, <2>3, EndTruth
<1> QED
  BY <1>3, <1>4 DEF Succeed

LEMMA FailTruth ==
  ASSUME IInv, TruthInv, NEW c \in Calls, NEW x \in Errors, Fail(c, x)
  PROVE  TruthInv'
<1>1. /\ At(c, "wait") /\ ~At(c, "idle") /\ ~At(c, "done")
      /\ reply' = [reply EXCEPT ![c] = NoReply]
      /\ Failed(c, x) /\ (x = "status4xx" => reply[c].kind = "status4xx")
      /\ flying' \subseteq flying /\ rows' = rows
  BY DEF Fail, Forget, At
<1>2. CASE call[c].job = "fetch"
  <2>1. Finish(c, IF x \in {"reset", "silent"} THEN "other" ELSE "value")
    BY <1>2 DEF Fail, FailFetch
  <2>2. \E e \in Results : Finish(c, e)
    BY <2>1 DEF Results
  <2> QED
    BY <1>1, <1>2, <2>2, EndTruth
<1>3. CASE call[c].job # "fetch"
  <2>1. RetryWithBackoff(c, x)
    BY <1>3 DEF Fail
  <2>2. CASE IsRetryable(x) /\ call[c].attempt < MaxAttempts
    <3>1. call' = [call EXCEPT ![c].stage = "backoff"] /\ x # "status4xx"
      BY <2>1, <2>2 DEF RetryWithBackoff, IsRetryable
    <3>2. /\ TypeOK /\ call[c].attempt \in Attempts /\ call[c].req \in Request
          /\ call[c].result \in Results /\ "backoff" \in Stages
          /\ call[c].job = "ensure" => call[c].req \in {Sources.list, Sources.register}
          /\ call[c].attempt <= call[c].attempt
      BY DEF IInv, TypeOK, Stages, TruthInv, ReturnInv, Attempts
    <3>3. call' = [call EXCEPT ![c] =
                     Becomes(c, call[c].req, "backoff", call[c].attempt, call[c].result)]
      BY <3>1, <3>2, StageUpdate
    <3>4. \A r \in Rows : failure'[r] = "status4xx" => failure[r] = "status4xx"
      BY <1>1, <3>1, <3>2 DEF Failed, TypeOK
    <3> QED
      BY <1>1, <3>2, <3>3, <3>4, TruthKept
  <2>3. CASE ~(IsRetryable(x) /\ call[c].attempt < MaxAttempts)
    <3>1. \E e \in {"network", "api", "other"} : Finish(c, e)
      BY <2>1, <2>3 DEF RetryWithBackoff
    <3>2. \E e \in Results \ {"value", "none"} : Finish(c, e)
      BY <3>1 DEF Results
    <3> QED
      BY <1>1, <3>2, EndTruth
  <2> QED
    BY <2>2, <2>3
<1> QED
  BY <1>2, <1>3

LEMMA CancelTruth ==
  ASSUME IInv, TruthInv, NEW c \in Calls, Cancel(c)
  PROVE  TruthInv'
<1>1. /\ ~At(c, "done") /\ Finish(c, "cancelled") /\ "cancelled" \in Results
      /\ reply' = [reply EXCEPT ![c] = NoReply]
      /\ Failed(c, "cancelled") /\ flying' \subseteq flying /\ rows' = rows
  BY DEF Cancel, Forget, At, Results
<1>2. \E x \in Errors \union {"raised", "cancelled"} :
        Failed(c, x) /\ (x = "status4xx" => reply[c].kind = "status4xx")
  BY <1>1
<1> QED
  BY <1>1, <1>2, EndTruth

\* The request of an attempt leaves once, and before it there is no row of it.
LEMMA SendTruth ==
  ASSUME IInv, TruthInv, NEW c \in Calls, Send(c)
  PROVE  TruthInv'
<1> DEFINE a == call[c].attempt
           q == call[c].req
           p0 == [call |-> c, req |-> q, attempt |-> a]
<1>1. /\ TypeOK /\ At(c, "send") /\ call' = [call EXCEPT ![c].stage = "wait"]
      /\ flying' = flying \union {p0}
      /\ reply' = reply /\ rows' = rows /\ failure' = failure
  BY DEF Send, IInv
<1>2. /\ call'[c].job = call[c].job /\ call'[c].req = q /\ call'[c].attempt = a
      /\ call'[c].stage = "wait"
      /\ \A b \in Calls : b # c => call'[b] = call[b]
  BY <1>1 DEF TypeOK
<1>3. reply[c].kind = "none" /\ call[c].stage = "send"
  BY <1>1 DEF IInv, ReplyInv, NoReply, At
<1>4. /\ \A r \in Rows : r[1] \in Calls /\ r[2] \in Attempts /\ r = <<r[1], r[2]>>
      /\ rows \subseteq Rows /\ \A p \in flying : p.call \in Calls /\ <<p.call, p.attempt>> \in Rows
      /\ <<c, a>> \in Rows /\ a \in Nat
  BY <1>1 DEF TypeOK, Rows, Packet, Attempts
<1>5. SourceRows' = SourceRows
  BY <1>1, <1>2, <1>4 DEF SourceRows
<1>6. p0.call = c /\ p0.req = q /\ p0.attempt = a
  OBVIOUS
<1> HIDE DEF p0
<1>7. ASSUME NEW r PROVE Flies(r)' <=> Flies(r) \/ (q.effect = "new" /\ r = <<c, a>>)
  BY <1>1, <1>6 DEF Flies
<1>8. <<c, a>> \notin rows /\ ~Flies(<<c, a>>)
  BY <1>3, <1>4 DEF TruthInv, FlightInv
<1>9. FlightInv'
  <2>1. ASSUME NEW r \in Rows, r \in rows \/ Flies(r)'
        PROVE  /\ r[2] <= call'[r[1]].attempt
               /\ call'[r[1]].stage \in {"auth", "send"} => r[2] < call'[r[1]].attempt
               /\ ~(r \in rows /\ Flies(r)')
    <3>1. CASE r = <<c, a>>
      BY <1>2, <1>4, <1>8, <3>1
    <3>2. CASE r # <<c, a>>
      <4>1. /\ r[2] <= call[r[1]].attempt
            /\ call[r[1]].stage \in {"auth", "send"} => r[2] < call[r[1]].attempt
            /\ ~(r \in rows /\ Flies(r)')
        BY <1>7, <2>1, <3>2 DEF TruthInv, FlightInv
      <4> QED
        BY <1>2, <1>4, <4>1
    <3> QED
      BY <3>1, <3>2
  <2>2. ASSUME NEW p \in flying', p.req.effect = "new" PROVE p.req = call'[p.call].req
    <3>1. CASE p = p0
      BY <1>2, <1>6, <3>1
    <3>2. CASE p \in flying
      BY <1>2, <1>4, <2>2, <3>2 DEF TruthInv, FlightInv
    <3> QED
      BY <1>1, <3>1, <3>2
  <2> QED
    BY <1>1, <2>1, <2>2 DEF FlightInv
<1>10. AnswerInv'
  <2> SUFFICES ASSUME NEW b \in Calls, b # c, reply[b].kind # "none"
               PROVE  /\ reply[b].seen \subseteq SourceRows
                      /\ call[b].req.effect = "new" =>
                           /\ ~Flies(<<b, call[b].attempt>>)'
                           /\ reply[b].kind \in Served => <<b, call[b].attempt>> \in rows
                           /\ reply[b].kind = "status4xx" => <<b, call[b].attempt>> \notin rows
    BY <1>1, <1>2, <1>3, <1>5 DEF AnswerInv, Flies
  <2>1. ~Flies(<<b, call[b].attempt>>) => ~Flies(<<b, call[b].attempt>>)'
    <3>1. <<b, call[b].attempt>> # <<c, a>>
      OBVIOUS
    <3> QED
      BY <1>1, <1>2, <1>6, <3>1 DEF Flies
  <2> QED
    BY <2>1 DEF TruthInv, AnswerInv
<1>11. RefusedInv'
  <2> SUFFICES ASSUME NEW r \in Rows, failure[r] = "status4xx"
               PROVE  call'[r[1]].stage = "done" /\ r \notin rows /\ ~Flies(r)'
    BY <1>1 DEF RefusedInv, At
  <2>1. call[r[1]].stage = "done" /\ r \notin rows /\ ~Flies(r)
    BY DEF TruthInv, RefusedInv, At
  <2>2. r[1] # c /\ r # <<c, a>>
    BY <1>3, <2>1
  <2> QED
    BY <1>2, <1>4, <1>7, <2>1, <2>2
<1>12. ReturnInv'
  <2> SUFFICES ASSUME NEW b \in Calls
               PROVE  /\ Truthful(b)'
                      /\ call'[b].job = "ensure" => call'[b].req \in {Sources.list, Sources.register}
    BY DEF ReturnInv
  <2>1. CASE b = c
    BY <1>2, <2>1 DEF Truthful, At, TruthInv, ReturnInv
  <2>2. CASE b # c
    BY <1>1, <1>2, <1>5, <2>2 DEF TruthInv, ReturnInv, Truthful, At
  <2> QED
    BY <2>1, <2>2
<1> QED
  BY <1>9, <1>10, <1>11, <1>12 DEF TruthInv

\* A request is served once, and the answer to it is the one the call takes.
LEMMA ServeTruth ==
  ASSUME IInv, TruthInv, NEW p \in flying, Serve(p)
  PROVE  TruthInv'
<1> DEFINE r0 == <<p.call, p.attempt>>
           new == p.req.effect = "new"
<1>1. TypeOK /\ p \in Packet /\ p.call \in Calls /\ p.attempt \in Attempts /\ r0 \in Rows
  BY DEF IInv, TypeOK, Packet, Rows
<1>2. PICK kind \in Served \union Refused :
        /\ Answer(p, kind)
        /\ rows' = rows \/ (new /\ rows' = rows \union {r0})
        /\ kind \in Served /\ new => rows' = rows \union {r0}
        /\ kind = "status4xx" => rows' = rows
  <2>1. CASE \E kind \in Refused : Answer(p, kind) /\ UNCHANGED rows
    BY <2>1 DEF Refused, Served
  <2>2. CASE \E kind \in Served \union {"status5xx"} :
               /\ Answer(p, kind)
               /\ rows' = IF new THEN rows \union {r0} ELSE rows
    BY <2>2 DEF Refused, Served
  <2> QED
    BY <2>1, <2>2 DEF Serve
<1>3. flying' = flying \ {p} /\ call' = call /\ failure' = failure
  BY DEF Serve
<1>4. rows \subseteq rows' /\ rows' \subseteq rows \union {r0} /\ (~new => rows' = rows)
  BY <1>2
<1>5. new => Flies(r0) /\ r0 \notin rows
  <2>1. new => Flies(r0)
    BY DEF Flies
  <2> QED
    BY <1>1, <2>1 DEF TruthInv, FlightInv
<1>6. ASSUME NEW r PROVE Flies(r)' => Flies(r)
  BY <1>3 DEF Flies
<1>7. new => ~Flies(r0)'
  <2> SUFFICES ASSUME new, NEW x \in flying, x # p, x.req.effect = "new",
                      r0 = <<x.call, x.attempt>>
               PROVE  FALSE
    BY <1>3 DEF Flies
  <2>1. x.call = p.call /\ x.attempt = p.attempt
    OBVIOUS
  <2>2. x.req = p.req
    BY <2>1 DEF TruthInv, FlightInv
  <2>3. x \in Packet
    BY <1>1 DEF TypeOK
  <2> QED
    BY <1>1, <2>1, <2>2, <2>3 DEF Packet
<1>8. SourceRows \subseteq SourceRows'
  BY <1>3, <1>4 DEF SourceRows
<1>9. FlightInv'
  <2>1. ASSUME NEW r \in Rows, r \in rows' \/ Flies(r)'
        PROVE  /\ r[2] <= call[r[1]].attempt
               /\ call[r[1]].stage \in {"auth", "send"} => r[2] < call[r[1]].attempt
               /\ ~(r \in rows' /\ Flies(r)')
    <3>1. r \in rows \/ Flies(r)
      BY <1>4, <1>5, <1>6, <2>1
    <3>2. ~(r \in rows' /\ Flies(r)')
      BY <1>4, <1>6, <1>7 DEF TruthInv, FlightInv
    <3> QED
      BY <3>1, <3>2 DEF TruthInv, FlightInv
  <2> QED
    BY <1>3, <2>1 DEF TruthInv, FlightInv
<1>10. AnswerInv'
  <2> SUFFICES ASSUME NEW c \in Calls, reply'[c].kind # "none"
               PROVE  /\ reply'[c].seen \subseteq SourceRows'
                      /\ call[c].req.effect = "new" =>
                           /\ ~Flies(<<c, call[c].attempt>>)'
                           /\ reply'[c].kind \in Served => <<c, call[c].attempt>> \in rows'
                           /\ reply'[c].kind = "status4xx" => <<c, call[c].attempt>> \notin rows'
    BY <1>3 DEF AnswerInv, Flies
  <2>1. CASE c = p.call /\ Waits(p)
    <3>1. reply'[c].kind = kind /\ reply'[c].seen = SourceRows
      BY <1>1, <1>2, <2>1 DEF Answer, TypeOK
    <3>2. call[c].req = p.req /\ <<c, call[c].attempt>> = r0
      BY <2>1 DEF Waits
    <3>3. call[c].req.effect = "new" => ~Flies(<<c, call[c].attempt>>)'
      <4>1. call[c].req.effect = "new" => new
        BY <3>2
      <4>2. <<c, call'[c].attempt>> = r0
        BY <1>3, <3>2
      <4> QED
        BY <1>3, <1>7, <3>2, <4>1 DEF Flies
    <3> QED
      BY <1>2, <1>5, <1>8, <3>1, <3>2, <3>3
  <2>2. CASE ~(c = p.call /\ Waits(p))
    <3>1. reply'[c] = reply[c]
      BY <1>1, <1>2, <2>2 DEF Answer, TypeOK
    <3>2. /\ reply[c].seen \subseteq SourceRows
          /\ call[c].req.effect = "new" =>
               /\ ~Flies(<<c, call[c].attempt>>)
               /\ reply[c].kind \in Served => <<c, call[c].attempt>> \in rows
               /\ reply[c].kind = "status4xx" => <<c, call[c].attempt>> \notin rows
      BY <3>1 DEF TruthInv, AnswerInv
    <3>3. ~Flies(<<c, call[c].attempt>>) => ~Flies(<<c, call[c].attempt>>)'
      BY <1>3 DEF Flies
    <3>4. call[c].req.effect = "new" =>
            (<<c, call[c].attempt>> \in rows <=> <<c, call[c].attempt>> \in rows')
      BY <1>4, <1>5, <3>2
    <3> QED
      BY <1>8, <3>1, <3>2, <3>3, <3>4
  <2> QED
    BY <2>1, <2>2
<1>11. RefusedInv'
  <2> SUFFICES ASSUME NEW r \in Rows, failure[r] = "status4xx"
               PROVE  At(r[1], "done") /\ r \notin rows' /\ ~Flies(r)'
    BY <1>3 DEF RefusedInv, At
  <2>1. At(r[1], "done") /\ r \notin rows /\ ~Flies(r)
    BY DEF TruthInv, RefusedInv
  <2> QED
    BY <1>4, <1>5, <1>6, <2>1
<1>12. ReturnInv'
  <2>1. SourceRows # {} => SourceRows' # {}
    BY <1>8
  <2> QED
    BY <1>3, <1>4, <2>1 DEF TruthInv, ReturnInv, Truthful, At
<1> QED
  BY <1>9, <1>10, <1>11, <1>12 DEF TruthInv

LEMMA TruthStep == IInv /\ TruthInv /\ [Next]_vars => TruthInv'
<1> SUFFICES ASSUME IInv, TruthInv, [Next]_vars PROVE TruthInv'
  OBVIOUS
<1>1. CASE UNCHANGED vars
  BY <1>1 DEF vars, TruthInv, FlightInv, AnswerInv, RefusedInv, ReturnInv, Truthful, Flies,
              SourceRows, At
<1> QED
  BY <1>1, BeginTruth, GoOnTruth, SendTruth, SucceedTruth, FailTruth, CancelTruth, ServeTruth
     DEF Next, Step

\* A method that returned made what it was called for, by the very attempt whose
\* answer it took (not by an earlier one that was answered late); a call of
\* ensure_data_source() that returned found or made the source; and an attempt
\* that the client saw refused with a 4xx left nothing, then or later.
AnswersAreTrue ==
  /\ \A c \in Calls : Truthful(c)
  /\ \A r \in rows : failure[r] # "status4xx"

\* AnswersAreTrue holds for every mix of calls, however late requests are served
\* and whichever answers are lost.
THEOREM AnswersAreKept == Spec => []AnswersAreTrue
<1>1. IInv /\ TruthInv => AnswersAreTrue
  BY DEF IInv, TypeOK, TruthInv, ReturnInv, RefusedInv, AnswersAreTrue
<1> QED
  BY <1>1, InitInv, StepInv, InitTruth, TruthStep, PTL DEF Spec
=============================================================================
