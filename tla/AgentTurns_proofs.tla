-------------------------- MODULE AgentTurns_proofs --------------------------
(***************************************************************************)
(* Safety of the agents and their recorders: types, one push for each      *)
(* turn, every delta in one place, and a flush that leaves no push behind, *)
(* for any number of agents, calls, retries, deltas and messages of any    *)
(* length, and whichever texts begin alike.                                *)
(*                                                                         *)
(* record_user() runs in a loop over the texts of a call; what the loop    *)
(* keeps is shown with the least number of rounds that would break it.     *)
(***************************************************************************)
EXTENDS AgentTurns, SequenceTheorems, WellFoundedInduction, TLAPS

(***************************************************************************)
(* The inductive invariant.                                                *)
(***************************************************************************)
\* A recorder knows the key of every turn it pushed, and what was dropped
\* begins like a turn of the log.
KeysInv ==
  /\ \A i \in DOMAIN tasks : DedupeKey(tasks[i].turn) \in seen[tasks[i].agent]
  /\ \A old \in repeats : DedupeKey(old) \in LoggedKeys

\* A push under way was made by a call that has begun and is not over, and one
\* that flushes waits for it.
PendInv ==
  \A i \in DOMAIN tasks : tasks[i].stage = "pushing" =>
    LET s == tasks[i].by
    IN /\ Of(s) = tasks[i].agent
       /\ turn[s].place \notin {"idle", "discover", "done"}
       /\ At(s, "flush") => i \in turn[s].waits

\* The delta was streamed.
Used(d) ==
  \/ d[2] < turn[d[1]].attempt
  \/ d[2] = turn[d[1]].attempt /\ d[3] <= turn[d[1]].said

\* A delta is in one turn, in a dropped answer or in the buffer of its agent;
\* those of the current request are somewhere, and not in the buffer when the
\* end was reported.
DeltaInv ==
  /\ \A d \in Delta : \A i \in DOMAIN tasks :
       InTurn(d, i) => Used(d) /\ \A j \in DOMAIN tasks : InTurn(d, j) => i = j
  /\ \A d \in Delta :
       InRepeat(d) => Used(d) /\ \A i \in DOMAIN tasks : ~InTurn(d, i)
  /\ \A d \in Delta : \A a \in Agents :
       InBuffer(d, a) => /\ Used(d) /\ Of(d[1]) = a /\ ~InRepeat(d)
                         /\ \A i \in DOMAIN tasks : ~InTurn(d, i)
  /\ \A s \in Streams : \A d \in Said(s) :
       /\ InBuffer(d, Of(s)) \/ InRepeat(d) \/ \E i \in DOMAIN tasks : InTurn(d, i)
       /\ turn[s].told => ~InBuffer(d, Of(s))

RetryInv == \A s \in Streams : At(s, "backoff") => turn[s].attempt <= MaxRetries

IInv == TypeOK /\ KeysInv /\ RecordedOnce /\ PendInv /\ DeltaInv /\ RetryInv

-----------------------------------------------------------------------------
(***************************************************************************)
(* Keys and the recorder's states.                                         *)
(***************************************************************************)
Key == {DedupeKey(t) : t \in Turn}

LEMMA LoggedType == ASSUME TypeOK PROVE LoggedKeys \subseteq Key
<1>1. \A i \in DOMAIN tasks : tasks[i].turn \in Turn
  <2>1. \A i \in DOMAIN tasks : tasks[i] \in Task
    BY DEF TypeOK, RecordingTypeOK
  <2> QED
    BY <2>1 DEF Task
<1> QED
  BY <1>1 DEF LoggedKeys, Key

\* What the recorder of a can be while one call records: the new turns are new
\* and known, those it dropped are known, and the buffer is as it was, or is the
\* first of the new turns, or was dropped.
RecorderState ==
  [seen : SUBSET Key, text : Seq(Delta), new : Seq(Turn), old : SUBSET Turn]

Kept(a, r) ==
  /\ r.text = buffer[a]
  /\ \A i \in DOMAIN r.new : r.new[i].role = "user"
  /\ \A t \in r.old : t.role = "user"
  /\ r.text # <<>> => r.new = <<>>

Flushed(a, r) ==
  /\ r.text = <<>>
  /\ r.new # <<>> /\ r.new[1].role = "assistant" /\ r.new[1].text = buffer[a]
  /\ \A i \in DOMAIN r.new : i # 1 => r.new[i].role = "user"
  /\ \A t \in r.old : t.role = "user"

Answer(a) == [role |-> "assistant", text |-> buffer[a]]

Repeated(a, r) ==
  /\ r.text = <<>>
  /\ \A i \in DOMAIN r.new : r.new[i].role = "user"
  /\ Answer(a) \in r.old
  /\ \A t \in r.old : t.role = "user" \/ t = Answer(a)

NewTurns(a, r) ==
  /\ r \in RecorderState
  /\ r.seen = seen[a] \union {DedupeKey(r.new[i]) : i \in DOMAIN r.new}
  /\ \A i \in DOMAIN r.new : DedupeKey(r.new[i]) \notin seen[a]
  /\ \A i, j \in DOMAIN r.new : DedupeKey(r.new[i]) = DedupeKey(r.new[j]) => i = j
  /\ \A t \in r.old : DedupeKey(t) \in r.seen

Sound(a, r) == NewTurns(a, r) /\ (Kept(a, r) \/ Flushed(a, r) \/ Repeated(a, r))

LEMMA RecorderSound ==
  ASSUME TypeOK, NEW a \in Agents
  PROVE  Sound(a, Recorder(a))
<1>1. seen[a] \in SUBSET Key /\ buffer[a] \in Seq(Delta)
  BY LoggedType DEF TypeOK, RecordingTypeOK
<1> QED
  BY <1>1 DEF NewTurns, Sound, RecorderState, Recorder, Kept

\* _record of a turn that is not the answer in the buffer.
LEMMA RecordSound ==
  ASSUME NEW a \in Agents, NEW r, Sound(a, r), r.text = <<>>, NEW t \in Turn,
         t.role = "user"
  PROVE  Sound(a, Record(r, t)) /\ Record(r, t).text = <<>>
<1>0. r \in RecorderState /\ DedupeKey(t) \in Key
  BY DEF NewTurns, Sound, Key
<1>1. CASE DedupeKey(t) \in r.seen
  <2> DEFINE q == [r EXCEPT !.old = @ \union {t}]
  <2>1. Record(r, t) = q
    BY <1>1 DEF Record
  <2>2. /\ q \in RecorderState /\ q.seen = r.seen /\ q.text = r.text /\ q.new = r.new
        /\ q.old = r.old \union {t}
    BY <1>0 DEF RecorderState
  <2> HIDE DEF q
  <2>3. NewTurns(a, q)
    BY <1>1, <2>2 DEF NewTurns, Sound
  <2>4. /\ Kept(a, r) => Kept(a, q)
        /\ Flushed(a, r) => Flushed(a, q)
        /\ Repeated(a, r) => Repeated(a, q)
    BY <2>2 DEF Kept, Flushed, Repeated
  <2> QED
    BY <2>1, <2>2, <2>3, <2>4 DEF Sound
<1>2. CASE DedupeKey(t) \notin r.seen
  <2> DEFINE q == [r EXCEPT !.seen = @ \union {DedupeKey(t)}, !.new = Append(@, t)]
  <2>1. Record(r, t) = q
    BY <1>2 DEF Record
  <2>3. /\ q.seen = r.seen \union {DedupeKey(t)} /\ q.text = <<>> /\ q.new = Append(r.new, t)
        /\ q.old = r.old
    BY <1>0 DEF RecorderState
  <2>4. q \in RecorderState
    <3>1. Append(r.new, t) \in Seq(Turn) /\ r.seen \union {DedupeKey(t)} \in SUBSET Key
      BY <1>0 DEF RecorderState
    <3> QED
      BY <1>0, <3>1 DEF RecorderState
  <2> HIDE DEF q
  <2>5. /\ Len(q.new) = Len(r.new) + 1 /\ DOMAIN q.new = 1..Len(r.new) + 1
        /\ DOMAIN r.new = 1..Len(r.new) /\ Len(r.new) \in Nat
        /\ \A i \in DOMAIN r.new : q.new[i] = r.new[i]
        /\ q.new[Len(r.new) + 1] = t
    BY <1>0, <2>3 DEF RecorderState
  <2>6. \A i \in DOMAIN q.new : i \in DOMAIN r.new \/ i = Len(r.new) + 1
    BY <2>5
  <2>7. q.seen = seen[a] \union {DedupeKey(q.new[i]) : i \in DOMAIN q.new}
    BY <2>3, <2>5, <2>6 DEF NewTurns, Sound
  <2>8. \A i \in DOMAIN q.new : DedupeKey(q.new[i]) \notin seen[a]
    BY <1>2, <2>5, <2>6 DEF NewTurns, Sound
  <2>9. \A i, j \in DOMAIN q.new : DedupeKey(q.new[i]) = DedupeKey(q.new[j]) => i = j
    BY <1>2, <2>5, <2>6 DEF NewTurns, Sound
  <2>10. \A u \in q.old : DedupeKey(u) \in q.seen
    BY <2>3 DEF NewTurns, Sound
  <2>11. Kept(a, r) => Kept(a, q)
    BY <2>3, <2>5, <2>6 DEF Kept
  <2>12. Flushed(a, r) => Flushed(a, q)
    <3> SUFFICES ASSUME Flushed(a, r) PROVE Flushed(a, q)
      OBVIOUS
    <3>1. 1 \in DOMAIN r.new /\ Len(r.new) # 0
      BY <1>0, <2>5 DEF Flushed, RecorderState
    <3>2. q.new # <<>>
      BY <2>5
    <3> QED
      BY <2>3, <2>5, <2>6, <3>1, <3>2 DEF Flushed
  <2>13. Repeated(a, r) => Repeated(a, q)
    BY <2>3, <2>5, <2>6 DEF Repeated
  <2> QED
    BY <2>1, <2>3, <2>4, <2>7, <2>8, <2>9, <2>10, <2>11, <2>12, <2>13 DEF NewTurns, Sound
<1> QED
  BY <1>1, <1>2

\* _flush_assistant: the answer in the buffer is a new turn, or is dropped
\* because the recorder knows a turn that begins alike.
LEMMA FlushSound ==
  ASSUME NEW a \in Agents, NEW r, Sound(a, r)
  PROVE  Sound(a, FlushAssistant(r)) /\ FlushAssistant(r).text = <<>>
<1>1. CASE r.text = <<>>
  BY <1>1 DEF FlushAssistant
<1>2. CASE r.text # <<>>
  <2>1. /\ r \in RecorderState /\ r.text = buffer[a] /\ r.new = <<>> /\ r.seen = seen[a]
        /\ buffer[a] \in Seq(Delta)
        /\ \A t \in r.old : t.role = "user" /\ DedupeKey(t) \in seen[a]
    BY <1>2 DEF NewTurns, Sound, Kept, Flushed, Repeated, RecorderState
  <2> DEFINE t == Answer(a)
             p == [r EXCEPT !.text = <<>>]
  <2>2. t \in Turn /\ t.role = "assistant" /\ t.text = buffer[a]
    BY <2>1 DEF Turn, Answer
  <2>3. DedupeKey(t) \in Key
    BY <2>2 DEF Key
  <2>4. FlushAssistant(r) = Record(p, t)
    BY <1>2, <2>1 DEF FlushAssistant, Answer
  <2>5. /\ p \in RecorderState /\ p.seen = seen[a] /\ p.text = <<>> /\ p.new = <<>>
        /\ p.old = r.old
    BY <2>1 DEF RecorderState
  <2> HIDE DEF t, p
  <2>6. CASE DedupeKey(t) \in seen[a]
    <3> DEFINE q == [p EXCEPT !.old = @ \union {t}]
    <3>1. Record(p, t) = q
      BY <2>5, <2>6 DEF Record
    <3>2. /\ q \in RecorderState /\ q.seen = seen[a] /\ q.text = <<>> /\ q.new = <<>>
          /\ q.old = r.old \union {t}
      BY <2>2, <2>5 DEF RecorderState
    <3> HIDE DEF q
    <3>3. NewTurns(a, q)
      BY <2>1, <2>6, <3>2 DEF NewTurns
    <3>4. Repeated(a, q)
      BY <2>1, <3>2 DEF Repeated, t
    <3> QED
      BY <2>4, <3>1, <3>2, <3>3, <3>4 DEF Sound
  <2>7. CASE DedupeKey(t) \notin seen[a]
    <3> DEFINE q == [p EXCEPT !.seen = @ \union {DedupeKey(t)}, !.new = Append(@, t)]
    <3>1. Record(p, t) = q
      BY <2>5, <2>7 DEF Record
    <3>2. /\ q \in RecorderState
          /\ q.seen = seen[a] \union {DedupeKey(t)} /\ q.text = <<>> /\ q.new = <<t>>
          /\ q.old = r.old
      <4>1. Append(p.new, t) = <<t>> /\ <<t>> \in Seq(Turn)
        BY <2>2, <2>5
      <4>2. p.seen \union {DedupeKey(t)} \in SUBSET Key
        BY <2>3, <2>5 DEF RecorderState
      <4> QED
        BY <2>5, <4>1, <4>2 DEF RecorderState
    <3> HIDE DEF q
    <3>3. DOMAIN q.new = {1} /\ q.new[1] = t /\ q.new # <<>>
      BY <3>2
    <3>4. NewTurns(a, q)
      BY <2>1, <2>7, <3>2, <3>3 DEF NewTurns
    <3>5. Flushed(a, q)
      BY <2>1, <2>2, <3>2, <3>3 DEF Flushed
    <3> QED
      BY <2>4, <3>1, <3>2, <3>4, <3>5 DEF Sound
  <2> QED
    BY <2>6, <2>7
<1> QED
  BY <1>1, <1>2

LEMMA RecordUserSound ==
  ASSUME NEW a \in Agents, NEW r, Sound(a, r), NEW x \in Texts
  PROVE  Sound(a, RecordUser(r, x))
<1> DEFINE t == [role |-> "user", text |-> <<x>>]
<1>1. t \in Turn /\ t.role = "user"
  BY DEF Turn
<1>2. Sound(a, FlushAssistant(r)) /\ FlushAssistant(r).text = <<>>
  BY FlushSound
<1> HIDE DEF t
<1>3. Sound(a, Record(FlushAssistant(r), t))
  BY <1>1, <1>2, RecordSound
<1> QED
  BY <1>3 DEF RecordUser, t

-----------------------------------------------------------------------------
(***************************************************************************)
(* The two loops.  Each is a function on 0..n; that there is one, and that *)
(* its values are sound, follow from the least number for which it fails.  *)
(***************************************************************************)
LEMMA Least ==
  ASSUME NEW T \in SUBSET Nat, T # {}
  PROVE  \E m \in T : \A k \in T : m <= k
<1>1. IsWellFoundedOn(OpToRel(<, Nat), Nat)
  BY NatLessThanWellFounded
<1>2. PICK m \in T : \A k \in T : ~(<<k, m>> \in OpToRel(<, Nat))
  BY <1>1, WFMin
<1>3. \A k \in T : ~(k < m)
  BY <1>2 DEF OpToRel
<1> QED
  BY <1>3

LEMMA RecordUsersSound ==
  ASSUME TypeOK, NEW a \in Agents, NEW texts \in Seq(Texts)
  PROVE  Sound(a, RecordUsers(Recorder(a), texts))
<1> DEFINE N == Len(texts)
           Loop(g, n) == g = [i \in 0..n |-> IF i = 0 THEN Recorder(a)
                                             ELSE RecordUser(g[i - 1], texts[i])]
           Unmade == {n \in 0..N : ~\E g : Loop(g, n)}
           H == CHOOSE g : Loop(g, N)
           Wrong == {n \in 0..N : ~Sound(a, H[n])}
<1>1. N \in Nat /\ \A n \in 1..N : texts[n] \in Texts
  OBVIOUS
<1> HIDE DEF N
<1>2. Unmade = {}
  <2>1. SUFFICES ASSUME Unmade # {} PROVE FALSE
    OBVIOUS
  <2>2. PICK m \in Unmade : \A k \in Unmade : m <= k
    <3>1. Unmade \in SUBSET Nat
      BY <1>1
    <3> HIDE DEF Unmade
    <3> QED
      BY <2>1, <3>1, Least
  <2>3. m # 0
    <3>1. Loop([i \in 0..0 |-> Recorder(a)], 0)
      OBVIOUS
    <3> HIDE DEF Loop
    <3> QED
      BY <3>1
  <2>4. m \in 0..N /\ m - 1 \in 0..N /\ m - 1 \notin Unmade
    <3>1. m \in 0..N
      BY <2>2
    <3> HIDE DEF Unmade
    <3> QED
      BY <1>1, <2>2, <2>3, <3>1
  <2>5. PICK g : Loop(g, m - 1)
    BY <2>4
  <2> DEFINE h == [i \in 0..m |-> IF i = m THEN RecordUser(g[m - 1], texts[m]) ELSE g[i]]
  <2>6. \A i \in 0..m : h[i] = IF i = 0 THEN Recorder(a) ELSE RecordUser(h[i - 1], texts[i])
    <3> TAKE i \in 0..m
    <3>1. CASE i = m
      BY <1>1, <2>3, <2>4, <3>1
    <3>2. CASE i # m
      <4>1. i \in 0..m - 1 /\ (i # 0 => i - 1 \in 0..m /\ i - 1 # m)
        BY <1>1, <2>4, <3>2
      <4>2. g[i] = IF i = 0 THEN Recorder(a) ELSE RecordUser(g[i - 1], texts[i])
        BY <2>5, <4>1
      <4> QED
        BY <3>2, <4>1, <4>2
    <3> QED
      BY <3>1, <3>2
  <2>7. Loop(h, m)
    <3>1. h = [i \in 0..m |-> h[i]]
      OBVIOUS
    <3> HIDE DEF h
    <3> QED
      BY <2>6, <3>1
  <2> HIDE DEF h, Loop
  <2> QED
    BY <2>2, <2>7
<1>3. Loop(H, N)
  <2>1. N \in 0..N
    BY <1>1
  <2> HIDE DEF Loop
  <2>2. \E g : Loop(g, N)
    BY <1>2, <2>1
  <2> QED
    BY <2>2
<1>4. RecordUsers(Recorder(a), texts) = H[N]
  BY DEF RecordUsers, N
<1> HIDE DEF H
<1>5. Wrong = {}
  <2>1. SUFFICES ASSUME Wrong # {} PROVE FALSE
    OBVIOUS
  <2>2. PICK m \in Wrong : \A k \in Wrong : m <= k
    <3>1. Wrong \in SUBSET Nat
      BY <1>1
    <3> HIDE DEF Wrong
    <3> QED
      BY <2>1, <3>1, Least
  <2>3. m # 0
    BY <1>1, <1>3, RecorderSound
  <2>4. m - 1 \in 0..N /\ m \in 1..N /\ Sound(a, H[m - 1])
    BY <1>1, <2>2, <2>3
  <2>5. H[m] = RecordUser(H[m - 1], texts[m])
    BY <1>1, <1>3, <2>4
  <2> QED
    BY <1>1, <2>2, <2>4, <2>5, RecordUserSound
<1> QED
  BY <1>1, <1>4, <1>5

LEMMA ContentsType ==
  ASSUME NEW messages \in Seq(Message)
  PROVE  UserContents(messages) \in Seq(Texts)
<1> DEFINE N == Len(messages)
           IsText(i) == messages[i].role = "user" /\ messages[i].text # Blank
           Loop(g, n) == g = [i \in 0..n |->
             IF i = 0 THEN <<>>
             ELSE IF IsText(i) THEN Append(g[i - 1], messages[i].text) ELSE g[i - 1]]
           Unmade == {n \in 0..N : ~\E g : Loop(g, n)}
           H == CHOOSE g : Loop(g, N)
           Wrong == {n \in 0..N : H[n] \notin Seq(Texts)}
<1>1. N \in Nat /\ \A n \in 1..N : IsText(n) => messages[n].text \in Texts
  <2>1. \A n \in 1..N : messages[n] \in Message
    OBVIOUS
  <2> QED
    BY <2>1 DEF Message
<1> HIDE DEF N
<1>2. Unmade = {}
  <2>1. SUFFICES ASSUME Unmade # {} PROVE FALSE
    OBVIOUS
  <2>2. PICK m \in Unmade : \A k \in Unmade : m <= k
    <3>1. Unmade \in SUBSET Nat
      BY <1>1
    <3> HIDE DEF Unmade
    <3> QED
      BY <2>1, <3>1, Least
  <2>3. m # 0
    <3>1. Loop([i \in 0..0 |-> <<>>], 0)
      OBVIOUS
    <3> HIDE DEF Loop
    <3> QED
      BY <3>1
  <2>4. m \in 0..N /\ m - 1 \in 0..N /\ m - 1 \notin Unmade
    <3>1. m \in 0..N
      BY <2>2
    <3> HIDE DEF Unmade
    <3> QED
      BY <1>1, <2>2, <2>3, <3>1
  <2>5. PICK g : Loop(g, m - 1)
    BY <2>4
  <2> DEFINE Longer(f, i) == IF IsText(i) THEN Append(f[i - 1], messages[i].text) ELSE f[i - 1]
             h == [i \in 0..m |-> IF i = m THEN Longer(g, m) ELSE g[i]]
  <2>6. \A i \in 0..m : h[i] = IF i = 0 THEN <<>> ELSE Longer(h, i)
    <3> TAKE i \in 0..m
    <3>1. CASE i = m
      BY <1>1, <2>3, <2>4, <3>1
    <3>2. CASE i # m
      <4>1. i \in 0..m - 1 /\ (i # 0 => i - 1 \in 0..m /\ i - 1 # m)
        BY <1>1, <2>4, <3>2
      <4>2. g[i] = IF i = 0 THEN <<>> ELSE Longer(g, i)
        BY <2>5, <4>1
      <4> QED
        BY <3>2, <4>1, <4>2
    <3> QED
      BY <3>1, <3>2
  <2>7. Loop(h, m)
    <3>1. h = [i \in 0..m |-> h[i]]
      OBVIOUS
    <3> HIDE DEF h
    <3> QED
      BY <2>6, <3>1
  <2> HIDE DEF h, Loop
  <2> QED
    BY <2>2, <2>7
<1>3. Loop(H, N)
  <2>1. N \in 0..N
    BY <1>1
  <2> HIDE DEF Loop
  <2>2. \E g : Loop(g, N)
    BY <1>2, <2>1
  <2> QED
    BY <2>2
<1>4. UserContents(messages) = H[N]
  BY DEF UserContents, N
<1> HIDE DEF H
<1>5. Wrong = {}
  <2>1. SUFFICES ASSUME Wrong # {} PROVE FALSE
    OBVIOUS
  <2>2. PICK m \in Wrong : \A k \in Wrong : m <= k
    <3>1. Wrong \in SUBSET Nat
      BY <1>1
    <3> HIDE DEF Wrong
    <3> QED
      BY <2>1, <3>1, Least
  <2>3. m # 0
    BY <1>1, <1>3
  <2>4. m - 1 \in 0..N /\ m \in 1..N /\ H[m - 1] \in Seq(Texts)
    BY <1>1, <2>2, <2>3
  <2>5. m # 0 /\ H[m] = IF m = 0 THEN <<>>
                         ELSE IF IsText(m) THEN Append(H[m - 1], messages[m].text) ELSE H[m - 1]
    <3>1. m # 0 /\ m \in 0..N
      BY <1>1, <2>4
    <3> HIDE DEF IsText
    <3> QED
      BY <1>3, <3>1
  <2>6. H[m] \in Seq(Texts)
    <3>1. IsText(m) => messages[m].text \in Texts
      BY <1>1, <2>4
    <3> HIDE DEF IsText
    <3> QED
      BY <2>4, <2>5, <3>1
  <2> QED
    BY <2>2, <2>6
<1> QED
  BY <1>1, <1>4, <1>5

-----------------------------------------------------------------------------
(***************************************************************************)
(* What a call that records changes.                                       *)
(***************************************************************************)
NewTask(a, s, t) == [agent |-> a, by |-> s, turn |-> t, stage |-> "pushing"]

LEMMA TasksGrow ==
  ASSUME TypeOK, NEW a \in Agents, NEW s \in Streams, NEW r, NewTurns(a, r), Becomes(a, s, r)
  PROVE  /\ RecordingTypeOK' /\ LoggedKeys \subseteq LoggedKeys'
         /\ repeats' = repeats \union r.old
         /\ seen'[a] = r.seen /\ buffer'[a] = r.text
         /\ \A b \in Agents : b # a => seen'[b] = seen[b] /\ buffer'[b] = buffer[b]
         /\ Len(tasks) \in Nat /\ Len(r.new) \in Nat /\ Len(tasks') = Len(tasks) + Len(r.new)
         /\ \A i \in DOMAIN tasks : i \in DOMAIN tasks' /\ tasks'[i] = tasks[i]
         /\ \A j \in DOMAIN r.new : /\ Len(tasks) + j \in DOMAIN tasks' \ DOMAIN tasks
                                    /\ tasks'[Len(tasks) + j] = NewTask(a, s, r.new[j])
         /\ \A i \in DOMAIN tasks' : i \in DOMAIN tasks \/ i - Len(tasks) \in DOMAIN r.new
<1> DEFINE more == [i \in 1..Len(r.new) |-> NewTask(a, s, r.new[i])]
<1>1. /\ seen \in [Agents -> SUBSET LoggedKeys] /\ buffer \in [Agents -> Seq(Delta)]
      /\ tasks \in Seq(Task) /\ repeats \in SUBSET Turn
      /\ r.text \in Seq(Delta) /\ r.new \in Seq(Turn) /\ r.old \in SUBSET Turn
  BY DEF TypeOK, RecordingTypeOK, NewTurns, RecorderState
<1>2. /\ seen' = [seen EXCEPT ![a] = r.seen] /\ buffer' = [buffer EXCEPT ![a] = r.text]
      /\ tasks' = tasks \o more /\ repeats' = repeats \union r.old
  BY DEF Becomes, NewTask
<1>3. more \in Seq(Task) /\ Len(more) = Len(r.new)
  <2>1. \A i \in 1..Len(r.new) : NewTask(a, s, r.new[i]) \in Task
    BY <1>1 DEF NewTask, Task, Stages
  <2> QED
    BY <1>1, <2>1
<1>4. \A i \in 1..Len(r.new) : more[i] = NewTask(a, s, r.new[i])
  OBVIOUS
<1> HIDE DEF more
<1>5. /\ buffer' \in [Agents -> Seq(Delta)] /\ tasks' \in Seq(Task)
      /\ repeats' \in SUBSET Turn
  BY <1>1, <1>2, <1>3
<1>6. Len(tasks') = Len(tasks) + Len(r.new) /\ Len(tasks) \in Nat /\ Len(r.new) \in Nat
  <2>1. Len(tasks \o more) = Len(tasks) + Len(more)
    BY <1>1, <1>3, ConcatProperties
  <2> QED
    BY <1>1, <1>2, <1>3, <2>1
<1>7. \A i \in DOMAIN tasks : i \in DOMAIN tasks' /\ tasks'[i] = tasks[i]
  BY <1>1, <1>2, <1>3
<1>8. \A j \in DOMAIN r.new : /\ Len(tasks) + j \in DOMAIN tasks' \ DOMAIN tasks
                              /\ tasks'[Len(tasks) + j] = NewTask(a, s, r.new[j])
  <2> TAKE j \in DOMAIN r.new
  <2>1. j \in 1..Len(r.new) /\ Len(more) = Len(r.new) /\ more[j] = NewTask(a, s, r.new[j])
    BY <1>1, <1>3, <1>4
  <2>2. tasks \in Seq(Task) /\ more \in Seq(Task) /\ tasks' = tasks \o more
    BY <1>1, <1>2, <1>3
  <2> QED
    BY <2>1, <2>2
<1>9. \A i \in DOMAIN tasks' : i \in DOMAIN tasks \/ i - Len(tasks) \in DOMAIN r.new
  BY <1>1, <1>5, <1>6
<1>10. LoggedKeys \subseteq LoggedKeys'
  BY <1>7 DEF LoggedKeys
<1>11. r.seen \subseteq LoggedKeys'
  <2>1. ASSUME NEW j \in DOMAIN r.new PROVE DedupeKey(r.new[j]) \in LoggedKeys'
    <3>1. /\ tasks'[Len(tasks) + j] = NewTask(a, s, r.new[j])
          /\ Len(tasks) + j \in DOMAIN tasks'
      BY <1>8, <2>1
    <3>2. tasks'[Len(tasks) + j].turn = r.new[j]
      BY <3>1 DEF NewTask
    <3> QED
      BY <3>1, <3>2 DEF LoggedKeys
  <2>2. r.seen = seen[a] \union {DedupeKey(r.new[i]) : i \in DOMAIN r.new}
    BY DEF NewTurns
  <2>3. seen[a] \subseteq LoggedKeys
    BY <1>1
  <2> QED
    BY <1>10, <2>1, <2>2, <2>3
<1>12. seen' \in [Agents -> SUBSET LoggedKeys']
  <2>1. \A b \in Agents : seen'[b] \subseteq LoggedKeys'
    BY <1>1, <1>2, <1>10, <1>11
  <2> QED
    BY <1>1, <1>2, <2>1
<1> QED
  BY <1>1, <1>2, <1>5, <1>6, <1>7, <1>8, <1>9, <1>10, <1>12 DEF RecordingTypeOK

\* The keys, with the turns that were recorded.
LEMMA KeysKept ==
  ASSUME TypeOK, KeysInv, RecordedOnce, NEW a \in Agents, NEW s \in Streams, NEW r,
         NewTurns(a, r), Becomes(a, s, r)
  PROVE  KeysInv' /\ RecordedOnce'
<1> DEFINE n == Len(tasks)
<1>1. r \in RecorderState /\ tasks \in Seq(Task) /\ DOMAIN tasks = 1..n /\ n \in Nat
  BY DEF NewTurns, TypeOK, RecordingTypeOK
<1>2. /\ seen'[a] = r.seen
      /\ \A b \in Agents : b # a => seen'[b] = seen[b]
      /\ \A i \in DOMAIN tasks : i \in DOMAIN tasks' /\ tasks'[i] = tasks[i]
      /\ \A j \in DOMAIN r.new : /\ n + j \in DOMAIN tasks' \ DOMAIN tasks
                                 /\ tasks'[n + j] = NewTask(a, s, r.new[j])
      /\ \A i \in DOMAIN tasks' : i \in DOMAIN tasks \/ i - n \in DOMAIN r.new
      /\ LoggedKeys \subseteq LoggedKeys' /\ repeats' = repeats \union r.old
  BY <1>1, TasksGrow
<1>3. tasks' \in Seq(Task) /\ seen' \in [Agents -> SUBSET LoggedKeys']
  BY <1>1, TasksGrow DEF RecordingTypeOK
<1>4. \A i \in DOMAIN tasks : tasks[i].agent \in Agents
  <2>1. \A i \in DOMAIN tasks : tasks[i] \in Task
    BY <1>1
  <2> QED
    BY <2>1 DEF Task
<1>5. \A i \in DOMAIN tasks' : i \notin DOMAIN tasks =>
        \E j \in DOMAIN r.new : i = n + j /\ tasks'[i] = NewTask(a, s, r.new[j])
  <2> SUFFICES ASSUME NEW i \in DOMAIN tasks', i \notin DOMAIN tasks
               PROVE  \E j \in DOMAIN r.new : i = n + j /\ tasks'[i] = NewTask(a, s, r.new[j])
    OBVIOUS
  <2>1. i - n \in DOMAIN r.new /\ i \in Nat /\ n + (i - n) = i
    BY <1>1, <1>2, <1>3
  <2> QED
    BY <1>2, <2>1
<1> HIDE DEF n
<1>6. /\ r.seen = seen[a] \union {DedupeKey(r.new[i]) : i \in DOMAIN r.new}
      /\ \A i \in DOMAIN r.new : DedupeKey(r.new[i]) \notin seen[a]
      /\ \A i, j \in DOMAIN r.new : DedupeKey(r.new[i]) = DedupeKey(r.new[j]) => i = j
      /\ \A t \in r.old : DedupeKey(t) \in r.seen
  BY DEF NewTurns
<1>7. \A i \in DOMAIN tasks' : DedupeKey(tasks'[i].turn) \in seen'[tasks'[i].agent]
  <2> TAKE i \in DOMAIN tasks'
  <2>1. CASE i \in DOMAIN tasks
    BY <1>2, <1>4, <1>6, <2>1 DEF KeysInv
  <2>2. CASE i \notin DOMAIN tasks
    BY <1>2, <1>5, <1>6, <2>2 DEF NewTask
  <2> QED
    BY <2>1, <2>2
<1>8. \A t \in repeats' : DedupeKey(t) \in LoggedKeys'
  <2>1. \A t \in repeats : DedupeKey(t) \in LoggedKeys
    BY DEF KeysInv
  <2>2. r.seen \subseteq LoggedKeys'
    BY <1>2, <1>3
  <2> QED
    BY <1>2, <1>6, <2>1, <2>2
<1>9. ASSUME NEW i \in DOMAIN tasks', NEW j \in DOMAIN tasks',
             tasks'[i].agent = tasks'[j].agent,
             DedupeKey(tasks'[i].turn) = DedupeKey(tasks'[j].turn)
      PROVE  i = j
  <2>1. CASE i \in DOMAIN tasks /\ j \in DOMAIN tasks
    BY <1>2, <1>9, <2>1 DEF RecordedOnce
  <2>2. CASE i \in DOMAIN tasks /\ j \notin DOMAIN tasks
    BY <1>2, <1>5, <1>6, <1>9, <2>2 DEF KeysInv, NewTask
  <2>3. CASE i \notin DOMAIN tasks /\ j \in DOMAIN tasks
    BY <1>2, <1>5, <1>6, <1>9, <2>3 DEF KeysInv, NewTask
  <2>4. CASE i \notin DOMAIN tasks /\ j \notin DOMAIN tasks
    <3>1. PICK x \in DOMAIN r.new : i = n + x /\ tasks'[i] = NewTask(a, s, r.new[x])
      BY <1>5, <2>4
    <3>2. PICK y \in DOMAIN r.new : j = n + y /\ tasks'[j] = NewTask(a, s, r.new[y])
      BY <1>5, <2>4
    <3>3. DedupeKey(r.new[x]) = DedupeKey(r.new[y])
      BY <1>9, <3>1, <3>2 DEF NewTask
    <3> QED
      BY <1>6, <3>1, <3>2, <3>3
  <2> QED
    BY <2>1, <2>2, <2>3, <2>4
<1>10. KeysInv'
  BY <1>7, <1>8 DEF KeysInv
<1> QED
  BY <1>9, <1>10 DEF RecordedOnce

-----------------------------------------------------------------------------
(***************************************************************************)
(* The calls.                                                              *)
(***************************************************************************)
TurnSet == [agent : Agents, texts : Seq(Texts), place : Places, attempt : Attempts,
            said : 0..MaxDeltas, told : BOOLEAN, waits : SUBSET DOMAIN tasks]

\* Only s moves, on its agent.
Moved(s) ==
  /\ turn' \in [Streams -> TurnSet']
  /\ \A u \in Streams : u # s => turn'[u] = turn[u]
  /\ turn'[s].agent = turn[s].agent

SameRequest(s) == turn'[s].attempt = turn[s].attempt /\ turn'[s].said = turn[s].said

LEMMA DeltaParts ==
  ASSUME NEW d \in Delta
  PROVE  d[1] \in Streams /\ d[2] \in Attempts /\ d[3] \in 1..MaxDeltas /\ d = <<d[1], d[2], d[3]>>
BY DEF Delta

LEMMA SaidDelta ==
  ASSUME TypeOK, NEW s \in Streams, NEW d \in Said(s)
  PROVE  d \in Delta /\ d[1] = s
<1>1. turn[s].attempt \in Attempts /\ turn[s].said \in 0..MaxDeltas
  BY DEF TypeOK
<1> QED
  BY <1>1, DeltasAssumption DEF Said, Delta

\* Steps that record nothing; pushes may end.
Settles ==
  /\ seen' = seen /\ buffer' = buffer /\ repeats' = repeats
  /\ tasks' \in Seq(Task) /\ DOMAIN tasks' = DOMAIN tasks
  /\ \A i \in DOMAIN tasks :
       /\ tasks'[i].agent = tasks[i].agent /\ tasks'[i].by = tasks[i].by
       /\ tasks'[i].turn = tasks[i].turn
       /\ tasks'[i].stage = "pushing" => tasks[i].stage = "pushing"

LEMMA SettlesDeltas ==
  ASSUME IInv, NEW s \in Streams, Settles, Moved(s), turn'[s].told => turn[s].told,
         \/ SameRequest(s)
         \/ turn[s].attempt < turn'[s].attempt /\ turn'[s].said = 0
  PROVE  DeltaInv'
<1>1. TypeOK /\ Attempts \subseteq Nat
  BY RetriesAssumption DEF IInv
<1>2. /\ \A d, i : i \in DOMAIN tasks => (InTurn(d, i)' <=> InTurn(d, i))
      /\ \A d, a : InBuffer(d, a)' <=> InBuffer(d, a)
      /\ \A d : InRepeat(d)' <=> InRepeat(d)
      /\ DOMAIN tasks' = DOMAIN tasks
  BY DEF Settles, InTurn, InBuffer, InRepeat
<1>3. \A u \in Streams : Of(u)' = Of(u)
  BY DEF Moved, Of
<1>4. ASSUME NEW d \in Delta, Used(d) PROVE Used(d)'
  <2>1. /\ d[1] \in Streams /\ d[2] \in Nat /\ d[3] \in Nat
        /\ turn[d[1]].attempt \in Nat /\ turn'[d[1]].attempt \in Nat
    BY <1>1, DeltaParts, DeltasAssumption DEF Moved, TurnSet, TypeOK
  <2>2. CASE d[1] # s \/ SameRequest(s)
    BY <1>4, <2>1, <2>2 DEF Used, Moved, SameRequest
  <2>3. CASE d[1] = s /\ turn[s].attempt < turn'[s].attempt
    BY <1>4, <2>1, <2>3 DEF Used
  <2> QED
    BY <2>2, <2>3
<1>5. ASSUME NEW u \in Streams, NEW d \in Said(u)' PROVE d \in Said(u) /\ d \in Delta
  <2>1. CASE u # s \/ SameRequest(s)
    <3>1. d \in Said(u)
      BY <1>5, <2>1 DEF Said, Moved, SameRequest
    <3> QED
      BY <1>1, <3>1, SaidDelta
  <2>2. CASE u = s /\ turn'[s].said = 0
    BY <1>5, <2>2 DEF Said
  <2> QED
    BY <2>1, <2>2
<1>6. \A u \in Streams : turn'[u].told => turn[u].told
  BY DEF Moved
<1>7. \A d \in Delta : d[1] \in Streams
  BY DeltaParts
<1> HIDE DEF Said
<1> USE DEF IInv, DeltaInv
<1>8. \A d \in Delta : \A i \in DOMAIN tasks' :
        InTurn(d, i)' => Used(d)' /\ \A j \in DOMAIN tasks' : InTurn(d, j)' => i = j
  BY <1>2, <1>4
<1>11. \A d \in Delta :
         InRepeat(d)' => Used(d)' /\ \A i \in DOMAIN tasks' : ~InTurn(d, i)'
  BY <1>2, <1>4
<1>9. \A d \in Delta : \A a \in Agents :
        InBuffer(d, a)' => /\ Used(d)' /\ Of(d[1])' = a /\ ~InRepeat(d)'
                           /\ \A i \in DOMAIN tasks' : ~InTurn(d, i)'
  BY <1>2, <1>3, <1>4, <1>7
<1>10. \A u \in Streams : \A d \in Said(u)' :
         /\ InBuffer(d, Of(u))' \/ InRepeat(d)' \/ \E i \in DOMAIN tasks' : InTurn(d, i)'
         /\ turn'[u].told => ~InBuffer(d, Of(u))'
  <2> TAKE u \in Streams
  <2> TAKE d \in Said(u)'
  <2>1. InBuffer(d, Of(u))' <=> InBuffer(d, Of(u))
    BY <1>3 DEF InBuffer, Settles
  <2>2. d \in Said(u) /\ d \in Delta
    BY <1>5
  <2> QED
    BY <1>2, <1>6, <2>1, <2>2
<1> QED
  BY <1>8, <1>9, <1>10, <1>11

LEMMA SettlesInv ==
  ASSUME IInv, NEW s \in Streams, Settles, Moved(s), built' \subseteq Agents,
         turn'[s].told => turn[s].told,
         \/ SameRequest(s)
         \/ turn[s].attempt < turn'[s].attempt /\ turn'[s].said = 0,
         \A i \in DOMAIN tasks : tasks[i].by = s /\ tasks'[i].stage = "pushing" =>
           /\ turn'[s].place \notin {"idle", "discover", "done"}
           /\ turn'[s].place = "flush" => i \in turn'[s].waits,
         turn'[s].place = "backoff" => turn'[s].attempt <= MaxRetries
  PROVE  IInv'
<1>7. LoggedKeys' = LoggedKeys
  BY DEF Settles, LoggedKeys
<1>1. TypeOK'
  BY <1>7 DEF IInv, TypeOK, RecordingTypeOK, Settles, Moved, TurnSet
<1>2. KeysInv' /\ RecordedOnce'
  BY <1>7 DEF IInv, KeysInv, RecordedOnce, Settles
<1>3. \A i \in DOMAIN tasks : tasks[i].by \in Streams
  <2>1. \A i \in DOMAIN tasks : tasks[i] \in Task
    BY DEF IInv, TypeOK, RecordingTypeOK
  <2> QED
    BY <2>1 DEF Task
<1>4. PendInv'
  <2> SUFFICES ASSUME NEW i \in DOMAIN tasks, tasks'[i].stage = "pushing"
               PROVE  /\ turn'[tasks'[i].by].agent = tasks'[i].agent
                      /\ turn'[tasks'[i].by].place \notin {"idle", "discover", "done"}
                      /\ turn'[tasks'[i].by].place = "flush" => i \in turn'[tasks'[i].by].waits
    BY DEF PendInv, Settles, Of, At
  <2>1. tasks[i].stage = "pushing" /\ tasks'[i].by = tasks[i].by /\ tasks'[i].agent = tasks[i].agent
    BY DEF Settles
  <2>2. CASE tasks[i].by = s
    BY <2>1, <2>2 DEF IInv, PendInv, Of, Moved
  <2>3. CASE tasks[i].by # s
    BY <1>3, <2>1, <2>3 DEF IInv, PendInv, Of, At, Moved
  <2> QED
    BY <2>2, <2>3
<1>5. DeltaInv'
  BY SettlesDeltas
<1>6. RetryInv'
  BY DEF IInv, RetryInv, At, Moved
<1> QED
  BY <1>1, <1>2, <1>4, <1>5, <1>6 DEF IInv

-----------------------------------------------------------------------------
(***************************************************************************)
(* A step that records: the deltas move from the buffer to one new turn or *)
(* are dropped together.                                                   *)
(***************************************************************************)
LEMMA RecordsDeltas ==
  ASSUME IInv, NEW s \in Streams, NEW r, Sound(Of(s), r), Becomes(Of(s), s, r), Moved(s),
         SameRequest(s), turn'[s].told => turn[s].told \/ r.text = <<>>
  PROVE  DeltaInv'
<1>a. PICK a \in Agents : a = Of(s)
  BY DEF IInv, TypeOK, Of
<1>n. PICK n \in Nat : n = Len(tasks)
  <2>1. tasks \in Seq(Task)
    BY DEF IInv, TypeOK, RecordingTypeOK
  <2>2. Len(tasks) \in Nat
    BY <2>1
  <2> QED
    BY <2>2
<1>1. TypeOK /\ r \in RecorderState /\ Sound(a, r) /\ NewTurns(a, r) /\ Of(s) = a
  BY <1>a DEF IInv, Sound, NewTurns
<1>2. /\ buffer'[a] = r.text
      /\ \A b \in Agents : b # a => buffer'[b] = buffer[b]
      /\ repeats' = repeats \union r.old
      /\ n \in Nat
      /\ \A i \in DOMAIN tasks : i \in DOMAIN tasks' /\ tasks'[i] = tasks[i]
      /\ \A j \in DOMAIN r.new : /\ n + j \in DOMAIN tasks' \ DOMAIN tasks
                                 /\ tasks'[n + j] = NewTask(a, s, r.new[j])
      /\ \A i \in DOMAIN tasks' : i \in DOMAIN tasks \/ i - n \in DOMAIN r.new
      /\ tasks' \in Seq(Task)
  BY <1>a, <1>n, <1>1, TasksGrow DEF RecordingTypeOK
<1>3. \A u \in Streams : Of(u)' = Of(u) /\ Said(u)' = Said(u)
  BY DEF Moved, SameRequest, Of, Said
<1>4. \A d \in Delta : Used(d)' <=> Used(d)
  BY DeltaParts DEF Moved, SameRequest, Used
<1>5. \A d : \A i \in DOMAIN tasks : i \in DOMAIN tasks' /\ (InTurn(d, i)' <=> InTurn(d, i))
  BY <1>2 DEF InTurn
<1>6. \A d : \A b \in Agents : b # a => (InBuffer(d, b)' <=> InBuffer(d, b))
  BY <1>2 DEF InBuffer
<1>7. ASSUME NEW d, NEW i \in DOMAIN tasks', i \notin DOMAIN tasks, InTurn(d, i)'
      PROVE  i = n + 1 /\ InBuffer(d, a) /\ r.text = <<>>
  <2>1. i - n \in DOMAIN r.new /\ i \in Nat /\ n + (i - n) = i
    BY <1>2, <1>7
  <2>2. tasks'[i] = NewTask(a, s, r.new[i - n])
    BY <1>2, <2>1
  <2>3. tasks'[i].turn = r.new[i - n]
    BY <2>2 DEF NewTask
  <2>4. /\ r.new[i - n].role = "assistant"
        /\ \E k \in DOMAIN r.new[i - n].text : r.new[i - n].text[k] = d
    BY <1>7, <2>3 DEF InTurn
  <2>5. ~Kept(a, r) /\ ~Repeated(a, r)
    BY <2>1, <2>4 DEF Kept, Repeated
  <2>6. Flushed(a, r) /\ i - n = 1
    BY <1>1, <2>1, <2>4, <2>5 DEF Sound, Flushed
  <2> QED
    BY <1>2, <2>1, <2>4, <2>6 DEF Flushed, InBuffer
<1>8. ASSUME NEW d, InBuffer(d, a), ~InBuffer(d, a)'
      PROVE  InRepeat(d)' \/ \E i \in DOMAIN tasks' : InTurn(d, i)'
  <2>1. ~Kept(a, r)
    BY <1>2, <1>8 DEF Kept, InBuffer
  <2>2. CASE Flushed(a, r)
    <3>1. 1 \in DOMAIN r.new
      BY <1>1, <2>2 DEF Flushed, RecorderState
    <3>2. n + 1 \in DOMAIN tasks' /\ tasks'[n + 1] = NewTask(a, s, r.new[1])
      BY <1>2, <3>1
    <3>3. tasks'[n + 1].turn = r.new[1]
      BY <3>2 DEF NewTask
    <3>4. InTurn(d, n + 1)'
      BY <1>8, <2>2, <3>3 DEF Flushed, InBuffer, InTurn
    <3> QED
      BY <3>2, <3>4
  <2>3. CASE Repeated(a, r)
    BY <1>2, <1>8, <2>3 DEF Repeated, Answer, InBuffer, InRepeat
  <2> QED
    BY <1>1, <2>1, <2>2, <2>3 DEF Sound
<1>9. \A d : InBuffer(d, a)' => InBuffer(d, a) /\ r.text # <<>>
  <2>1. r.text = <<>> \/ r.text = buffer[a]
    BY <1>1 DEF Sound, Kept, Flushed, Repeated
  <2> QED
    BY <1>2, <2>1 DEF InBuffer
<1>15. \A d : InRepeat(d) => InRepeat(d)'
  BY <1>2 DEF InRepeat
<1>16. ASSUME NEW d, InRepeat(d)', ~InRepeat(d)
       PROVE  InBuffer(d, a) /\ r.text = <<>> /\ \A i \in DOMAIN r.new : r.new[i].role = "user"
  <2>1. PICK t \in r.old : t.role = "assistant" /\ \E k \in DOMAIN t.text : t.text[k] = d
    BY <1>2, <1>16 DEF InRepeat
  <2>2. Repeated(a, r)
    BY <1>1, <2>1 DEF Sound, Kept, Flushed
  <2> QED
    BY <2>1, <2>2 DEF Repeated, Answer, InBuffer
<1>10. \A d \in Delta : d[1] \in Streams
  BY DeltaParts
<1>11. \A u \in Streams : Of(u) \in Agents
  BY <1>1 DEF TypeOK, Of
<1> HIDE DEF Said
<1> USE DEF IInv, DeltaInv
<1>12. ASSUME NEW d \in Delta, NEW i \in DOMAIN tasks', InTurn(d, i)'
       PROVE  Used(d)' /\ \A j \in DOMAIN tasks' : InTurn(d, j)' => i = j
  <2>1. CASE i \in DOMAIN tasks
    BY <1>1, <1>4, <1>5, <1>7, <1>12, <2>1
  <2>2. CASE i \notin DOMAIN tasks
    BY <1>1, <1>4, <1>5, <1>7, <1>12, <2>2
  <2> QED
    BY <2>1, <2>2
<1>17. ASSUME NEW d \in Delta, InRepeat(d)'
       PROVE  Used(d)' /\ \A i \in DOMAIN tasks' : ~InTurn(d, i)'
  <2>1. Used(d)'
    BY <1>1, <1>4, <1>16, <1>17
  <2>2. ASSUME NEW i \in DOMAIN tasks', InTurn(d, i)' PROVE FALSE
    <3>1. CASE i \in DOMAIN tasks
      BY <1>1, <1>5, <1>16, <1>17, <2>2, <3>1
    <3>2. CASE i \notin DOMAIN tasks
      <4>1. InBuffer(d, a)
        BY <1>7, <2>2, <3>2
      <4>2. \A j \in DOMAIN r.new : r.new[j].role = "user"
        BY <1>1, <1>16, <1>17, <4>1
      <4>3. i - n \in DOMAIN r.new /\ i \in Nat /\ n + (i - n) = i
        BY <1>2, <3>2
      <4>4. tasks'[i] = NewTask(a, s, r.new[i - n])
        BY <1>2, <4>3
      <4>5. tasks'[i].turn.role = "user"
        BY <4>2, <4>3, <4>4 DEF NewTask
      <4> QED
        BY <2>2, <4>5 DEF InTurn
    <3> QED
      BY <3>1, <3>2
  <2> QED
    BY <2>1, <2>2
<1>13. ASSUME NEW d \in Delta, NEW b \in Agents, InBuffer(d, b)'
       PROVE  /\ Used(d)' /\ Of(d[1])' = b /\ ~InRepeat(d)'
              /\ \A i \in DOMAIN tasks' : ~InTurn(d, i)'
  <2>1. InBuffer(d, b)
    BY <1>6, <1>9, <1>13
  <2>2. Used(d)' /\ Of(d[1])' = b /\ Of(d[1]) = b
    BY <1>3, <1>4, <1>10, <2>1
  <2>4. ~InRepeat(d)'
    <3>1. SUFFICES ASSUME InRepeat(d)' PROVE FALSE
      OBVIOUS
    <3>2. ~InRepeat(d)
      BY <2>1
    <3>3. InBuffer(d, a) /\ r.text = <<>>
      BY <1>16, <3>1, <3>2
    <3>4. a = b
      BY <1>1, <2>2, <3>3
    <3> QED
      BY <1>9, <1>13, <3>3, <3>4
  <2>3. ASSUME NEW i \in DOMAIN tasks', InTurn(d, i)' PROVE FALSE
    <3>1. CASE i \in DOMAIN tasks
      BY <1>5, <2>1, <2>3, <3>1
    <3>2. CASE i \notin DOMAIN tasks
      <4>1. InBuffer(d, a) /\ r.text = <<>>
        BY <1>7, <2>3, <3>2
      <4>2. a = b
        BY <1>1, <2>2, <4>1
      <4> QED
        BY <1>9, <1>13, <4>1, <4>2
    <3> QED
      BY <3>1, <3>2
  <2> QED
    BY <2>2, <2>3, <2>4
<1>14. ASSUME NEW u \in Streams, NEW d \in Said(u)'
       PROVE  /\ InBuffer(d, Of(u))' \/ InRepeat(d)' \/ \E i \in DOMAIN tasks' : InTurn(d, i)'
              /\ turn'[u].told => ~InBuffer(d, Of(u))'
  <2>1. d \in Said(u) /\ d \in Delta
    BY <1>1, <1>3, <1>14, SaidDelta
  <2>2. InBuffer(d, Of(u))' <=> \E k \in DOMAIN buffer'[Of(u)] : buffer'[Of(u)][k] = d
    BY <1>3 DEF InBuffer
  <2>3. Of(u) # a => (InBuffer(d, Of(u))' <=> InBuffer(d, Of(u)))
    BY <1>2, <1>11, <2>2 DEF InBuffer
  <2>4. Of(u) = a => (InBuffer(d, Of(u))' <=> InBuffer(d, a)')
    BY <2>2 DEF InBuffer
  <2>5. InBuffer(d, Of(u))' \/ InRepeat(d)' \/ \E i \in DOMAIN tasks' : InTurn(d, i)'
    BY <1>5, <1>8, <1>15, <2>1, <2>3, <2>4
  <2>6. turn'[u].told => turn[u].told \/ (u = s /\ r.text = <<>>)
    BY DEF Moved
  <2>7. turn'[u].told => ~InBuffer(d, Of(u))'
    BY <1>1, <1>9, <2>1, <2>3, <2>4, <2>6
  <2> QED
    BY <2>5, <2>7
<1> QED
  BY <1>12, <1>13, <1>14, <1>17

LEMMA RecordsPushes ==
  ASSUME IInv, NEW s \in Streams, NEW r, NewTurns(Of(s), r), Becomes(Of(s), s, r), Moved(s),
         \/ turn'[s].place \in {"open", "stream"}
         \/ /\ turn'[s].place = "flush"
            /\ turn'[s].waits = Pending(Of(s)) \union (Len(tasks) + 1)..(Len(tasks) + Len(r.new))
  PROVE  PendInv'
<1> DEFINE n == Len(tasks)
<1>1. TypeOK /\ Of(s) \in Agents
  BY DEF IInv, TypeOK, Of
<1>2. /\ n \in Nat /\ DOMAIN tasks = 1..n
      /\ \A i \in DOMAIN tasks : i \in DOMAIN tasks' /\ tasks'[i] = tasks[i]
      /\ \A j \in DOMAIN r.new : /\ n + j \in DOMAIN tasks' \ DOMAIN tasks
                                 /\ tasks'[n + j] = NewTask(Of(s), s, r.new[j])
      /\ \A i \in DOMAIN tasks' : i \in DOMAIN tasks \/ i - n \in DOMAIN r.new
      /\ DOMAIN tasks' = 1..n + Len(r.new) /\ Len(r.new) \in Nat
  <2>1. /\ tasks' \in Seq(Task) /\ n \in Nat /\ Len(r.new) \in Nat
        /\ Len(tasks') = n + Len(r.new)
    BY <1>1, TasksGrow DEF RecordingTypeOK
  <2>2. DOMAIN tasks' = 1..n + Len(r.new) /\ DOMAIN tasks = 1..n
    BY <1>1, <2>1 DEF TypeOK, RecordingTypeOK
  <2> QED
    BY <1>1, <2>1, <2>2, TasksGrow
<1>3. \A i \in DOMAIN tasks : tasks[i].by \in Streams
  <2>1. \A i \in DOMAIN tasks : tasks[i] \in Task
    BY <1>1 DEF TypeOK, RecordingTypeOK
  <2> QED
    BY <2>1 DEF Task
<1> SUFFICES ASSUME NEW i \in DOMAIN tasks', tasks'[i].stage = "pushing"
             PROVE  /\ turn'[tasks'[i].by].agent = tasks'[i].agent
                    /\ turn'[tasks'[i].by].place \notin {"idle", "discover", "done"}
                    /\ turn'[tasks'[i].by].place = "flush" => i \in turn'[tasks'[i].by].waits
  BY DEF PendInv, Of, At
<1>4. CASE i \in DOMAIN tasks
  <2>1. tasks'[i] = tasks[i] /\ tasks[i].stage = "pushing"
    BY <1>2, <1>4
  <2>2. CASE tasks[i].by = s
    <3>1. Of(s) = tasks[i].agent /\ i \in Pending(Of(s))
      BY <1>4, <2>1, <2>2 DEF IInv, PendInv, Pending
    <3> QED
      BY <2>1, <2>2, <3>1 DEF Of, Moved
  <2>3. CASE tasks[i].by # s
    BY <1>3, <1>4, <2>1, <2>3 DEF IInv, PendInv, Of, At, Moved
  <2> QED
    BY <2>2, <2>3
<1>5. CASE i \notin DOMAIN tasks
  <2>1. i - n \in DOMAIN r.new /\ i \in n + 1..n + Len(r.new) /\ n + (i - n) = i
    BY <1>2, <1>5
  <2>2. tasks'[i] = NewTask(Of(s), s, r.new[i - n])
    BY <1>2, <2>1
  <2>3. tasks'[i].by = s /\ tasks'[i].agent = Of(s)
    BY <2>2 DEF NewTask
  <2> QED
    BY <2>1, <2>3 DEF Of, Moved
<1> QED
  BY <1>4, <1>5

LEMMA RecordsInv ==
  ASSUME IInv, NEW s \in Streams, NEW r, Sound(Of(s), r), Becomes(Of(s), s, r), Moved(s),
         built' = built, SameRequest(s), turn'[s].told => turn[s].told \/ r.text = <<>>,
         \/ turn'[s].place \in {"open", "stream"}
         \/ /\ turn'[s].place = "flush"
            /\ turn'[s].waits = Pending(Of(s)) \union (Len(tasks) + 1)..(Len(tasks) + Len(r.new))
  PROVE  IInv'
<1>1. TypeOK /\ Of(s) \in Agents /\ r \in RecorderState /\ NewTurns(Of(s), r)
  BY DEF IInv, TypeOK, Of, Sound, NewTurns
<1>2. TypeOK'
  <2>1. RecordingTypeOK'
    BY <1>1, TasksGrow
  <2> QED
    BY <1>1, <2>1 DEF TypeOK, Moved, TurnSet
<1>3. KeysInv' /\ RecordedOnce'
  BY <1>1, KeysKept DEF IInv
<1>4. PendInv'
  BY <1>1, RecordsPushes
<1>5. DeltaInv'
  BY RecordsDeltas
<1>6. RetryInv'
  BY DEF IInv, RetryInv, At, Moved
<1> QED
  BY <1>2, <1>3, <1>4, <1>5, <1>6 DEF IInv

-----------------------------------------------------------------------------
(***************************************************************************)
(* The actions, first what they do to the call.                            *)
(***************************************************************************)
\* The pushes there are stay there.
Stays == DOMAIN tasks \subseteq DOMAIN tasks'

LEMMA TurnType ==
  ASSUME TypeOK
  PROVE  turn \in [Streams -> TurnSet]
BY DEF TypeOK, TurnSet

LEMMA PlaceMoves ==
  ASSUME TypeOK, NEW s \in Streams, NEW p \in Places, Stays,
         turn' = [turn EXCEPT ![s].place = p]
  PROVE  /\ Moved(s) /\ SameRequest(s)
         /\ turn'[s].told = turn[s].told /\ turn'[s].place = p /\ turn'[s].waits = turn[s].waits
BY TurnType DEF TurnSet, Moved, SameRequest, Stays

LEMMA TextsMove ==
  ASSUME TypeOK, NEW s \in Streams, NEW p \in Places, NEW x \in Seq(Texts), Stays,
         turn' = [turn EXCEPT ![s].place = p, ![s].texts = x]
  PROVE  /\ Moved(s) /\ SameRequest(s)
         /\ turn'[s].told = turn[s].told /\ turn'[s].place = p
BY TurnType DEF TurnSet, Moved, SameRequest, Stays

LEMMA WaitsMove ==
  ASSUME TypeOK, NEW s \in Streams, NEW p \in Places, NEW w \in SUBSET DOMAIN tasks', Stays,
         turn' = [turn EXCEPT ![s].place = p, ![s].waits = w]
  PROVE  /\ Moved(s) /\ SameRequest(s)
         /\ turn'[s].told = turn[s].told /\ turn'[s].place = p /\ turn'[s].waits = w
BY TurnType DEF TurnSet, Moved, SameRequest, Stays

LEMMA ToldMoves ==
  ASSUME TypeOK, NEW s \in Streams, Stays, turn' = [turn EXCEPT ![s].told = TRUE]
  PROVE  Moved(s) /\ SameRequest(s) /\ turn'[s].place = turn[s].place
BY TurnType DEF TurnSet, Moved, SameRequest, Stays

LEMMA SaidMoves ==
  ASSUME TypeOK, NEW s \in Streams, NEW n \in 0..MaxDeltas, Stays,
         turn' = [turn EXCEPT ![s].said = n]
  PROVE  /\ Moved(s) /\ turn'[s].said = n /\ turn'[s].attempt = turn[s].attempt
         /\ turn'[s].told = turn[s].told /\ turn'[s].place = turn[s].place
BY TurnType DEF TurnSet, Moved, Stays

LEMMA BackoffMoves ==
  ASSUME IInv, NEW s \in Streams, Backoff(s)
  PROVE  /\ Moved(s) /\ turn'[s].attempt = turn[s].attempt + 1 /\ turn'[s].said = 0
         /\ turn'[s].told = FALSE /\ turn'[s].place = "open"
<1>1. /\ turn' = [turn EXCEPT ![s].place = "open", ![s].attempt = @ + 1, ![s].said = 0, ![s].told = FALSE]
      /\ tasks' = tasks /\ turn[s].attempt <= MaxRetries
  BY DEF Backoff, recording, IInv, RetryInv
<1>2. turn \in [Streams -> TurnSet]
  BY TurnType DEF IInv
<1>3. turn[s].attempt + 1 \in Attempts
  BY <1>1, <1>2, RetriesAssumption DEF TurnSet
<1> DEFINE l == [turn[s] EXCEPT !.place = "open", !.attempt = @ + 1, !.said = 0, !.told = FALSE]
<1>4. turn[s] \in TurnSet /\ "open" \in Places /\ 0 \in 0..MaxDeltas
  BY <1>2, DeltasAssumption DEF Places
<1>5. l \in TurnSet
  BY <1>3, <1>4 DEF TurnSet
<1>6. /\ l.place = "open" /\ l.attempt = turn[s].attempt + 1 /\ l.said = 0 /\ l.told = FALSE
      /\ l.agent = turn[s].agent
  BY <1>4 DEF TurnSet
<1>7. turn'[s] = l
  BY <1>1, <1>2
<1>8. \A u \in Streams : u # s => turn'[u] = turn[u]
  BY <1>1, <1>2
<1>9. TurnSet' = TurnSet
  BY <1>1 DEF TurnSet
<1> HIDE DEF l
<1>10. turn' \in [Streams -> TurnSet]
  <2>1. turn' = [u \in Streams |-> turn'[u]]
    BY <1>1, <1>2
  <2> QED
    BY <1>2, <1>5, <1>7, <1>8, <2>1
<1> QED
  BY <1>6, <1>7, <1>8, <1>9, <1>10 DEF Moved

LEMMA UnchangedSettles ==
  ASSUME IInv, UNCHANGED recording
  PROVE  Settles /\ Stays
BY DEF IInv, TypeOK, RecordingTypeOK, Settles, Stays, recording

LEMMA CallOpens ==
  ASSUME IInv, NEW s \in Streams, NEW texts \in Seq(Texts), RecordAndOpen(s, texts),
         built' = built
  PROVE  IInv'
<1> DEFINE r == RecordUsers(Recorder(Of(s)), texts)
<1>1. TypeOK /\ Of(s) \in Agents /\ <<>> \in Seq(Texts) /\ "open" \in Places
  BY DEF IInv, TypeOK, Of, Places
<1>2. Sound(Of(s), r)
  BY <1>1, RecordUsersSound DEF IInv
<1>3. /\ Becomes(Of(s), s, r)
      /\ turn' = [turn EXCEPT ![s].place = "open", ![s].texts = <<>>]
  BY DEF RecordAndOpen
<1> HIDE DEF r
<1>4. NewTurns(Of(s), r)
  BY <1>2 DEF Sound
<1>5. Stays
  BY <1>1, <1>3, <1>4, TasksGrow DEF Stays
<1>6. /\ Moved(s) /\ SameRequest(s)
      /\ turn'[s].told = turn[s].told /\ turn'[s].place = "open"
  BY <1>1, <1>3, <1>5, TextsMove
<1> QED
  BY <1>2, <1>3, <1>6, RecordsInv

LEMMA CallInv == ASSUME IInv, NEW s \in Streams, Call(s) PROVE IInv'
<1>1. PICK messages \in Inputs, continues \in BOOLEAN :
        LET texts == UserContents(messages)
        IN IF Prefetches(Of(s), texts, continues)
           THEN /\ turn' = [turn EXCEPT ![s].place = "discover", ![s].texts = texts]
                /\ UNCHANGED recording
           ELSE RecordAndOpen(s, texts)
  BY DEF Call
<1> DEFINE texts == UserContents(messages)
<1>2. texts \in Seq(Texts)
  BY InputsAssumption, ContentsType
<1>3. At(s, "idle") /\ built' = built /\ TypeOK
  BY DEF Call, IInv
<1> HIDE DEF texts
<1>4. CASE RecordAndOpen(s, texts)
  BY <1>2, <1>3, <1>4, CallOpens
<1>5. CASE /\ turn' = [turn EXCEPT ![s].place = "discover", ![s].texts = texts]
           /\ UNCHANGED recording
  <2>1. Settles /\ Stays
    BY <1>5, UnchangedSettles
  <2>2. /\ Moved(s) /\ SameRequest(s)
        /\ turn'[s].told = turn[s].told /\ turn'[s].place = "discover"
    BY <1>2, <1>3, <1>5, <2>1, TextsMove DEF Places
  <2>3. \A i \in DOMAIN tasks : tasks[i].by = s => tasks'[i].stage # "pushing"
    BY <1>3, <2>1 DEF IInv, PendInv, Settles, At
  <2> QED
    BY <1>3, <2>1, <2>2, <2>3, SettlesInv DEF TypeOK
<1> QED
  BY <1>1, <1>4, <1>5 DEF texts

LEMMA DiscoveredInv == ASSUME IInv, NEW s \in Streams, Discovered(s) PROVE IInv'
BY CallOpens DEF Discovered, IInv, TypeOK

\* A call whose flush begins with nothing new.
LEMMA FlushInv ==
  ASSUME IInv, NEW s \in Streams, turn[s].place \in {"open", "stream", "backoff"},
         Flush(s, Recorder(Of(s))), UNCHANGED <<recording, built>>
  PROVE  IInv'
<1>1. TypeOK /\ Len(tasks) \in Nat /\ DOMAIN tasks = 1..Len(tasks)
  BY DEF IInv, TypeOK, RecordingTypeOK
<1>2. (Len(tasks) + 1)..(Len(tasks) + Len(Recorder(Of(s)).new)) = {}
  BY <1>1 DEF Recorder
<1>3. turn' = [turn EXCEPT ![s].place = "flush", ![s].waits = Pending(Of(s))]
  BY <1>2 DEF Flush
<1>4. Settles /\ Stays /\ tasks' = tasks
  BY UnchangedSettles DEF recording
<1>5. Pending(Of(s)) \in SUBSET DOMAIN tasks' /\ "flush" \in Places
  BY <1>4 DEF Pending, Places
<1>6. /\ Moved(s) /\ SameRequest(s) /\ turn'[s].told = turn[s].told
      /\ turn'[s].place = "flush" /\ turn'[s].waits = Pending(Of(s))
  BY <1>1, <1>3, <1>4, <1>5, WaitsMove
<1>7. \A i \in DOMAIN tasks : tasks[i].by = s /\ tasks'[i].stage = "pushing" => i \in Pending(Of(s))
  BY <1>4 DEF IInv, PendInv, Pending
<1> QED
  BY <1>1, <1>4, <1>6, <1>7, SettlesInv DEF TypeOK

\* A call that goes elsewhere without recording.
LEMMA GoInv ==
  ASSUME IInv, NEW s \in Streams, NEW p \in {"stream", "backoff", "done", "abandoned"},
         turn' = [turn EXCEPT ![s].place = p], UNCHANGED <<recording, built>>,
         ~At(s, "idle") /\ (At(s, "discover") <=> p = "done") /\ ~At(s, "done"),
         p = "backoff" => turn[s].attempt <= MaxRetries
  PROVE  IInv'
<1>1. Settles /\ Stays /\ TypeOK /\ tasks' = tasks
  BY UnchangedSettles DEF IInv, recording
<1>2. /\ Moved(s) /\ SameRequest(s) /\ turn'[s].told = turn[s].told /\ turn'[s].place = p
  BY <1>1, PlaceMoves DEF Places
<1>3. p = "done" => \A i \in DOMAIN tasks : tasks[i].by = s => tasks[i].stage # "pushing"
  BY DEF IInv, PendInv, At
<1> QED
  BY <1>1, <1>2, <1>3, SettlesInv DEF TypeOK, SameRequest

LEMMA CancelInv == ASSUME IInv, NEW s \in Streams, Cancel(s) PROVE IInv'
<1>1. built' = built /\ TypeOK
  BY DEF Cancel, IInv
<1>2. CASE /\ At(s, "discover") /\ turn' = [turn EXCEPT ![s].place = "done"]
           /\ UNCHANGED recording
  BY <1>1, <1>2, GoInv DEF At
<1>3. CASE /\ turn[s].place \in {"open", "stream", "backoff"} /\ Flush(s, Recorder(Of(s)))
           /\ UNCHANGED recording
  BY <1>1, <1>3, FlushInv
<1>4. CASE /\ At(s, "flush") /\ CancelPushes(turn[s].waits)
           /\ turn' = [turn EXCEPT ![s].place = "done", ![s].waits = {}]
  <2>1. /\ seen' = seen /\ buffer' = buffer /\ repeats' = repeats
        /\ tasks' = [i \in DOMAIN tasks |->
                       IF i \in turn[s].waits THEN [tasks[i] EXCEPT !.stage = "over"] ELSE tasks[i]]
    BY <1>4 DEF CancelPushes
  <2>2. tasks \in Seq(Task) /\ \A i \in DOMAIN tasks : tasks[i] \in Task
    BY <1>1 DEF TypeOK, RecordingTypeOK
  <2>3. \A i \in DOMAIN tasks : /\ [tasks[i] EXCEPT !.stage = "over"] \in Task
                                /\ [tasks[i] EXCEPT !.stage = "over"].agent = tasks[i].agent
                                /\ [tasks[i] EXCEPT !.stage = "over"].by = tasks[i].by
                                /\ [tasks[i] EXCEPT !.stage = "over"].turn = tasks[i].turn
                                /\ [tasks[i] EXCEPT !.stage = "over"].stage = "over"
    BY <2>2 DEF Task, Stages
  <2>4. DOMAIN tasks' = DOMAIN tasks /\ tasks' \in Seq(Task)
    BY <2>1, <2>2, <2>3
  <2>5. Settles /\ Stays
    BY <2>1, <2>2, <2>3, <2>4 DEF Settles, Stays
  <2>6. {} \in SUBSET DOMAIN tasks' /\ "done" \in Places
    BY DEF Places
  <2>7. /\ Moved(s) /\ SameRequest(s) /\ turn'[s].told = turn[s].told
        /\ turn'[s].place = "done"
    BY <1>1, <1>4, <2>5, <2>6, WaitsMove
  <2>8. \A i \in DOMAIN tasks : tasks[i].by = s => tasks'[i].stage # "pushing"
    <3> SUFFICES ASSUME NEW i \in DOMAIN tasks, tasks[i].by = s, tasks'[i].stage = "pushing"
                 PROVE  FALSE
      OBVIOUS
    <3>1. i \in turn[s].waits
      BY <1>4, <2>5 DEF IInv, PendInv, Settles
    <3> QED
      BY <2>1, <2>3, <3>1
  <2> QED
    BY <1>1, <2>5, <2>7, <2>8, SettlesInv DEF TypeOK
<1> QED
  BY <1>2, <1>3, <1>4 DEF Cancel

LEMMA FlushDoneInv == ASSUME IInv, NEW s \in Streams, FlushDone(s) PROVE IInv'
<1>1. /\ At(s, "flush") /\ \A i \in turn[s].waits : tasks[i].stage = "over"
      /\ turn' = [turn EXCEPT ![s].place = "done", ![s].waits = {}]
      /\ UNCHANGED <<recording, built>> /\ TypeOK
  BY DEF FlushDone, IInv
<1>2. Settles /\ Stays /\ tasks' = tasks
  BY <1>1, UnchangedSettles DEF recording
<1>3. {} \in SUBSET DOMAIN tasks' /\ "done" \in Places
  BY DEF Places
<1>4. /\ Moved(s) /\ SameRequest(s) /\ turn'[s].told = turn[s].told /\ turn'[s].place = "done"
  BY <1>1, <1>2, <1>3, WaitsMove
<1>5. \A i \in DOMAIN tasks : tasks[i].by = s => tasks[i].stage # "pushing"
  BY <1>1 DEF IInv, PendInv
<1> QED
  BY <1>1, <1>2, <1>4, <1>5, SettlesInv DEF TypeOK

LEMMA FailInv == ASSUME IInv, NEW s \in Streams, NEW e, Fail(s, e) PROVE IInv'
<1>1. /\ turn[s].place \in {"open", "stream"} /\ UNCHANGED <<recording, built>>
      /\ IF Retries(s, e) THEN turn' = [turn EXCEPT ![s].place = "backoff"]
         ELSE Flush(s, Recorder(Of(s)))
  BY DEF Fail, At
<1>2. CASE Retries(s, e)
  BY <1>1, <1>2, GoInv DEF Retries, At
<1>3. CASE ~Retries(s, e)
  BY <1>1, <1>3, FlushInv
<1> QED
  BY <1>2, <1>3

LEMMA BackoffInv == ASSUME IInv, NEW s \in Streams, Backoff(s) PROVE IInv'
<1>1. /\ Moved(s) /\ turn'[s].attempt = turn[s].attempt + 1 /\ turn'[s].said = 0
      /\ turn'[s].told = FALSE /\ turn'[s].place = "open"
  BY BackoffMoves
<1>2. Settles /\ TypeOK /\ built' = built
  BY UnchangedSettles DEF Backoff, IInv
<1>3. turn[s].attempt < turn[s].attempt + 1
  BY <1>2, RetriesAssumption DEF TypeOK
<1> QED
  BY <1>1, <1>2, <1>3, SettlesInv DEF TypeOK

LEMMA GoesInv == ASSUME IInv, NEW s \in Streams, Opened(s) \/ Abandon(s) PROVE IInv'
BY GoInv DEF Opened, Abandon, At

LEMMA PushInv == ASSUME IInv, Push PROVE IInv'
<1>1. PICK i \in DOMAIN tasks : EndPush(i)
  BY DEF Push
<1>2. /\ tasks' = [tasks EXCEPT ![i].stage = "over"] /\ UNCHANGED <<seen, buffer, repeats, turn, built>>
      /\ TypeOK /\ tasks \in Seq(Task) /\ tasks[i] \in Task
  <2>1. tasks' = [tasks EXCEPT ![i].stage = "over"] /\ UNCHANGED <<seen, buffer, repeats, turn, built>>
    BY <1>1 DEF Push, EndPush
  <2>2. TypeOK /\ tasks \in Seq(Task)
    BY DEF IInv, TypeOK, RecordingTypeOK
  <2> QED
    BY <2>1, <2>2
<1>3. /\ [tasks[i] EXCEPT !.stage = "over"] \in Task
      /\ [tasks[i] EXCEPT !.stage = "over"].agent = tasks[i].agent
      /\ [tasks[i] EXCEPT !.stage = "over"].by = tasks[i].by
      /\ [tasks[i] EXCEPT !.stage = "over"].turn = tasks[i].turn
      /\ [tasks[i] EXCEPT !.stage = "over"].stage = "over"
  BY <1>2 DEF Task, Stages
<1>4. DOMAIN tasks' = DOMAIN tasks /\ tasks' \in Seq(Task)
  BY <1>2, <1>3
<1>5. Settles
  BY <1>2, <1>3, <1>4 DEF Settles
<1>6. PICK s \in Streams : s = tasks[i].by
  BY <1>2 DEF Task
<1>7. Moved(s) /\ SameRequest(s) /\ turn' = turn
  BY <1>2, <1>4, TurnType DEF Moved, SameRequest, TurnSet
<1>8. \A j \in DOMAIN tasks : tasks[j].by = s /\ tasks'[j].stage = "pushing" =>
        /\ turn[s].place \notin {"idle", "discover", "done"}
        /\ turn[s].place = "flush" => j \in turn[s].waits
  BY <1>5 DEF IInv, PendInv, Settles, At
<1>9. turn[s].place = "backoff" => turn[s].attempt <= MaxRetries
  BY DEF IInv, RetryInv, At
<1> QED
  BY <1>2, <1>5, <1>7, <1>8, <1>9, SettlesInv DEF TypeOK

LEMMA ConstructInv == ASSUME IInv, NEW a \in Agents, Construct(a) PROVE IInv'
<1>1. /\ seen' = [seen EXCEPT ![a] = LoggedKeys]
      /\ UNCHANGED <<buffer, tasks, repeats, turn>> /\ built' = built \union {a}
  BY DEF Construct, Seed
<1>2. TypeOK /\ seen \in [Agents -> SUBSET LoggedKeys]
  BY DEF IInv, TypeOK, RecordingTypeOK
<1>3. LoggedKeys' = LoggedKeys
  BY <1>1 DEF LoggedKeys
<1>4. /\ seen' \in [Agents -> SUBSET LoggedKeys]
      /\ seen'[a] = LoggedKeys
      /\ \A b \in Agents : b # a => seen'[b] = seen[b]
  BY <1>1, <1>2
<1>5. TypeOK'
  BY <1>1, <1>2, <1>3, <1>4 DEF TypeOK, RecordingTypeOK
<1>6. KeysInv'
  <2>1. \A i \in DOMAIN tasks : DedupeKey(tasks[i].turn) \in seen'[tasks[i].agent]
    <3> TAKE i \in DOMAIN tasks
    <3>1. tasks[i] \in Task /\ DedupeKey(tasks[i].turn) \in LoggedKeys
      BY <1>2 DEF TypeOK, RecordingTypeOK, LoggedKeys
    <3>2. tasks[i].agent \in Agents
      BY <3>1 DEF Task
    <3> QED
      BY <1>4, <3>1, <3>2 DEF IInv, KeysInv
  <2> QED
    BY <1>1, <1>3, <2>1 DEF IInv, KeysInv
<1>7. RecordedOnce' /\ PendInv' /\ DeltaInv' /\ RetryInv'
  BY <1>1 DEF IInv, RecordedOnce, PendInv, DeltaInv, RetryInv, Of, At, Used, InTurn, InRepeat,
              InBuffer, Said
<1> QED
  BY <1>5, <1>6, <1>7 DEF IInv

\* The end of an answer was reported, or the stream is over.
LEMMA FinishInv == ASSUME IInv, NEW s \in Streams, Finish(s) PROVE IInv'
<1> DEFINE r == FlushAssistant(Recorder(Of(s)))
<1>1. /\ At(s, "stream") /\ Becomes(Of(s), s, r) /\ built' = built
      /\ turn' = [turn EXCEPT ![s].told = TRUE] /\ TypeOK /\ Of(s) \in Agents
  BY DEF Finish, IInv, TypeOK, Of
<1>2. Sound(Of(s), r) /\ r.text = <<>>
  BY <1>1, RecorderSound, FlushSound DEF IInv
<1> HIDE DEF r
<1>3. NewTurns(Of(s), r)
  BY <1>2 DEF Sound
<1>4. Stays
  BY <1>1, <1>3, TasksGrow DEF Stays
<1>5. Moved(s) /\ SameRequest(s) /\ turn'[s].place = turn[s].place
  BY <1>1, <1>4, ToldMoves
<1> QED
  BY <1>1, <1>2, <1>5, RecordsInv DEF At

LEMMA EndOfStreamInv == ASSUME IInv, NEW s \in Streams, EndOfStream(s) PROVE IInv'
<1>1. PICK closed \in BOOLEAN :
        LET reports == GoogleReports(s) \/ HermesReports(s, closed)
            r == IF reports THEN FlushAssistant(Recorder(Of(s))) ELSE Recorder(Of(s))
        IN Becomes(Of(s), s, r) /\ Flush(s, r)
  BY DEF EndOfStream
<1>2. /\ built' = built /\ TypeOK /\ Of(s) \in Agents
      /\ Len(tasks) \in Nat /\ DOMAIN tasks = 1..Len(tasks)
  BY DEF EndOfStream, IInv, TypeOK, RecordingTypeOK, Of
<1>3. /\ Sound(Of(s), Recorder(Of(s)))
      /\ Sound(Of(s), FlushAssistant(Recorder(Of(s))))
  BY <1>2, RecorderSound, FlushSound DEF IInv
<1>4. PICK r : Sound(Of(s), r) /\ Becomes(Of(s), s, r) /\ Flush(s, r)
  BY <1>1, <1>3
<1>5. NewTurns(Of(s), r)
  BY <1>4 DEF Sound
<1> DEFINE w == Pending(Of(s)) \union (Len(tasks) + 1)..(Len(tasks) + Len(r.new))
<1>6. turn' = [turn EXCEPT ![s].place = "flush", ![s].waits = w]
  BY <1>4 DEF Flush
<1>7. /\ Stays /\ DOMAIN tasks' = 1..(Len(tasks) + Len(r.new)) /\ Len(r.new) \in Nat
  <2>1. /\ Len(tasks') = Len(tasks) + Len(r.new) /\ RecordingTypeOK' /\ Len(r.new) \in Nat
        /\ \A i \in DOMAIN tasks : i \in DOMAIN tasks'
    BY <1>2, <1>4, <1>5, TasksGrow
  <2>2. DOMAIN tasks' = 1..Len(tasks')
    BY <2>1 DEF RecordingTypeOK
  <2> QED
    BY <2>1, <2>2 DEF Stays
<1>8. w \in SUBSET DOMAIN tasks' /\ "flush" \in Places
  BY <1>2, <1>7 DEF Pending, Places
<1> HIDE DEF w
<1>9. /\ Moved(s) /\ SameRequest(s) /\ turn'[s].told = turn[s].told
      /\ turn'[s].place = "flush" /\ turn'[s].waits = w
  BY <1>2, <1>6, <1>7, <1>8, WaitsMove
<1> QED
  BY <1>2, <1>4, <1>9, RecordsInv DEF w

\* A delta is new: its number was not said in this request.
LEMMA TextDeltaInv == ASSUME IInv, NEW s \in Streams, TextDelta(s) PROVE IInv'
<1>a. PICK a \in Agents : a = Of(s)
  BY DEF IInv, TypeOK, Of
<1>n. PICK n \in 1..MaxDeltas : n = turn[s].said + 1
  BY DeltasAssumption DEF TextDelta, IInv, TypeOK
<1>d. PICK d0 \in Delta : d0 = <<s, turn[s].attempt, n>>
  BY <1>n DEF Delta, IInv, TypeOK
<1> DEFINE r == RecordDelta(Recorder(a), d0)
<1>1. /\ At(s, "stream") /\ ~turn[s].told /\ built' = built /\ TypeOK
      /\ Becomes(a, s, r) /\ turn' = [turn EXCEPT ![s].said = n]
  BY <1>a, <1>n, <1>d DEF TextDelta, IInv
<1>2. /\ r \in RecorderState /\ r.seen = seen[a] /\ r.text = Append(buffer[a], d0) /\ r.new = <<>>
      /\ r.old = {} /\ buffer[a] \in Seq(Delta)
  <2> DEFINE q == Recorder(a)
  <2>1. /\ q \in RecorderState /\ q.seen = seen[a] /\ q.text = buffer[a] /\ q.new = <<>>
        /\ q.old = {} /\ buffer[a] \in Seq(Delta)
    BY <1>1, RecorderSound DEF Recorder, TypeOK, RecordingTypeOK, Sound, NewTurns
  <2>2. r = [q EXCEPT !.text = Append(@, d0)]
    BY DEF RecordDelta
  <2> HIDE DEF q, r
  <2>3. Append(q.text, d0) \in Seq(Delta)
    BY <2>1
  <2> QED
    BY <2>1, <2>2, <2>3 DEF RecorderState
<1> HIDE DEF r
<1>3. NewTurns(a, r) /\ Len(r.new) = 0 /\ DOMAIN r.new = {}
  BY <1>2 DEF NewTurns
<1>4. /\ RecordingTypeOK' /\ buffer'[a] = Append(buffer[a], d0)
      /\ \A b \in Agents : b # a => buffer'[b] = buffer[b]
      /\ DOMAIN tasks' = DOMAIN tasks /\ repeats' = repeats
      /\ \A i \in DOMAIN tasks : tasks'[i] = tasks[i]
  BY <1>1, <1>2, <1>3, TasksGrow
<1>5. n \in 0..MaxDeltas /\ Stays
  BY <1>4, DeltasAssumption DEF Stays
<1>6. /\ Moved(s) /\ turn'[s].said = n /\ turn'[s].attempt = turn[s].attempt
      /\ turn'[s].told = turn[s].told /\ turn'[s].place = turn[s].place
  BY <1>1, <1>5, SaidMoves
<1>7. TypeOK'
  BY <1>1, <1>4, <1>6 DEF TypeOK, Moved, TurnSet
<1>8. KeysInv' /\ RecordedOnce'
  BY <1>1, <1>3, KeysKept DEF IInv
<1>9. PendInv'
  BY <1>1, <1>3, <1>6, <1>a, RecordsPushes DEF At
<1>10. RetryInv'
  BY <1>6 DEF IInv, RetryInv, At, Moved
<1>11. DeltaInv'
  <2>1. \A d : /\ \A i \in DOMAIN tasks : InTurn(d, i)' <=> InTurn(d, i)
               /\ InRepeat(d)' <=> InRepeat(d)
               /\ \A b \in Agents : b # a => (InBuffer(d, b)' <=> InBuffer(d, b))
    BY <1>4 DEF InTurn, InRepeat, InBuffer
  <2>2. \A d : InBuffer(d, a)' <=> InBuffer(d, a) \/ d = d0
    <3>1. /\ DOMAIN buffer'[a] = DOMAIN buffer[a] \union {Len(buffer[a]) + 1}
          /\ Len(buffer[a]) + 1 \notin DOMAIN buffer[a]
          /\ \A k \in DOMAIN buffer[a] : buffer'[a][k] = buffer[a][k]
          /\ buffer'[a][Len(buffer[a]) + 1] = d0
      BY <1>2, <1>4
    <3> QED
      BY <3>1 DEF InBuffer
  <2>3. turn[s].attempt \in Nat /\ turn[s].said \in Nat /\ Attempts \subseteq Nat
    BY <1>1, RetriesAssumption, DeltasAssumption DEF TypeOK
  <2>4. \A d \in Delta : Used(d) => Used(d)'
    BY <1>n, <1>6, <2>3, DeltaParts, DeltasAssumption DEF Used, Moved
  <2>5. Used(d0)' /\ ~Used(d0) /\ d0[1] = s
    BY <1>n, <1>d, <1>6, <2>3 DEF Used
  <2>6. \A u \in Streams : Of(u)' = Of(u)
    BY <1>6 DEF Moved, Of
  <2>7. \A u \in Streams : \A d \in Said(u)' : d \in Said(u) \/ (u = s /\ d = d0)
    BY <1>n, <1>d, <1>6, <2>3 DEF Said, Moved
  <2>8. \A d \in Delta : d[1] \in Streams
    BY DeltaParts
  <2>9. \A u \in Streams : \A d \in Said(u) : d \in Delta /\ d[1] = u
    BY <1>1, SaidDelta
  <2>10. \A u \in Streams : Of(u) \in Agents /\ (turn'[u].told => turn[u].told /\ u # s)
    BY <1>1, <1>6 DEF TypeOK, Of, Moved
  <2> HIDE DEF Said
  <2> USE DEF IInv, DeltaInv
  <2>11. ~InRepeat(d0) /\ \A i \in DOMAIN tasks : ~InTurn(d0, i)
    BY <2>5
  <2>12. ASSUME NEW d \in Delta, NEW i \in DOMAIN tasks', InTurn(d, i)'
         PROVE  Used(d)' /\ \A j \in DOMAIN tasks' : InTurn(d, j)' => i = j
    BY <1>4, <2>1, <2>4, <2>12
  <2>15. ASSUME NEW d \in Delta, InRepeat(d)'
         PROVE  Used(d)' /\ \A i \in DOMAIN tasks' : ~InTurn(d, i)'
    BY <1>4, <2>1, <2>4, <2>15
  <2>13. ASSUME NEW d \in Delta, NEW b \in Agents, InBuffer(d, b)'
         PROVE  /\ Used(d)' /\ Of(d[1])' = b /\ ~InRepeat(d)'
                /\ \A i \in DOMAIN tasks' : ~InTurn(d, i)'
    <3>1. CASE InBuffer(d, b)
      BY <1>4, <2>1, <2>4, <2>6, <2>8, <3>1
    <3>2. CASE b = a /\ d = d0
      BY <1>a, <1>4, <2>1, <2>5, <2>6, <2>11, <3>2
    <3> QED
      BY <2>1, <2>2, <2>13, <3>1, <3>2
  <2>14. ASSUME NEW u \in Streams, NEW d \in Said(u)'
         PROVE  /\ InBuffer(d, Of(u))' \/ InRepeat(d)' \/ \E i \in DOMAIN tasks' : InTurn(d, i)'
                /\ turn'[u].told => ~InBuffer(d, Of(u))'
    <3>1. InBuffer(d, Of(u))' <=> \E k \in DOMAIN buffer'[Of(u)] : buffer'[Of(u)][k] = d
      BY <2>6 DEF InBuffer
    <3>2. InBuffer(d, Of(u))' <=> InBuffer(d, Of(u)) \/ (Of(u) = a /\ d = d0)
      <4>1. CASE Of(u) = a
        BY <2>2, <3>1, <4>1 DEF InBuffer
      <4>2. CASE Of(u) # a
        BY <1>4, <2>10, <3>1, <4>2 DEF InBuffer
      <4> QED
        BY <4>1, <4>2
    <3>3. CASE u = s /\ d = d0
      BY <1>a, <2>10, <3>2, <3>3
    <3>4. CASE d \in Said(u)
      <4>1. InBuffer(d, Of(u))' \/ InRepeat(d)' \/ \E i \in DOMAIN tasks' : InTurn(d, i)'
        BY <1>4, <2>1, <3>2, <3>4
      <4>2. turn'[u].told => d # d0 /\ turn[u].told
        BY <2>5, <2>9, <2>10, <3>4
      <4> QED
        BY <3>2, <3>4, <4>1, <4>2
    <3> QED
      BY <2>7, <2>14, <3>3, <3>4
  <2> QED
    BY <2>12, <2>13, <2>14, <2>15
<1> QED
  BY <1>7, <1>8, <1>9, <1>10, <1>11 DEF IInv

-----------------------------------------------------------------------------
LEMMA InitInv == Init => IInv
<1> SUFFICES ASSUME Init PROVE IInv
  OBVIOUS
<1>1. PICK plan \in Plans :
        turn = [s \in Streams |->
          [agent |-> plan[s], texts |-> <<>>, place |-> "idle", attempt |-> 1,
           said |-> 0, told |-> FALSE, waits |-> {}]]
  BY DEF Init
<1>2. \A s \in Streams : plan[s] \in Agents
  BY PlansAssumption
<1>3. 1 \in Attempts /\ 0 \in 0..MaxDeltas /\ <<>> \in Seq(Texts)
  BY RetriesAssumption, DeltasAssumption
<1>4. /\ seen = [a \in Agents |-> {}] /\ buffer = [a \in Agents |-> <<>>] /\ tasks = <<>>
      /\ repeats = {} /\ built = {}
  BY DEF Init, RecordingInit
<1>5. TypeOK
  BY <1>1, <1>2, <1>3, <1>4 DEF TypeOK, RecordingTypeOK, Places
<1>6. KeysInv /\ RecordedOnce /\ PendInv
  BY <1>4 DEF KeysInv, RecordedOnce, PendInv
<1>7. DeltaInv
  BY <1>1, <1>4 DEF DeltaInv, InTurn, InRepeat, InBuffer, Said
<1>8. RetryInv
  BY <1>1 DEF RetryInv, At
<1> QED
  BY <1>5, <1>6, <1>7, <1>8 DEF IInv

LEMMA StepInv == IInv /\ [Next]_vars => IInv'
<1> SUFFICES ASSUME IInv, [Next]_vars PROVE IInv'
  OBVIOUS
<1>1. CASE UNCHANGED vars
  BY <1>1 DEF vars, recording, IInv, TypeOK, RecordingTypeOK, KeysInv, RecordedOnce, PendInv,
              DeltaInv, RetryInv, Of, At, Used, InTurn, InRepeat, InBuffer, Said, LoggedKeys
<1>2. ASSUME NEW s \in Streams, Step(s) PROVE IInv'
  BY <1>2, DiscoveredInv, GoesInv, TextDeltaInv, FinishInv, EndOfStreamInv, FailInv, BackoffInv,
     FlushDoneInv DEF Step
<1> QED
  BY <1>1, <1>2, ConstructInv, CallInv, CancelInv, GoesInv, PushInv DEF Next

LEMMA Invariant == Spec => []IInv
BY InitInv, StepInv, PTL DEF Spec

\* Every reachable state is well typed: no request is counted beyond the last
\* retry, and a flush waits for pushes that were made.
THEOREM TypeCorrect == Spec => []TypeOK
<1>1. IInv => TypeOK
  BY DEF IInv
<1> QED
  BY <1>1, Invariant, PTL

\* One recorder pushes no turn twice, for any replay and any overlap of calls.
THEOREM PushedOnce == Spec => []RecordedOnce
<1>1. IInv => RecordedOnce
  BY DEF IInv
<1> QED
  BY <1>1, Invariant, PTL

\* Every delta of the current request is in exactly one place: a turn, the
\* buffer, or an answer that was dropped; in the buffer no more when the end was
\* reported; and an answer is dropped only if a turn of the window begins alike.
THEOREM NoDeltaLost == Spec => []DeltasKept
<1>1. IInv => DeltasKept
  <2> SUFFICES ASSUME IInv PROVE DeltasKept
    OBVIOUS
  <2>1. ASSUME NEW s \in Streams, NEW d \in Said(s)
        PROVE  /\ \A i, j \in DOMAIN tasks : InTurn(d, i) /\ InTurn(d, j) => i = j
               /\ InRepeat(d) => \A i \in DOMAIN tasks : ~InTurn(d, i)
               /\ InBuffer(d, Of(s)) <=>
                    ~InRepeat(d) /\ \A i \in DOMAIN tasks : ~InTurn(d, i)
               /\ turn[s].told => ~InBuffer(d, Of(s))
    <3>1. d \in Delta /\ Of(s) \in Agents
      BY <2>1, SaidDelta DEF IInv, TypeOK, Of
    <3> QED
      BY <2>1, <3>1 DEF IInv, DeltaInv
  <2>2. \A old \in repeats : DedupeKey(old) \in LoggedKeys
    BY DEF IInv, KeysInv
  <2> QED
    BY <2>1, <2>2 DEF DeltasKept
<1> QED
  BY <1>1, Invariant, PTL

\* A call that is over has left no push of its own under way.
THEOREM NoPushLeft == Spec => []FlushCompletes
<1>1. IInv => FlushCompletes
  <2> SUFFICES ASSUME IInv, NEW s \in Streams, At(s, "done"), NEW i \in DOMAIN tasks,
                      tasks[i].by = s
               PROVE  tasks[i].stage = "over"
    BY DEF FlushCompletes
  <2>1. tasks[i] \in Task
    BY DEF IInv, TypeOK, RecordingTypeOK
  <2>2. tasks[i].stage # "pushing"
    BY DEF IInv, PendInv, At
  <2> QED
    BY <2>1, <2>2 DEF Task, Stages
<1> QED
  BY <1>1, Invariant, PTL
-----------------------------------------------------------------------------
(***************************************************************************)
(* The order of an answer.                                                 *)
(***************************************************************************)
\* What the same request streamed before the delta.
Earlier(d) == {<<d[1], d[2], n>> : n \in 1..(d[3] - 1)}

\* Where a delta is in the text, those before it are further up in the text, in
\* a turn of the log, or in an answer that was dropped as seen before.
InOrder(text, log) ==
  \A k \in DOMAIN text : \A d \in Earlier(text[k]) :
    \/ \E l \in 1..(k - 1) : text[l] = d
    \/ \E i \in log : InTurn(d, i)
    \/ InRepeat(d)

\* No turn has a part of an answer whose beginning is in a later turn, further
\* down, or still in the buffer, whatever else its agent streams.  A part that
\* begins like a turn of the window may have been dropped.
AnswersInOrder ==
  /\ \A i \in DOMAIN tasks :
       tasks[i].turn.role = "assistant" => InOrder(tasks[i].turn.text, 1..(i - 1))
  /\ \A a \in Agents : InOrder(buffer[a], DOMAIN tasks)

\* The turns, the buffers and what was dropped stay as they are.
TurnsStay ==
  /\ buffer' = buffer /\ repeats' = repeats /\ DOMAIN tasks' = DOMAIN tasks
  /\ \A i \in DOMAIN tasks : tasks'[i].turn = tasks[i].turn

LEMMA StayOrder == ASSUME TypeOK, AnswersInOrder, TurnsStay PROVE AnswersInOrder'
<1>1. \A d : /\ \A i \in DOMAIN tasks : InTurn(d, i)' <=> InTurn(d, i)
             /\ InRepeat(d)' <=> InRepeat(d)
  BY DEF TurnsStay, InTurn, InRepeat
<1>2. \A i \in DOMAIN tasks : 1..(i - 1) \subseteq DOMAIN tasks
  BY DEF TypeOK, RecordingTypeOK
<1>3. ASSUME NEW i \in DOMAIN tasks', tasks'[i].turn.role = "assistant"
      PROVE  InOrder(tasks[i].turn.text, 1..(i - 1))'
  <2>1. i \in DOMAIN tasks /\ tasks'[i].turn = tasks[i].turn
    BY <1>3 DEF TurnsStay
  <2>2. InOrder(tasks[i].turn.text, 1..(i - 1))
    BY <1>3, <2>1 DEF AnswersInOrder
  <2> QED
    BY <1>1, <1>2, <2>1, <2>2 DEF InOrder
<1>4. ASSUME NEW a \in Agents PROVE InOrder(buffer[a], DOMAIN tasks)'
  BY <1>1 DEF AnswersInOrder, InOrder, TurnsStay
<1> QED
  BY <1>3, <1>4 DEF AnswersInOrder

\* A call that records makes a turn of the whole buffer, or drops it, or leaves it.
LEMMA RecordsOrder ==
  ASSUME TypeOK, AnswersInOrder, NEW s \in Streams, NEW a \in Agents, NEW r, Sound(a, r),
         Becomes(a, s, r)
  PROVE  AnswersInOrder'
<1>n. PICK n \in Nat : n = Len(tasks)
  <2>1. tasks \in Seq(Task)
    BY DEF TypeOK, RecordingTypeOK
  <2>2. Len(tasks) \in Nat
    BY <2>1
  <2> QED
    BY <2>2
<1>1. r \in RecorderState /\ NewTurns(a, r) /\ DOMAIN tasks = 1..n
  BY <1>n DEF Sound, NewTurns, TypeOK, RecordingTypeOK
<1>2. /\ buffer'[a] = r.text /\ repeats' = repeats \union r.old
      /\ \A b \in Agents : b # a => buffer'[b] = buffer[b]
      /\ \A i \in DOMAIN tasks : i \in DOMAIN tasks' /\ tasks'[i] = tasks[i]
      /\ \A j \in DOMAIN r.new : /\ n + j \in DOMAIN tasks' \ DOMAIN tasks
                                 /\ tasks'[n + j] = NewTask(a, s, r.new[j])
      /\ \A i \in DOMAIN tasks' : i \in DOMAIN tasks \/ i - n \in DOMAIN r.new
      /\ tasks' \in Seq(Task)
  BY <1>n, <1>1, TasksGrow DEF RecordingTypeOK
<1>3. \A d : /\ \A i \in DOMAIN tasks : InTurn(d, i)' <=> InTurn(d, i)
             /\ InRepeat(d) => InRepeat(d)'
  BY <1>2 DEF InTurn, InRepeat
<1>4. \A i \in DOMAIN tasks : 1..(i - 1) \subseteq DOMAIN tasks
  BY <1>1
<1>5. ASSUME NEW i \in DOMAIN tasks', tasks'[i].turn.role = "assistant"
      PROVE  InOrder(tasks[i].turn.text, 1..(i - 1))'
  <2>1. CASE i \in DOMAIN tasks
    <3>1. InOrder(tasks[i].turn.text, 1..(i - 1)) /\ tasks'[i] = tasks[i]
      BY <1>2, <1>5, <2>1 DEF AnswersInOrder
    <3> QED
      BY <1>3, <1>4, <2>1, <3>1 DEF InOrder
  <2>2. CASE i \notin DOMAIN tasks
    <3>1. i - n \in DOMAIN r.new /\ i \in Nat /\ n + (i - n) = i
      BY <1>2, <2>2
    <3>2. tasks'[i].turn = r.new[i - n]
      <4>1. tasks'[i] = NewTask(a, s, r.new[i - n])
        BY <1>2, <3>1
      <4> QED
        BY <4>1 DEF NewTask
    <3>3. Flushed(a, r) /\ i = n + 1 /\ tasks'[i].turn.text = buffer[a]
      BY <1>5, <3>1, <3>2 DEF Sound, Kept, Flushed, Repeated
    <3>4. InOrder(buffer[a], DOMAIN tasks)
      BY DEF AnswersInOrder
    <3>5. 1..(i - 1) = DOMAIN tasks
      BY <1>1, <3>3
    <3> QED
      BY <1>3, <3>3, <3>4, <3>5 DEF InOrder
  <2> QED
    BY <2>1, <2>2
<1>6. ASSUME NEW b \in Agents PROVE InOrder(buffer[b], DOMAIN tasks)'
  <2>1. buffer'[b] = buffer[b] \/ buffer'[b] = <<>>
    BY <1>2 DEF Sound, Kept, Flushed, Repeated
  <2>2. CASE buffer'[b] = <<>>
    BY <2>2 DEF InOrder
  <2>3. CASE buffer'[b] = buffer[b]
    <3>1. InOrder(buffer[b], DOMAIN tasks) /\ \A i \in DOMAIN tasks : i \in DOMAIN tasks'
      BY <1>2 DEF AnswersInOrder
    <3> QED
      BY <1>3, <2>3, <3>1 DEF InOrder
  <2> QED
    BY <2>1, <2>2, <2>3
<1> QED
  BY <1>5, <1>6 DEF AnswersInOrder

\* A delta goes behind all that its request streamed, which is in the buffer, in
\* a turn or dropped.
LEMMA DeltaOrder ==
  ASSUME IInv, AnswersInOrder, NEW s \in Streams, TextDelta(s)
  PROVE  AnswersInOrder'
<1>a. PICK a \in Agents : a = Of(s)
  BY DEF IInv, TypeOK, Of
<1>n. PICK n \in 1..MaxDeltas : n = turn[s].said + 1
  BY DeltasAssumption DEF TextDelta, IInv, TypeOK
<1>d. PICK d0 \in Delta : d0 = <<s, turn[s].attempt, n>>
  BY <1>n DEF Delta, IInv, TypeOK
<1>1. /\ Becomes(a, s, RecordDelta(Recorder(a), d0)) /\ TypeOK
      /\ buffer[a] \in Seq(Delta) /\ tasks \in Seq(Task)
  BY <1>a, <1>n, <1>d DEF TextDelta, IInv, TypeOK, RecordingTypeOK
<1>2. /\ buffer' = [buffer EXCEPT ![a] = Append(buffer[a], d0)]
      /\ tasks' = tasks /\ repeats' = repeats
  BY <1>1 DEF Becomes, RecordDelta, Recorder
<1>3. \A d : (\A i : InTurn(d, i)' <=> InTurn(d, i)) /\ (InRepeat(d)' <=> InRepeat(d))
  BY <1>2 DEF InTurn, InRepeat
<1>4. \A e \in Earlier(d0) : InBuffer(e, a) \/ InRepeat(e) \/ \E i \in DOMAIN tasks : InTurn(e, i)
  <2>1. n \in Nat /\ turn[s].said = n - 1
    BY <1>n, <1>1, DeltasAssumption DEF TypeOK
  <2>2. Earlier(d0) = Said(s)
    BY <1>d, <2>1 DEF Earlier, Said
  <2> QED
    BY <1>a, <2>2 DEF IInv, DeltaInv
<1>5. ASSUME NEW b \in Agents, NEW k \in DOMAIN buffer'[b], NEW e \in Earlier(buffer'[b][k])
      PROVE  \/ \E l \in 1..(k - 1) : buffer'[b][l] = e
             \/ \E i \in DOMAIN tasks : InTurn(e, i)
             \/ InRepeat(e)
  <2>1. InOrder(buffer[b], DOMAIN tasks)
    BY DEF AnswersInOrder
  <2>2. CASE b # a
    <3>1. buffer'[b] = buffer[b]
      BY <1>1, <1>2, <2>2 DEF TypeOK, RecordingTypeOK
    <3> QED
      BY <1>5, <2>1, <3>1 DEF InOrder
  <2>3. CASE b = a
    <3>1. PICK m \in Nat : m = Len(buffer[a])
      BY <1>1
    <3>2. /\ DOMAIN buffer[a] = 1..m /\ DOMAIN buffer'[a] = 1..(m + 1)
          /\ \A l \in 1..m : buffer'[a][l] = buffer[a][l]
          /\ buffer'[a][m + 1] = d0
      <4>1. buffer'[a] = Append(buffer[a], d0)
        BY <1>1, <1>2 DEF TypeOK, RecordingTypeOK
      <4> QED
        BY <1>1, <3>1, <4>1
    <3>3. CASE k = m + 1
      <4>1. e \in Earlier(d0)
        BY <1>5, <2>3, <3>2, <3>3
      <4>2. InBuffer(e, a) => \E l \in 1..m : buffer[a][l] = e
        BY <3>2 DEF InBuffer
      <4> QED
        BY <1>4, <2>3, <3>1, <3>2, <3>3, <4>1, <4>2
    <3>4. CASE k \in 1..m
      <4>1. e \in Earlier(buffer[a][k])
        BY <1>5, <2>3, <3>2, <3>4
      <4>2. \/ \E l \in 1..(k - 1) : buffer[a][l] = e
            \/ \E i \in DOMAIN tasks : InTurn(e, i)
            \/ InRepeat(e)
        BY <2>1, <2>3, <3>2, <3>4, <4>1 DEF InOrder
      <4>3. 1..(k - 1) \subseteq 1..m
        BY <3>1, <3>4
      <4> QED
        BY <2>3, <3>2, <4>2, <4>3
    <3> QED
      BY <2>3, <3>1, <3>2, <3>3, <3>4
  <2> QED
    BY <2>2, <2>3
<1>6. \A b \in Agents : InOrder(buffer[b], DOMAIN tasks)'
  BY <1>2, <1>3, <1>5 DEF InOrder
<1>7. ASSUME NEW i \in DOMAIN tasks, tasks[i].turn.role = "assistant"
      PROVE  InOrder(tasks[i].turn.text, 1..(i - 1))'
  <2>1. InOrder(tasks[i].turn.text, 1..(i - 1))
    BY <1>7 DEF AnswersInOrder
  <2> QED
    BY <1>2, <1>3, <2>1 DEF InOrder
<1> QED
  BY <1>2, <1>6, <1>7 DEF AnswersInOrder

\* What a step does to the turns: nothing, or it records, or it is a delta.
LEMMA StepRecords ==
  ASSUME IInv, [Next]_vars
  PROVE  \/ TurnsStay
         \/ \E s \in Streams, a \in Agents : \E r : Sound(a, r) /\ Becomes(a, s, r)
         \/ \E s \in Streams : TextDelta(s)
<1> DEFINE Records == \E s \in Streams, a \in Agents : \E r : Sound(a, r) /\ Becomes(a, s, r)
<1>1. TypeOK /\ tasks \in Seq(Task) /\ \A s \in Streams : Of(s) \in Agents
  BY DEF IInv, TypeOK, RecordingTypeOK, Of
<1>2. UNCHANGED recording => TurnsStay
  BY DEF recording, TurnsStay
<1>3. ASSUME NEW s \in Streams, NEW texts \in Seq(Texts), RecordAndOpen(s, texts)
      PROVE  Records
  <2>1. Sound(Of(s), RecordUsers(Recorder(Of(s)), texts))
    BY <1>1, RecordUsersSound DEF IInv
  <2> QED
    BY <1>1, <1>3, <2>1 DEF RecordAndOpen
<1>4. ASSUME NEW s \in Streams, Call(s) \/ Discovered(s) PROVE Records \/ TurnsStay
  <2>1. CASE Call(s)
    <3>1. PICK messages \in Inputs : UNCHANGED recording \/ RecordAndOpen(s, UserContents(messages))
      BY <2>1 DEF Call
    <3>2. UserContents(messages) \in Seq(Texts)
      BY InputsAssumption, ContentsType
    <3> QED
      BY <1>2, <1>3, <3>1, <3>2
  <2>2. CASE Discovered(s)
    <3>1. RecordAndOpen(s, turn[s].texts) /\ turn[s].texts \in Seq(Texts)
      BY <1>1, <2>2 DEF Discovered, TypeOK
    <3> QED
      BY <1>3, <3>1
  <2> QED
    BY <1>4, <2>1, <2>2
<1>5. ASSUME NEW s \in Streams, Finish(s) \/ EndOfStream(s) PROVE Records
  <2>1. /\ Sound(Of(s), Recorder(Of(s)))
        /\ Sound(Of(s), FlushAssistant(Recorder(Of(s))))
    BY <1>1, RecorderSound, FlushSound DEF IInv
  <2>2. \/ Becomes(Of(s), s, Recorder(Of(s)))
        \/ Becomes(Of(s), s, FlushAssistant(Recorder(Of(s))))
    BY <1>5 DEF Finish, EndOfStream
  <2> QED
    BY <1>1, <2>1, <2>2
<1>6. ASSUME NEW s \in Streams, Opened(s) \/ (\E e \in Errors : Fail(s, e)) \/ Backoff(s)
                                \/ FlushDone(s) \/ Abandon(s)
      PROVE  TurnsStay
  BY <1>2, <1>6 DEF Opened, Fail, Backoff, FlushDone, Abandon
<1>7. ASSUME NEW s \in Streams, Cancel(s) PROVE TurnsStay
  <2>1. ASSUME CancelPushes(turn[s].waits) PROVE TurnsStay
    <3>1. \A i \in DOMAIN tasks : [tasks[i] EXCEPT !.stage = "over"].turn = tasks[i].turn
      <4>1. \A i \in DOMAIN tasks : tasks[i] \in Task
        BY <1>1
      <4> QED
        BY <4>1 DEF Task
    <3> QED
      BY <2>1, <3>1 DEF CancelPushes, TurnsStay
  <2> QED
    BY <1>2, <1>7, <2>1 DEF Cancel
<1>8. ASSUME Push PROVE TurnsStay
  <2>1. PICK i \in DOMAIN tasks : EndPush(i)
    BY <1>8 DEF Push, EndPush
  <2>2. tasks[i] \in Task
    BY <1>1
  <2>3. [tasks[i] EXCEPT !.stage = "over"].turn = tasks[i].turn
    BY <2>2 DEF Task
  <2> QED
    BY <1>1, <2>1, <2>3 DEF EndPush, TurnsStay
<1>9. ASSUME NEW a \in Agents, Construct(a) PROVE TurnsStay
  BY <1>9 DEF Construct, Seed, TurnsStay
<1>10. UNCHANGED vars => TurnsStay
  BY <1>2 DEF vars
<1> HIDE DEF Records
<1>11. \/ TurnsStay \/ Records \/ \E s \in Streams : TextDelta(s)
  BY <1>4, <1>5, <1>6, <1>7, <1>8, <1>9, <1>10 DEF Next, Step
<1> QED
  BY <1>11 DEF Records

\* What the window is given of an answer is in the order in which it was
\* streamed, although the calls of an agent share one buffer, a retry begins
\* again, a new call may cut the answer into several turns, and a part that
\* begins like a turn of the window is dropped.
THEOREM OrderIsKept == Spec => []AnswersInOrder
<1>1. Init => AnswersInOrder
  BY DEF Init, RecordingInit, AnswersInOrder, InOrder
<1>2. IInv /\ AnswersInOrder /\ [Next]_vars => AnswersInOrder'
  <2> SUFFICES ASSUME IInv, AnswersInOrder, [Next]_vars PROVE AnswersInOrder'
    OBVIOUS
  <2>1. TypeOK
    BY DEF IInv
  <2> QED
    BY <2>1, StayOrder, RecordsOrder, DeltaOrder, StepRecords
<1> QED
  BY <1>1, <1>2, Invariant, PTL DEF Spec
=============================================================================
