---------------------------- MODULE SessionsProofs ----------------------------
(***************************************************************************)
(* Proofs about Sessions, for any users, browsers, processes and workers   *)
(* and any number of requests and restarts.                                *)
(***************************************************************************)
EXTENDS Sessions, SequenceTheorems, FiniteSetTheorems, WellFoundedInduction, TLAPS

JobsOK == pc \in [Worker -> Step] /\ DOMAIN job = Worker /\ \A w \in Worker : JobOK(w)

(* The requests keep the types of their local variables in a step of one   *)
(* of them, which may note something in the others.                        *)
LEMMA JobsKept ==
    ASSUME JobsOK, NEW w \in Worker, NEW s \in Step, Goto(w, s), DOMAIN job' = Worker,
           keys' = keys,
           \/ s = "idle" /\ job'[w] = NoJob
           \/ /\ s # "idle" /\ job'[w] \in Job /\ job'[w].key \in 1 .. keys
              /\ s \in LoginSteps => job'[w].name \in User
              /\ s = "insert" => job'[w].user \in Someone,
           \A v \in Worker \ {w} :
              \/ job'[v] = job[v]
              \/ /\ pc[v] # "idle" /\ job'[v] \in Job /\ job'[v].key = job[v].key
                 /\ job'[v].name = job[v].name /\ job'[v].user = job[v].user
    PROVE  JobsOK'
<1>1. pc' = [pc EXCEPT ![w] = s] /\ pc \in [Worker -> Step]
  BY DEF Goto, JobsOK
<1>2. JobOK(w)'
  BY <1>1 DEF JobOK
<1>3. ASSUME NEW v \in Worker \ {w} PROVE JobOK(v)'
  <2>1. pc'[v] = pc[v] /\ JobOK(v)
    BY <1>1 DEF JobsOK
  <2> QED
    BY <2>1 DEF JobOK
<1> QED
  BY <1>1, <1>2, <1>3 DEF JobsOK

(* A step of a request that has begun: it ends, or goes on with the local  *)
(* variables it has or with others of their type.                          *)
LEMMA JobGoesOn ==
    ASSUME JobsOK, NEW w \in Worker, pc[w] # "idle", keys' = keys,
           \/ Respond(w)
           \/ \E s \in Step \ {"idle", "insert"} :
                 /\ s \in LoginSteps => pc[w] \in LoginSteps
                 /\ Goto(w, s) /\ DOMAIN job' = Worker
                 /\ job'[w] \in Job /\ job'[w].key = job[w].key /\ job'[w].name = job[w].name
                 /\ \A v \in Worker \ {w} : job'[v] = job[v]
    PROVE  JobsOK'
<1>1. /\ job[w] \in Job /\ job[w].key \in 1 .. keys /\ DOMAIN job = Worker
      /\ pc[w] \in LoginSteps => job[w].name \in User
  BY DEF JobsOK, JobOK
<1>2. CASE Respond(w)
  <2>1. Goto(w, "idle") /\ "idle" \in Step /\ job' = [job EXCEPT ![w] = NoJob]
    BY <1>2 DEF Respond, Goto, Step
  <2> QED
    BY <1>1, <2>1, JobsKept
<1>3. CASE \E s \in Step \ {"idle", "insert"} :
              /\ s \in LoginSteps => pc[w] \in LoginSteps
              /\ Goto(w, s) /\ DOMAIN job' = Worker
              /\ job'[w] \in Job /\ job'[w].key = job[w].key /\ job'[w].name = job[w].name
              /\ \A v \in Worker \ {w} : job'[v] = job[v]
  BY <1>1, <1>3, JobsKept
<1> QED
  BY <1>2, <1>3

(* In particular one that leaves its local variables alone. *)
LEMMA JobMoves ==
    ASSUME JobsOK, NEW w \in Worker, pc[w] # "idle", keys' = keys,
           \E s \in Step \ {"idle", "insert"} :
              (s \in LoginSteps => pc[w] \in LoginSteps) /\ Goto(w, s),
           job' = job
    PROVE  JobsOK'
<1>1. job[w] \in Job /\ DOMAIN job = Worker
  BY DEF JobsOK, JobOK
<1> QED
  BY <1>1, JobGoesOn

(* Every variable keeps its type, and the local variables of a request are *)
(* those of the step it has reached.                                       *)
THEOREM TypeCorrect == Spec => []TypeOK
<1> USE SessionsAssumption
<1>1. Init => TypeOK
  <2> SUFFICES ASSUME Init PROVE TypeOK
    OBVIOUS
  <2>1. keys \in Nat
    BY FS_CardinalityType DEF Init
  <2>2. \A w \in Worker : JobOK(w)
    BY DEF Init, JobOK
  <2>3. pc \in [Worker -> Step] /\ DOMAIN job = Worker
    BY DEF Init, Step
  <2>4. cookie \in [Browser -> Session]
    BY DEF Init, NoOne, Session
  <2>5. failures \in [Browser -> [0 .. MaxClock -> Nat]]
    BY DEF Init
  <2>6. alerts \in [Browser -> Seq([time: Nat, solo: BOOLEAN])]
    BY DEF Init
  <2>7. cases \in Seq([creator: Someone, key: Nat])
    BY DEF Init
  <2>8. kinds \subseteq Kind /\ faults \subseteq FaultKind
    BY DEF Init
  <2>9. /\ clock \in 0 .. MaxClock /\ requests \in Nat
        /\ proc \in [Process -> [key: 1 .. keys, demo: BOOLEAN]]
        /\ hash \in [User -> {"sha256", "bcrypt"}]
        /\ recorded \subseteq User
        /\ logins \subseteq Someone \X (1 .. keys)
        /\ left \in [Browser -> {"no", "out", "undone"}]
    BY DEF Init
  <2> QED
    BY <2>1, <2>2, <2>3, <2>4, <2>5, <2>6, <2>7, <2>8, <2>9 DEF TypeOK
<1>2. ASSUME TypeOK, [Next]_vars PROVE TypeOK'
  <2> USE <1>2 DEF mongo, sql, history, MayFail
  <2> USE DEF Step, AlertSteps, AnswerSteps, LoginSteps
  <2>1. /\ JobsOK /\ pc \in [Worker -> Step] /\ DOMAIN job = Worker
        /\ \A w \in Worker : JobOK(w)
    BY DEF TypeOK, JobsOK
  <2>2. ASSUME NEW w \in Worker, NEW b \in Browser, NEW p \in Process, NEW kind \in Kind,
               NEW name \in User \cup {None}, Begin(w, b, p, kind, name)
        PROVE  TypeOK'
    <3>1. SessionOf(b, p) \in Someone \cup {None} /\ proc[p].key \in 1 .. keys /\ keys \in Nat
      BY DEF TypeOK, SessionOf, Session
    <3>2. PICK user \in Someone \cup {None} :
             /\ Goto(w, FirstStep(p, kind, user))
             /\ job' = [job EXCEPT ![w] = [browser |-> b, key |-> proc[p].key, user |-> user,
                                           kind |-> kind, name |-> name, case |-> 0,
                                           cutoff |-> 0, solo |-> TRUE, late |-> FALSE]]
      BY <2>2, <3>1 DEF Begin, Someone
    <3>3. /\ FirstStep(p, kind, user) \in Step \ {"idle"}
          /\ FirstStep(p, kind, user) \in LoginSteps => name \in User
          /\ FirstStep(p, kind, user) = "insert" => user \in Someone
      BY <2>2 DEF Begin, FirstStep, Kind, MayAdd, Someone
    <3>4. job'[w] \in Job /\ job'[w].key = proc[p].key /\ job'[w].name = name /\ job'[w].user = user
      BY <2>1, <3>1, <3>2 DEF Job
    <3>5. DOMAIN job' = Worker /\ \A v \in Worker \ {w} : job'[v] = job[v]
      BY <2>1, <3>2
    <3>6. JobsOK'
      BY <2>1, <2>2, <3>1, <3>2, <3>3, <3>4, <3>5, JobsKept DEF Begin
    <3>7. logins' \subseteq Someone \X (1 .. keys)
      BY <2>2, <3>1 DEF Begin, TypeOK, Someone
    <3>8. requests' \in Nat
      BY <2>2 DEF Begin, TypeOK
    <3> QED
      BY <2>2, <3>6, <3>7, <3>8 DEF Begin, TypeOK, JobsOK
  <2>3. ASSUME NEW w \in Worker, CheckPassword(w) PROVE TypeOK'
    <3>1. JobsOK'
      BY <2>1, <2>3, JobMoves DEF CheckPassword
    <3> QED
      BY <2>3, <3>1 DEF CheckPassword, TypeOK, JobsOK
  <2>4. ASSUME NEW w \in Worker, Upgrade(w) PROVE TypeOK'
    <3>1. JobsOK'
      BY <2>1, <2>4, JobMoves DEF Upgrade
    <3>2. hash' \in [User -> {"sha256", "bcrypt"}]
      BY <2>4 DEF Upgrade, TypeOK
    <3> QED
      BY <2>4, <3>1, <3>2 DEF Upgrade, TypeOK, JobsOK
  <2>5. ASSUME NEW w \in Worker, Stamp(w) PROVE TypeOK'
    <3>1. pc[w] = "stamp" /\ keys' = keys
      BY <2>5 DEF Stamp
    <3>2. job[w] \in Job /\ job[w].name \in User /\ job[w].key \in 1 .. keys
      BY <2>1, <3>1 DEF JobOK
    <3>3. JobsOK'
      <4>1. CASE Goto(w, "logged") /\ job' = [job EXCEPT ![w].user = job[w].name]
        <5>1. job'[w] = [job[w] EXCEPT !.user = job[w].name]
          BY <2>1, <4>1
        <5>2. job'[w] \in Job /\ job'[w].key = job[w].key /\ job'[w].name = job[w].name
          BY <3>2, <5>1 DEF Job, Someone
        <5>3. DOMAIN job' = Worker /\ \A v \in Worker \ {w} : job'[v] = job[v]
          BY <2>1, <4>1
        <5> QED
          BY <2>1, <3>1, <4>1, <5>2, <5>3, JobGoesOn
      <4>2. CASE Goto(w, "keep") /\ job' = job
        BY <2>1, <3>1, <4>2, JobMoves
      <4> QED
        BY <2>5, <4>1, <4>2 DEF Stamp
    <3>4. logins' \subseteq Someone \X (1 .. keys)
      BY <2>5, <3>2 DEF Stamp, TypeOK, Someone
    <3> QED
      BY <2>5, <3>3, <3>4 DEF Stamp, TypeOK, JobsOK
  <2>6. ASSUME NEW w \in Worker, LogLogin(w) PROVE TypeOK'
    <3>1. JobsOK'
      BY <2>1, <2>6, JobMoves DEF LogLogin
    <3>2. recorded' \subseteq User
      BY <2>1, <2>6 DEF LogLogin, TypeOK, JobOK
    <3> QED
      BY <2>6, <3>1, <3>2 DEF LogLogin, TypeOK, JobsOK
  <2>7. ASSUME NEW w \in Worker, RecordFailure(w) PROVE TypeOK'
    <3>1. /\ pc[w] = "record" /\ keys' = keys /\ keys \in Nat
          /\ clock \in Int /\ Window \in Int /\ clock \in 0 .. MaxClock
      <4>1. pc[w] = "record" /\ keys' = keys
        BY <2>7 DEF RecordFailure
      <4>2. keys \in Nat /\ clock \in 0 .. MaxClock
        BY DEF TypeOK
      <4>3. clock \in Int /\ Window \in Int
        BY <4>2
      <4> QED
        BY <4>1, <4>2, <4>3
    <3>2. job[w] \in Job
      BY <2>1, <3>1 DEF JobOK
    <3>3. JobsOK'
      <4>1. CASE /\ Goto(w, "count") /\ DOMAIN job' = Worker
                 /\ \E solo \in BOOLEAN : job'[w] = [job[w] EXCEPT !.kind = "fail", !.solo = solo,
                                                                   !.cutoff = clock - Window]
                 /\ \A v \in Worker \ {w} :
                       \/ job'[v] = job[v]
                       \/ pc[v] # "idle" /\ job'[v] = [job[v] EXCEPT !.solo = FALSE]
        <5>1. PICK solo \in BOOLEAN : job'[w] = [job[w] EXCEPT !.kind = "fail", !.solo = solo,
                                                               !.cutoff = clock - Window]
          BY <4>1
        <5>2. job'[w] \in Job /\ job'[w].key = job[w].key
          <6>1. clock - Window \in Int /\ "fail" \in Kind
            BY <3>1 DEF Kind
          <6> QED
            BY <3>2, <5>1, <6>1 DEF Job
        <5>3. ASSUME NEW v \in Worker \ {w}
              PROVE  \/ job'[v] = job[v]
                     \/ /\ pc[v] # "idle" /\ job'[v] \in Job /\ job'[v].key = job[v].key
                        /\ job'[v].name = job[v].name /\ job'[v].user = job[v].user
          <6>1. CASE job'[v] = job[v]
            BY <6>1
          <6>2. CASE pc[v] # "idle" /\ job'[v] = [job[v] EXCEPT !.solo = FALSE]
            BY <2>1, <6>2 DEF JobOK, Job
          <6> QED
            BY <4>1, <6>1, <6>2
        <5>4. job'[w].key \in 1 .. keys
          BY <2>1, <3>1, <5>2 DEF JobOK
        <5> QED
          BY <2>1, <3>1, <4>1, <5>2, <5>3, <5>4, JobsKept
      <4>2. CASE Goto(w, "keep") /\ job' = job
        BY <2>1, <3>1, <4>2, JobMoves
      <4> QED
        BY <2>1, <2>7, <4>1, <4>2 DEF RecordFailure
    <3>4. failures' \in [Browser -> [0 .. MaxClock -> Nat]]
      <4>1. failures \in [Browser -> [0 .. MaxClock -> Nat]] /\ job[w].browser \in Browser
        BY <3>2 DEF TypeOK, Job
      <4>2. failures[job[w].browser] \in [0 .. MaxClock -> Nat]
        BY <4>1
      <4>3. \/ failures' = failures
            \/ failures' = [failures EXCEPT ![job[w].browser] =
                               [failures[job[w].browser] EXCEPT ![clock] = failures[job[w].browser][clock] + 1]]
        BY <2>7 DEF RecordFailure
      <4>4. [failures[job[w].browser] EXCEPT ![clock] = failures[job[w].browser][clock] + 1]
               \in [0 .. MaxClock -> Nat]
        <5> DEFINE f == failures[job[w].browser]
        <5>1. f \in [0 .. MaxClock -> Nat]
          BY <4>2
        <5> HIDE DEF f
        <5>2. f[clock] + 1 \in Nat
          BY <3>1, <5>1
        <5>3. [f EXCEPT ![clock] = f[clock] + 1] \in [0 .. MaxClock -> Nat]
          BY <3>1, <5>1, <5>2
        <5> QED
          BY <5>3 DEF f
      <4> QED
        BY <4>1, <4>3, <4>4
    <3> QED
      BY <2>7, <3>3, <3>4 DEF RecordFailure, TypeOK, JobsOK
  <2>8. ASSUME NEW w \in Worker, CountFailures(w) PROVE TypeOK'
    <3>1. JobsOK'
      BY <2>1, <2>8, JobMoves DEF CountFailures
    <3> QED
      BY <2>8, <3>1 DEF CountFailures, TypeOK, JobsOK
  <2>9. ASSUME NEW w \in Worker, FindAlert(w) PROVE TypeOK'
    <3>1. JobsOK'
      BY <2>1, <2>9, JobMoves DEF FindAlert
    <3> QED
      BY <2>9, <3>1 DEF FindAlert, TypeOK, JobsOK
  <2>10. ASSUME NEW w \in Worker, RaiseAlert(w) PROVE TypeOK'
    <3>1. JobsOK'
      BY <2>1, <2>10, JobMoves DEF RaiseAlert
    <3>2. alerts' \in [Browser -> Seq([time: Nat, solo: BOOLEAN])]
      <4>1. alerts \in [Browser -> Seq([time: Nat, solo: BOOLEAN])] /\ clock \in Nat
        BY DEF TypeOK
      <4>2. job[w].browser \in Browser /\ job[w].solo \in BOOLEAN
        BY <2>1, <2>10 DEF RaiseAlert, JobOK, Job
      <4>3. Append(alerts[job[w].browser], [time |-> clock, solo |-> job[w].solo])
               \in Seq([time: Nat, solo: BOOLEAN])
        <5>1. [time |-> clock, solo |-> job[w].solo] \in [time: Nat, solo: BOOLEAN]
          BY <4>1, <4>2
        <5>2. alerts[job[w].browser] \in Seq([time: Nat, solo: BOOLEAN])
          BY <4>1, <4>2
        <5> QED
          BY <5>1, <5>2, AppendProperties
      <4>4. \/ alerts' = alerts
            \/ alerts' = [alerts EXCEPT ![job[w].browser] =
                             Append(@, [time |-> clock, solo |-> job[w].solo])]
        BY <2>10 DEF RaiseAlert
      <4> QED
        BY <4>1, <4>2, <4>3, <4>4
    <3> QED
      BY <2>10, <3>1, <3>2 DEF RaiseAlert, TypeOK, JobsOK
  <2>11. ASSUME NEW w \in Worker, InsertCase(w) PROVE TypeOK'
    <3>1. pc[w] = "insert" /\ keys' = keys /\ keys \in Nat
      BY <2>11 DEF InsertCase, TypeOK
    <3>2. /\ job[w] \in Job /\ job[w].user \in Someone /\ job[w].key \in 1 .. keys
          /\ cases \in Seq([creator: Someone, key: Nat])
      BY <2>1, <3>1 DEF JobOK, TypeOK
    <3>3. CASE /\ cases' = Append(cases, [creator |-> job[w].user, key |-> job[w].key])
               /\ job' = [job EXCEPT ![w].case = Len(cases')]
               /\ Goto(w, "neo") \/ Goto(w, "keep")
      <4>1. [creator |-> job[w].user, key |-> job[w].key] \in [creator: Someone, key: Nat]
        BY <3>1, <3>2
      <4>2. cases' \in Seq([creator: Someone, key: Nat]) /\ Len(cases') \in Nat
        BY <3>2, <3>3, <4>1, AppendProperties, LenProperties
      <4>3. job'[w] = [job[w] EXCEPT !.case = Len(cases')]
        BY <2>1, <3>3
      <4>4. job'[w] \in Job /\ job'[w].key = job[w].key /\ job'[w].name = job[w].name
        BY <3>2, <4>2, <4>3 DEF Job
      <4>5. DOMAIN job' = Worker /\ \A v \in Worker \ {w} : job'[v] = job[v]
        BY <2>1, <3>3
      <4>6. JobsOK'
        BY <2>1, <3>1, <3>3, <4>4, <4>5, JobGoesOn
      <4> QED
        BY <2>11, <4>2, <4>6 DEF InsertCase, TypeOK, JobsOK
    <3>4. CASE Goto(w, "keep") /\ UNCHANGED <<cases, job>>
      <4>1. JobsOK'
        BY <2>1, <3>1, <3>4, JobMoves
      <4> QED
        BY <2>11, <3>4, <4>1 DEF InsertCase, TypeOK, JobsOK
    <3> QED
      BY <2>11, <3>3, <3>4 DEF InsertCase
  <2>12. ASSUME NEW w \in Worker, CreateNode(w) PROVE TypeOK'
    <3>1. JobsOK'
      BY <2>1, <2>12, JobMoves DEF CreateNode
    <3> QED
      BY <2>12, <3>1 DEF CreateNode, TypeOK, JobsOK
  <2>13. ASSUME NEW w \in Worker, LogCase(w) PROVE TypeOK'
    <3>1. JobsOK'
      BY <2>1, <2>13, JobMoves DEF LogCase
    <3> QED
      BY <2>13, <3>1 DEF LogCase, TypeOK, JobsOK
  <2>14. ASSUME NEW w \in Worker, Answer(w) PROVE TypeOK'
    <3>1. JobsOK'
      BY <2>1, <2>14, JobGoesOn DEF Answer
    <3> QED
      BY <2>14, <3>1 DEF Answer, TypeOK, JobsOK
  <2>15. ASSUME NEW w \in Worker, AnswerSet(w) PROVE TypeOK'
    <3>1. JobsOK'
      BY <2>1, <2>15, JobGoesOn DEF AnswerSet
    <3>2. job[w] \in Job
      BY <2>1, <2>15 DEF AnswerSet, JobOK
    <3>3. cookie' \in [Browser -> Session]
      BY <2>15, <3>2 DEF AnswerSet, TypeOK, NoOne, Session, Job
    <3>4. left' \in [Browser -> {"no", "out", "undone"}]
      BY <2>15, <3>2 DEF AnswerSet, TypeOK, Job
    <3> QED
      BY <2>15, <3>1, <3>3, <3>4 DEF AnswerSet, TypeOK, JobsOK
  <2>16. ASSUME NEW w \in Worker, AnswerClear(w) PROVE TypeOK'
    <3>1. /\ pc[w] = "clear" /\ keys' = keys /\ Goto(w, "idle") /\ DOMAIN job' = Worker
          /\ job'[w] = NoJob
      BY <2>16 DEF AnswerClear
    <3>2. ASSUME NEW v \in Worker \ {w}
          PROVE  \/ job'[v] = job[v]
                 \/ /\ pc[v] # "idle" /\ job'[v] \in Job /\ job'[v].key = job[v].key
                    /\ job'[v].name = job[v].name /\ job'[v].user = job[v].user
      <4>1. \/ job'[v] = job[v]
            \/ pc[v] # "idle" /\ job'[v] = [job[v] EXCEPT !.late = TRUE]
        BY <2>16 DEF AnswerClear
      <4>2. CASE pc[v] # "idle" /\ job'[v] = [job[v] EXCEPT !.late = TRUE]
        BY <2>1, <4>2 DEF JobOK, Job
      <4> QED
        BY <4>1, <4>2
    <3>3. JobsOK'
      BY <2>1, <3>1, <3>2, JobsKept
    <3>4. cookie' \in [Browser -> Session]
      BY <2>16 DEF AnswerClear, TypeOK, NoOne, Session
    <3>5. left' \in [Browser -> {"no", "out", "undone"}]
      BY <2>16 DEF AnswerClear, TypeOK
    <3> QED
      BY <2>16, <3>3, <3>4, <3>5 DEF AnswerClear, TypeOK, JobsOK
  <2>17. ASSUME NEW p \in Process, Restart(p) PROVE TypeOK'
    <3>1. keys \in Nat /\ keys' = keys + 1 /\ proc \in [Process -> [key: 1 .. keys, demo: BOOLEAN]]
      BY <2>17 DEF Restart, TypeOK
    <3>2. proc' \in [Process -> [key: 1 .. keys', demo: BOOLEAN]]
      BY <2>17, <3>1 DEF Restart, NewKey
    <3>3. \A w \in Worker : \/ pc'[w] = "idle" /\ job'[w] = NoJob
                            \/ pc'[w] = pc[w] /\ job'[w] = job[w]
      BY <2>17 DEF Restart
    <3>4. pc' \in [Worker -> Step] /\ DOMAIN job' = Worker
      BY <2>1, <2>17 DEF Restart
    <3>5. \A w \in Worker : JobOK(w)'
      BY <2>1, <3>1, <3>3 DEF JobOK
    <3>6. logins' \subseteq Someone \X (1 .. keys')
      BY <2>17, <3>1 DEF Restart, TypeOK
    <3> QED
      BY <2>17, <3>1, <3>2, <3>4, <3>5, <3>6 DEF Restart, TypeOK
  <2>18. CASE Tick \/ UNCHANGED vars
    <3>1. /\ clock' \in 0 .. MaxClock
          /\ UNCHANGED <<proc, keys, cookie, failures, recorded, alerts, cases, hash, pc, job,
                         kinds, faults, requests, logins, left>>
      BY <2>18 DEF Tick, vars, TypeOK
    <3>2. \A w \in Worker : JobOK(w)'
      BY <2>1, <3>1 DEF JobOK
    <3> QED
      BY <3>1, <3>2 DEF TypeOK
  <2> HIDE DEF TypeOK
  <2> QED
    BY <2>2, <2>3, <2>4, <2>5, <2>6, <2>7, <2>8, <2>9, <2>10, <2>11, <2>12, <2>13,
       <2>14, <2>15, <2>16, <2>17, <2>18 DEF Next, Continue
<1> QED
  BY <1>1, <1>2, PTL DEF Spec

-----------------------------------------------------------------------------
(* The steps that touch no session: one request moves on with its local    *)
(* variables, or ends.                                                     *)
Quiet(w) ==
    \/ CheckPassword(w) \/ Upgrade(w) \/ CountFailures(w) \/ FindAlert(w) \/ RaiseAlert(w)
    \/ CreateNode(w) \/ LogCase(w) \/ Answer(w)

LEMMA QuietSteps ==
    ASSUME TypeOK, NEW w \in Worker, Quiet(w)
    PROVE  /\ UNCHANGED <<proc, keys, cookie, recorded, cases, faults, logins, left>>
           /\ \A v \in Worker \ {w} : pc'[v] = pc[v] /\ job'[v] = job[v]
           /\ pc[w] \notin {"idle", "logged", "set"}
           /\ \/ pc'[w] = "idle"
              \/ /\ pc'[w] \notin {"idle", "insert", "logged"} /\ job'[w] = job[w]
                 /\ pc[w] # "keep" /\ (pc'[w] \in LoginSteps => pc[w] \in LoginSteps)
<1> USE DEF LoginSteps
<1>1. pc \in [Worker -> Step] /\ DOMAIN job = Worker
  BY DEF TypeOK
<1>2. CASE CheckPassword(w) \/ Upgrade(w)
  BY <1>1, <1>2 DEF CheckPassword, Upgrade, Goto, mongo, sql, history
<1>3. CASE CountFailures(w) \/ FindAlert(w) \/ RaiseAlert(w)
  BY <1>1, <1>3 DEF CountFailures, FindAlert, RaiseAlert, Goto, mongo, sql, history
<1>4. CASE CreateNode(w) \/ LogCase(w)
  BY <1>1, <1>4 DEF CreateNode, LogCase, Goto, mongo, sql, history
<1>5. CASE Answer(w)
  BY <1>1, <1>5 DEF Answer, Respond, mongo, sql, history
<1> QED
  BY <1>2, <1>3, <1>4, <1>5 DEF Quiet

(* The steps of Next, those that touch no session in one. *)
LEMMA StepsOfNext ==
    ASSUME [Next]_vars
    PROVE  \/ \E w \in Worker, b \in Browser, p \in Process, kind \in Kind,
                 name \in User \cup {None} : Begin(w, b, p, kind, name)
           \/ \E w \in Worker : \/ Quiet(w) \/ Stamp(w) \/ LogLogin(w) \/ RecordFailure(w)
                                \/ InsertCase(w) \/ AnswerSet(w) \/ AnswerClear(w)
           \/ \E p \in Process : Restart(p)
           \/ Tick \/ UNCHANGED vars
BY DEF Next, Continue, Quiet

(* What the steps that do touch sessions change of them. *)
LEMMA BeginStep ==
    ASSUME TypeOK, NEW w \in Worker, NEW b \in Browser, NEW p \in Process, NEW kind \in Kind,
           NEW name \in User \cup {None}, Begin(w, b, p, kind, name)
    PROVE  /\ UNCHANGED <<proc, keys, cookie, recorded, cases, faults, left>>
           /\ \A v \in Worker \ {w} : pc'[v] = pc[v] /\ job'[v] = job[v]
           /\ pc[w] = "idle"
           /\ job'[w].browser = b /\ job'[w].key = proc[p].key /\ job'[w].kind = kind
           /\ \/ /\ kind = "demo" /\ proc[p].demo /\ pc'[w] = "set" /\ job'[w].user = Demo
                 /\ logins' = logins \cup {<<Demo, proc[p].key>>}
              \/ /\ logins' = logins /\ job'[w].user = SessionOf(b, p)
                 /\ ~(kind = "demo" /\ proc[p].demo)
                 /\ pc'[w] = FirstStep(p, kind, SessionOf(b, p))
                 /\ pc'[w] \notin {"idle", "logged"}
<1> USE DEF mongo, sql, history, Goto
<1>1. pc \in [Worker -> Step] /\ DOMAIN job = Worker
  BY DEF TypeOK
<1>2. /\ UNCHANGED <<proc, keys, cookie, recorded, cases, faults, left>> /\ pc[w] = "idle"
      /\ \A v \in Worker \ {w} : pc'[v] = pc[v] /\ job'[v] = job[v]
  BY <1>1 DEF Begin
<1>3. CASE kind = "demo" /\ proc[p].demo
  BY <1>1, <1>2, <1>3 DEF Begin, FirstStep
<1>4. CASE ~(kind = "demo" /\ proc[p].demo)
  <2>1. FirstStep(p, kind, SessionOf(b, p)) \notin {"idle", "logged"}
    BY DEF FirstStep, Kind
  <2> QED
    BY <1>1, <1>2, <1>4, <2>1 DEF Begin
<1> QED
  BY <1>3, <1>4

LEMMA StampStep ==
    ASSUME TypeOK, NEW w \in Worker, Stamp(w)
    PROVE  /\ UNCHANGED <<proc, keys, cookie, recorded, cases, faults, left>>
           /\ \A v \in Worker \ {w} : pc'[v] = pc[v] /\ job'[v] = job[v]
           /\ pc[w] = "stamp" /\ job[w].name \in User
           /\ \/ /\ pc'[w] = "logged" /\ job'[w] = [job[w] EXCEPT !.user = job[w].name]
                 /\ job'[w].user = job[w].name /\ job'[w].key = job[w].key
                 /\ job'[w].browser = job[w].browser /\ job'[w].name = job[w].name
                 /\ job'[w].kind = job[w].kind
                 /\ logins' = logins \cup {<<job[w].name, job[w].key>>}
              \/ pc'[w] = "keep" /\ job'[w] = job[w] /\ logins' = logins
<1> USE DEF mongo, sql, history, Goto
<1>1. pc \in [Worker -> Step] /\ DOMAIN job = Worker /\ JobOK(w)
  BY DEF TypeOK
<1>2. /\ UNCHANGED <<proc, keys, cookie, recorded, cases, faults, left>> /\ pc[w] = "stamp"
      /\ \A v \in Worker \ {w} : pc'[v] = pc[v] /\ job'[v] = job[v]
  BY <1>1 DEF Stamp
<1>3. job[w] \in Job /\ job[w].name \in User
  BY <1>1, <1>2 DEF JobOK, LoginSteps
<1>4. CASE /\ pc'[w] = "logged" /\ job'[w] = [job[w] EXCEPT !.user = job[w].name]
           /\ logins' = logins \cup {<<job[w].name, job[w].key>>}
  BY <1>2, <1>3, <1>4 DEF Job
<1>5. CASE pc'[w] = "keep" /\ job'[w] = job[w] /\ logins' = logins
  BY <1>2, <1>3, <1>5
<1> QED
  BY <1>1, <1>4, <1>5 DEF Stamp

(* What a request knows of its session. *)
SameSession(j, k) ==
    /\ j.user = k.user /\ j.key = k.key /\ j.browser = k.browser /\ j.name = k.name

LEMMA RecordStep ==
    ASSUME TypeOK, NEW w \in Worker, RecordFailure(w)
    PROVE  /\ UNCHANGED <<proc, keys, cookie, recorded, cases, faults, logins, left>>
           /\ pc[w] = "record" /\ pc'[w] \in {"count", "keep"}
           /\ SameSession(job'[w], job[w]) /\ job'[w].late = job[w].late
           /\ \A v \in Worker \ {w} :
                 /\ pc'[v] = pc[v]
                 /\ \/ job'[v] = job[v]
                    \/ /\ pc[v] # "idle" /\ SameSession(job'[v], job[v])
                       /\ job'[v].kind = job[v].kind /\ job'[v].late = job[v].late
                       /\ job'[v].case = job[v].case
<1> USE DEF mongo, sql, history, Goto
<1>1. pc \in [Worker -> Step] /\ DOMAIN job = Worker /\ \A v \in Worker : JobOK(v)
  BY DEF TypeOK
<1>2. /\ UNCHANGED <<proc, keys, cookie, recorded, cases, faults, logins, left>>
      /\ pc[w] = "record" /\ pc'[w] \in {"count", "keep"}
      /\ \A v \in Worker \ {w} : pc'[v] = pc[v]
  BY <1>1 DEF RecordFailure
<1>3. job[w] \in Job
  BY <1>1, <1>2 DEF JobOK
<1>4. /\ \/ job'[w] = job[w]
         \/ \E solo \in BOOLEAN : job'[w] = [job[w] EXCEPT !.kind = "fail", !.solo = solo,
                                                           !.cutoff = clock - Window]
      /\ \A v \in Worker \ {w} :
            \/ job'[v] = job[v]
            \/ pc[v] # "idle" /\ job'[v] = [job[v] EXCEPT !.solo = FALSE]
  BY <1>1 DEF RecordFailure, AlertSteps
<1>5. SameSession(job'[w], job[w]) /\ job'[w].late = job[w].late
  BY <1>3, <1>4 DEF SameSession, Job
<1>6. ASSUME NEW v \in Worker \ {w}, pc[v] # "idle", job'[v] = [job[v] EXCEPT !.solo = FALSE]
      PROVE  /\ SameSession(job'[v], job[v]) /\ job'[v].kind = job[v].kind
             /\ job'[v].late = job[v].late /\ job'[v].case = job[v].case
  <2>1. job[v] \in Job
    BY <1>1, <1>6 DEF JobOK
  <2> QED
    BY <1>6, <2>1 DEF SameSession, Job
<1> QED
  BY <1>2, <1>4, <1>5, <1>6

LEMMA ClearStep ==
    ASSUME TypeOK, NEW w \in Worker, AnswerClear(w)
    PROVE  /\ UNCHANGED <<proc, keys, recorded, cases, faults, logins>>
           /\ cookie' = [cookie EXCEPT ![job[w].browser] = NoOne]
           /\ left' = [left EXCEPT ![job[w].browser] = "out"]
           /\ job[w].browser \in Browser
           /\ pc[w] = "clear" /\ pc'[w] = "idle"
           /\ \A v \in Worker \ {w} :
                 /\ pc'[v] = pc[v]
                 /\ pc[v] # "idle" =>
                       /\ SameSession(job'[v], job[v]) /\ job'[v].kind = job[v].kind
                       /\ job'[v].case = job[v].case
                       /\ job'[v].late = (job[v].late \/ job[v].browser = job[w].browser)
<1> USE DEF mongo, sql, history, Goto
<1>1. pc \in [Worker -> Step] /\ DOMAIN job = Worker /\ \A v \in Worker : JobOK(v)
  BY DEF TypeOK
<1>2. /\ UNCHANGED <<proc, keys, recorded, cases, faults, logins>>
      /\ cookie' = [cookie EXCEPT ![job[w].browser] = NoOne]
      /\ left' = [left EXCEPT ![job[w].browser] = "out"]
      /\ pc[w] = "clear" /\ pc'[w] = "idle"
      /\ \A v \in Worker \ {w} : pc'[v] = pc[v]
  BY <1>1 DEF AnswerClear
<1>3. job[w].browser \in Browser
  BY <1>1, <1>2 DEF JobOK, Job
<1>4. ASSUME NEW v \in Worker \ {w}, pc[v] # "idle"
      PROVE  /\ SameSession(job'[v], job[v]) /\ job'[v].kind = job[v].kind
             /\ job'[v].case = job[v].case
             /\ job'[v].late = (job[v].late \/ job[v].browser = job[w].browser)
  <2>1. job[v] \in Job
    BY <1>1, <1>4 DEF JobOK
  <2>2. CASE job[v].browser = job[w].browser
    <3>1. job'[v] = [job[v] EXCEPT !.late = TRUE]
      BY <1>4, <2>2 DEF AnswerClear
    <3> QED
      BY <2>1, <2>2, <3>1 DEF SameSession, Job
  <2>3. CASE job[v].browser # job[w].browser
    <3>1. job'[v] = job[v]
      BY <1>4, <2>3 DEF AnswerClear
    <3> QED
      BY <2>1, <2>3, <3>1 DEF SameSession, Job
  <2> QED
    BY <2>2, <2>3
<1> QED
  BY <1>2, <1>3, <1>4

-----------------------------------------------------------------------------
(* Every session, in a cookie or in a request, was logged in at the        *)
(* process whose key it has; the demo user's only where the guard is on;   *)
(* and no two processes have one key.                                      *)
LoggedIn(session) == session.user # None => <<session.user, session.key>> \in logins

SpeaksFor(w) ==
    pc[w] # "idle" => /\ LoggedIn(job[w])
                      /\ pc[w] = "insert" => job[w].user \in Writers

AuthInv ==
    /\ \A p, q \in Process : p # q => proc[p].key # proc[q].key
    /\ \A p \in Process : <<Demo, proc[p].key>> \in logins => proc[p].demo
    /\ \A b \in Browser : LoggedIn(cookie[b])
    /\ \A w \in Worker : SpeaksFor(w)
    /\ CreatorsLoggedIn

(* It is kept where processes and cases stay and each new session is one   *)
(* that was there before, or nobody's.                                     *)
LEMMA SessionsPassOn ==
    ASSUME AuthInv, UNCHANGED <<proc, cases, logins>>,
           \A b \in Browser : \/ cookie'[b] = cookie[b] \/ cookie'[b].user = None
                              \/ \E w \in Worker : /\ pc[w] # "idle"
                                                   /\ cookie'[b].user = job[w].user
                                                   /\ cookie'[b].key = job[w].key,
           \A w \in Worker : \/ pc'[w] = "idle"
                             \/ /\ pc[w] # "idle"
                                /\ job'[w].user = job[w].user /\ job'[w].key = job[w].key
                                /\ pc'[w] = "insert" => pc[w] = "insert"
    PROVE  AuthInv'
<1>1. ASSUME NEW b \in Browser PROVE LoggedIn(cookie[b])'
  BY DEF AuthInv, SpeaksFor, LoggedIn
<1>2. ASSUME NEW w \in Worker PROVE SpeaksFor(w)'
  BY DEF AuthInv, SpeaksFor, LoggedIn
<1>3. CreatorsLoggedIn'
  BY DEF AuthInv, CreatorsLoggedIn
<1> QED
  BY <1>1, <1>2, <1>3 DEF AuthInv

LEMMA AuthStarts == Init => AuthInv
<1> SUFFICES ASSUME Init PROVE AuthInv
  OBVIOUS
<1>1. /\ \A p, q \in Process : p # q => proc[p].key # proc[q].key
      /\ \A p \in Process : <<Demo, proc[p].key>> \in logins => proc[p].demo
  BY DEF Init
<1>2. \A b \in Browser : LoggedIn(cookie[b])
  BY DEF Init, LoggedIn, NoOne
<1>3. \A w \in Worker : SpeaksFor(w)
  BY DEF Init, SpeaksFor
<1>4. CreatorsLoggedIn
  BY DEF Init, CreatorsLoggedIn
<1> QED
  BY <1>1, <1>2, <1>3, <1>4 DEF AuthInv

(* A request that begins speaks for the session of its cookie, or for the  *)
(* demo user; the guard keeps the latter from /cases/add.                  *)
LEMMA AuthBegins ==
    ASSUME TypeOK, AuthInv, NEW w \in Worker, NEW b \in Browser, NEW p \in Process,
           NEW kind \in Kind, NEW name \in User \cup {None}, Begin(w, b, p, kind, name)
    PROVE  AuthInv'
<1> USE SessionsAssumption
<1>1. /\ UNCHANGED <<proc, cookie, cases>>
      /\ \A v \in Worker \ {w} : pc'[v] = pc[v] /\ job'[v] = job[v]
      /\ job'[w].key = proc[p].key
      /\ \/ /\ proc[p].demo /\ pc'[w] = "set" /\ job'[w].user = Demo
            /\ logins' = logins \cup {<<Demo, proc[p].key>>}
         \/ /\ logins' = logins /\ job'[w].user = SessionOf(b, p)
            /\ ~(kind = "demo" /\ proc[p].demo)
            /\ pc'[w] = FirstStep(p, kind, SessionOf(b, p))
  BY BeginStep
<1>2. logins \subseteq logins'
  BY <1>1
<1>3. ASSUME NEW q \in Process, <<Demo, proc[q].key>> \in logins'
      PROVE  proc[q].demo
  BY <1>1, <1>3 DEF AuthInv
<1>4. SpeaksFor(w)'
  <2>1. CASE proc[p].demo /\ pc'[w] = "set" /\ job'[w].user = Demo
             /\ logins' = logins \cup {<<Demo, proc[p].key>>}
    BY <1>1, <2>1 DEF SpeaksFor, LoggedIn
  <2>2. CASE /\ logins' = logins /\ job'[w].user = SessionOf(b, p)
             /\ ~(kind = "demo" /\ proc[p].demo)
             /\ pc'[w] = FirstStep(p, kind, SessionOf(b, p))
    <3>1. SessionOf(b, p) # None => <<SessionOf(b, p), proc[p].key>> \in logins
      BY DEF SessionOf, AuthInv, LoggedIn
    <3>2. pc'[w] = "insert" => /\ MayAdd(SessionOf(b, p)) /\ SessionOf(b, p) # None
                               /\ ~BlockedInDemo(p, SessionOf(b, p))
      BY <2>2 DEF FirstStep, Kind
    <3>3. pc'[w] = "insert" => SessionOf(b, p) \in Writers
      BY <3>1, <3>2 DEF MayAdd, BlockedInDemo, AuthInv
    <3> QED
      BY <1>1, <2>2, <3>1, <3>3 DEF SpeaksFor, LoggedIn
  <2> QED
    BY <1>1, <2>1, <2>2
<1>5. ASSUME NEW v \in Worker \ {w} PROVE SpeaksFor(v)'
  BY <1>1, <1>2 DEF AuthInv, SpeaksFor, LoggedIn
<1>6. \A c \in Browser : LoggedIn(cookie[c])'
  BY <1>1, <1>2 DEF AuthInv, LoggedIn
<1>7. CreatorsLoggedIn'
  BY <1>1, <1>2 DEF AuthInv, CreatorsLoggedIn
<1> QED
  BY <1>1, <1>3, <1>4, <1>5, <1>6, <1>7 DEF AuthInv

(* The session of a password login is another one only of its own request. *)
LEMMA AuthStamps ==
    ASSUME TypeOK, AuthInv, NEW w \in Worker, Stamp(w)
    PROVE  AuthInv'
<1> USE SessionsAssumption
<1>1. /\ UNCHANGED <<proc, cookie, cases>> /\ pc[w] = "stamp" /\ job[w].name \in User
      /\ \A v \in Worker \ {w} : pc'[v] = pc[v] /\ job'[v] = job[v]
      /\ \/ /\ pc'[w] = "logged" /\ job'[w].user = job[w].name /\ job'[w].key = job[w].key
            /\ logins' = logins \cup {<<job[w].name, job[w].key>>}
         \/ pc'[w] = "keep" /\ job'[w] = job[w] /\ logins' = logins
  BY StampStep
<1>2. logins \subseteq logins'
  BY <1>1
<1>3. ASSUME NEW q \in Process, <<Demo, proc[q].key>> \in logins'
      PROVE  proc[q].demo
  <2>1. job[w].name # Demo
    BY <1>1
  <2> QED
    BY <1>1, <1>3, <2>1 DEF AuthInv
<1>4. SpeaksFor(w)'
  BY <1>1 DEF AuthInv, SpeaksFor, LoggedIn
<1>5. ASSUME NEW v \in Worker \ {w} PROVE SpeaksFor(v)'
  BY <1>1, <1>2 DEF AuthInv, SpeaksFor, LoggedIn
<1>6. \A c \in Browser : LoggedIn(cookie[c])'
  BY <1>1, <1>2 DEF AuthInv, LoggedIn
<1>7. CreatorsLoggedIn'
  BY <1>1, <1>2 DEF AuthInv, CreatorsLoggedIn
<1> QED
  BY <1>1, <1>3, <1>4, <1>5, <1>6, <1>7 DEF AuthInv

(* A case is stored for the session of the request that stores it. *)
LEMMA AuthInserts ==
    ASSUME TypeOK, AuthInv, NEW w \in Worker, InsertCase(w)
    PROVE  AuthInv'
<1> USE DEF mongo, sql, history, Goto
<1>1. /\ pc \in [Worker -> Step] /\ DOMAIN job = Worker /\ JobOK(w)
      /\ cases \in Seq([creator: Someone, key: Nat])
  BY DEF TypeOK
<1>2. /\ UNCHANGED <<proc, cookie, logins>> /\ pc[w] = "insert" /\ pc'[w] \in {"neo", "keep"}
      /\ \A v \in Worker \ {w} : pc'[v] = pc[v] /\ job'[v] = job[v]
  BY <1>1 DEF InsertCase
<1>3. job[w] \in Job /\ <<job[w].user, job[w].key>> \in logins /\ job[w].user \in Writers
  <2>1. job[w] \in Job /\ job[w].user \in Someone
    BY <1>1, <1>2 DEF JobOK
  <2>2. job[w].user # None
    BY <2>1, SessionsAssumption DEF Someone
  <2>3. SpeaksFor(w)
    BY DEF AuthInv
  <2> QED
    BY <1>2, <2>1, <2>2, <2>3 DEF SpeaksFor, LoggedIn
<1>4. job'[w].user = job[w].user /\ job'[w].key = job[w].key
  <2>1. job'[w] = job[w] \/ \E n : job'[w] = [job[w] EXCEPT !.case = n]
    BY <1>1 DEF InsertCase
  <2> QED
    BY <1>3, <2>1 DEF Job
<1>5. ASSUME NEW v \in Worker PROVE SpeaksFor(v)'
  BY <1>2, <1>4 DEF AuthInv, SpeaksFor, LoggedIn
<1>6. CreatorsLoggedIn'
  <2>1. CASE cases' = Append(cases, [creator |-> job[w].user, key |-> job[w].key])
    <3> DEFINE new == [creator |-> job[w].user, key |-> job[w].key]
    <3>1. \A i \in DOMAIN cases' : \/ i \in DOMAIN cases /\ cases'[i] = cases[i]
                                   \/ cases'[i] = new
      <4> HIDE DEF new
      <4> SUFFICES ASSUME cases' = Append(cases, new)
                   PROVE  \A i \in DOMAIN cases' : \/ i \in DOMAIN cases /\ cases'[i] = cases[i]
                                                   \/ cases'[i] = new
        BY <2>1 DEF new
      <4> QED
        BY <1>1
    <3> QED
      BY <1>2, <1>3, <3>1 DEF AuthInv, CreatorsLoggedIn
  <2>2. CASE cases' = cases
    BY <1>2, <2>2 DEF AuthInv, CreatorsLoggedIn
  <2> QED
    BY <2>1, <2>2 DEF InsertCase
<1>7. \A c \in Browser : LoggedIn(cookie[c])'
  BY <1>2 DEF AuthInv, LoggedIn
<1> QED
  BY <1>2, <1>5, <1>6, <1>7 DEF AuthInv

(* Nobody has logged in at a process that has just drawn its key. *)
LEMMA AuthRestarts ==
    ASSUME TypeOK, AuthInv, NEW p \in Process, Restart(p)
    PROVE  AuthInv'
<1> USE DEF mongo, sql, history
<1>1. PICK demo \in BOOLEAN : proc' = [proc EXCEPT ![p] = [key |-> keys + 1, demo |-> demo]]
  BY DEF Restart, NewKey
<1>2. /\ keys \in Nat /\ proc \in [Process -> [key: 1 .. keys, demo: BOOLEAN]]
      /\ logins \subseteq Someone \X (1 .. keys)
  BY DEF TypeOK
<1>3. /\ UNCHANGED <<cookie, cases, logins>>
      /\ \A w \in Worker : pc'[w] = "idle" \/ (pc'[w] = pc[w] /\ job'[w] = job[w])
  BY DEF Restart
<1>4. \A q \in Process : proc'[q] = IF q = p THEN [key |-> keys + 1, demo |-> demo] ELSE proc[q]
  BY <1>1, <1>2
<1>5. \A q \in Process : proc[q].key \in 1 .. keys
  BY <1>2
<1>6. \A q, r \in Process : q # r => proc'[q].key # proc'[r].key
  BY <1>2, <1>4, <1>5 DEF AuthInv
<1>7. \A q \in Process : <<Demo, proc'[q].key>> \in logins => proc'[q].demo
  BY <1>2, <1>4 DEF AuthInv
<1>8. ASSUME NEW w \in Worker PROVE SpeaksFor(w)'
  BY <1>3 DEF AuthInv, SpeaksFor, LoggedIn
<1>9. CreatorsLoggedIn' /\ \A c \in Browser : LoggedIn(cookie[c])'
  BY <1>3 DEF AuthInv, CreatorsLoggedIn, LoggedIn
<1> QED
  BY <1>3, <1>6, <1>7, <1>8, <1>9 DEF AuthInv

LEMMA AuthInductive == TypeOK /\ AuthInv /\ [Next]_vars => AuthInv'
<1> SUFFICES ASSUME TypeOK, AuthInv, [Next]_vars PROVE AuthInv'
  OBVIOUS
<1>1. ASSUME NEW w \in Worker, Quiet(w) PROVE AuthInv'
  BY <1>1, QuietSteps, SessionsPassOn
<1>2. ASSUME NEW w \in Worker, LogLogin(w) PROVE AuthInv'
  <2>1. /\ UNCHANGED <<proc, cases, logins, cookie, job>> /\ pc[w] = "logged"
        /\ pc' = [pc EXCEPT ![w] = "set"] /\ pc \in [Worker -> Step]
    BY <1>2 DEF LogLogin, Goto, sql, history, TypeOK
  <2> QED
    BY <2>1, SessionsPassOn
<1>3. ASSUME NEW w \in Worker, RecordFailure(w) PROVE AuthInv'
  <2>1. /\ UNCHANGED <<proc, cases, logins, cookie>>
        /\ pc[w] = "record" /\ pc'[w] \in {"count", "keep"}
        /\ job'[w].user = job[w].user /\ job'[w].key = job[w].key
        /\ \A v \in Worker \ {w} :
              pc'[v] = pc[v] /\ job'[v].user = job[v].user /\ job'[v].key = job[v].key
    BY <1>3, RecordStep DEF SameSession
  <2> QED
    BY <2>1, SessionsPassOn
<1>4. ASSUME NEW w \in Worker, AnswerSet(w) PROVE AuthInv'
  <2>1. /\ UNCHANGED <<proc, cases, logins>> /\ pc[w] = "set"
        /\ cookie \in [Browser -> Session]
        /\ cookie' = [cookie EXCEPT ![job[w].browser] =
                         IF job[w].user = None THEN NoOne
                         ELSE [key |-> job[w].key, user |-> job[w].user]]
        /\ pc' = [pc EXCEPT ![w] = "idle"] /\ pc \in [Worker -> Step]
        /\ \A v \in Worker \ {w} : job'[v] = job[v]
    BY <1>4 DEF AnswerSet, Respond, sql, history, TypeOK
  <2>2. \A b \in Browser : \/ cookie'[b] = cookie[b] \/ cookie'[b].user = None
                           \/ cookie'[b].user = job[w].user /\ cookie'[b].key = job[w].key
    BY <2>1 DEF NoOne
  <2>3. \A v \in Worker : pc'[v] = "idle" \/ (pc'[v] = pc[v] /\ job'[v] = job[v])
    BY <2>1
  <2> QED
    BY <2>1, <2>2, <2>3, SessionsPassOn
<1>5. ASSUME NEW w \in Worker, AnswerClear(w) PROVE AuthInv'
  <2>1. /\ UNCHANGED <<proc, cases, logins>> /\ pc'[w] = "idle"
        /\ cookie' = [cookie EXCEPT ![job[w].browser] = NoOne]
        /\ cookie \in [Browser -> Session]
        /\ \A v \in Worker \ {w} :
              /\ pc'[v] = pc[v]
              /\ pc[v] # "idle" => job'[v].user = job[v].user /\ job'[v].key = job[v].key
    BY <1>5, ClearStep DEF SameSession, TypeOK
  <2>2. \A b \in Browser : cookie'[b] = cookie[b] \/ cookie'[b].user = None
    BY <2>1 DEF NoOne
  <2> QED
    BY <2>1, <2>2, SessionsPassOn
<1>6. CASE Tick \/ UNCHANGED vars
  <2>1. UNCHANGED <<proc, cases, logins, cookie, pc, job>>
    BY <1>6 DEF Tick, vars, sql, history
  <2> QED
    BY <2>1, SessionsPassOn
<1> QED
  BY <1>1, <1>2, <1>3, <1>4, <1>5, <1>6, StepsOfNext,
     AuthBegins, AuthStamps, AuthInserts, AuthRestarts

(* Whoever created a case had logged in at the process that stored it,     *)
(* since it started, and has a role that may create cases.                 *)
THEOREM CreatorsCorrect == Spec => []CreatorsLoggedIn
<1>1. AuthInv => CreatorsLoggedIn
  BY DEF AuthInv
<1> QED
  BY <1>1, AuthStarts, AuthInductive, TypeCorrect, PTL DEF Spec

(* The demo user creates no case, whichever processes have the guard on.   *)
THEOREM DemoCorrect == Spec => []DemoWritesNothing
<1>1. CreatorsLoggedIn => DemoWritesNothing
  BY SessionsAssumption DEF CreatorsLoggedIn, DemoWritesNothing
<1> QED
  BY <1>1, CreatorsCorrect, PTL

-----------------------------------------------------------------------------
(* After a logout, a request of the browser that speaks for somebody was   *)
(* under way before it, or logs in again.                                  *)
WillNotUndo(w) ==
    pc[w] # "idle" =>
        /\ pc[w] \in LoginSteps => job[w].kind = "login"
        /\ (left[job[w].browser] = "out" /\ job[w].user # None) =>
              \/ job[w].late
              \/ pc[w] \in {"logged", "set"} /\ job[w].kind \in {"login", "demo"}

LogoutInv == LogoutHolds /\ \A w \in Worker : WillNotUndo(w)

(* It is kept where no browser is touched and each request goes on with    *)
(* what it knows.                                                          *)
LEMMA LogoutPassesOn ==
    ASSUME LogoutInv, UNCHANGED <<cookie, left>>, NEW w \in Worker,
           \/ pc'[w] = "idle"
           \/ /\ pc[w] \notin {"idle", "logged", "set"}
              /\ pc'[w] \in LoginSteps =>
                    pc[w] \in LoginSteps /\ job'[w].kind = job[w].kind
              /\ job'[w].user = job[w].user /\ job'[w].browser = job[w].browser
              /\ job'[w].late = job[w].late,
           \A v \in Worker \ {w} :
              /\ pc'[v] = pc[v]
              /\ \/ job'[v] = job[v]
                 \/ /\ SameSession(job'[v], job[v]) /\ job'[v].kind = job[v].kind
                    /\ job'[v].late = job[v].late
    PROVE  LogoutInv'
<1>1. ASSUME NEW v \in Worker \ {w} PROVE WillNotUndo(v)'
  BY DEF LogoutInv, WillNotUndo, SameSession
<1>2. WillNotUndo(w)'
  BY DEF LogoutInv, WillNotUndo, LoginSteps
<1>3. LogoutHolds'
  BY DEF LogoutInv, LogoutHolds
<1> QED
  BY <1>1, <1>2, <1>3 DEF LogoutInv

(* The browser is nobody when a request begins after the logout, so that   *)
(* the request is, too.                                                    *)
LEMMA LogoutBegins ==
    ASSUME TypeOK, LogoutInv, NEW w \in Worker, NEW b \in Browser, NEW p \in Process,
           NEW kind \in Kind, NEW name \in User \cup {None}, Begin(w, b, p, kind, name)
    PROVE  LogoutInv'
<1>1. /\ UNCHANGED <<cookie, left>>
      /\ \A v \in Worker \ {w} : pc'[v] = pc[v] /\ job'[v] = job[v]
      /\ job'[w].browser = b /\ job'[w].kind = kind
      /\ \/ kind = "demo" /\ pc'[w] = "set"
         \/ /\ job'[w].user = SessionOf(b, p) /\ ~(kind = "demo" /\ proc[p].demo)
            /\ pc'[w] = FirstStep(p, kind, SessionOf(b, p))
  BY BeginStep
<1>2. WillNotUndo(w)'
  <2>1. CASE kind = "demo" /\ pc'[w] = "set"
    BY <1>1, <2>1 DEF WillNotUndo, LoginSteps
  <2>2. CASE /\ job'[w].user = SessionOf(b, p) /\ ~(kind = "demo" /\ proc[p].demo)
             /\ pc'[w] = FirstStep(p, kind, SessionOf(b, p))
    <3>1. pc'[w] \in LoginSteps => kind = "login"
      BY <2>2 DEF FirstStep, LoginSteps, Kind
    <3>2. left[b] = "out" => SessionOf(b, p) = None
      BY DEF LogoutInv, LogoutHolds, SessionOf
    <3> QED
      BY <1>1, <2>2, <3>1, <3>2 DEF WillNotUndo
  <2> QED
    BY <1>1, <2>1, <2>2
<1>3. ASSUME NEW v \in Worker \ {w} PROVE WillNotUndo(v)'
  BY <1>1 DEF LogoutInv, WillNotUndo
<1>4. LogoutHolds'
  BY <1>1 DEF LogoutInv, LogoutHolds
<1> QED
  BY <1>2, <1>3, <1>4 DEF LogoutInv

(* An answer that sets the cookie of a browser that has logged out is late *)
(* or a login, and left is no longer "out".                                *)
LEMMA LogoutAnswers ==
    ASSUME TypeOK, LogoutInv, NEW w \in Worker, AnswerSet(w)
    PROVE  LogoutInv'
<1>1. /\ pc \in [Worker -> Step] /\ DOMAIN job = Worker /\ JobOK(w)
      /\ cookie \in [Browser -> Session] /\ left \in [Browser -> {"no", "out", "undone"}]
  BY DEF TypeOK
<1>2. /\ pc[w] = "set" /\ pc'[w] = "idle"
      /\ \A v \in Worker \ {w} : pc'[v] = pc[v] /\ job'[v] = job[v]
  BY <1>1 DEF AnswerSet, Respond
<1>3. job[w].browser \in Browser
  BY <1>1, <1>2 DEF JobOK, Job
<1>4. \A c \in Browser \ {job[w].browser} : cookie'[c] = cookie[c] /\ left'[c] = left[c]
  BY <1>1 DEF AnswerSet
<1>5. left'[job[w].browser] = "out" => left[job[w].browser] = "out"
  BY <1>1, <1>3 DEF AnswerSet
<1>6. left'[job[w].browser] = "out" => cookie'[job[w].browser].user = None
  <2>1. CASE job[w].user = None
    BY <1>1, <1>3, <2>1 DEF AnswerSet, NoOne
  <2>2. CASE job[w].user # None
    <3>1. left'[job[w].browser] =
             IF job[w].kind \in {"login", "demo"} THEN "no"
             ELSE IF job[w].late /\ left[job[w].browser] = "out" THEN "undone"
                  ELSE left[job[w].browser]
      BY <1>1, <1>3, <2>2 DEF AnswerSet
    <3>2. left[job[w].browser] = "out" => job[w].late \/ job[w].kind \in {"login", "demo"}
      BY <1>2, <2>2 DEF LogoutInv, WillNotUndo
    <3> QED
      BY <3>1, <3>2
  <2> QED
    BY <2>1, <2>2
<1>7. LogoutHolds'
  BY <1>4, <1>6 DEF LogoutInv, LogoutHolds
<1>8. ASSUME NEW v \in Worker PROVE WillNotUndo(v)'
  <2>1. CASE v = w
    BY <1>2, <2>1 DEF WillNotUndo
  <2>2. CASE v # w /\ pc[v] # "idle"
    <3>1. job[v].browser \in Browser
      BY <2>2 DEF TypeOK, JobOK, Job
    <3>2. left'[job[v].browser] = "out" => left[job[v].browser] = "out"
      BY <1>4, <1>5, <3>1
    <3> QED
      BY <1>2, <2>2, <3>2 DEF LogoutInv, WillNotUndo
  <2>3. CASE v # w /\ pc[v] = "idle"
    BY <1>2, <2>3 DEF WillNotUndo
  <2> QED
    BY <2>1, <2>2, <2>3
<1> QED
  BY <1>7, <1>8 DEF LogoutInv

(* What is under way when a browser logs out is late from then on. *)
LEMMA LogoutClears ==
    ASSUME TypeOK, LogoutInv, NEW w \in Worker, AnswerClear(w)
    PROVE  LogoutInv'
<1>1. /\ cookie' = [cookie EXCEPT ![job[w].browser] = NoOne]
      /\ left' = [left EXCEPT ![job[w].browser] = "out"]
      /\ job[w].browser \in Browser /\ pc'[w] = "idle"
      /\ \A v \in Worker \ {w} :
            /\ pc'[v] = pc[v]
            /\ pc[v] # "idle" => /\ SameSession(job'[v], job[v]) /\ job'[v].kind = job[v].kind
                                 /\ job'[v].late = (job[v].late \/ job[v].browser = job[w].browser)
  BY ClearStep
<1>2. cookie \in [Browser -> Session] /\ left \in [Browser -> {"no", "out", "undone"}]
  BY DEF TypeOK
<1>3. LogoutHolds'
  BY <1>1, <1>2 DEF LogoutInv, LogoutHolds, NoOne
<1>4. ASSUME NEW v \in Worker PROVE WillNotUndo(v)'
  <2>1. CASE v = w \/ pc[v] = "idle"
    BY <1>1, <2>1 DEF WillNotUndo
  <2>2. CASE v # w /\ pc[v] # "idle"
    <3>1. /\ job'[v].browser = job[v].browser /\ job'[v].user = job[v].user
          /\ job'[v].kind = job[v].kind /\ pc'[v] = pc[v]
          /\ job'[v].late = (job[v].late \/ job[v].browser = job[w].browser)
      BY <1>1, <2>2 DEF SameSession
    <3>2. job[v] \in Job
      BY <2>2 DEF TypeOK, JobOK
    <3>3. job[v].browser # job[w].browser => left'[job[v].browser] = left[job[v].browser]
      BY <1>1, <1>2, <3>2 DEF Job
    <3> QED
      BY <2>2, <3>1, <3>2, <3>3, ZenonT(30) DEF LogoutInv, WillNotUndo, Job
  <2> QED
    BY <2>1, <2>2
<1> QED
  BY <1>3, <1>4 DEF LogoutInv

LEMMA LogoutStarts == Init => LogoutInv
BY DEF Init, LogoutInv, LogoutHolds, WillNotUndo

LEMMA LogoutInductive == TypeOK /\ LogoutInv /\ [Next]_vars => LogoutInv'
<1> SUFFICES ASSUME TypeOK, LogoutInv, [Next]_vars PROVE LogoutInv'
  OBVIOUS
<1> USE DEF mongo, sql, history, Goto
<1>1. /\ pc \in [Worker -> Step] /\ DOMAIN job = Worker
      /\ \A w \in Worker : JobOK(w)
  BY DEF TypeOK
<1>2. ASSUME NEW w \in Worker, Quiet(w) PROVE LogoutInv'
  <2>1. /\ UNCHANGED <<cookie, left>> /\ pc[w] \notin {"idle", "logged", "set"}
        /\ \A v \in Worker \ {w} : pc'[v] = pc[v] /\ job'[v] = job[v]
        /\ \/ pc'[w] = "idle"
           \/ job'[w] = job[w] /\ (pc'[w] \in LoginSteps => pc[w] \in LoginSteps)
    BY <1>2, QuietSteps
  <2> QED
    BY <2>1, LogoutPassesOn
<1>3. ASSUME NEW w \in Worker, Stamp(w) PROVE LogoutInv'
  <2>1. /\ UNCHANGED <<cookie, left>> /\ pc[w] = "stamp"
        /\ \A v \in Worker \ {w} : pc'[v] = pc[v] /\ job'[v] = job[v]
        /\ \/ pc'[w] = "logged" /\ job'[w].kind = job[w].kind
           \/ pc'[w] = "keep" /\ job'[w] = job[w]
    BY <1>3, StampStep
  <2>2. CASE pc'[w] = "logged" /\ job'[w].kind = job[w].kind
    <3>1. WillNotUndo(w)'
      BY <2>1, <2>2 DEF LogoutInv, WillNotUndo, LoginSteps
    <3>2. ASSUME NEW v \in Worker \ {w} PROVE WillNotUndo(v)'
      BY <2>1 DEF LogoutInv, WillNotUndo
    <3>3. LogoutHolds'
      BY <2>1 DEF LogoutInv, LogoutHolds
    <3> QED
      BY <3>1, <3>2, <3>3 DEF LogoutInv
  <2>3. CASE pc'[w] = "keep" /\ job'[w] = job[w]
    BY <2>1, <2>3, LogoutPassesOn DEF LoginSteps
  <2> QED
    BY <2>1, <2>2, <2>3
<1>4. ASSUME NEW w \in Worker, LogLogin(w) PROVE LogoutInv'
  <2>1. UNCHANGED <<cookie, left, job>> /\ pc[w] = "logged" /\ pc' = [pc EXCEPT ![w] = "set"]
    BY <1>4 DEF LogLogin
  <2>2. ASSUME NEW v \in Worker PROVE WillNotUndo(v)'
    BY <1>1, <2>1 DEF LogoutInv, WillNotUndo, LoginSteps
  <2> QED
    BY <2>1, <2>2 DEF LogoutInv, LogoutHolds
<1>5. ASSUME NEW w \in Worker, RecordFailure(w) PROVE LogoutInv'
  <2>1. /\ UNCHANGED <<cookie, left>> /\ pc[w] = "record" /\ pc'[w] \in {"count", "keep"}
        /\ SameSession(job'[w], job[w]) /\ job'[w].late = job[w].late
        /\ \A v \in Worker \ {w} :
              /\ pc'[v] = pc[v]
              /\ \/ job'[v] = job[v]
                 \/ /\ SameSession(job'[v], job[v]) /\ job'[v].kind = job[v].kind
                    /\ job'[v].late = job[v].late
    BY <1>5, RecordStep
  <2> QED
    BY <2>1, LogoutPassesOn DEF SameSession, LoginSteps
<1>6. ASSUME NEW w \in Worker, InsertCase(w) PROVE LogoutInv'
  <2>1. /\ UNCHANGED <<cookie, left>> /\ pc[w] = "insert" /\ pc'[w] \in {"neo", "keep"}
        /\ \A v \in Worker \ {w} : pc'[v] = pc[v] /\ job'[v] = job[v]
        /\ job'[w] = job[w] \/ \E n : job'[w] = [job[w] EXCEPT !.case = n]
    BY <1>1, <1>6 DEF InsertCase
  <2>2. job[w] \in Job
    BY <1>1, <2>1 DEF JobOK
  <2>3. /\ job'[w].user = job[w].user /\ job'[w].browser = job[w].browser
        /\ job'[w].late = job[w].late
    BY <2>1, <2>2 DEF Job
  <2> QED
    BY <2>1, <2>3, LogoutPassesOn DEF LoginSteps
<1>7. ASSUME NEW p \in Process, Restart(p) PROVE LogoutInv'
  BY <1>7 DEF Restart, LogoutInv, LogoutHolds, WillNotUndo
<1>8. CASE Tick \/ UNCHANGED vars
  BY <1>8 DEF Tick, vars, LogoutInv, LogoutHolds, WillNotUndo
<1> QED
  BY <1>2, <1>3, <1>4, <1>5, <1>6, <1>7, <1>8, StepsOfNext,
     LogoutBegins, LogoutAnswers, LogoutClears

(* After a logout the browser is nobody until it logs in again, or an      *)
(* answer to a request that was under way brings the old session back.     *)
THEOREM LogoutCorrect == Spec => []LogoutHolds
<1>1. LogoutInv => LogoutHolds
  BY DEF LogoutInv
<1> QED
  BY <1>1, LogoutStarts, LogoutInductive, TypeCorrect, PTL DEF Spec

-----------------------------------------------------------------------------
(* The user of a session has an entry, but for a request that is about to  *)
(* write it.                                                               *)
Entered(user) == user \in User => user \in recorded \/ MayFail("mongo")

EnteredBy(w) ==
    pc[w] # "idle" => \/ Entered(job[w].user)
                      \/ pc[w] = "logged" /\ job[w].user = job[w].name

EntryInv ==
    /\ \A b \in Browser : Entered(cookie[b].user)
    /\ \A w \in Worker : EnteredBy(w)

LEMMA EntriesPassOn ==
    ASSUME EntryInv, faults' = faults, recorded \subseteq recorded',
           \A b \in Browser : \/ cookie'[b].user = cookie[b].user
                              \/ Entered(cookie'[b].user),
           \A w \in Worker : \/ pc'[w] = "idle"
                             \/ Entered(job'[w].user)
                             \/ /\ pc[w] # "idle" /\ pc'[w] = pc[w]
                                /\ job'[w].user = job[w].user /\ job'[w].name = job[w].name
                             \/ pc[w] \notin {"idle", "logged"} /\ job'[w].user = job[w].user
    PROVE  EntryInv'
<1>1. ASSUME NEW b \in Browser PROVE Entered(cookie[b].user)'
  BY DEF EntryInv, Entered, MayFail
<1>2. ASSUME NEW w \in Worker PROVE EnteredBy(w)'
  BY DEF EntryInv, EnteredBy, Entered, MayFail
<1> QED
  BY <1>1, <1>2 DEF EntryInv

LEMMA EntriesInductive == TypeOK /\ EntryInv /\ [Next]_vars => EntryInv'
<1> SUFFICES ASSUME TypeOK, EntryInv, [Next]_vars PROVE EntryInv'
  OBVIOUS
<1> USE SessionsAssumption DEF mongo, sql, history, Goto
<1>1. /\ pc \in [Worker -> Step] /\ DOMAIN job = Worker
      /\ \A w \in Worker : JobOK(w)
  BY DEF TypeOK
<1>2. ASSUME NEW w \in Worker, NEW b \in Browser, NEW p \in Process, NEW kind \in Kind,
             NEW name \in User \cup {None}, Begin(w, b, p, kind, name)
      PROVE  EntryInv'
  <2>1. /\ UNCHANGED <<cookie, recorded, faults>>
        /\ \A v \in Worker \ {w} : pc'[v] = pc[v] /\ job'[v] = job[v]
        /\ job'[w].user \in {Demo, SessionOf(b, p)}
    BY <1>2, BeginStep
  <2>2. Entered(job'[w].user)
    BY <2>1 DEF SessionOf, Entered, EntryInv
  <2> QED
    BY <2>1, <2>2, EntriesPassOn
<1>3. ASSUME NEW w \in Worker, Quiet(w) PROVE EntryInv'
  <2>1. /\ UNCHANGED <<cookie, recorded, faults>> /\ pc[w] \notin {"idle", "logged"}
        /\ \A v \in Worker \ {w} : pc'[v] = pc[v] /\ job'[v] = job[v]
        /\ pc'[w] = "idle" \/ job'[w] = job[w]
    BY <1>3, QuietSteps
  <2> QED
    BY <2>1, EntriesPassOn
<1>4. ASSUME NEW w \in Worker, Stamp(w) PROVE EntryInv'
  <2>1. /\ UNCHANGED <<cookie, recorded, faults>> /\ pc[w] = "stamp"
        /\ \A v \in Worker \ {w} : pc'[v] = pc[v] /\ job'[v] = job[v]
        /\ \/ /\ pc'[w] = "logged" /\ job'[w].user = job[w].name
              /\ job'[w].name = job[w].name
           \/ pc'[w] = "keep" /\ job'[w] = job[w]
    BY <1>4, StampStep
  <2>2. ASSUME NEW v \in Worker PROVE EnteredBy(v)'
    BY <2>1 DEF EntryInv, EnteredBy, Entered, MayFail
  <2>3. ASSUME NEW b \in Browser PROVE Entered(cookie[b].user)'
    BY <2>1 DEF EntryInv, Entered, MayFail
  <2> QED
    BY <2>2, <2>3 DEF EntryInv
<1>5. ASSUME NEW w \in Worker, LogLogin(w) PROVE EntryInv'
  <2>1. /\ UNCHANGED <<cookie, faults, job>> /\ pc[w] = "logged"
        /\ pc' = [pc EXCEPT ![w] = "set"]
        /\ job[w].name \in recorded' \/ MayFail("mongo")
    BY <1>5 DEF LogLogin
  <2>2. recorded \subseteq recorded'
    BY <1>5 DEF LogLogin
  <2>3. ASSUME NEW v \in Worker PROVE EnteredBy(v)'
    BY <1>1, <2>1, <2>2 DEF EntryInv, EnteredBy, Entered, MayFail
  <2>4. ASSUME NEW b \in Browser PROVE Entered(cookie[b].user)'
    BY <2>1, <2>2 DEF EntryInv, Entered, MayFail
  <2> QED
    BY <2>3, <2>4 DEF EntryInv
<1>6. ASSUME NEW w \in Worker, RecordFailure(w) PROVE EntryInv'
  <2>1. /\ UNCHANGED <<cookie, recorded, faults>> /\ pc[w] = "record"
        /\ job'[w].user = job[w].user
        /\ \A v \in Worker \ {w} :
              /\ pc'[v] = pc[v]
              /\ job'[v].user = job[v].user /\ job'[v].name = job[v].name
    BY <1>6, RecordStep DEF SameSession
  <2> QED
    BY <2>1, EntriesPassOn
<1>7. ASSUME NEW w \in Worker, InsertCase(w) PROVE EntryInv'
  <2>1. /\ UNCHANGED <<cookie, recorded, faults>> /\ pc[w] = "insert"
        /\ \A v \in Worker \ {w} : pc'[v] = pc[v] /\ job'[v] = job[v]
        /\ job'[w] = job[w] \/ \E n : job'[w] = [job[w] EXCEPT !.case = n]
    BY <1>1, <1>7 DEF InsertCase
  <2>2. job[w] \in Job
    BY <1>1, <2>1 DEF JobOK
  <2>3. job'[w].user = job[w].user
    BY <2>1, <2>2 DEF Job
  <2> QED
    BY <2>1, <2>3, EntriesPassOn
<1>8. ASSUME NEW w \in Worker, AnswerSet(w) PROVE EntryInv'
  <2>1. /\ UNCHANGED <<recorded, faults>> /\ pc[w] = "set"
        /\ cookie' = [cookie EXCEPT ![job[w].browser] =
                         IF job[w].user = None THEN NoOne
                         ELSE [key |-> job[w].key, user |-> job[w].user]]
        /\ pc' = [pc EXCEPT ![w] = "idle"]
        /\ \A v \in Worker \ {w} : job'[v] = job[v]
    BY <1>1, <1>8 DEF AnswerSet, Respond
  <2>2. cookie \in [Browser -> Session]
    BY DEF TypeOK
  <2>3. \A b \in Browser : cookie'[b].user \in {cookie[b].user, job[w].user}
    BY <2>1, <2>2 DEF NoOne
  <2>4. Entered(job[w].user)
    BY <2>1 DEF EntryInv, EnteredBy
  <2>5. \A v \in Worker : pc'[v] = "idle" \/ (pc'[v] = pc[v] /\ job'[v] = job[v])
    BY <1>1, <2>1
  <2> QED
    BY <2>1, <2>3, <2>4, <2>5, EntriesPassOn
<1>9. ASSUME NEW w \in Worker, AnswerClear(w) PROVE EntryInv'
  <2>1. /\ UNCHANGED <<recorded, faults>> /\ pc'[w] = "idle"
        /\ cookie' = [cookie EXCEPT ![job[w].browser] = NoOne]
        /\ \A v \in Worker \ {w} :
              /\ pc'[v] = pc[v]
              /\ pc[v] # "idle" => job'[v].user = job[v].user /\ job'[v].name = job[v].name
    BY <1>9, ClearStep DEF SameSession
  <2>2. cookie \in [Browser -> Session]
    BY DEF TypeOK
  <2>3. \A b \in Browser : cookie'[b].user = cookie[b].user \/ Entered(cookie'[b].user)
    BY <2>1, <2>2 DEF NoOne, Entered
  <2> QED
    BY <2>1, <2>3, EntriesPassOn
<1>10. ASSUME NEW p \in Process, Restart(p) PROVE EntryInv'
  <2>1. /\ UNCHANGED <<cookie, recorded, faults>>
        /\ \A w \in Worker : pc'[w] = "idle" \/ (pc'[w] = pc[w] /\ job'[w] = job[w])
    BY <1>10 DEF Restart
  <2> QED
    BY <2>1, EntriesPassOn
<1>11. CASE Tick \/ UNCHANGED vars
  <2>1. UNCHANGED <<cookie, recorded, faults, pc, job>>
    BY <1>11 DEF Tick, vars
  <2> QED
    BY <2>1, EntriesPassOn
<1> QED
  BY <1>2, <1>3, <1>4, <1>5, <1>6, <1>7, <1>8, <1>9, <1>10, <1>11, StepsOfNext

(* Whoever holds a session logged in with a password is in login_attempts, *)
(* unless MongoDB may have failed.                                         *)
THEOREM EntriesCorrect == Spec => []LoginsAreRecorded
<1>1. Init => EntryInv
  BY SessionsAssumption DEF Init, EntryInv, Entered, EnteredBy, NoOne
<1>2. EntryInv => LoginsAreRecorded
  BY DEF EntryInv, Entered, LoginsAreRecorded
<1> QED
  BY <1>1, <1>2, EntriesInductive, TypeCorrect, PTL DEF Spec

-----------------------------------------------------------------------------
(* A case that is not in the log is on its way to it, unless a store       *)
(* failed or a process was stopped; a request writes to the log what it    *)
(* has written to the graph, and to the graph what it has stored.          *)
OnTheWay(w) == pc[w] \in {"neo", "caseLog"}

MirrorInv ==
    /\ caseLogs \subseteq nodes /\ nodes \subseteq DOMAIN cases
    /\ \A w \in Worker : pc[w] = "neo" => job[w].case \in DOMAIN cases
    /\ \A w \in Worker : pc[w] = "caseLog" => job[w].case \in nodes
    /\ keys >= Cardinality(Process)
    /\ (faults = {} /\ keys = Cardinality(Process)) =>
          \A i \in DOMAIN cases :
              i \in caseLogs \/ \E w \in Worker : OnTheWay(w) /\ job[w].case = i

LEMMA MirrorPassesOn ==
    ASSUME MirrorInv, UNCHANGED <<cases, nodes, caseLogs, faults, keys>>,
           \A w \in Worker : (OnTheWay(w) \/ OnTheWay(w)') =>
                                pc'[w] = pc[w] /\ job'[w].case = job[w].case
    PROVE  MirrorInv'
<1>1. \A w \in Worker : pc'[w] = "neo" => job'[w].case \in DOMAIN cases
  BY DEF MirrorInv, OnTheWay
<1>2. \A w \in Worker : pc'[w] = "caseLog" => job'[w].case \in nodes
  BY DEF MirrorInv, OnTheWay
<1>3. ASSUME faults = {}, keys = Cardinality(Process), NEW i \in DOMAIN cases, i \notin caseLogs
      PROVE  \E w \in Worker : OnTheWay(w)' /\ job'[w].case = i
  <2>1. PICK w \in Worker : OnTheWay(w) /\ job[w].case = i
    BY <1>3 DEF MirrorInv
  <2>2. pc'[w] = pc[w] /\ job'[w].case = job[w].case
    BY <2>1
  <2> QED
    BY <2>1, <2>2 DEF OnTheWay
<1> QED
  BY <1>1, <1>2, <1>3 DEF MirrorInv

(* The new case is on its way, unless its answer is lost. *)
LEMMA MirrorInserts ==
    ASSUME TypeOK, MirrorInv, NEW w \in Worker, InsertCase(w)
    PROVE  MirrorInv'
<1> USE DEF mongo, sql, history, Goto
<1>1. /\ pc \in [Worker -> Step] /\ DOMAIN job = Worker /\ JobOK(w)
      /\ cases \in Seq([creator: Someone, key: Nat])
  BY DEF TypeOK
<1>2. /\ UNCHANGED <<nodes, caseLogs, faults, keys>> /\ pc[w] = "insert"
      /\ \A v \in Worker \ {w} : pc'[v] = pc[v] /\ job'[v] = job[v]
      /\ pc'[w] = "neo" \/ (pc'[w] = "keep" /\ faults # {})
  BY <1>1 DEF InsertCase, MayFail
<1>3. CASE /\ cases' = Append(cases, [creator |-> job[w].user, key |-> job[w].key])
           /\ job' = [job EXCEPT ![w].case = Len(cases')]
  <2>1. job[w] \in Job
    BY <1>1, <1>2 DEF JobOK
  <2>2. job'[w].case = Len(cases')
    BY <1>1, <1>3, <2>1 DEF Job
  <2>3. Len(cases') = Len(cases) + 1 /\ Len(cases) \in Nat
    <3> DEFINE new == [creator |-> job[w].user, key |-> job[w].key]
    <3>1. cases' = Append(cases, new)
      BY <1>3
    <3> HIDE DEF new
    <3> QED
      BY <1>1, <3>1
  <2>4. cases' \in Seq([creator: Someone, key: Nat])
    <3>1. [creator |-> job[w].user, key |-> job[w].key] \in [creator: Someone, key: Nat]
      BY <1>1, <1>2 DEF JobOK, Job
    <3> QED
      BY <1>1, <1>3, <3>1, AppendProperties
  <2>5. DOMAIN cases = 1 .. Len(cases) /\ DOMAIN cases' = 1 .. Len(cases')
    BY <1>1, <2>4
  <2>6. DOMAIN cases' = DOMAIN cases \cup {Len(cases')} /\ Len(cases') \in DOMAIN cases'
    BY <2>3, <2>5
  <2>7. \A v \in Worker : pc'[v] = "neo" => job'[v].case \in DOMAIN cases'
    BY <1>2, <2>2, <2>6 DEF MirrorInv
  <2>8. \A v \in Worker : pc'[v] = "caseLog" => job'[v].case \in nodes
    BY <1>2 DEF MirrorInv
  <2>9. ASSUME faults = {}, keys = Cardinality(Process), NEW i \in DOMAIN cases', i \notin caseLogs
        PROVE  \E v \in Worker : OnTheWay(v)' /\ job'[v].case = i
    <3>1. CASE i = Len(cases')
      BY <1>2, <2>2, <2>9, <3>1 DEF OnTheWay
    <3>2. CASE i \in DOMAIN cases
      <4>1. PICK v \in Worker : OnTheWay(v) /\ job[v].case = i
        BY <2>9, <3>2 DEF MirrorInv
      <4>2. v # w
        BY <1>2, <4>1 DEF OnTheWay
      <4> QED
        BY <1>2, <4>1, <4>2 DEF OnTheWay
    <3> QED
      BY <2>6, <3>1, <3>2
  <2> QED
    BY <1>2, <2>6, <2>7, <2>8, <2>9 DEF MirrorInv
<1>4. CASE UNCHANGED <<cases, job>> /\ pc'[w] = "keep"
  BY <1>2, <1>4, MirrorPassesOn DEF OnTheWay
<1> QED
  BY <1>1, <1>3, <1>4 DEF InsertCase

LEMMA MirrorCreates ==
    ASSUME TypeOK, MirrorInv, NEW w \in Worker, CreateNode(w)
    PROVE  MirrorInv'
<1>1. /\ UNCHANGED <<cases, caseLogs, faults, keys, job>> /\ pc[w] = "neo"
      /\ \A v \in Worker \ {w} : pc'[v] = pc[v]
      /\ nodes \subseteq nodes' /\ nodes' \subseteq nodes \cup {job[w].case}
      /\ \/ pc'[w] = "caseLog" /\ job[w].case \in nodes'
         \/ pc'[w] = "keep" /\ faults # {}
  BY DEF CreateNode, TypeOK, Goto, MayFail, mongo, sql, history
<1>2. \A v \in Worker : pc'[v] = "neo" => job[v].case \in DOMAIN cases
  BY <1>1 DEF MirrorInv
<1>3. \A v \in Worker : pc'[v] = "caseLog" => job[v].case \in nodes'
  BY <1>1 DEF MirrorInv
<1>4. faults = {} => \A v \in Worker : OnTheWay(v) => OnTheWay(v)'
  BY <1>1 DEF OnTheWay
<1>5. caseLogs \subseteq nodes' /\ nodes' \subseteq DOMAIN cases
  BY <1>1 DEF MirrorInv
<1> QED
  BY <1>1, <1>2, <1>3, <1>4, <1>5 DEF MirrorInv

LEMMA MirrorLogs ==
    ASSUME TypeOK, MirrorInv, NEW w \in Worker, LogCase(w)
    PROVE  MirrorInv'
<1>1. /\ UNCHANGED <<cases, nodes, faults, keys, job>> /\ pc[w] = "caseLog"
      /\ \A v \in Worker \ {w} : pc'[v] = pc[v]
      /\ caseLogs \subseteq caseLogs' /\ caseLogs' \subseteq caseLogs \cup {job[w].case}
      /\ \/ pc'[w] = "set" /\ job[w].case \in caseLogs'
         \/ pc'[w] = "keep" /\ faults # {}
  BY DEF LogCase, TypeOK, Goto, MayFail, sql, history
<1>2. \A v \in Worker : pc'[v] = "neo" => job[v].case \in DOMAIN cases
  BY <1>1 DEF MirrorInv
<1>3. \A v \in Worker : pc'[v] = "caseLog" => job[v].case \in nodes
  BY <1>1 DEF MirrorInv
<1>4. faults = {} => \A v \in Worker :
                         OnTheWay(v) => OnTheWay(v)' \/ job[v].case \in caseLogs'
  BY <1>1 DEF OnTheWay
<1>5. caseLogs' \subseteq nodes
  BY <1>1 DEF MirrorInv
<1> QED
  BY <1>1, <1>2, <1>3, <1>4, <1>5 DEF MirrorInv

LEMMA MirrorInductive == TypeOK /\ MirrorInv /\ [Next]_vars => MirrorInv'
<1> SUFFICES ASSUME TypeOK, MirrorInv, [Next]_vars PROVE MirrorInv'
  OBVIOUS
<1> USE DEF mongo, sql, history, Goto
<1>1. /\ pc \in [Worker -> Step] /\ DOMAIN job = Worker
      /\ \A w \in Worker : JobOK(w)
  BY DEF TypeOK
<1>2. ASSUME NEW w \in Worker, NEW b \in Browser, NEW p \in Process, NEW kind \in Kind,
             NEW name \in User \cup {None}, Begin(w, b, p, kind, name)
      PROVE  MirrorInv'
  <2>1. pc'[w] \notin {"neo", "caseLog"}
    BY <1>1, <1>2 DEF Begin, FirstStep, Kind
  <2> QED
    BY <1>1, <1>2, <2>1, MirrorPassesOn DEF Begin, OnTheWay
<1>3. ASSUME NEW w \in Worker,
             \/ CheckPassword(w) \/ Upgrade(w) \/ CountFailures(w) \/ FindAlert(w)
             \/ RaiseAlert(w) \/ Answer(w) \/ LogLogin(w)
      PROVE  MirrorInv'
  <2>1. /\ UNCHANGED <<cases, nodes, caseLogs, faults, keys>> /\ ~OnTheWay(w) /\ ~OnTheWay(w)'
        /\ \A v \in Worker \ {w} : pc'[v] = pc[v] /\ job'[v] = job[v]
    BY <1>1, <1>3 DEF CheckPassword, Upgrade, CountFailures, FindAlert, RaiseAlert, Answer,
                      LogLogin, Respond, OnTheWay
  <2> QED
    BY <2>1, MirrorPassesOn
<1>4. ASSUME NEW w \in Worker, Stamp(w) \/ AnswerSet(w) PROVE MirrorInv'
  <2>1. /\ UNCHANGED <<cases, nodes, caseLogs, faults, keys>> /\ ~OnTheWay(w) /\ ~OnTheWay(w)'
        /\ \A v \in Worker \ {w} : pc'[v] = pc[v] /\ job'[v] = job[v]
    BY <1>1, <1>4 DEF Stamp, AnswerSet, Respond, OnTheWay
  <2> QED
    BY <2>1, MirrorPassesOn
<1>5. ASSUME NEW w \in Worker, RecordFailure(w) PROVE MirrorInv'
  <2>1. /\ UNCHANGED <<cases, nodes, caseLogs, faults, keys>> /\ ~OnTheWay(w) /\ ~OnTheWay(w)'
    BY <1>1, <1>5 DEF RecordFailure, OnTheWay
  <2>2. \A v \in Worker \ {w} : pc'[v] = pc[v] /\ job'[v].case = job[v].case
    BY <1>5, RecordStep
  <2> QED
    BY <2>1, <2>2, MirrorPassesOn
<1>6. ASSUME NEW w \in Worker, AnswerClear(w) PROVE MirrorInv'
  <2>1. /\ UNCHANGED <<cases, nodes, caseLogs, faults, keys>> /\ ~OnTheWay(w) /\ ~OnTheWay(w)'
    BY <1>1, <1>6 DEF AnswerClear, OnTheWay
  <2>2. \A v \in Worker \ {w} :
           pc'[v] = pc[v] /\ (pc[v] # "idle" => job'[v].case = job[v].case)
    BY <1>6, ClearStep
  <2> QED
    BY <2>1, <2>2, MirrorPassesOn DEF OnTheWay
<1>7. ASSUME NEW p \in Process, Restart(p) PROVE MirrorInv'
  <2>1. /\ UNCHANGED <<cases, nodes, caseLogs, faults>> /\ keys' = keys + 1 /\ keys \in Nat
        /\ \A w \in Worker : pc'[w] = "idle" \/ (pc'[w] = pc[w] /\ job'[w] = job[w])
    BY <1>7 DEF Restart, TypeOK
  <2>2. Cardinality(Process) \in Nat
    BY SessionsAssumption, FS_CardinalityType
  <2>3. keys' >= Cardinality(Process) /\ keys' # Cardinality(Process)
    BY <2>1, <2>2 DEF MirrorInv
  <2> QED
    BY <2>1, <2>3 DEF MirrorInv
<1>8. CASE Tick \/ UNCHANGED vars
  <2>1. UNCHANGED <<cases, nodes, caseLogs, faults, keys, pc, job>>
    BY <1>8 DEF Tick, vars
  <2> QED
    BY <2>1, MirrorPassesOn
<1> QED
  BY <1>2, <1>3, <1>4, <1>5, <1>6, <1>7, <1>8,
     MirrorInserts, MirrorCreates, MirrorLogs DEF Next, Continue

(* The graph and the log tell only of cases that are stored, and of each,  *)
(* unless a store failed, a process was stopped or its request is still    *)
(* under way.                                                              *)
THEOREM MirrorCorrect == Spec => []CasesAreMirrored
<1>1. Init => MirrorInv
  <2> SUFFICES ASSUME Init PROVE MirrorInv
    OBVIOUS
  <2>1. keys = Cardinality(Process) /\ Cardinality(Process) \in Nat
    BY SessionsAssumption, FS_CardinalityType DEF Init
  <2> QED
    BY <2>1 DEF Init, MirrorInv
<1>2. MirrorInv => CasesAreMirrored
  <2> SUFFICES ASSUME MirrorInv PROVE CasesAreMirrored
    OBVIOUS
  <2> DEFINE way == {job[w].case : w \in {v \in Worker : pc[v] \in {"neo", "caseLog"}}}
  <2>1. way \subseteq DOMAIN cases
    BY DEF MirrorInv
  <2>2. faults = {} /\ keys = Cardinality(Process) => DOMAIN cases \subseteq caseLogs \cup way
    BY DEF MirrorInv, OnTheWay
  <2> HIDE DEF way
  <2>3. faults = {} /\ keys = Cardinality(Process) => DOMAIN cases = caseLogs \cup way
    BY <2>1, <2>2 DEF MirrorInv
  <2> QED
    BY <2>3 DEF MirrorInv, CasesAreMirrored, way
<1> QED
  BY <1>1, <1>2, MirrorInductive, TypeCorrect, PTL DEF Spec

-----------------------------------------------------------------------------
(* Two failed logins from one address that are looked at together both     *)
(* know that they are; and one that is about to raise an alert has seen    *)
(* none in its window, or only alerts of those it was looked at with.      *)
Looking(w) == pc[w] \in AlertSteps

SpacedInv ==
    /\ \A v, w \in Worker :
          (v # w /\ Looking(v) /\ Looking(w) /\ job[v].browser = job[w].browser) => ~job[w].solo
    /\ \A w \in Worker : Looking(w) => job[w].cutoff =< clock - Window
    /\ \A w \in Worker : pc[w] = "alert" =>
          \A i \in DOMAIN alerts[job[w].browser] :
              alerts[job[w].browser][i].time >= job[w].cutoff =>
                  ~alerts[job[w].browser][i].solo /\ ~job[w].solo
    /\ AlertsAreSpaced

(* Time does not go back. *)
LEMMA SpacedPassesOn ==
    ASSUME TypeOK, SpacedInv, UNCHANGED alerts, clock' \in Nat, clock =< clock',
           \A w \in Worker : Looking(w)' =>
              /\ Looking(w) /\ (pc'[w] = "alert" => pc[w] = "alert")
              /\ job'[w].browser = job[w].browser /\ job'[w].cutoff = job[w].cutoff
              /\ job'[w].solo = job[w].solo
    PROVE  SpacedInv'
<1>1. clock \in Nat /\ Window \in Nat
  BY SessionsAssumption DEF TypeOK
<1>2. ASSUME NEW w \in Worker, Looking(w)'
      PROVE  job'[w].cutoff =< clock' - Window
  <2>1. Looking(w) /\ job[w].cutoff \in Int /\ job'[w].cutoff = job[w].cutoff
    <3>1. Looking(w) /\ job'[w].cutoff = job[w].cutoff
      BY <1>2
    <3> QED
      BY <3>1 DEF Looking, AlertSteps, TypeOK, JobOK, Job
  <2>2. job[w].cutoff =< clock - Window
    BY <2>1 DEF SpacedInv
  <2> QED
    BY <1>1, <2>1, <2>2
<1>3. ASSUME NEW v \in Worker, NEW w \in Worker, v # w, Looking(v)', Looking(w)',
             job'[v].browser = job'[w].browser
      PROVE  ~job'[w].solo
  BY <1>3 DEF SpacedInv
<1>4. ASSUME NEW w \in Worker, pc'[w] = "alert"
      PROVE  \A i \in DOMAIN alerts[job'[w].browser] :
                 alerts[job'[w].browser][i].time >= job'[w].cutoff =>
                     ~alerts[job'[w].browser][i].solo /\ ~job'[w].solo
  <2>1. Looking(w)'
    BY <1>4 DEF Looking, AlertSteps
  <2> QED
    BY <1>4, <2>1 DEF SpacedInv
<1>5. AlertsAreSpaced'
  BY DEF SpacedInv, AlertsAreSpaced
<1> QED
  BY <1>2, <1>3, <1>4, <1>5 DEF SpacedInv

(* A failed login joins those that are looked at. *)
LEMMA SpacedJoins ==
    ASSUME TypeOK, SpacedInv, NEW w \in Worker, RecordFailure(w)
    PROVE  SpacedInv'
<1> USE DEF mongo, sql, history, Goto, Looking
<1>1. /\ pc \in [Worker -> Step] /\ DOMAIN job = Worker /\ \A v \in Worker : JobOK(v)
      /\ clock \in Nat /\ Window \in Nat
  BY SessionsAssumption DEF TypeOK
<1>2. UNCHANGED <<alerts, clock>> /\ pc[w] = "record" /\ ~Looking(w)
  BY DEF RecordFailure, AlertSteps
<1>3. CASE pc' = [pc EXCEPT ![w] = "keep"] /\ UNCHANGED job
  BY <1>1, <1>2, <1>3, SpacedPassesOn DEF AlertSteps
<1>4. CASE pc' = [pc EXCEPT ![w] = "count"]
  <2> DEFINE others == {v \in Worker \ {w} : Looking(v) /\ job[v].browser = job[w].browser}
  <2>1. job' = [v \in Worker |->
                  IF v = w THEN [job[w] EXCEPT !.kind = "fail", !.solo = others = {},
                                               !.cutoff = clock - Window]
                  ELSE IF v \in others THEN [job[v] EXCEPT !.solo = FALSE] ELSE job[v]]
    BY <1>1, <1>4 DEF RecordFailure
  <2>2. job[w] \in Job
    BY <1>1, <1>2 DEF JobOK
  <2>3. /\ job'[w].browser = job[w].browser /\ job'[w].cutoff = clock - Window
        /\ job'[w].solo = (others = {})
    <3> HIDE DEF others
    <3> QED
      BY <2>1, <2>2 DEF Job
  <2>4. ASSUME NEW v \in Worker \ {w}, Looking(v)'
        PROVE  /\ Looking(v) /\ pc'[v] = pc[v] /\ job'[v].browser = job[v].browser
               /\ job'[v].cutoff = job[v].cutoff /\ (job'[v].solo => job[v].solo)
               /\ job[v].browser = job[w].browser => ~job'[v].solo
    <3>1. Looking(v) /\ pc'[v] = pc[v]
      BY <1>1, <1>4, <2>4
    <3>2. job[v] \in Job
      BY <1>1, <3>1 DEF JobOK, AlertSteps
    <3>3. CASE v \in others
      <4>1. job'[v] = [job[v] EXCEPT !.solo = FALSE]
        BY <2>1, <3>3
      <4> QED
        BY <3>1, <3>2, <4>1 DEF Job
    <3>4. CASE v \notin others
      <4>1. job'[v] = job[v]
        BY <2>1, <3>4
      <4> QED
        BY <3>1, <3>4, <4>1
    <3> QED
      BY <3>3, <3>4
  <2>5. ASSUME NEW v \in Worker \ {w}, Looking(v)', job'[v].browser = job'[w].browser
        PROVE  ~job'[w].solo /\ ~job'[v].solo
    <3>1. Looking(v) /\ job[v].browser = job[w].browser /\ ~job'[v].solo
      BY <2>3, <2>4, <2>5
    <3>2. v \in others
      BY <3>1
    <3> QED
      BY <2>3, <3>1, <3>2
  <2> HIDE DEF others
  <2>6. ASSUME NEW u \in Worker, NEW v \in Worker, u # v, Looking(u)', Looking(v)',
               job'[u].browser = job'[v].browser
        PROVE  ~job'[v].solo
    <3>1. CASE u = w \/ v = w
      BY <2>5, <2>6, <3>1
    <3>2. CASE u # w /\ v # w
      BY <2>4, <2>6, <3>2 DEF SpacedInv
    <3> QED
      BY <3>1, <3>2
  <2>7. ASSUME NEW v \in Worker, Looking(v)' PROVE job'[v].cutoff =< clock' - Window
    BY <1>1, <1>2, <2>3, <2>4, <2>7 DEF SpacedInv
  <2>8. ASSUME NEW v \in Worker, pc'[v] = "alert"
        PROVE  \A i \in DOMAIN alerts[job'[v].browser] :
                   alerts[job'[v].browser][i].time >= job'[v].cutoff =>
                       ~alerts[job'[v].browser][i].solo /\ ~job'[v].solo
    <3>1. v # w /\ Looking(v)'
      BY <1>1, <1>4, <2>8 DEF AlertSteps
    <3> QED
      BY <2>4, <2>8, <3>1 DEF SpacedInv
  <2>9. AlertsAreSpaced'
    BY <1>2 DEF SpacedInv, AlertsAreSpaced
  <2> QED
    BY <1>2, <2>6, <2>7, <2>8, <2>9 DEF SpacedInv
<1> QED
  BY <1>3, <1>4 DEF RecordFailure

(* The search for an alert is the last look before one is raised. *)
LEMMA SpacedLooks ==
    ASSUME TypeOK, SpacedInv, NEW w \in Worker, FindAlert(w)
    PROVE  SpacedInv'
<1> USE DEF mongo, sql, history, Goto
<1>1. /\ pc \in [Worker -> Step] /\ clock \in Nat
      /\ UNCHANGED <<alerts, clock, job>> /\ pc[w] = "find"
      /\ \A v \in Worker \ {w} : pc'[v] = pc[v]
      /\ pc'[w] \in {"set", "keep", "alert"}
      /\ pc'[w] = "alert" => ~AlertedSince(job[w].browser, job[w].cutoff)
  BY DEF TypeOK, FindAlert
<1>2. CASE pc'[w] # "alert"
  BY <1>1, <1>2, SpacedPassesOn DEF Looking, AlertSteps
<1>3. CASE pc'[w] = "alert"
  <2>1. \A v \in Worker : Looking(v)' = Looking(v)
    BY <1>1, <1>3 DEF Looking, AlertSteps
  <2>2. \A i \in DOMAIN alerts[job[w].browser] :
           ~(alerts[job[w].browser][i].time >= job[w].cutoff)
    BY <1>1, <1>3 DEF AlertedSince
  <2>3. ASSUME NEW v \in Worker, pc'[v] = "alert"
        PROVE  \A i \in DOMAIN alerts[job[v].browser] :
                   alerts[job[v].browser][i].time >= job[v].cutoff =>
                       ~alerts[job[v].browser][i].solo /\ ~job[v].solo
    BY <1>1, <2>2, <2>3 DEF SpacedInv
  <2>4. AlertsAreSpaced'
    BY <1>1 DEF SpacedInv, AlertsAreSpaced
  <2> QED
    BY <1>1, <2>1, <2>3, <2>4 DEF SpacedInv
<1> QED
  BY <1>2, <1>3

(* The alert that is raised is close only to those its request was looked  *)
(* at with, and whoever else is about to raise one was looked at with it.  *)
LEMMA SpacedRaises ==
    ASSUME TypeOK, SpacedInv, NEW w \in Worker, RaiseAlert(w)
    PROVE  SpacedInv'
<1> USE DEF mongo, sql, history, Goto
<1>1. /\ pc \in [Worker -> Step] /\ clock \in Nat /\ Window \in Nat /\ JobOK(w)
      /\ alerts \in [Browser -> Seq([time: Nat, solo: BOOLEAN])]
  BY SessionsAssumption DEF TypeOK
<1>2. /\ UNCHANGED <<clock, job>> /\ pc[w] = "alert" /\ ~Looking(w)'
      /\ \A v \in Worker \ {w} : pc'[v] = pc[v]
  BY <1>1 DEF RaiseAlert, Looking, AlertSteps
<1>3. job[w] \in Job /\ job[w].browser \in Browser /\ Looking(w)
  BY <1>1, <1>2 DEF JobOK, Job, Looking, AlertSteps
<1>4. CASE alerts' = alerts
  <2>1. \A v \in Worker : Looking(v)' => Looking(v) /\ pc'[v] = pc[v]
    BY <1>2 DEF Looking
  <2> QED
    BY <1>1, <1>2, <1>4, <2>1, SpacedPassesOn
<1>5. CASE alerts' = [alerts EXCEPT ![job[w].browser] =
                         Append(@, [time |-> clock, solo |-> job[w].solo])]
  <2> DEFINE b == job[w].browser
             s == alerts[b]
             new == [time |-> clock, solo |-> job[w].solo]
  <2>1. s \in Seq([time: Nat, solo: BOOLEAN]) /\ b \in Browser
    BY <1>1, <1>3
  <2>2. alerts'[b] = Append(s, new)
    BY <1>1, <1>3, <1>5
  <2>3. \A c \in Browser \ {b} : alerts'[c] = alerts[c]
    BY <1>1, <1>5
  <2>4. \A i \in DOMAIN alerts'[b] :
           \/ i \in DOMAIN s /\ alerts'[b][i] = s[i]
           \/ i = Len(s) + 1 /\ alerts'[b][i] = new
    <3> HIDE DEF s, new, b
    <3> QED
      BY <2>1, <2>2
  <2>5. new.time = clock /\ new.solo = job[w].solo
    OBVIOUS
  <2>6. \A i \in DOMAIN s : s[i].time \in Nat /\ i =< Len(s) /\ i \in Nat
    <3> DEFINE Alert == [time: Nat, solo: BOOLEAN]
    <3>1. s \in Seq(Alert)
      BY <2>1
    <3>2. \A i \in DOMAIN s : s[i] \in Alert /\ i =< Len(s) /\ i \in Nat
      <4> HIDE DEF s, Alert
      <4> QED
        BY <3>1
    <3>3. \A a \in Alert : a.time \in Nat
      OBVIOUS
    <3> HIDE DEF s, Alert
    <3> QED
      BY <3>2, <3>3
  <2>7. \A i \in DOMAIN s : s[i].time >= job[w].cutoff => ~s[i].solo /\ ~job[w].solo
    BY <1>2 DEF SpacedInv
  <2>8. job[w].cutoff =< clock - Window /\ job[w].cutoff \in Int
    BY <1>3 DEF SpacedInv, Job
  <2> HIDE DEF s, new, b
  <2>9. ASSUME NEW i \in DOMAIN alerts'[b], NEW j \in DOMAIN alerts'[b],
               i < j, alerts'[b][j].time - alerts'[b][i].time =< Window
        PROVE  ~alerts'[b][i].solo /\ ~alerts'[b][j].solo
    <3>1. CASE j \in DOMAIN s /\ alerts'[b][j] = s[j]
      <4>1. i \in DOMAIN s /\ alerts'[b][i] = s[i]
        <5>1. Len(s) \in Nat
          BY <2>1
        <5> QED
          BY <2>4, <2>6, <2>9, <3>1, <5>1
      <4> QED
        BY <2>1, <2>9, <3>1, <4>1 DEF SpacedInv, AlertsAreSpaced, s
    <3>2. CASE j = Len(s) + 1 /\ alerts'[b][j] = new
      <4>1. i \in DOMAIN s /\ alerts'[b][i] = s[i]
        <5>1. Len(s) \in Nat
          BY <2>1
        <5> QED
          BY <2>4, <2>9, <3>2, <5>1
      <4>2. s[i].time \in Nat /\ clock - s[i].time =< Window
        BY <2>5, <2>6, <2>9, <3>2, <4>1
      <4>3. s[i].time >= job[w].cutoff
        BY <1>1, <2>8, <4>2
      <4> QED
        BY <2>5, <2>7, <3>2, <4>1, <4>3
    <3> QED
      BY <2>4, <3>1, <3>2
  <2>10. AlertsAreSpaced'
    <3>1. ASSUME NEW c \in Browser \ {b}, NEW i \in DOMAIN alerts'[c], NEW j \in DOMAIN alerts'[c],
                 i < j, alerts'[c][j].time - alerts'[c][i].time =< Window
          PROVE  ~alerts'[c][i].solo /\ ~alerts'[c][j].solo
      BY <2>3, <3>1 DEF SpacedInv, AlertsAreSpaced
    <3> QED
      BY <2>9, <3>1 DEF AlertsAreSpaced
  <2>11. ASSUME NEW v \in Worker, pc'[v] = "alert"
         PROVE  \A i \in DOMAIN alerts'[job[v].browser] :
                    alerts'[job[v].browser][i].time >= job[v].cutoff =>
                        ~alerts'[job[v].browser][i].solo /\ ~job[v].solo
    <3>1. v # w /\ pc[v] = "alert" /\ Looking(v)
      BY <1>2, <2>11 DEF Looking, AlertSteps
    <3>2. job[v].browser \in Browser
      BY <3>1 DEF TypeOK, JobOK, Job
    <3>3. CASE job[v].browser # b
      BY <2>3, <3>1, <3>2, <3>3 DEF SpacedInv
    <3>4. CASE job[v].browser = b
      <4>1. ~job[v].solo /\ ~job[w].solo
        BY <1>3, <3>1, <3>4 DEF SpacedInv, b
      <4>2. \A i \in DOMAIN s : s[i].time >= job[v].cutoff => ~s[i].solo
        BY <3>1, <3>4 DEF SpacedInv, s
      <4> QED
        BY <2>4, <2>5, <3>4, <4>1, <4>2
    <3> QED
      BY <3>3, <3>4
  <2>12. \A v \in Worker : Looking(v)' => Looking(v)
    BY <1>2, <1>3 DEF Looking
  <2>13. ASSUME NEW v \in Worker, Looking(v)' PROVE job'[v].cutoff =< clock' - Window
    BY <1>2, <2>12, <2>13 DEF SpacedInv
  <2>14. ASSUME NEW u \in Worker, NEW v \in Worker, u # v, Looking(u)', Looking(v)',
                job'[u].browser = job'[v].browser
         PROVE  ~job'[v].solo
    BY <1>2, <2>12, <2>14 DEF SpacedInv
  <2> QED
    BY <1>2, <2>10, <2>11, <2>13, <2>14 DEF SpacedInv
<1> QED
  BY <1>4, <1>5 DEF RaiseAlert

LEMMA SpacedInductive == TypeOK /\ SpacedInv /\ [Next]_vars => SpacedInv'
<1> SUFFICES ASSUME TypeOK, SpacedInv, [Next]_vars PROVE SpacedInv'
  OBVIOUS
<1> USE SessionsAssumption DEF mongo, sql, history, Goto
<1>1. /\ pc \in [Worker -> Step] /\ DOMAIN job = Worker
      /\ \A w \in Worker : JobOK(w)
      /\ clock \in Nat
  BY DEF TypeOK
<1>2. ASSUME NEW w \in Worker, NEW b \in Browser, NEW p \in Process, NEW kind \in Kind,
             NEW name \in User \cup {None}, Begin(w, b, p, kind, name)
      PROVE  SpacedInv'
  <2>1. UNCHANGED <<alerts, clock>> /\ ~Looking(w)'
        /\ \A v \in Worker \ {w} : pc'[v] = pc[v] /\ job'[v] = job[v]
    BY <1>1, <1>2 DEF Begin, FirstStep, Kind, Looking, AlertSteps
  <2> QED
    BY <1>1, <2>1, SpacedPassesOn DEF Looking
<1>3. ASSUME NEW w \in Worker,
             \/ CheckPassword(w) \/ Upgrade(w) \/ CreateNode(w) \/ LogCase(w)
             \/ Answer(w) \/ LogLogin(w)
      PROVE  SpacedInv'
  <2>1. UNCHANGED <<alerts, clock>> /\ ~Looking(w)'
        /\ \A v \in Worker \ {w} : pc'[v] = pc[v] /\ job'[v] = job[v]
    BY <1>1, <1>3 DEF CheckPassword, Upgrade, CreateNode, LogCase, Answer, LogLogin, Respond,
                      Looking, AlertSteps
  <2> QED
    BY <1>1, <2>1, SpacedPassesOn DEF Looking
<1>4. ASSUME NEW w \in Worker, Stamp(w) \/ AnswerSet(w) \/ InsertCase(w) PROVE SpacedInv'
  <2>1. UNCHANGED <<alerts, clock>> /\ ~Looking(w)'
        /\ \A v \in Worker \ {w} : pc'[v] = pc[v] /\ job'[v] = job[v]
    BY <1>1, <1>4 DEF Stamp, AnswerSet, InsertCase, Respond, Looking, AlertSteps
  <2> QED
    BY <1>1, <2>1, SpacedPassesOn DEF Looking
<1>5. ASSUME NEW w \in Worker, CountFailures(w) PROVE SpacedInv'
  <2>1. /\ UNCHANGED <<alerts, clock, job>> /\ pc[w] = "count" /\ pc'[w] # "alert"
        /\ \A v \in Worker \ {w} : pc'[v] = pc[v]
    BY <1>1, <1>5 DEF CountFailures
  <2> QED
    BY <1>1, <2>1, SpacedPassesOn DEF Looking, AlertSteps
<1>6. ASSUME NEW w \in Worker, AnswerClear(w) PROVE SpacedInv'
  <2>1. /\ UNCHANGED <<alerts, clock>> /\ ~Looking(w)'
        /\ \A v \in Worker \ {w} : pc'[v] = pc[v]
    BY <1>1, <1>6 DEF AnswerClear, Looking, AlertSteps
  <2>2. ASSUME NEW v \in Worker \ {w}, Looking(v)
        PROVE  /\ job'[v].browser = job[v].browser /\ job'[v].cutoff = job[v].cutoff
               /\ job'[v].solo = job[v].solo
    <3>1. job[v] \in Job
      BY <1>1, <2>2 DEF JobOK, Looking, AlertSteps
    <3>2. job'[v] = job[v] \/ job'[v] = [job[v] EXCEPT !.late = TRUE]
      BY <1>6 DEF AnswerClear
    <3> QED
      BY <3>1, <3>2 DEF Job
  <2> QED
    BY <1>1, <2>1, <2>2, SpacedPassesOn DEF Looking
<1>7. ASSUME NEW p \in Process, Restart(p) PROVE SpacedInv'
  <2>1. /\ UNCHANGED <<alerts, clock>>
        /\ \A w \in Worker : pc'[w] = "idle" \/ (pc'[w] = pc[w] /\ job'[w] = job[w])
    BY <1>7 DEF Restart
  <2> QED
    BY <1>1, <2>1, SpacedPassesOn DEF Looking, AlertSteps
<1>8. CASE Tick \/ UNCHANGED vars
  <2>1. UNCHANGED <<alerts, pc, job>> /\ clock' \in Nat /\ clock =< clock'
    BY <1>1, <1>8 DEF Tick, vars
  <2> QED
    BY <2>1, SpacedPassesOn DEF Looking
<1> QED
  BY <1>2, <1>3, <1>4, <1>5, <1>6, <1>7, <1>8,
     SpacedJoins, SpacedLooks, SpacedRaises DEF Next, Continue

(* Two alerts about one address are further apart than the window, or were *)
(* raised by failed logins that were served at the same time.              *)
THEOREM AlertsCorrect == Spec => []AlertsAreSpaced
<1>1. Init => SpacedInv
  BY DEF Init, SpacedInv, AlertsAreSpaced, Looking, AlertSteps
<1>2. SpacedInv => AlertsAreSpaced
  BY DEF SpacedInv
<1> QED
  BY <1>1, <1>2, SpacedInductive, TypeCorrect, PTL DEF Spec

-----------------------------------------------------------------------------
(* The failed logins of one address: their sum is the number of the units  *)
(* they are made of.                                                       *)
SumOf(f, S) == MapThenSumSet(LAMBDA x : f[x], S)
Units(f, S) == UNION {{x} \X (1 .. f[x]) : x \in S}

LEMMA UnitsOfOne ==
    ASSUME NEW f, NEW x, f[x] \in Nat
    PROVE  IsFiniteSet({x} \X (1 .. f[x])) /\ Cardinality({x} \X (1 .. f[x])) = f[x]
<1>1. IsFiniteSet({x}) /\ Cardinality({x}) = 1
  BY FS_Singleton
<1>2. \A n \in Nat : IsFiniteSet(1 .. n) /\ Cardinality(1 .. n) = n
  BY FS_Interval
<1> DEFINE n == f[x]
<1>3. n \in Nat
  OBVIOUS
<1> HIDE DEF n
<1>4. \A I : IsFiniteSet(I) => /\ IsFiniteSet({x} \X I)
                              /\ Cardinality({x} \X I) = Cardinality({x}) * Cardinality(I)
  BY <1>1, FS_Product
<1>5. IsFiniteSet({x} \X (1 .. n)) /\ Cardinality({x} \X (1 .. n)) = 1 * n
  BY <1>1, <1>2, <1>3, <1>4
<1> QED
  BY <1>3, <1>5 DEF n

(* One time less, as many units less as it has failures. *)
LEMMA UnitsAdd ==
    ASSUME NEW f, NEW S, IsFiniteSet(S), \A x \in S : f[x] \in Nat
    PROVE  /\ IsFiniteSet(Units(f, S)) /\ Cardinality(Units(f, S)) \in Nat
           /\ Units(f, {}) = {}
           /\ \A x \in S : Cardinality(Units(f, S)) = f[x] + Cardinality(Units(f, S \ {x}))
<1>1. ASSUME NEW T \in SUBSET S PROVE IsFiniteSet(Units(f, T)) /\ Cardinality(Units(f, T)) \in Nat
  <2> DEFINE g == [x \in T |-> {x} \X (1 .. f[x])]
             C == {{x} \X (1 .. f[x]) : x \in T}
  <2>1. IsFiniteSet(T)
    BY FS_Subset
  <2>2. g \in Surjection(T, C)
    BY DEF Surjection
  <2>3. \A c \in C : IsFiniteSet(c)
    BY UnitsOfOne
  <2>4. Units(f, T) = UNION C
    BY DEF Units
  <2> HIDE DEF g, C
  <2>5. IsFiniteSet(C)
    BY <2>1, <2>2, FS_Surjection
  <2>6. IsFiniteSet(UNION C)
    BY <2>3, <2>5, FS_UNION
  <2> QED
    BY <2>4, <2>6, FS_CardinalityType
<1>2. ASSUME NEW x \in S
      PROVE  Cardinality(Units(f, S)) = f[x] + Cardinality(Units(f, S \ {x}))
  <2> DEFINE A == {x} \X (1 .. f[x])
             B == Units(f, S \ {x})
  <2>1. Units(f, S) = A \cup B /\ A \cap B = {}
    BY DEF Units
  <2>2. IsFiniteSet(A) /\ Cardinality(A) = f[x] /\ f[x] \in Nat
    BY UnitsOfOne
  <2>3. IsFiniteSet(B) /\ Cardinality(B) \in Nat
    BY <1>1
  <2> HIDE DEF A, B
  <2>4. Cardinality(A \cup B) = Cardinality(A) + Cardinality(B) - Cardinality(A \cap B)
    BY <2>2, <2>3, FS_Union
  <2>5. Cardinality(A \cap B) = 0
    BY <2>1, FS_EmptySet
  <2> QED
    BY <2>1, <2>2, <2>3, <2>4, <2>5 DEF B
<1>3. Units(f, {}) = {}
  BY DEF Units
<1> QED
  BY <1>1, <1>2, <1>3

(* The sum is defined by a recursion on sets; the number of units satisfies *)
(* it, and no other function does: a least set of those where two differ   *)
(* would have a smaller one.                                               *)
LEMMA SumCounts ==
    ASSUME NEW f, NEW S, IsFiniteSet(S), \A x \in S : f[x] \in Nat
    PROVE  SumOf(f, S) = Cardinality(Units(f, S))
<1> DEFINE IsSum(it) == it = [s \in SUBSET S |->
                              IF s = {} THEN 0
                              ELSE f[CHOOSE x \in s : TRUE] + it[s \ {CHOOSE x \in s : TRUE}]]
           iter == CHOOSE it : IsSum(it)
           count == [s \in SUBSET S |-> Cardinality(Units(f, s))]
<1>1. SumOf(f, S) = iter[S]
  BY DEF SumOf, MapThenSumSet, MapThenFoldSet
<1>2. IsSum(count)
  <2>1. ASSUME NEW s \in SUBSET S, s # {}
        PROVE  Cardinality(Units(f, s)) = f[CHOOSE x \in s : TRUE]
                                          + Cardinality(Units(f, s \ {CHOOSE x \in s : TRUE}))
    <3>1. IsFiniteSet(s) /\ \A x \in s : f[x] \in Nat
      BY FS_Subset
    <3>2. (CHOOSE x \in s : TRUE) \in s
      BY <2>1
    <3>3. \A x \in s : Cardinality(Units(f, s)) = f[x] + Cardinality(Units(f, s \ {x}))
      BY <3>1, UnitsAdd
    <3> QED
      BY <3>2, <3>3
  <2>2. Cardinality(Units(f, {})) = 0
    BY UnitsAdd, FS_EmptySet
  <2> QED
    BY <2>1, <2>2
<1>3. IsSum(iter)
  BY <1>2
<1>4. /\ iter[{}] = 0
      /\ \A s \in SUBSET S : s # {} =>
            \E x \in s : /\ iter[s] = f[x] + iter[s \ {x}]
                       /\ count[s] = f[x] + count[s \ {x}]
  <2> HIDE DEF iter, count
  <2>1. iter[{}] = 0
    BY <1>3
  <2>2. ASSUME NEW s \in SUBSET S, s # {}
        PROVE  \E x \in s : iter[s] = f[x] + iter[s \ {x}] /\ count[s] = f[x] + count[s \ {x}]
    <3> DEFINE x == CHOOSE x \in s : TRUE
    <3>1. x \in s
      BY <2>2
    <3>2. iter[s] = f[x] + iter[s \ {x}]
      BY <1>3, <2>2
    <3>3. count[s] = f[x] + count[s \ {x}]
      BY <1>2, <2>2
    <3> HIDE DEF x
    <3> QED
      BY <3>1, <3>2, <3>3
  <2> QED
    BY <2>1, <2>2
<1>5. count[{}] = 0
  BY UnitsAdd, FS_EmptySet
<1>6. count[S] = Cardinality(Units(f, S))
  OBVIOUS
<1> DEFINE Differ == {s \in SUBSET S : iter[s] # count[s]}
<1> HIDE DEF iter, count
<1>7. Differ = {}
  <2> SUFFICES ASSUME Differ # {} PROVE FALSE
    OBVIOUS
  <2>1. Differ \in SUBSET FiniteSubsetsOf(S)
    BY FS_Subset DEF FiniteSubsetsOf
  <2> HIDE DEF Differ
  <2>2. PICK s \in Differ : \A t \in Differ : <<t, s>> \notin StrictSubsetOrdering(S)
    BY <2>1, FS_StrictSubsetOrderingWellFounded, WFMin
  <2>3. s \in SUBSET S /\ iter[s] # count[s]
    BY DEF Differ
  <2>4. PICK x \in s : iter[s] = f[x] + iter[s \ {x}] /\ count[s] = f[x] + count[s \ {x}]
    BY <1>4, <1>5, <2>3
  <2>5. s \ {x} \in Differ
    BY <2>3, <2>4 DEF Differ
  <2>6. <<s \ {x}, s>> \in StrictSubsetOrdering(S)
    BY <2>3 DEF StrictSubsetOrdering
  <2> QED
    BY <2>2, <2>5, <2>6
<1> QED
  BY <1>1, <1>6, <1>7

(* More failures of more times make a greater sum. *)
LEMMA SumGrows ==
    ASSUME NEW f, NEW g, NEW S, NEW T, IsFiniteSet(T), S \subseteq T,
           \A x \in T : f[x] \in Nat /\ g[x] \in Nat /\ f[x] =< g[x]
    PROVE  SumOf(f, S) \in Nat /\ SumOf(g, T) \in Nat /\ SumOf(f, S) =< SumOf(g, T)
<1>1. IsFiniteSet(S)
  BY FS_Subset
<1>2. SumOf(f, S) = Cardinality(Units(f, S)) /\ SumOf(g, T) = Cardinality(Units(g, T))
  BY <1>1, SumCounts
<1>3. IsFiniteSet(Units(g, T))
  BY UnitsAdd
<1>4. Units(f, S) \subseteq Units(g, T)
  <2>1. ASSUME NEW x \in S PROVE 1 .. f[x] \subseteq 1 .. g[x] /\ x \in T
    BY <2>1
  <2> QED
    BY <2>1 DEF Units
<1>5. /\ Cardinality(Units(f, S)) =< Cardinality(Units(g, T))
      /\ IsFiniteSet(Units(f, S))
  BY <1>3, <1>4, FS_Subset
<1>6. Cardinality(Units(f, S)) \in Nat /\ Cardinality(Units(g, T)) \in Nat
  BY <1>3, <1>5, FS_CardinalityType
<1> QED
  BY <1>2, <1>5, <1>6

(* Where enough attempts failed, an alert has been raised or some request  *)
(* still looks at the window that ends with the last of them; nothing      *)
(* failed in the future.                                                   *)
Enough(b, t) ==
    failures[b][t] > 0 /\ SumOf(failures[b], {s \in 0 .. t : s >= t - Window}) >= Threshold

LooksAt(w, b, t) == Looking(w) /\ job[w].browser = b /\ job[w].cutoff = t - Window

NoneAhead == \A b \in Browser : \A t \in 0 .. MaxClock : t > clock => failures[b][t] = 0

RaisedInv ==
    /\ keys >= Cardinality(Process) /\ NoneAhead
    /\ ~MayFail("mongo") /\ keys = Cardinality(Process) =>
          \A b \in Browser : \A t \in 0 .. MaxClock :
              Enough(b, t) => AlertedSince(b, t - Window) \/ \E w \in Worker : LooksAt(w, b, t)

(* What is enough for a window is enough for whoever looks back as far. *)
LEMMA EnoughIsBruteForce ==
    ASSUME TypeOK, NEW b \in Browser, NEW t \in 0 .. MaxClock, Enough(b, t)
    PROVE  IsBruteForce(b, t - Window)
<1> DEFINE f == failures[b]
           S == {s \in 0 .. t : s >= t - Window}
           T == {s \in 0 .. MaxClock : s >= t - Window}
<1>1. f \in [0 .. MaxClock -> Nat]
  BY DEF TypeOK
<1>2. MaxClock \in Nat /\ Window \in Nat /\ Threshold \in Nat
  BY SessionsAssumption
<1>3. S \subseteq T
  BY <1>2
<1>4. IsFiniteSet(0 .. MaxClock) /\ T \subseteq 0 .. MaxClock
  BY <1>2, FS_Interval
<1>5. IsFiniteSet(T)
  <2> HIDE DEF T
  <2> QED
    BY <1>4, FS_Subset
<1>6. FailedSince(b, t - Window) = SumOf(f, T)
  BY DEF FailedSince, SumOf
<1>7. SumOf(f, S) >= Threshold
  BY DEF Enough
<1> HIDE DEF f, S, T
<1>8. \A x \in T : f[x] \in Nat /\ f[x] =< f[x]
  BY <1>1, <1>4
<1>9. SumOf(f, S) \in Nat /\ SumOf(f, T) \in Nat /\ SumOf(f, S) =< SumOf(f, T)
  BY <1>3, <1>5, <1>8, SumGrows
<1> QED
  BY <1>2, <1>6, <1>7, <1>9 DEF IsBruteForce

(* A step in which nothing fails, after which whoever looked still looks   *)
(* or has seen to it that there is an alert.                               *)
LEMMA RaisedPassesOn ==
    ASSUME TypeOK, RaisedInv, UNCHANGED <<failures, faults, keys>>, clock' \in Nat, clock =< clock',
           \A b \in Browser, c \in Int : AlertedSince(b, c) => AlertedSince(b, c)',
           \A w \in Worker, b \in Browser, t \in 0 .. MaxClock :
              ~MayFail("mongo") /\ LooksAt(w, b, t) /\ Enough(b, t) =>
                  LooksAt(w, b, t)' \/ AlertedSince(b, t - Window)'
    PROVE  RaisedInv'
<1>1. NoneAhead'
  BY DEF NoneAhead, RaisedInv, TypeOK
<1>2. \A b \in Browser, t \in 0 .. MaxClock : t - Window \in Int
  BY SessionsAssumption
<1>3. \A b \in Browser, t \in 0 .. MaxClock : Enough(b, t)' = Enough(b, t)
  BY DEF Enough
<1>4. MayFail("mongo")' = MayFail("mongo")
  BY DEF MayFail
<1>5. ASSUME ~MayFail("mongo"), keys = Cardinality(Process), NEW b \in Browser,
             NEW t \in 0 .. MaxClock, Enough(b, t)
      PROVE  AlertedSince(b, t - Window)' \/ \E w \in Worker : LooksAt(w, b, t)'
  <2>1. CASE AlertedSince(b, t - Window)
    BY <1>2, <2>1
  <2>2. CASE \E w \in Worker : LooksAt(w, b, t)
    BY <1>5, <2>2
  <2> QED
    BY <1>5, <2>1, <2>2 DEF RaisedInv
<1> QED
  BY <1>1, <1>3, <1>4, <1>5 DEF RaisedInv

(* A step of a request that looks at failures. *)
LEMMA RaisedLooks ==
    ASSUME TypeOK, SpacedInv, RaisedInv, NEW w \in Worker,
           CountFailures(w) \/ FindAlert(w) \/ RaiseAlert(w)
    PROVE  RaisedInv'
<1> USE DEF mongo, sql, history, Goto
<1>1. /\ pc \in [Worker -> Step] /\ JobOK(w) /\ clock \in Nat
      /\ alerts \in [Browser -> Seq([time: Nat, solo: BOOLEAN])]
  BY DEF TypeOK
<1>2. /\ UNCHANGED <<failures, faults, keys, clock, job>> /\ Looking(w)
      /\ \A v \in Worker \ {w} : pc'[v] = pc[v]
  BY <1>1 DEF CountFailures, FindAlert, RaiseAlert, Looking, AlertSteps
<1>3. job[w] \in Job
  BY <1>1, <1>2 DEF JobOK, Looking, AlertSteps
<1>4. /\ job[w].browser \in Browser /\ job[w].cutoff \in Int /\ job[w].cutoff =< clock
  <2>1. job[w].cutoff =< clock - Window /\ Window \in Nat
    BY <1>2, SessionsAssumption DEF SpacedInv
  <2> QED
    BY <1>1, <1>3, <2>1 DEF Job
<1>5. ASSUME NEW v \in Worker \ {w}, NEW b \in Browser, NEW t \in 0 .. MaxClock, LooksAt(v, b, t)
      PROVE  LooksAt(v, b, t)'
  BY <1>2, <1>5 DEF LooksAt, Looking
<1>6. ASSUME NEW b \in Browser, NEW c \in Int, alerts' = alerts, AlertedSince(b, c)
      PROVE  AlertedSince(b, c)'
  BY <1>6 DEF AlertedSince
<1>7. CASE CountFailures(w)
  <2>1. alerts' = alerts
    BY <1>7 DEF CountFailures
  <2>2. ASSUME NEW b \in Browser, NEW t \in 0 .. MaxClock, LooksAt(w, b, t), Enough(b, t),
               ~MayFail("mongo")
        PROVE  LooksAt(w, b, t)'
    <3>1. IsBruteForce(job[w].browser, job[w].cutoff)
      BY <2>2, EnoughIsBruteForce DEF LooksAt
    <3>2. pc'[w] = "find"
      BY <1>1, <1>7, <2>2, <3>1 DEF CountFailures
    <3> QED
      BY <1>2, <2>2, <3>2 DEF LooksAt, Looking, AlertSteps
  <2> QED
    BY <1>1, <1>2, <1>5, <1>6, <2>1, <2>2, RaisedPassesOn
<1>8. CASE FindAlert(w)
  <2>1. alerts' = alerts
    BY <1>8 DEF FindAlert
  <2>2. ASSUME NEW b \in Browser, NEW t \in 0 .. MaxClock, LooksAt(w, b, t), ~MayFail("mongo")
        PROVE  LooksAt(w, b, t)' \/ AlertedSince(b, t - Window)'
    <3>1. CASE AlertedSince(job[w].browser, job[w].cutoff)
      BY <2>1, <2>2, <3>1 DEF AlertedSince, LooksAt
    <3>2. CASE ~AlertedSince(job[w].browser, job[w].cutoff)
      <4>1. pc'[w] = "alert"
        BY <1>1, <1>8, <2>2, <3>2 DEF FindAlert
      <4> QED
        BY <1>2, <2>2, <4>1 DEF LooksAt, Looking, AlertSteps
    <3> QED
      BY <3>1, <3>2
  <2> QED
    BY <1>1, <1>2, <1>5, <1>6, <2>1, <2>2, RaisedPassesOn
<1>9. CASE RaiseAlert(w)
  <2> DEFINE b == job[w].browser
             new == [time |-> clock, solo |-> job[w].solo]
             Raised == alerts' = [alerts EXCEPT ![b] = Append(@, new)]
  <2>1. alerts' = alerts \/ Raised
    BY <1>9 DEF RaiseAlert
  <2>2. ~MayFail("mongo") => Raised
    BY <1>9 DEF RaiseAlert
  <2>3. /\ alerts[b] \in Seq([time: Nat, solo: BOOLEAN]) /\ Len(alerts[b]) \in Nat
        /\ DOMAIN alerts[b] = 1 .. Len(alerts[b])
    BY <1>1, <1>4
  <2>4. Raised => /\ Len(alerts[b]) + 1 \in DOMAIN alerts'[b]
                  /\ alerts'[b][Len(alerts[b]) + 1] = new
                  /\ \A i \in DOMAIN alerts[b] : i \in DOMAIN alerts'[b] /\ alerts'[b][i] = alerts[b][i]
                  /\ \A c \in Browser \ {b} : alerts'[c] = alerts[c]
    <3>1. Raised => alerts'[b] = Append(alerts[b], new)
                    /\ \A c \in Browser \ {b} : alerts'[c] = alerts[c]
      BY <1>1, <1>4
    <3> DEFINE s == alerts[b]
    <3>2. \A x : /\ Len(s) + 1 \in DOMAIN Append(s, x)
                 /\ Append(s, x)[Len(s) + 1] = x
                 /\ \A i \in DOMAIN s : i \in DOMAIN Append(s, x) /\ Append(s, x)[i] = s[i]
      <4> HIDE DEF s
      <4> QED
        BY <2>3
    <3> HIDE DEF Raised, new, b
    <3> QED
      BY <3>1, <3>2
  <2>5. new.time = clock
    OBVIOUS
  <2> HIDE DEF Raised, new
  <2>6. ASSUME NEW c \in Browser, NEW d \in Int, AlertedSince(c, d) PROVE AlertedSince(c, d)'
    <3>1. CASE alerts' = alerts
      BY <1>6, <2>6, <3>1
    <3>2. CASE Raised
      BY <2>4, <2>6, <3>2 DEF AlertedSince
    <3> QED
      BY <2>1, <3>1, <3>2
  <2>7. ~MayFail("mongo") => AlertedSince(b, job[w].cutoff)'
    <3>1. Raised => AlertedSince(b, job[w].cutoff)'
      BY <1>1, <1>2, <1>4, <2>4, <2>5 DEF AlertedSince
    <3> QED
      BY <2>2, <3>1
  <2>8. ASSUME NEW c \in Browser, NEW t \in 0 .. MaxClock, LooksAt(w, c, t), ~MayFail("mongo")
        PROVE  AlertedSince(c, t - Window)'
    <3>1. c = b /\ t - Window = job[w].cutoff
      BY <2>8 DEF LooksAt
    <3> QED
      BY <1>2, <2>7, <2>8, <3>1 DEF AlertedSince
  <2> QED
    BY <1>1, <1>2, <1>5, <2>6, <2>8, RaisedPassesOn
<1> QED
  BY <1>7, <1>8, <1>9

(* Whoever records a failure looks at the window that ends with it; the    *)
(* windows that ended before are as they were.                             *)
LEMMA RaisedRecords ==
    ASSUME TypeOK, RaisedInv, NEW w \in Worker, RecordFailure(w)
    PROVE  RaisedInv'
<1> USE DEF mongo, sql, history, Goto
<1>1. /\ pc \in [Worker -> Step] /\ DOMAIN job = Worker /\ \A v \in Worker : JobOK(v)
      /\ clock \in 0 .. MaxClock /\ MaxClock \in Nat /\ Window \in Nat
      /\ failures \in [Browser -> [0 .. MaxClock -> Nat]]
  BY SessionsAssumption DEF TypeOK
<1>2. UNCHANGED <<alerts, clock, faults, keys>> /\ pc[w] = "record" /\ ~Looking(w)
      /\ \A v \in Worker \ {w} : pc'[v] = pc[v]
  BY <1>1 DEF RecordFailure, Looking, AlertSteps
<1>3. job[w] \in Job /\ job[w].browser \in Browser
  BY <1>1, <1>2 DEF JobOK, Job
<1>4. ASSUME NEW v \in Worker \ {w}, NEW b \in Browser, NEW t \in 0 .. MaxClock, LooksAt(v, b, t)
      PROVE  LooksAt(v, b, t)'
  <2>1. job[v] \in Job
    BY <1>1, <1>4 DEF LooksAt, Looking, AlertSteps, JobOK
  <2>2. job'[v] = job[v] \/ job'[v] = [job[v] EXCEPT !.solo = FALSE]
    BY <1>1 DEF RecordFailure
  <2>3. job'[v].browser = job[v].browser /\ job'[v].cutoff = job[v].cutoff
    BY <2>1, <2>2 DEF Job
  <2> QED
    BY <1>2, <1>4, <2>3 DEF LooksAt, Looking
<1>5. CASE failures' = failures
  <2>1. ASSUME NEW v \in Worker, NEW b \in Browser, NEW t \in 0 .. MaxClock, LooksAt(v, b, t)
        PROVE  LooksAt(v, b, t)'
    BY <1>2, <1>4, <2>1 DEF LooksAt
  <2>2. \A b \in Browser, c \in Int : AlertedSince(b, c) => AlertedSince(b, c)'
    BY <1>2 DEF AlertedSince
  <2> QED
    BY <1>1, <1>2, <1>5, <2>1, <2>2, RaisedPassesOn
<1>6. CASE failures' # failures
  <2> PICK b \in Browser : b = job[w].browser
    BY <1>3
  <2>1. /\ failures' = [failures EXCEPT ![b][clock] = @ + 1]
        /\ pc'[w] = "count" \/ MayFail("mongo")
    BY <1>1, <1>6 DEF RecordFailure
  <2>2. /\ \A c \in Browser \ {b} : failures'[c] = failures[c]
        /\ failures'[b] = [failures[b] EXCEPT ![clock] = @ + 1]
    BY <1>1, <1>3, <2>1
  <2>3. /\ failures[b] \in [0 .. MaxClock -> Nat] /\ failures'[b] \in [0 .. MaxClock -> Nat]
        /\ \A t \in 0 .. MaxClock : t # clock => failures'[b][t] = failures[b][t]
    BY <1>1, <1>3, <2>2
  <2>4. NoneAhead'
    <3>1. ASSUME NEW c \in Browser, NEW t \in 0 .. MaxClock, t > clock PROVE failures'[c][t] = 0
      <4>1. failures[c][t] = 0 /\ t # clock
        BY <1>1, <3>1 DEF RaisedInv, NoneAhead
      <4> QED
        BY <2>2, <2>3, <4>1
    <3> QED
      BY <1>2, <3>1 DEF NoneAhead
  <2>5. ASSUME ~MayFail("mongo"), NEW t, t = clock PROVE LooksAt(w, b, t)'
    <3>1. pc'[w] = "count" /\ b \in Browser
      BY <1>3, <2>1, <2>5
    <3>2. \E solo \in BOOLEAN : job'[w] = [job[w] EXCEPT !.kind = "fail", !.solo = solo,
                                                         !.cutoff = clock - Window]
      BY <1>1, <1>6, <2>1, <2>5 DEF RecordFailure
    <3>3. job'[w].browser = b /\ job'[w].cutoff = t - Window
      BY <1>3, <2>5, <3>2 DEF Job
    <3> QED
      BY <1>2, <3>1, <3>3 DEF LooksAt, Looking, AlertSteps
  <2>6. ASSUME NEW t \in 0 .. MaxClock, t # clock, Enough(b, t)' PROVE Enough(b, t)
    <3> DEFINE S == {s \in 0 .. t : s >= t - Window}
    <3>1. failures[b][t] > 0
      BY <2>3, <2>6 DEF Enough
    <3>2. t < clock
      BY <1>1, <1>3, <2>6, <3>1 DEF RaisedInv, NoneAhead
    <3>3. S \subseteq 0 .. MaxClock /\ clock \notin S
      BY <1>1, <3>2
    <3>4. IsFiniteSet(S)
      <4>1. IsFiniteSet(0 .. MaxClock)
        BY <1>1, FS_Interval
      <4> HIDE DEF S
      <4> QED
        BY <3>3, <4>1, FS_Subset
    <3>5. SumOf(failures'[b], S) >= Threshold
      BY <2>6 DEF Enough
    <3> DEFINE f == failures[b]
               g == failures'[b]
    <3>6. \A x \in S : f[x] \in Nat /\ g[x] \in Nat /\ g[x] =< f[x]
      <4>1. \A x \in S : x \in 0 .. MaxClock /\ x # clock
        BY <3>3
      <4>2. f \in [0 .. MaxClock -> Nat] /\ \A x \in 0 .. MaxClock : x # clock => g[x] = f[x]
        BY <2>3
      <4>3. \A n \in Nat : n =< n
        OBVIOUS
      <4> HIDE DEF S, f, g
      <4> QED
        BY <4>1, <4>2, <4>3
    <3> HIDE DEF S, f, g
    <3>7. SumOf(f, S) \in Nat /\ SumOf(g, S) \in Nat /\ SumOf(g, S) =< SumOf(f, S)
      BY <3>4, <3>6, SumGrows
    <3>8. SumOf(f, S) >= Threshold
      BY <3>5, <3>7, SessionsAssumption DEF g
    <3> QED
      BY <3>1, <3>8 DEF Enough, S, f
  <2>7. ASSUME NEW c \in Browser, c # b, NEW t \in 0 .. MaxClock, Enough(c, t)' PROVE Enough(c, t)
    BY <2>2, <2>7 DEF Enough
  <2>8. ASSUME ~MayFail("mongo")', (keys = Cardinality(Process))', NEW c \in Browser,
               NEW t \in 0 .. MaxClock, Enough(c, t)'
        PROVE  AlertedSince(c, t - Window)' \/ \E v \in Worker : LooksAt(v, c, t)'
    <3>1. ~MayFail("mongo") /\ keys = Cardinality(Process)
      BY <1>2, <2>8 DEF MayFail
    <3>2. CASE c = b /\ t = clock
      BY <2>5, <3>1, <3>2
    <3>3. CASE ~(c = b /\ t = clock)
      <4>1. Enough(c, t)
        BY <2>6, <2>7, <2>8, <3>3
      <4>2. CASE AlertedSince(c, t - Window)
        BY <1>2, <4>2 DEF AlertedSince
      <4>3. CASE \E v \in Worker : LooksAt(v, c, t)
        <5>1. PICK v \in Worker : LooksAt(v, c, t)
          BY <4>3
        <5>2. v # w
          BY <1>2, <5>1 DEF LooksAt
        <5> QED
          BY <1>4, <5>1, <5>2
      <4> QED
        BY <3>1, <4>1, <4>2, <4>3 DEF RaisedInv
    <3> QED
      BY <3>2, <3>3
  <2> QED
    BY <1>2, <2>4, <2>8 DEF RaisedInv
<1> QED
  BY <1>5, <1>6

LEMMA RaisedInductive == TypeOK /\ SpacedInv /\ RaisedInv /\ [Next]_vars => RaisedInv'
<1> SUFFICES ASSUME TypeOK, SpacedInv, RaisedInv, [Next]_vars PROVE RaisedInv'
  OBVIOUS
<1> USE DEF mongo, sql, history, Goto
<1>1. /\ pc \in [Worker -> Step] /\ DOMAIN job = Worker
      /\ \A w \in Worker : JobOK(w)
      /\ clock \in Nat /\ keys \in Nat
  BY DEF TypeOK
<1>2. ASSUME UNCHANGED <<failures, alerts, faults, keys>>, clock' \in Nat, clock =< clock',
             \A w \in Worker : Looking(w) =>
                Looking(w)' /\ job'[w].browser = job[w].browser /\ job'[w].cutoff = job[w].cutoff
      PROVE  RaisedInv'
  <2>1. \A b \in Browser, c \in Int : AlertedSince(b, c) => AlertedSince(b, c)'
    BY <1>2 DEF AlertedSince
  <2>2. \A w \in Worker, b \in Browser, t \in 0 .. MaxClock : LooksAt(w, b, t) => LooksAt(w, b, t)'
    BY <1>2 DEF LooksAt
  <2> QED
    BY <1>2, <2>1, <2>2, RaisedPassesOn
<1>3. ASSUME NEW w \in Worker, NEW b \in Browser, NEW p \in Process, NEW kind \in Kind,
             NEW name \in User \cup {None}, Begin(w, b, p, kind, name)
      PROVE  RaisedInv'
  <2>1. UNCHANGED <<failures, alerts, faults, keys, clock>> /\ ~Looking(w)
        /\ \A v \in Worker \ {w} : pc'[v] = pc[v] /\ job'[v] = job[v]
    BY <1>1, <1>3 DEF Begin, Looking, AlertSteps
  <2> QED
    BY <1>1, <1>2, <2>1 DEF Looking
<1>4. ASSUME NEW w \in Worker,
             \/ CheckPassword(w) \/ Upgrade(w) \/ CreateNode(w) \/ LogCase(w)
             \/ Answer(w) \/ LogLogin(w)
      PROVE  RaisedInv'
  <2>1. UNCHANGED <<failures, alerts, faults, keys, clock>> /\ ~Looking(w)
        /\ \A v \in Worker \ {w} : pc'[v] = pc[v] /\ job'[v] = job[v]
    BY <1>1, <1>4 DEF CheckPassword, Upgrade, CreateNode, LogCase, Answer, LogLogin, Respond,
                      Looking, AlertSteps
  <2> QED
    BY <1>1, <1>2, <2>1 DEF Looking
<1>5. ASSUME NEW w \in Worker, Stamp(w) \/ AnswerSet(w) \/ InsertCase(w) PROVE RaisedInv'
  <2>1. UNCHANGED <<failures, alerts, faults, keys, clock>> /\ ~Looking(w)
        /\ \A v \in Worker \ {w} : pc'[v] = pc[v] /\ job'[v] = job[v]
    BY <1>1, <1>5 DEF Stamp, AnswerSet, InsertCase, Respond, Looking, AlertSteps
  <2> QED
    BY <1>1, <1>2, <2>1 DEF Looking
<1>6. ASSUME NEW w \in Worker, AnswerClear(w) PROVE RaisedInv'
  <2>1. /\ UNCHANGED <<failures, alerts, faults, keys, clock>> /\ ~Looking(w)
        /\ \A v \in Worker \ {w} : pc'[v] = pc[v]
    BY <1>1, <1>6 DEF AnswerClear, Looking, AlertSteps
  <2>2. ASSUME NEW v \in Worker \ {w}, Looking(v)
        PROVE  job'[v].browser = job[v].browser /\ job'[v].cutoff = job[v].cutoff
    <3>1. job[v] \in Job
      BY <1>1, <2>2 DEF JobOK, Looking, AlertSteps
    <3>2. job'[v] = job[v] \/ job'[v] = [job[v] EXCEPT !.late = TRUE]
      BY <1>6 DEF AnswerClear
    <3> QED
      BY <3>1, <3>2 DEF Job
  <2> QED
    BY <1>1, <1>2, <2>1, <2>2 DEF Looking
<1>7. ASSUME NEW p \in Process, Restart(p) PROVE RaisedInv'
  <2>1. keys' = keys + 1 /\ UNCHANGED <<failures, clock>>
    BY <1>7 DEF Restart
  <2>2. keys >= Cardinality(Process) /\ Cardinality(Process) \in Nat
    BY SessionsAssumption, FS_CardinalityType DEF RaisedInv
  <2> DEFINE n == Cardinality(Process)
  <2>3. keys' >= n /\ ~(keys' = n)
    <3> HIDE DEF n
    <3>1. keys >= n /\ n \in Nat
      BY <2>2 DEF n
    <3> QED
      BY <1>1, <2>1, <3>1
  <2> HIDE DEF n
  <2>4. NoneAhead'
    BY <2>1 DEF RaisedInv, NoneAhead
  <2> QED
    BY <2>3, <2>4 DEF RaisedInv, n
<1>8. CASE Tick \/ UNCHANGED vars
  <2>1. UNCHANGED <<failures, alerts, faults, keys, pc, job>> /\ clock' \in Nat /\ clock =< clock'
    BY <1>1, <1>8 DEF Tick, vars
  <2> QED
    BY <1>2, <2>1 DEF Looking
<1> QED
  BY <1>3, <1>4, <1>5, <1>6, <1>7, <1>8, RaisedLooks, RaisedRecords DEF Next, Continue

(* Where enough attempts failed within the window there is an alert once   *)
(* the requests have ended, provided MongoDB did not fail and no process   *)
(* was stopped: however the requests that count, look for an alert and     *)
(* raise one overlap, they do not leave it to one another.                 *)
THEOREM BruteForceCorrect == Spec => []BruteForceIsRaised
<1>1. Init => SpacedInv
  BY DEF Init, SpacedInv, AlertsAreSpaced, Looking, AlertSteps
<1>2. Init => RaisedInv
  <2> SUFFICES ASSUME Init PROVE RaisedInv
    OBVIOUS
  <2>1. Cardinality(Process) \in Nat /\ keys = Cardinality(Process)
    BY SessionsAssumption, FS_CardinalityType DEF Init
  <2>2. \A b \in Browser, t \in 0 .. MaxClock : failures[b][t] = 0
    BY DEF Init
  <2>3. \A b \in Browser, t \in 0 .. MaxClock : ~Enough(b, t)
    BY <2>2 DEF Enough
  <2> DEFINE n == Cardinality(Process)
  <2>4. keys >= n
    <3> HIDE DEF n
    <3>1. n \in Nat /\ keys = n
      BY <2>1 DEF n
    <3> QED
      BY <3>1
  <2> QED
    BY <2>2, <2>3, <2>4 DEF RaisedInv, NoneAhead
<1>3. TypeOK /\ RaisedInv => BruteForceIsRaised
  <2> SUFFICES ASSUME RaisedInv, ~MayFail("mongo"), keys = Cardinality(Process),
                      \A w \in Worker : pc[w] = "idle",
                      NEW b \in Browser, NEW t \in 0 .. MaxClock, Enough(b, t)
               PROVE  \E i \in DOMAIN alerts[b] : alerts[b][i].time >= t - Window
    BY DEF BruteForceIsRaised, Enough, SumOf
  <2>1. \A w \in Worker : ~LooksAt(w, b, t)
    BY DEF LooksAt, Looking, AlertSteps
  <2> QED
    BY <2>1 DEF RaisedInv, AlertedSince
<1> QED
  BY <1>1, <1>2, <1>3, SpacedInductive, RaisedInductive, TypeCorrect, PTL DEF Spec

=============================================================================
