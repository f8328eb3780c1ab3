------------------------- MODULE EvidenceAccessProofs -------------------------
(***************************************************************************)
(* Proofs about EvidenceAccess, for any users, workers and kinds of        *)
(* failure and any number of downloads, URLs, grants and revocations.      *)
(***************************************************************************)
EXTENDS EvidenceAccess, SequenceTheorems, TLAPS

PcType  == [Worker -> {"idle"} \cup RequestSteps \cup ChangeSteps \cup PageSteps]
Attempt == [id: 1 .. begun, user: User, success: BOOLEAN]

(* What may become of the request of a download or URL when a log entry is *)
(* written: the log holds one entry of it more, or is as it was.           *)
LEMMA LogStep ==
    ASSUME TypeOK, NEW w \in Worker, NEW success \in BOOLEAN, pc[w] \in RequestSteps,
           \/ attempts' = attempts \cup {[id |-> job[w].id, user |-> job[w].user,
                                          success |-> success]}
           \/ attempts' = attempts,
           begun' = begun
    PROVE  attempts' \subseteq Attempt'
<1>1. job[w].id \in 1 .. begun /\ job[w].user \in User
  BY DEF TypeOK, JobOK, Request
<1> QED
  BY <1>1 DEF TypeOK, Attempt

(* The requests keep the types of their local variables in a step that     *)
(* moves one of them, counts no request and gives it no local variables of *)
(* its own.                                                                *)
LEMMA JobsKept ==
    ASSUME TypeOK, NEW w \in Worker, begun' = begun,
           \/ Respond(w)
           \/ \E s \in RequestSteps : pc[w] \in RequestSteps /\ Goto(w, s) /\ UNCHANGED job
           \/ \E s \in ChangeSteps : pc[w] \in ChangeSteps /\ Goto(w, s) /\ UNCHANGED job
           \/ \E s \in PageSteps : pc[w] \in PageSteps /\ Goto(w, s) /\ UNCHANGED job
    PROVE  pc' \in PcType /\ DOMAIN job' = Worker /\ \A v \in Worker : JobOK(v)'
<1> USE DEF RequestSteps, ChangeSteps, PageSteps
<1>1. pc \in PcType /\ DOMAIN job = Worker /\ \A v \in Worker : JobOK(v)
  BY DEF TypeOK, PcType
<1>2. CASE Respond(w)
  BY <1>1, <1>2 DEF Respond, PcType, JobOK
<1>3. CASE \E s \in RequestSteps : pc[w] \in RequestSteps /\ Goto(w, s) /\ UNCHANGED job
  BY <1>1, <1>3 DEF Goto, PcType, JobOK
<1>4. CASE \E s \in ChangeSteps : pc[w] \in ChangeSteps /\ Goto(w, s) /\ UNCHANGED job
  BY <1>1, <1>4 DEF Goto, PcType, JobOK
<1>5. CASE \E s \in PageSteps : pc[w] \in PageSteps /\ Goto(w, s) /\ UNCHANGED job
  BY <1>1, <1>5 DEF Goto, PcType, JobOK
<1> QED
  BY <1>2, <1>3, <1>4, <1>5

(* And in a step that moves one of them and gives it local variables of    *)
(* the type of the step it gets to.                                        *)
LEMMA JobSet ==
    ASSUME TypeOK, NEW w \in Worker, NEW s, begun' \in Nat, begun =< begun',
           Goto(w, s), DOMAIN job' = Worker, \A v \in Worker \ {w} : job'[v] = job[v],
           \/ s \in RequestSteps /\ job'[w] \in Request /\ job'[w].id \in 1 .. begun'
           \/ s \in ChangeSteps /\ job'[w] \in Change
           \/ s \in PageSteps /\ job'[w] \in Page
    PROVE  pc' \in PcType /\ DOMAIN job' = Worker /\ \A v \in Worker : JobOK(v)'
<1>1. pc \in PcType /\ begun \in Nat /\ \A v \in Worker : JobOK(v)
  BY DEF TypeOK, PcType
<1>2. pc' = [pc EXCEPT ![w] = s]
  BY DEF Goto
<1>3. pc' \in PcType
  BY <1>1, <1>2 DEF PcType
<1>4. JobOK(w)'
  BY <1>1, <1>2 DEF JobOK, PcType, RequestSteps, ChangeSteps, PageSteps
<1>5. ASSUME NEW v \in Worker \ {w} PROVE JobOK(v)'
  <2>1. pc'[v] = pc[v] /\ job'[v] = job[v] /\ JobOK(v)
    BY <1>1, <1>2 DEF PcType
  <2> QED
    BY <1>1, <2>1 DEF JobOK
<1> QED
  BY <1>3, <1>4, <1>5

LEMMA KnownUrl ==
    ASSUME NEW S, NEW l \in [id: S, known: BOOLEAN]
    PROVE  [l EXCEPT !.known = TRUE] \in [id: S, known: BOOLEAN]
OBVIOUS

(* Every variable keeps its type, and the local variables of a request are *)
(* those of the step it has reached.                                       *)
THEOREM TypeCorrect == Spec => []TypeOK
<1> USE AccessAssumption DEF FaultKind
<1>1. Init => TypeOK
  <2> SUFFICES ASSUME Init PROVE TypeOK
    OBVIOUS
  <2>1. \A w \in Worker : JobOK(w)
    BY DEF Init, JobOK, RequestSteps, ChangeSteps, PageSteps
  <2>2. pc \in [Worker -> {"idle"} \cup RequestSteps \cup ChangeSteps \cup PageSteps]
    BY DEF Init
  <2>3. audit \in Seq([user: Restricted, to: {"active", "revoked"}])
    BY DEF Init
  <2>4. access \in [Restricted -> {"none", "active", "revoked"}] /\ DOMAIN job = Worker
    BY DEF Init
  <2>5. faults \subseteq FaultKind
    BY DEF Init
  <2>6. /\ stored \in BOOLEAN /\ crossed \in BOOLEAN
        /\ begun \in Nat /\ changes \in Nat /\ epoch \in Nat
        /\ attempts = {} /\ urls = {} /\ entitled = {} /\ served = {}
    BY DEF Init
  <2> QED
    BY <2>1, <2>2, <2>3, <2>4, <2>5, <2>6 DEF TypeOK
<1>2. ASSUME TypeOK, [Next]_vars PROVE TypeOK'
  <2> DEFINE JobsOK == pc' \in PcType /\ DOMAIN job' = Worker /\ \A v \in Worker : JobOK(v)'
  <2> USE <1>2 DEF postgres, mongo, history, MayFail
  <2>1. /\ pc \in PcType /\ DOMAIN job = Worker
        /\ begun \in Nat /\ changes \in Nat /\ epoch \in Nat
    BY DEF TypeOK, PcType
  <2>2. ASSUME NEW w \in Worker, NEW u \in User, NEW kind \in Kind, BeginRequest(w, u, kind)
        PROVE  TypeOK'
    <3>1. JobsOK
      BY <2>1, <2>2, JobSet DEF BeginRequest, Request, RequestSteps
    <3> QED
      BY <2>1, <2>2, <3>1 DEF BeginRequest, TypeOK, PcType
  <2>3. ASSUME NEW w \in Worker, ReadRow(w) PROVE TypeOK'
    <3>1. JobsOK
      BY <2>3, JobsKept DEF ReadRow, Raise, RequestSteps
    <3> QED
      BY <2>3, <3>1 DEF ReadRow, TypeOK, PcType
  <2>4. ASSUME NEW w \in Worker, CheckAccess(w) PROVE TypeOK'
    <3>1. JobsOK
      BY <2>4, JobsKept DEF CheckAccess, RequestSteps
    <3> QED
      BY <2>4, <3>1 DEF CheckAccess, TypeOK, PcType
  <2>5. ASSUME NEW w \in Worker, Deny(w) PROVE TypeOK'
    <3>1. JobsOK
      BY <2>5, JobsKept DEF Deny, LogAttempt, Raise, RequestSteps
    <3>2. attempts' \subseteq Attempt'
      BY <2>5, LogStep DEF Deny, LogAttempt, RequestSteps
    <3> QED
      BY <2>5, <3>1, <3>2 DEF Deny, TypeOK, PcType, Attempt
  <2>6. ASSUME NEW w \in Worker, Fetch(w) PROVE TypeOK'
    <3>1. JobsOK
      BY <2>6, JobsKept DEF Fetch, Raise, RequestSteps
    <3>2. urls' \subseteq [id: 1 .. begun, known: BOOLEAN]
      <4>1. job[w].id \in 1 .. begun /\ urls \subseteq [id: 1 .. begun, known: BOOLEAN]
        BY <2>6 DEF Fetch, TypeOK, JobOK, RequestSteps
      <4>2. urls' \subseteq urls \cup {[id |-> job[w].id, known |-> FALSE]}
        BY <2>6 DEF Fetch
      <4>3. [id |-> job[w].id, known |-> FALSE] \in [id: 1 .. begun, known: BOOLEAN]
        BY <4>1
      <4> QED
        BY <4>1, <4>2, <4>3
    <3> QED
      BY <2>6, <3>1, <3>2 DEF Fetch, TypeOK, PcType
  <2>7. ASSUME NEW w \in Worker, LogSuccess(w) PROVE TypeOK'
    <3>1. JobsOK
      BY <2>7, JobsKept DEF LogSuccess, LogAttempt, Raise, RequestSteps
    <3>2. attempts' \subseteq Attempt'
      BY <2>7, LogStep DEF LogSuccess, LogAttempt, RequestSteps
    <3> QED
      BY <2>7, <3>1, <3>2 DEF LogSuccess, TypeOK, PcType, Attempt
  <2>8. ASSUME NEW w \in Worker, Deliver(w) PROVE TypeOK'
    <3>1. JobsOK
      BY <2>8, JobsKept DEF Deliver
    <3>2. job[w] \in Request /\ job[w].id \in 1 .. begun
      BY <2>8 DEF Deliver, TypeOK, JobOK, RequestSteps
    <3>3. served' \subseteq [id: 1 .. begun, user: User, kind: Kind, since: Nat, until: Nat]
      BY <2>1, <2>8, <3>2 DEF Deliver, TypeOK, Request
    <3>4. urls' \subseteq [id: 1 .. begun, known: BOOLEAN]
      <4>1. urls' = {IF l.id = job[w].id THEN [l EXCEPT !.known = TRUE] ELSE l : l \in urls}
        BY <2>8 DEF Deliver
      <4>2. \A l \in urls : /\ l \in [id: 1 .. begun, known: BOOLEAN]
                            /\ [l EXCEPT !.known = TRUE] \in [id: 1 .. begun, known: BOOLEAN]
        BY KnownUrl DEF TypeOK
      <4> QED
        BY <4>1, <4>2, ZenonT(30)
    <3> QED
      BY <2>8, <3>1, <3>3, <3>4 DEF Deliver, TypeOK, PcType
  <2>9. ASSUME NEW w \in Worker, Fail(w) PROVE TypeOK'
    <3>1. JobsOK
      BY <2>9, JobsKept DEF Fail
    <3>2. attempts' \subseteq Attempt'
      BY <2>9, LogStep DEF Fail, RequestSteps
    <3> QED
      BY <2>9, <3>1, <3>2 DEF Fail, TypeOK, PcType, Attempt
  <2>10. ASSUME NEW w \in Worker, NEW u \in Restricted, NEW to \in {"active", "revoked"},
                BeginChange(w, u, to)
         PROVE  TypeOK'
    <3>1. JobsOK
      BY <2>1, <2>10, JobSet DEF BeginChange, Change, ChangeSteps
    <3> QED
      BY <2>1, <2>10, <3>1 DEF BeginChange, TypeOK, PcType
  <2>11. ASSUME NEW w \in Worker, CommitChange(w) PROVE TypeOK'
    <3>1. job[w] \in Change
      BY <2>11 DEF CommitChange, TypeOK, JobOK, ChangeSteps
    <3>2. \/ job'[w] = [job[w] EXCEPT !.committed = TRUE]
          \/ job'[w] = [job[w] EXCEPT !.committed = TRUE, !.said = {"failed"}]
      BY <2>1, <2>11 DEF CommitChange
    <3>3. job'[w] \in Change
      <4> DEFINE c == [job[w] EXCEPT !.committed = TRUE]
      <4>1. c \in Change
        BY <3>1 DEF Change
      <4>2. [c EXCEPT !.said = {"failed"}] \in Change
        BY <4>1 DEF Change
      <4>3. [c EXCEPT !.said = {"failed"}] = [job[w] EXCEPT !.committed = TRUE, !.said = {"failed"}]
        OBVIOUS
      <4> QED
        BY <3>2, <4>1, <4>2, <4>3
    <3>4. /\ \E s \in ChangeSteps : Goto(w, s)
          /\ DOMAIN job' = Worker /\ \A v \in Worker \ {w} : job'[v] = job[v]
          /\ begun' = begun
      BY <2>1, <2>11 DEF CommitChange, ChangeSteps
    <3>5. JobsOK
      BY <2>1, <3>3, <3>4, JobSet
    <3>6. access' \in [Restricted -> {"none", "active", "revoked"}]
      BY <2>11, <3>1 DEF CommitChange, TypeOK, RowAfter, Change
    <3>7. entitled' \subseteq Restricted \X (1 .. epoch')
      BY <2>1, <2>11 DEF CommitChange, TypeOK
    <3> QED
      BY <2>1, <2>11, <3>5, <3>6, <3>7 DEF CommitChange, TypeOK, PcType
  <2>12. ASSUME NEW w \in Worker, ChangeFails(w) PROVE TypeOK'
    <3>1. job[w] \in Change
      BY <2>12 DEF ChangeFails, TypeOK, JobOK, ChangeSteps
    <3>2. job'[w] = [job[w] EXCEPT !.said = {"failed"}]
      BY <2>1, <2>12 DEF ChangeFails
    <3>3. job'[w] \in Change
      BY <3>1, <3>2 DEF Change
    <3>4. /\ \E s \in ChangeSteps : Goto(w, s)
          /\ DOMAIN job' = Worker /\ \A v \in Worker \ {w} : job'[v] = job[v]
          /\ begun' = begun
      BY <2>1, <2>12 DEF ChangeFails, ChangeSteps
    <3>5. JobsOK
      BY <2>1, <3>3, <3>4, JobSet
    <3> QED
      BY <2>12, <3>5 DEF ChangeFails, TypeOK, PcType
  <2>13. ASSUME NEW w \in Worker, ReadName(w) PROVE TypeOK'
    <3>1. job[w] \in Change
      BY <2>13 DEF ReadName, TypeOK, JobOK, ChangeSteps
    <3>2. job'[w] = [job[w] EXCEPT !.said = {"done"}]
      BY <2>1, <2>13 DEF ReadName
    <3>3. job'[w] \in Change
      BY <3>1, <3>2 DEF Change
    <3>4. /\ \E s \in ChangeSteps : Goto(w, s)
          /\ DOMAIN job' = Worker /\ \A v \in Worker \ {w} : job'[v] = job[v]
          /\ begun' = begun
      BY <2>1, <2>13 DEF ReadName, ChangeSteps
    <3>5. JobsOK
      BY <2>1, <3>3, <3>4, JobSet
    <3> QED
      BY <2>13, <3>5 DEF ReadName, TypeOK, PcType
  <2>14. ASSUME NEW w \in Worker, AuditChange(w) PROVE TypeOK'
    <3>1. job[w] \in Change
      BY <2>14 DEF AuditChange, TypeOK, JobOK, ChangeSteps
    <3>2. \/ job'[w] = [job[w] EXCEPT !.logged = TRUE]
          \/ job'[w] = [job[w] EXCEPT !.logged = TRUE, !.said = job[w].said \cup {"failed"}]
          \/ job'[w] = [job[w] EXCEPT !.said = job[w].said \cup {"failed"}]
      BY <2>1, <2>14 DEF AuditChange
    <3>3. job'[w] \in Change
      <4> DEFINE c == [job[w] EXCEPT !.logged = TRUE]
                 said == job[w].said \cup {"failed"}
      <4>1. c \in Change /\ said \in SUBSET {"done", "failed"}
        BY <3>1 DEF Change
      <4>2. [c EXCEPT !.said = said] \in Change /\ [job[w] EXCEPT !.said = said] \in Change
        BY <3>1, <4>1 DEF Change
      <4>3. [c EXCEPT !.said = said] = [job[w] EXCEPT !.logged = TRUE, !.said = said]
        OBVIOUS
      <4> QED
        BY <3>2, <4>1, <4>2, <4>3
    <3>4. /\ \E s \in ChangeSteps : Goto(w, s)
          /\ DOMAIN job' = Worker /\ \A v \in Worker \ {w} : job'[v] = job[v]
          /\ begun' = begun
      BY <2>1, <2>14 DEF AuditChange, ChangeSteps
    <3>5. JobsOK
      BY <2>1, <3>3, <3>4, JobSet
    <3>6. audit' \in Seq([user: Restricted, to: {"active", "revoked"}])
      <4>1. audit \in Seq([user: Restricted, to: {"active", "revoked"}])
        BY DEF TypeOK
      <4>2. [user |-> job[w].user, to |-> job[w].to] \in [user: Restricted, to: {"active", "revoked"}]
        BY <3>1 DEF Change
      <4>3. \/ audit' = Append(audit, [user |-> job[w].user, to |-> job[w].to])
            \/ audit' = audit
        BY <2>14 DEF AuditChange
      <4>4. CASE audit' = Append(audit, [user |-> job[w].user, to |-> job[w].to])
        BY <4>1, <4>2, <4>4, AppendProperties
      <4>5. CASE audit' = audit
        BY <4>1, <4>5
      <4> QED
        BY <4>3, <4>4, <4>5
    <3> QED
      BY <2>14, <3>5, <3>6 DEF AuditChange, TypeOK, PcType
  <2>15. ASSUME NEW w \in Worker, ListGrants(w) PROVE TypeOK'
    <3>1. JobsOK
      BY <2>1, <2>15, JobSet DEF ListGrants, Page, PageSteps
    <3> QED
      BY <2>15, <3>1 DEF ListGrants, TypeOK, PcType
  <2>16. ASSUME NEW w \in Worker, ListOffered(w) PROVE TypeOK'
    <3>1. job[w] \in Page
      BY <2>16 DEF ListOffered, TypeOK, JobOK, PageSteps
    <3>2. job'[w] \in Page
      BY <2>1, <2>16, <3>1 DEF ListOffered, Offered, Page
    <3>3. JobsOK
      BY <2>1, <2>16, <3>2, JobSet DEF ListOffered, PageSteps
    <3> QED
      BY <2>16, <3>3 DEF ListOffered, TypeOK, PcType
  <2>17. ASSUME NEW w \in Worker, Tell(w) \/ ShowPage(w) \/ Crash(w) PROVE TypeOK'
    <3>1. JobsOK
      BY <2>17, JobsKept DEF Tell, ShowPage, Crash
    <3> QED
      BY <2>17, <3>1 DEF Tell, ShowPage, Crash, TypeOK, PcType
  <2>18. CASE \/ UNCHANGED vars \/ StoreEvidence \/ \E url \in urls : Expire(url)
    <3>1. pc' = pc /\ job' = job /\ begun' = begun
      BY <2>18 DEF vars, StoreEvidence, Expire
    <3>2. \A v \in Worker : JobOK(v)'
      BY <3>1 DEF TypeOK, JobOK
    <3> QED
      BY <2>18, <3>1, <3>2 DEF vars, StoreEvidence, Expire, TypeOK
  <2> HIDE DEF TypeOK
  <2> QED
    BY <2>2, <2>3, <2>4, <2>5, <2>6, <2>7, <2>8, <2>9, <2>10, <2>11, <2>12, <2>13,
       <2>14, <2>15, <2>16, <2>17, <2>18 DEF Next, Continue
<1> QED
  BY <1>1, <1>2, PTL DEF Spec

-----------------------------------------------------------------------------
(* An active grant is entitled in the current epoch; a request that has    *)
(* passed the access check was entitled since it came.                     *)
RightOf(w) ==
    /\ pc[w] \in RequestSteps => job[w].since =< epoch
    /\ pc[w] \in {"fetch", "log", "deliver"} =>
          EntitledDuring(job[w].user, job[w].since, epoch)

EntitledInv ==
    /\ \A u \in Restricted : access[u] = "active" => <<u, epoch>> \in entitled
    /\ \A w \in Worker : RightOf(w)
    /\ OnlyEntitledAreServed

(* The right of a request stays with it as time passes. *)
LEMMA RightStays ==
    ASSUME TypeOK, NEW w \in Worker, RightOf(w), epoch' \in Nat, epoch =< epoch',
           entitled \subseteq entitled',
           pc'[w] \in RequestSteps => pc[w] \in RequestSteps /\ job'[w] = job[w],
           pc'[w] \in {"fetch", "log", "deliver"} => pc[w] \in {"fetch", "log", "deliver"}
    PROVE  RightOf(w)'
<1>1. epoch \in Nat /\ (pc[w] \in RequestSteps => job[w].since \in Nat)
  BY DEF TypeOK, JobOK, Request
<1>2. pc'[w] \in RequestSteps => job'[w].since =< epoch'
  BY <1>1 DEF RightOf
<1>3. pc'[w] \in {"fetch", "log", "deliver"} =>
         EntitledDuring(job'[w].user, job'[w].since, epoch)
  BY DEF RightOf, RequestSteps
<1>4. pc'[w] \in {"fetch", "log", "deliver"} => job'[w].since \in Nat
  BY <1>1 DEF RequestSteps
<1>5. pc'[w] \in {"fetch", "log", "deliver"} =>
         EntitledDuring(job[w].user, job[w].since, epoch)'
  <2> SUFFICES ASSUME pc'[w] \in {"fetch", "log", "deliver"},
                      NEW n \in job'[w].since .. epoch, <<job'[w].user, n>> \in entitled
               PROVE  \E m \in job'[w].since .. epoch' : <<job'[w].user, m>> \in entitled'
    BY <1>3 DEF EntitledDuring
  <2>1. n \in job'[w].since .. epoch'
    BY <1>1, <1>4
  <2> QED
    BY <2>1
<1> QED
  BY <1>2, <1>5 DEF RightOf

(* Whoever is served had the right to it while the request was under way.  *)
THEOREM EntitledCorrect == Spec => []OnlyEntitledAreServed
<1>1. Init => EntitledInv
  BY DEF Init, EntitledInv, RightOf, RequestSteps, OnlyEntitledAreServed
<1>2. ASSUME TypeOK, EntitledInv, [Next]_vars PROVE EntitledInv'
  <2> USE <1>2 DEF postgres, mongo, history, Goto, Respond
  <2>1. /\ pc \in PcType /\ DOMAIN job = Worker /\ epoch \in Nat
        /\ \A v \in Worker : RightOf(v)
    BY DEF TypeOK, PcType, EntitledInv
  <2>2. ASSUME NEW w \in Worker, NEW u \in User, NEW kind \in Kind, BeginRequest(w, u, kind)
        PROVE  EntitledInv'
    <3>1. RightOf(w)'
      BY <2>1, <2>2 DEF BeginRequest, RightOf, PcType
    <3>2. \A v \in Worker \ {w} : pc'[v] = pc[v] /\ job'[v] = job[v]
      BY <2>1, <2>2 DEF BeginRequest, PcType
    <3>3. UNCHANGED <<access, epoch, entitled, served>>
      BY <2>2 DEF BeginRequest
    <3>4. \A v \in Worker \ {w} : RightOf(v)'
      BY <2>1, <3>2, <3>3, RightStays
    <3> QED
      BY <3>1, <3>3, <3>4 DEF EntitledInv, OnlyEntitledAreServed, EntitledDuring
  <2>3. ASSUME NEW w \in Worker, CheckAccess(w) PROVE EntitledInv'
    <3>1. /\ pc[w] = "access" /\ job' = job
          /\ pc'[w] \in {"fetch", "deny"} /\ (pc'[w] = "fetch" => MayRead(job[w].user))
          /\ \A v \in Worker \ {w} : pc'[v] = pc[v]
      BY <2>1, <2>3 DEF CheckAccess, PcType
    <3>2. UNCHANGED <<access, epoch, entitled, served>>
      BY <2>3 DEF CheckAccess
    <3>3. RightOf(w)'
      <4>1. job[w].since \in Nat /\ job[w].since =< epoch
        BY <2>1, <3>1 DEF TypeOK, JobOK, Request, RequestSteps, RightOf
      <4>2. MayRead(job[w].user) => EntitledDuring(job[w].user, job[w].since, epoch)
        BY <2>1, <4>1 DEF MayRead, EntitledDuring, EntitledInv
      <4>3. pc'[w] = "fetch" => EntitledDuring(job[w].user, job[w].since, epoch)'
        BY <3>1, <3>2, <4>2 DEF EntitledDuring
      <4> QED
        BY <3>1, <3>2, <4>1, <4>3 DEF RightOf
    <3>4. \A v \in Worker \ {w} : RightOf(v)'
      BY <2>1, <3>1, <3>2, RightStays
    <3> QED
      BY <3>2, <3>3, <3>4 DEF EntitledInv, OnlyEntitledAreServed, EntitledDuring
  <2>4. ASSUME NEW w \in Worker, Deliver(w) PROVE EntitledInv'
    <3>1. UNCHANGED <<access, epoch, entitled>>
      BY <2>4 DEF Deliver
    <3>2. EntitledDuring(job[w].user, job[w].since, epoch)
      BY <2>1, <2>4 DEF Deliver, RightOf
    <3>3. ASSUME NEW s \in served' PROVE EntitledDuring(s.user, s.since, s.until)
      BY <2>4, <3>2 DEF Deliver, EntitledInv, OnlyEntitledAreServed
    <3>4. \A v \in Worker : pc'[v] = "idle" \/ (pc'[v] = pc[v] /\ job'[v] = job[v])
      BY <2>1, <2>4 DEF Deliver, PcType
    <3>5. \A v \in Worker : RightOf(v)'
      BY <2>1, <3>1, <3>4, RightStays DEF RequestSteps
    <3> QED
      BY <3>1, <3>3, <3>5 DEF EntitledInv, OnlyEntitledAreServed, EntitledDuring
  <2>5. ASSUME NEW w \in Worker, CommitChange(w) PROVE EntitledInv'
    <3>1. epoch' = epoch + 1 /\ served' = served /\ entitled \subseteq entitled'
      BY <2>5 DEF CommitChange
    <3>2. \A u \in Restricted : access'[u] = "active" => <<u, epoch'>> \in entitled'
      BY <2>5 DEF CommitChange
    <3>3. \A v \in Worker : pc'[v] \in RequestSteps => pc'[v] = pc[v] /\ job'[v] = job[v]
      BY <2>1, <2>5 DEF CommitChange, PcType, RequestSteps
    <3>4. \A v \in Worker : RightOf(v)'
      BY <2>1, <3>1, <3>3, RightStays DEF RequestSteps
    <3>5. OnlyEntitledAreServed'
      BY <3>1 DEF EntitledInv, OnlyEntitledAreServed, EntitledDuring
    <3> QED
      BY <3>2, <3>4, <3>5 DEF EntitledInv
  <2>6. ASSUME \/ UNCHANGED vars \/ StoreEvidence \/ \E url \in urls : Expire(url)
               \/ \E w \in Worker :
                     \/ \E u \in Restricted, to \in {"active", "revoked"} : BeginChange(w, u, to)
                     \/ ReadRow(w) \/ Deny(w) \/ Fetch(w) \/ LogSuccess(w) \/ Fail(w)
                     \/ ChangeFails(w) \/ ReadName(w) \/ AuditChange(w) \/ Tell(w)
                     \/ ListGrants(w) \/ ListOffered(w) \/ ShowPage(w) \/ Crash(w)
        PROVE  EntitledInv'
    <3>1. UNCHANGED <<access, epoch, entitled, served>>
      BY <2>6 DEF vars, StoreEvidence, Expire, BeginChange, ReadRow, Deny, Fetch, LogSuccess,
         Fail, ChangeFails, ReadName, AuditChange, Tell, ListGrants, ListOffered, ShowPage, Crash
    <3>2. \A v \in Worker :
             /\ pc'[v] \in RequestSteps => pc[v] \in RequestSteps /\ job'[v] = job[v]
             /\ pc'[v] \in {"fetch", "log", "deliver"} => pc[v] \in {"fetch", "log", "deliver"}
      <4>1. CASE \/ UNCHANGED vars \/ StoreEvidence \/ \E url \in urls : Expire(url)
        BY <4>1 DEF vars, StoreEvidence, Expire
      <4>2. CASE \E w \in Worker : ReadRow(w) \/ Deny(w) \/ Fetch(w) \/ LogSuccess(w) \/ Fail(w)
        BY <2>1, <4>2 DEF ReadRow, Deny, Fetch, LogSuccess, LogAttempt, Raise, Fail, PcType,
           RequestSteps
      <4>3. CASE \E w \in Worker :
                    \/ \E u \in Restricted, to \in {"active", "revoked"} : BeginChange(w, u, to)
                    \/ ChangeFails(w) \/ ReadName(w) \/ AuditChange(w) \/ Tell(w)
                    \/ ListGrants(w) \/ ListOffered(w) \/ ShowPage(w) \/ Crash(w)
        BY <2>1, <4>3 DEF BeginChange, ChangeFails, ReadName, AuditChange, Tell, ListGrants,
           ListOffered, ShowPage, Crash, PcType, RequestSteps
      <4> QED
        BY <2>6, <4>1, <4>2, <4>3
    <3>3. \A v \in Worker : RightOf(v)'
      BY <2>1, <3>1, <3>2, RightStays
    <3> QED
      BY <3>1, <3>3 DEF EntitledInv, OnlyEntitledAreServed, EntitledDuring
  <2> QED
    BY <2>2, <2>3, <2>4, <2>5, <2>6 DEF Next, Continue
<1>3. EntitledInv => OnlyEntitledAreServed
  BY DEF EntitledInv
<1> QED
  BY <1>1, <1>2, <1>3, TypeCorrect, PTL DEF Spec

-----------------------------------------------------------------------------
(* The audit of a change, and its table row, behind what it has answered.  *)
ToldOK(w) ==
    /\ pc[w] = "change" => job[w].said = {}
    /\ pc[w] = "name" => job[w].committed /\ job[w].said = {}
    /\ pc[w] = "audit" => job[w].committed /\ job[w].said = {"done"}
    /\ pc[w] = "tell" => /\ "done" \in job[w].said => job[w].committed
                         /\ job[w].said = {"done"} => job[w].logged

(* A page that is being built, and that no grant or revocation overtook.   *)
PageOK(w) ==
    /\ pc[w] \in PageSteps => job[w].since =< epoch
    /\ pc[w] = "offered" /\ job[w].since = epoch =>
          job[w].granted = {u \in Restricted : access[u] = "active"}
    /\ pc[w] = "show" /\ job[w].since = epoch => job[w].offered = Restricted \ job[w].granted

ToldInv == \A w \in Worker : ToldOK(w)
PageInv == \A w \in Worker : PageOK(w)

(* The steps that begin no grant or revocation and take none further, but  *)
(* for its end.                                                            *)
OtherStep ==
    \/ UNCHANGED vars \/ StoreEvidence \/ \E url \in urls : Expire(url)
    \/ \E w \in Worker :
          \/ \E u \in User, kind \in Kind : BeginRequest(w, u, kind)
          \/ ReadRow(w) \/ CheckAccess(w) \/ Deny(w) \/ Fetch(w) \/ LogSuccess(w)
          \/ Deliver(w) \/ Fail(w) \/ Tell(w)
          \/ ListGrants(w) \/ ListOffered(w) \/ ShowPage(w) \/ Crash(w)

LEMMA ChangesAside ==
    ASSUME TypeOK, OtherStep
    PROVE  /\ \A v \in Worker : pc'[v] \in ChangeSteps => pc'[v] = pc[v] /\ job'[v] = job[v]
           /\ UNCHANGED <<access, audit, faults, crossed>>
<1> USE DEF postgres, mongo, history, Goto, Respond
<1>1. pc \in PcType /\ DOMAIN job = Worker
  BY DEF TypeOK, PcType
<1>2. CASE \/ UNCHANGED vars \/ StoreEvidence \/ \E url \in urls : Expire(url)
  BY <1>2 DEF vars, StoreEvidence, Expire
<1>3. CASE \E w \in Worker :
              \/ ReadRow(w) \/ CheckAccess(w) \/ Deny(w) \/ Fetch(w) \/ LogSuccess(w)
              \/ Deliver(w) \/ Fail(w)
  BY <1>1, <1>3 DEF ReadRow, CheckAccess, Deny, Fetch, LogSuccess, LogAttempt, Raise,
     Deliver, Fail, PcType, ChangeSteps
<1>4. CASE \E w \in Worker :
              \/ \E u \in User, kind \in Kind : BeginRequest(w, u, kind)
              \/ Tell(w) \/ ListGrants(w) \/ ListOffered(w) \/ ShowPage(w) \/ Crash(w)
  BY <1>1, <1>4 DEF BeginRequest, Tell, ListGrants, ListOffered, ShowPage, Crash, PcType,
     ChangeSteps
<1> QED
  BY <1>2, <1>3, <1>4 DEF OtherStep

(* A grant or revocation that is answered with success is in the table,    *)
(* and in the audit log unless a failure is told as well.                  *)
THEOREM ToldCorrect == Spec => []ToldChangesAreAudited
<1>1. Init => ToldInv
  BY DEF Init, ToldInv, ToldOK
<1>2. ASSUME TypeOK, ToldInv, [Next]_vars PROVE ToldInv'
  <2> USE <1>2 DEF postgres, mongo, history, Goto, Respond
  <2>1. /\ pc \in PcType /\ DOMAIN job = Worker
        /\ \A v \in Worker : ToldOK(v)
    BY DEF TypeOK, PcType, ToldInv
  <2>2. ASSUME NEW w \in Worker, NEW u \in Restricted, NEW to \in {"active", "revoked"},
               BeginChange(w, u, to)
        PROVE  ToldInv'
    BY <2>1, <2>2 DEF BeginChange, ToldInv, ToldOK, PcType
  <2>3. ASSUME NEW w \in Worker,
               CommitChange(w) \/ ChangeFails(w) \/ ReadName(w) \/ AuditChange(w)
        PROVE  ToldInv'
    <3>1. job[w] \in Change
      BY <2>3 DEF CommitChange, ChangeFails, ReadName, AuditChange, TypeOK, JobOK, ChangeSteps
    <3>2. \A v \in Worker \ {w} : pc'[v] = pc[v] /\ job'[v] = job[v]
      BY <2>1, <2>3 DEF CommitChange, ChangeFails, ReadName, AuditChange, PcType
    <3>3. \A v \in Worker \ {w} : ToldOK(v)'
      BY <2>1, <3>2 DEF ToldOK
    <3>4. CASE CommitChange(w)
      <4>1. \/ pc'[w] = "name" /\ job'[w] = [job[w] EXCEPT !.committed = TRUE]
            \/ /\ pc'[w] = "tell"
               /\ job'[w] = [job[w] EXCEPT !.committed = TRUE, !.said = {"failed"}]
        BY <2>1, <3>4 DEF CommitChange, PcType
      <4>2. job[w].said = {}
        BY <2>1, <3>4 DEF CommitChange, ToldOK
      <4>3. job'[w].committed /\ job'[w].said \in {{}, {"failed"}}
            /\ (pc'[w] = "name" => job'[w].said = {})
        BY <3>1, <4>1, <4>2 DEF Change
      <4>4. ToldOK(w)'
        BY <4>1, <4>3 DEF ToldOK
      <4> QED
        BY <3>3, <4>4 DEF ToldInv
    <3>5. CASE ChangeFails(w)
      <4>1. pc'[w] = "tell" /\ job'[w] = [job[w] EXCEPT !.said = {"failed"}]
        BY <2>1, <3>5 DEF ChangeFails, PcType
      <4>2. job'[w].said = {"failed"}
        BY <3>1, <4>1 DEF Change
      <4>3. ToldOK(w)'
        BY <4>1, <4>2 DEF ToldOK
      <4> QED
        BY <3>3, <4>3 DEF ToldInv
    <3>6. CASE ReadName(w)
      <4>1. pc'[w] = "audit" /\ job'[w] = [job[w] EXCEPT !.said = {"done"}]
        BY <2>1, <3>6 DEF ReadName, PcType
      <4>2. job'[w].said = {"done"} /\ job'[w].committed
        BY <2>1, <3>1, <3>6, <4>1 DEF Change, ToldOK, ReadName
      <4>3. ToldOK(w)'
        BY <4>1, <4>2 DEF ToldOK
      <4> QED
        BY <3>3, <4>3 DEF ToldInv
    <3>7. CASE AuditChange(w)
      <4>1. /\ pc'[w] = "tell"
            /\ \/ job'[w] = [job[w] EXCEPT !.logged = TRUE]
               \/ job'[w] = [job[w] EXCEPT !.logged = TRUE, !.said = job[w].said \cup {"failed"}]
               \/ job'[w] = [job[w] EXCEPT !.said = job[w].said \cup {"failed"}]
        BY <2>1, <3>7 DEF AuditChange, PcType
      <4>2. job[w].committed /\ job[w].said = {"done"}
        BY <2>1, <3>7 DEF AuditChange, ToldOK
      <4>3. job'[w].committed /\ (job'[w].logged \/ "failed" \in job'[w].said)
        BY <3>1, <4>1, <4>2, ZenonT(30) DEF Change
      <4>4. ToldOK(w)'
        BY <4>1, <4>3 DEF ToldOK
      <4> QED
        BY <3>3, <4>4 DEF ToldInv
    <3> QED
      BY <2>3, <3>4, <3>5, <3>6, <3>7
  <2>4. ASSUME OtherStep PROVE ToldInv'
    <3>1. \A v \in Worker : pc'[v] \in ChangeSteps => pc'[v] = pc[v] /\ job'[v] = job[v]
      BY <2>4, ChangesAside
    <3>2. ASSUME NEW v \in Worker PROVE ToldOK(v)'
      BY <2>1, <3>1 DEF ToldOK, ChangeSteps
    <3> QED
      BY <3>2 DEF ToldInv
  <2> QED
    BY <2>2, <2>3, <2>4 DEF Next, Continue, OtherStep
<1>3. ToldInv => ToldChangesAreAudited
  BY DEF ToldInv, ToldOK, ToldChangesAreAudited
<1> QED
  BY <1>1, <1>2, <1>3, TypeCorrect, PTL DEF Spec

(* A page that no grant or revocation overtook shows every restricted user *)
(* once, as granted or as one to be granted.                               *)
THEOREM PageCorrect == Spec => []PageShowsEachOnce
<1>1. Init => PageInv
  BY DEF Init, PageInv, PageOK, PageSteps
<1>2. ASSUME TypeOK, PageInv, [Next]_vars PROVE PageInv'
  <2> USE <1>2 DEF postgres, mongo, history, Goto, Respond
  <2>1. /\ pc \in PcType /\ DOMAIN job = Worker /\ epoch \in Nat
        /\ \A v \in Worker : PageOK(v)
    BY DEF TypeOK, PcType, PageInv
  <2>2. ASSUME NEW w \in Worker, ListGrants(w) PROVE PageInv'
    <3>1. /\ pc'[w] = "offered" /\ job'[w].since = epoch
          /\ job'[w].granted = {u \in Restricted : access[u] = "active"}
          /\ access' = access /\ epoch' = epoch
          /\ \A v \in Worker \ {w} : pc'[v] = pc[v] /\ job'[v] = job[v]
      BY <2>1, <2>2 DEF ListGrants, PcType
    <3>2. PageOK(w)'
      BY <2>1, <3>1 DEF PageOK
    <3>3. \A v \in Worker \ {w} : PageOK(v)'
      BY <2>1, <3>1 DEF PageOK
    <3> QED
      BY <3>2, <3>3 DEF PageInv
  <2>3. ASSUME NEW w \in Worker, ListOffered(w) PROVE PageInv'
    <3>1. /\ pc[w] = "offered" /\ pc'[w] = "show"
          /\ job'[w] = [job[w] EXCEPT !.offered = Restricted \ {u \in Restricted : access[u] = "active"}]
          /\ access' = access /\ epoch' = epoch
          /\ \A v \in Worker \ {w} : pc'[v] = pc[v] /\ job'[v] = job[v]
      BY <2>1, <2>3 DEF ListOffered, Offered, PcType
    <3>2. job[w] \in Page
      BY <3>1 DEF TypeOK, JobOK, PageSteps
    <3>3. /\ job'[w].since = job[w].since /\ job'[w].granted = job[w].granted
          /\ job'[w].offered = Restricted \ {u \in Restricted : access[u] = "active"}
      BY <3>1, <3>2 DEF Page
    <3>4. PageOK(w)'
      BY <2>1, <3>1, <3>3 DEF PageOK, PageSteps
    <3>5. \A v \in Worker \ {w} : PageOK(v)'
      BY <2>1, <3>1 DEF PageOK
    <3> QED
      BY <3>4, <3>5 DEF PageInv
  <2>4. ASSUME NEW w \in Worker, CommitChange(w) PROVE PageInv'
    <3>1. \A v \in Worker : pc'[v] \in PageSteps => pc'[v] = pc[v] /\ job'[v] = job[v]
      BY <2>1, <2>4 DEF CommitChange, PcType, PageSteps
    <3>2. epoch' = epoch + 1
      BY <2>4 DEF CommitChange
    <3>3. ASSUME NEW v \in Worker PROVE PageOK(v)'
      <4>1. pc[v] \in PageSteps => job[v].since \in Nat /\ job[v].since =< epoch
        BY <2>1 DEF PageOK, TypeOK, JobOK, Page
      <4>2. pc'[v] \in PageSteps => job'[v].since =< epoch' /\ job'[v].since # epoch'
        BY <2>1, <3>1, <3>2, <4>1
      <4> QED
        BY <4>2 DEF PageOK, PageSteps
    <3> QED
      BY <3>3 DEF PageInv
  <2>5. ASSUME \/ UNCHANGED vars \/ StoreEvidence \/ \E url \in urls : Expire(url)
               \/ \E w \in Worker :
                     \/ \E u \in User, kind \in Kind : BeginRequest(w, u, kind)
                     \/ \E u \in Restricted, to \in {"active", "revoked"} : BeginChange(w, u, to)
                     \/ ReadRow(w) \/ CheckAccess(w) \/ Deny(w) \/ Fetch(w) \/ LogSuccess(w)
                     \/ Deliver(w) \/ Fail(w)
                     \/ ChangeFails(w) \/ ReadName(w) \/ AuditChange(w) \/ Tell(w)
                     \/ ShowPage(w) \/ Crash(w)
        PROVE  PageInv'
    <3>1. \A v \in Worker : pc'[v] \in PageSteps => pc'[v] = pc[v] /\ job'[v] = job[v]
      <4>1. CASE \/ UNCHANGED vars \/ StoreEvidence \/ \E url \in urls : Expire(url)
        BY <4>1 DEF vars, StoreEvidence, Expire
      <4>2. CASE \E w \in Worker :
                    \/ ReadRow(w) \/ CheckAccess(w) \/ Deny(w) \/ Fetch(w) \/ LogSuccess(w)
                    \/ Deliver(w) \/ Fail(w)
        BY <2>1, <4>2 DEF ReadRow, CheckAccess, Deny, Fetch, LogSuccess, LogAttempt, Raise,
           Deliver, Fail, PcType, PageSteps
      <4>3. CASE \E w \in Worker :
                    \/ \E u \in User, kind \in Kind : BeginRequest(w, u, kind)
                    \/ \E u \in Restricted, to \in {"active", "revoked"} : BeginChange(w, u, to)
                    \/ ChangeFails(w) \/ ReadName(w) \/ AuditChange(w) \/ Tell(w)
                    \/ ShowPage(w) \/ Crash(w)
        BY <2>1, <4>3 DEF BeginRequest, BeginChange, ChangeFails, ReadName, AuditChange, Tell,
           ShowPage, Crash, PcType, PageSteps
      <4> QED
        BY <2>5, <4>1, <4>2, <4>3
    <3>2. UNCHANGED <<access, epoch>>
      BY <2>5 DEF vars, StoreEvidence, Expire, BeginRequest, BeginChange, ReadRow, CheckAccess,
         Deny, Fetch, LogSuccess, Deliver, Fail, ChangeFails, ReadName, AuditChange, Tell,
         ShowPage, Crash
    <3>3. ASSUME NEW v \in Worker PROVE PageOK(v)'
      BY <2>1, <3>1, <3>2 DEF PageOK, PageSteps
    <3> QED
      BY <3>3 DEF PageInv
  <2> QED
    BY <2>2, <2>3, <2>4, <2>5 DEF Next, Continue
<1>3. PageInv => PageShowsEachOnce
  BY DEF PageInv, PageOK, PageShowsEachOnce
<1> QED
  BY <1>1, <1>2, <1>3, TypeCorrect, PTL DEF Spec

-----------------------------------------------------------------------------
(* What the logs, the URLs and the answers say of a request that is served *)
(* now, and of two of them.                                                *)
RequestOK(w) ==
    pc[w] \in RequestSteps =>
        /\ \A a \in attempts : ~a.success /\ a.id = job[w].id => pc[w] = "fail"
        /\ \A l \in urls : l.id = job[w].id => job[w].kind = "url"
        /\ \A s \in served : s.id # job[w].id
        /\ pc[w] = "deliver" =>
              [id |-> job[w].id, user |-> job[w].user, success |-> TRUE] \in attempts

TwoRequestsOK(v, w) ==
    pc[v] \in RequestSteps /\ pc[w] \in RequestSteps => job[v].id # job[w].id

LogInv ==
    /\ \A w \in Worker : RequestOK(w)
    /\ \A v, w \in Worker : v # w => TwoRequestsOK(v, w)
    /\ NothingLeavesUnlogged

(* It is kept by a step that is not one of a download or a URL. *)
LEMMA LogsAside ==
    ASSUME LogInv, attempts' = attempts, served' = served, urls' \subseteq urls,
           \A v \in Worker : pc'[v] \in RequestSteps => pc'[v] = pc[v] /\ job'[v] = job[v]
    PROVE  LogInv'
<1>1. ASSUME NEW v \in Worker PROVE RequestOK(v)'
  BY DEF LogInv, RequestOK
<1>2. ASSUME NEW v \in Worker, NEW w \in Worker, v # w PROVE TwoRequestsOK(v, w)'
  BY <1>2 DEF LogInv, TwoRequestsOK
<1>3. NothingLeavesUnlogged'
  BY DEF LogInv, NothingLeavesUnlogged
<1> QED
  BY <1>1, <1>2, <1>3 DEF LogInv

(* And by a step of one that answers nothing: it may log, may create a     *)
(* URL, and after a log of a failure goes nowhere but to "fail".           *)
LEMMA LogsOfStep ==
    ASSUME LogInv, NEW w \in Worker, pc[w] \in RequestSteps,
           served' = served, attempts \subseteq attempts',
           \A a \in attempts' \ attempts : a.id = job[w].id,
           \A l \in urls' \ urls : l.id = job[w].id /\ job[w].kind = "url" /\ ~l.known,
           \A v \in Worker \ {w} : pc'[v] = pc[v] /\ job'[v] = job[v],
           pc'[w] \in RequestSteps =>
              /\ job'[w] = job[w]
              /\ \/ pc'[w] = "fail"
                 \/ pc[w] # "fail" /\ \A a \in attempts' \ attempts : a.success
              /\ pc'[w] = "deliver" =>
                    [id |-> job[w].id, user |-> job[w].user, success |-> TRUE] \in attempts'
    PROVE  LogInv'
<1>1. ASSUME NEW v \in Worker \ {w} PROVE RequestOK(v)'
  <2>1. RequestOK(v) /\ TwoRequestsOK(v, w)
    BY DEF LogInv
  <2> QED
    BY <2>1 DEF RequestOK, TwoRequestsOK
<1>2. RequestOK(w)'
  <2>1. RequestOK(w)
    BY DEF LogInv
  <2> QED
    BY <2>1 DEF RequestOK
<1>3. ASSUME NEW v \in Worker, NEW x \in Worker, v # x PROVE TwoRequestsOK(v, x)'
  <2>1. TwoRequestsOK(v, x)
    BY <1>3 DEF LogInv
  <2> QED
    BY <2>1 DEF TwoRequestsOK
<1>4. NothingLeavesUnlogged'
  <2>1. RequestOK(w) /\ NothingLeavesUnlogged
    BY DEF LogInv
  <2> QED
    BY <2>1 DEF NothingLeavesUnlogged, RequestOK
<1> QED
  BY <1>1, <1>2, <1>3, <1>4 DEF LogInv

(* Nothing leaves, directly or through a URL, without a log of it, and     *)
(* nothing that is logged as a failure leaves.                             *)
THEOREM LogsCorrect == Spec => []NothingLeavesUnlogged
<1>1. Init => LogInv
  BY DEF Init, LogInv, RequestOK, TwoRequestsOK, NothingLeavesUnlogged, RequestSteps
<1>2. ASSUME TypeOK, LogInv, [Next]_vars PROVE LogInv'
  <2> USE <1>2 DEF postgres, mongo, history, Goto, Respond
  <2>1. /\ pc \in PcType /\ DOMAIN job = Worker /\ begun \in Nat
        /\ \A v \in Worker : pc[v] \in RequestSteps => job[v] \in Request /\ job[v].id \in 1 .. begun
    BY DEF TypeOK, JobOK, PcType
  <2>2. ASSUME NEW w \in Worker, NEW u \in User, NEW kind \in Kind, BeginRequest(w, u, kind)
        PROVE  LogInv'
    <3>1. /\ UNCHANGED <<attempts, urls, served>>
          /\ pc'[w] = "row" /\ job'[w].id = begun + 1
          /\ \A v \in Worker \ {w} : pc'[v] = pc[v] /\ job'[v] = job[v]
      BY <2>1, <2>2 DEF BeginRequest, PcType
    <3>2. /\ \A a \in attempts : a.id \in 1 .. begun
          /\ \A l \in urls : l.id \in 1 .. begun
          /\ \A s \in served : s.id \in 1 .. begun
      BY DEF TypeOK
    <3>3. RequestOK(w)'
      BY <2>1, <3>1, <3>2 DEF RequestOK
    <3>4. \A v \in Worker \ {w} : RequestOK(v)'
      BY <3>1 DEF LogInv, RequestOK
    <3>5. ASSUME NEW v \in Worker, NEW x \in Worker, v # x PROVE TwoRequestsOK(v, x)'
      <4>1. TwoRequestsOK(v, x)
        BY <3>5 DEF LogInv
      <4> QED
        BY <2>1, <3>1, <3>5, <4>1 DEF TwoRequestsOK
    <3>6. NothingLeavesUnlogged'
      BY <3>1 DEF LogInv, NothingLeavesUnlogged
    <3> QED
      BY <3>3, <3>4, <3>5, <3>6 DEF LogInv
  <2>3. ASSUME NEW w \in Worker,
               \/ ReadRow(w) \/ CheckAccess(w) \/ Deny(w) \/ Fetch(w) \/ LogSuccess(w) \/ Fail(w)
        PROVE  LogInv'
    <3>1. /\ pc[w] \in RequestSteps /\ served' = served
          /\ \A v \in Worker \ {w} : pc'[v] = pc[v] /\ job'[v] = job[v]
      BY <2>1, <2>3 DEF ReadRow, CheckAccess, Deny, Fetch, LogSuccess, LogAttempt, Raise, Fail,
         PcType, RequestSteps
    <3>2. CASE ReadRow(w) \/ CheckAccess(w)
      <4>1. /\ UNCHANGED <<attempts, urls>> /\ pc[w] # "fail" /\ pc'[w] # "deliver"
            /\ pc'[w] \in RequestSteps => job'[w] = job[w]
        BY <2>1, <3>2 DEF ReadRow, CheckAccess, Raise, PcType, RequestSteps
      <4> QED
        BY <3>1, <4>1, LogsOfStep
    <3>3. CASE Deny(w) \/ Fail(w)
      <4>1. /\ urls' = urls
            /\ \/ attempts' = attempts \cup {[id |-> job[w].id, user |-> job[w].user, success |-> FALSE]}
               \/ attempts' = attempts
            /\ \/ pc'[w] = "fail" /\ job'[w] = job[w]
               \/ pc'[w] = "idle"
        BY <2>1, <3>3 DEF Deny, Fail, LogAttempt, Raise, PcType
      <4>2. pc'[w] \in RequestSteps => job'[w] = job[w] /\ pc'[w] = "fail"
        BY <4>1 DEF RequestSteps
      <4>3. \A a \in attempts' \ attempts : a.id = job[w].id
        BY <4>1
      <4> QED
        BY <3>1, <4>1, <4>2, <4>3, LogsOfStep
    <3>4. CASE Fetch(w)
      <4>1. /\ pc[w] = "fetch" /\ attempts' = attempts
            /\ \/ urls' = urls
               \/ /\ urls' = urls \cup {[id |-> job[w].id, known |-> FALSE]}
                  /\ job[w].kind = "url"
            /\ pc'[w] # "deliver"
            /\ pc'[w] \in RequestSteps => job'[w] = job[w]
        BY <2>1, <3>4 DEF Fetch, Raise, PcType, RequestSteps
      <4>2. \A l \in urls' \ urls : l.id = job[w].id /\ job[w].kind = "url" /\ ~l.known
        BY <4>1
      <4> QED
        BY <3>1, <4>1, <4>2, LogsOfStep
    <3>5. CASE LogSuccess(w)
      <4> DEFINE entry == [id |-> job[w].id, user |-> job[w].user, success |-> TRUE]
      <4>1. /\ pc[w] = "log" /\ urls' = urls
            /\ \/ attempts' = attempts \cup {entry}
               \/ attempts' = attempts /\ pc'[w] # "deliver"
            /\ pc'[w] \in RequestSteps => job'[w] = job[w]
        BY <2>1, <3>5 DEF LogSuccess, LogAttempt, Raise, PcType, RequestSteps
      <4>2. /\ \A a \in attempts' \ attempts : a.id = job[w].id /\ a.success
            /\ pc'[w] = "deliver" => entry \in attempts'
        BY <4>1
      <4> QED
        BY <3>1, <4>1, <4>2, LogsOfStep
    <3> QED
      BY <2>3, <3>2, <3>3, <3>4, <3>5
  <2>4. ASSUME NEW w \in Worker, Deliver(w) PROVE LogInv'
    <3> DEFINE answer == [id |-> job[w].id, user |-> job[w].user, kind |-> job[w].kind,
                          since |-> job[w].since, until |-> epoch]
    <3>1. /\ attempts' = attempts /\ served' = served \cup {answer}
          /\ urls' = {IF l.id = job[w].id THEN [l EXCEPT !.known = TRUE] ELSE l : l \in urls}
          /\ pc[w] = "deliver" /\ pc'[w] = "idle"
          /\ \A v \in Worker \ {w} : pc'[v] = pc[v] /\ job'[v] = job[v]
      BY <2>1, <2>4 DEF Deliver, PcType
    <3>2. ASSUME NEW l \in urls' PROVE \E m \in urls : m.id = l.id /\ (m.id # job[w].id => m = l)
      <4>1. PICK m \in urls : l = IF m.id = job[w].id THEN [m EXCEPT !.known = TRUE] ELSE m
        BY <3>1
      <4>2. m \in [id: 1 .. begun, known: BOOLEAN]
        BY DEF TypeOK
      <4>3. [m EXCEPT !.known = TRUE].id = m.id
        BY <4>2
      <4> QED
        BY <4>1, <4>3
    <3>answer. answer.id = job[w].id /\ answer.user = job[w].user /\ answer.kind = job[w].kind
      OBVIOUS
    <3> HIDE DEF answer
    <3>3. RequestOK(w) /\ pc[w] \in RequestSteps
      BY <3>1 DEF LogInv, RequestSteps
    <3>4. ASSUME NEW v \in Worker \ {w} PROVE RequestOK(v)'
      <4>1. RequestOK(v) /\ TwoRequestsOK(v, w)
        BY DEF LogInv
      <4> QED
        BY <3>1, <3>2, <3>answer, <3>3, <4>1, ZenonT(30) DEF RequestOK, TwoRequestsOK
    <3>5. RequestOK(w)'
      BY <3>1 DEF RequestOK, RequestSteps
    <3>6. ASSUME NEW v \in Worker, NEW x \in Worker, v # x PROVE TwoRequestsOK(v, x)'
      <4>1. TwoRequestsOK(v, x)
        BY <3>6 DEF LogInv
      <4> QED
        BY <3>1, <4>1 DEF TwoRequestsOK, RequestSteps
    <3>7. NothingLeavesUnlogged'
      <4>1. NothingLeavesUnlogged
        BY DEF LogInv
      <4>2. \A s \in served' : [id |-> s.id, user |-> s.user, success |-> TRUE] \in attempts'
        BY <3>1, <3>answer, <3>3, <4>1 DEF RequestOK, NothingLeavesUnlogged
      <4>3. ASSUME NEW l \in urls', l.known
            PROVE  \E s \in served' : s.id = l.id /\ s.kind = "url"
        <5>1. PICK m \in urls : m.id = l.id /\ (m.id # job[w].id => m = l)
          BY <3>2
        <5>2. CASE m.id = job[w].id
          BY <3>1, <3>answer, <3>3, <5>1, <5>2 DEF RequestOK
        <5>3. CASE m.id # job[w].id
          BY <3>1, <4>1, <4>3, <5>1, <5>3 DEF NothingLeavesUnlogged
        <5> QED
          BY <5>2, <5>3
      <4>4. \A a \in attempts' : ~a.success => \A s \in served' : s.id # a.id
        BY <3>1, <3>answer, <3>3, <4>1 DEF RequestOK, NothingLeavesUnlogged
      <4> QED
        BY <4>2, <4>3, <4>4 DEF NothingLeavesUnlogged
    <3> QED
      BY <3>4, <3>5, <3>6, <3>7 DEF LogInv
  <2>5. ASSUME \/ UNCHANGED vars \/ StoreEvidence \/ \E url \in urls : Expire(url)
               \/ \E w \in Worker :
                     \/ \E u \in Restricted, to \in {"active", "revoked"} : BeginChange(w, u, to)
                     \/ CommitChange(w) \/ ChangeFails(w) \/ ReadName(w) \/ AuditChange(w)
                     \/ Tell(w) \/ ListGrants(w) \/ ListOffered(w) \/ ShowPage(w) \/ Crash(w)
        PROVE  LogInv'
    <3>1. UNCHANGED <<attempts, served>> /\ urls' \subseteq urls
      BY <2>5 DEF vars, StoreEvidence, Expire, BeginChange, CommitChange, ChangeFails, ReadName,
         AuditChange, Tell, ListGrants, ListOffered, ShowPage, Crash
    <3>2. \A v \in Worker : pc'[v] \in RequestSteps => pc'[v] = pc[v] /\ job'[v] = job[v]
      <4>1. CASE \/ UNCHANGED vars \/ StoreEvidence \/ \E url \in urls : Expire(url)
        BY <4>1 DEF vars, StoreEvidence, Expire
      <4>2. CASE \E w \in Worker :
                    \/ \E u \in Restricted, to \in {"active", "revoked"} : BeginChange(w, u, to)
                    \/ CommitChange(w) \/ ChangeFails(w) \/ ReadName(w) \/ AuditChange(w)
                    \/ Tell(w) \/ ListGrants(w) \/ ListOffered(w) \/ ShowPage(w) \/ Crash(w)
        BY <2>1, <4>2 DEF BeginChange, CommitChange, ChangeFails, ReadName, AuditChange, Tell,
           ListGrants, ListOffered, ShowPage, Crash, PcType, RequestSteps
      <4> QED
        BY <2>5, <4>1, <4>2
    <3> QED
      BY <3>1, <3>2, LogsAside
  <2> QED
    BY <2>2, <2>3, <2>4, <2>5 DEF Next, Continue
<1>3. LogInv => NothingLeavesUnlogged
  BY DEF LogInv
<1> QED
  BY <1>1, <1>2, <1>3, TypeCorrect, PTL DEF Spec


-----------------------------------------------------------------------------
(* When nothing fails and no two changes were ever served at the same      *)
(* time, the audit log agrees with the table on every user, but for the    *)
(* one whose change is committed and not logged yet.                       *)
LastIsGrant(u) ==
    \E i \in DOMAIN audit :
        /\ audit[i].user = u /\ audit[i].to = "active"
        /\ \A j \in DOMAIN audit : audit[j].user = u => j =< i

Unlogged(w, u) == pc[w] \in {"name", "audit"} /\ job[w].user = u

AuditInv ==
    faults = {} /\ ~crossed =>
        /\ \A v, w \in Worker : pc[v] \in ChangeSteps /\ pc[w] \in ChangeSteps => v = w
        /\ \A w \in Worker : pc[w] \in {"name", "audit"} =>
              (access[job[w].user] = "active" <=> job[w].to = "active")
        /\ \A u \in Restricted :
              \/ \E w \in Worker : Unlogged(w, u)
              \/ access[u] = "active" <=> LastIsGrant(u)

(* What an entry at the end of the audit log makes of its last grants.     *)
LEMMA EntryAppended ==
    ASSUME NEW S, audit \in Seq(S), NEW e \in S, audit' = Append(audit, e), NEW u
    PROVE  LastIsGrant(u)' <=> IF e.user = u THEN e.to = "active" ELSE LastIsGrant(u)
<1>1. /\ Len(audit) \in Nat /\ DOMAIN audit = 1 .. Len(audit)
      /\ DOMAIN audit' = 1 .. Len(audit) + 1
      /\ audit'[Len(audit) + 1] = e
      /\ \A i \in 1 .. Len(audit) : audit'[i] = audit[i]
  OBVIOUS
<1>2. CASE e.user = u
  <2>1. ASSUME e.to = "active" PROVE LastIsGrant(u)'
    BY <1>1, <1>2, <2>1 DEF LastIsGrant
  <2>2. ASSUME LastIsGrant(u)' PROVE e.to = "active"
    <3>1. PICK i \in 1 .. Len(audit) + 1 :
             /\ audit'[i].to = "active"
             /\ \A j \in 1 .. Len(audit) + 1 : audit'[j].user = u => j =< i
      BY <1>1, <2>2 DEF LastIsGrant
    <3>2. i = Len(audit) + 1
      BY <1>1, <1>2, <3>1
    <3> QED
      BY <1>1, <3>1, <3>2
  <2> QED
    BY <1>2, <2>1, <2>2
<1>3. CASE e.user # u
  <2>1. ASSUME LastIsGrant(u) PROVE LastIsGrant(u)'
    <3>1. PICK i \in 1 .. Len(audit) :
             /\ audit[i].user = u /\ audit[i].to = "active"
             /\ \A j \in 1 .. Len(audit) : audit[j].user = u => j =< i
      BY <1>1, <2>1 DEF LastIsGrant
    <3>2. \A j \in 1 .. Len(audit) + 1 : audit'[j].user = u => j =< i
      BY <1>1, <1>3, <3>1
    <3>3. audit'[i] = audit[i] /\ i \in DOMAIN audit'
      BY <1>1
    <3> QED
      BY <1>1, <3>1, <3>2, <3>3 DEF LastIsGrant
  <2>2. ASSUME LastIsGrant(u)' PROVE LastIsGrant(u)
    <3>1. PICK i \in 1 .. Len(audit) + 1 :
             /\ audit'[i].user = u /\ audit'[i].to = "active"
             /\ \A j \in 1 .. Len(audit) + 1 : audit'[j].user = u => j =< i
      BY <1>1, <2>2 DEF LastIsGrant
    <3>2. i \in 1 .. Len(audit)
      BY <1>1, <1>3, <3>1
    <3>3. \A j \in 1 .. Len(audit) : audit[j].user = u => j =< i
      BY <1>1, <3>1
    <3> QED
      BY <1>1, <3>1, <3>2, <3>3 DEF LastIsGrant
  <2> QED
    BY <1>3, <2>1, <2>2
<1> QED
  BY <1>2, <1>3

LEMMA AuditInductive == TypeOK /\ AuditInv /\ [Next]_vars => AuditInv'
<1> SUFFICES ASSUME TypeOK, AuditInv, [Next]_vars, faults' = {}, ~crossed' PROVE AuditInv'
  BY DEF AuditInv
<1> USE DEF postgres, mongo, history, Goto, Respond
<1>1. /\ pc \in PcType /\ DOMAIN job = Worker
      /\ access \in [Restricted -> {"none", "active", "revoked"}]
      /\ \A w \in Worker : pc[w] \in ChangeSteps => job[w] \in Change
  BY DEF TypeOK, PcType, JobOK
<1>2. ASSUME NEW w \in Worker, NEW u \in Restricted, NEW to \in {"active", "revoked"},
             BeginChange(w, u, to)
      PROVE  AuditInv'
  <2>1. /\ faults = {} /\ ~crossed /\ UNCHANGED <<access, audit>>
        /\ \A v \in Worker : pc[v] \notin ChangeSteps
        /\ pc'[w] = "change"
        /\ \A v \in Worker \ {w} : pc'[v] = pc[v] /\ job'[v] = job[v]
    BY <1>1, <1>2 DEF BeginChange, PcType
  <2>2. \A x \in Restricted : access[x] = "active" <=> LastIsGrant(x)
    BY <2>1 DEF AuditInv, Unlogged, ChangeSteps
  <2>3. \A x \in Restricted : access'[x] = "active" <=> LastIsGrant(x)'
    BY <2>1, <2>2 DEF LastIsGrant
  <2> QED
    BY <2>1, <2>3 DEF AuditInv, ChangeSteps
<1>3. ASSUME NEW w \in Worker, CommitChange(w) \/ ChangeFails(w) \/ ReadName(w) \/ AuditChange(w)
      PROVE  AuditInv'
  <2>1. /\ faults = {} /\ ~crossed
        /\ pc[w] \in ChangeSteps /\ job[w] \in Change
        /\ \A v \in Worker \ {w} : pc'[v] = pc[v] /\ job'[v] = job[v]
    BY <1>1, <1>3 DEF CommitChange, ChangeFails, ReadName, AuditChange, PcType, ChangeSteps
  <2>2. /\ \A v \in Worker \ {w} : pc[v] \notin ChangeSteps /\ pc'[v] \notin ChangeSteps
        /\ pc[w] \in {"name", "audit"} =>
              (access[job[w].user] = "active" <=> job[w].to = "active")
        /\ \A u \in Restricted : \/ Unlogged(w, u)
                                 \/ access[u] = "active" <=> LastIsGrant(u)
    BY <2>1 DEF AuditInv, Unlogged, ChangeSteps
  <2>3. SUFFICES /\ pc'[w] \in {"name", "audit"} =>
                       (access'[job'[w].user] = "active" <=> job'[w].to = "active")
                 /\ \A u \in Restricted : \/ Unlogged(w, u)'
                                          \/ access'[u] = "active" <=> LastIsGrant(u)'
    BY <2>1, <2>2 DEF AuditInv, ChangeSteps
  <2>4. CASE CommitChange(w)
    <3>1. /\ access' = [access EXCEPT ![job[w].user] = RowAfter(job[w].user, job[w].to)]
          /\ pc[w] = "change" /\ pc'[w] = "name" /\ audit' = audit
          /\ job'[w] = [job[w] EXCEPT !.committed = TRUE]
      BY <1>1, <2>1, <2>4 DEF CommitChange, PcType, MayFail
    <3>2. job'[w].user = job[w].user /\ job'[w].to = job[w].to /\ job[w].user \in Restricted
          /\ job[w].to \in {"active", "revoked"}
      BY <2>1, <3>1 DEF Change
    <3>3. access'[job[w].user] = "active" <=> job[w].to = "active"
      BY <1>1, <3>1, <3>2 DEF RowAfter
    <3>4. ASSUME NEW u \in Restricted, u # job[w].user
          PROVE  access'[u] = "active" <=> LastIsGrant(u)'
      <4>1. access'[u] = access[u] /\ ~Unlogged(w, u)
        BY <1>1, <3>1, <3>4 DEF Unlogged
      <4> QED
        BY <2>2, <3>1, <4>1 DEF LastIsGrant
    <3> QED
      BY <3>1, <3>2, <3>3, <3>4 DEF Unlogged
  <2>5. CASE ReadName(w)
    <3>1. /\ UNCHANGED <<access, audit>> /\ pc[w] = "name" /\ pc'[w] = "audit"
          /\ job'[w] = [job[w] EXCEPT !.said = {"done"}]
      BY <1>1, <2>5 DEF ReadName, PcType
    <3>2. job'[w].user = job[w].user /\ job'[w].to = job[w].to
      BY <2>1, <3>1 DEF Change
    <3> QED
      BY <2>2, <3>1, <3>2 DEF Unlogged, LastIsGrant
  <2>6. CASE AuditChange(w)
    <3> DEFINE e == [user |-> job[w].user, to |-> job[w].to]
    <3>1. /\ access' = access /\ pc[w] = "audit" /\ pc'[w] = "tell" /\ audit' = Append(audit, e)
      BY <1>1, <2>1, <2>6 DEF AuditChange, PcType, MayFail
    <3>2. e \in [user: Restricted, to: {"active", "revoked"}]
      BY <2>1 DEF Change
    <3>3. audit \in Seq([user: Restricted, to: {"active", "revoked"}])
      BY DEF TypeOK
    <3>4. \A u : LastIsGrant(u)' <=> IF e.user = u THEN e.to = "active" ELSE LastIsGrant(u)
      <4> HIDE DEF e
      <4> QED
        BY <3>1, <3>2, <3>3, EntryAppended
    <3>5. \A u : Unlogged(w, u) => u = job[w].user
      BY DEF Unlogged
    <3> QED
      BY <2>2, <3>1, <3>4, <3>5
  <2>7. CASE ChangeFails(w)
    BY <2>1, <2>7 DEF ChangeFails, MayFail
  <2> QED
    BY <1>3, <2>4, <2>5, <2>6, <2>7
<1>4. CASE OtherStep
  <2>1. /\ \A v \in Worker : pc'[v] \in ChangeSteps => pc'[v] = pc[v] /\ job'[v] = job[v]
        /\ UNCHANGED <<access, audit, faults, crossed>>
    BY <1>4, ChangesAside
  <2>2. \A v \in Worker : pc[v] \in {"name", "audit"} => pc'[v] = pc[v] /\ job'[v] = job[v]
    <3>1. CASE \/ UNCHANGED vars \/ StoreEvidence \/ \E url \in urls : Expire(url)
      BY <3>1 DEF vars, StoreEvidence, Expire
    <3>2. CASE \E w \in Worker :
                  \/ ReadRow(w) \/ CheckAccess(w) \/ Deny(w) \/ Fetch(w) \/ LogSuccess(w)
                  \/ Deliver(w) \/ Fail(w)
      BY <1>1, <3>2 DEF ReadRow, CheckAccess, Deny, Fetch, LogSuccess, LogAttempt, Raise,
         Deliver, Fail, PcType
    <3>3. CASE \E w \in Worker :
                  \/ \E u \in User, kind \in Kind : BeginRequest(w, u, kind)
                  \/ Tell(w) \/ ListGrants(w) \/ ListOffered(w) \/ ShowPage(w) \/ Crash(w)
      BY <1>1, <2>1, <3>3 DEF BeginRequest, Tell, ListGrants, ListOffered, ShowPage, Crash,
         PcType, MayFail
    <3> QED
      BY <1>4, <3>1, <3>2, <3>3 DEF OtherStep
  <2>3. \A u : LastIsGrant(u)' <=> LastIsGrant(u)
    BY <2>1 DEF LastIsGrant
  <2>4. \A w \in Worker, u \in Restricted : Unlogged(w, u) => Unlogged(w, u)'
    BY <2>2 DEF Unlogged
  <2>5. \A w \in Worker : pc'[w] \in {"name", "audit"} => pc[w] = pc'[w] /\ job[w] = job'[w]
    BY <2>1 DEF ChangeSteps
  <2> QED
    BY <2>1, <2>3, <2>4, <2>5 DEF AuditInv
<1> QED
  BY <1>2, <1>3, <1>4 DEF Next, Continue, OtherStep

(* When nothing fails and no two grants or revocations were ever served at *)
(* the same time, the last one in the audit log is what the table says.    *)
THEOREM AuditCorrect == Spec => []AuditFollowsTable
<1>1. Init => AuditInv
  BY DEF Init, AuditInv, ChangeSteps, LastIsGrant
<1>2. AuditInv => AuditFollowsTable
  <2> SUFFICES ASSUME AuditInv, faults = {}, ~crossed,
                      \A w \in Worker : pc[w] \notin ChangeSteps,
                      NEW u \in Restricted
               PROVE  LET of == {i \in DOMAIN audit : audit[i].user = u} IN
                      access[u] = "active" <=>
                          \E i \in of : audit[i].to = "active" /\ \A j \in of : j =< i
    BY DEF AuditFollowsTable
  <2>1. access[u] = "active" <=> LastIsGrant(u)
    BY DEF AuditInv, Unlogged, ChangeSteps
  <2> QED
    BY <2>1 DEF LastIsGrant
<1> QED
  BY <1>1, <1>2, AuditInductive, TypeCorrect, PTL DEF Spec

=============================================================================
