---------------------------- MODULE AdminProofs ----------------------------
(***************************************************************************)
(* GateAdmin for any users, messages, changes, ages and requests: types, a *)
(* session for each challenge, changes by the administrator alone, and a   *)
(* map that is the table.                                                  *)
(***************************************************************************)
EXTENDS GateAdmin, SequenceTheorems, TLAPS

\* What an action of a request makes of it, and of no other.
Becomes(r, q) == asking' = [x \in Req |-> IF x = r THEN q ELSE asking[x]]

LEMMA IdleFields ==
  /\ NotAsking \in Asking /\ Proper(NotAsking)
  /\ NotAsking.step = "idle" /\ NotAsking.what = Nothing
BY DEF NotAsking, Asking, Proper

\* A request goes on to another step.
LEMMA GoesOn ==
  ASSUME AdminTypeOK, NEW r \in Req, NEW s \in {"consume", "open", "select", "write", "publish"},
         Turns(r, s)
  PROVE  \E q \in Asking :
           /\ Becomes(r, q) /\ q.step = s
           /\ q.at = asking[r].at /\ q.what = asking[r].what /\ q.who = asking[r].who
           /\ q.jobs = asking[r].jobs
<1> DEFINE q == [asking[r] EXCEPT !.step = s]
<1>1. asking[r] \in Asking /\ asking \in [Req -> Asking] BY DEF AdminTypeOK
<1>2. /\ q \in Asking /\ q.step = s
      /\ q.at = asking[r].at /\ q.what = asking[r].what /\ q.who = asking[r].who
      /\ q.jobs = asking[r].jobs
  BY <1>1 DEF Asking
<1>3. Becomes(r, q) BY <1>1 DEF Turns, Becomes
<1> QED BY <1>2, <1>3

LEMMA EndsIdle ==
  ASSUME AdminTypeOK, NEW r \in Req, Quits(r)
  PROVE  Becomes(r, NotAsking)
BY DEF AdminTypeOK, Quits, Becomes

\* The next job is begun, or there is none.
LEMMA NextJobBegins ==
  ASSUME AdminTypeOK, NEW r \in Req, asking[r].jobs # <<>>, NextJob(r)
  PROVE  \/ Becomes(r, NotAsking)
         \/ \E q \in Asking :
              /\ Becomes(r, q) /\ q.step \in {"ask", "write"} /\ q.jobs # <<>>
              /\ q.at = asking[r].at /\ q.what = asking[r].what /\ q.who = asking[r].who
<1>1. asking[r] \in Asking /\ asking \in [Req -> Asking] /\ asking[r].jobs \in Seq(Job)
  BY DEF AdminTypeOK, Asking
<1>2. CASE Len(asking[r].jobs) = 1 BY <1>2, EndsIdle DEF NextJob
<1>3. CASE Len(asking[r].jobs) # 1
  <2> DEFINE j == Tail(asking[r].jobs)
             q == [[asking[r] EXCEPT !.jobs = j] EXCEPT !.step = First(j)]
  <2>1. j \in Seq(Job) /\ j # <<>>
    <3> DEFINE s == asking[r].jobs
    <3>1. s \in Seq(Job) /\ s # <<>> /\ Len(s) # 1 BY <1>1, <1>3
    <3> HIDE DEF s
    <3>2. Tail(s) \in Seq(Job) /\ Len(Tail(s)) = Len(s) - 1 BY <3>1, HeadTailProperties
    <3>3. Len(s) \in Nat /\ Len(s) # 0 BY <3>1, LenProperties, EmptySeq
    <3>4. Len(Tail(s)) # 0 BY ONLY <3>1, <3>2, <3>3
    <3>5. Len(<<>>) = 0 BY ONLY EmptySeq
    <3>6. Tail(s) # <<>> BY ONLY <3>4, <3>5
    <3> QED BY <3>2, <3>6 DEF s
  <2>2. First(j) \in {"ask", "write"} BY DEF First
  <2>3. asking' = [asking EXCEPT ![r] = q] BY <1>1, <1>3 DEF NextJob
  <2> HIDE DEF j
  <2>4. /\ q \in Asking /\ q.step = First(j) /\ q.jobs = j
        /\ q.at = asking[r].at /\ q.what = asking[r].what /\ q.who = asking[r].who
    BY <1>1, <2>1, <2>2 DEF Asking
  <2>5. Becomes(r, q) BY <1>1, <2>3 DEF Becomes
  <2> QED BY <2>1, <2>2, <2>4, <2>5
<1> QED BY <1>2, <1>3

----------------------------------------------------------------------------
(* Types.                                                                  *)

LEMMA InitTypes == AdminInit => AdminTypeOK
BY GateAdminAssumption, IdleFields DEF AdminInit, AdminTypeOK, Proper

\* The part of TypeOK that is about requests.
RequestsTyped == asking \in [Req -> Asking] /\ \A r \in Req : Proper(asking[r])

LEMMA RequestStaysTyped ==
  ASSUME AdminTypeOK, NEW r \in Req, NEW q \in Asking, Proper(q), Becomes(r, q)
  PROVE  RequestsTyped'
BY DEF AdminTypeOK, RequestsTyped, Proper, Becomes

LEMMA EndsTyped ==
  ASSUME AdminTypeOK, NEW r \in Req, Quits(r)
  PROVE  RequestsTyped'
BY EndsIdle, IdleFields, RequestStaysTyped

LEMMA GoesTyped ==
  ASSUME AdminTypeOK, NEW r \in Req, NEW s \in {"consume", "open", "select", "write", "publish"},
         Turns(r, s), s \in {"select", "write", "publish"} => asking[r].jobs # <<>>,
         s \in {"consume", "open"} => asking[r].what \in Nonce,
         s = "open" => asking[r].who \in User
  PROVE  RequestsTyped'
<1>1. PICK q \in Asking : /\ Becomes(r, q) /\ q.step = s /\ q.jobs = asking[r].jobs
                           /\ q.what = asking[r].what /\ q.who = asking[r].who
  BY GoesOn
<1>2. Proper(q) BY <1>1 DEF Proper
<1> QED BY <1>1, <1>2, RequestStaysTyped

LEMMA NextJobTyped ==
  ASSUME AdminTypeOK, NEW r \in Req, asking[r].jobs # <<>>, NextJob(r)
  PROVE  RequestsTyped'
BY NextJobBegins, IdleFields, RequestStaysTyped DEF Proper

LEMMA BeginsTyped ==
  ASSUME AdminTypeOK, NEW r \in Req, NEW s \in {"issue", "expire", "purge"},
         NEW n \in Nonce \cup Token, NEW w \in User \cup {Nobody}, NEW j \in Seq(Job),
         s = "purge" => j # <<>>, s # "purge" => n \in Nonce, Begins(r, s, n, w, j)
  PROVE  RequestsTyped'
<1> DEFINE q == [step |-> s, at |-> now, what |-> n, who |-> w, jobs |-> j]
<1>1. q \in Asking /\ Proper(q) BY DEF Asking, AdminTypeOK, Proper
<1>2. Becomes(r, q) BY DEF Becomes, AdminTypeOK, Begins
<1> QED BY <1>1, <1>2, RequestStaysTyped

\* The rest of it.
StoresTyped ==
  /\ DOMAIN challenges \subseteq Nonce /\ DOMAIN sessions \subseteq Token
  /\ \A n \in DOMAIN challenges : challenges[n] \in [created : Nat]
  /\ \A t \in DOMAIN sessions : sessions[t] \in [signer : User, created : Nat]
  /\ DOMAIN issued \subseteq Nonce /\ \A n \in DOMAIN issued : issued[n] \in Nat
  /\ opened \in SUBSET [token : Token, nonce : Nonce, signer : User, at : Nat]

RegistryTyped ==
  /\ now \in Nat
  /\ table \in [Chain -> Url \cup {NoUrl}] /\ chains \in [Chain -> Url \cup {NoUrl}]
  /\ torn \subseteq Chain

LEMMA TypeOKParts == AdminTypeOK <=> RequestsTyped /\ StoresTyped /\ RegistryTyped
BY DEF AdminTypeOK, RequestsTyped, StoresTyped, RegistryTyped, Proper

\* A request that is changing the registry has a job.
LEMMA JobTyped ==
  ASSUME AdminTypeOK, NEW r \in Req, asking[r].step \in {"select", "ask", "write", "publish"}
  PROVE  /\ asking[r].jobs # <<>> /\ asking[r].jobs \in Seq(Job)
         /\ Target(r) \in Chain /\ Asked(r) \in Url \cup {NoUrl}
<1>1. asking[r].jobs # <<>> /\ asking[r].jobs \in Seq(Job) BY DEF AdminTypeOK, Asking, Proper
<1>2. asking[r].jobs[1] \in Job
  <2> DEFINE s == asking[r].jobs
  <2>1. s \in Seq(Job) /\ s # <<>> BY <1>1
  <2> HIDE DEF s
  <2>2. Len(s) \in Nat /\ Len(s) # 0 BY <2>1, LenProperties, EmptySeq
  <2>3. s[1] \in Job BY <2>1, <2>2, ElementOfSeq
  <2> QED BY <2>3 DEF s
<1> QED BY <1>1, <1>2 DEF Target, Asked, Job

LEMMA NextTypes == AdminTypeOK /\ [AdminNext]_adminVars => AdminTypeOK'
<1> SUFFICES ASSUME AdminTypeOK, [AdminNext]_adminVars PROVE RequestsTyped' /\ StoresTyped' /\ RegistryTyped'
  BY DEF AdminTypeOK, RequestsTyped, StoresTyped, RegistryTyped, Proper
<1> USE DEF storeVars, registryVars
<1>0. RequestsTyped /\ StoresTyped /\ RegistryTyped BY TypeOKParts
<1>1. CASE UNCHANGED adminVars
  BY <1>0, <1>1 DEF adminVars, RequestsTyped, StoresTyped, RegistryTyped, Proper
<1>2. CASE Tick
  BY <1>0, <1>2 DEF Tick, RequestsTyped, StoresTyped, RegistryTyped, Proper
<1>3. CASE AdminRestarts
  <2>1. RequestsTyped' BY <1>3, IdleFields DEF AdminRestarts, RequestsTyped, Proper
  <2> QED BY <1>0, <1>3, <2>1 DEF AdminRestarts, StoresTyped, RegistryTyped
<1>4. ASSUME NEW r \in Req,
             AuthChallenge(r) \/ AuthVerify(r) \/ ChangeOpen(r) PROVE RequestsTyped' /\ StoresTyped' /\ RegistryTyped'
  <2>1. StoresTyped' /\ RegistryTyped'
    BY <1>0, <1>4 DEF AuthChallenge, AuthVerify, ChangeOpen, StoresTyped, RegistryTyped
  <2>2. <<>> \in Seq(Job) /\ Nobody \in User \cup {Nobody} OBVIOUS
  <2>3. CASE AuthChallenge(r)
    <3>1. PICK n \in Nonce : Begins(r, "issue", n, Nobody, <<>>) BY <2>3 DEF AuthChallenge
    <3>2. RequestsTyped' BY <2>2, <3>1, BeginsTyped
    <3> QED BY <2>1, <3>2
  <2>4. CASE AuthVerify(r)
    <3>1. PICK m \in Message : Begins(r, "expire", m.nonce, Signer(m), <<>>)
      BY <2>4 DEF AuthVerify
    <3>2. m.nonce \in Nonce /\ Signer(m) \in User \cup {Nobody}
      BY GateAdminAssumption DEF Signer
    <3>3. RequestsTyped' BY <2>2, <3>1, <3>2, BeginsTyped
    <3> QED BY <2>1, <3>3
  <2>5. CASE ChangeOpen(r)
    <3>1. PICK t \in {s.token : s \in opened}, jobs \in Change : Begins(r, "purge", t, Nobody, jobs)
      BY <2>5 DEF ChangeOpen
    <3>2. t \in Nonce \cup Token BY <1>0 DEF StoresTyped
    <3>3. jobs \in Seq(Job) /\ jobs # <<>> BY GateAdminAssumption
    <3>4. RequestsTyped' BY <2>2, <3>1, <3>2, <3>3, BeginsTyped
    <3> QED BY <2>1, <3>4
  <2> QED BY <1>4, <2>1, <2>3, <2>4, <2>5
<1>5. ASSUME NEW r \in Req, Issue(r) \/ Expire(r) \/ Consume(r) \/ Open(r) \/ Purge(r) \/ Select(r)
      PROVE  RequestsTyped' /\ StoresTyped' /\ RegistryTyped'
  <2>0. asking[r] \in Asking /\ Proper(asking[r]) BY DEF AdminTypeOK
  <2>1. RegistryTyped'
    BY <1>0, <1>5 DEF Issue, Expire, Consume, Open, Purge, Select, RegistryTyped
  <2>2. CASE Issue(r)
    <3>1. asking[r].what \in Nonce /\ asking[r].at \in Nat BY <2>0, <2>2 DEF Issue, Is, Proper, Asking
    <3>2. StoresTyped' BY <1>0, <2>2, <3>1 DEF Issue, StoresTyped, With
    <3>3. RequestsTyped' BY <2>2, EndsTyped DEF Issue
    <3> QED BY <2>1, <3>2, <3>3
  <2>3. CASE Expire(r)
    <3>1. StoresTyped' BY <1>0, <2>3 DEF Expire, StoresTyped, Since, Restrict
    <3>2. asking[r].what \in Nonce BY <2>0, <2>3 DEF Expire, Is, Proper
    <3>3. Turns(r, "consume") \/ Quits(r) BY <2>3 DEF Expire
    <3>4. RequestsTyped' BY <3>2, <3>3, EndsTyped, GoesTyped
    <3> QED BY <2>1, <3>1, <3>4
  <2>4. CASE Consume(r)
    <3>1. StoresTyped' BY <1>0, <2>4 DEF Consume, StoresTyped, Restrict
    <3>2. asking[r].what \in Nonce /\ asking[r].who \in User \cup {Nobody}
      BY <2>0, <2>4 DEF Consume, Is, Proper, Asking
    <3>3. (Turns(r, "open") /\ asking[r].who # Nobody) \/ Quits(r) BY <2>4 DEF Consume
    <3>4. RequestsTyped' BY <3>2, <3>3, EndsTyped, GoesTyped
    <3> QED BY <2>1, <3>1, <3>4
  <2>5. CASE Open(r)
    <3>1. asking[r].what \in Nonce /\ asking[r].at \in Nat /\ asking[r].who \in User
      BY <2>0, <2>5 DEF Open, Is, Proper, Asking
    <3>2. StoresTyped'
      <4>1. CASE UNCHANGED <<sessions, opened>> BY <1>0, <2>5, <4>1 DEF Open, StoresTyped
      <4>2. CASE ~ UNCHANGED <<sessions, opened>>
        <5>1. PICK t \in Token :
                /\ sessions' = With(sessions, t, [signer |-> asking[r].who, created |-> asking[r].at])
                /\ opened' = opened \cup
                     {[token |-> t, nonce |-> asking[r].what, signer |-> asking[r].who, at |-> asking[r].at]}
          BY <2>5, <4>2 DEF Open
        <5>2. challenges' = challenges /\ issued' = issued BY <2>5 DEF Open
        <5> QED BY <1>0, <3>1, <5>1, <5>2 DEF StoresTyped, With
      <4> QED BY <4>1, <4>2
    <3>3. RequestsTyped' BY <2>5, EndsTyped DEF Open
    <3> QED BY <2>1, <3>2, <3>3
  <2>6. CASE Purge(r)
    <3>1. StoresTyped' BY <1>0, <2>6 DEF Purge, StoresTyped, Since, Restrict
    <3>2. asking[r].jobs # <<>> BY <2>0, <2>6 DEF Purge, Is, Proper
    <3>3. Turns(r, "select") \/ Quits(r) BY <2>6 DEF Purge
    <3>4. RequestsTyped' BY <3>2, <3>3, EndsTyped, GoesTyped
    <3> QED BY <2>1, <3>1, <3>4
  <2>7. CASE Select(r)
    <3>1. StoresTyped' BY <1>0, <2>7 DEF Select, StoresTyped
    <3>2. CASE Quits(r) BY <2>1, <3>1, <3>2, EndsTyped
    <3>3. CASE ~ Quits(r)
      <4> DEFINE q == [[asking[r] EXCEPT !.who = Admin] EXCEPT !.step = First(asking[r].jobs)]
      <4>1. Admin \in User BY <1>0, <2>7, <3>3 DEF Select, StoresTyped
      <4>2. First(asking[r].jobs) \in {"write", "ask"} BY DEF First
      <4>3. asking[r].jobs # <<>> BY <2>0, <2>7 DEF Select, Is, Proper
      <4>4. q \in Asking /\ q.step \in {"write", "ask"} /\ q.jobs = asking[r].jobs
        BY <2>0, <4>1, <4>2 DEF Asking
      <4>5. Proper(q) BY <4>3, <4>4 DEF Proper
      <4>6. Becomes(r, q) BY <2>7, <3>3 DEF Select, Becomes, AdminTypeOK
      <4> HIDE DEF q
      <4>7. RequestsTyped' BY <4>4, <4>5, <4>6, RequestStaysTyped
      <4> QED BY <2>1, <3>1, <4>7
    <3> QED BY <3>2, <3>3
  <2> QED BY <1>5, <2>2, <2>3, <2>4, <2>5, <2>6, <2>7
<1>6. ASSUME NEW r \in Req, VerifyChain(r) \/ Write(r) \/ Publish(r) \/ AdminHangsUp(r)
      PROVE  RequestsTyped' /\ StoresTyped' /\ RegistryTyped'
  <2>1. StoresTyped' BY <1>0, <1>6 DEF VerifyChain, Write, Publish, AdminHangsUp, StoresTyped
  <2>2. CASE AdminHangsUp(r)
    <3>1. Is(r, "publish") => Target(r) \in Chain BY JobTyped DEF Is
    <3>2. RegistryTyped' BY <1>0, <2>2, <3>1 DEF AdminHangsUp, RegistryTyped
    <3>3. RequestsTyped' BY <2>2, EndsTyped DEF AdminHangsUp
    <3> QED BY <2>1, <3>2, <3>3
  <2>3. CASE VerifyChain(r) \/ Write(r) \/ Publish(r)
    <3>1. asking[r].jobs # <<>> /\ Target(r) \in Chain /\ Asked(r) \in Url \cup {NoUrl}
      BY <2>3, JobTyped DEF VerifyChain, Write, Publish, Is
    <3>2. RegistryTyped' BY <1>0, <2>3, <3>1 DEF VerifyChain, Write, Publish, RegistryTyped
    <3>3. Turns(r, "write") \/ Turns(r, "publish") \/ NextJob(r)
      BY <2>3 DEF VerifyChain, Write, Publish
    <3>4. RequestsTyped' BY <3>1, <3>3, GoesTyped, NextJobTyped
    <3> QED BY <2>1, <3>2, <3>4
  <2> QED BY <1>6, <2>2, <2>3
<1> QED BY <1>1, <1>2, <1>3, <1>4, <1>5, <1>6 DEF AdminNext

\* The tables, the map and the requests keep their types; a change that goes
\* on has a job.
THEOREM AdminTypeCorrect == AdminSpec => []AdminTypeOK
<1>1. AdminTypeOK /\ [AdminNext]_adminVars => AdminTypeOK' BY NextTypes
<1> QED BY <1>1, InitTypes, PTL DEF AdminSpec

----------------------------------------------------------------------------
(* A challenge is used up.                                                 *)

\* What a request for a sign-in knows of its challenge.
SignsIn(q) ==
  /\ q.step = "issue" => q.what \notin DOMAIN issued
  /\ q.step \in {"expire", "consume", "open"} => q.what \in DOMAIN issued
  /\ q.step = "consume" /\ q.what \in DOMAIN challenges => q.at - issued[q.what] <= NonceTtl
  /\ q.step = "open" => /\ q.what \notin DOMAIN challenges
                        /\ q.at - issued[q.what] <= NonceTtl
                        /\ \A s \in opened : s.nonce # q.what

\* A challenge that is still there has opened nothing, and one that is gone is
\* with one request or has opened one session.
Alone(f, step) ==
  \A r, q \in Req : f[r].step = step /\ f[q].step = step /\ f[r].what = f[q].what => r = q

SigningInv ==
  /\ \A n \in DOMAIN challenges : n \in DOMAIN issued /\ challenges[n].created = issued[n]
  /\ \A s \in opened : s.nonce \notin DOMAIN challenges /\ s.nonce \in DOMAIN issued
  /\ OneSessionPerChallenge
  /\ \A r \in Req : SignsIn(asking[r])
  /\ Alone(asking, "issue") /\ Alone(asking, "open")

LEMMA InitSigning == AdminInit => SigningInv
BY IdleFields DEF AdminInit, SigningInv, OneSessionPerChallenge, SignsIn, Alone

\* A request goes on, and no table of sign-in changes.
LEMMA RequestKeepsSigning ==
  ASSUME SigningInv, NEW r \in Req, NEW q, Becomes(r, q), SignsIn(q),
         q.step = "issue" => \A x \in Req : asking[x].what # q.what,
         q.step # "open",
         UNCHANGED <<challenges, issued, opened>>
  PROVE  SigningInv'
BY DEF SigningInv, OneSessionPerChallenge, SignsIn, Alone, Becomes

\* A request for a change is over or goes on, as it came.
LEMMA ChangeGoesOn ==
  ASSUME AdminTypeOK, NEW r \in Req,
         Purge(r) \/ Select(r) \/ VerifyChain(r) \/ Write(r) \/ Publish(r) \/ AdminHangsUp(r)
  PROVE  \E q \in Asking :
           /\ Becomes(r, q)
           /\ \/ q = NotAsking
              \/ /\ q.at = asking[r].at /\ q.what = asking[r].what
                 /\ \/ Purge(r) /\ q.step = "select"
                    \/ Select(r) /\ q.step \in {"ask", "write"}
                    \/ VerifyChain(r) /\ q.step \in {"ask", "write"}
                    \/ Write(r) /\ q.step \in {"ask", "write"}
                    \/ Write(r) /\ q.step = "publish" /\ q.jobs = asking[r].jobs
                    \/ Publish(r) /\ q.step \in {"ask", "write"}
<1>1. CASE Quits(r) BY <1>1, EndsIdle, IdleFields
<1>2. CASE Purge(r) /\ ~ Quits(r)
  <2>1. Turns(r, "select") BY <1>2 DEF Purge
  <2>2. PICK q \in Asking : /\ Becomes(r, q) /\ q.step = "select"
                             /\ q.at = asking[r].at /\ q.what = asking[r].what
    BY <2>1, GoesOn
  <2> QED BY <1>2, <2>2
<1>3. CASE Select(r) /\ ~ Quits(r)
  <2> DEFINE q == [[asking[r] EXCEPT !.who = Admin] EXCEPT !.step = First(asking[r].jobs)]
  <2>1. Admin \in User BY <1>3 DEF Select, AdminTypeOK
  <2>2. First(asking[r].jobs) \in {"write", "ask"} BY DEF First
  <2>3. asking[r] \in Asking BY DEF AdminTypeOK
  <2>4. /\ q \in Asking /\ q.step \in {"write", "ask"}
        /\ q.at = asking[r].at /\ q.what = asking[r].what
    BY <2>1, <2>2, <2>3 DEF Asking
  <2>5. Becomes(r, q) BY <1>3 DEF Select, Becomes, AdminTypeOK
  <2> HIDE DEF q
  <2> QED BY <1>3, <2>4, <2>5
<1>4. CASE (VerifyChain(r) \/ Write(r) \/ Publish(r)) /\ ~ Quits(r)
  <2>1. asking[r].jobs # <<>> BY <1>4, JobTyped DEF VerifyChain, Write, Publish, Is
  <2>2. CASE NextJob(r)
    <3>1. CASE Becomes(r, NotAsking) BY <3>1, IdleFields
    <3>2. CASE ~ Becomes(r, NotAsking)
      <4>1. PICK q \in Asking :
              /\ Becomes(r, q) /\ q.step \in {"ask", "write"} /\ q.jobs # <<>>
              /\ q.at = asking[r].at /\ q.what = asking[r].what /\ q.who = asking[r].who
        BY <2>1, <2>2, <3>2, NextJobBegins
      <4> QED BY <1>4, <4>1
    <3> QED BY <3>1, <3>2
  <2>3. CASE ~ NextJob(r) /\ VerifyChain(r)
    <3>1. Turns(r, "write") BY <2>3 DEF VerifyChain
    <3>2. PICK q \in Asking : /\ Becomes(r, q) /\ q.step = "write"
                               /\ q.at = asking[r].at /\ q.what = asking[r].what
      BY <3>1, GoesOn
    <3> QED BY <2>3, <3>2
  <2>4. CASE ~ NextJob(r) /\ Write(r)
    <3>1. Turns(r, "publish") BY <2>4 DEF Write
    <3>2. PICK q \in Asking : /\ Becomes(r, q) /\ q.step = "publish" /\ q.jobs = asking[r].jobs
                               /\ q.at = asking[r].at /\ q.what = asking[r].what
      BY <3>1, GoesOn
    <3> QED BY <2>4, <3>2
  <2> QED BY <1>4, <2>2, <2>3, <2>4 DEF Publish
<1> QED BY <1>1, <1>2, <1>3, <1>4 DEF AdminHangsUp

LEMMA NextSigning == AdminTypeOK /\ SigningInv /\ [AdminNext]_adminVars => SigningInv'
<1> SUFFICES ASSUME AdminTypeOK, SigningInv, [AdminNext]_adminVars PROVE SigningInv' OBVIOUS
<1> USE DEF storeVars, registryVars
<1>1. CASE UNCHANGED adminVars \/ Tick
  BY <1>1 DEF adminVars, Tick, SigningInv, OneSessionPerChallenge, SignsIn, Alone
<1>2. CASE AdminRestarts
  BY <1>2, IdleFields DEF AdminRestarts, SigningInv, OneSessionPerChallenge, SignsIn, Alone
<1>3. ASSUME NEW r \in Req, AuthChallenge(r) PROVE SigningInv'
  <2>1. PICK n \in Nonce : /\ n \notin DOMAIN issued /\ \A q \in Req : asking[q].what # n
                           /\ Begins(r, "issue", n, Nobody, <<>>)
    BY <1>3 DEF AuthChallenge
  <2> DEFINE q == [step |-> "issue", at |-> now, what |-> n, who |-> Nobody, jobs |-> <<>>]
  <2>2. Becomes(r, q) BY <2>1 DEF Becomes, AdminTypeOK, Begins
  <2>3. SignsIn(q) BY <2>1 DEF SignsIn
  <2>4. UNCHANGED <<challenges, issued, opened>> BY <1>3 DEF AuthChallenge
  <2> QED BY <2>1, <2>2, <2>3, <2>4, RequestKeepsSigning
<1>4. ASSUME NEW r \in Req, AuthVerify(r) PROVE SigningInv'
  <2>1. PICK m \in Message : /\ m.nonce \in DOMAIN issued
           /\ Begins(r, "expire", m.nonce, Signer(m), <<>>)
    BY <1>4 DEF AuthVerify
  <2> DEFINE q == [step |-> "expire", at |-> now, what |-> m.nonce,
                   who |-> Signer(m), jobs |-> <<>>]
  <2>2. Becomes(r, q) BY <2>1 DEF Becomes, AdminTypeOK, Begins
  <2>3. SignsIn(q) BY <2>1 DEF SignsIn
  <2>4. UNCHANGED <<challenges, issued, opened>> BY <1>4 DEF AuthVerify
  <2> QED BY <2>2, <2>3, <2>4, RequestKeepsSigning
<1>5. ASSUME NEW r \in Req, ChangeOpen(r) PROVE SigningInv'
  <2>1. PICK t \in {s.token : s \in opened}, jobs \in Change : Begins(r, "purge", t, Nobody, jobs)
    BY <1>5 DEF ChangeOpen
  <2> DEFINE q == [step |-> "purge", at |-> now, what |-> t, who |-> Nobody, jobs |-> jobs]
  <2>2. Becomes(r, q) BY <2>1 DEF Becomes, AdminTypeOK, Begins
  <2>3. SignsIn(q) BY DEF SignsIn
  <2>4. UNCHANGED <<challenges, issued, opened>> BY <1>5 DEF ChangeOpen
  <2> QED BY <2>2, <2>3, <2>4, RequestKeepsSigning
<1>6. ASSUME NEW r \in Req,
             Purge(r) \/ Select(r) \/ VerifyChain(r) \/ Write(r) \/ Publish(r) \/ AdminHangsUp(r)
      PROVE  SigningInv'
  <2>1. PICK q \in Asking :
          Becomes(r, q) /\ q.step \notin {"issue", "expire", "consume", "open"}
    BY <1>6, ChangeGoesOn, IdleFields
  <2>2. SignsIn(q) BY <2>1 DEF SignsIn
  <2>3. UNCHANGED <<challenges, issued, opened>>
    BY <1>6 DEF Purge, Select, VerifyChain, Write, Publish, AdminHangsUp
  <2> QED BY <2>1, <2>2, <2>3, RequestKeepsSigning
<1>7. ASSUME NEW r \in Req, Issue(r) PROVE SigningInv'
  <2>1. Becomes(r, NotAsking) BY <1>7, EndsIdle DEF Issue
  <2> DEFINE n == asking[r].what
  <2>2. n \notin DOMAIN issued BY <1>7 DEF Issue, Is, SigningInv, SignsIn
  <2>3. CASE UNCHANGED <<challenges, issued>>
    <3>1. SignsIn(NotAsking) /\ opened' = opened BY <1>7, IdleFields DEF SignsIn, Issue
    <3> QED BY <2>1, <2>3, <3>1, IdleFields, RequestKeepsSigning
  <2>4. CASE /\ challenges' = With(challenges, n, [created |-> asking[r].at])
             /\ issued' = With(issued, n, asking[r].at)
    <3>1. opened' = opened BY <1>7 DEF Issue
    <3>2. /\ DOMAIN issued' = DOMAIN issued \cup {n} /\ DOMAIN challenges' = DOMAIN challenges \cup {n}
          /\ issued'[n] = asking[r].at /\ challenges'[n].created = asking[r].at
          /\ \A x \in DOMAIN issued : issued'[x] = issued[x]
          /\ \A x \in DOMAIN challenges : x # n => challenges'[x] = challenges[x]
      BY <2>2, <2>4 DEF With
    <3>3. \A x \in Req : x # r => /\ asking'[x] = asking[x] /\ SignsIn(asking[x])
                                  /\ asking[x].step = "issue" => asking[x].what # n
      BY <1>7, <2>1 DEF SigningInv, Becomes, Alone, Issue, Is
    <3>4. \A x \in Req : SignsIn(asking[x])'
      BY <2>1, <2>2, <3>1, <3>2, <3>3, IdleFields DEF SignsIn, Becomes
    <3>5. Alone(asking, "issue")' /\ Alone(asking, "open")'
      BY <2>1, IdleFields DEF SigningInv, Alone, Becomes
    <3>6. OneSessionPerChallenge'
      BY <3>1, <3>2 DEF SigningInv, OneSessionPerChallenge
    <3> QED BY <2>2, <3>1, <3>2, <3>4, <3>5, <3>6 DEF SigningInv
  <2> QED BY <1>7, <2>3, <2>4 DEF Issue
<1>8. ASSUME NEW r \in Req, Expire(r) PROVE SigningInv'
  <2>1. issued' = issued /\ opened' = opened BY <1>8 DEF Expire
  <2>2. CASE challenges' = challenges /\ Quits(r)
    <3>1. Becomes(r, NotAsking) /\ SignsIn(NotAsking) BY <2>2, EndsIdle, IdleFields DEF SignsIn
    <3> QED BY <2>1, <2>2, <3>1, IdleFields, RequestKeepsSigning
  <2>3. CASE challenges' = Since(challenges, asking[r].at - NonceTtl) /\ Turns(r, "consume")
    <3>1. PICK q \in Asking : /\ Becomes(r, q) /\ q.step = "consume"
                               /\ q.at = asking[r].at /\ q.what = asking[r].what
      BY <2>3, GoesOn
    <3>2. /\ DOMAIN challenges' \subseteq DOMAIN challenges
          /\ \A n \in DOMAIN challenges' : /\ challenges'[n] = challenges[n]
                                         /\ challenges[n].created >= asking[r].at - NonceTtl
      BY <2>3 DEF Since, Restrict
    <3>3. q.what \in DOMAIN issued BY <1>8, <3>1 DEF Expire, Is, SigningInv, SignsIn
    <3>4. q.what \in DOMAIN challenges' => q.at - issued[q.what] <= NonceTtl
      <4> SUFFICES ASSUME q.what \in DOMAIN challenges' PROVE q.at - issued[q.what] <= NonceTtl
        OBVIOUS
      <4>1. challenges[q.what].created = issued[q.what] BY <3>2 DEF SigningInv
      <4>2. issued[q.what] >= q.at - NonceTtl BY <3>1, <3>2, <4>1
      <4>3. issued[q.what] \in Nat /\ q.at \in Nat /\ NonceTtl \in Nat
        BY <3>3, GateAdminAssumption DEF AdminTypeOK, Asking
      <4> QED BY <4>2, <4>3
    <3>5. \A x \in Req : SignsIn(asking[x])'
      BY <2>1, <3>1, <3>2, <3>3, <3>4 DEF SigningInv, SignsIn, Becomes
    <3>6. Alone(asking, "issue")' /\ Alone(asking, "open")' BY <3>1 DEF SigningInv, Alone, Becomes
    <3> QED BY <2>1, <3>2, <3>5, <3>6 DEF SigningInv, OneSessionPerChallenge
  <2> QED BY <1>8, <2>2, <2>3 DEF Expire
<1>9. ASSUME NEW r \in Req, Consume(r) PROVE SigningInv'
  <2>1. issued' = issued /\ opened' = opened BY <1>9 DEF Consume
  <2>2. CASE challenges' = challenges /\ Quits(r)
    <3>1. Becomes(r, NotAsking) /\ SignsIn(NotAsking) BY <2>2, EndsIdle, IdleFields DEF SignsIn
    <3> QED BY <2>1, <2>2, <3>1, IdleFields, RequestKeepsSigning
  <2> DEFINE n == asking[r].what
  <2>3. CASE /\ n \in DOMAIN challenges
             /\ challenges' = Restrict(challenges, DOMAIN challenges \ {n})
             /\ Turns(r, "open") \/ Quits(r)
    <3>1. /\ DOMAIN challenges' = DOMAIN challenges \ {n}
          /\ \A x \in DOMAIN challenges' : challenges'[x] = challenges[x]
      BY <2>3 DEF Restrict
    <3>2. PICK q : /\ Becomes(r, q)
                   /\ \/ q = NotAsking
                      \/ /\ q.step = "open" /\ q.at = asking[r].at /\ q.what = n
      BY <2>3, GoesOn, EndsIdle
    <3>3. \A x \in Req : asking[x].step = "open" => asking[x].what # n
      BY <2>3 DEF SigningInv, SignsIn
    <3>4. \A s \in opened : s.nonce # n BY <2>3 DEF SigningInv
    <3>5. n \in DOMAIN issued /\ asking[r].at - issued[n] <= NonceTtl
      BY <1>9, <2>3 DEF Consume, Is, SigningInv, SignsIn
    <3>6. SignsIn(q)' BY <2>1, <3>1, <3>2, <3>4, <3>5, IdleFields DEF SignsIn
    <3>7. \A x \in Req : SignsIn(asking[x])'
      BY <2>1, <3>1, <3>2, <3>6 DEF SigningInv, SignsIn, Becomes
    <3>8. Alone(asking, "issue")' /\ Alone(asking, "open")'
      BY <3>2, <3>3, IdleFields DEF SigningInv, Alone, Becomes
    <3> QED BY <2>1, <3>1, <3>7, <3>8 DEF SigningInv, OneSessionPerChallenge
  <2> QED BY <1>9, <2>2, <2>3 DEF Consume
<1>10. ASSUME NEW r \in Req, Open(r) PROVE SigningInv'
  <2>1. issued' = issued /\ challenges' = challenges BY <1>10 DEF Open
  <2>2. Becomes(r, NotAsking) BY <1>10, EndsIdle DEF Open
  <2>3. CASE opened' = opened
    <3>1. SignsIn(NotAsking) BY IdleFields DEF SignsIn
    <3> QED BY <2>1, <2>2, <2>3, <3>1, IdleFields, RequestKeepsSigning
  <2> DEFINE n == asking[r].what
  <2>4. ASSUME NEW t \in Token,
               opened' = opened \cup {[token |-> t, nonce |-> n, signer |-> asking[r].who, at |-> asking[r].at]}
        PROVE  SigningInv'
    <3> DEFINE new == [token |-> t, nonce |-> n, signer |-> asking[r].who, at |-> asking[r].at]
    <3>1. /\ n \in DOMAIN issued /\ n \notin DOMAIN challenges
          /\ asking[r].at - issued[n] <= NonceTtl
          /\ \A s \in opened : s.nonce # n
      BY <1>10 DEF Open, Is, SigningInv, SignsIn
    <3>2. new.nonce = n /\ new.at = asking[r].at OBVIOUS
    <3>3. opened' = opened \cup {new} BY <2>4
    <3> HIDE DEF new
    <3>4. OneSessionPerChallenge'
      BY <2>1, <3>1, <3>2, <3>3 DEF SigningInv, OneSessionPerChallenge
    <3>5. \A x \in Req : x # r => /\ asking'[x] = asking[x]
                                  /\ asking[x].step = "open" => asking[x].what # n
      BY <1>10, <2>2 DEF SigningInv, Alone, Becomes, Open, Is
    <3>6. \A x \in Req : SignsIn(asking[x])'
      BY <2>1, <2>2, <3>2, <3>3, <3>5, IdleFields DEF SigningInv, SignsIn, Becomes
    <3>7. Alone(asking, "issue")' /\ Alone(asking, "open")'
      BY <2>2, IdleFields DEF SigningInv, Alone, Becomes
    <3>8. \A s \in opened' : s.nonce \notin DOMAIN challenges' /\ s.nonce \in DOMAIN issued'
      BY <2>1, <3>1, <3>2, <3>3 DEF SigningInv
    <3> QED BY <2>1, <3>4, <3>6, <3>7, <3>8 DEF SigningInv
  <2> QED BY <1>10, <2>3, <2>4 DEF Open
<1> QED BY <1>1, <1>2, <1>3, <1>4, <1>5, <1>6, <1>7, <1>8, <1>9, <1>10 DEF AdminNext

\* For any number of requests, a challenge opens at most one session, and only
\* for a request that came while it was fresh.
THEOREM ChallengeCorrect == AdminSpec => []OneSessionPerChallenge
<1>1. AdminTypeOK /\ SigningInv /\ [AdminNext]_adminVars => (AdminTypeOK /\ SigningInv)'
  BY NextTypes, NextSigning
<1>2. SigningInv => OneSessionPerChallenge BY DEF SigningInv
<1> QED BY <1>1, <1>2, InitTypes, InitSigning, PTL DEF AdminSpec

----------------------------------------------------------------------------
(* Who changes the registry.                                               *)

\* What a request for a change has behind it.
Admitted(q) ==
  /\ q.step \in {"purge", "select"} => \E s \in opened : s.token = q.what
  /\ q.step = "select" /\ q.what \in DOMAIN sessions =>
       q.at - sessions[q.what].created <= SessionTtl
  /\ q.step \in {"ask", "write", "publish"} =>
       \E s \in opened : s.token = q.what /\ s.signer = Admin /\ q.at - s.at <= SessionTtl

\* A session is one that was opened, and the request that has seen the old ones
\* deleted finds no old one.
AdmissionInv ==
  /\ \A t \in DOMAIN sessions :
       \E s \in opened : s.token = t /\ s.signer = sessions[t].signer /\ s.at = sessions[t].created
  /\ \A r \in Req : Admitted(asking[r])

LEMMA InitAdmission == AdminInit => AdmissionInv
BY IdleFields DEF AdminInit, AdmissionInv, Admitted

LEMMA RequestKeepsAdmission ==
  ASSUME AdmissionInv, NEW r \in Req, NEW q, Becomes(r, q), Admitted(q),
         UNCHANGED <<sessions, opened>>
  PROVE  AdmissionInv'
BY DEF AdmissionInv, Admitted, Becomes

\* The steps of signing in, but for the last.
LEMMA SignInGoesOn ==
  ASSUME AdminTypeOK, NEW r \in Req,
         AuthChallenge(r) \/ Issue(r) \/ AuthVerify(r) \/ Expire(r) \/ Consume(r)
  PROVE  \E q : /\ Becomes(r, q)
               /\ q.step \in {"idle", "issue", "expire", "consume", "open"}
<1>1. CASE Quits(r) BY <1>1, EndsIdle, IdleFields
<1>2. CASE Turns(r, "consume") \/ Turns(r, "open")
  <2>1. PICK s \in {"consume", "open"} : Turns(r, s) BY <1>2
  <2>2. PICK q \in Asking : Becomes(r, q) /\ q.step = s BY <2>1, GoesOn
  <2> QED BY <2>1, <2>2
<1>3. ASSUME NEW s \in {"issue", "expire"}, NEW n, NEW w, Begins(r, s, n, w, <<>>)
      PROVE  \E q : Becomes(r, q) /\ q.step \in {"idle", "issue", "expire", "consume", "open"}
  <2> DEFINE q == [step |-> s, at |-> now, what |-> n, who |-> w, jobs |-> <<>>]
  <2>1. Becomes(r, q) BY <1>3 DEF Becomes, AdminTypeOK, Begins
  <2>2. q.step = s OBVIOUS
  <2> QED BY <2>1, <2>2
<1>4. CASE AuthChallenge(r)
  <2>1. PICK n \in Nonce : Begins(r, "issue", n, Nobody, <<>>) BY <1>4 DEF AuthChallenge
  <2> QED BY <2>1, <1>3
<1>5. CASE AuthVerify(r)
  <2>1. PICK m \in Message : Begins(r, "expire", m.nonce, Signer(m), <<>>)
    BY <1>5 DEF AuthVerify
  <2> QED BY <2>1, <1>3
<1> QED BY <1>1, <1>2, <1>4, <1>5 DEF Issue, Expire, Consume

LEMMA NextAdmission == AdminTypeOK /\ AdmissionInv /\ [AdminNext]_adminVars => AdmissionInv'
<1> SUFFICES ASSUME AdminTypeOK, AdmissionInv, [AdminNext]_adminVars PROVE AdmissionInv' OBVIOUS
<1> USE DEF storeVars, registryVars
<1>1. CASE UNCHANGED adminVars \/ Tick BY <1>1 DEF adminVars, Tick, AdmissionInv, Admitted
<1>2. CASE AdminRestarts BY <1>2, IdleFields DEF AdminRestarts, AdmissionInv, Admitted
<1>3. ASSUME NEW r \in Req,
             AuthChallenge(r) \/ Issue(r) \/ AuthVerify(r) \/ Expire(r) \/ Consume(r)
      PROVE  AdmissionInv'
  <2>1. PICK q : Becomes(r, q) /\ q.step \in {"idle", "issue", "expire", "consume", "open"}
    BY <1>3, SignInGoesOn
  <2>2. Admitted(q) BY <2>1 DEF Admitted
  <2>3. UNCHANGED <<sessions, opened>>
    BY <1>3 DEF AuthChallenge, Issue, AuthVerify, Expire, Consume
  <2> QED BY <2>1, <2>2, <2>3, RequestKeepsAdmission
<1>4. ASSUME NEW r \in Req, Open(r) PROVE AdmissionInv'
  <2>1. Becomes(r, NotAsking) BY <1>4, EndsIdle DEF Open
  <2>2. Admitted(NotAsking) BY IdleFields DEF Admitted
  <2>3. CASE UNCHANGED <<sessions, opened>> BY <2>1, <2>2, <2>3, RequestKeepsAdmission
  <2>4. ASSUME NEW t \in Token, \A s \in opened : s.token # t,
               sessions' = With(sessions, t, [signer |-> asking[r].who, created |-> asking[r].at]),
               opened' = opened \cup
                 {[token |-> t, nonce |-> asking[r].what, signer |-> asking[r].who, at |-> asking[r].at]}
        PROVE  AdmissionInv'
    <3> DEFINE new == [token |-> t, nonce |-> asking[r].what, signer |-> asking[r].who, at |-> asking[r].at]
    <3>1. /\ DOMAIN sessions' = DOMAIN sessions \cup {t}
          /\ sessions'[t].signer = asking[r].who /\ sessions'[t].created = asking[r].at
          /\ \A x \in DOMAIN sessions : x # t => sessions'[x] = sessions[x]
      BY <2>4 DEF With
    <3>2. new.token = t /\ new.signer = asking[r].who /\ new.at = asking[r].at OBVIOUS
    <3>3. opened' = opened \cup {new} BY <2>4
    <3> HIDE DEF new
    <3>4. \A x \in Req : Admitted(asking[x])'
      BY <2>1, <2>4, <3>1, <3>3, IdleFields DEF AdmissionInv, Admitted, Becomes
    <3>5. \A x \in DOMAIN sessions' :
            \E s \in opened' : s.token = x /\ s.signer = sessions'[x].signer /\ s.at = sessions'[x].created
      BY <3>1, <3>2, <3>3 DEF AdmissionInv
    <3> QED BY <3>4, <3>5 DEF AdmissionInv
  <2> QED BY <1>4, <2>3, <2>4 DEF Open
<1>5. ASSUME NEW r \in Req, ChangeOpen(r) PROVE AdmissionInv'
  <2>1. PICK t \in {s.token : s \in opened}, jobs \in Change : Begins(r, "purge", t, Nobody, jobs)
    BY <1>5 DEF ChangeOpen
  <2> DEFINE q == [step |-> "purge", at |-> now, what |-> t, who |-> Nobody, jobs |-> jobs]
  <2>2. Becomes(r, q) BY <2>1 DEF Becomes, AdminTypeOK, Begins
  <2>3. Admitted(q) BY DEF Admitted
  <2>4. UNCHANGED <<sessions, opened>> BY <1>5 DEF ChangeOpen
  <2> QED BY <2>2, <2>3, <2>4, RequestKeepsAdmission
<1>6. ASSUME NEW r \in Req, Purge(r) PROVE AdmissionInv'
  <2>1. opened' = opened BY <1>6 DEF Purge
  <2>2. CASE sessions' = sessions /\ Quits(r)
    <3>1. Becomes(r, NotAsking) /\ Admitted(NotAsking) BY <2>2, EndsIdle, IdleFields DEF Admitted
    <3> QED BY <2>1, <2>2, <3>1, RequestKeepsAdmission
  <2>3. CASE sessions' = Since(sessions, asking[r].at - SessionTtl) /\ Turns(r, "select")
    <3>1. PICK q \in Asking : /\ Becomes(r, q) /\ q.step = "select"
                               /\ q.at = asking[r].at /\ q.what = asking[r].what
      BY <2>3, GoesOn
    <3>2. /\ DOMAIN sessions' \subseteq DOMAIN sessions
          /\ \A t \in DOMAIN sessions' : /\ sessions'[t] = sessions[t]
                                       /\ sessions[t].created >= asking[r].at - SessionTtl
      BY <2>3 DEF Since, Restrict
    <3>3. \E s \in opened : s.token = q.what BY <1>6, <3>1 DEF Purge, Is, AdmissionInv, Admitted
    <3>4. q.what \in DOMAIN sessions' => q.at - sessions'[q.what].created <= SessionTtl
      <4> SUFFICES ASSUME q.what \in DOMAIN sessions'
                   PROVE  q.at - sessions'[q.what].created <= SessionTtl
        OBVIOUS
      <4>1. sessions'[q.what].created >= q.at - SessionTtl BY <3>1, <3>2
      <4>2. sessions'[q.what].created \in Nat /\ q.at \in Nat /\ SessionTtl \in Nat
        BY <3>2, GateAdminAssumption DEF AdminTypeOK, Asking
      <4> QED BY <4>1, <4>2
    <3>5. Admitted(q)' BY <2>1, <3>1, <3>3, <3>4 DEF Admitted
    <3>6. \A x \in Req : Admitted(asking[x])'
      BY <2>1, <3>1, <3>2, <3>5 DEF AdmissionInv, Admitted, Becomes
    <3> QED BY <2>1, <3>2, <3>6 DEF AdmissionInv
  <2> QED BY <1>6, <2>2, <2>3 DEF Purge
<1>7. ASSUME NEW r \in Req, Select(r) PROVE AdmissionInv'
  <2>1. PICK q \in Asking :
          /\ Becomes(r, q)
          /\ q = NotAsking \/ (q.at = asking[r].at /\ q.what = asking[r].what /\ q.step \in {"ask", "write"})
    BY <1>7, ChangeGoesOn DEF Select, Purge, VerifyChain, Write, Publish, Is
  <2>2. UNCHANGED <<sessions, opened>> BY <1>7 DEF Select
  <2>3. Admitted(q)
    <3>1. CASE q = NotAsking BY <3>1, IdleFields DEF Admitted
    <3>2. CASE q # NotAsking
      <4>1. ~ Quits(r) BY <2>1, <3>2, EndsIdle DEF Becomes
      <4>2. asking[r].what \in DOMAIN sessions /\ sessions[asking[r].what].signer = Admin
        BY <1>7, <4>1 DEF Select
      <4>3. PICK s \in opened : /\ s.token = asking[r].what /\ s.signer = Admin
                                /\ s.at = sessions[asking[r].what].created
        BY <4>2 DEF AdmissionInv
      <4>4. asking[r].at - s.at <= SessionTtl
        BY <1>7, <4>2, <4>3 DEF Select, Is, AdmissionInv, Admitted
      <4> QED BY <2>1, <3>2, <4>3, <4>4 DEF Admitted
    <3> QED BY <3>1, <3>2
  <2> QED BY <2>1, <2>2, <2>3, RequestKeepsAdmission
<1>8. ASSUME NEW r \in Req, VerifyChain(r) \/ Write(r) \/ Publish(r) \/ AdminHangsUp(r)
      PROVE  AdmissionInv'
  <2>1. UNCHANGED <<sessions, opened>> BY <1>8 DEF VerifyChain, Write, Publish, AdminHangsUp
  <2>2. CASE AdminHangsUp(r)
    <3>1. Becomes(r, NotAsking) /\ Admitted(NotAsking)
      BY <2>2, EndsIdle, IdleFields DEF AdminHangsUp, Admitted
    <3> QED BY <2>1, <3>1, RequestKeepsAdmission
  <2>3. CASE VerifyChain(r) \/ Write(r) \/ Publish(r)
    <3>1. PICK q \in Asking :
            /\ Becomes(r, q)
            /\ \/ q = NotAsking
               \/ /\ q.at = asking[r].at /\ q.what = asking[r].what
                  /\ q.step \in {"ask", "write", "publish"}
      BY <2>3, ChangeGoesOn DEF VerifyChain, Write, Publish, Purge, Select, Is
    <3>2. asking[r].step \in {"ask", "write", "publish"}
      BY <2>3 DEF VerifyChain, Write, Publish, Is
    <3>3. Admitted(q) BY <3>1, <3>2, IdleFields DEF AdmissionInv, Admitted
    <3> QED BY <2>1, <3>1, <3>3, RequestKeepsAdmission
  <2> QED BY <1>8, <2>2, <2>3
<1> QED BY <1>1, <1>2, <1>3, <1>4, <1>5, <1>6, <1>7, <1>8 DEF AdminNext

\* Whatever is under way, a request that changes the registry has come with a
\* session of the administrator, and in time.
THEOREM AdminCorrect == AdminSpec => []RegistryIsTheAdmins
<1>1. AdminTypeOK /\ AdmissionInv /\ [AdminNext]_adminVars => (AdminTypeOK /\ AdmissionInv)'
  BY NextTypes, NextAdmission
<1>2. AdmissionInv => RegistryIsTheAdmins
  BY DEF AdmissionInv, Admitted, RegistryIsTheAdmins
<1> QED BY <1>1, <1>2, InitTypes, InitAdmission, PTL DEF AdminSpec

----------------------------------------------------------------------------
(* The map and the table.                                                  *)

\* Of a chain that is not torn, the map holds what the table holds or a change
\* is between the two, one and no more, which has yet to publish just that.
Mirrored(c) ==
  /\ (\A r \in Req : ~ Between(r, c)) => chains[c] = table[c]
  /\ \A r \in Req : Between(r, c) => Asked(r) = table[c]
  /\ \A r, q \in Req : Between(r, c) /\ Between(q, c) => r = q

MirrorInv == \A c \in Chain : c \notin torn => Mirrored(c)

LEMMA InitMirror == AdminInit => MirrorInv
BY IdleFields DEF AdminInit, MirrorInv, Mirrored, Between, Is

\* The requests that are between the two, after a step of one.
LEMMA BetweenAfter ==
  ASSUME NEW r \in Req, NEW q, Becomes(r, q), NEW x \in Req, NEW c
  PROVE  /\ x # r => (Between(x, c)' <=> Between(x, c)) /\ Asked(x)' = Asked(x)
         /\ Between(r, c)' <=> q.step = "publish" /\ q.jobs[1].chain = c
         /\ Asked(r)' = q.jobs[1].url
BY DEF Becomes, Between, Asked, Target, Is

\* A step that neither comes from, nor leads to, the point between the two.
LEMMA ElsewhereKeepsMirror ==
  ASSUME MirrorInv, NEW r \in Req, NEW q, Becomes(r, q),
         asking[r].step # "publish", q.step # "publish", UNCHANGED registryVars
  PROVE  MirrorInv'
<1>1. \A c \in Chain : ~ Between(r, c) /\ ~ Between(r, c)' BY BetweenAfter DEF Between, Is
<1>2. table' = table /\ chains' = chains /\ torn' = torn BY DEF registryVars
<1> QED BY <1>1, <1>2, BetweenAfter DEF MirrorInv, Mirrored

LEMMA WriteMirrors ==
  ASSUME AdminTypeOK, MirrorInv, NEW r \in Req, Write(r)
  PROVE  MirrorInv'
<1>a. PICK c \in Chain : c = Target(r) BY JobTyped DEF Write, Is
<1>0. /\ asking[r].step = "write" /\ chains' = chains
      /\ asking[r].jobs # <<>> /\ Asked(r) \in Url \cup {NoUrl}
  BY JobTyped DEF Write, Is
<1>1. CASE UNCHANGED <<table, torn>> /\ NextJob(r)
  <2>1. PICK q : Becomes(r, q) /\ q.step # "publish" BY <1>0, <1>1, NextJobBegins, IdleFields
  <2> QED BY <1>0, <1>1, <2>1, ElsewhereKeepsMirror DEF registryVars
<1>2. CASE /\ table' = [table EXCEPT ![c] = Asked(r)]
           /\ torn' = IF \E q \in Req : Between(q, c) THEN torn \cup {c} ELSE torn \ {c}
           /\ Turns(r, "publish")
  <2>1. PICK q \in Asking : Becomes(r, q) /\ q.step = "publish" /\ q.jobs = asking[r].jobs
    BY <1>2, GoesOn
  <2>2. q.jobs[1].chain = c /\ q.jobs[1].url = Asked(r) BY <1>a, <2>1 DEF Target, Asked
  <2>3. \A d \in Chain : table'[d] = IF d = c THEN Asked(r) ELSE table[d]
    BY <1>0, <1>2 DEF AdminTypeOK
  <2>4. \A d \in Chain : ~ Between(r, d) BY <1>0 DEF Between, Is
  <2>5. ASSUME NEW d \in Chain, d # c, d \notin torn' PROVE Mirrored(d)'
    <3>1. Mirrored(d) BY <1>2, <2>5 DEF MirrorInv
    <3>2. \A x \in Req : (Between(x, d)' <=> Between(x, d)) /\ (Between(x, d) => Asked(x)' = Asked(x))
      BY <2>1, <2>2, <2>4, <2>5, BetweenAfter
    <3>3. table'[d] = table[d] /\ chains'[d] = chains[d] BY <1>0, <2>3, <2>5
    <3> QED BY <3>1, <3>2, <3>3 DEF Mirrored
  <2>6. ASSUME c \notin torn' PROVE Mirrored(c)'
    <3>1. \A x \in Req : ~ Between(x, c) BY <1>2, <2>6
    <3>2. \A x \in Req : Between(x, c)' <=> x = r BY <2>1, <2>2, <3>1, BetweenAfter
    <3>3. Asked(r)' = Asked(r) BY <2>1, <2>2, BetweenAfter
    <3>4. table'[c] = Asked(r) BY <1>0, <2>3
    <3> QED BY <3>2, <3>3, <3>4 DEF Mirrored
  <2> QED BY <2>5, <2>6 DEF MirrorInv
<1> QED BY <1>a, <1>1, <1>2 DEF Write

LEMMA PublishMirrors ==
  ASSUME AdminTypeOK, MirrorInv, NEW r \in Req, Publish(r)
  PROVE  MirrorInv'
<1>a. PICK c \in Chain : c = Target(r) BY JobTyped DEF Publish, Is
<1>0. /\ asking[r].step = "publish" /\ table' = table /\ torn' = torn
      /\ asking[r].jobs # <<>> /\ Asked(r) \in Url \cup {NoUrl}
  BY JobTyped DEF Publish, Is
<1>1. \A d \in Chain : chains'[d] = IF d = c THEN Asked(r) ELSE chains[d]
  BY <1>a, <1>0 DEF AdminTypeOK, Publish
<1>2. PICK q : Becomes(r, q) /\ q.step # "publish"
  BY <1>0, NextJobBegins, IdleFields DEF Publish
<1>3. Between(r, c) /\ \A d \in Chain : d # c => ~ Between(r, d)
  BY <1>a, <1>0 DEF Between, Is
<1>4. ASSUME NEW d \in Chain, d # c, d \notin torn' PROVE Mirrored(d)'
  <2>1. Mirrored(d) BY <1>0, <1>4 DEF MirrorInv
  <2>2. \A x \in Req : (Between(x, d)' <=> Between(x, d)) /\ (Between(x, d) => Asked(x)' = Asked(x))
    BY <1>2, <1>3, <1>4, BetweenAfter
  <2> QED BY <1>0, <1>1, <1>4, <2>1, <2>2 DEF Mirrored
<1>5. ASSUME c \notin torn' PROVE Mirrored(c)'
  <2>1. Mirrored(c) BY <1>0, <1>5 DEF MirrorInv
  <2>2. \A x \in Req : Between(x, c) => x = r BY <1>3, <2>1 DEF Mirrored
  <2>3. \A x \in Req : ~ Between(x, c)' BY <1>2, <2>2, BetweenAfter
  <2>4. Asked(r) = table[c] BY <1>3, <2>1 DEF Mirrored
  <2>5. chains'[c] = table'[c] BY <1>0, <1>1, <2>4
  <2> QED BY <2>3, <2>5 DEF Mirrored
<1> QED BY <1>4, <1>5 DEF MirrorInv

LEMMA HangUpMirrors ==
  ASSUME AdminTypeOK, MirrorInv, NEW r \in Req, AdminHangsUp(r)
  PROVE  MirrorInv'
<1>1. Becomes(r, NotAsking) /\ NotAsking.step # "publish" BY EndsIdle, IdleFields DEF AdminHangsUp
<1>2. table' = table /\ chains' = chains BY DEF AdminHangsUp
<1>3. CASE ~ Is(r, "publish")
  <2>1. torn' = torn /\ asking[r].step # "publish" BY <1>3 DEF AdminHangsUp, Is
  <2> QED BY <1>1, <1>2, <2>1, ElsewhereKeepsMirror DEF registryVars
<1>4. CASE Is(r, "publish")
  <2>1. torn' = torn \cup {Target(r)} BY <1>4 DEF AdminHangsUp
  <2>2. ASSUME NEW d \in Chain, d \notin torn' PROVE Mirrored(d)'
    <3>1. Mirrored(d) /\ ~ Between(r, d) BY <2>1, <2>2 DEF MirrorInv, Between
    <3>2. \A x \in Req : (Between(x, d)' <=> Between(x, d)) /\ (Between(x, d) => Asked(x)' = Asked(x))
      BY <1>1, <3>1, BetweenAfter
    <3> QED BY <1>2, <3>1, <3>2 DEF Mirrored
  <2> QED BY <2>2 DEF MirrorInv
<1> QED BY <1>3, <1>4

LEMMA NextMirror == AdminTypeOK /\ MirrorInv /\ [AdminNext]_adminVars => MirrorInv'
<1> SUFFICES ASSUME AdminTypeOK, MirrorInv, [AdminNext]_adminVars PROVE MirrorInv' OBVIOUS
<1>1. CASE UNCHANGED adminVars \/ Tick
  BY <1>1 DEF adminVars, Tick, registryVars, MirrorInv, Mirrored, Between, Asked, Target, Is
<1>2. CASE AdminRestarts
  BY <1>2, IdleFields DEF AdminRestarts, MirrorInv, Mirrored, Between, Is
<1>3. ASSUME NEW r \in Req,
             AuthChallenge(r) \/ Issue(r) \/ AuthVerify(r) \/ Expire(r) \/ Consume(r)
      PROVE  MirrorInv'
  <2>1. PICK q : Becomes(r, q) /\ q.step \in {"idle", "issue", "expire", "consume", "open"}
    BY <1>3, SignInGoesOn
  <2>2. UNCHANGED registryVars /\ asking[r].step # "publish"
    BY <1>3 DEF AuthChallenge, Issue, AuthVerify, Expire, Consume, Is
  <2> QED BY <2>1, <2>2, ElsewhereKeepsMirror
<1>4. ASSUME NEW r \in Req, Open(r) PROVE MirrorInv'
  <2>1. Becomes(r, NotAsking) BY <1>4, EndsIdle DEF Open
  <2>2. UNCHANGED registryVars /\ asking[r].step # "publish" BY <1>4 DEF Open, Is
  <2> QED BY <2>1, <2>2, IdleFields, ElsewhereKeepsMirror
<1>5. ASSUME NEW r \in Req, ChangeOpen(r) PROVE MirrorInv'
  <2>1. PICK t, jobs : Begins(r, "purge", t, Nobody, jobs) BY <1>5 DEF ChangeOpen
  <2> DEFINE q == [step |-> "purge", at |-> now, what |-> t, who |-> Nobody, jobs |-> jobs]
  <2>2. Becomes(r, q) BY <2>1 DEF Becomes, AdminTypeOK, Begins
  <2>3. UNCHANGED registryVars /\ asking[r].step # "publish" BY <1>5 DEF ChangeOpen, Is
  <2>4. q.step # "publish" OBVIOUS
  <2> QED BY <2>2, <2>3, <2>4, ElsewhereKeepsMirror
<1>6. ASSUME NEW r \in Req, Purge(r) \/ Select(r) \/ VerifyChain(r) PROVE MirrorInv'
  <2>1. UNCHANGED registryVars /\ asking[r].step # "publish" /\ asking[r].step # "write"
    BY <1>6 DEF Purge, Select, VerifyChain, Is
  <2>2. PICK q : Becomes(r, q) /\ q.step # "publish"
    <3>1. CASE Quits(r) BY <3>1, EndsIdle, IdleFields
    <3>2. CASE Turns(r, "select") \/ Turns(r, "write") BY <3>2, GoesOn
    <3>3. CASE VerifyChain(r) /\ NextJob(r)
      <4>1. asking[r].jobs # <<>> BY <3>3, JobTyped DEF VerifyChain, Is
      <4> QED BY <3>3, <4>1, NextJobBegins, IdleFields
    <3>4. CASE Select(r)
      <4>1. PICK x \in Asking :
              /\ Becomes(r, x)
              /\ x = NotAsking \/ (x.at = asking[r].at /\ x.what = asking[r].what /\ x.step \in {"ask", "write"})
        BY <3>4, ChangeGoesOn DEF Select, Purge, VerifyChain, Write, Publish, Is
      <4> QED BY <4>1, IdleFields
    <3> QED BY <1>6, <3>1, <3>2, <3>3, <3>4 DEF Purge, VerifyChain
  <2> QED BY <2>1, <2>2, ElsewhereKeepsMirror
<1> QED BY <1>1, <1>2, <1>3, <1>4, <1>5, <1>6, WriteMirrors, PublishMirrors, HangUpMirrors DEF AdminNext

\* Whatever fails and however requests interleave, the map serves what the
\* table holds but between the two writes of a change and on a torn chain.
THEOREM MapCorrect == AdminSpec => []MapIsTheTable
<1>1. AdminTypeOK /\ MirrorInv /\ [AdminNext]_adminVars => (AdminTypeOK /\ MirrorInv)' BY NextTypes, NextMirror
<1>2. MirrorInv => MapIsTheTable BY DEF MirrorInv, Mirrored, MapIsTheTable
<1> QED BY <1>1, <1>2, InitTypes, InitMirror, PTL DEF AdminSpec
=============================================================================
