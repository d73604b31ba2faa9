----------------------------- MODULE GateAdmin -----------------------------
(***************************************************************************)
(* Who may do what in yevm-gate, and the registry of chains it proxies to: *)
(* sign-in by a signed message over a challenge (yevm-gate/src/auth.rs),   *)
(* the middleware that admits a session, and the administrator's changes   *)
(* of the registry, which is a table and a map in memory (main.rs, db.rs). *)
(*                                                                         *)
(* As in GateQueue each query, lock and message to a node is a step of its *)
(* own, between which requests interleave, and at any of which one may     *)
(* fail, be dropped by its client or end with the process.  The clock is   *)
(* read once, when a handler starts.                                       *)
(***************************************************************************)
EXTENDS Gate, Integers, Sequences, FiniteSets, Functions

\* The administrator may be nobody who has a key.
CONSTANTS
  Nobody,        \* the signer of a message whose signature does not match
  Nonce, Token,  \* what random_hex returns: each at most once
  Nothing,       \* neither of them
  Message,       \* what clients sign and post
  Url,
  NoUrl,         \* the entry of a chain that has none
  Change,        \* the bodies of requests for changes: chains and their URLs
  Seed,          \* the registry of a new database
  NonceTtl,      \* NONCE_TTL_SECS: 60
  SessionTtl,    \* SESSION_TTL_SECS: 8 * 3600
  Drift,         \* CLOCK_DRIFT_SECS: 60
  MaxTime        \* bound on the clock

Job == [chain : Chain, url : Url \cup {NoUrl}]

ASSUME GateAdminAssumption ==
  /\ Nobody \notin User /\ Nothing \notin Nonce \cup Token /\ NoUrl \notin Url
  /\ \A m \in Message : /\ m.nonce \in Nonce /\ m.key \in User /\ m.address \in User
                        /\ m.issued \in Nat /\ m.expires \in Nat
  /\ Change \subseteq Seq(Job) \ {<<>>}
  /\ Seed \in [Chain -> Url \cup {NoUrl}]
  /\ NonceTtl \in Nat /\ SessionTtl \in Nat /\ Drift \in Nat /\ MaxTime \in Nat

VARIABLES
  now,         \* the clock
  challenges,  \* the table auth_challenges: nonces, with their time
  sessions,    \* the table auth_sessions: tokens, with signer and time
  table,       \* the table chains
  chains,      \* the map in memory
  asking,      \* the requests
  issued,      \* history: when each challenge was made,
  opened,      \* the sessions opened, each with its challenge,
  torn         \* and the chains that changes met or were cut short on

adminVars == <<now, challenges, sessions, table, chains, asking, issued, opened, torn>>

storeVars    == <<challenges, sessions, issued, opened>>
registryVars == <<table, chains, torn>>

NotAsking == [step |-> "idle", at |-> 0, what |-> Nothing, who |-> Nobody, jobs |-> <<>>]

\* `what` is the challenge of a sign-in and the token of any other request.
Asking == [step : {"idle", "issue", "expire", "consume", "open", "purge", "select",
                   "ask", "write", "publish"},
           at : Nat, what : Nonce \cup Token \cup {Nothing}, who : User \cup {Nobody},
           jobs : Seq(Job)]

\* main: the map is loaded from the table.
AdminInit ==
  /\ now = 0 /\ challenges = <<>> /\ sessions = <<>>
  /\ table = Seed /\ chains = Seed
  /\ asking = [r \in Req |-> NotAsking]
  /\ issued = <<>> /\ opened = {} /\ torn = {}

Is(r, step)    == asking[r].step = step
Begins(r, step, what, who, jobs) ==
  asking' = [asking EXCEPT ![r] =
               [step |-> step, at |-> now, what |-> what, who |-> who, jobs |-> jobs]]
Turns(r, step) == asking' = [asking EXCEPT ![r].step = step]
Quits(r)       == asking' = [asking EXCEPT ![r] = NotAsking]
With(f, x, v) == [y \in DOMAIN f \cup {x} |-> IF y = x THEN v ELSE f[y]]

\* DELETE ... WHERE created_at < t
Since(rows, t) == Restrict(rows, {x \in DOMAIN rows : rows[x].created >= t})

Tick ==
  /\ now < MaxTime /\ now' = now + 1
  /\ UNCHANGED <<storeVars, registryVars, asking>>

----------------------------------------------------------------------------
(* AuthStore: new_challenge and verify.                                    *)

\* The clock is read before the row is written.
AuthChallenge(r) ==
  /\ Is(r, "idle")
  /\ \E n \in Nonce :
       /\ n \notin DOMAIN issued /\ \A q \in Req : asking[q].what # n
       /\ Begins(r, "issue", n, Nobody, <<>>)
  /\ UNCHANGED <<now, storeVars, registryVars>>

Issue(r) ==
  /\ Is(r, "issue")
  /\ \/ /\ challenges' = With(challenges, asking[r].what, [created |-> asking[r].at])
        /\ issued' = With(issued, asking[r].what, asking[r].at)
     \/ UNCHANGED <<challenges, issued>>
  /\ Quits(r)
  /\ UNCHANGED <<now, sessions, opened, registryVars>>

\* Who signed a message in the name of the address it is for.
Signer(m) == IF m.key = m.address THEN m.key ELSE Nobody

\* A client knows a challenge once it has been answered.  Domain and URI are
\* those of the host, or the request has no effect.
AuthVerify(r) ==
  /\ Is(r, "idle")
  /\ \E m \in Message :
       /\ m.nonce \in DOMAIN issued
       /\ m.issued <= now + Drift /\ now <= m.expires
       /\ Begins(r, "expire", m.nonce, Signer(m), <<>>)
  /\ UNCHANGED <<now, storeVars, registryVars>>

Expire(r) ==
  /\ Is(r, "expire")
  /\ \/ challenges' = Since(challenges, asking[r].at - NonceTtl) /\ Turns(r, "consume")
     \/ challenges' = challenges /\ Quits(r)
  /\ UNCHANGED <<now, sessions, issued, opened, registryVars>>

\* Mutant: the challenge is looked up, and deleted only with its age.
ConsumeLooks(r) ==
  /\ Is(r, "consume")
  /\ asking[r].what \in DOMAIN challenges /\ asking[r].who # Nobody /\ Turns(r, "open")
  /\ UNCHANGED <<now, storeVars, registryVars>>

\* The challenge is gone whether or not the signature then matches.
Consume(r) ==
  /\ Is(r, "consume")
  /\ \/ /\ asking[r].what \in DOMAIN challenges
        /\ challenges' = Restrict(challenges, DOMAIN challenges \ {asking[r].what})
        /\ IF asking[r].who = Nobody THEN Quits(r) ELSE Turns(r, "open")
     \/ challenges' = challenges /\ Quits(r)
  /\ UNCHANGED <<now, sessions, issued, opened, registryVars>>

Open(r) ==
  /\ Is(r, "open")
  /\ \/ \E t \in Token :
          /\ \A s \in opened : s.token # t
          /\ sessions' = With(sessions, t, [signer |-> asking[r].who, created |-> asking[r].at])
          /\ opened' = opened \cup
               {[token |-> t, nonce |-> asking[r].what, signer |-> asking[r].who, at |-> asking[r].at]}
     \/ UNCHANGED <<sessions, opened>>
  /\ Quits(r)
  /\ UNCHANGED <<now, challenges, issued, registryVars>>

----------------------------------------------------------------------------
(* require_auth and authenticate.                                          *)

\* A request for a change of the registry, with the token of some sign-in: any
\* other token ends it at Select.
ChangeOpen(r) ==
  /\ Is(r, "idle")
  /\ \E t \in {s.token : s \in opened}, jobs \in Change :
       Begins(r, "purge", t, Nobody, jobs)
  /\ UNCHANGED <<now, storeVars, registryVars>>

\* Mutant: the sessions are not purged of the old ones.
PurgeNothing(r) ==
  /\ Is(r, "purge")
  /\ Turns(r, "select") /\ UNCHANGED <<now, storeVars, registryVars>>

Purge(r) ==
  /\ Is(r, "purge")
  /\ \/ sessions' = Since(sessions, asking[r].at - SessionTtl) /\ Turns(r, "select")
     \/ sessions' = sessions /\ Quits(r)
  /\ UNCHANGED <<now, challenges, issued, opened, registryVars>>

\* A URL is verified before it is written; a deletion is written at once.
First(jobs) == IF jobs[1].url = NoUrl THEN "write" ELSE "ask"

\* The session is there and the caller is the administrator, or it ends here.
Select(r) ==
  /\ Is(r, "select")
  /\ \/ /\ asking[r].what \in DOMAIN sessions
        /\ sessions[asking[r].what].signer = Admin
        /\ asking' = [asking EXCEPT ![r].who = Admin, ![r].step = First(asking[r].jobs)]
     \/ Quits(r)
  /\ UNCHANGED <<now, storeVars, registryVars>>

----------------------------------------------------------------------------
(* chain_set, chains_set and chain_delete.                                 *)

Target(r) == asking[r].jobs[1].chain
Asked(r)  == asking[r].jobs[1].url

NextJob(r) ==
  IF Len(asking[r].jobs) = 1 THEN Quits(r)
  ELSE asking' = [asking EXCEPT ![r].jobs = Tail(@), ![r].step = First(Tail(asking[r].jobs))]

\* verify_chain: the node serves the chain, or it does not or cannot be asked.
VerifyChain(r) ==
  /\ Is(r, "ask")
  /\ Turns(r, "write") \/ NextJob(r)
  /\ UNCHANGED <<now, storeVars, registryVars>>

\* The table has been written for chain c, and the map not yet.
Between(r, c) == Is(r, "publish") /\ Target(r) = c

\* Mutant: an error of the database is passed over.
WriteUnheard(r) ==
  /\ Is(r, "write")
  /\ table' = [table EXCEPT ![Target(r)] = Asked(r)] \/ table' = table
  /\ torn' = IF \E q \in Req : Between(q, Target(r)) THEN torn \cup {Target(r)}
                                                     ELSE torn \ {Target(r)}
  /\ Turns(r, "publish")
  /\ UNCHANGED <<now, storeVars, chains>>

\* update_chain or delete_chain.
Write(r) ==
  /\ Is(r, "write")
  /\ \/ /\ table' = [table EXCEPT ![Target(r)] = Asked(r)]
        /\ torn' = IF \E q \in Req : Between(q, Target(r)) THEN torn \cup {Target(r)}
                                                           ELSE torn \ {Target(r)}
        /\ Turns(r, "publish")
     \/ UNCHANGED <<table, torn>> /\ NextJob(r)
  /\ UNCHANGED <<now, storeVars, chains>>

\* The lock is taken, and the map changed.
Publish(r) ==
  /\ Is(r, "publish")
  /\ chains' = [chains EXCEPT ![Target(r)] = Asked(r)]
  /\ NextJob(r)
  /\ UNCHANGED <<now, storeVars, table, torn>>

----------------------------------------------------------------------------
\* The client hangs up, and the handler is dropped at its await.
AdminHangsUp(r) ==
  /\ ~ Is(r, "idle")
  /\ torn' = IF Is(r, "publish") THEN torn \cup {Target(r)} ELSE torn
  /\ Quits(r)
  /\ UNCHANGED <<now, storeVars, table, chains>>

AdminRestarts ==
  /\ asking' = [r \in Req |-> NotAsking]
  /\ chains' = table /\ torn' = {}
  /\ UNCHANGED <<now, storeVars, table>>

AdminNext ==
  \/ \E r \in Req :
       \/ AuthChallenge(r) \/ Issue(r)
       \/ AuthVerify(r) \/ Expire(r) \/ Consume(r) \/ Open(r)
       \/ ChangeOpen(r) \/ Purge(r) \/ Select(r)
       \/ VerifyChain(r) \/ Write(r) \/ Publish(r)
       \/ AdminHangsUp(r)
  \/ Tick \/ AdminRestarts

AdminSpec == AdminInit /\ [][AdminNext]_adminVars

----------------------------------------------------------------------------
(* Properties.                                                             *)

\* A change keeps its jobs until they are done; a sign-in is by somebody.
Proper(q) ==
  /\ q.step \in {"purge", "select", "ask", "write", "publish"} => q.jobs # <<>>
  /\ q.step \in {"issue", "expire", "consume", "open"} => q.what \in Nonce
  /\ q.step = "open" => q.who \in User

\* Every variable keeps to its type.
AdminTypeOK ==
  /\ now \in Nat
  /\ DOMAIN challenges \subseteq Nonce /\ DOMAIN sessions \subseteq Token
  /\ \A n \in DOMAIN challenges : challenges[n] \in [created : Nat]
  /\ \A t \in DOMAIN sessions : sessions[t] \in [signer : User, created : Nat]
  /\ table \in [Chain -> Url \cup {NoUrl}] /\ chains \in [Chain -> Url \cup {NoUrl}]
  /\ asking \in [Req -> Asking]
  /\ \A r \in Req : Proper(asking[r])
  /\ DOMAIN issued \subseteq Nonce /\ \A n \in DOMAIN issued : issued[n] \in Nat
  /\ opened \in SUBSET [token : Token, nonce : Nonce, signer : User, at : Nat]
  /\ torn \subseteq Chain

\* A challenge opens one session at the most, and only for a request that came
\* while it was fresh, however often the signed message is posted, side by side
\* or again after an answer that was lost or a restart (auth.rs, verify).
OneSessionPerChallenge ==
  /\ \A s, t \in opened : s.nonce = t.nonce => s = t
  /\ \A s \in opened : s.at - issued[s.nonce] <= NonceTtl

\* A request that is about to change the registry came with a session of the
\* administrator, opened for a challenge signed with the administrator's key, and
\* not too old when it came, whatever expired or was purged since.
RegistryIsTheAdmins ==
  \A r \in Req : asking[r].step \in {"ask", "write", "publish"} =>
    \E s \in opened : /\ s.token = asking[r].what /\ s.signer = Admin
                      /\ asking[r].at - s.at <= SessionTtl

\* The map serves what the table holds, unless a change is just between the
\* two (main.rs:582), or the last changes of that chain crossed or were cut short there:
\* a query that fails, a batch that goes on and a restart keep them together.
MapIsTheTable ==
  \A c \in Chain : chains[c] # table[c] =>
    c \in torn \/ \E r \in Req : Between(r, c)
=============================================================================
