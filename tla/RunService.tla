----------------------------- MODULE RunService -----------------------------
(* The service in front of the research runs: saved profiles and their keys, *)
(* the creation of a run under an idempotency key, which pins a credential,  *)
(* and the executions that use that credential while the profile is being    *)
(* managed.                                                                  *)
EXTENDS ProviderProfiles

CONSTANT Clients        \* concurrent requests that create the run, one key

VARIABLES
  runs,       \* research_runs rows of the key: status, credential, adapter, usable
  starts,     \* runs with an outbox row of type start
  req,        \* the create request of each client
  failure     \* termination reason of the last failure

createVars == <<runs, starts, req, failure>>
serviceVars == <<profileVars, createVars>>

NoRequest == [at |-> "idle", cred |-> 0, adapter |-> "none", run |-> 0]

ServiceInit ==
  /\ ProfilesInit
  /\ runs = <<>> /\ starts = {} /\ failure = "none"
  /\ req = [c \in Clients |-> NoRequest]

(* create: a run with the key answers the request whatever its payload; else *)
(* the credential asked for must be in force.                                *)
BeginCreate(c, i) ==
  /\ req[c].at = "idle"
  /\ req' = [req EXCEPT ![c] =
       IF runs # <<>> THEN [NoRequest EXCEPT !.at = "answered", !.run = 1]
       ELSE IF IsCurrent(creds[i].profile, i)
       THEN [NoRequest EXCEPT !.at = "inserting", !.cred = i,
                              !.adapter = profiles[creds[i].profile].adapter]
       ELSE [NoRequest EXCEPT !.at = "failed"]]
  /\ UNCHANGED <<profileVars, runs, starts, failure>>

KeyIsFreeUnconstrained == TRUE

(* uq_research_runs_owner_idempotency, checked when the row is inserted.     *)
KeyIsFree == runs = <<>>

(* The run, its first event and its start dispatch commit together.          *)
CommitCreate(c) ==
  /\ req[c].at = "inserting" /\ KeyIsFree
  /\ runs' = Append(runs, [status |-> "queued", cred |-> req[c].cred,
                           adapter |-> req[c].adapter,
                           usable |-> Decrypts(req[c].cred, req[c].adapter)])
  /\ starts' = starts \union {Len(runs) + 1}
  /\ req' = [req EXCEPT ![c] = [NoRequest EXCEPT !.at = "answered",
                                                 !.run = Len(runs) + 1]]
  /\ UNCHANGED <<profileVars, failure>>

(* The constraint refuses the second of two racing inserts; that request     *)
(* fails although the run exists.                                            *)
RefuseCreate(c) ==
  /\ req[c].at = "inserting" /\ ~KeyIsFree
  /\ req' = [req EXCEPT ![c] = [NoRequest EXCEPT !.at = "failed"]]
  /\ UNCHANGED <<profileVars, runs, starts, failure>>

(* The client repeats a request that failed or whose answer it lost.         *)
RetryCreate(c) ==
  /\ req[c].at \in {"failed", "answered"}
  /\ req' = [req EXCEPT ![c] = NoRequest]
  /\ UNCHANGED <<profileVars, runs, starts, failure>>

(* RunProviderBindingRepository.get: the pinned credential, revoked or not,  *)
(* with the adapter of the run's own snapshot.                               *)
RunBinding(r) == [cred |-> runs[r].cred, adapter |-> runs[r].adapter]

BindingFails(r) ==
  LET b == RunBinding(r) IN
  creds[b.cred].state = "deleted" \/ ~Decrypts(b.cred, b.adapter)

(* An execution loads the binding before a model call; without a key that    *)
(* decrypts it ends the run with CREDENTIAL_UNAVAILABLE.                     *)
FailForCredential(r) ==
  /\ runs[r].status = "running" /\ BindingFails(r)
  /\ runs' = [runs EXCEPT ![r].status = "failed"]
  /\ failure' = "CREDENTIAL_UNAVAILABLE"
  /\ UNCHANGED <<profileVars, starts, req>>

Resumable == {"failed", "cancelled", "interrupted"}

(* The other ends of an execution, and the user's cancel and resume.         *)
Transition(r, from, to) ==
  /\ runs[r].status \in from
  /\ runs' = [runs EXCEPT ![r].status = to]
  /\ failure' = CASE to = "failed" -> "other"
                  [] to = "queued" /\ from = Resumable -> "none"
                  [] OTHER -> failure
  /\ UNCHANGED <<profileVars, starts, req>>

Progress(r) ==
  \/ Transition(r, {"queued"}, "running")
  \/ \E to \in {"queued", "failed", "completed"} : Transition(r, {"running"}, to)
  \/ Transition(r, {"queued", "running", "interrupted"}, "cancelled")
  \/ Transition(r, {"queued", "running"}, "interrupted")
  \/ Transition(r, Resumable, "queued")

ServiceNext ==
  \/ ManageStep /\ UNCHANGED createVars
  \/ \E c \in Clients : \/ \E i \in DOMAIN creds : BeginCreate(c, i)
                        \/ CommitCreate(c) \/ RefuseCreate(c) \/ RetryCreate(c)
  \/ \E r \in DOMAIN runs : FailForCredential(r) \/ Progress(r)

ServiceSpec == ServiceInit /\ [][ServiceNext]_serviceVars

ServiceTypeOK ==
  /\ ProfilesTypeOK
  /\ \A c \in Clients : req[c].at \in {"idle", "inserting", "answered", "failed"}
  /\ failure \in {"none", "other", "CREDENTIAL_UNAVAILABLE"}

(* Creates that race under one idempotency key, and repetitions of one whose *)
(* answer was lost, all end with one and the same run, which has exactly one *)
(* start dispatch.                                                           *)
OneRunPerKey ==
  /\ Len(runs) <= 1 /\ starts = DOMAIN runs
  /\ \A c \in Clients : req[c].at = "answered" => req[c].run \in DOMAIN runs

(* Rotating the key or changing the adapter of the profile never takes the   *)
(* key away from a run created before: it fails for its credential only when *)
(* the profile was deleted, or when the key did not decrypt from the start.  *)
RunKeepsItsKey ==
  failure = "CREDENTIAL_UNAVAILABLE" =>
    creds[runs[1].cred].state = "deleted" \/ ~runs[1].usable

(* However requests of the profile's owner overlap, the keys in force are   *)
(* the ones the profiles stand for, no replaced secret returns, and one     *)
(* default is left (rotate_credential, update_profile, delete_profile).     *)
CredentialsSound ==
  ServiceTypeOK /\ OneKeyInForce /\ RotatedSecretNeverReturns /\ OneDefault

(* A key names one run, and that run keeps the credential it was created    *)
(* with while the profile is managed (create, RunProviderBindingRepository).*)
RunsSound == OneRunPerKey /\ RunKeepsItsKey

=============================================================================
