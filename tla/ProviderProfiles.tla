-------------------------- MODULE ProviderProfiles --------------------------
(* Saved provider profiles of one owner and the versions of their API key.   *)
(* A service call reads the active credential without a lock, encrypts the   *)
(* next version of the key for what it read, and commits in a transaction    *)
(* that locks the profile: the two halves of a call are two steps.           *)
(* A key's ciphertext is bound to (credential id, adapter, version), so it   *)
(* decrypts under the adapter it was encrypted for and no other.             *)
EXTENDS Naturals, Sequences, FiniteSets

CONSTANTS
  Profiles,
  Adapters,
  Sessions,    \* concurrent management requests
  MaxCreds     \* bound: credential versions written

ASSUME ProfileBounds == MaxCreds \in Nat

VARIABLES
  profiles,    \* llm_provider_profiles: status, adapter, default
  creds,       \* llm_credential_versions in commit order
  op           \* the management request of each session

profileVars == <<profiles, creds, op>>

NoOp == [kind |-> "none"]
Absent == [status |-> "absent", adapter |-> "none", default |-> FALSE]

ProfilesInit ==
  /\ profiles = [p \in Profiles |-> Absent]
  /\ creds = <<>>
  /\ op = [s \in Sessions |-> NoOp]

(* _active_query: credentials that are neither revoked nor deleted.          *)
ActiveCreds(p) ==
  {i \in DOMAIN creds : creds[i].profile = p /\ creds[i].state = "active"}

(* get_active: the active credential of an active profile.                   *)
IsCurrent(p, i) == profiles[p].status = "active" /\ i \in ActiveCreds(p)

Decrypts(i, adapter) == creds[i].aad = adapter

NewCred(p, version, adapter, secret) ==
  [profile |-> p, version |-> version, aad |-> adapter, secret |-> secret,
   state |-> "active"]

WithState(p, states, new) ==
  [i \in DOMAIN creds |->
     IF creds[i].profile = p /\ creds[i].state \in states
     THEN [creds[i] EXCEPT !.state = new] ELSE creds[i]]

(* The other profiles lose the flag when one becomes the default; the unique *)
(* index uq_llm_profiles_owner_default_active backs this up.                 *)
WithDefault(p, row, default) ==
  [q \in Profiles |->
     IF q = p THEN [row EXCEPT !.default = default]
     ELSE IF default /\ profiles[q].status = "active"
     THEN [profiles[q] EXCEPT !.default = FALSE] ELSE profiles[q]]

CreateProfile(p, adapter, default) ==
  /\ profiles[p].status = "absent" /\ Len(creds) < MaxCreds
  /\ profiles' = WithDefault(p, [Absent EXCEPT !.status = "active",
                                               !.adapter = adapter], default)
  /\ creds' = Append(creds, NewCred(p, 1, adapter, Len(creds) + 1))
  /\ UNCHANGED op

(* update_profile that keeps the adapter: name, URL and model are data.      *)
UpdateNonSecret(p, default) ==
  /\ profiles[p].status = "active" /\ ActiveCreds(p) # {}
  /\ profiles' = WithDefault(p, profiles[p], default)
  /\ UNCHANGED <<creds, op>>

BeginRotate(s, p) ==
  /\ op[s] = NoOp
  /\ \E i \in DOMAIN creds :
       /\ IsCurrent(p, i)
       /\ op' = [op EXCEPT ![s] = [kind |-> "rotate", profile |-> p, base |-> i,
                                   adapter |-> profiles[p].adapter]]
  /\ UNCHANGED <<profiles, creds>>

(* The key read is decrypted under the adapter read with it; a key that does *)
(* not authenticate ends the request.                                        *)
BeginAdapterChange(s, p, adapter) ==
  /\ op[s] = NoOp
  /\ \E i \in DOMAIN creds :
       /\ IsCurrent(p, i) /\ adapter # profiles[p].adapter
       /\ Decrypts(i, profiles[p].adapter)
       /\ op' = [op EXCEPT ![s] = [kind |-> "adapter", profile |-> p, base |-> i,
                                   adapter |-> adapter]]
  /\ UNCHANGED <<profiles, creds>>

(* rotate: whatever credential is active now is revoked.                     *)
RotateRows(o) ==
  Append(WithState(o.profile, {"active"}, "revoked"),
         NewCred(o.profile, creds[o.base].version + 1, o.adapter, Len(creds) + 1))

CommitRotate(s) ==
  /\ op[s].kind = "rotate"
  /\ \/ /\ profiles[op[s].profile].status = "active" /\ Len(creds) < MaxCreds
        /\ creds' = RotateRows(op[s])
     \/ profiles[op[s].profile].status # "active" /\ UNCHANGED creds
  /\ op' = [op EXCEPT ![s] = NoOp]
  /\ UNCHANGED profiles

AdapterAppliesUnchecked(o) ==
  profiles[o.profile].status = "active" /\ ActiveCreds(o.profile) # {}

(* replace_adapter refuses when the credential it re-encrypted is not the    *)
(* active one any more.                                                      *)
AdapterApplies(o) ==
  profiles[o.profile].status = "active" /\ ActiveCreds(o.profile) = {o.base}

CommitAdapterChange(s, default) ==
  LET o == op[s] IN
  /\ o.kind = "adapter"
  /\ \/ /\ AdapterApplies(o) /\ Len(creds) < MaxCreds
        /\ profiles' = WithDefault(o.profile, [profiles[o.profile] EXCEPT
                                     !.adapter = o.adapter], default)
        /\ creds' = Append(WithState(o.profile, {"active"}, "revoked"),
                      NewCred(o.profile, creds[o.base].version + 1, o.adapter,
                              creds[o.base].secret))
     \/ ~AdapterApplies(o) /\ UNCHANGED <<profiles, creds>>
  /\ op' = [op EXCEPT ![s] = NoOp]

DeleteProfile(p) ==
  /\ profiles[p].status = "active"
  /\ profiles' = [profiles EXCEPT ![p].status = "deleted"]
  /\ creds' = WithState(p, {"active", "revoked"}, "deleted")
  /\ UNCHANGED op

ManageStep ==
  \/ \E p \in Profiles, a \in Adapters, d \in BOOLEAN : CreateProfile(p, a, d)
  \/ \E p \in Profiles, d \in BOOLEAN : UpdateNonSecret(p, d)
  \/ \E s \in Sessions, p \in Profiles : BeginRotate(s, p)
  \/ \E s \in Sessions, p \in Profiles, a \in Adapters : BeginAdapterChange(s, p, a)
  \/ \E s \in Sessions : CommitRotate(s)
  \/ \E s \in Sessions, d \in BOOLEAN : CommitAdapterChange(s, d)
  \/ \E p \in Profiles : DeleteProfile(p)

ProfilesTypeOK ==
  /\ \A p \in Profiles : profiles[p].status \in {"absent", "active", "deleted"}
  /\ \A i \in DOMAIN creds :
       creds[i].state \in {"active", "revoked", "deleted"} /\ creds[i].aad \in Adapters
  /\ \A s \in Sessions : op[s].kind \in {"none", "rotate", "adapter"}

(* However rotations, adapter changes and deletions overlap, an active       *)
(* profile has exactly one key in force and a deleted one has none left: the *)
(* three commit under the profile's lock, replace_adapter only over the key  *)
(* it read, rotate over whichever is in force.  That the key in force fits   *)
(* the adapter is not said, and is not true: rotate names no key it expects, *)
(* and one that overlaps an adapter change stores a key of the old adapter.  *)
OneKeyInForce ==
  \A p \in Profiles :
    /\ profiles[p].status = "active" => Cardinality(ActiveCreds(p)) = 1
    /\ profiles[p].status = "deleted" =>
         \A i \in DOMAIN creds : creds[i].profile = p => creds[i].state = "deleted"

(* A secret that a rotation replaced never comes back: an adapter change     *)
(* re-encrypts the key it read before the lock and must not reinstate it     *)
(* over a rotation that committed in between (expected_credential_id).       *)
RotatedSecretNeverReturns ==
  \A i, j \in DOMAIN creds :
    i < j /\ creds[i].profile = creds[j].profile /\ creds[i].secret = creds[j].secret =>
      \A k \in i..j : creds[k].profile = creds[i].profile =>
                        creds[k].secret = creds[i].secret

(* At most one active profile of the owner is the default.                   *)
OneDefault ==
  \A p, q \in Profiles :
    (profiles[p].status = "active" /\ profiles[p].default
     /\ profiles[q].status = "active" /\ profiles[q].default) => p = q
=============================================================================
