-------------------------------- MODULE Keyring --------------------------------
(***************************************************************************)
(* KeyringData (data/keyring_data.go) and the tokens OneKeyAbility issues   *)
(* and verifies with it (ability/one_key_ability.go): issue_token is two    *)
(* critical sections on the keyring, Unmount saves the keyring to a file in *)
(* several steps, Mount loads it, and the process may crash between any two *)
(* of them.                                                                 *)
(*                                                                          *)
(* A token is the entry IssueToken writes; its number stands for its        *)
(* subject's entry with those times, so two entries never have one number.  *)
(* A credential is a token with the secret it was signed with. Commands are *)
(* accepted in every state of the Atom.                                     *)
(***************************************************************************)
EXTENDS Integers, FiniteSets

CONSTANTS
  Users,      \* goroutines that call Command
  Subjects,
  MaxTokens,  \* bound on the tokens ever issued
  MaxFiles,   \* bound on the files a crash may leave: saves whose last sync failed
  keyringSnapshotMaxSize,  \* in entries; the code's is 4 MiB
  Secrets,    \* what rotate or set_secret may choose, and Mount generate
  NoSecret,   \* the empty secret
  NoFile,     \* there is no file
  Torn        \* its data had not been synced before a crash

Tokens == 1 .. MaxTokens

\* KeyringData and KeyringSnapshot.
Keyrings == [secret : Secrets \cup {NoSecret}, tokens : [Subjects -> {0} \cup Tokens],
             revoked : SUBSET Tokens, total : Nat, revocations : Nat]
Snapshots == [ring : Keyrings, dead : SUBSET Tokens]

ASSUME KeyringAssumption ==
  /\ MaxTokens \in Nat /\ keyringSnapshotMaxSize \in Nat
  /\ NoSecret \notin Secrets
  /\ NoFile # Torn /\ NoFile \notin Snapshots /\ Torn \notin Snapshots

VARIABLES
  ring,                        \* the fields of KeyringData
  node,                        \* how far Mount and Unmount are
  save, image,                 \* SaveSnapshot: where it is, what it captured
  target, durable,             \* the file, and what a crash may leave of it
  signing,                     \* of each user: the token it is about to sign, or 0
  issued, expired, creds,      \* tokens ever issued and past ExpiresAt, credentials
  dead, lost                   \* tokens revoked or rotated out, or lost with a process

files   == <<target, durable>>
saving  == <<save, image>>
history == <<issued, expired, creds, dead, lost>>
vars == <<ring, node, saving, files, signing, history>>

Nobody  == [s \in Subjects |-> 0]

\* NewKeyringData.
Fresh == [secret |-> NoSecret, tokens |-> Nobody, revoked |-> {}, total |-> 0, revocations |-> 0]

Init ==
  /\ ring = Fresh /\ node = "created"
  /\ save = "no" /\ image = NoFile /\ target = NoFile /\ durable = {NoFile}
  /\ signing = [u \in Users |-> 0]
  /\ issued = 0 /\ expired = {} /\ creds = {} /\ dead = {} /\ lost = {}

InTable(r) == {r.tokens[s] : s \in Subjects} \ {0}
Active(s)  == ring.tokens[s] \notin {0} \cup ring.revoked \cup expired

\* Time passes ExpiresAt; the clock is not set back.
Expire(t) ==
  /\ t \in 1 .. issued \ expired
  /\ expired' = expired \cup {t}
  /\ UNCHANGED <<ring, node, saving, files, signing, issued, creds, dead, lost>>

-----------------------------------------------------------------------------
(* issue_token: the entry, then the signature with the secret of that moment. *)

\* Variant: the active token of the subject is replaced.
MayReplace(s) == TRUE

MayIssue(s) == ~Active(s)

Issue(u, s) ==
  /\ signing[u] = 0 /\ MayIssue(s)
  /\ issued < MaxTokens /\ issued' = issued + 1
  /\ ring' = [ring EXCEPT !.tokens[s] = issued', !.total = @ + 1,
                          !.revoked = @ \ {ring.tokens[s]}]
  /\ signing' = [signing EXCEPT ![u] = issued']
  /\ UNCHANGED <<node, saving, files, expired, creds, dead, lost>>

Sign(u) ==
  /\ signing[u] # 0
  /\ creds' = creds \cup {[token |-> signing[u], secret |-> ring.secret]}
  /\ signing' = [signing EXCEPT ![u] = 0]
  /\ UNCHANGED <<ring, node, saving, files, issued, expired, dead, lost>>

(* verify_token changes nothing: it looks at the entry of the subject and    *)
(* its times, then at the signature. Accepts is the answer of one that no     *)
(* other command interrupts.                                                 *)

Matches(c) == \E s \in Subjects : ring.tokens[s] = c.token /\ Active(s)

SignatureGood(c) == ring.secret # NoSecret /\ c.secret = ring.secret

Accepts(c) == Matches(c) /\ SignatureGood(c)

-----------------------------------------------------------------------------
(* revoke_token, revoke_all, and rotate or set_secret.                       *)

Revoke(s) ==
  /\ ring.tokens[s] \notin {0} \cup ring.revoked
  /\ ring' = [ring EXCEPT !.revoked = @ \cup {ring.tokens[s]}, !.revocations = @ + 1]
  /\ dead' = dead \cup {ring.tokens[s]}
  /\ UNCHANGED <<node, saving, files, signing, issued, expired, creds, lost>>

\* Variant: every entry counts, also one revoked before.
AllEntries == InTable(ring)

Unrevoked == InTable(ring) \ ring.revoked

RevokeAll ==
  /\ InTable(ring) # {}
  /\ ring' = [ring EXCEPT !.revoked = @ \cup Unrevoked,
                          !.revocations = @ + Cardinality(Unrevoked)]
  /\ dead' = dead \cup InTable(ring)
  /\ UNCHANGED <<node, saving, files, signing, issued, expired, creds, lost>>

\* Variant: the tokens are kept.
SecretOnly(x) == [ring EXCEPT !.secret = x]

Rotated(x) == [Fresh EXCEPT !.secret = x]

SetSecret(x) ==
  /\ ring' = Rotated(x)
  /\ dead' = dead \cup InTable(ring)
  /\ UNCHANGED <<node, saving, files, signing, issued, expired, creds, lost>>

-----------------------------------------------------------------------------
(* SaveSnapshot, called by Unmount: the state is captured under the lock,    *)
(* written to a temporary file of its own, which is synced, renamed over the *)
(* target; at last the directory is synced. image remembers what was dead.   *)

Unmount ==
  /\ node = "mounted" /\ save = "no"
  /\ node' = "unmounting" /\ save' = "captured"
  /\ image' = [ring |-> ring, dead |-> dead]
  /\ UNCHANGED <<ring, files, signing, history>>

\* Variant: the temporary file is not synced before the rename.
Unsynced == Torn

Synced == image

\* The new entry of the directory may or may not survive a crash before its sync.
Rename ==
  /\ save = "captured" /\ save' = "renamed"
  /\ Cardinality(durable) < MaxFiles
  /\ target' = image
  /\ durable' = durable \cup {Synced}
  /\ UNCHANGED <<ring, node, image, signing, history>>

\* Any step before the rename fails; the temporary file is removed.
SaveFails ==
  /\ save = "captured" /\ save' = "no"
  /\ image' = NoFile /\ node' = "unmounted"
  /\ UNCHANGED <<ring, files, signing, history>>

\* Variant: the directory is not synced.
DirectoryNotSynced == UNCHANGED durable

DirectorySynced == durable' = {target}

SyncDirectory ==
  /\ save = "renamed"
  /\ DirectorySynced
  /\ save' = "no" /\ image' = NoFile /\ node' = "saved"
  /\ UNCHANGED <<ring, target, signing, history>>

SyncDirectoryFails ==
  /\ save = "renamed"
  /\ save' = "no" /\ image' = NoFile /\ node' = "unmounted"
  /\ UNCHANGED <<ring, files, signing, history>>

-----------------------------------------------------------------------------
(* Mount: the file replaces the whole state in one critical section, after   *)
(* it has been validated; without a file and a secret one is generated.      *)

\* SaveSnapshot does not look at the size of what it writes.
TooLarge(f) == f \notin {NoFile, Torn} /\ Cardinality(InTable(f.ring)) > keyringSnapshotMaxSize

\* What LoadSnapshot accepts; it changes nothing when it refuses.
Loadable(f) ==
  /\ f # Torn /\ ~TooLarge(f)
  /\ f # NoFile => f.ring.secret # NoSecret /\ f.ring.revocations <= f.ring.total

MountLoads ==
  /\ node \in {"created", "unmounted", "saved"} /\ target # NoFile
  /\ Loadable(target)
  /\ ring' = target.ring /\ dead' = target.dead
  /\ lost' = lost \cup dead \cup (1 .. issued \ InTable(target.ring))
  /\ node' = "mounted"
  /\ UNCHANGED <<saving, files, signing, issued, expired, creds>>

MountGenerates(x) ==
  /\ node \in {"created", "unmounted", "saved"} /\ target = NoFile
  /\ ring' = IF ring.secret = NoSecret THEN [ring EXCEPT !.secret = x] ELSE ring
  /\ lost' = lost \cup (1 .. issued \ (InTable(ring) \cup dead))
  /\ node' = "mounted"
  /\ UNCHANGED <<saving, files, signing, issued, expired, creds, dead>>

\* The process ends, at whatever point, and is started again.
Crash ==
  /\ node # "created"
  /\ ring' = Fresh /\ node' = "created"
  /\ save' = "no" /\ image' = NoFile
  /\ target' \in durable /\ durable' = {target'}
  /\ signing' = [u \in Users |-> 0]
  /\ UNCHANGED history

-----------------------------------------------------------------------------
Save == Rename \/ SaveFails \/ SyncDirectory \/ SyncDirectoryFails

Next ==
  \/ \E u \in Users : Sign(u) \/ \E s \in Subjects : Issue(u, s)
  \/ \E s \in Subjects : Revoke(s)
  \/ RevokeAll
  \/ \E x \in Secrets : SetSecret(x) \/ MountGenerates(x)
  \/ \E t \in Tokens : Expire(t)
  \/ Unmount \/ Save \/ MountLoads \/ Crash

Spec == Init /\ [][Next]_vars

-----------------------------------------------------------------------------
RingOK(r) ==
  /\ r \in Keyrings /\ r.tokens \in [Subjects -> 0 .. issued]
  /\ r.revoked \subseteq InTable(r) /\ {r.total, r.revocations} \subseteq 0 .. issued

TypeOK ==
  /\ RingOK(ring) /\ issued \in 0 .. MaxTokens
  /\ node \in {"created", "mounted", "unmounting", "unmounted", "saved"}
  /\ save \in {"no", "captured", "renamed"}
  /\ node = "unmounting" <=> save # "no"
  /\ \A f \in {image, target} \cup durable : f \notin {NoFile, Torn} => RingOK(f.ring)
  /\ signing \in [Users -> 0 .. issued]
  /\ creds \subseteq [token : 1 .. issued, secret : Secrets \cup {NoSecret}]
  /\ expired \subseteq 1 .. issued /\ dead \subseteq 1 .. issued /\ lost \subseteq 1 .. issued

(* A node that has saved its keyring can start again unless the table had     *)
(* outgrown the limit of LoadSnapshot: whatever a crash leaves of the file,  *)
(* its size is the only ground to refuse it. Torn data and counters that     *)
(* contradict each other are others, so the operations must keep them.       *)
SnapshotLoads == TypeOK /\ \A f \in durable \cup {target} : Loadable(f) \/ TooLarge(f)

(* Unmount that returned nil is durable: a crash right after it cannot bring  *)
(* back an older file.                                                       *)
SavedIsDurable == node = "saved" => durable = {target}

(* A token that was revoked or rotated out is rejected from then on, also one *)
(* whose issue_token was between the entry and the signature; after a        *)
(* restart this holds of what the loaded file knew.                          *)
DeadStaysDead == \A c \in creds : c.token \in dead => ~Accepts(c)

(* A credential that issue_token returned is accepted until it expires, is    *)
(* revoked or rotated out, or the entry is lost with the process; no other   *)
(* command, and no save in between, invalidates it.                          *)
GenuineAccepted ==
  node # "created" => \A c \in creds :
    c.secret # NoSecret /\ c.token \notin dead \cup expired \cup lost => Accepts(c)

(* The file: only its size keeps it from loading, and it is durable once      *)
(* Unmount has returned.                                                     *)
FileSound == SnapshotLoads /\ SavedIsDurable

(* The tokens: dead ones stay dead, genuine ones are accepted.                *)
TokensSound == DeadStaysDead /\ GenuineAccepted
=============================================================================
