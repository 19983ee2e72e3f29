----------------------------- MODULE KeyringProofs -----------------------------
(* Theorems about Keyring, for every set of users, subjects and secrets and   *)
(* every bound on the tokens and the files; and about CommandGate, the other  *)
(* part of RemoteAccess, for every set of clients, tokens and names and all   *)
(* limits. Nothing is assumed of the tokens, not even that the in-process     *)
(* credential is none of them.                                               *)
EXTENDS RemoteAccess, TLAPS, FiniteSetTheorems

(* What the operations keep of any keyring r, among n tokens issued, of which *)
(* those in d are dead.                                                      *)
Open(r) == Cardinality(InTable(r) \ r.revoked)

Books(r, d, n) ==
  /\ r \in Keyrings /\ r.tokens \in [Subjects -> 0 .. n] /\ d \subseteq 1 .. n
  /\ \A s, t \in Subjects : r.tokens[s] = r.tokens[t] /\ r.tokens[s] # 0 => s = t
  /\ r.revoked = d \cap InTable(r)
  /\ r.revocations + Open(r) <= r.total /\ r.total <= n

(* The files, and what is about to become one.                               *)
Files == ({image, target} \cup durable) \ {NoFile}

Kept == issued \in 0 .. MaxTokens /\ Books(ring, dead, issued)

Filed ==
  \A f \in Files : f \in Snapshots /\ Books(f.ring, f.dead, issued) /\ f.ring.secret # NoSecret

Steps ==
  /\ node \in {"created", "mounted", "unmounting", "unmounted", "saved"}
  /\ save \in {"no", "captured", "renamed"}
  /\ node = "unmounting" <=> save # "no"
  /\ save # "no" => image # NoFile
  /\ node \in {"mounted", "unmounting"} => ring.secret # NoSecret
  /\ SavedIsDurable

Histories ==
  /\ signing \in [Users -> 0 .. issued]
  /\ creds \subseteq [token : 1 .. issued, secret : Secrets \cup {NoSecret}]
  /\ expired \subseteq 1 .. issued /\ lost \subseteq 1 .. issued

(* What GenuineAccepted needs: every token of a running node is in the table   *)
(* or accounted for, and a table whose entry is or will be signed has the      *)
(* secret of the signature, also when it is in a file.                       *)
Over  == dead \cup expired \cup lost
Table == InTable(ring)

Accounted ==
  /\ node # "created" => 1 .. issued \subseteq Table \cup Over
  /\ \A u \in Users : signing[u] \in {0} \cup Table \cup Over

SignedIn(r) ==
  \A c \in creds :
    c.token \in InTable(r) /\ c.secret # NoSecret => c.secret = r.secret \/ c.token \in Over

WillSignIn(r) ==
  \A u \in Users : signing[u] \in InTable(r) => ring.secret = r.secret \/ signing[u] \in Over

Signatures == SignedIn(ring) /\ \A f \in Files : SignedIn(f.ring) /\ WillSignIn(f.ring)

Inductive == Kept /\ Filed /\ Steps /\ Histories /\ Accounted /\ Signatures

-----------------------------------------------------------------------------
(* The operations on a keyring.                                              *)

LEMMA TableFacts ==
  ASSUME NEW n \in Nat, NEW r, NEW d, Books(r, d, n)
  PROVE  /\ InTable(r) \subseteq 1 .. n /\ IsFiniteSet(InTable(r))
         /\ IsFiniteSet(InTable(r) \ r.revoked) /\ Open(r) \in Nat
         /\ r.total \in 0 .. n /\ r.revocations \in 0 .. n
<1>1. InTable(r) \subseteq 1 .. n
  BY DEF Books, InTable
<1>2. IsFiniteSet(InTable(r))
  BY <1>1, FS_Interval, FS_Subset
<1>3. IsFiniteSet(InTable(r) \ r.revoked)
  BY <1>2, FS_Subset
<1>4. Open(r) \in Nat
  BY <1>3, FS_CardinalityType DEF Open
<1>5. r.total \in Nat /\ r.revocations \in Nat
  BY DEF Books, Keyrings
<1>6. QED BY <1>1, <1>2, <1>3, <1>4, <1>5 DEF Books

LEMMA BooksGrow ==
  ASSUME NEW n \in Nat, NEW r, NEW d, Books(r, d, n)
  PROVE  Books(r, d, n + 1)
<1>1. r.total <= n + 1
  <2>1. r.total \in 0 .. n
    BY TableFacts
  <2>2. QED BY <2>1
<1>2. \A x \in 0 .. n : x \in 0 .. n + 1
  OBVIOUS
<1>3. QED BY <1>1, <1>2 DEF Books

(* NewKeyringData, SetSecret.                                                *)
LEMMA BooksFresh ==
  ASSUME NEW n \in Nat, NEW d \in SUBSET (1 .. n), NEW x \in Secrets \cup {NoSecret},
         NEW r, r = [Fresh EXCEPT !.secret = x]
  PROVE  Books(r, d, n) /\ InTable(r) = {} /\ r.secret = x
<1>1. /\ r.secret = x /\ r.tokens = Nobody /\ r.revoked = {} /\ r.total = 0
      /\ r.revocations = 0 /\ r \in Keyrings
  BY DEF Fresh, Nobody, Keyrings
<1>2. InTable(r) = {}
  BY <1>1 DEF InTable, Nobody
<1>3. Open(r) = 0
  BY <1>1, <1>2, FS_EmptySet DEF Open
<1>4. r.tokens \in [Subjects -> 0 .. n] /\ \A s \in Subjects : r.tokens[s] = 0
  BY <1>1 DEF Nobody
<1>5. r.revocations + Open(r) <= r.total /\ r.total <= n
  BY <1>1, <1>3
<1>6. QED BY <1>1, <1>2, <1>4, <1>5 DEF Books

(* IssueToken over an entry that is absent, revoked or expired.              *)
LEMMA BooksIssue ==
  ASSUME NEW n \in Nat, n + 1 \in Tokens, NEW r, NEW d, Books(r, d, n), NEW s \in Subjects,
         NEW r2, r2 = [r EXCEPT !.tokens[s] = n + 1, !.total = @ + 1,
                                !.revoked = @ \ {r.tokens[s]}]
  PROVE  /\ Books(r2, d, n + 1) /\ r2.secret = r.secret
         /\ InTable(r2) = (InTable(r) \ {r.tokens[s]}) \cup {n + 1}
<1>1. /\ InTable(r) \subseteq 1 .. n /\ IsFiniteSet(InTable(r) \ r.revoked) /\ Open(r) \in Nat
      /\ r.total \in 0 .. n /\ r.revocations \in 0 .. n
  BY TableFacts
<1>2. /\ r \in Keyrings /\ r.tokens \in [Subjects -> 0 .. n] /\ d \subseteq 1 .. n
      /\ \A t, v \in Subjects : r.tokens[t] = r.tokens[v] /\ r.tokens[t] # 0 => t = v
      /\ r.revoked = d \cap InTable(r)
      /\ r.revocations + Open(r) <= r.total /\ r.total <= n
  BY DEF Books
<1>3. /\ r2 \in Keyrings /\ r2.secret = r.secret /\ r2.total = r.total + 1
      /\ r2.revocations = r.revocations /\ r2.revoked = r.revoked \ {r.tokens[s]}
      /\ r2.tokens = [r.tokens EXCEPT ![s] = n + 1]
  <2>1. /\ r2.secret = r.secret /\ r2.total = r.total + 1
        /\ r2.revocations = r.revocations /\ r2.revoked = r.revoked \ {r.tokens[s]}
        /\ r2.tokens = [r.tokens EXCEPT ![s] = n + 1]
        /\ r2 = [secret |-> r2.secret, tokens |-> r2.tokens, revoked |-> r2.revoked,
                 total |-> r2.total, revocations |-> r2.revocations]
    BY <1>2 DEF Keyrings
  <2>2. /\ r.secret \in Secrets \cup {NoSecret} /\ r.tokens \in [Subjects -> {0} \cup Tokens]
        /\ r.revoked \in SUBSET Tokens /\ r.total \in Nat /\ r.revocations \in Nat
    BY <1>2 DEF Keyrings
  <2>3. /\ r2.secret \in Secrets \cup {NoSecret} /\ r2.tokens \in [Subjects -> {0} \cup Tokens]
        /\ r2.revoked \in SUBSET Tokens /\ r2.total \in Nat /\ r2.revocations \in Nat
    BY <2>1, <2>2
  <2>4. r2 \in Keyrings
    BY <2>1, <2>3 DEF Keyrings
  <2>5. QED BY <2>1, <2>4
<1>4. /\ r2.tokens[s] = n + 1 /\ \A t \in Subjects \ {s} : r2.tokens[t] = r.tokens[t]
      /\ \A t \in Subjects : r.tokens[t] \in 0 .. n
      /\ r2.tokens \in [Subjects -> 0 .. n + 1]
  BY <1>2, <1>3
<1>5. InTable(r2) = (InTable(r) \ {r.tokens[s]}) \cup {n + 1}
  <2>1. ASSUME NEW x \in InTable(r2) PROVE x \in (InTable(r) \ {r.tokens[s]}) \cup {n + 1}
    <3>1. PICK t \in Subjects : x = r2.tokens[t] /\ x # 0
      BY <2>1 DEF InTable
    <3>2. CASE t = s
      BY <1>4, <3>1, <3>2
    <3>3. CASE t # s
      BY <1>2, <1>4, <3>1, <3>3 DEF InTable
    <3>4. QED BY <3>2, <3>3
  <2>2. ASSUME NEW x \in InTable(r) \ {r.tokens[s]} PROVE x \in InTable(r2)
    BY <1>4, <2>2 DEF InTable
  <2>3. n + 1 \in InTable(r2)
    BY <1>4 DEF InTable
  <2>4. QED BY <2>1, <2>2, <2>3
<1>6. r2.revoked = d \cap InTable(r2)
  <2>1. n + 1 \notin d
    BY <1>2
  <2>2. QED BY <1>2, <1>3, <1>5, <2>1
<1>7. Open(r2) <= Open(r) + 1
  <2> DEFINE open == InTable(r) \ r.revoked
  <2>1. n + 1 \notin open /\ Cardinality(open \cup {n + 1}) = Open(r) + 1
    <3>1. n + 1 \notin open
      BY <1>1
    <3>2. QED BY <1>1, <3>1, FS_AddElement DEF Open
  <2>2. InTable(r2) \ r2.revoked \subseteq open \cup {n + 1}
    BY <1>3, <1>5
  <2>3. IsFiniteSet(open \cup {n + 1})
    BY <1>1, FS_AddElement
  <2>4. QED BY <2>1, <2>2, <2>3, FS_Subset DEF Open
<1>8. \A t, v \in Subjects : r2.tokens[t] = r2.tokens[v] /\ r2.tokens[t] # 0 => t = v
  <2>1. \A t \in Subjects \ {s} : r2.tokens[t] # n + 1
    BY <1>4
  <2>2. QED BY <1>2, <1>4, <2>1
<1>9. r2.revocations + Open(r2) <= r2.total /\ r2.total <= n + 1
  <2>1. Open(r2) \in Nat
    <3>1. InTable(r2) \ r2.revoked \subseteq 1 .. n + 1
      BY <1>1, <1>5
    <3>2. IsFiniteSet(InTable(r2) \ r2.revoked)
      <4>1. IsFiniteSet(1 .. n + 1)
        BY FS_Interval
      <4>2. QED BY <3>1, <4>1, FS_Subset
    <3>3. QED BY <3>2, FS_CardinalityType DEF Open
  <2>2. QED BY <1>1, <1>2, <1>3, <1>7, <2>1
<1>10. d \subseteq 1 .. n + 1
  BY <1>2
<1>11. QED BY <1>3, <1>4, <1>5, <1>6, <1>8, <1>9, <1>10 DEF Books

(* RevokeToken and RevokeAll: some entries that are not yet revoked.         *)
LEMMA BooksRevoke ==
  ASSUME NEW n \in Nat, n <= MaxTokens, NEW r, NEW d, Books(r, d, n),
         NEW R \in SUBSET (InTable(r) \ r.revoked),
         NEW r2, r2 = [r EXCEPT !.revoked = @ \cup R, !.revocations = @ + Cardinality(R)]
  PROVE  /\ Books(r2, d \cup R, n) /\ r2.secret = r.secret /\ r2.tokens = r.tokens
<1>1. /\ InTable(r) \subseteq 1 .. n /\ IsFiniteSet(InTable(r) \ r.revoked) /\ Open(r) \in Nat
      /\ r.total \in 0 .. n /\ r.revocations \in 0 .. n
  BY TableFacts
<1>2. /\ r \in Keyrings /\ r.tokens \in [Subjects -> 0 .. n] /\ d \subseteq 1 .. n
      /\ \A t, v \in Subjects : r.tokens[t] = r.tokens[v] /\ r.tokens[t] # 0 => t = v
      /\ r.revoked = d \cap InTable(r)
      /\ r.revocations + Open(r) <= r.total /\ r.total <= n
  BY DEF Books
<1>3. IsFiniteSet(R) /\ Cardinality(R) \in Nat
  BY <1>1, FS_Subset, FS_CardinalityType
<1>4. R \subseteq Tokens /\ R \subseteq 1 .. n
  BY <1>1, KeyringAssumption DEF KeyringAssumption, Tokens
<1>5. /\ r2 \in Keyrings /\ r2.secret = r.secret /\ r2.total = r.total
      /\ r2.revocations = r.revocations + Cardinality(R) /\ r2.revoked = r.revoked \cup R
      /\ r2.tokens = r.tokens
  <2>1. /\ r2.secret = r.secret /\ r2.total = r.total
        /\ r2.revocations = r.revocations + Cardinality(R) /\ r2.revoked = r.revoked \cup R
        /\ r2.tokens = r.tokens
        /\ r2 = [secret |-> r2.secret, tokens |-> r2.tokens, revoked |-> r2.revoked,
                 total |-> r2.total, revocations |-> r2.revocations]
    BY <1>2 DEF Keyrings
  <2>2. /\ r.secret \in Secrets \cup {NoSecret} /\ r.tokens \in [Subjects -> {0} \cup Tokens]
        /\ r.revoked \in SUBSET Tokens /\ r.total \in Nat /\ r.revocations \in Nat
    BY <1>2 DEF Keyrings
  <2>3. /\ r2.secret \in Secrets \cup {NoSecret} /\ r2.tokens \in [Subjects -> {0} \cup Tokens]
        /\ r2.revoked \in SUBSET Tokens /\ r2.total \in Nat /\ r2.revocations \in Nat
    BY <1>3, <1>4, <2>1, <2>2
  <2>4. r2 \in Keyrings
    BY <2>1, <2>3 DEF Keyrings
  <2>5. QED BY <2>1, <2>4
<1>6. InTable(r2) = InTable(r)
  BY <1>5 DEF InTable
<1>7. Open(r2) = Open(r) - Cardinality(R)
  <2> DEFINE open == InTable(r) \ r.revoked
  <2>1. InTable(r2) \ r2.revoked = open \ R /\ open \cap R = R
    BY <1>5, <1>6
  <2>2. Cardinality(open \ R) = Cardinality(open) - Cardinality(open \cap R)
    BY <1>1, FS_Difference
  <2>3. QED BY <2>1, <2>2 DEF Open
<1>8. r2.revoked = (d \cup R) \cap InTable(r2)
  BY <1>2, <1>5, <1>6
<1>9. r2.revocations + Open(r2) <= r2.total
  BY <1>1, <1>2, <1>3, <1>5, <1>7
<1>10. QED BY <1>2, <1>4, <1>5, <1>8, <1>9 DEF Books

(* Mount, when there is no file: only the secret changes.                    *)
LEMMA BooksSecret ==
  ASSUME NEW n \in Nat, NEW r, NEW d, Books(r, d, n), NEW x \in Secrets,
         NEW r2, r2 = [r EXCEPT !.secret = x]
  PROVE  Books(r2, d, n) /\ InTable(r2) = InTable(r) /\ r2.secret = x
<1>1. /\ r2.secret = x /\ r2.total = r.total /\ r2.revocations = r.revocations
      /\ r2.revoked = r.revoked /\ r2.tokens = r.tokens /\ r2 \in Keyrings
  BY DEF Books, Keyrings
<1>2. InTable(r2) = InTable(r)
  BY <1>1 DEF InTable
<1>3. QED BY <1>1, <1>2 DEF Books, Open

-----------------------------------------------------------------------------
(* The state of the keyring.                                                 *)

LEMMA KeptStep == Kept /\ Filed /\ [Next]_vars => Kept'
<1> SUFFICES ASSUME Kept, Filed, [Next]_vars PROVE Kept'
  OBVIOUS
<1> USE DEF Kept
<1>1. issued \in Nat /\ issued <= MaxTokens /\ MaxTokens \in Nat
  BY KeyringAssumption DEF KeyringAssumption
<1>2. Books(ring, dead, issued) /\ Table \subseteq 1 .. issued /\ dead \subseteq 1 .. issued
      /\ ring.revoked = dead \cap Table
  BY <1>1, TableFacts DEF Table, Books
<1>3. CASE UNCHANGED <<ring, issued, dead>>
  BY <1>3
<1>4. ASSUME NEW u \in Users, NEW s \in Subjects, Issue(u, s)
      PROVE  Kept'
  <2>1. /\ issued' = issued + 1 /\ dead' = dead /\ issued + 1 \in Tokens
        /\ ring' = [ring EXCEPT !.tokens[s] = issued + 1, !.total = @ + 1,
                                !.revoked = @ \ {ring.tokens[s]}]
    BY <1>1, <1>4 DEF Issue, Tokens
  <2>2. Books(ring', dead, issued + 1)
    BY <1>1, <1>2, <2>1, BooksIssue
  <2>3. QED BY <1>1, <2>1, <2>2 DEF Tokens
<1>5. ASSUME NEW s \in Subjects, Revoke(s)
      PROVE  Kept'
  <2> DEFINE R == {ring.tokens[s]}
  <2>1. /\ R \in SUBSET (Table \ ring.revoked) /\ dead' = dead \cup R /\ issued' = issued
        /\ ring' = [ring EXCEPT !.revoked = @ \cup R, !.revocations = @ + 1]
    BY <1>5 DEF Revoke, Table, InTable
  <2>2. ring' = [ring EXCEPT !.revoked = @ \cup R, !.revocations = @ + Cardinality(R)]
    BY <2>1, FS_Singleton
  <2>3. Books(ring', dead \cup R, issued)
    BY <1>1, <1>2, <2>1, <2>2, BooksRevoke DEF Table
  <2>4. QED BY <2>1, <2>3
<1>6. CASE RevokeAll
  <2> DEFINE R == Table \ ring.revoked
  <2>1. /\ dead' = dead \cup Table /\ issued' = issued
        /\ ring' = [ring EXCEPT !.revoked = @ \cup R, !.revocations = @ + Cardinality(R)]
    BY <1>6 DEF RevokeAll, Unrevoked, Table
  <2>2. Books(ring', dead \cup R, issued)
    BY <1>1, <1>2, <2>1, BooksRevoke DEF Table
  <2>3. dead' = dead \cup R
    BY <1>2, <2>1
  <2>4. QED BY <2>1, <2>2, <2>3
<1>7. ASSUME NEW x \in Secrets, SetSecret(x)
      PROVE  Kept'
  <2>1. dead' = dead \cup Table /\ issued' = issued /\ ring' = [Fresh EXCEPT !.secret = x]
    BY <1>7 DEF SetSecret, Rotated, Table
  <2>2. dead \cup Table \in SUBSET (1 .. issued) /\ x \in Secrets \cup {NoSecret}
    BY <1>2
  <2>3. Books(ring', dead \cup Table, issued)
    BY <1>1, <2>1, <2>2, BooksFresh
  <2>4. QED BY <2>1, <2>3
<1>8. ASSUME NEW x \in Secrets, MountGenerates(x)
      PROVE  Kept'
  <2>1. /\ ring' = [ring EXCEPT !.secret = x] \/ ring' = ring
        /\ dead' = dead /\ issued' = issued
    BY <1>8 DEF MountGenerates
  <2>2. Books(ring', dead, issued)
    BY <1>1, <1>2, <2>1, BooksSecret
  <2>3. QED BY <2>1, <2>2
<1>9. CASE MountLoads
  <2>1. target \in Files /\ ring' = target.ring /\ dead' = target.dead /\ issued' = issued
    BY <1>9 DEF MountLoads, Files
  <2>2. QED BY <2>1 DEF Filed
<1>10. CASE Crash
  <2>1. ring' = Fresh /\ dead' = dead /\ issued' = issued
    BY <1>10 DEF Crash, history
  <2>2. Fresh = [Fresh EXCEPT !.secret = NoSecret] /\ NoSecret \in Secrets \cup {NoSecret}
    BY DEF Fresh
  <2>3. Books(ring', dead, issued)
    BY <1>1, <1>2, <2>1, <2>2, BooksFresh
  <2>4. QED BY <2>1, <2>3
<1>11. CASE Unmount \/ Save
  BY <1>3, <1>11 DEF Unmount, Save, Rename, SaveFails, SyncDirectory, SyncDirectoryFails, history
<1>12. CASE UNCHANGED vars
  BY <1>3, <1>12 DEF vars, history
<1>13. CASE \E u \in Users : Sign(u)
  BY <1>3, <1>13 DEF Sign
<1>14. CASE \E t \in Tokens : Expire(t)
  BY <1>3, <1>14 DEF Expire
<1>15. QED BY <1>4, <1>5, <1>6, <1>7, <1>8, <1>9, <1>10, <1>11, <1>12, <1>13, <1>14 DEF Next

-----------------------------------------------------------------------------
(* The files.                                                                *)

Captured == [ring |-> ring, dead |-> dead]

LEMMA FilesMove ==
  ASSUME [Next]_vars
  PROVE  Files' \subseteq Files \/ (Unmount /\ Files' \subseteq Files \cup {Captured})
<1>1. ASSUME UNCHANGED <<image, target, durable>> PROVE Files' \subseteq Files
  BY <1>1 DEF Files
<1>2. ASSUME NEW u \in Users, NEW s \in Subjects, Issue(u, s) PROVE Files' \subseteq Files
  BY <1>1, <1>2 DEF Issue, saving, files
<1>3. ASSUME NEW u \in Users, Sign(u) PROVE Files' \subseteq Files
  BY <1>1, <1>3 DEF Sign, saving, files
<1>4. ASSUME NEW s \in Subjects, Revoke(s) PROVE Files' \subseteq Files
  BY <1>1, <1>4 DEF Revoke, saving, files
<1>5. CASE RevokeAll
  BY <1>1, <1>5 DEF RevokeAll, saving, files
<1>6. ASSUME NEW x \in Secrets, SetSecret(x) \/ MountGenerates(x) PROVE Files' \subseteq Files
  BY <1>1, <1>6 DEF SetSecret, MountGenerates, saving, files
<1>7. ASSUME NEW t \in Tokens, Expire(t) PROVE Files' \subseteq Files
  BY <1>1, <1>7 DEF Expire, saving, files
<1>8. CASE MountLoads
  BY <1>1, <1>8 DEF MountLoads, saving, files
<1>9. CASE Crash
  BY <1>9 DEF Crash, Files
<1>10. CASE Rename
  BY <1>10 DEF Rename, Synced, Files
<1>11. CASE SaveFails
  BY <1>11 DEF SaveFails, Files, files
<1>12. CASE SyncDirectory \/ SyncDirectoryFails
  BY <1>12 DEF SyncDirectory, DirectorySynced, SyncDirectoryFails, Files, files
<1>13. CASE Unmount
  BY <1>13 DEF Unmount, Files, files, Captured
<1>14. CASE UNCHANGED vars
  BY <1>1, <1>14 DEF vars, saving, files
<1>15. QED
  BY <1>2, <1>3, <1>4, <1>5, <1>6, <1>7, <1>8, <1>9, <1>10, <1>11, <1>12, <1>13, <1>14
     DEF Next, Save

LEMMA IssuedMoves ==
  ASSUME [Next]_vars
  PROVE  issued' = issued \/ issued' = issued + 1
BY DEF Next, Issue, Sign, Revoke, RevokeAll, SetSecret, MountGenerates, Expire, Unmount, Save,
       Rename, SaveFails, SyncDirectory, SyncDirectoryFails, MountLoads, Crash, history, vars

LEMMA FiledStep == Kept /\ Filed /\ Steps /\ [Next]_vars => Filed'
<1> SUFFICES ASSUME Kept, Filed, Steps, [Next]_vars, NEW f \in Files'
             PROVE  f \in Snapshots /\ Books(f.ring, f.dead, issued') /\ f.ring.secret # NoSecret
  BY DEF Filed
<1>1. issued \in Nat /\ issued <= MaxTokens /\ Books(ring, dead, issued)
  BY KeyringAssumption DEF KeyringAssumption, Kept
<1>2. ASSUME Books(f.ring, f.dead, issued) PROVE Books(f.ring, f.dead, issued')
  <2>1. Books(f.ring, f.dead, issued + 1)
    BY <1>1, <1>2, BooksGrow
  <2>2. QED BY <1>2, <2>1, IssuedMoves
<1>3. CASE f \in Files
  BY <1>2, <1>3 DEF Filed
<1>4. CASE Unmount /\ f = Captured
  <2>1. f.ring = ring /\ f.dead = dead
    BY <1>4 DEF Captured
  <2>2. ring \in Keyrings /\ dead \in SUBSET Tokens
    BY <1>1, KeyringAssumption DEF Books, KeyringAssumption, Tokens
  <2>3. f \in Snapshots
    BY <1>4, <2>2 DEF Captured, Snapshots
  <2>4. ring.secret # NoSecret
    BY <1>4 DEF Unmount, Steps
  <2>5. QED BY <1>1, <1>2, <2>1, <2>3, <2>4
<1>5. QED BY <1>3, <1>4, FilesMove

LEMMA StepsStep == Kept /\ Filed /\ Steps /\ [Next]_vars => Steps'
<1> SUFFICES ASSUME Kept, Filed, Steps, [Next]_vars PROVE Steps'
  OBVIOUS
<1> USE DEF Steps, SavedIsDurable
<1>1. ring \in Keyrings /\ NoSecret \notin Secrets
  BY KeyringAssumption DEF Kept, Books, KeyringAssumption
<1>2. ASSUME NEW u \in Users, NEW s \in Subjects, Issue(u, s) PROVE Steps'
  <2>1. ring'.secret = ring.secret
    BY <1>1, <1>2 DEF Issue, Keyrings
  <2>2. QED BY <1>2, <2>1 DEF Issue, saving, files
<1>3. ASSUME NEW u \in Users, Sign(u) PROVE Steps'
  BY <1>3 DEF Sign, saving, files
<1>4. ASSUME NEW s \in Subjects, Revoke(s) PROVE Steps'
  <2>1. ring'.secret = ring.secret
    BY <1>1, <1>4 DEF Revoke, Keyrings
  <2>2. QED BY <1>4, <2>1 DEF Revoke, saving, files
<1>5. CASE RevokeAll
  <2>1. ring'.secret = ring.secret
    BY <1>1, <1>5 DEF RevokeAll, Keyrings
  <2>2. QED BY <1>5, <2>1 DEF RevokeAll, saving, files
<1>6. ASSUME NEW x \in Secrets, SetSecret(x) PROVE Steps'
  <2>1. ring'.secret # NoSecret
    BY <1>1, <1>6 DEF SetSecret, Rotated, Fresh
  <2>2. QED BY <1>6, <2>1 DEF SetSecret, saving, files
<1>7. ASSUME NEW x \in Secrets, MountGenerates(x) PROVE Steps'
  <2>1. ring'.secret # NoSecret
    BY <1>1, <1>7 DEF MountGenerates, Keyrings
  <2>2. QED BY <1>7, <2>1 DEF MountGenerates, saving, files
<1>8. ASSUME NEW t \in Tokens, Expire(t) PROVE Steps'
  BY <1>8 DEF Expire, saving, files
<1>9. CASE MountLoads
  <2>1. ring'.secret # NoSecret
    BY <1>9 DEF MountLoads, Filed, Files
  <2>2. QED BY <1>9, <2>1 DEF MountLoads, saving, files
<1>10. CASE Crash
  BY <1>10 DEF Crash
<1>11. CASE Rename
  BY <1>11 DEF Rename
<1>12. CASE SaveFails
  BY <1>12 DEF SaveFails, files
<1>13. CASE SyncDirectory
  BY <1>13 DEF SyncDirectory, DirectorySynced
<1>14. CASE SyncDirectoryFails
  BY <1>14 DEF SyncDirectoryFails, files
<1>15. CASE Unmount
  <2>1. Captured \in Snapshots
    <3>1. dead \in SUBSET Tokens
      BY KeyringAssumption DEF Kept, Books, KeyringAssumption, Tokens
    <3>2. QED BY <1>1, <3>1 DEF Captured, Snapshots
  <2>2. image' # NoFile
    BY <1>15, <2>1, KeyringAssumption DEF Unmount, Captured, KeyringAssumption
  <2>3. QED BY <1>15, <2>2 DEF Unmount, files
<1>16. CASE UNCHANGED vars
  BY <1>16 DEF vars, saving, files
<1>17. QED
  BY <1>2, <1>3, <1>4, <1>5, <1>6, <1>7, <1>8, <1>9, <1>10, <1>11, <1>12, <1>13, <1>14, <1>15,
     <1>16
     DEF Next, Save

-----------------------------------------------------------------------------
(* The tokens and the credentials.                                           *)

LEMMA HistoriesStep == Kept /\ Filed /\ Histories /\ [Next]_vars => Histories'
<1> SUFFICES ASSUME Kept, Filed, Histories, [Next]_vars PROVE Histories'
  OBVIOUS
<1> USE DEF Histories
<1>1. issued \in Nat /\ Table \subseteq 1 .. issued /\ dead \subseteq 1 .. issued
      /\ ring.secret \in Secrets \cup {NoSecret}
  <2>1. issued \in Nat /\ Books(ring, dead, issued)
    BY KeyringAssumption DEF Kept, KeyringAssumption
  <2>2. QED BY <2>1, TableFacts DEF Books, Table, Keyrings
<1>2. CASE UNCHANGED <<signing, creds, expired, lost, issued>>
  BY <1>2
<1>3. ASSUME NEW u \in Users, NEW s \in Subjects, Issue(u, s) PROVE Histories'
  <2>1. /\ issued' = issued + 1 /\ signing' = [signing EXCEPT ![u] = issued + 1]
        /\ creds' = creds /\ expired' = expired /\ lost' = lost
    BY <1>3 DEF Issue
  <2>2. 1 .. issued \subseteq 1 .. issued + 1 /\ 0 .. issued \subseteq 0 .. issued + 1
        /\ issued + 1 \in 0 .. issued + 1
    BY <1>1
  <2>3. signing' \in [Users -> 0 .. issued + 1]
    BY <2>1, <2>2
  <2>4. creds' \subseteq [token : 1 .. issued + 1, secret : Secrets \cup {NoSecret}]
    BY <2>1, <2>2
  <2>5. QED BY <2>1, <2>2, <2>3, <2>4
<1>4. ASSUME NEW u \in Users, Sign(u) PROVE Histories'
  <2>1. signing[u] \in 1 .. issued
    BY <1>1, <1>4 DEF Sign
  <2>2. QED BY <1>1, <1>4, <2>1 DEF Sign
<1>5. ASSUME NEW t \in Tokens, Expire(t) PROVE Histories'
  BY <1>5 DEF Expire
<1>6. CASE MountLoads
  BY <1>1, <1>6 DEF MountLoads
<1>7. ASSUME NEW x \in Secrets, MountGenerates(x) PROVE Histories'
  BY <1>7 DEF MountGenerates
<1>8. CASE Crash
  BY <1>1, <1>8 DEF Crash, history
<1>9. CASE RevokeAll \/ (\E s \in Subjects : Revoke(s)) \/ \E x \in Secrets : SetSecret(x)
  BY <1>2, <1>9 DEF RevokeAll, Revoke, SetSecret
<1>10. CASE Unmount \/ Save
  BY <1>2, <1>10
     DEF Unmount, Save, Rename, SaveFails, SyncDirectory, SyncDirectoryFails, history
<1>11. CASE UNCHANGED vars
  BY <1>2, <1>11 DEF vars, history
<1>12. QED BY <1>3, <1>4, <1>5, <1>6, <1>7, <1>8, <1>9, <1>10, <1>11 DEF Next

LEMMA OverGrows == [Next]_vars => Over \subseteq Over'
BY DEF Over, Next, Issue, Sign, Revoke, RevokeAll, SetSecret, MountGenerates, Expire, Unmount,
       Save, Rename, SaveFails, SyncDirectory, SyncDirectoryFails, MountLoads, Crash, history, vars

(* IssueToken replaces an entry that is absent or accounted for.              *)
LEMMA IssueMoves ==
  ASSUME Kept, NEW u \in Users, NEW s \in Subjects, Issue(u, s)
  PROVE  /\ issued' = issued + 1 /\ issued + 1 \in Table' /\ UNCHANGED <<node, creds>>
         /\ Table \subseteq Table' \cup Over /\ Table' \subseteq Table \cup {issued + 1}
         /\ \E v \in Users : signing' = [signing EXCEPT ![v] = issued + 1]
         /\ ring'.secret = ring.secret
<1>1. issued \in Nat /\ Books(ring, dead, issued)
  BY KeyringAssumption DEF Kept, KeyringAssumption
<1>2. ring \in Keyrings /\ ring.revoked \subseteq dead
  BY <1>1 DEF Books
<1>3. /\ issued + 1 \in Tokens
      /\ ring' = [ring EXCEPT !.tokens[s] = issued + 1, !.total = @ + 1,
                              !.revoked = @ \ {ring.tokens[s]}]
  BY <1>1, KeyringAssumption DEF Issue, Tokens, KeyringAssumption
<1>4. /\ ring'.secret = ring.secret
      /\ InTable(ring') = (InTable(ring) \ {ring.tokens[s]}) \cup {issued + 1}
  <2>1. ring'.secret = ring.secret
    BY <1>2, <1>3 DEF Keyrings
  <2>2. InTable(ring') = (InTable(ring) \ {ring.tokens[s]}) \cup {issued + 1}
    BY <1>1, <1>3, BooksIssue
  <2>3. QED BY <2>1, <2>2
<1>5. ring.tokens[s] \in {0} \cup ring.revoked \cup expired
  BY DEF Issue, MayIssue, Active
<1>6. 0 \notin InTable(ring)
  BY DEF InTable
<1>7. /\ issued' = issued + 1 /\ UNCHANGED <<node, creds>>
      /\ \E v \in Users : signing' = [signing EXCEPT ![v] = issued + 1]
  BY DEF Issue
<1>8. Table \subseteq Table' \cup Over /\ Table' \subseteq Table \cup {issued + 1}
  BY <1>2, <1>4, <1>5, <1>6 DEF Table, Over
<1>9. QED BY <1>4, <1>7, <1>8 DEF Table

(* What a step does to the table: what empties it accounts for what was in it. *)
LEMMA TableMoves ==
  ASSUME Kept, [Next]_vars
  PROVE  \/ Table' = Table /\ UNCHANGED issued
         \/ /\ issued' = issued + 1 /\ issued + 1 \in Table' /\ UNCHANGED <<node, creds>>
            /\ Table \subseteq Table' \cup Over /\ Table' \subseteq Table \cup {issued + 1}
            /\ \E u \in Users : signing' = [signing EXCEPT ![u] = issued + 1]
            /\ ring'.secret = ring.secret
         \/ /\ \E x \in Secrets : SetSecret(x)
            /\ Table' = {} /\ Table \subseteq Over'
         \/ MountLoads
         \/ Crash /\ Table' = {}
<1>1. issued \in Nat /\ Books(ring, dead, issued)
  BY KeyringAssumption DEF Kept, KeyringAssumption
<1>2. ring \in Keyrings /\ ring.revoked \subseteq dead
  BY <1>1 DEF Books
<1>3. CASE UNCHANGED <<ring, issued>>
  BY <1>3 DEF Table
<1>4. ASSUME NEW u \in Users, NEW s \in Subjects, Issue(u, s)
      PROVE  /\ issued' = issued + 1 /\ issued + 1 \in Table' /\ UNCHANGED <<node, creds>>
             /\ Table \subseteq Table' \cup Over /\ Table' \subseteq Table \cup {issued + 1}
             /\ \E v \in Users : signing' = [signing EXCEPT ![v] = issued + 1]
             /\ ring'.secret = ring.secret
  BY <1>4, IssueMoves
<1>5. ASSUME RevokeAll \/ \E s \in Subjects : Revoke(s)
      PROVE  Table' = Table /\ UNCHANGED issued
  <2>1. ring'.tokens = ring.tokens /\ issued' = issued
    BY <1>2, <1>5 DEF RevokeAll, Revoke, Keyrings
  <2>2. QED BY <2>1 DEF Table, InTable
<1>6. ASSUME NEW x \in Secrets, SetSecret(x)
      PROVE  Table' = {} /\ Table \subseteq Over'
  BY <1>6 DEF SetSecret, Rotated, Fresh, Nobody, Table, InTable, Over
<1>7. ASSUME NEW x \in Secrets, MountGenerates(x)
      PROVE  Table' = Table /\ UNCHANGED issued
  <2>1. ring'.tokens = ring.tokens /\ issued' = issued
    BY <1>2, <1>7 DEF MountGenerates, Keyrings
  <2>2. QED BY <2>1 DEF Table, InTable
<1>8. ASSUME Crash
      PROVE  Table' = {}
  BY <1>8 DEF Crash, Fresh, Nobody, Table, InTable
<1>9. CASE (\E u \in Users : Sign(u)) \/ \E t \in Tokens : Expire(t)
  BY <1>3, <1>9 DEF Sign, Expire
<1>10. CASE Unmount \/ Save
  BY <1>3, <1>10
     DEF Unmount, Save, Rename, SaveFails, SyncDirectory, SyncDirectoryFails, history
<1>11. CASE UNCHANGED vars
  BY <1>3, <1>11 DEF vars, history
<1>12. QED BY <1>4, <1>5, <1>6, <1>7, <1>8, <1>9, <1>10, <1>11 DEF Next

LEMMA AccountedStep ==
  ASSUME Kept, Steps, Histories, Accounted, [Next]_vars
  PROVE  Accounted'
<1>1. /\ Over \subseteq Over' /\ issued \in Nat
      /\ node # "created" => 1 .. issued \subseteq Table \cup Over
      /\ \A u \in Users : signing[u] \in {0} \cup Table \cup Over
  BY OverGrows, KeyringAssumption DEF Kept, Accounted, KeyringAssumption
<1>2. \A u \in Users : signing'[u] \in {0, signing[u]} \/ signing'[u] = issued'
  BY DEF Histories, Next, Issue, Sign, Revoke, RevokeAll, SetSecret, MountGenerates, Expire,
         Unmount, Save, Rename, SaveFails, SyncDirectory, SyncDirectoryFails, MountLoads, Crash,
         history, vars
<1>3. CASE MountLoads
  <2>1. /\ 1 .. issued \subseteq Table' \cup Over' /\ issued' = issued /\ signing' = signing
    BY <1>3 DEF MountLoads, Table, Over
  <2>2. \A u \in Users : signing[u] \in 0 .. issued
    BY DEF Histories
  <2>3. \A u \in Users : signing[u] \in {0} \cup 1 .. issued
    BY <1>1, <2>2
  <2>4. QED BY <2>1, <2>3 DEF Accounted
<1>4. CASE Crash
  BY <1>4 DEF Crash, Accounted
<1>5. CASE \E x \in Secrets : SetSecret(x) /\ Table' = {} /\ Table \subseteq Over'
  <2>1. UNCHANGED <<node, signing, issued>>
    BY <1>5 DEF SetSecret
  <2>2. QED BY <1>1, <1>5, <2>1 DEF Accounted
<1>6. CASE /\ issued' = issued + 1 /\ issued + 1 \in Table' /\ node' = node
           /\ Table \subseteq Table' \cup Over
           /\ \E u \in Users : signing' = [signing EXCEPT ![u] = issued + 1]
  <2>1. \A u \in Users : signing'[u] = signing[u] \/ signing'[u] = issued + 1
    BY <1>6 DEF Histories
  <2>2. 1 .. issued' = 1 .. issued \cup {issued + 1}
    BY <1>1, <1>6
  <2>3. Table \cup Over \subseteq Table' \cup Over'
    BY <1>1, <1>6
  <2>4. node' # "created" => 1 .. issued' \subseteq Table' \cup Over'
    BY <1>1, <1>6, <2>2, <2>3
  <2>5. \A u \in Users : signing'[u] \in {0} \cup Table' \cup Over'
    BY <1>1, <1>6, <2>1, <2>3
  <2>6. QED BY <2>4, <2>5 DEF Accounted
<1>7. ASSUME Table' = Table, issued' = issued, ~Crash, ~MountLoads
      PROVE  Accounted'
  <2>1. \A u \in Users : signing'[u] \in {0, signing[u]}
    <3>1. CASE \E v \in Users, s \in Subjects : Issue(v, s)
      BY <1>1, <1>7, <3>1 DEF Issue
    <3>2. CASE \E v \in Users : Sign(v)
      BY <3>2 DEF Sign, Histories
    <3>3. CASE signing' = signing
      BY <3>3
    <3>4. (\E v \in Users, s \in Subjects : Issue(v, s)) \/ (\E v \in Users : Sign(v))
            \/ signing' = signing
      BY <1>7 DEF Next, Revoke, RevokeAll, SetSecret, MountGenerates, Expire, Unmount, Save, Rename,
           SaveFails, SyncDirectory, SyncDirectoryFails, vars
    <3>5. QED BY <3>1, <3>2, <3>3, <3>4
  <2>2. CASE \E x \in Secrets : MountGenerates(x)
    <3>1. 1 .. issued \subseteq Table \cup Over'
      BY <2>2 DEF MountGenerates, Table, Over
    <3>2. QED BY <1>1, <1>7, <2>1, <3>1 DEF Accounted
  <2>3. CASE ~\E x \in Secrets : MountGenerates(x)
    <3>1. node' # "created" => node # "created"
      BY <1>7, <2>3
         DEF Steps, Next, Issue, Sign, Revoke, RevokeAll, SetSecret, Expire, Unmount, Save, Rename,
             SaveFails, SyncDirectory, SyncDirectoryFails, history, vars
    <3>2. QED BY <1>1, <1>7, <2>1, <3>1 DEF Accounted
  <2>4. QED BY <2>2, <2>3
<1>8. QED BY <1>3, <1>4, <1>5, <1>6, <1>7, TableMoves

-----------------------------------------------------------------------------
(* The secrets of the signatures.                                            *)

LEMMA FileTables ==
  ASSUME Filed, NEW f \in Files
  PROVE  /\ f.ring.secret # NoSecret
         /\ issued \in Nat => InTable(f.ring) \subseteq 1 .. issued
BY TableFacts DEF Filed

(* The credentials of the keyring itself.                                    *)
LEMMA SignedStep ==
  ASSUME Kept, Filed, Histories, Accounted, Signatures, [Next]_vars
  PROVE  SignedIn(ring)'
<1>1. /\ issued \in Nat /\ Over \subseteq Over'
      /\ \A c \in creds : c.token \in 1 .. issued
      /\ \A c \in creds : c.token \in Table /\ c.secret # NoSecret
                            => c.secret = ring.secret \/ c.token \in Over
  BY OverGrows, KeyringAssumption
     DEF Kept, KeyringAssumption, Histories, Signatures, SignedIn, Table
<1>2. ASSUME creds' = creds, Table' = {}
      PROVE  SignedIn(ring)'
  BY <1>2 DEF SignedIn, Table
<1>3. CASE MountLoads
  <2>1. target \in Files /\ ring' = target.ring /\ creds' = creds
    BY <1>3 DEF MountLoads, Files
  <2>2. SignedIn(target.ring)
    BY <2>1 DEF Signatures
  <2>3. QED BY <1>1, <2>1, <2>2 DEF SignedIn
<1>4. CASE Crash
  <2>1. Table' = {}
    BY <1>4 DEF Crash, Fresh, Nobody, Table, InTable
  <2>2. QED BY <1>2, <1>4, <2>1 DEF Crash, history
<1>5. ASSUME NEW x \in Secrets, SetSecret(x)
      PROVE  SignedIn(ring)'
  <2>1. Table' = {}
    BY <1>5 DEF SetSecret, Rotated, Fresh, Nobody, Table, InTable
  <2>2. QED BY <1>2, <1>5, <2>1 DEF SetSecret
<1>6. CASE /\ issued' = issued + 1 /\ creds' = creds /\ Table' \subseteq Table \cup {issued + 1}
           /\ ring'.secret = ring.secret
  <2>1. \A c \in creds : c.token # issued + 1
    BY <1>1
  <2>2. QED BY <1>1, <1>6, <2>1 DEF SignedIn, Table
<1>7. CASE \E x \in Secrets : MountGenerates(x)
  <2>1. creds' = creds /\ Table' = Table
    <3>1. ring \in Keyrings
      BY DEF Kept, Books
    <3>2. QED BY <1>7, <3>1 DEF MountGenerates, Keyrings, Table, InTable
  <2>2. ring' = ring \/ ring.secret = NoSecret
    BY <1>7 DEF MountGenerates
  <2>3. QED BY <1>1, <2>1, <2>2 DEF SignedIn, Table
<1>8. CASE \E u \in Users : Sign(u)
  <2>1. PICK u \in Users : Sign(u)
    BY <1>8
  <2>2. /\ creds' = creds \cup {[token |-> signing[u], secret |-> ring.secret]}
        /\ ring' = ring
    BY <2>1 DEF Sign
  <2>3. QED BY <1>1, <2>2 DEF SignedIn, Table
<1>9. ASSUME Table' = Table, issued' = issued, creds' = creds, ring'.secret = ring.secret
      PROVE  SignedIn(ring)'
  BY <1>1, <1>9 DEF SignedIn, Table
<1>10. CASE RevokeAll \/ \E s \in Subjects : Revoke(s)
  <2>1. ring \in Keyrings
    BY DEF Kept, Books
  <2>2. /\ ring'.tokens = ring.tokens /\ issued' = issued /\ creds' = creds
        /\ ring'.secret = ring.secret
    BY <1>10, <2>1 DEF RevokeAll, Revoke, Keyrings
  <2>3. Table' = Table
    BY <2>2 DEF Table, InTable
  <2>4. QED BY <1>9, <2>2, <2>3
<1>11. CASE Unmount \/ Save \/ (\E t \in Tokens : Expire(t)) \/ UNCHANGED vars
  BY <1>9, <1>11
     DEF Unmount, Save, Rename, SaveFails, SyncDirectory, SyncDirectoryFails, Expire, vars,
         history, Table
<1>12. ASSUME NEW u \in Users, NEW s \in Subjects, Issue(u, s)
       PROVE  SignedIn(ring)'
  BY <1>6, <1>12, IssueMoves
<1>13. QED BY <1>3, <1>4, <1>5, <1>7, <1>8, <1>10, <1>11, <1>12 DEF Next

(* The credentials of the keyrings in the files.                             *)
LEMMA FilesSignedStep ==
  ASSUME Kept, Filed, Histories, Signatures, [Next]_vars, NEW f \in Files \cup {Captured}
  PROVE  SignedIn(f.ring)'
<1>1. Over \subseteq Over' /\ SignedIn(f.ring) /\ WillSignIn(f.ring)
  <2>1. CASE f \in Files
    BY <2>1, OverGrows DEF Signatures
  <2>2. CASE f = Captured
    <3>1. f.ring = ring
      BY <2>2 DEF Captured
    <3>2. QED BY <3>1, OverGrows DEF Signatures, WillSignIn
  <2>3. QED BY <2>1, <2>2
<1>2. CASE creds' = creds
  BY <1>1, <1>2 DEF SignedIn
<1>3. CASE \E u \in Users : Sign(u)
  <2>1. PICK u \in Users : Sign(u)
    BY <1>3
  <2>2. creds' = creds \cup {[token |-> signing[u], secret |-> ring.secret]}
    BY <2>1 DEF Sign
  <2>3. ASSUME NEW c \in creds', c.token \in InTable(f.ring), c.secret # NoSecret
        PROVE  c.secret = f.ring.secret \/ c.token \in Over'
    <3>1. CASE c \in creds
      BY <1>1, <2>3, <3>1 DEF SignedIn
    <3>2. CASE c.token = signing[u] /\ c.secret = ring.secret
      BY <1>1, <2>3, <3>2 DEF WillSignIn
    <3>3. QED BY <2>2, <3>1, <3>2
  <2>4. QED BY <2>3 DEF SignedIn
<1>4. creds' = creds \/ \E u \in Users : Sign(u)
  BY DEF Next, Issue, Revoke, RevokeAll, SetSecret, MountGenerates, Expire, Unmount, Save, Rename,
         SaveFails, SyncDirectory, SyncDirectoryFails, MountLoads, Crash, history, vars
<1>5. QED BY <1>2, <1>3, <1>4

(* A signature that is still to be made will agree with the files as well.   *)
LEMMA WillSignStep ==
  ASSUME Kept, Filed, Histories, Accounted, Signatures, [Next]_vars,
         NEW f \in Files \cup {Captured}, f \notin Files => Unmount
  PROVE  WillSignIn(f.ring)'
<1>1. /\ issued \in Nat /\ Over \subseteq Over' /\ InTable(f.ring) \subseteq 1 .. issued
      /\ \A u \in Users : signing[u] \in InTable(f.ring)
                            => ring.secret = f.ring.secret \/ signing[u] \in Over
      /\ 0 \notin InTable(f.ring)
  <2>1. issued \in Nat /\ Books(ring, dead, issued)
    BY KeyringAssumption DEF Kept, KeyringAssumption
  <2>2. CASE f \in Files
    BY <2>1, <2>2, OverGrows, FileTables DEF Signatures, WillSignIn, InTable
  <2>3. CASE f = Captured
    <3>1. f.ring = ring
      BY <2>3 DEF Captured
    <3>2. QED BY <2>1, <3>1, OverGrows, TableFacts DEF InTable
  <2>4. QED BY <2>2, <2>3
<1>2. ASSUME \A u \in Users : signing'[u] \in {0, signing[u]}, ring'.secret = ring.secret
      PROVE  WillSignIn(f.ring)'
  BY <1>1, <1>2 DEF WillSignIn
<1>3. CASE MountLoads
  <2>1. /\ target \in Files /\ ring' = target.ring /\ signing' = signing /\ f \in Files
        /\ 1 .. issued \subseteq InTable(target.ring) \cup Over'
    BY <1>3 DEF MountLoads, Files, Over, Unmount
  <2>2. WillSignIn(target.ring)
    BY <2>1 DEF Signatures
  <2>3. ASSUME NEW u \in Users, signing[u] \in InTable(f.ring), signing[u] \notin Over'
        PROVE  target.ring.secret = f.ring.secret
    <3>1. signing[u] \in InTable(target.ring) /\ signing[u] \notin Over
      BY <1>1, <2>1, <2>3
    <3>2. ring.secret = target.ring.secret /\ ring.secret = f.ring.secret
      BY <1>1, <2>2, <2>3, <3>1 DEF WillSignIn
    <3>3. QED BY <3>2
  <2>4. QED BY <2>1, <2>3 DEF WillSignIn
<1>4. CASE Crash
  BY <1>1, <1>4 DEF Crash, WillSignIn
<1>5. CASE \E x \in Secrets : SetSecret(x)
  <2>1. signing' = signing /\ Table \subseteq Over'
    BY <1>5 DEF SetSecret, Table, Over
  <2>2. \A u \in Users : signing[u] \in {0} \cup Over'
    BY <1>1, <2>1 DEF Accounted
  <2>3. QED BY <1>1, <2>1, <2>2 DEF WillSignIn
<1>6. CASE \E x \in Secrets : MountGenerates(x)
  <2>1. signing' = signing /\ f \in Files /\ (ring' = ring \/ ring.secret = NoSecret)
    BY <1>6 DEF MountGenerates, Unmount
  <2>2. f.ring.secret # NoSecret
    BY <2>1, FileTables
  <2>3. QED BY <1>1, <2>1, <2>2 DEF WillSignIn
<1>7. ASSUME NEW v \in Users, NEW s \in Subjects, Issue(v, s)
      PROVE  WillSignIn(f.ring)'
  <2>1. signing' = [signing EXCEPT ![v] = issued + 1] /\ ring'.secret = ring.secret
    <3>1. ring \in Keyrings
      BY DEF Kept, Books
    <3>2. QED BY <1>7, <3>1 DEF Issue, Keyrings
  <2>2. \A u \in Users : signing'[u] = signing[u] \/ signing'[u] = issued + 1
    BY <2>1 DEF Histories
  <2>3. issued + 1 \notin InTable(f.ring)
    BY <1>1
  <2>4. QED BY <1>1, <2>1, <2>2, <2>3 DEF WillSignIn
<1>8. CASE \E u \in Users : Sign(u)
  <2>1. ring' = ring /\ \A u \in Users : signing'[u] \in {0, signing[u]}
    BY <1>8 DEF Sign, Histories
  <2>2. QED BY <1>2, <2>1
<1>9. CASE RevokeAll \/ \E s \in Subjects : Revoke(s)
  <2>1. signing' = signing /\ ring'.secret = ring.secret
    <3>1. ring \in Keyrings
      BY DEF Kept, Books
    <3>2. QED BY <1>9, <3>1 DEF RevokeAll, Revoke, Keyrings
  <2>2. QED BY <1>2, <2>1
<1>10. CASE Unmount \/ Save \/ (\E t \in Tokens : Expire(t)) \/ UNCHANGED vars
  BY <1>2, <1>10
     DEF Unmount, Save, Rename, SaveFails, SyncDirectory, SyncDirectoryFails, Expire, vars
<1>11. QED BY <1>3, <1>4, <1>5, <1>6, <1>7, <1>8, <1>9, <1>10 DEF Next

LEMMA SignaturesStep ==
  ASSUME Kept, Filed, Histories, Accounted, Signatures, [Next]_vars
  PROVE  Signatures'
<1>1. ASSUME NEW f \in Files'
      PROVE  SignedIn(f.ring)' /\ WillSignIn(f.ring)'
  <2>1. f \in Files \/ (f = Captured /\ Unmount)
    BY <1>1, FilesMove
  <2>2. f \in Files \cup {Captured} /\ (f \notin Files => Unmount)
    BY <2>1
  <2>3. QED BY <2>2, FilesSignedStep, WillSignStep
<1>2. QED BY <1>1, SignedStep DEF Signatures

-----------------------------------------------------------------------------
LEMMA InductiveInit == Init => Inductive
<1> SUFFICES ASSUME Init PROVE Inductive
  OBVIOUS
<1>1. Kept /\ Table = {}
  <2>1. Fresh = [Fresh EXCEPT !.secret = NoSecret] /\ NoSecret \in Secrets \cup {NoSecret}
    BY DEF Fresh
  <2>2. ring = Fresh /\ dead = {} /\ issued = 0
    BY DEF Init
  <2>3. {} \in SUBSET (1 .. 0) /\ 0 \in Nat
    OBVIOUS
  <2>4. Books(ring, dead, issued) /\ InTable(ring) = {}
    BY <2>1, <2>2, <2>3, BooksFresh
  <2>5. QED BY <2>2, <2>4, KeyringAssumption DEF Kept, Table, KeyringAssumption
<1>2. Files = {}
  BY DEF Init, Files
<1>3. Filed /\ Steps /\ Histories /\ Accounted
  BY <1>1, <1>2 DEF Init, Filed, Steps, SavedIsDurable, Histories, Accounted
<1>4. Signatures
  BY <1>2 DEF Init, Signatures, SignedIn
<1>5. QED BY <1>1, <1>3, <1>4 DEF Inductive

LEMMA InductiveStep == Inductive /\ [Next]_vars => Inductive'
BY KeptStep, FiledStep, StepsStep, HistoriesStep, AccountedStep, SignaturesStep DEF Inductive

(* The strengthening of FileSound and of TokensSound that every operation of  *)
(* KeyringData, every step of SaveSnapshot and every crash preserves.        *)
THEOREM InductiveHolds == Spec => []Inductive
BY InductiveInit, InductiveStep, PTL DEF Spec

LEMMA RingsOK ==
  ASSUME NEW r, NEW d, issued \in Nat, Books(r, d, issued)
  PROVE  RingOK(r) /\ r.revocations <= r.total
<1>1. r.total \in 0 .. issued /\ r.revocations \in 0 .. issued /\ Open(r) \in Nat
  BY TableFacts
<1>2. r.revocations + Open(r) <= r.total
  BY DEF Books
<1>3. r.revocations <= r.total
  BY <1>1, <1>2
<1>4. QED BY <1>1, <1>3 DEF RingOK, Books

(* SaveSnapshot and LoadSnapshot: whatever step a crash interrupts, the file  *)
(* that is left loads or has outgrown the limit, because no operation lets    *)
(* the counters contradict each other and nothing is renamed before it is     *)
(* synced; and the file of an Unmount that returned nil is the one that a     *)
(* crash leaves.                                                              *)
THEOREM FileSoundHolds == Spec => []FileSound
<1>1. ASSUME Inductive PROVE FileSound
  <2>1. issued \in Nat /\ Books(ring, dead, issued)
    BY <1>1, KeyringAssumption DEF Inductive, Kept, KeyringAssumption
  <2>2. \A f \in Files : RingOK(f.ring) /\ f.ring.revocations <= f.ring.total
                           /\ f.ring.secret # NoSecret /\ f # Torn
    BY <1>1, <2>1, RingsOK, KeyringAssumption DEF Inductive, Filed, KeyringAssumption
  <2>3. RingOK(ring)
    BY <2>1, RingsOK
  <2>4. \A f \in {image, target} \cup durable : f \notin {NoFile, Torn} => RingOK(f.ring)
    BY <2>2 DEF Files
  <2>5. dead \subseteq 1 .. issued
    BY <2>1 DEF Books
  <2>6. TypeOK
    BY <1>1, <2>3, <2>4, <2>5 DEF TypeOK, Inductive, Kept, Steps, Histories
  <2>7. ASSUME NEW f \in durable \cup {target} PROVE Loadable(f) \/ TooLarge(f)
    <3>1. CASE f = NoFile
      BY <3>1, KeyringAssumption DEF Loadable, TooLarge, KeyringAssumption
    <3>2. CASE f # NoFile
      BY <2>2, <2>7, <3>2 DEF Loadable, Files
    <3>3. QED BY <3>1, <3>2
  <2>8. QED BY <1>1, <2>6, <2>7 DEF FileSound, SnapshotLoads, Inductive, Steps
<1>2. QED BY <1>1, InductiveHolds, PTL

(* Command issue_token, verify_token, revoke_token, revoke_all, rotate and     *)
(* set_secret: a token that was revoked or rotated out is never accepted, and  *)
(* a credential is accepted until its token expires, is revoked or rotated    *)
(* out, or is lost with the process or to an older file.                     *)
THEOREM TokensSoundHolds == Spec => []TokensSound
<1>1. ASSUME Inductive PROVE TokensSound
  <2>1. /\ ring.revoked = dead \cap Table
        /\ node # "created" => 1 .. issued \subseteq Table \cup Over
        /\ \A c \in creds : c.token \in 1 .. issued
        /\ SignedIn(ring)
    BY <1>1 DEF Inductive, Kept, Books, Accounted, Histories, Signatures, Table
  <2>2. DeadStaysDead
    <3>1. SUFFICES ASSUME NEW c \in creds, c.token \in dead, Accepts(c) PROVE FALSE
      BY DEF DeadStaysDead
    <3>2. PICK s \in Subjects : ring.tokens[s] = c.token /\ Active(s)
      BY <3>1 DEF Accepts, Matches
    <3>3. c.token \in Table /\ c.token \notin ring.revoked
      BY <3>2 DEF Active, Table, InTable
    <3>4. QED BY <2>1, <3>1, <3>3
  <2>3. GenuineAccepted
    <3>1. SUFFICES ASSUME node # "created", NEW c \in creds, c.secret # NoSecret,
                          c.token \notin Over
                   PROVE  Accepts(c)
      BY DEF GenuineAccepted, Over
    <3>2. c.token \in Table
      BY <2>1, <3>1
    <3>3. c.secret = ring.secret
      BY <2>1, <3>1, <3>2 DEF SignedIn, Table
    <3>4. PICK s \in Subjects : ring.tokens[s] = c.token /\ c.token # 0
      BY <3>2 DEF Table, InTable
    <3>5. c.token \notin ring.revoked /\ c.token \notin expired
      BY <2>1, <3>1 DEF Over
    <3>6. QED BY <3>1, <3>3, <3>4, <3>5 DEF Accepts, Matches, Active, SignatureGood
  <2>4. QED BY <2>2, <2>3 DEF TokensSound
<1>2. QED BY <1>1, InductiveHolds, PTL

-----------------------------------------------------------------------------
(* The way of a remote command (CommandGate).                                 *)
Presented == Credentials \cup {Local}
RoleAbilities == {"EdgeRoleAbility", "CloudRoleAbility"}

(* A call is idle, on its way with its command, or answered.                  *)
OnTheWay ==
  [phase : {"authenticate", "dispatch", "check", "body"}, command : Gate!Commands,
   credential : Presented]
Answered == [phase : {"answered"}, credential : Presented,
             answer : {"authentication failed", "missing", "wrong role", "done"}]

Shaped == call \in [Clients -> {Gate!Idle} \cup OnTheWay \cup Answered] /\ DOMAIN seen = Clients

(* What holds of a call past its authentication: it is in-process, or its     *)
(* token was accepted and its command is not administration.                 *)
Past(c) == call[c].phase \in {"dispatch", "check", "body"}
Admitted ==
  \A c \in Clients : Past(c) /\ call[c].credential # Local =>
    seen[c].valid /\ call[c].command \notin Gate!Administration

(* What holds of a call past its Check.                                       *)
Checked ==
  \A c \in Clients : call[c].phase = "body" =>
    /\ call[c].command.component = "EdgeRoleAbility" => "edge" \in seen[c].roles
    /\ call[c].command.component = "CloudRoleAbility" => "cloud" \in seen[c].roles

TablesFinite == IsFiniteSet(capabilities) /\ IsFiniteSet(services)

GateInductive ==
  /\ Gate!TypeOK /\ Shaped /\ Admitted /\ Gate!OnlyTheAccepted /\ Gate!AdministrationIsLocal
  /\ Checked /\ TablesFinite /\ Gate!TablesBounded

-----------------------------------------------------------------------------
(* The operators of FiniteSets that CommandGate has are those this module has. *)
LEMMA OneFiniteness == \A S : Gate!IsFiniteSet(S) <=> IsFiniteSet(S)
BY Zenon DEF Gate!IsFiniteSet, IsFiniteSet

LEMMA OneCardinality == \A S : Gate!Cardinality(S) = Cardinality(S)
BY Zenon DEF Gate!Cardinality, Cardinality

(* What the commands are made of.                                             *)
LEMMA CommandShapes ==
  /\ \A x \in Gate!Administration : x.component \notin RoleAbilities
  /\ \A x \in Gate!Administration : x.command = "issue_token" => x.arg \in Credentials
  /\ \A x \in Gate!Administration : x.command = "set_role" => x.arg \in Gate!Roles
  /\ \A x \in Gate!EdgeCommands : x.component = "EdgeRoleAbility"
  /\ \A x \in Gate!CloudCommands : x.component = "CloudRoleAbility"
  /\ \A x \in Gate!Commands : x.command = "set_capabilities" =>
       IsFiniteSet(x.arg) /\ Cardinality(x.arg) <= edgeMaxCapCount
<1> USE DEF Gate!Cmd
<1>1. \A x \in Gate!Administration : x.component \notin RoleAbilities
  BY DEF Gate!Administration, RoleAbilities
<1>2. \A x \in Gate!Administration :
        /\ x.command = "issue_token" => x.arg \in Credentials
        /\ x.command = "set_role" => x.arg \in Gate!Roles
        /\ x.command # "set_capabilities"
  BY DEF Gate!Administration
<1>3. \A x \in Gate!EdgeCommands : x.component = "EdgeRoleAbility"
  BY DEF Gate!EdgeCommands
<1>4. \A x \in Gate!CloudCommands : x.component = "CloudRoleAbility" /\ x.command # "set_capabilities"
  BY DEF Gate!CloudCommands
<1>5. \A x \in Gate!EdgeCommands : x.command = "set_capabilities" =>
        IsFiniteSet(x.arg) /\ Cardinality(x.arg) <= edgeMaxCapCount
  BY OneCardinality, OneFiniteness DEF Gate!EdgeCommands
<1>6. QED BY <1>1, <1>2, <1>3, <1>4, <1>5 DEF Gate!Commands

(* A call that goes on keeps its command and its credential, one that is      *)
(* answered its credential; the other calls stay where they are.             *)
Alone(c) == \A d \in Clients \ {c} : call'[d] = call[d]

LEMMA GoesOn ==
  ASSUME Shaped, NEW c \in Clients, call[c] \in OnTheWay,
         NEW phase \in {"authenticate", "dispatch", "check", "body"}, Gate!Goto(c, phase)
  PROVE  /\ call' \in [Clients -> {Gate!Idle} \cup OnTheWay \cup Answered] /\ Alone(c)
         /\ call'[c] \in OnTheWay /\ call'[c].phase = phase
         /\ call'[c].command = call[c].command /\ call'[c].credential = call[c].credential
<1>1. /\ [call[c] EXCEPT !.phase = phase] \in OnTheWay
      /\ [call[c] EXCEPT !.phase = phase].phase = phase
      /\ [call[c] EXCEPT !.phase = phase].command = call[c].command
      /\ [call[c] EXCEPT !.phase = phase].credential = call[c].credential
  BY DEF OnTheWay
<1>2. call' = [call EXCEPT ![c] = [call[c] EXCEPT !.phase = phase]]
  BY DEF Gate!Goto
<1>3. QED BY <1>1, <1>2 DEF Shaped, Alone

LEMMA IsAnswered ==
  ASSUME Shaped, NEW c \in Clients, call[c] \in OnTheWay,
         NEW what \in {"authentication failed", "missing", "wrong role", "done"}, Gate!Answer(c, what)
  PROVE  /\ call' \in [Clients -> {Gate!Idle} \cup OnTheWay \cup Answered] /\ Alone(c)
         /\ call'[c] \in Answered /\ call'[c].phase = "answered"
         /\ call'[c].answer = what /\ call'[c].credential = call[c].credential
<1>1. [phase |-> "answered", credential |-> call[c].credential, answer |-> what] \in Answered
  BY DEF OnTheWay, Answered
<1>2. QED BY <1>1 DEF Gate!Answer, Shaped, Alone

LEMMA PhaseShapes ==
  ASSUME NEW x \in {Gate!Idle} \cup OnTheWay \cup Answered
  PROVE  /\ x.phase \in {"authenticate", "dispatch", "check", "body"} <=> x \in OnTheWay
         /\ x.phase = "answered" <=> x \in Answered
         /\ x.phase = "idle" <=> x = Gate!Idle
         /\ x.phase \in {"idle", "authenticate", "dispatch", "check", "body", "answered"}
<1>1. \A y \in OnTheWay : y.phase \in {"authenticate", "dispatch", "check", "body"}
  BY DEF OnTheWay
<1>2. \A y \in Answered : y.phase = "answered"
  BY DEF Answered
<1>3. Gate!Idle.phase = "idle"
  BY DEF Gate!Idle
<1>4. CASE x = Gate!Idle
  BY <1>1, <1>2, <1>3, <1>4
<1>5. CASE x \in OnTheWay
  BY <1>1, <1>2, <1>3, <1>5
<1>6. CASE x \in Answered
  BY <1>1, <1>2, <1>3, <1>6
<1>7. QED BY <1>4, <1>5, <1>6

LEMMA CallPhases ==
  ASSUME Shaped, NEW c \in Clients
  PROVE  /\ call[c].phase \in {"authenticate", "dispatch", "check", "body"} <=> call[c] \in OnTheWay
         /\ call[c].phase = "answered" <=> call[c] \in Answered
         /\ call[c].phase = "idle" <=> call[c] = Gate!Idle
BY PhaseShapes DEF Shaped

(* What a step does to the call that takes it.                                *)
Begins(c) ==
  call[c] = Gate!Idle /\ call'[c] \in OnTheWay /\ call'[c].phase = Gate!Entry(call'[c].credential)
Ends(c) ==
  /\ call[c] \in OnTheWay /\ call'[c] \in Answered /\ call'[c].credential = call[c].credential
  /\ Past(c) \/ (call[c].phase = "authenticate" /\ call'[c].answer = "authentication failed")
Passes(c) ==
  /\ call[c] \in OnTheWay /\ call'[c] \in OnTheWay
  /\ call'[c].command = call[c].command /\ call'[c].credential = call[c].credential
  /\ \/ /\ call[c].phase = "authenticate" /\ call'[c].phase = "dispatch"
        /\ call[c].credential \in valid' /\ call[c].command \notin Gate!Administration
     \/ call[c].phase = "dispatch" /\ call'[c].phase = "check"
     \/ /\ call[c].phase = "dispatch" /\ call'[c].phase = "body"
        /\ call[c].command.component \notin RoleAbilities
     \/ /\ call[c].phase = "check" /\ call'[c].phase = "body"
        /\ Gate!RoleFor(call[c].command.component) /\ role' = role

LEMMA ClientStep ==
  ASSUME Shaped, NEW c \in Clients, Gate!Client(c)
  PROVE  /\ call' \in [Clients -> {Gate!Idle} \cup OnTheWay \cup Answered] /\ Alone(c)
         /\ Begins(c) \/ Passes(c) \/ Ends(c) \/ call'[c] = Gate!Idle
<1> DEFINE Goal == /\ call' \in [Clients -> {Gate!Idle} \cup OnTheWay \cup Answered] /\ Alone(c)
                   /\ Begins(c) \/ Passes(c) \/ Ends(c) \/ call'[c] = Gate!Idle
<1>1. ASSUME NEW command \in Gate!Commands, NEW credential \in Credentials \cup {Local},
             Gate!Begin(c, command, credential)
      PROVE  Goal
  <2>1. [phase |-> Gate!Entry(credential), command |-> command, credential |-> credential] \in OnTheWay
    BY DEF OnTheWay, Gate!Entry, Presented
  <2>2. call' \in [Clients -> {Gate!Idle} \cup OnTheWay \cup Answered] /\ Alone(c)
    BY <1>1, <2>1 DEF Gate!Begin, Shaped, Alone
  <2>3. call'[c] = [phase |-> Gate!Entry(credential), command |-> command, credential |-> credential]
    BY <1>1 DEF Gate!Begin, Shaped
  <2>4. Begins(c)
    BY <1>1, <2>1, <2>3 DEF Gate!Begin, Begins
  <2>5. QED BY <2>2, <2>4
<1>2. CASE Gate!Authenticate(c)
  <2>1. call[c] \in OnTheWay /\ call[c].phase = "authenticate" /\ valid' = valid
    BY <1>2, CallPhases DEF Gate!Authenticate
  <2>2. CASE Gate!Answer(c, "authentication failed")
    BY <2>1, <2>2, IsAnswered DEF Ends
  <2>3. CASE call[c].credential \in valid /\ ~Gate!Restricted(call[c].command) /\ Gate!Goto(c, "dispatch")
    BY <2>1, <2>3, GoesOn DEF Passes, Gate!Restricted
  <2>4. QED BY <1>2, <2>2, <2>3 DEF Gate!Authenticate
<1>3. CASE Gate!Dispatch(c)
  <2>1. call[c] \in OnTheWay /\ call[c].phase = "dispatch"
    BY <1>3, CallPhases DEF Gate!Dispatch
  <2>2. CASE Gate!Answer(c, "missing")
    <3>1. Past(c)
      BY <2>1 DEF Past
    <3>2. /\ call' \in [Clients -> {Gate!Idle} \cup OnTheWay \cup Answered] /\ Alone(c)
          /\ call'[c] \in Answered /\ call'[c].credential = call[c].credential
      BY <2>1, <2>2, IsAnswered
    <3>3. Ends(c)
      BY <2>1, <3>1, <3>2 DEF Ends
    <3>4. QED BY <3>2, <3>3
  <2>3. CASE Gate!Goto(c, "check")
    BY <2>1, <2>3, GoesOn DEF Passes
  <2>4. CASE Gate!Goto(c, "body") /\ call[c].command.component \notin RoleAbilities
    BY <2>1, <2>4, GoesOn DEF Passes
  <2>5. QED BY <1>3, <2>2, <2>3, <2>4 DEF Gate!Dispatch, RoleAbilities
<1>4. CASE Gate!CheckRole(c)
  <2>1. call[c] \in OnTheWay /\ call[c].phase = "check" /\ role' = role
    BY <1>4, CallPhases DEF Gate!CheckRole
  <2>2. CASE Gate!Answer(c, "wrong role")
    <3>1. Past(c)
      BY <2>1 DEF Past
    <3>2. /\ call' \in [Clients -> {Gate!Idle} \cup OnTheWay \cup Answered] /\ Alone(c)
          /\ call'[c] \in Answered /\ call'[c].credential = call[c].credential
      BY <2>1, <2>2, IsAnswered
    <3>3. Ends(c)
      BY <2>1, <3>1, <3>2 DEF Ends
    <3>4. QED BY <3>2, <3>3
  <2>3. CASE Gate!Goto(c, "body") /\ Gate!RoleFor(call[c].command.component)
    BY <2>1, <2>3, GoesOn DEF Passes
  <2>4. QED BY <1>4, <2>2, <2>3 DEF Gate!CheckRole
<1>5. CASE Gate!Execute(c)
  <2>1. call[c] \in OnTheWay /\ call[c].phase = "body" /\ Gate!Answer(c, "done")
    BY <1>5, CallPhases DEF Gate!Execute
  <2>2. Past(c)
    BY <2>1 DEF Past
  <2>3. /\ call' \in [Clients -> {Gate!Idle} \cup OnTheWay \cup Answered] /\ Alone(c)
        /\ call'[c] \in Answered /\ call'[c].credential = call[c].credential
    BY <2>1, IsAnswered
  <2>4. Ends(c)
    BY <2>1, <2>2, <2>3 DEF Ends
  <2>5. QED BY <2>3, <2>4
<1>6. CASE Gate!Return(c)
  BY <1>6 DEF Gate!Return, Shaped, Alone
<1>7. QED BY <1>1, <1>2, <1>3, <1>4, <1>5, <1>6 DEF Gate!Client

(* The history only grows while a call lasts, and includes this state.        *)
LEMMA Remembered ==
  ASSUME Gate!History, NEW c \in Clients, call'[c] # Gate!Idle
  PROVE  /\ seen[c].valid \/ call'[c].credential \in valid' => seen'[c].valid
         /\ call'[c].phase # "answered" => seen[c].roles \cup {role'} \subseteq seen'[c].roles
BY DEF Gate!History

LEMMA GatesStep ==
  /\ Shaped /\ Admitted /\ Gate!OnlyTheAccepted /\ Checked /\ Gate!Next
  => Shaped' /\ Admitted' /\ Gate!OnlyTheAccepted' /\ Checked'
<1> SUFFICES ASSUME Shaped, Admitted, Gate!OnlyTheAccepted, Checked, Gate!Next
             PROVE  Shaped' /\ Admitted' /\ Gate!OnlyTheAccepted' /\ Checked'
  OBVIOUS
<1>0. PICK c \in Clients : Gate!Client(c)
  BY DEF Gate!Next
<1>1. Gate!History
  BY DEF Gate!Next
<1>2. /\ call' \in [Clients -> {Gate!Idle} \cup OnTheWay \cup Answered] /\ Alone(c)
      /\ Begins(c) \/ Passes(c) \/ Ends(c) \/ call'[c] = Gate!Idle
  BY <1>0, ClientStep
<1>3. Shaped'
  BY <1>1, <1>2 DEF Shaped, Gate!History
<1>4. \A d \in Clients : call'[d] # Gate!Idle =>
        /\ seen[d].valid \/ call'[d].credential \in valid' => seen'[d].valid
        /\ call'[d].phase # "answered" => seen[d].roles \cup {role'} \subseteq seen'[d].roles
  BY <1>1, Remembered
<1>5. \A d \in Clients :
        /\ call'[d].phase \in {"authenticate", "dispatch", "check", "body"} <=> call'[d] \in OnTheWay
        /\ call'[d].phase = "answered" <=> call'[d] \in Answered
        /\ call'[d].phase = "idle" <=> call'[d] = Gate!Idle
  BY <1>2, PhaseShapes
<1>6. \A d \in Clients \ {c} : call'[d] = call[d]
  BY <1>2 DEF Alone
<1>7. Admitted'
  <2> SUFFICES ASSUME NEW d \in Clients, Past(d)', call'[d].credential # Local
               PROVE  seen'[d].valid /\ call'[d].command \notin Gate!Administration
    BY DEF Admitted
  <2>1. call'[d] \in OnTheWay /\ call'[d] # Gate!Idle /\ call'[d].phase \in {"dispatch", "check", "body"}
    BY <1>5 DEF Past
  <2>2. CASE d # c
    BY <1>4, <1>6, <2>1, <2>2 DEF Admitted, Past
  <2>3. CASE d = c /\ Begins(c)
    BY <2>1, <2>3 DEF Begins, Gate!Entry
  <2>4. CASE d = c /\ Passes(c)
    BY <1>4, <2>1, <2>4 DEF Passes, Admitted, Past
  <2>5. CASE d = c /\ Ends(c)
    BY <1>5, <2>1, <2>5 DEF Ends
  <2>6. QED BY <1>2, <2>1, <2>2, <2>3, <2>4, <2>5
<1>8. Gate!OnlyTheAccepted'
  <2> SUFFICES ASSUME NEW d \in Clients, Gate!Remote(d)', ~seen'[d].valid
               PROVE  call'[d].phase = "authenticate"
                      \/ (call'[d].phase = "answered" /\ call'[d].answer = "authentication failed")
    BY DEF Gate!OnlyTheAccepted
  <2>1. call'[d] # Gate!Idle /\ call'[d].credential # Local /\ ~seen[d].valid
    BY <1>4 DEF Gate!Remote
  <2>2. CASE d # c
    BY <1>6, <2>1, <2>2 DEF Gate!OnlyTheAccepted, Gate!Remote
  <2>3. CASE d = c /\ Begins(c)
    BY <2>1, <2>3 DEF Begins, Gate!Entry
  <2>4. CASE d = c /\ Passes(c)
    BY <1>4, <2>1, <2>4 DEF Passes, Admitted, Past
  <2>5. CASE d = c /\ Ends(c)
    BY <1>5, <2>1, <2>5 DEF Ends, Admitted
  <2>6. QED BY <1>2, <2>1, <2>2, <2>3, <2>4, <2>5
<1>9. Checked'
  <2> SUFFICES ASSUME NEW d \in Clients, call'[d].phase = "body"
               PROVE  /\ call'[d].command.component = "EdgeRoleAbility" => "edge" \in seen'[d].roles
                      /\ call'[d].command.component = "CloudRoleAbility" => "cloud" \in seen'[d].roles
    BY DEF Checked
  <2>1. /\ call'[d] \in OnTheWay /\ call'[d] # Gate!Idle
        /\ seen[d].roles \cup {role'} \subseteq seen'[d].roles
    BY <1>4, <1>5
  <2>2. CASE d # c
    BY <1>6, <2>1, <2>2 DEF Checked
  <2>3. CASE d = c /\ Begins(c)
    BY <2>1, <2>3 DEF Begins, Gate!Entry
  <2>4. CASE d = c /\ Passes(c)
    BY <2>1, <2>4 DEF Passes, Gate!RoleFor, RoleAbilities
  <2>5. CASE d = c /\ Ends(c)
    BY <1>5, <2>1, <2>5 DEF Ends
  <2>6. QED BY <1>2, <2>1, <2>2, <2>3, <2>4, <2>5
<1>10. QED BY <1>3, <1>7, <1>8, <1>9

-----------------------------------------------------------------------------
(* What the commands fill and change, each in its critical section.           *)
LEMMA OneMore ==
  ASSUME NEW table, NEW name, NEW limit \in Nat,
         IsFiniteSet(table), Cardinality(table) <= limit, Gate!Room(name, table, limit)
  PROVE  IsFiniteSet(table \cup {name}) /\ Cardinality(table \cup {name}) <= limit
<1>1. Cardinality(table) \in Nat
  BY FS_CardinalityType
<1>2. name \in table \/ Cardinality(table) < limit
  BY OneCardinality DEF Gate!Room
<1>3. QED BY <1>1, <1>2, FS_AddElement

LEMMA OneLess ==
  ASSUME NEW table, NEW name, NEW limit \in Nat, IsFiniteSet(table), Cardinality(table) <= limit
  PROVE  IsFiniteSet(table \ {name}) /\ Cardinality(table \ {name}) <= limit
<1>1. Cardinality(table) \in Nat
  BY FS_CardinalityType
<1>2. QED BY <1>1, FS_RemoveElement

LEMMA TablesStep ==
  ASSUME Gate!LimitAssumption, Shaped, TablesFinite, Gate!TablesBounded, NEW c \in Clients, Gate!Client(c)
  PROVE  TablesFinite' /\ Gate!TablesBounded'
<1> DEFINE cmd == call[c].command
<1> USE DEF TablesFinite, Gate!TablesBounded, Gate!LimitAssumption
<1>1. CASE UNCHANGED Gate!tables
  BY <1>1 DEF Gate!tables
<1>2. CASE Gate!Execute(c)
  <2>1. cmd \in Gate!Commands
    BY <1>2, CallPhases DEF Gate!Execute, OnTheWay
  <2>2. CASE Gate!Administer(call[c])
    BY <2>2, <1>1 DEF Gate!Administer
  <2>3. CASE Gate!AddCapability(cmd)
    BY <2>3, OneMore, OneCardinality DEF Gate!AddCapability
  <2>4. CASE Gate!RemoveCapability(cmd)
    BY <2>4, OneLess, OneCardinality DEF Gate!RemoveCapability
  <2>5. CASE Gate!SetCapabilities(cmd)
    BY <2>1, <2>5, CommandShapes, OneCardinality DEF Gate!SetCapabilities
  <2>6. CASE Gate!RegisterService(cmd)
    BY <2>6, OneMore, OneCardinality DEF Gate!RegisterService
  <2>7. CASE Gate!UnregisterService(cmd)
    BY <2>7, OneLess, OneCardinality DEF Gate!UnregisterService
  <2>8. QED BY <1>2, <2>2, <2>3, <2>4, <2>5, <2>6, <2>7 DEF Gate!Execute
<1>3. ASSUME ~Gate!Execute(c) PROVE UNCHANGED Gate!tables
  BY <1>3 DEF Gate!Client, Gate!Begin, Gate!Authenticate, Gate!Dispatch, Gate!CheckRole, Gate!Return
<1>4. QED BY <1>1, <1>2, <1>3

LEMMA AdministrationStep ==
  ASSUME Gate!TypeOK, Shaped, Admitted, Gate!AdministrationIsLocal, NEW c \in Clients, Gate!Client(c)
  PROVE  /\ valid' \subseteq Credentials /\ role' \in Gate!Roles \cup {Gate!NoRole}
         /\ Gate!AdministrationIsLocal'
<1> USE DEF Gate!AdministrationIsLocal
<1>1. CASE UNCHANGED <<valid, role, administered>>
  BY <1>1 DEF Gate!TypeOK
<1>2. CASE Gate!Execute(c) /\ Gate!Administer(call[c])
  <2>1. Past(c) /\ call[c].command \in Gate!Administration
    BY <1>2 DEF Gate!Execute, Past, Gate!Administer
  <2>2. call[c].credential = Local
    BY <2>1 DEF Admitted
  <2>3. valid' \subseteq Credentials
    BY <1>2, <2>1, CommandShapes DEF Gate!Administer, Gate!TypeOK
  <2>4. role' \in Gate!Roles \cup {Gate!NoRole}
    BY <1>2, <2>1, CommandShapes DEF Gate!Administer, Gate!TypeOK
  <2>5. QED BY <1>2, <2>2, <2>3, <2>4 DEF Gate!Administer
<1>3. ASSUME ~(Gate!Execute(c) /\ Gate!Administer(call[c])) PROVE UNCHANGED <<valid, role, administered>>
  BY <1>3 DEF Gate!Client, Gate!Begin, Gate!Authenticate, Gate!Dispatch, Gate!CheckRole, Gate!Execute, Gate!Return
<1>4. QED BY <1>1, <1>2, <1>3

LEMMA GateInductiveInit == Gate!LimitAssumption /\ Gate!Init => GateInductive
<1> SUFFICES ASSUME Gate!LimitAssumption, Gate!Init PROVE GateInductive
  OBVIOUS
<1>1. Gate!TypeOK /\ Shaped
  BY DEF Gate!Init, Gate!TypeOK, Shaped, Gate!Idle
<1>2. Admitted /\ Gate!OnlyTheAccepted /\ Checked
  BY DEF Gate!Init, Admitted, Past, Gate!OnlyTheAccepted, Gate!Remote, Checked, Gate!Idle
<1>3. TablesFinite /\ Gate!TablesBounded
  BY FS_EmptySet, OneCardinality DEF Gate!Init, TablesFinite, Gate!TablesBounded, Gate!LimitAssumption
<1>4. Gate!AdministrationIsLocal
  BY DEF Gate!Init, Gate!AdministrationIsLocal
<1>5. QED BY <1>1, <1>2, <1>3, <1>4 DEF GateInductive

LEMMA GateInductiveStep == Gate!LimitAssumption /\ GateInductive /\ [Gate!Next]_(Gate!vars) => GateInductive'
<1> SUFFICES ASSUME Gate!LimitAssumption, GateInductive, [Gate!Next]_(Gate!vars) PROVE GateInductive'
  OBVIOUS
<1> USE DEF GateInductive
<1>1. CASE Gate!Next
  <2>1. PICK c \in Clients : Gate!Client(c)
    BY <1>1 DEF Gate!Next
  <2>2. Shaped' /\ Admitted' /\ Gate!OnlyTheAccepted' /\ Checked'
    BY <1>1, GatesStep
  <2>3. TablesFinite' /\ Gate!TablesBounded'
    BY <2>1, TablesStep
  <2>4. valid' \subseteq Credentials /\ role' \in Gate!Roles \cup {Gate!NoRole} /\ Gate!AdministrationIsLocal'
    BY <2>1, AdministrationStep
  <2>5. \A d \in Clients : call'[d].phase \in {"idle", "authenticate", "dispatch", "check", "body",
                                              "answered"}
    BY <2>2, PhaseShapes DEF Shaped
  <2>6. Gate!TypeOK'
    BY <2>4, <2>5 DEF Gate!TypeOK, Gate!AdministrationIsLocal
  <2>7. QED BY <2>2, <2>3, <2>4, <2>6
<1>2. CASE UNCHANGED Gate!vars
  BY <1>2 DEF Gate!vars, Gate!tables, Gate!TypeOK, Shaped, Admitted, Past, Gate!OnlyTheAccepted, Gate!Remote,
    Gate!AdministrationIsLocal, Checked, TablesFinite, Gate!TablesBounded
<1>3. QED BY <1>1, <1>2

LEMMA GateSound == GateInductive => Gate!TypeOK /\ Gate!CommandsGated
<1>1. GateInductive => Gate!RoleHeld
  BY CommandShapes DEF GateInductive, Checked, Gate!RoleHeld
<1>2. QED BY <1>1 DEF GateInductive, Gate!CommandsGated

(* A remote call learns and reaches nothing unless its token was accepted     *)
(* while it ran, administration is in-process, an ability acts only in a role *)
(* it has seen, and no mixture of commands lifts a table over its limit.      *)
THEOREM CommandsGatedHolds == AccessSpec => []CommandsGated
<1> DEFINE Followed == part = "gate" => GateInductive
<1>1. AccessInit => Followed
  BY GateInductiveInit, GateAssumption DEF AccessInit
<1>2. Followed /\ [AccessNext]_accessVars => Followed'
  <2> SUFFICES ASSUME Followed, [AccessNext]_accessVars, part' = "gate" PROVE GateInductive'
    OBVIOUS
  <2>1. part = "gate" /\ GateInductive
    BY DEF AccessNext, accessVars
  <2>2. [Gate!Next]_(Gate!vars)
    BY <2>1 DEF AccessNext, accessVars, gateVars, Gate!vars
  <2>3. QED BY <2>1, <2>2, GateInductiveStep, GateAssumption
<1>3. Followed => CommandsGated
  BY GateSound DEF CommandsGated
<1>4. QED BY <1>1, <1>2, <1>3, PTL DEF AccessSpec
=============================================================================
