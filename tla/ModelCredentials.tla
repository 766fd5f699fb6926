-------------------------- MODULE ModelCredentials --------------------------
(***************************************************************************)
(* Models, their stored credentials and the Runs that use them: the CRUD   *)
(* endpoints of /models, Run creation, and a worker that resolves the      *)
(* credential of a Run's frozen Model snapshot, while an operator rotates  *)
(* the deployment keyring.                                                 *)
(*                                                                         *)
(* A request is two steps, what it reads and decides in its transaction    *)
(* and its commit, so that requests interleave wherever no row lock stops  *)
(* them.  A secret is a number entered once; an envelope is the record of  *)
(* what AES-GCM authenticates together.  The protocol and the remote model *)
(* name are part of the URL; every other public field is "public".         *)
(***************************************************************************)
EXTENDS Integers, FiniteSets

CONSTANTS ModelIds, RunIds, Clients,
          Urls,         \* base URLs, each with its protocol
          OriginOf,     \* normalize_provider_origin: URL -> origin
          KeyIds,       \* key ids an operator may put into the keyring
          MaxSecrets,   \* bound on the API keys ever entered
          MaxRotations  \* bound on keyring changes

ASSUME CredentialAssumption ==
    /\ DOMAIN OriginOf = Urls
    /\ "unlocked" \notin Clients    \* no client is called like a free lock
    /\ MaxSecrets \in Nat /\ MaxRotations \in Nat

VARIABLES model,     \* models rows
          cred,      \* model_credentials rows
          run,       \* evaluation_runs: status and frozen Model snapshot
          keyring,   \* the keyring file: active key and readable keys
          rotations, \* changes of the keyring so far
          rowLock,   \* SELECT ... FOR UPDATE on a Model row
          request,   \* API requests between their reads and their commit
          entered,   \* history: secret, Model and origin a client entered
          resolved   \* history: secret, Model and origin a worker resolved

credVars == <<model, cred, run, keyring, rotations, rowLock, request,
              entered, resolved>>

NoUrl  == "no url"
NoCred == [key |-> "none", model |-> "none", origin |-> "none", secret |-> 0]
NoRow  == [exists |-> FALSE, provider |-> "mock", url |-> NoUrl, env |-> FALSE,
           source |-> "none", public |-> 0]
Deleted == [NoRow EXCEPT !.provider = "deleted"]   \* ids are never used again
NoSnapshot == [model |-> "none", row |-> NoRow, cred |-> NoCred]
Idling == [kind |-> "idle", model |-> "none", row |-> NoRow, cred |-> NoCred]
Unlocked == "unlocked"
Active == {"pending", "running"}

CredInit ==
    /\ model = [m \in ModelIds |-> NoRow]
    /\ cred = [m \in ModelIds |-> NoCred]
    /\ run = [r \in RunIds |-> [status |-> "none", snap |-> NoSnapshot]]
    /\ \E k \in KeyIds : keyring = [active |-> k, keys |-> {k}]
    /\ rotations = 0
    /\ rowLock = [m \in ModelIds |-> Unlocked]
    /\ request = [c \in Clients |-> Idling]
    /\ entered = {} /\ resolved = {}

-----------------------------------------------------------------------------
(* The keyring.                                                            *)

NextSecret == Cardinality(entered) + 1

\* CredentialKeyring.encrypt under the active key.
Encrypt(m, url) ==
    [key |-> keyring.active, model |-> m, origin |-> OriginOf[url], secret |-> NextSecret]

\* CredentialKeyring.decrypt: the key is known and the authenticated data,
\* Model and origin, are the ones the envelope was made with.
Decrypts(envelope, m, url) ==
    /\ envelope.key \in keyring.keys
    /\ envelope.model = m
    /\ envelope.origin = OriginOf[url]

\* An operator edits the file: adds keys, changes the active one, retires
\* others, used or not, or loses it (no keys at all).
RotateKeyring ==
    /\ rotations < MaxRotations
    /\ \E keys \in SUBSET KeyIds : \E k \in KeyIds :
        /\ k \in keys \/ keys = {}
        /\ keyring' = [active |-> k, keys |-> keys]
    /\ rotations' = rotations + 1
    /\ UNCHANGED <<model, cred, run, rowLock, request, entered, resolved>>

-----------------------------------------------------------------------------
(* The Model endpoints.                                                    *)

\* validate_provider_requirements for a row and whether it has an API key.
Valid(row, hasKey) ==
    IF row.provider = "mock"
    THEN row.url = NoUrl /\ ~row.env /\ ~hasKey
    ELSE row.url # NoUrl /\ (hasKey # row.env)

\* _source_for.
SourceFor(row, hasKey) ==
    IF row.provider = "mock" THEN "none"
    ELSE IF hasKey THEN "stored" ELSE "environment"

Rows == [exists: {TRUE}, provider: {"mock", "remote"}, url: Urls \cup {NoUrl},
         env: BOOLEAN, source: {"none"}, public: {0}]

\* create_model; the row is new, so nobody else can hold it.
CreateModel(c, m, asked, hasKey) ==
    /\ request[c].kind = "idle" /\ model[m] = NoRow
    /\ \A d \in Clients : request[d].kind = "create_model" => request[d].model # m
    /\ Valid(asked, hasKey)
    /\ hasKey => keyring.keys # {} /\ NextSecret <= MaxSecrets
    /\ request' = [request EXCEPT ![c] =
           [kind |-> "create_model", model |-> m,
            row |-> [asked EXCEPT !.source = SourceFor(asked, hasKey)],
            cred |-> IF hasKey THEN Encrypt(m, asked.url) ELSE NoCred]]
    /\ entered' = IF hasKey
                  THEN entered \cup {[secret |-> NextSecret, model |-> m, origin |-> OriginOf[asked.url]]}
                  ELSE entered
    /\ UNCHANGED <<model, cred, run, keyring, rotations, rowLock, resolved>>

\* A PATCH body: what each field becomes, "keep" where it is left out.  An
\* explicit null is refused, or changes nothing.
Patches == [provider: {"keep", "mock", "remote"}, url: Urls \cup {"keep"},
            env: {"keep", "set"}, key: BOOLEAN, public: BOOLEAN]

\* The merged row: a new key replaces an environment variable and the other
\* way round, and mock clears both.
Merge(row, p) ==
    LET mock == p.provider = "mock"
    IN [row EXCEPT
          !.provider = IF p.provider = "keep" THEN @ ELSE p.provider,
          !.url = IF mock THEN NoUrl ELSE IF p.url = "keep" THEN @ ELSE p.url,
          !.env = IF mock \/ p.key THEN FALSE
                  ELSE @ \/ p.env = "set",
          !.public = IF p.public THEN 1 - @ ELSE @]

\* Whether the merged payload has an API key: a new one, or the marker of a
\* stored one that env or mock has not removed.
MergedKey(row, p) ==
    p.key \/ (row.source = "stored" /\ p.env # "set" /\ p.provider # "mock")

ActiveRunOf(m) == \E r \in RunIds : run[r].status \in Active /\ run[r].snap.model = m

Sensitive(old, new, p) ==
    \/ new.provider # old.provider \/ new.url # old.url
    \/ new.env # old.env \/ new.source # old.source \/ p.key

\* _unreadable_credential_recovery_is_isolated.
RecoveryIsolated(old, new) ==
    /\ new.public = old.public
    /\ new.provider = "mock" \/ new.url = old.url

\* Slip: the new URL is not compared with the old one.
OriginAccepted_Always(old, new, p) == TRUE

\* A new origin needs a new key.
OriginAccepted(old, new, p) ==
    old.url # NoUrl /\ new.url # NoUrl /\ OriginOf[old.url] # OriginOf[new.url] => p.key

\* What update_model requires of the row, its envelope and the Runs.
PatchAccepted(m, new, p) ==
    LET old == model[m]
        readable == Decrypts(cred[m], m, old.url)
    IN /\ ~(Sensitive(old, new, p) /\ ActiveRunOf(m))
       /\ old.source = "stored" /\ ~readable =>
              (p.key \/ new.source # "stored") /\ RecoveryIsolated(old, new)
       /\ OriginAccepted(old, new, p)
       /\ p.key => keyring.keys # {} /\ NextSecret <= MaxSecrets

\* Slip: the stored key is carried along to a new origin.
StagePatch_MovesKey(c, m, p) ==
    LET merged == Merge(model[m], p)
        hasKey == MergedKey(model[m], p)
        new == [merged EXCEPT !.source = SourceFor(merged, hasKey)]
    IN /\ request[c].kind = "idle" /\ model[m].exists /\ ~p.key
       /\ Valid(merged, hasKey) /\ ~ActiveRunOf(m)
       /\ request' = [request EXCEPT ![c] =
              [kind |-> "patch", model |-> m, row |-> new,
               cred |-> IF new.source = "stored"
                        THEN [cred[m] EXCEPT !.origin = OriginOf[new.url]] ELSE NoCred]]
       /\ UNCHANGED <<model, cred, run, keyring, rotations, entered, resolved>>

\* The row and envelope the transaction is about to commit.
StagePatch(c, m, p) ==
    LET merged == Merge(model[m], p)
        hasKey == MergedKey(model[m], p)
        new == [merged EXCEPT !.source = SourceFor(merged, hasKey)]
    IN /\ request[c].kind = "idle" /\ model[m].exists
       /\ Valid(merged, hasKey) /\ PatchAccepted(m, new, p)
       /\ request' = [request EXCEPT ![c] =
              [kind |-> "patch", model |-> m, row |-> new,
               cred |-> IF p.key THEN Encrypt(m, new.url)
                        ELSE IF new.source = "stored" THEN cred[m] ELSE NoCred]]
       /\ entered' = IF p.key
                     THEN entered \cup {[secret |-> NextSecret, model |-> m, origin |-> OriginOf[new.url]]}
                     ELSE entered
       /\ UNCHANGED <<model, cred, run, keyring, rotations, resolved>>

\* Slip: the Model row is read without its lock.
PatchModel_Unlocked(c, m, p) == StagePatch(c, m, p) /\ UNCHANGED rowLock

\* update_model up to its commit, under lock_model_for_update.  A refused
\* request changes nothing but the audit trail.
PatchModel(c, m, p) ==
    /\ rowLock[m] = Unlocked
    /\ StagePatch(c, m, p)
    /\ rowLock' = [rowLock EXCEPT ![m] = c]

\* delete_model reads without a lock; the DELETE itself waits for one.
DeleteModel(c, m) ==
    /\ request[c].kind = "idle" /\ model[m].exists
    /\ \A r \in RunIds : run[r].snap.model # m
    /\ request' = [request EXCEPT ![c] = [Idling EXCEPT !.kind = "delete", !.model = m]]
    /\ UNCHANGED <<model, cred, run, keyring, rotations, rowLock, entered, resolved>>

\* create_run up to its commit: the snapshot of build_evaluation_run.
CreateRun(c, m) ==
    /\ request[c].kind = "idle" /\ model[m].exists
    /\ rowLock[m] = Unlocked
    /\ \E r \in RunIds : run[r].status = "none"
    /\ rowLock' = [rowLock EXCEPT ![m] = c]
    /\ request' = [request EXCEPT ![c] =
           [kind |-> "create_run", model |-> m, row |-> model[m], cred |-> cred[m]]]
    /\ UNCHANGED <<model, cred, run, keyring, rotations, entered, resolved>>

Done(c) ==
    /\ request' = [request EXCEPT ![c] = Idling]
    /\ rowLock' = [m \in ModelIds |-> IF rowLock[m] = c THEN Unlocked ELSE rowLock[m]]

\* The commit of a staged Model row and credential; setting a row aside
\* that a concurrent DELETE removed raises.
CommitModel(c) ==
    LET m == request[c].model
    IN /\ request[c].kind \in {"create_model", "patch"}
       /\ request[c].kind = "patch" => model[m].exists
       /\ model' = [model EXCEPT ![m] = request[c].row]
       /\ cred' = [cred EXCEPT ![m] = request[c].cred]
       /\ Done(c)
       /\ UNCHANGED <<run, keyring, rotations, entered, resolved>>

\* The DELETE: the credential cascades, a Run that appeared restricts it.
CommitDelete(c) ==
    LET m == request[c].model
    IN /\ request[c].kind = "delete"
       /\ rowLock[m] = Unlocked
       /\ \A r \in RunIds : run[r].snap.model # m
       /\ model' = [model EXCEPT ![m] = Deleted]
       /\ cred' = [cred EXCEPT ![m] = NoCred]
       /\ Done(c)
       /\ UNCHANGED <<run, keyring, rotations, entered, resolved>>

CommitRun(c) ==
    /\ request[c].kind = "create_run"
    /\ \E r \in RunIds :
        /\ run[r].status = "none"
        /\ run' = [run EXCEPT ![r] =
               [status |-> "pending",
                snap |-> [model |-> request[c].model, row |-> request[c].row,
                          cred |-> request[c].cred]]]
    /\ Done(c)
    /\ UNCHANGED <<model, cred, keyring, rotations, entered, resolved>>

\* A name conflict, a full backlog or a lost connection rolls back.
RequestFails(c) ==
    /\ request[c].kind # "idle"
    /\ Done(c)
    /\ UNCHANGED <<model, cred, run, keyring, rotations, entered, resolved>>

-----------------------------------------------------------------------------
(* Execution.                                                              *)

\* _load_snapshots at the start of each quantum: a stored credential is read
\* from its row now and decrypted for the URL frozen in the Run.
ResolveCredential(r) ==
    LET snap == run[r].snap
    IN /\ run[r].status \in Active
       /\ \/ /\ snap.row.source = "stored"
             /\ cred[snap.model] # NoCred
             /\ Decrypts(cred[snap.model], snap.model, snap.row.url)
             /\ resolved' = resolved \cup
                    {[secret |-> cred[snap.model].secret, model |-> snap.model,
                      origin |-> OriginOf[snap.row.url]]}
          \/ snap.row.source # "stored" /\ UNCHANGED resolved
       /\ run' = [run EXCEPT ![r].status = "running"]
       /\ UNCHANGED <<model, cred, keyring, rotations, rowLock, request, entered>>

\* The Run completes, is cancelled, or fails for want of its credential.
EndRun(r) ==
    /\ run[r].status \in Active
    /\ run' = [run EXCEPT ![r].status = "ended"]
    /\ UNCHANGED <<model, cred, keyring, rotations, rowLock, request, entered, resolved>>

CredNext ==
    \/ RotateKeyring
    \/ \E c \in Clients :
        \/ \E m \in ModelIds :
            \/ \E row \in Rows, hasKey \in BOOLEAN : CreateModel(c, m, row, hasKey)
            \/ \E p \in Patches : PatchModel(c, m, p)
            \/ DeleteModel(c, m) \/ CreateRun(c, m)
        \/ CommitModel(c) \/ CommitDelete(c) \/ CommitRun(c) \/ RequestFails(c)
    \/ \E r \in RunIds : ResolveCredential(r) \/ EndRun(r)

CredSpec == CredInit /\ [][CredNext]_credVars

-----------------------------------------------------------------------------

\* A worker hands a stored key only to the origin its owner entered it for,
\* whatever the Model was changed to between Run creation and execution.
KeysStayAtTheirOrigin == resolved \subseteq entered

\* Provider endpoint and credential do not change during active Runs: a Run
\* resumed by another worker uses the target and key it started with.
ActiveRunsKeepTheirProvider ==
    \A r \in RunIds :
        run[r].status \in Active =>
            LET snap == run[r].snap
            IN /\ model[snap.model].exists
               /\ [model[snap.model] EXCEPT !.public = snap.row.public] = snap.row
               /\ cred[snap.model] = snap.cred

\* A Model says "stored" exactly if it has an envelope, made for this Model
\* and the origin it now points to: only a lost key makes it unreadable.
StoredMatchesEnvelope ==
    \A m \in ModelIds :
        IF model[m].source = "stored"
        THEN cred[m].model = m /\ cred[m].origin = OriginOf[model[m].url]
        ELSE cred[m] = NoCred

\* What update_model, create_run and credential resolution guarantee together:
\* a key is used for the origin it was entered for, an active Run keeps its
\* Provider, and a Model's stored key is one its own row can use.
CredentialInv ==
    KeysStayAtTheirOrigin /\ ActiveRunsKeepTheirProvider /\ StoredMatchesEnvelope
=============================================================================
