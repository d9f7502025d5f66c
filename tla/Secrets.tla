------------------------------- MODULE Secrets -------------------------------
(***************************************************************************)
(* The operator's scripts that change the production environment           *)
(* (server/scripts/rotate-secret.cjs and set-alert-channel.cjs).           *)
(*                                                                         *)
(* A run reads the whole environment of the service at Render, changes its *)
(* copy and puts the whole copy back; what is put is served only after a   *)
(* deploy.  A rotation first saves the old values in the operator's        *)
(* keyring, and in the end probes that the old value is refused and the    *)
(* new one taken; a rollback does the same with the saved values.  A run   *)
(* may be killed, or lose a response, between any two steps, and runs may  *)
(* overlap.                                                                *)
(***************************************************************************)
EXTENDS Integers, FiniteSets

CONSTANTS
    Target,     \* TARGETS: the secrets a rotation can change
    Synced,     \* those that a receiver checks, and has to be told
    Stale,      \* WATCHDOG_STALE_SEC, which set-alert-channel sets and removes
    MaxRun,     \* bound: invocations of a script
    MaxValue,   \* bound: rotations
    MaxOpen,    \* bound: runs under way at a time
    Absent      \* no value, copy, name or deploy

ASSUME SecretsAssumption ==
    /\ Synced \subseteq Target /\ Stale \notin Target
    /\ MaxRun \in Nat /\ MaxValue \in Nat /\ MaxOpen \in Nat
    /\ Absent \notin Nat \union {"rotate", "rollback", "channel"}

VARIABLES
    env,        \* the environment stored at Render
    service,    \* the targets' values the running service has loaded
    receiver,   \* the values the alert receiver takes
    deploy,     \* the deploy under way: whose it is, and what it has loaded
    deployed,   \* the run whose deploy is live
    snapshot,   \* the keyring's core-secrets-rotation-backup
    fresh,      \* the next value a generator returns
    run,        \* each run: its step and what it holds
    tangled,    \* history: runs have met between reading and putting, or two that prove
    origin,     \* history: the values served when the last run succeeded
    since       \* history: the runs that have changed targets since

production == <<env, service, receiver, deploy, deployed>>
keyring == <<snapshot, fresh>>
history == <<tangled, origin, since>>
secretsVars == <<production, keyring, run, history>>

Run == 1..MaxRun
Key == Target \union {Stale}
Value == 0..MaxValue \union {Absent}
Targets(e) == [k \in Target |-> e[k]]

\* at: the step; copy: the environment as it was read, then as it is put; want, gone: the
\* targets' values as the run leaves and found them; left: the targets still to prove.
Unused == [at |-> "unused", job |-> Absent, name |-> Absent, copy |-> Absent,
           want |-> Absent, gone |-> Absent, left |-> {}]

\* The run goes on at a step.  One that is over keeps what history asks of it.
Becomes(r, at) ==
    run' = [run EXCEPT ![r] =
              IF at \in {"done", "failed"} THEN [Unused EXCEPT !.at = at, !.job = run[r].job, !.name = run[r].name]
              ELSE [run[r] EXCEPT !.at = at]]

Open == {r \in Run : run[r].at \notin {"unused", "done", "failed"}}
Holds(r) == run[r].at \in {"read", "putting"}
Proves(r) == run[r].job \in {"rotate", "rollback"}

\* What a run changes.
Own(r) == IF run[r].job = "channel" THEN {Stale}
          ELSE {k \in Target : run[r].gone[k] # run[r].want[k]}

SecretsTypeOK ==
    LET Values == [Target -> Value] \union {Absent}
    IN /\ env \in [Key -> Value] /\ service \in [Target -> Value]
       /\ receiver \in [Synced -> Value] /\ snapshot \in Values
       /\ deploy = Absent \/ (deploy.by \in Run /\ deploy.env \in Values)
       /\ deployed \in Run \union {Absent}
       /\ fresh \in 1..(MaxValue + 1)
       /\ \A r \in Run :
             /\ run[r].at \in {"unused", "asking", "read", "putting", "put", "deploying", "live",
                               "proving", "old", "new", "verified", "nothing", "done", "failed"}
             /\ run[r].job \in {"rotate", "rollback", "channel", Absent}
             /\ run[r].copy \in [Key -> Value] \union {Absent}
             /\ run[r].want \in Values /\ run[r].gone \in Values /\ run[r].left \subseteq Target
       /\ tangled \in BOOLEAN /\ origin \in [Target -> Value] /\ since \subseteq Run

SecretsInit ==
    /\ env = [k \in Key |-> IF k = Stale THEN Absent ELSE 0]
    /\ service = [k \in Target |-> 0] /\ receiver = [k \in Synced |-> 0]
    /\ deploy = Absent /\ deployed = Absent
    /\ snapshot = Absent /\ fresh = 1
    /\ run = [r \in Run |-> Unused]
    /\ tangled = FALSE /\ origin = service /\ since = {}

-----------------------------------------------------------------------------
(* A run reads, changes and puts. *)

\* The operator starts a script.  A rollback reads its snapshot at once, and refuses
\* to run without one.
Starts(r, job, name) ==
    /\ \A o \in Run : run[o].at = "unused" <=> o >= r
    /\ Cardinality(Open) < MaxOpen
    /\ job = "rollback" => snapshot # Absent
    /\ run' = [run EXCEPT ![r] = [@ EXCEPT !.at = "asking", !.job = job, !.name = name,
                                           !.want = IF job = "rollback" THEN snapshot ELSE Absent]]
    /\ tangled' = (tangled \/ (job # "channel" /\ \E o \in Open : Proves(o)))
    /\ UNCHANGED <<production, keyring, origin, since>>

Reads(r) ==
    /\ run[r].at = "asking"
    /\ run' = [run EXCEPT ![r].at = "read", ![r].copy = env]
    /\ tangled' = (tangled \/ \E o \in Run : Holds(o))
    /\ UNCHANGED <<production, keyring, origin, since>>

Old(r) == Targets(run[r].copy)
New(r) == [Old(r) EXCEPT ![run[r].name] = fresh]

Saving(r, kept, new) ==
    /\ run[r].at = "read" /\ run[r].job = "rotate" /\ fresh <= MaxValue
    /\ snapshot' = kept
    /\ run' = [run EXCEPT ![r] =
                 [@ EXCEPT !.at = "putting", !.left = {run[r].name}, !.gone = Old(r), !.want = new,
                           !.copy = [k \in Key |-> IF k \in Target THEN new[k] ELSE run[r].copy[k]]]]
    /\ fresh' = fresh + 1 /\ since' = since \union {r}
    /\ UNCHANGED <<production, tangled, origin>>

\* A rotation saves the values it has read, and generates the new one.
Saves(r) == Saving(r, Old(r), New(r))

\* A rollback sets what differs from its snapshot; if nothing does, it has nothing to
\* do, and succeeds.
Compares(r) ==
    /\ run[r].at = "read" /\ run[r].job = "rollback"
    /\ LET changed == {k \in Target : Old(r)[k] # run[r].want[k]}
       IN /\ run' = [run EXCEPT ![r] =
                       [@ EXCEPT !.at = IF changed = {} THEN "nothing" ELSE "putting",
                                 !.left = changed, !.gone = Old(r),
                                 !.copy = [k \in Key |-> IF k \in changed THEN run[r].want[k]
                                           ELSE run[r].copy[k]]]]
          /\ since' = IF changed = {} THEN since ELSE since \union {r}
    /\ UNCHANGED <<production, keyring, tangled, origin>>

\* set-alert-channel sets the watchdog's threshold for a proof, or takes it away.
Sets(r, value) ==
    /\ run[r].at = "read" /\ run[r].job = "channel"
    /\ value # Absent \/ run[r].copy[Stale] # Absent
    /\ run' = [run EXCEPT ![r] = [@ EXCEPT !.at = "putting",
                                           !.copy = [run[r].copy EXCEPT ![Stale] = value]]]
    /\ UNCHANGED <<production, keyring, history>>

\* Mutant: a rotation puts only what it manages.
PutsManaged(r) ==
    /\ run[r].at = "putting"
    /\ env' = [k \in Key |-> IF k \in Target \/ ~Proves(r) THEN run[r].copy[k] ELSE Absent]
    /\ \E to \in {"put", "failed"} : Becomes(r, to)
    /\ UNCHANGED <<service, receiver, deploy, deployed, keyring, history>>

\* The copy replaces the environment; the run may not hear of it.
Puts(r) ==
    /\ run[r].at = "putting"
    /\ env' = run[r].copy
    /\ \E to \in {"put", "failed"} : Becomes(r, to)
    /\ UNCHANGED <<service, receiver, deploy, deployed, keyring, history>>

\* A deploy is asked for, and supersedes the one under way; set-alert-channel does not
\* wait for it.
Deploys(r) ==
    /\ run[r].at = "put"
    /\ deploy' = [by |-> r, env |-> Absent]
    /\ \E to \in {IF Proves(r) THEN "deploying" ELSE "done", "failed"} : Becomes(r, to)
    /\ UNCHANGED <<env, service, receiver, deployed, keyring, history>>

\* ... or leaves it to a later one.
Ends(r) ==
    /\ run[r].at \in {"verified", "nothing"} \/ (run[r].at = "put" /\ ~Proves(r))
    /\ Becomes(r, "done")
    /\ UNCHANGED <<production, keyring, history>>

\* A request fails, a wait times out, the run is killed.
Fails(r) ==
    /\ r \in Open
    /\ Becomes(r, "failed")
    /\ UNCHANGED <<production, keyring, history>>

-----------------------------------------------------------------------------
(* Render. *)

Loads ==
    /\ deploy # Absent /\ deploy.env = Absent
    /\ deploy' = [deploy EXCEPT !.env = Targets(env)]
    /\ UNCHANGED <<env, service, receiver, deployed, keyring, run, history>>

GoesLive ==
    /\ deploy # Absent /\ deploy.env # Absent
    /\ service' = deploy.env /\ deployed' = deploy.by /\ deploy' = Absent
    /\ UNCHANGED <<env, receiver, keyring, run, history>>

DeployFails ==
    /\ deploy # Absent /\ deploy' = Absent
    /\ UNCHANGED <<env, service, receiver, deployed, keyring, run, history>>

-----------------------------------------------------------------------------
(* A run proves what it did. *)

Seen(r, at) ==
    /\ run[r].at = "deploying" /\ ~(deploy # Absent /\ deploy.by = r)
    /\ Becomes(r, IF deployed = r THEN at ELSE "failed")
    /\ UNCHANGED <<production, keyring, history>>

\* Mutant: a live deploy is proof enough.
PollsOnly(r) == Seen(r, "verified")

\* The deploy is live; or it has failed, or was superseded.
Polls(r) == Seen(r, "live")

ReadsBack(r) ==
    /\ run[r].at = "live"
    /\ Becomes(r, IF \A k \in run[r].left : env[k] = run[r].want[k] THEN "proving" ELSE "failed")
    /\ UNCHANGED <<production, keyring, history>>

\* The next target to prove; its receiver is told the value first, and the run may
\* not hear of that.
Proving(r, k) ==
    /\ run[r].at = "proving" /\ k \in run[r].left
    /\ receiver' = [s \in Synced |-> IF s = k THEN run[r].want[s] ELSE receiver[s]]
    /\ \/ run' = [run EXCEPT ![r].at = "old", ![r].name = k]
       \/ k \in Synced /\ Becomes(r, "failed")
    /\ UNCHANGED <<env, service, deploy, deployed, keyring, history>>

\* Who takes a secret: the receiver, or the service.
Taken(k) == IF k \in Synced THEN receiver[k] ELSE service[k]

ProbesOld(r) ==
    /\ run[r].at = "old"
    /\ Becomes(r, IF Taken(run[r].name) = run[r].gone[run[r].name] THEN "failed" ELSE "new")
    /\ UNCHANGED <<production, keyring, history>>

ProbesNew(r) ==
    LET k == run[r].name
        last == run[r].left = {k}
        good == Taken(k) = run[r].want[k]
    IN /\ run[r].at = "new"
       /\ IF good
          THEN run' = [run EXCEPT ![r].at = IF last THEN "verified" ELSE "proving", ![r].left = @ \ {k}]
          ELSE Becomes(r, "failed")
       /\ origin' = IF good /\ last THEN service ELSE origin
       /\ since' = IF good /\ last THEN {} ELSE since
       /\ UNCHANGED <<production, keyring, tangled>>

SecretsNext ==
    \/ \E r \in Run :
          \/ \E k \in Target : Starts(r, "rotate", k) \/ Proving(r, k)
          \/ Starts(r, "rollback", Absent) \/ Starts(r, "channel", Absent)
          \/ Reads(r) \/ Saves(r) \/ Compares(r)
          \/ Sets(r, 0) \/ Sets(r, Absent)
          \/ Puts(r) \/ Deploys(r) \/ Polls(r) \/ ReadsBack(r)
          \/ ProbesOld(r) \/ ProbesNew(r) \/ Ends(r) \/ Fails(r)
    \/ Loads \/ GoesLive \/ DeployFails

SecretsSpec == SecretsInit /\ [][SecretsNext]_secretsVars

-----------------------------------------------------------------------------

\* A run that says VERIFIED has taken effect, unless it was tangled with another: the
\* service runs with the values it left, all of them, Render stores them, and the
\* receiver takes those it was told (rotate-secret.cjs:13-14, 774-787).
VerifiedIsServed ==
    \A r \in Run : run[r].at = "verified" /\ ~tangled =>
        /\ service = run[r].want /\ Targets(env) = run[r].want
        /\ \A k \in Synced : run[r].gone[k] # run[r].want[k] => receiver[k] = run[r].want[k]

\* The way back: a rotation that stops anywhere, short of its success, leaves the values
\* that were served before in the keyring (rotate-secret.cjs:42-44, 745-748).  That is while it is
\* the first since then: the next one saves what the failed one left.
WayBack ==
    ~tangled => \A r \in Run : since = {r} /\ run[r].job = "rotate" => snapshot = origin

\* "rotate ONE secret": a first rotation brings no other value to life, although the
\* whole environment is put and deployed (rotate-secret.cjs:5-11).
OneAtATime ==
    [][\A r \in Run : ~tangled /\ since = {r} /\ run[r].job = "rotate" =>
          \A k \in Target : service'[k] # service[k] => k = run[r].name]_secretsVars

\* No run undoes what another put, though every run puts the whole environment: what
\* changes there is the run's own, unless it met another between reading and putting
\* (rotate-secret.cjs:425, set-alert-channel.cjs:14-15).
OthersArePreserved ==
    [][~tangled /\ env' # env =>
          \E r \in Run : Holds(r) /\ \A k \in Key : env'[k] # env[k] => k \in Own(r)]_secretsVars

\* What served before, and what others have put, outlives every run.
ValuesSurvive == []WayBack /\ OneAtATime /\ OthersArePreserved
=============================================================================
