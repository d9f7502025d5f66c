-------------------------------- MODULE Keyring --------------------------------
(***************************************************************************)
(* The operator's keyring and the scripts over it: server/scripts/         *)
(* secret-store.cjs, secret-store-cli.cjs (set, delete) and                *)
(* keyring-backup.cjs (backup, restore).                                   *)
(*                                                                         *)
(* A script reads and writes one entry at a time by running secret-tool.   *)
(* The keyring may be locked, another script may write, and the script may *)
(* be killed between any two of these.                                     *)
(***************************************************************************)
EXTENDS Integers, FiniteSets

CONSTANTS
    Accounts,   \* bound: how many BUNDLE_ACCOUNTS, taken in order
    Secret,     \* values
    ByteLength, \* Buffer.byteLength of each
    Job,        \* runs of keyring-backup
    None,       \* no value ("not-found"), no bundle
    Unreadable, \* no answer ("keyring-unavailable")
    Torn        \* a bundle written in part

ASSUME KeyringAssumption ==
    Accounts \in Nat \ {0} /\ ByteLength \in [Secret -> Nat] /\ {None, Unreadable} \intersect Secret = {}

VARIABLES
    ring,       \* the entries of the keyring
    locked,     \* whether it is
    bundle,     \* the bundle file: entries
    job         \* each run: what it does, how far it is, what it holds

keyringVars == <<ring, locked, bundle, job>>

Account == 1..Accounts
Entries == [Account -> Secret \union {None}]
Names(e) == {a \in Account : e[a] # None}

ASSUME BundleAssumption == None \notin Entries /\ Torn \notin Entries

\* lax: --allow-missing or --force.  next: the account it comes to.  tmp: the file beside
\* the bundle.  wrote: history, the entries it has written.  alone: history, whether
\* nobody else has written to the keyring since it began.
Idle == [does |-> "nothing", lax |-> FALSE, at |-> "idle", next |-> 1, holds |-> [a \in Account |-> None],
         bad |-> FALSE, tmp |-> None, wrote |-> {}, alone |-> TRUE]

KeyringTypeOK ==
    /\ ring \in Entries /\ locked \in BOOLEAN
    /\ bundle \in Entries \union {None, Torn}
    /\ \A j \in Job :
          /\ job[j].does \in {"nothing", "backup", "restore"}
          /\ job[j].at \in {"idle", "reading", "writing", "checking", "storing", "proving",
                            "done", "refused", "failed"}
          /\ job[j].next \in 1..(Accounts + 1) /\ job[j].holds \in Entries
          /\ job[j].tmp \in Entries \union {None, Torn}
          /\ job[j].wrote \subseteq Account
          /\ {job[j].lax, job[j].bad, job[j].alone} \subseteq BOOLEAN

KeyringInit ==
    /\ ring = [a \in Account |-> None] /\ locked = FALSE
    /\ bundle = None
    /\ job = [j \in Job |-> Idle]

-----------------------------------------------------------------------------

\* classifyLookup: a locked keyring is not a missing entry.
Lookup(a) == IF locked THEN Unreadable ELSE ring[a]

\* The runs that are written past: all but those of some.
WrittenPast(some) == [i \in Job |-> IF i \in some \/ job[i].at \in {"idle", "failed"} THEN job[i]
                                     ELSE [job[i] EXCEPT !.alone = FALSE]]

\* secret-store-cli set and delete, or another script.
Stores(a, v) ==
    /\ ~locked /\ v # ring[a]
    /\ ring' = [ring EXCEPT ![a] = v]
    /\ job' = WrittenPast({})
    /\ UNCHANGED <<locked, bundle>>

Locks ==
    /\ locked' = ~locked /\ UNCHANGED <<ring, bundle, job>>

Begins(j, does, lax) ==
    /\ job[j].at = "idle"
    /\ job' = [job EXCEPT ![j] = [@ EXCEPT !.does = does, !.lax = lax,
                                           !.at = IF does = "backup" THEN "reading" ELSE "checking",
                                           !.holds = IF does = "restore" THEN bundle ELSE job[j].holds]]
    \* readEnvelope, openBundle, validatePayload
    /\ does = "restore" => bundle \notin {None, Torn} /\ Names(bundle) # {}
    /\ UNCHANGED <<ring, locked, bundle>>

Now(j, at) == job[j].at = at /\ job[j].next <= Accounts
Past(j, at) == job[j].at = at /\ job[j].next > Accounts
Goes(j, at) == job' = [job EXCEPT ![j].at = at, ![j].next = 1]
Gone == [Idle EXCEPT !.at = "failed"]

\* A run fails, or is killed: what it has written stays.
Killed(j) ==
    /\ job[j].at \in {"reading", "writing", "checking", "storing", "proving"}
    /\ job' = [job EXCEPT ![j] = Gone] /\ UNCHANGED <<ring, locked, bundle>>

-----------------------------------------------------------------------------
(* backup *)

Gathers(j) ==
    /\ Now(j, "reading")
    /\ LET a == job[j].next
           found == Lookup(a)
       IN job' = [job EXCEPT ![j] =
                    IF found = Unreadable THEN Gone
                    ELSE [@ EXCEPT !.next = a + 1, !.holds[a] = found]]
    /\ UNCHANGED <<ring, locked, bundle>>

Seals(j) ==
    /\ Past(j, "reading")
    /\ Goes(j, IF Names(job[j].holds) = Account \/ job[j].lax THEN "writing" ELSE "refused")
    /\ UNCHANGED <<ring, locked, bundle>>

\* writeBundleAtomically: a file of its own first ...
Writes(j) ==
    /\ job[j].at = "writing" /\ job[j].tmp # job[j].holds
    /\ job' = [job EXCEPT ![j].tmp = IF @ = None THEN Torn ELSE job[j].holds]
    /\ UNCHANGED <<ring, locked, bundle>>

\* ... and then in the bundle's place.
Renames(j) ==
    /\ job[j].at = "writing" /\ job[j].tmp = job[j].holds
    /\ bundle' = job[j].tmp
    /\ Goes(j, "done")
    /\ UNCHANGED <<ring, locked>>

-----------------------------------------------------------------------------
(* restore *)

Skips(j, at) ==
    /\ Now(j, at) /\ job[j].holds[job[j].next] = None
    /\ job' = [job EXCEPT ![j].next = @ + 1]
    /\ UNCHANGED <<ring, locked, bundle>>

\* Mutant: each entry is checked when its turn comes.
ChecksInTurn(j) ==
    /\ Now(j, "checking") /\ job[j].holds[job[j].next] # None
    /\ LET a == job[j].next
       IN IF ~locked /\ (ring[a] = None \/ job[j].lax)
          THEN /\ ring' = [ring EXCEPT ![a] = job[j].holds[a]]
               /\ job' = [WrittenPast({j}) EXCEPT ![j] = [@ EXCEPT !.wrote = @ \union {a}, !.next = a + 1]]
          ELSE job' = [job EXCEPT ![j] = IF locked THEN Gone ELSE [@ EXCEPT !.at = "refused"]] /\ ring' = ring
    /\ UNCHANGED <<locked, bundle>>

\* Which of the bundle's entries are already there.
Checks(j) ==
    /\ Now(j, "checking") /\ job[j].holds[job[j].next] # None
    /\ LET found == Lookup(job[j].next)
       IN job' = [job EXCEPT ![j] =
                    IF found = Unreadable THEN Gone
                    ELSE [@ EXCEPT !.next = job[j].next + 1, !.bad = IF found # None THEN TRUE ELSE job[j].bad]]
    /\ UNCHANGED <<ring, locked, bundle>>

Decides(j) ==
    /\ Past(j, "checking")
    /\ job' = [job EXCEPT ![j] = [@ EXCEPT !.at = IF job[j].bad /\ ~job[j].lax THEN "refused" ELSE "storing",
                                           !.next = 1, !.bad = FALSE]]
    /\ UNCHANGED <<ring, locked, bundle>>

\* writeSecret.  secret-tool may say it has stored what it has not.
Restores(j) ==
    /\ Now(j, "storing") /\ job[j].holds[job[j].next] # None
    /\ LET a == job[j].next
       IN IF locked
          THEN job' = [job EXCEPT ![j] = Gone] /\ ring' = ring
          ELSE \/ /\ ring' = [ring EXCEPT ![a] = job[j].holds[a]]
                  /\ job' = [WrittenPast({j}) EXCEPT ![j] =
                               [job[j] EXCEPT !.wrote = job[j].wrote \union {a}, !.next = a + 1]]
               \/ /\ ring' = ring
                  /\ job' = [job EXCEPT ![j].next = a + 1]
    /\ UNCHANGED <<locked, bundle>>

Stored(j) == Past(j, "storing") /\ Goes(j, "proving") /\ UNCHANGED <<ring, locked, bundle>>

\* The read-back, which compares lengths.
ReadsEntry(j) ==
    /\ Now(j, "proving") /\ job[j].holds[job[j].next] # None
    /\ LET a == job[j].next
           landed == Lookup(a)
       IN job' = [job EXCEPT ![j] =
                    [@ EXCEPT !.next = a + 1,
                              !.bad = IF \/ landed \in {Unreadable, None}
                                         \/ ByteLength[landed] # ByteLength[job[j].holds[a]]
                                      THEN TRUE ELSE job[j].bad]]
    /\ UNCHANGED <<ring, locked, bundle>>

Proved(j) ==
    /\ Past(j, "proving")
    /\ job' = [job EXCEPT ![j] = IF @.bad THEN Gone ELSE [@ EXCEPT !.at = "done", !.next = 1]]
    /\ UNCHANGED <<ring, locked, bundle>>

KeyringNext ==
    \/ \E a \in Account, v \in Secret \union {None} : Stores(a, v)
    \/ Locks
    \/ \E j \in Job :
          \/ \E does \in {"backup", "restore"}, lax \in BOOLEAN : Begins(j, does, lax)
          \/ Gathers(j) \/ Seals(j) \/ Writes(j) \/ Renames(j)
          \/ \E at \in {"checking", "storing", "proving"} : Skips(j, at)
          \/ Checks(j) \/ Decides(j) \/ Restores(j) \/ Stored(j) \/ ReadsEntry(j) \/ Proved(j)
          \/ Killed(j)

KeyringSpec == KeyringInit /\ [][KeyringNext]_keyringVars

-----------------------------------------------------------------------------

\* "an interrupted run cannot destroy a good one" (keyring-backup.cjs:450): once there is
\* a bundle there always is one, and it is whole.
BundleIsWhole ==
    [][bundle # None => bundle' \notin {None, Torn}]_keyringVars

\* A backup has all there is.  A locked keyring is not taken for an empty one, even with
\* --allow-missing, "the wrong remedy for the actual fault" (secret-store.cjs:167-176).
NothingIsOmitted ==
    \A j \in Job : job[j].does = "backup" /\ job[j].at = "done" /\ job[j].alone => job[j].holds = ring

\* "Exit codes: 2 refused (nothing written)" (keyring-backup.cjs:66, 573-577): what is
\* already there is found before the first entry is written.
RefusedWroteNothing ==
    \A j \in Job : job[j].at = "refused" => job[j].wrote = {}

\* "A restore that does not prove it landed ... reports success on a write that silently
\* did nothing" (keyring-backup.cjs:606-607): every entry is there, and as long as the
\* bundle's, if nobody else has written.
RestoredIsThere ==
    \A j \in Job : job[j].does = "restore" /\ job[j].at = "done" /\ job[j].alone =>
        \A a \in Names(job[j].holds) : ring[a] # None /\ ByteLength[ring[a]] = ByteLength[job[j].holds[a]]

\* Without --force a restore replaces no entry (keyring-backup.cjs:591-599), if nobody
\* else has written since it began.
NothingIsReplaced ==
    [][\A j \in Job : job[j].does = "restore" /\ ~job[j].lax /\ job[j].alone /\ job'[j].alone =>
          \A a \in Account : ring[a] # ring'[a] => ring[a] = None]_keyringVars

\* A script's exit code tells the truth of what it did (keyring-backup.cjs:66, 573-577,
\* 606-607; secret-store.cjs:167-176).
OutcomeIsTrue == NothingIsOmitted /\ RefusedWroteNothing /\ RestoredIsThere
=============================================================================
