---------------------------- MODULE OperationsProofs ----------------------------
(***************************************************************************)
(* Proofs about the operator's scripts and the gateway phone, for every set *)
(* of secrets, targets, entries, phones and numbers and for every bound:   *)
(* Keyring (backup and restore), Secrets (rotation and rollback), Fleet    *)
(* (enrolment and numbers), PhoneService (its starts, its legacy entries). *)
(***************************************************************************)
EXTENDS Secrets, Keyring, Fleet, PhoneService, FiniteSetTheorems, TLAPS

-----------------------------------------------------------------------------
(* Keyring: backup and restore. *)

\* A run as a record.
RingRun ==
    [does : {"nothing", "backup", "restore"}, lax : BOOLEAN,
     at : {"idle", "reading", "writing", "checking", "storing", "proving", "done", "refused", "failed"},
     next : 1..(Accounts + 1), holds : Entries, bad : BOOLEAN, tmp : Entries \union {None, Torn},
     wrote : SUBSET Account, alone : BOOLEAN]

RunsTyped ==
    /\ ring \in Entries /\ locked \in BOOLEAN
    /\ bundle \in Entries \union {None, Torn}
    /\ job \in [Job -> RingRun]

\* What a run of either kind has done at each of its steps, if nobody else has written.
Gathered(r) ==
    r.does = "backup" /\ r.alone =>
        /\ r.at = "reading" => \A a \in Account : a < r.next => r.holds[a] = ring[a]
        /\ r.at \in {"writing", "done", "refused"} => r.holds = ring
Guarded(r) ==
    r.does = "restore" /\ r.alone /\ ~r.lax =>
        /\ r.at = "checking" /\ ~r.bad =>
              \A a \in Account : a < r.next /\ r.holds[a] # None => ring[a] = None
        /\ r.at = "storing" =>
              \A a \in Account : a >= r.next /\ r.holds[a] # None => ring[a] = None
Proven(r) ==
    r.does = "restore" /\ r.alone =>
        /\ r.at = "proving" /\ ~r.bad =>
              \A a \in Account : a < r.next /\ r.holds[a] # None =>
                 ring[a] # None /\ ByteLength[ring[a]] = ByteLength[r.holds[a]]
        /\ r.at = "done" =>
              \A a \in Account : r.holds[a] # None =>
                 ring[a] # None /\ ByteLength[ring[a]] = ByteLength[r.holds[a]]

\* Which steps belong to which kind of run, and when nothing was written yet.
Shaped(r) ==
    /\ r.at = "idle" => r = Idle
    /\ r.at = "failed" => r.does = "nothing"
    /\ r.at \in {"reading", "writing"} => r.does = "backup"
    /\ r.at \in {"checking", "storing", "proving"} => r.does = "restore"
    /\ r.at \in {"reading", "writing", "checking", "refused"} => r.wrote = {}

Good(r) == Shaped(r) /\ Gathered(r) /\ Guarded(r) /\ Proven(r)

KeyringInv == RunsTyped /\ \A j \in Job : Good(job[j])

LEMMA IdleIsRun == Idle \in RingRun /\ Gone \in RingRun
<1>1. [a \in Account |-> None] \in Entries
  BY DEF Entries
<1>2. 1 \in 1..(Accounts + 1)
  BY KeyringAssumption
<1>3. Idle \in RingRun
  BY <1>1, <1>2 DEF Idle, RingRun
<1>4. [Idle EXCEPT !.at = "failed"] \in RingRun
  BY <1>3 DEF RingRun
<1> QED
  BY <1>3, <1>4 DEF Gone

\* A run that goes on stays a run.
LEMMA Fields ==
    ASSUME NEW r \in RingRun, NEW n \in 1..(Accounts + 1), NEW b \in BOOLEAN,
           NEW at \in {"idle", "reading", "writing", "checking", "storing", "proving", "done", "refused", "failed"}
    PROVE  /\ [r EXCEPT !.next = n] \in RingRun
           /\ [r EXCEPT !.next = n, !.bad = b] \in RingRun
           /\ [r EXCEPT !.at = at, !.next = n] \in RingRun
           /\ [r EXCEPT !.at = at, !.next = n, !.bad = b] \in RingRun
BY DEF RingRun

LEMMA Places ==
    /\ 1 \in 1..(Accounts + 1)
    /\ \A r \in RingRun : r.next <= Accounts => r.next \in Account /\ r.next + 1 \in 1..(Accounts + 1)
BY KeyringAssumption DEF RingRun, Account

\* A run that others have written past keeps everything but the claim to be alone.
LEMMA PastIsRun ==
    ASSUME NEW r \in RingRun
    PROVE  [r EXCEPT !.alone = FALSE] \in RingRun
BY DEF RingRun

\* Runs that were written past, and so are no longer alone, stay typed.
LEMMA WrittenPastType ==
    ASSUME RunsTyped, NEW some
    PROVE  WrittenPast(some) \in [Job -> RingRun]
BY PastIsRun DEF RunsTyped, WrittenPast

LEMMA RunsStayTyped ==
    ASSUME RunsTyped, [KeyringNext]_keyringVars
    PROVE  RunsTyped'
<1> USE DEF RunsTyped
<1>1. ASSUME NEW a \in Account, NEW v \in Secret \union {None}, Stores(a, v) PROVE RunsTyped'
  BY <1>1, WrittenPastType DEF Stores, Entries
<1>2. CASE Locks
  BY <1>2 DEF Locks
<1>3. ASSUME NEW j \in Job, NEW does \in {"backup", "restore"}, NEW lax \in BOOLEAN, Begins(j, does, lax)
      PROVE  RunsTyped'
  <2> DEFINE at == IF does = "backup" THEN "reading" ELSE "checking"
             holds == IF does = "restore" THEN bundle ELSE job[j].holds
  <2>1. job' = [job EXCEPT ![j] = [job[j] EXCEPT !.does = does, !.lax = lax, !.at = at, !.holds = holds]]
    BY <1>3 DEF Begins
  <2>2. holds \in Entries
    BY <1>3 DEF Begins, RingRun
  <2>3. [job[j] EXCEPT !.does = does, !.lax = lax, !.at = at, !.holds = holds] \in RingRun
    BY <2>2 DEF RingRun
  <2> QED
    BY <1>3, <2>1, <2>3 DEF Begins
<1>4. ASSUME NEW j \in Job, Killed(j) PROVE RunsTyped'
  BY <1>4, IdleIsRun DEF Killed
<1>5. ASSUME NEW j \in Job, Gathers(j) PROVE RunsTyped'
  <2>1. job[j].next \in Account /\ job[j].next + 1 \in 1..(Accounts + 1)
    BY <1>5, KeyringAssumption DEF Gathers, Now, RingRun, Account
  <2>2. Lookup(job[j].next) # Unreadable => Lookup(job[j].next) \in Secret \union {None}
    BY <2>1 DEF Lookup, Entries
  <2>3. \A a \in Account, v \in Secret \union {None}, n \in 1..(Accounts + 1) :
           [job[j] EXCEPT !.next = n, !.holds[a] = v] \in RingRun
    BY DEF RingRun, Entries
  <2> QED
    BY <1>5, <2>1, <2>2, <2>3, IdleIsRun DEF Gathers
<1>6. ASSUME NEW j \in Job, Seals(j) \/ Writes(j) \/ Renames(j) PROVE RunsTyped'
  <2>1. CASE Seals(j)
    BY <2>1, Fields, Places DEF Seals, Goes
  <2>2. CASE Writes(j)
    <3>1. \A t \in Entries \union {None, Torn} : [job[j] EXCEPT !.tmp = t] \in RingRun
      BY DEF RingRun
    <3>2. job[j].holds \in Entries
      BY DEF RingRun
    <3> QED
      BY <2>2, <3>1, <3>2 DEF Writes
  <2>3. CASE Renames(j)
    <3>1. [job[j] EXCEPT !.at = "done", !.next = 1] \in RingRun /\ job[j].tmp \in Entries \union {None, Torn}
      <4>1. job[j] \in RingRun
        OBVIOUS
      <4>2. [job[j] EXCEPT !.at = "done", !.next = 1] \in RingRun
        BY <4>1, Fields, Places
      <4> QED
        BY <4>1, <4>2 DEF RingRun
    <3> QED
      BY <2>3, <3>1 DEF Renames, Goes
  <2> QED
    BY <1>6, <2>1, <2>2, <2>3
<1>7. ASSUME NEW j \in Job, NEW at \in {"checking", "storing", "proving"}, Skips(j, at) PROVE RunsTyped'
  BY <1>7, Fields, Places DEF Skips, Now
<1>8. ASSUME NEW j \in Job, Checks(j) PROVE RunsTyped'
  <2> DEFINE a == job[j].next
             bad == IF Lookup(a) # None THEN TRUE ELSE job[j].bad
  <2>1. bad \in BOOLEAN
    BY DEF RingRun
  <2>2. job' = [job EXCEPT ![j] = IF Lookup(a) = Unreadable THEN Gone
                                  ELSE [job[j] EXCEPT !.next = a + 1, !.bad = bad]]
    BY <1>8 DEF Checks
  <2>3. a + 1 \in 1..(Accounts + 1)
    BY <1>8, Places DEF Checks, Now
  <2> HIDE DEF bad
  <2>4. [job[j] EXCEPT !.next = a + 1, !.bad = bad] \in RingRun
    BY <2>1, <2>3, Fields
  <2> QED
    BY <1>8, <2>2, <2>4, IdleIsRun DEF Checks
<1>9. ASSUME NEW j \in Job, Decides(j) PROVE RunsTyped'
  BY <1>9, Fields, Places DEF Decides
<1>10. ASSUME NEW j \in Job, Restores(j) PROVE RunsTyped'
  <2>1. job[j].next \in Account /\ job[j].next + 1 \in 1..(Accounts + 1)
    BY <1>10, KeyringAssumption DEF Restores, Now, RingRun, Account
  <2>2. \A w \in SUBSET Account, n \in 1..(Accounts + 1), r \in RingRun : [r EXCEPT !.wrote = w, !.next = n] \in RingRun
    BY DEF RingRun
  <2>3. \A n \in 1..(Accounts + 1), r \in RingRun : [r EXCEPT !.next = n] \in RingRun
    BY DEF RingRun
  <2>4. WrittenPast({j})[j] = job[j]
    BY DEF WrittenPast
  <2>5. job[j].holds[job[j].next] \in Secret \union {None} /\ job[j].wrote \in SUBSET Account
    BY <2>1 DEF RingRun, Entries
  <2> DEFINE a == job[j].next
  <2>6. CASE job' = [job EXCEPT ![j] = Gone] /\ ring' = ring
    BY <1>10, <2>6, IdleIsRun DEF Restores
  <2>7. CASE /\ ring' = [ring EXCEPT ![a] = job[j].holds[a]]
             /\ job' = [WrittenPast({j}) EXCEPT ![j] =
                          [job[j] EXCEPT !.wrote = job[j].wrote \union {a}, !.next = a + 1]]
    <3>1. [job[j] EXCEPT !.wrote = job[j].wrote \union {a}, !.next = a + 1] \in RingRun
      BY <2>1, <2>2, <2>5
    <3>2. job' = [WrittenPast({j}) EXCEPT ![j] = [job[j] EXCEPT !.wrote = job[j].wrote \union {a}, !.next = a + 1]]
      BY <2>4, <2>7
    <3>3. job' \in [Job -> RingRun] /\ ring' \in Entries
      BY <2>1, <2>5, <2>7, <3>1, <3>2, WrittenPastType DEF Entries
    <3> QED
      BY <1>10, <3>3 DEF Restores
  <2>8. CASE ring' = ring /\ job' = [job EXCEPT ![j].next = a + 1]
    <3>1. job' = [job EXCEPT ![j] = [job[j] EXCEPT !.next = a + 1]]
      BY <2>8
    <3> QED
      BY <1>10, <2>1, <2>3, <2>8, <3>1 DEF Restores
  <2> QED
    BY <1>10, <2>6, <2>7, <2>8 DEF Restores
<1>11. ASSUME NEW j \in Job, Stored(j) PROVE RunsTyped'
  BY <1>11, Fields, Places DEF Stored, Goes
<1>12. ASSUME NEW j \in Job, ReadsEntry(j) PROVE RunsTyped'
  <2> DEFINE a == job[j].next
             bad == IF \/ Lookup(a) \in {Unreadable, None}
                       \/ ByteLength[Lookup(a)] # ByteLength[job[j].holds[a]]
                    THEN TRUE ELSE job[j].bad
  <2>1. bad \in BOOLEAN
    BY DEF RingRun
  <2>2. job' = [job EXCEPT ![j] = [job[j] EXCEPT !.next = a + 1, !.bad = bad]]
    BY <1>12 DEF ReadsEntry
  <2>3. a + 1 \in 1..(Accounts + 1)
    BY <1>12, Places DEF ReadsEntry, Now
  <2> HIDE DEF bad
  <2>4. [job[j] EXCEPT !.next = a + 1, !.bad = bad] \in RingRun
    BY <2>1, <2>3, Fields
  <2> QED
    BY <1>12, <2>2, <2>4 DEF ReadsEntry
<1>13. ASSUME NEW j \in Job, Proved(j) PROVE RunsTyped'
  BY <1>13, Fields, Places, IdleIsRun DEF Proved
<1>14. CASE UNCHANGED keyringVars
  BY <1>14 DEF keyringVars
<1> QED
  BY <1>1, <1>2, <1>3, <1>4, <1>5, <1>6, <1>7, <1>8, <1>9, <1>10, <1>11, <1>12, <1>13, <1>14 DEF KeyringNext

-----------------------------------------------------------------------------

\* A run that has gone claims nothing.
LEMMA GoneIsGood == Good(Gone) /\ Good(Gone)'
BY DEF Gone, Idle, Good, Shaped, Gathered, Guarded, Proven

\* A step of one run that leaves the keyring as it is.
LEMMA OwnStep ==
    ASSUME KeyringInv, RunsTyped', ring' = ring, NEW j \in Job, NEW r,
           job' = [job EXCEPT ![j] = r], Good(r)
    PROVE  KeyringInv'
BY DEF KeyringInv, RunsTyped, Good, Shaped, Gathered, Guarded, Proven

\* A run that is written past is as good as before: it claims nothing any more.
LEMMA PastIsGood ==
    ASSUME KeyringInv, NEW some, NEW j \in Job, j \notin some
    PROVE  /\ Good(WrittenPast(some)[j])
           /\ WrittenPast(some)[j].at \notin {"idle", "failed"} => ~WrittenPast(some)[j].alone
<1>1. job[j] \in RingRun /\ Good(job[j])
  BY DEF KeyringInv, RunsTyped
<1>2. CASE job[j].at \in {"idle", "failed"}
  BY <1>1, <1>2 DEF WrittenPast
<1>3. CASE job[j].at \notin {"idle", "failed"}
  <2>1. WrittenPast(some)[j] = [job[j] EXCEPT !.alone = FALSE]
    BY <1>3 DEF WrittenPast
  <2> QED
    BY <1>1, <1>3, <2>1 DEF RingRun, Good, Shaped, Gathered, Guarded, Proven
<1> QED
  BY <1>2, <1>3

\* A run that claims nothing of the keyring is good whatever is written there.
LEMMA ClaimsNothing ==
    ASSUME NEW r, Shaped(r), r.at \in {"idle", "failed"} \/ ~r.alone
    PROVE  Good(r)'
BY DEF Good, Shaped, Gathered, Guarded, Proven

\* A run that was written past claims nothing of what it does not write itself.
LEMMA Written ==
    ASSUME KeyringInv, RunsTyped', NEW some, NEW j \in Job, j \notin some, job'[j] = WrittenPast(some)[j]
    PROVE  Good(job[j])'
<1>1. Shaped(WrittenPast(some)[j])
  BY PastIsGood DEF Good
<1>2. WrittenPast(some)[j].at \in {"idle", "failed"} \/ ~WrittenPast(some)[j].alone
  BY PastIsGood
<1> DEFINE r == WrittenPast(some)[j]
<1>3. Shaped(job'[j]) /\ (job'[j].at \in {"idle", "failed"} \/ ~job'[j].alone)
  BY <1>1, <1>2
<1> QED
  BY <1>3 DEF Good, Shaped, Gathered, Guarded, Proven

LEMMA KeyringStays ==
    ASSUME KeyringInv, [KeyringNext]_keyringVars
    PROVE  KeyringInv'
<1>0. RunsTyped /\ RunsTyped' /\ \A j \in Job : Good(job[j]) /\ job[j] \in RingRun
  BY RunsStayTyped DEF KeyringInv, RunsTyped
<1>1. ASSUME NEW a \in Account, NEW v \in Secret \union {None}, Stores(a, v) PROVE KeyringInv'
  <2>1. \A j \in Job : job'[j] = WrittenPast({})[j]
    BY <1>1 DEF Stores
  <2> QED
    BY <1>0, <2>1, Written DEF KeyringInv
<1>2. CASE ring' = ring /\ job' = job
  BY <1>0, <1>2 DEF KeyringInv, Good, Shaped, Gathered, Guarded, Proven
<1>3. ASSUME NEW j \in Job, NEW does \in {"backup", "restore"}, NEW lax \in BOOLEAN, Begins(j, does, lax)
      PROVE  KeyringInv'
  <2> DEFINE at == IF does = "backup" THEN "reading" ELSE "checking"
             holds == IF does = "restore" THEN bundle ELSE job[j].holds
             r == [job[j] EXCEPT !.does = does, !.lax = lax, !.at = at, !.holds = holds]
  <2>1. job' = [job EXCEPT ![j] = r] /\ ring' = ring
    BY <1>3 DEF Begins
  <2>2. job[j] = Idle
    BY <1>0, <1>3 DEF Begins, Good, Shaped
  <2>3. Good(r)
    BY <1>0, <2>2 DEF Idle, Good, Shaped, Gathered, Guarded, Proven, Account
  <2> QED
    BY <1>0, <2>1, <2>3, OwnStep
<1>4. ASSUME NEW j \in Job, ring' = ring, job' = [job EXCEPT ![j] = Gone] PROVE KeyringInv'
  BY <1>0, <1>4, GoneIsGood, OwnStep
<1>5. ASSUME NEW j \in Job, Gathers(j) PROVE KeyringInv'
  <2> DEFINE a == job[j].next
             r == [job[j] EXCEPT !.next = a + 1, !.holds[a] = Lookup(a)]
  <2>1. CASE Lookup(a) = Unreadable
    BY <1>4, <1>5, <2>1 DEF Gathers
  <2>2. CASE Lookup(a) # Unreadable
    <3>1. job' = [job EXCEPT ![j] = r] /\ ring' = ring /\ a \in Account /\ job[j].at = "reading"
      BY <1>0, <1>5, <2>2, Places DEF Gathers, Now
    <3>2. /\ r.at = "reading" /\ r.does = job[j].does /\ r.wrote = job[j].wrote /\ r.next = a + 1
          /\ r.alone = job[j].alone
          /\ r.holds = [job[j].holds EXCEPT ![a] = ring[a]]
      BY <1>0, <2>2, <3>1 DEF RingRun, Lookup
    <3> HIDE DEF r
    <3>3. job[j].alone => \A b \in Account : b < a + 1 => r.holds[b] = ring[b]
      <4>1. job[j].holds \in Entries /\ a \in 1..(Accounts + 1)
        BY <1>0 DEF RingRun
      <4>2. job[j].alone => \A b \in Account : b < a => job[j].holds[b] = ring[b]
        BY <1>0, <3>1 DEF Good, Shaped, Gathered
      <4> QED
        BY <3>1, <3>2, <4>1, <4>2, KeyringAssumption DEF Entries, Account
    <3>4. Good(r)
      BY <1>0, <3>1, <3>2, <3>3 DEF Good, Shaped, Gathered, Guarded, Proven
    <3> QED
      BY <1>0, <3>1, <3>4, OwnStep
  <2> QED
    BY <2>1, <2>2
<1>6. ASSUME NEW j \in Job, Seals(j) PROVE KeyringInv'
  <2> DEFINE at == IF Names(job[j].holds) = Account \/ job[j].lax THEN "writing" ELSE "refused"
             r == [job[j] EXCEPT !.at = at, !.next = 1]
  <2>1. job' = [job EXCEPT ![j] = r] /\ ring' = ring /\ job[j].at = "reading" /\ job[j].next > Accounts
    BY <1>6 DEF Seals, Goes, Past
  <2>2. r.at \in {"writing", "refused"} /\ r.does = job[j].does /\ r.wrote = job[j].wrote
        /\ r.holds = job[j].holds /\ r.alone = job[j].alone
    BY <1>0 DEF RingRun
  <2>3. job[j].does = "backup" /\ job[j].alone => job[j].holds = ring
    <3> SUFFICES ASSUME job[j].does = "backup", job[j].alone PROVE job[j].holds = ring
      OBVIOUS
    <3>1. \A a \in Account : job[j].holds[a] = ring[a]
      BY <1>0, <2>1, KeyringAssumption DEF Good, Gathered, Account, RingRun
    <3> QED
      BY <1>0, <3>1 DEF RunsTyped, RingRun, Entries
  <2> HIDE DEF r
  <2>4. Good(r)
    BY <1>0, <2>1, <2>2, <2>3 DEF Good, Shaped, Gathered, Guarded, Proven
  <2> QED
    BY <1>0, <2>1, <2>4, OwnStep
<1>7. ASSUME NEW j \in Job, Writes(j) PROVE KeyringInv'
  <2> DEFINE tmp == IF job[j].tmp = None THEN Torn ELSE job[j].holds
             r == [job[j] EXCEPT !.tmp = tmp]
  <2>1. job' = [job EXCEPT ![j] = r] /\ ring' = ring
    BY <1>7 DEF Writes
  <2>2. Good(r)
    BY <1>0, <1>7 DEF Writes, RingRun, Good, Shaped, Gathered, Guarded, Proven
  <2> QED
    BY <1>0, <2>1, <2>2, OwnStep
<1>8. ASSUME NEW j \in Job, Renames(j) PROVE KeyringInv'
  <2> DEFINE r == [job[j] EXCEPT !.at = "done", !.next = 1]
  <2>1. job' = [job EXCEPT ![j] = r] /\ ring' = ring
    BY <1>8 DEF Renames, Goes
  <2>2. Good(r)
    BY <1>0, <1>8 DEF Renames, RingRun, Good, Shaped, Gathered, Guarded, Proven
  <2> QED
    BY <1>0, <2>1, <2>2, OwnStep
<1>9. ASSUME NEW j \in Job, NEW at \in {"checking", "storing", "proving"}, Skips(j, at) PROVE KeyringInv'
  <2> DEFINE r == [job[j] EXCEPT !.next = job[j].next + 1]
  <2>1. job' = [job EXCEPT ![j] = r] /\ ring' = ring
    BY <1>9 DEF Skips
  <2>2. job[j].at = at /\ job[j].holds[job[j].next] = None /\ job[j].does = "restore"
    BY <1>0, <1>9 DEF Skips, Now, Good, Shaped
  <2>3. Good(r)
    BY <1>0, <2>2 DEF RingRun, Good, Shaped, Gathered, Guarded, Proven, Account
  <2> QED
    BY <1>0, <2>1, <2>3, OwnStep
<1>10. ASSUME NEW j \in Job, Checks(j) PROVE KeyringInv'
  <2> DEFINE a == job[j].next
             bad == IF Lookup(a) # None THEN TRUE ELSE job[j].bad
             r == [job[j] EXCEPT !.next = a + 1, !.bad = bad]
  <2>1. CASE Lookup(a) = Unreadable
    BY <1>4, <1>10, <2>1 DEF Checks
  <2>2. CASE Lookup(a) # Unreadable
    <3>1. job' = [job EXCEPT ![j] = r] /\ ring' = ring /\ job[j].at = "checking"
      BY <1>10, <2>2 DEF Checks, Now
    <3>2. ~bad => ~job[j].bad /\ ring[a] = None
      BY <2>2 DEF Lookup
    <3>3. r.at = "checking" /\ r.does = job[j].does /\ r.lax = job[j].lax /\ r.wrote = job[j].wrote
          /\ r.next = a + 1 /\ (r.bad <=> bad) /\ r.holds = job[j].holds /\ r.alone = job[j].alone
      BY <1>0, <3>1 DEF RingRun
    <3> HIDE DEF bad, r
    <3>4. Good(r)
      BY <1>0, <3>1, <3>2, <3>3 DEF RingRun, Good, Shaped, Gathered, Guarded, Proven, Account
    <3> QED
      BY <1>0, <3>1, <3>4, OwnStep
  <2> QED
    BY <2>1, <2>2
<1>11. ASSUME NEW j \in Job, Decides(j) PROVE KeyringInv'
  <2> DEFINE at == IF job[j].bad /\ ~job[j].lax THEN "refused" ELSE "storing"
             r == [job[j] EXCEPT !.at = at, !.next = 1, !.bad = FALSE]
  <2>1. job' = [job EXCEPT ![j] = r] /\ ring' = ring /\ job[j].at = "checking" /\ job[j].next > Accounts
    BY <1>11 DEF Decides, Past
  <2>2. Good(r)
    BY <1>0, <2>1, KeyringAssumption DEF RingRun, Good, Shaped, Gathered, Guarded, Proven, Account
  <2> QED
    BY <1>0, <2>1, <2>2, OwnStep
<1>12. ASSUME NEW j \in Job, Restores(j) PROVE KeyringInv'
  <2> DEFINE a == job[j].next
             r == [job[j] EXCEPT !.wrote = job[j].wrote \union {a}, !.next = a + 1]
             s == [job[j] EXCEPT !.next = a + 1]
  <2>1. job[j].at = "storing" /\ job[j].does = "restore" /\ a \in Account /\ job[j].holds[a] # None
    BY <1>0, <1>12, Places DEF Restores, Now, Good, Shaped
  <2>2. CASE job' = [job EXCEPT ![j] = Gone] /\ ring' = ring
    BY <1>4, <2>2
  <2>3. CASE ring' = [ring EXCEPT ![a] = job[j].holds[a]] /\ job' = [WrittenPast({j}) EXCEPT ![j] = r]
    <3>1. \A i \in Job \ {j} : Good(job[i])'
      <4> TAKE i \in Job \ {j}
      <4>1. job'[i] = WrittenPast({j})[i]
        BY <2>3 DEF WrittenPast
      <4> QED
        BY <1>0, <4>1, Written
    <3>2. job'[j] = r
      BY <2>3 DEF WrittenPast
    <3>3. \A b \in Account : b > a => ring'[b] = ring[b]
      BY <1>0, <2>1, <2>3 DEF RunsTyped, Entries, Account
    <3>4. r.at = "storing" /\ r.does = "restore" /\ r.lax = job[j].lax /\ r.next = a + 1
          /\ r.holds = job[j].holds /\ r.alone = job[j].alone
      BY <1>0, <2>1 DEF RingRun
    <3> HIDE DEF r
    <3>5. Good(job[j])'
      BY <1>0, <2>1, <3>2, <3>3, <3>4 DEF Good, Shaped, Gathered, Guarded, Proven, Account
    <3> QED
      BY <1>0, <3>1, <3>5 DEF KeyringInv
  <2>4. CASE ring' = ring /\ job' = [job EXCEPT ![j].next = a + 1]
    <3>1. job' = [job EXCEPT ![j] = s]
      BY <2>4
    <3>2. s.at = "storing" /\ s.does = "restore" /\ s.lax = job[j].lax /\ s.next = a + 1
          /\ s.holds = job[j].holds /\ s.alone = job[j].alone
      BY <1>0, <2>1 DEF RingRun
    <3> HIDE DEF s
    <3>3. Good(s)
      BY <1>0, <2>1, <3>2 DEF Good, Shaped, Gathered, Guarded, Proven, Account
    <3> QED
      BY <1>0, <2>4, <3>1, <3>3, OwnStep
  <2> QED
    BY <1>12, <2>2, <2>3, <2>4 DEF Restores
<1>13. ASSUME NEW j \in Job, Stored(j) PROVE KeyringInv'
  <2> DEFINE r == [job[j] EXCEPT !.at = "proving", !.next = 1]
  <2>1. job' = [job EXCEPT ![j] = r] /\ ring' = ring /\ job[j].at = "storing"
    BY <1>13 DEF Stored, Goes, Past
  <2>2. Good(r)
    BY <1>0, <2>1 DEF RingRun, Good, Shaped, Gathered, Guarded, Proven, Account
  <2> QED
    BY <1>0, <2>1, <2>2, OwnStep
<1>14. ASSUME NEW j \in Job, ReadsEntry(j) PROVE KeyringInv'
  <2> DEFINE a == job[j].next
             bad == IF \/ Lookup(a) \in {Unreadable, None}
                       \/ ByteLength[Lookup(a)] # ByteLength[job[j].holds[a]]
                    THEN TRUE ELSE job[j].bad
             r == [job[j] EXCEPT !.next = a + 1, !.bad = bad]
  <2>1. job' = [job EXCEPT ![j] = r] /\ ring' = ring /\ job[j].at = "proving"
    BY <1>14 DEF ReadsEntry, Now
  <2>2. ~bad => ~job[j].bad /\ ring[a] # None /\ ByteLength[ring[a]] = ByteLength[job[j].holds[a]]
    BY DEF Lookup
  <2>3. r.at = "proving" /\ r.does = job[j].does /\ r.next = a + 1 /\ (r.bad <=> bad)
        /\ r.holds = job[j].holds /\ r.alone = job[j].alone
    BY <1>0, <2>1 DEF RingRun
  <2> HIDE DEF bad, r
  <2>4. Good(r)
    BY <1>0, <2>1, <2>2, <2>3 DEF RingRun, Good, Shaped, Gathered, Guarded, Proven, Account
  <2> QED
    BY <1>0, <2>1, <2>4, OwnStep
<1>15. ASSUME NEW j \in Job, Proved(j) PROVE KeyringInv'
  <2> DEFINE r == [job[j] EXCEPT !.at = "done", !.next = 1]
  <2>1. CASE job[j].bad
    BY <1>4, <1>15, <2>1 DEF Proved
  <2>2. CASE ~job[j].bad
    <3>1. job' = [job EXCEPT ![j] = r] /\ ring' = ring /\ job[j].at = "proving" /\ job[j].next > Accounts
      BY <1>15, <2>2 DEF Proved, Past
    <3>2. Good(r)
      BY <1>0, <2>2, <3>1, KeyringAssumption DEF RingRun, Good, Shaped, Gathered, Guarded, Proven, Account
    <3> QED
      BY <1>0, <3>1, <3>2, OwnStep
  <2> QED
    BY <2>1, <2>2
<1>16. CASE Locks \/ UNCHANGED keyringVars
  BY <1>2, <1>16 DEF Locks, keyringVars
<1>17. ASSUME NEW j \in Job, Killed(j) PROVE KeyringInv'
  BY <1>4, <1>17 DEF Killed
<1> QED
  BY <1>1, <1>3, <1>5, <1>6, <1>7, <1>8, <1>9, <1>10, <1>11, <1>12, <1>13, <1>14, <1>15, <1>16, <1>17
     DEF KeyringNext

\* What a run has done at each of its steps, while nobody else writes.
LEMMA KeyringInvariant == KeyringSpec => []KeyringInv
<1>1. KeyringInit => KeyringInv
  <2> SUFFICES ASSUME KeyringInit PROVE KeyringInv
    OBVIOUS
  <2>1. RunsTyped
    BY IdleIsRun DEF KeyringInit, RunsTyped, Entries
  <2>2. Good(Idle)
    BY DEF Idle, Good, Shaped, Gathered, Guarded, Proven
  <2> QED
    BY <2>1, <2>2 DEF KeyringInit, KeyringInv
<1>2. KeyringInv /\ [KeyringNext]_keyringVars => KeyringInv'
  BY KeyringStays
<1> QED
  BY <1>1, <1>2, PTL DEF KeyringSpec

\* "Exit codes: 2 refused (nothing written)" (keyring-backup.cjs:66, 573-577).
THEOREM RefusalIsClean == KeyringSpec => []RefusedWroteNothing
<1>1. KeyringInv => RefusedWroteNothing
  BY DEF KeyringInv, Good, Shaped, RefusedWroteNothing
<1> QED
  BY <1>1, KeyringInvariant, PTL

\* A backup has all there is (secret-store.cjs:167-176).
THEOREM BackupIsAll == KeyringSpec => []NothingIsOmitted
<1>1. KeyringInv => NothingIsOmitted
  BY DEF KeyringInv, Good, Gathered, NothingIsOmitted
<1> QED
  BY <1>1, KeyringInvariant, PTL

\* A restore that says so has landed (keyring-backup.cjs:606-607).
THEOREM RestoreLanded == KeyringSpec => []RestoredIsThere
<1>1. KeyringInv => RestoredIsThere
  BY DEF KeyringInv, Good, Proven, RestoredIsThere, Names
<1> QED
  BY <1>1, KeyringInvariant, PTL

\* The bundle is what a run held in full.
LEMMA BundleChanges ==
    ASSUME RunsTyped, [KeyringNext]_keyringVars
    PROVE  bundle' = bundle \/ bundle' \in Entries
<1>1. ASSUME NEW j \in Job, Renames(j) PROVE bundle' \in Entries
  BY <1>1 DEF Renames, RunsTyped, RingRun
<1>2. ASSUME bundle' # bundle PROVE \E j \in Job : Renames(j)
  BY <1>2 DEF KeyringNext, Stores, Locks, Begins, Gathers, Seals, Writes, Skips, Checks, Decides, Restores,
              Stored, ReadsEntry, Proved, Killed, keyringVars
<1> QED
  BY <1>1, <1>2

LEMMA BundleNotTorn == KeyringSpec => [](bundle \in Entries \union {None})
<1>1. KeyringInit => bundle \in Entries \union {None}
  BY DEF KeyringInit
<1>2. KeyringInv /\ bundle \in Entries \union {None} /\ [KeyringNext]_keyringVars
      => (bundle \in Entries \union {None})'
  BY BundleChanges DEF KeyringInv
<1> QED
  BY <1>1, <1>2, KeyringInvariant, PTL DEF KeyringSpec

\* "an interrupted run cannot destroy a good one" (keyring-backup.cjs:450).
THEOREM BundleStaysWhole == KeyringSpec => BundleIsWhole
<1>1. ASSUME KeyringInv, bundle \in Entries \union {None}, [KeyringNext]_keyringVars
      PROVE  [bundle # None => bundle' \notin {None, Torn}]_keyringVars
  BY <1>1, BundleChanges, BundleAssumption DEF KeyringInv
<1> QED
  BY <1>1, KeyringInvariant, BundleNotTorn, PTL DEF KeyringSpec, BundleIsWhole

\* Without --force a restore replaces no entry (keyring-backup.cjs:591-599).
THEOREM RestoreAdds == KeyringSpec => NothingIsReplaced
<1>1. ASSUME KeyringInv, [KeyringNext]_keyringVars
      PROVE  [\A j \in Job : job[j].does = "restore" /\ ~job[j].lax /\ job[j].alone /\ job'[j].alone =>
                 \A a \in Account : ring[a] # ring'[a] => ring[a] = None]_keyringVars
  <2> SUFFICES ASSUME NEW j \in Job, job[j].does = "restore", ~job[j].lax, job[j].alone, job'[j].alone,
                      NEW a \in Account, ring[a] # ring'[a]
               PROVE  ring[a] = None
    OBVIOUS
  <2>1. job[j] \in RingRun /\ Good(job[j]) /\ ring \in Entries
    BY <1>1 DEF KeyringInv, RunsTyped
  <2>2. job[j].at \notin {"idle", "failed"}
    BY <2>1 DEF Good, Shaped, Idle
  <2>3. ASSUME NEW some, j \notin some, job'[j] = WrittenPast(some)[j] PROVE FALSE
    <3>1. WrittenPast(some)[j] = [job[j] EXCEPT !.alone = FALSE]
      BY <2>2, <2>3 DEF WrittenPast
    <3> QED
      BY <2>1, <2>3, <3>1 DEF RingRun
  <2>4. ASSUME NEW b \in Account, NEW v \in Secret \union {None}, Stores(b, v) PROVE FALSE
    BY <2>3, <2>4 DEF Stores
  <2>5. ASSUME NEW i \in Job, Restores(i), i # j PROVE FALSE
    <3> DEFINE r == [job[i] EXCEPT !.wrote = job[i].wrote \union {job[i].next}, !.next = job[i].next + 1]
    <3>1. ring' # ring
      OBVIOUS
    <3>2. job' = [WrittenPast({i}) EXCEPT ![i] = r]
      BY <2>5, <3>1 DEF Restores
    <3>3. job'[j] = WrittenPast({i})[j]
      BY <2>5, <3>2 DEF WrittenPast
    <3> QED
      BY <2>3, <2>5, <3>3
  <2>6. ASSUME Restores(j) PROVE ring[a] = None
    <3>1. job[j].at = "storing" /\ job[j].holds[job[j].next] # None
          /\ ring' = [ring EXCEPT ![job[j].next] = job[j].holds[job[j].next]]
      BY <2>6 DEF Restores, Now
    <3>2. a = job[j].next
      BY <2>1, <3>1 DEF Entries
    <3> QED
      BY <2>1, <3>1, <3>2 DEF Good, Guarded, Account
  <2>7. ring' # ring
    OBVIOUS
  <2> QED
    BY <1>1, <2>4, <2>5, <2>6, <2>7 DEF KeyringNext, Locks, Begins, Gathers, Seals, Writes, Renames, Skips,
       Checks, Decides, Stored, ReadsEntry, Proved, Killed, keyringVars
<1> QED
  BY <1>1, KeyringInvariant, PTL DEF KeyringSpec, NothingIsReplaced

\* What the scripts say of themselves, together.
THEOREM OutcomesHold == KeyringSpec => []OutcomeIsTrue
BY RefusalIsClean, BackupIsAll, RestoreLanded, PTL DEF OutcomeIsTrue

-----------------------------------------------------------------------------
(* Secrets: rotation, rollback and the alert channel. *)

\* A run of a script as a record.
Steps == {"unused", "asking", "read", "putting", "put", "deploying", "live", "proving", "old", "new",
          "verified", "nothing", "done", "failed"}
Values == [Target -> Value]
Script == [at : Steps, job : {"rotate", "rollback", "channel", Absent}, name : Target \union {Absent},
           copy : [Key -> Value] \union {Absent}, want : Values \union {Absent},
           gone : Values \union {Absent}, left : SUBSET Target]

Loaded == deploy # Absent /\ deploy.env # Absent

ScriptsTyped ==
    /\ env \in [Key -> Value] /\ service \in Values /\ origin \in Values
    /\ receiver \in [Synced -> Value] /\ snapshot \in Values \union {Absent}
    /\ deploy = Absent \/ (DOMAIN deploy = {"by", "env"} /\ deploy.by \in Run /\ deploy.env \in Values \union {Absent})
    /\ deployed \in Run \union {Absent}
    /\ fresh \in 1..(MaxValue + 1)
    /\ run \in [Run -> Script]
    /\ tangled \in BOOLEAN /\ since \subseteq Run

\* A proving run from its deploy on, and from its put on.
Deployed == {"deploying", "live", "proving", "old", "new", "verified"}
Done == Deployed \union {"put"}

\* What a run's step says of itself, tangled or not.
Outfitted(r) ==
    /\ run[r].at = "unused" <=> run[r].job = Absent
    /\ run[r].at \in Deployed \union {"nothing"} => Proves(r)
    /\ run[r].at \in {"read", "putting"} => run[r].copy \in [Key -> Value]
    /\ run[r].at \in {"unused", "asking", "read"} => r \notin since
    /\ run[r].at \in {"unused", "asking", "read", "putting", "put"} =>
          deployed # r /\ ~(deploy # Absent /\ deploy.by = r)
    /\ run[r].job = "rotate" => run[r].name \in Target
    /\ run[r].job = "rollback" /\ r \in Open => run[r].want \in Values
    /\ Proves(r) /\ run[r].at \in Done \union {"putting"} =>
          run[r].want \in Values /\ run[r].gone \in Values
    /\ run[r].job = "rotate" /\ run[r].at \in Done \union {"putting"} =>
          /\ run[r].left \subseteq {run[r].name}
          /\ \A k \in Target : k # run[r].name => run[r].want[k] = run[r].gone[k]
    /\ Proves(r) /\ run[r].at \in {"putting", "put", "deploying", "live"} =>
          \A k \in Target : run[r].gone[k] # run[r].want[k] => k \in run[r].left

\* While runs do not meet: at most one holds a copy, at most one proves.
Apart ==
    /\ \A o, r \in Run : Holds(o) /\ Holds(r) => o = r
    /\ \A o, r \in Open : Proves(o) /\ Proves(r) => o = r

\* What a run then knows of production: its copy is current but for its own change, and what
\* it has put is stored, is what any deploy loads, and in the end what is served.
Knows(r) ==
    /\ run[r].at = "read" => run[r].copy = env
    /\ run[r].at = "putting" =>
          \A k \in Key : run[r].copy[k] # env[k] => k \in Own(r)
    /\ run[r].at = "putting" /\ Proves(r) =>
          Targets(run[r].copy) = run[r].want /\ run[r].gone = Targets(env)
    /\ run[r].at \in (Done \union {"putting"}) \ {"verified"} /\ Proves(r) => r \in since
    /\ run[r].at \in Done /\ Proves(r) => Targets(env) = run[r].want
    /\ run[r].at \in Deployed =>
          /\ Loaded => deploy.env = run[r].want
          /\ deployed = r => service = run[r].want
    /\ run[r].at \in Deployed \ {"deploying"} => service = run[r].want
    /\ run[r].at \in {"proving", "old", "new", "verified"} =>
          \A k \in Synced : run[r].gone[k] # run[r].want[k] => k \in run[r].left \/ receiver[k] = run[r].want[k]
    /\ run[r].at \in {"old", "new"} =>
          /\ run[r].name \in run[r].left
          /\ run[r].name \in Synced => receiver[run[r].name] = run[r].want[run[r].name]
    /\ run[r].at = "verified" => run[r].left = {}

\* The values served when the last run succeeded, except for some targets.
AsBefore(except) ==
    \A k \in Target \ except :
        env[k] = origin[k] /\ service[k] = origin[k] /\ (Loaded => deploy.env[k] = origin[k])

\* Until a run changes something, all is as it was then; and a first rotation has
\* changed its one target and saved the rest.
Kept ==
    /\ since = {} => AsBefore({})
    /\ \A r \in Run : since = {r} /\ run[r].job = "rotate" => snapshot = origin /\ AsBefore({run[r].name})

SecretsInv ==
    /\ ScriptsTyped
    /\ \A r \in Run : Outfitted(r)
    /\ ~tangled => Apart /\ Kept /\ \A r \in Run : Knows(r)

-----------------------------------------------------------------------------

\* What is known of keys: the targets, and the one that is stale.
LEMMA KeyFacts ==
    /\ Target \subseteq Key /\ Stale \in Key /\ Stale \notin Target /\ Synced \subseteq Target
    /\ \A k \in Key : k \in Target \/ k = Stale
    /\ \A e \in [Key -> Value] : Targets(e) \in Values /\ \A k \in Target : Targets(e)[k] = e[k]
    /\ Absent \in Value /\ 0 \in Value
BY SecretsAssumption DEF Key, Targets, Values, Value

\* What a step of a run does to the runs.
LEMMA Moves ==
    ASSUME ScriptsTyped, NEW r \in Run, NEW at \in Steps, Becomes(r, at)
    PROVE  /\ run' \in [Run -> Script]
           /\ run'[r].at = at /\ run'[r].job = run[r].job /\ run'[r].name = run[r].name
           /\ at \notin {"done", "failed"} => run'[r] = [run[r] EXCEPT !.at = at]
           /\ \A o \in Run : o # r => run'[o] = run[o]
<1> DEFINE over == [Unused EXCEPT !.at = at, !.job = run[r].job, !.name = run[r].name]
           next == IF at \in {"done", "failed"} THEN over ELSE [run[r] EXCEPT !.at = at]
<1>1. run[r] \in Script
  BY DEF ScriptsTyped
<1>2. over \in Script /\ over.at = at /\ over.job = run[r].job /\ over.name = run[r].name
  BY <1>1 DEF Unused, Script
<1>3. [run[r] EXCEPT !.at = at] \in Script /\ [run[r] EXCEPT !.at = at].at = at
      /\ [run[r] EXCEPT !.at = at].job = run[r].job /\ [run[r] EXCEPT !.at = at].name = run[r].name
  BY <1>1 DEF Script
<1>4. run' = [run EXCEPT ![r] = next]
  BY DEF Becomes
<1> HIDE DEF over
<1> QED
  BY <1>2, <1>3, <1>4 DEF ScriptsTyped

\* What another's step leaves a run: all it says of itself ...
LEMMA OutfittedKept ==
    ASSUME NEW o \in Run, Outfitted(o), run'[o] = run[o], o \in since' => o \in since,
           deployed' = o => deployed = o \/ (deploy # Absent /\ deploy.by = o),
           deploy' # Absent /\ deploy'.by = o => deploy # Absent /\ deploy.by = o
    PROVE  Outfitted(o)'
BY DEF Outfitted, Proves, Open

\* ... what it knows of production ...
LEMMA KnowsKept ==
    ASSUME NEW o \in Run, Knows(o), run'[o] = run[o], UNCHANGED production, o \in since => o \in since'
    PROVE  Knows(o)'
BY DEF Knows, Proves, Own, Targets, Loaded, production

\* ... that it is alone, if nobody joins ...
LEMMA ApartKept ==
    ASSUME Apart,
           \A o \in Run : Holds(o)' => Holds(o),
           \A o \in Run : o \in Open' /\ Proves(o)' => o \in Open /\ Proves(o)
    PROVE  Apart'
BY DEF Apart, Open

\* ... and what was, until a run changes it.
LEMMA KeptKept ==
    ASSUME Kept, UNCHANGED <<snapshot, origin, since, env, service, deploy>>,
           \A o \in since : o \in Run =>
               run'[o].job = run[o].job /\ (run[o].job = "rotate" => run'[o].name = run[o].name)
    PROVE  Kept'
<1>1. \A X : AsBefore(X)' <=> AsBefore(X)
  BY DEF AsBefore, Loaded
<1> QED
  BY <1>1 DEF Kept

\* A run that only goes on: to its end, or to the next thing it has to see.
LEMMA RunGoesOn ==
    ASSUME SecretsInv, NEW r \in Run, NEW at \in Steps, Becomes(r, at),
           UNCHANGED <<production, keyring, history>>, run[r].at # "unused",
           \/ at \in {"done", "failed"}
           \/ run[r].at = "deploying" /\ at = "live" /\ deployed = r
           \/ run[r].at = "live" /\ at = "proving"
           \/ run[r].at = "old" /\ at = "new"
    PROVE  SecretsInv'
<1>1. ScriptsTyped /\ Outfitted(r)
  BY DEF SecretsInv
<1>2. /\ run' \in [Run -> Script]
      /\ run'[r].at = at /\ run'[r].job = run[r].job /\ run'[r].name = run[r].name
      /\ at \notin {"done", "failed"} => run'[r] = [run[r] EXCEPT !.at = at]
      /\ \A o \in Run : o # r => run'[o] = run[o]
  BY <1>1, Moves
<1>3. ScriptsTyped'
  BY <1>1, <1>2 DEF ScriptsTyped, production, keyring, history
<1>4. UNCHANGED <<env, service, receiver, deploy, deployed, snapshot, fresh, tangled, origin, since>>
  BY DEF production, keyring, history
<1>5. at \notin {"done", "failed"} =>
         /\ run'[r].copy = run[r].copy /\ run'[r].want = run[r].want
         /\ run'[r].gone = run[r].gone /\ run'[r].left = run[r].left
  BY <1>1, <1>2 DEF ScriptsTyped, Script
<1>6. at # "unused" /\ at \notin {"asking", "read", "putting", "put", "nothing"}
  OBVIOUS
<1>7. ASSUME NEW o \in Run PROVE Outfitted(o)'
  <2>1. CASE o # r
    BY <1>2, <1>4, <2>1, OutfittedKept DEF SecretsInv
  <2>2. CASE o = r /\ at \in {"done", "failed"}
    BY <1>1, <1>2, <1>4, <2>2 DEF Outfitted, Proves, Open, Deployed, Done
  <2>3. CASE o = r /\ at \notin {"done", "failed"}
    BY <1>1, <1>2, <1>4, <1>5, <2>3 DEF Outfitted, Proves, Open, Deployed, Done
  <2> QED
    BY <2>1, <2>2, <2>3
<1>8. ASSUME ~tangled' PROVE Apart' /\ Kept' /\ \A o \in Run : Knows(o)'
  <2>1. Apart /\ Kept /\ \A o \in Run : Knows(o)
    BY <1>4, <1>8 DEF SecretsInv
  <2>2. Apart'
    <3>1. \A o \in Run : Holds(o)' => Holds(o)
      BY <1>2, <1>6 DEF Holds
    <3>2. \A o \in Run : o \in Open' /\ Proves(o)' => o \in Open /\ Proves(o)
      BY <1>2 DEF Open, Proves
    <3> QED
      BY <2>1, <3>1, <3>2, ApartKept
  <2>3. Kept'
    BY <1>2, <1>4, <2>1, KeptKept
  <2>4. ASSUME NEW o \in Run PROVE Knows(o)'
    <3>1. CASE o # r
      BY <1>2, <1>4, <2>1, <3>1, KnowsKept
    <3>2. CASE o = r /\ at \in {"done", "failed"}
      BY <1>2, <3>2 DEF Knows, Done, Deployed
    <3>3. CASE o = r /\ at \notin {"done", "failed"}
      <4>1. Knows(r) /\ Proves(r)
        BY <1>1, <2>1, <3>3 DEF Outfitted, Deployed
      <4>2. run[r].at = "live" => \A k \in Synced : run[r].gone[k] # run[r].want[k] => k \in run[r].left
        BY <1>1, <4>1, KeyFacts DEF Outfitted
      <4> QED
        BY <1>2, <1>4, <1>5, <3>3, <4>1, <4>2 DEF Knows, Done, Deployed, Proves, Own, Targets, Loaded
    <3> QED
      BY <3>1, <3>2, <3>3
  <2> QED
    BY <2>2, <2>3, <2>4
<1> QED
  BY <1>3, <1>7, <1>8 DEF SecretsInv

LEMMA StartsKeeps ==
    ASSUME SecretsInv, NEW r \in Run,
           NEW task \in {"rotate", "rollback", "channel"}, NEW name \in Target \union {Absent},
           task = "rotate" => name \in Target, Starts(r, task, name)
    PROVE  SecretsInv'
<1>1. ScriptsTyped /\ Outfitted(r) /\ run[r].at = "unused" /\ r \notin since
  <2>1. ScriptsTyped /\ Outfitted(r)
    BY DEF SecretsInv
  <2>2. run[r].at = "unused"
    BY DEF Starts, Run
  <2> QED
    BY <2>1, <2>2 DEF Outfitted
<1> DEFINE want == IF task = "rollback" THEN snapshot ELSE Absent
<1>2. run' = [run EXCEPT ![r] = [run[r] EXCEPT !.at = "asking", !.job = task, !.name = name, !.want = want]]
  BY DEF Starts
<1>3. want \in Values \union {Absent} /\ (task = "rollback" => want \in Values)
  BY <1>1 DEF Starts, ScriptsTyped
<1> HIDE DEF want
<1>4. run[r] \in Script /\ run \in [Run -> Script]
  BY <1>1 DEF ScriptsTyped
<1>5. /\ [run[r] EXCEPT !.at = "asking", !.job = task, !.name = name, !.want = want] \in Script
      /\ run'[r].at = "asking" /\ run'[r].job = task /\ run'[r].name = name /\ run'[r].want = want
      /\ \A o \in Run : o # r => run'[o] = run[o]
  BY <1>2, <1>3, <1>4 DEF Script, Steps
<1>6. UNCHANGED <<env, service, receiver, deploy, deployed, snapshot, fresh, origin, since>>
      /\ UNCHANGED production
      /\ tangled' = (tangled \/ (task # "channel" /\ \E o \in Open : Proves(o)))
  BY DEF Starts, production, keyring
<1>7. ScriptsTyped'
  <2>1. run' \in [Run -> Script] /\ tangled' \in BOOLEAN
    BY <1>2, <1>4, <1>5, <1>6
  <2> QED
    BY <1>1, <1>6, <2>1 DEF ScriptsTyped
<1>8. ASSUME NEW o \in Run PROVE Outfitted(o)'
  <2>1. CASE o # r
    BY <1>5, <1>6, <2>1, OutfittedKept DEF SecretsInv
  <2>2. CASE o = r
    BY <1>1, <1>3, <1>5, <1>6, <2>2, SecretsAssumption
       DEF Outfitted, Proves, Open, Deployed, Done
  <2> QED
    BY <2>1, <2>2
<1>9. ASSUME ~tangled' PROVE Apart' /\ Kept' /\ \A o \in Run : Knows(o)'
  <2>1. Apart /\ Kept /\ (\A o \in Run : Knows(o)) /\ (task # "channel" => \A o \in Open : ~Proves(o))
    BY <1>6, <1>9 DEF SecretsInv
  <2>2. Apart'
    <3>1. \A o \in Run : Holds(o)' => o # r /\ Holds(o)
      BY <1>5 DEF Holds
    <3>2. \A o \in Run : o \in Open' /\ Proves(o)' =>
             \/ o # r /\ o \in Open /\ Proves(o)
             \/ o = r /\ task # "channel"
      BY <1>5 DEF Open, Proves
    <3>3. Open' \subseteq Run
      BY DEF Open
    <3> QED
      BY <2>1, <3>1, <3>2, <3>3 DEF Apart
  <2>3. Kept'
    BY <1>1, <1>5, <1>6, <2>1, KeptKept
  <2>4. ASSUME NEW o \in Run PROVE Knows(o)'
    <3>1. CASE o # r
      BY <1>5, <1>6, <2>1, <3>1, KnowsKept
    <3>2. CASE o = r
      BY <1>5, <3>2 DEF Knows, Done, Deployed
    <3> QED
      BY <3>1, <3>2
  <2> QED
    BY <2>2, <2>3, <2>4
<1> QED
  BY <1>7, <1>8, <1>9 DEF SecretsInv

LEMMA ReadsKeeps ==
    ASSUME SecretsInv, NEW r \in Run, Reads(r)
    PROVE  SecretsInv'
<1>1. ScriptsTyped /\ Outfitted(r) /\ run[r].at = "asking" /\ run[r] \in Script /\ run \in [Run -> Script]
  BY DEF SecretsInv, Reads, ScriptsTyped
<1> DEFINE next == [run[r] EXCEPT !.at = "read", !.copy = env]
<1>2. /\ run' = [run EXCEPT ![r] = next] /\ run'[r] = next
      /\ \A o \in Run : o # r => run'[o] = run[o]
      /\ UNCHANGED <<env, service, receiver, deploy, deployed, snapshot, fresh, origin, since, production>>
      /\ tangled' = (tangled \/ \E o \in Run : Holds(o))
  BY <1>1 DEF Reads, production, keyring, Script
<1>3. next \in Script /\ run'[r].at = "read" /\ run'[r].copy = env
      /\ run'[r].job = run[r].job /\ run'[r].name = run[r].name /\ run'[r].want = run[r].want
  BY <1>1, <1>2 DEF Script, Steps, ScriptsTyped
<1>4. ScriptsTyped'
  <2>1. tangled' \in BOOLEAN
    BY <1>1, <1>2 DEF ScriptsTyped
  <2>3. run' \in [Run -> Script]
    BY <1>1, <1>2, <1>3
  <2> QED
    BY <1>1, <1>2, <2>1, <2>3 DEF ScriptsTyped
<1>5. ASSUME NEW o \in Run PROVE Outfitted(o)'
  <2>1. CASE o # r
    BY <1>2, <2>1, OutfittedKept DEF SecretsInv
  <2>2. CASE o = r
    BY <1>1, <1>2, <1>3, <2>2 DEF Outfitted, Proves, Open, Deployed, Done, ScriptsTyped
  <2> QED
    BY <2>1, <2>2
<1>6. ASSUME ~tangled' PROVE Apart' /\ Kept' /\ \A o \in Run : Knows(o)'
  <2>1. Apart /\ Kept /\ (\A o \in Run : Knows(o) /\ ~Holds(o))
    BY <1>2, <1>6 DEF SecretsInv
  <2>2. Apart'
    <3>1. \A o \in Run : Holds(o)' => o = r
      BY <1>2, <2>1 DEF Holds
    <3>2. \A o \in Run : o \in Open' /\ Proves(o)' => o \in Open /\ Proves(o)
      BY <1>1, <1>2, <1>3 DEF Open, Proves
    <3>3. Open' \subseteq Run
      BY DEF Open
    <3> QED
      BY <2>1, <3>1, <3>2, <3>3 DEF Apart
  <2>3. Kept'
    BY <1>2, <1>3, <2>1, KeptKept
  <2>4. ASSUME NEW o \in Run PROVE Knows(o)'
    <3>1. CASE o # r
      BY <1>2, <2>1, <3>1, KnowsKept
    <3>2. CASE o = r
      BY <1>2, <1>3, <3>2 DEF Knows, Done, Deployed
    <3> QED
      BY <3>1, <3>2
  <2> QED
    BY <2>2, <2>3, <2>4
<1> QED
  BY <1>4, <1>5, <1>6 DEF SecretsInv

\* A run that has read prepares what it will put.
LEMMA PreparesKeeps ==
    ASSUME SecretsInv, NEW r \in Run, run[r].at = "read",
           run' \in [Run -> Script], run'[r].at \in {"putting", "nothing"}, run'[r].job = run[r].job,
           run'[r].name = run[r].name,
           \A o \in Run : o # r => run'[o] = run[o],
           UNCHANGED <<production, tangled, origin>>,
           snapshot' \in Values \union {Absent}, fresh' \in 1..(MaxValue + 1),
           since' \in {since, since \union {r}},
           Outfitted(r)',
           ~tangled /\ Kept /\ Knows(r) => Kept' /\ Knows(r)'
    PROVE  SecretsInv'
<1>1. ScriptsTyped
  BY DEF SecretsInv
<1>2. UNCHANGED <<env, service, receiver, deploy, deployed>>
  BY DEF production
<1>3. ScriptsTyped'
  BY <1>1, <1>2 DEF ScriptsTyped
<1>4. ASSUME NEW o \in Run PROVE Outfitted(o)'
  BY <1>2, OutfittedKept DEF SecretsInv
<1>5. ASSUME ~tangled' PROVE Apart' /\ Kept' /\ \A o \in Run : Knows(o)'
  <2>1. ~tangled /\ Apart /\ Kept /\ \A o \in Run : Knows(o)
    BY <1>5 DEF SecretsInv
  <2>2. Apart'
    <3>1. \A o \in Run : Holds(o)' => Holds(o)
      BY DEF Holds
    <3>2. \A o \in Run : o \in Open' /\ Proves(o)' => o \in Open /\ Proves(o)
      BY DEF Open, Proves
    <3> QED
      BY <2>1, <3>1, <3>2, ApartKept
  <2>3. ASSUME NEW o \in Run PROVE Knows(o)'
    BY <2>1, KnowsKept
  <2> QED
    BY <2>1, <2>2, <2>3
<1> QED
  BY <1>3, <1>4, <1>5 DEF SecretsInv

LEMMA SavesKeeps ==
    ASSUME SecretsInv, NEW r \in Run, Saves(r)
    PROVE  SecretsInv'
<1> DEFINE name == run[r].name
           copy == [k \in Key |-> IF k \in Target THEN New(r)[k] ELSE run[r].copy[k]]
           next == [run[r] EXCEPT !.at = "putting", !.left = {name}, !.gone = Old(r), !.want = New(r),
                                  !.copy = copy]
<1>1. /\ ScriptsTyped /\ Outfitted(r) /\ run[r] \in Script /\ run \in [Run -> Script]
      /\ run[r].at = "read" /\ run[r].job = "rotate" /\ fresh <= MaxValue
      /\ snapshot' = Old(r) /\ fresh' = fresh + 1 /\ since' = since \union {r}
      /\ run' = [run EXCEPT ![r] = next]
      /\ UNCHANGED <<production, tangled, origin>>
  <2>1. run' = [run EXCEPT ![r] = next]
    BY DEF Saves, Saving
  <2> QED
    BY <2>1 DEF SecretsInv, Saves, Saving, ScriptsTyped
<1>2. /\ name \in Target /\ run[r].copy \in [Key -> Value] /\ fresh \in Value
      /\ fresh + 1 \in 1..(MaxValue + 1) /\ r \notin since
  BY <1>1, SecretsAssumption DEF Outfitted, ScriptsTyped, Value
<1>3. Old(r) \in Values /\ New(r) \in Values /\ copy \in [Key -> Value]
  <2>1. Old(r) \in Values
    BY <1>2, KeyFacts DEF Old
  <2>2. New(r) \in Values
    BY <1>2, <2>1 DEF New, Values
  <2> QED
    BY <1>2, <2>1, <2>2 DEF Values
<1>4. /\ \A k \in Target : New(r)[k] = IF k = name THEN fresh ELSE Old(r)[k]
      /\ \A k \in Target : Old(r)[k] = run[r].copy[k] /\ copy[k] = New(r)[k]
      /\ \A k \in Key : k \notin Target => copy[k] = run[r].copy[k]
  <2>1. \A k \in Target : New(r)[k] = IF k = name THEN fresh ELSE Old(r)[k]
    BY <1>3 DEF New, Values
  <2>2. \A k \in Target : Old(r)[k] = run[r].copy[k]
    BY DEF Old, Targets
  <2> QED
    BY <2>1, <2>2, KeyFacts
<1>5. Targets(copy) = New(r)
  BY <1>3, <1>4 DEF Targets, Values
<1> HIDE DEF copy
<1>6. /\ next \in Script /\ next.at = "putting" /\ next.job = "rotate" /\ next.name = name
      /\ next.left = {name} /\ next.gone = Old(r) /\ next.want = New(r) /\ next.copy = copy
  BY <1>1, <1>2, <1>3 DEF Script, Steps
<1> HIDE DEF next
<1>7. /\ run' \in [Run -> Script] /\ run'[r] = next
      /\ \A o \in Run : o # r => run'[o] = run[o]
  BY <1>1, <1>6
<1>8. UNCHANGED <<env, service, receiver, deploy, deployed>>
  BY <1>1 DEF production
<1>9. Outfitted(r)'
  BY <1>1, <1>2, <1>3, <1>4, <1>6, <1>7, <1>8, SecretsAssumption
     DEF Outfitted, Proves, Open, Done, Deployed
<1>10. ASSUME ~tangled, Kept, Knows(r) PROVE Kept' /\ Knows(r)'
  <2>1. run[r].copy = env
    BY <1>1, <1>10 DEF Knows
  <2>2. Own(r)' = {k \in Target : Old(r)[k] # New(r)[k]}
    BY <1>6, <1>7 DEF Own
  <2>3. \A k \in Key : copy[k] # env[k] => k \in Own(r)'
    BY <1>4, <2>1, <2>2
  <2>4. Knows(r)'
    BY <1>1, <1>5, <1>6, <1>7, <1>8, <2>1, <2>3 DEF Knows, Done, Deployed, Old
  <2>5. ASSUME NEW s \in Run, since' = {s} PROVE s = r /\ snapshot' = origin' /\ AsBefore({name})'
    <3>1. s = r /\ since = {}
      BY <1>1, <1>2, <2>5
    <3>2. AsBefore({})
      BY <1>10, <3>1 DEF Kept
    <3>3. AsBefore({name})'
      BY <1>1, <1>8, <3>2 DEF AsBefore, Loaded
    <3>4. Old(r) = origin
      BY <1>1, <1>3, <1>4, <2>1, <3>2 DEF AsBefore, Values, ScriptsTyped
    <3> QED
      BY <1>1, <3>1, <3>3, <3>4
  <2>6. Kept'
    BY <1>1, <1>6, <1>7, <2>5 DEF Kept
  <2> QED
    BY <2>4, <2>6
<1>11. snapshot' \in Values \union {Absent} /\ fresh' \in 1..(MaxValue + 1)
  BY <1>1, <1>2, <1>3
<1> QED
  BY <1>1, <1>6, <1>7, <1>9, <1>10, <1>11, PreparesKeeps

LEMMA ComparesKeeps ==
    ASSUME SecretsInv, NEW r \in Run, Compares(r)
    PROVE  SecretsInv'
<1> DEFINE want == run[r].want
           changed == {k \in Target : Old(r)[k] # want[k]}
           copy == [k \in Key |-> IF k \in changed THEN want[k] ELSE run[r].copy[k]]
           at == IF changed = {} THEN "nothing" ELSE "putting"
           next == [run[r] EXCEPT !.at = at, !.left = changed, !.gone = Old(r), !.copy = copy]
<1>1. /\ ScriptsTyped /\ Outfitted(r) /\ run[r] \in Script /\ run \in [Run -> Script]
      /\ run[r].at = "read" /\ run[r].job = "rollback"
      /\ since' = (IF changed = {} THEN since ELSE since \union {r})
      /\ run' = [run EXCEPT ![r] = next]
      /\ UNCHANGED <<production, tangled, origin, snapshot, fresh>>
  <2>1. run' = [run EXCEPT ![r] = next]
    BY DEF Compares
  <2> QED
    BY <2>1 DEF SecretsInv, Compares, ScriptsTyped, keyring
<1>2. run[r].copy \in [Key -> Value] /\ want \in Values /\ r \notin since
  BY <1>1 DEF Outfitted, Open
<1>3. Old(r) \in Values /\ copy \in [Key -> Value] /\ changed \subseteq Target
  <2>1. Old(r) \in Values
    BY <1>2, KeyFacts DEF Old
  <2> QED
    BY <1>2, <2>1 DEF Values
<1>4. /\ \A k \in Target : Old(r)[k] = run[r].copy[k] /\ copy[k] = want[k]
      /\ \A k \in Key : copy[k] = run[r].copy[k] \/ k \in changed
  <2>1. \A k \in Target : Old(r)[k] = run[r].copy[k]
    BY DEF Old, Targets
  <2> QED
    BY <2>1, KeyFacts
<1>5. Targets(copy) = want
  BY <1>2, <1>4 DEF Targets, Values
<1> HIDE DEF copy
<1>6. /\ next \in Script /\ next.at = at /\ next.job = "rollback" /\ next.name = run[r].name
      /\ next.left = changed /\ next.gone = Old(r) /\ next.want = want /\ next.copy = copy
  BY <1>1, <1>2, <1>3 DEF Script, Steps
<1> HIDE DEF next
<1>7. /\ run' \in [Run -> Script] /\ run'[r] = next
      /\ \A o \in Run : o # r => run'[o] = run[o]
  BY <1>1, <1>6
<1>8. UNCHANGED <<env, service, receiver, deploy, deployed>>
  BY <1>1 DEF production
<1>9. Outfitted(r)'
  BY <1>1, <1>2, <1>3, <1>4, <1>6, <1>7, <1>8, SecretsAssumption
     DEF Outfitted, Proves, Open, Done, Deployed
<1>10. ASSUME ~tangled, Kept, Knows(r) PROVE Kept' /\ Knows(r)'
  <2>1. run[r].copy = env
    BY <1>1, <1>10 DEF Knows
  <2>2. Own(r)' = changed
    BY <1>6, <1>7 DEF Own
  <2>3. \A k \in Key : copy[k] # env[k] => k \in Own(r)'
    BY <1>4, <2>1, <2>2
  <2>4. Knows(r)'
    BY <1>1, <1>5, <1>6, <1>7, <1>8, <2>1, <2>3 DEF Knows, Done, Deployed, Old
  <2>5. CASE changed = {}
    <3>1. since' = since
      BY <1>1, <2>5
    <3>2. \A o \in since : o \in Run => run'[o].job = run[o].job /\ run'[o].name = run[o].name
      BY <1>6, <1>7, <1>1
    <3>3. Kept'
      BY <1>1, <1>8, <1>10, <3>1, <3>2, KeptKept
    <3> QED
      BY <2>4, <3>3
  <2>6. CASE changed # {}
    <3>1. since' = since \union {r}
      BY <1>1, <2>6
    <3>2. \A s : since' = {s} => s = r
      BY <3>1
    <3>3. Kept'
      BY <1>6, <1>7, <3>1, <3>2 DEF Kept
    <3> QED
      BY <2>4, <3>3
  <2> QED
    BY <2>5, <2>6
<1>11. /\ snapshot' \in Values \union {Absent} /\ fresh' \in 1..(MaxValue + 1)
       /\ since' \in {since, since \union {r}}
  BY <1>1 DEF ScriptsTyped
<1> QED
  BY <1>1, <1>6, <1>7, <1>9, <1>10, <1>11, PreparesKeeps

LEMMA SetsKeeps ==
    ASSUME SecretsInv, NEW r \in Run, NEW value \in Value, Sets(r, value)
    PROVE  SecretsInv'
<1> DEFINE copy == [run[r].copy EXCEPT ![Stale] = value]
           next == [run[r] EXCEPT !.at = "putting", !.copy = copy]
<1>1. /\ ScriptsTyped /\ Outfitted(r) /\ run[r] \in Script /\ run \in [Run -> Script]
      /\ run[r].at = "read" /\ run[r].job = "channel"
      /\ run' = [run EXCEPT ![r] = next]
      /\ UNCHANGED <<production, snapshot, fresh, tangled, origin, since>>
  <2>1. run' = [run EXCEPT ![r] = next]
    BY DEF Sets
  <2> QED
    BY <2>1 DEF SecretsInv, Sets, ScriptsTyped, keyring, history
<1>2. run[r].copy \in [Key -> Value] /\ r \notin since
  BY <1>1 DEF Outfitted
<1>3. copy \in [Key -> Value] /\ \A k \in Key : k # Stale => copy[k] = run[r].copy[k]
  BY <1>2, KeyFacts
<1> HIDE DEF copy
<1>4. next \in Script /\ next.at = "putting" /\ next.job = "channel" /\ next.name = run[r].name /\ next.copy = copy
  BY <1>1, <1>3 DEF Script, Steps
<1> HIDE DEF next
<1>5. /\ run' \in [Run -> Script] /\ run'[r] = next
      /\ \A o \in Run : o # r => run'[o] = run[o]
  BY <1>1, <1>4
<1>6. UNCHANGED <<env, service, receiver, deploy, deployed>>
  BY <1>1 DEF production
<1>7. Outfitted(r)'
  BY <1>1, <1>2, <1>3, <1>4, <1>5, <1>6, SecretsAssumption
     DEF Outfitted, Proves, Open, Done, Deployed
<1>8. ASSUME ~tangled, Kept, Knows(r) PROVE Kept' /\ Knows(r)'
  <2>1. run[r].copy = env
    BY <1>1, <1>8 DEF Knows
  <2>2. Own(r)' = {Stale} /\ ~Proves(r)'
    BY <1>4, <1>5 DEF Own, Proves
  <2>3. Knows(r)'
    BY <1>3, <1>4, <1>5, <1>6, <2>1, <2>2 DEF Knows, Done, Deployed
  <2>4. Kept'
    BY <1>1, <1>4, <1>5, <1>6, <1>8, KeptKept
  <2> QED
    BY <2>3, <2>4
<1>9. /\ snapshot' \in Values \union {Absent} /\ fresh' \in 1..(MaxValue + 1)
      /\ since' \in {since, since \union {r}}
  BY <1>1 DEF ScriptsTyped
<1> QED
  BY <1>1, <1>4, <1>5, <1>7, <1>8, <1>9, PreparesKeeps

LEMMA PutsKeeps ==
    ASSUME SecretsInv, NEW r \in Run, Puts(r)
    PROVE  SecretsInv'
<1>1. /\ ScriptsTyped /\ Outfitted(r) /\ run[r].at = "putting" /\ env' = run[r].copy
      /\ run[r].copy \in [Key -> Value]
      /\ UNCHANGED <<service, receiver, deploy, deployed, snapshot, fresh, tangled, origin, since>>
  BY DEF SecretsInv, Puts, keyring, history, Outfitted
<1>2. PICK to \in {"put", "failed"} : Becomes(r, to)
  BY DEF Puts
<1>3. /\ run' \in [Run -> Script]
      /\ run'[r].at = to /\ run'[r].job = run[r].job /\ run'[r].name = run[r].name
      /\ to = "put" => run'[r] = [run[r] EXCEPT !.at = to]
      /\ \A o \in Run : o # r => run'[o] = run[o]
  BY <1>1, <1>2, Moves DEF Steps
<1>4. to = "put" => /\ run'[r].copy = run[r].copy /\ run'[r].want = run[r].want
                    /\ run'[r].gone = run[r].gone /\ run'[r].left = run[r].left
  BY <1>1, <1>3 DEF ScriptsTyped, Script
<1>5. ScriptsTyped'
  BY <1>1, <1>3 DEF ScriptsTyped
<1>6. ASSUME NEW o \in Run PROVE Outfitted(o)'
  <2>1. CASE o # r
    BY <1>1, <1>3, <2>1, OutfittedKept DEF SecretsInv
  <2>2. CASE o = r
    BY <1>1, <1>3, <1>4, <2>2 DEF Outfitted, Proves, Open, Deployed, Done
  <2> QED
    BY <2>1, <2>2
<1>7. ASSUME ~tangled' PROVE Apart' /\ Kept' /\ \A o \in Run : Knows(o)'
  <2>1. Apart /\ Kept /\ \A o \in Run : Knows(o)
    BY <1>1, <1>7 DEF SecretsInv
  <2>2. Apart'
    <3>1. \A o \in Run : Holds(o)' => Holds(o)
      BY <1>3 DEF Holds
    <3>2. \A o \in Run : o \in Open' /\ Proves(o)' => o \in Open /\ Proves(o)
      BY <1>1, <1>3 DEF Open, Proves
    <3> QED
      BY <2>1, <3>1, <3>2, ApartKept
  <2>3. run[r].job \in {"rotate", "rollback", "channel"} /\ r \in Open /\ Holds(r)
    BY <1>1, <1>3 DEF Outfitted, ScriptsTyped, Script, Open, Holds
  <2>4. CASE ~Proves(r)
    <3>1. Own(r) = {Stale}
      BY <2>3, <2>4 DEF Own, Proves
    <3>2. \A k \in Target : env'[k] = env[k]
      BY <1>1, <2>1, <3>1, KeyFacts DEF Knows
    <3>3. Targets(env)' = Targets(env)
      BY <3>2 DEF Targets
    <3>4. ASSUME NEW o \in Run, o # r PROVE Knows(o)'
      <4>1. ~Holds(o)
        BY <2>1, <2>3, <3>4 DEF Apart
      <4>2. Knows(o)
        BY <2>1
      <4> QED
        BY <1>1, <1>3, <3>3, <3>4, <4>1, <4>2 DEF Knows, Holds, Done, Deployed, Proves, Loaded, Targets
    <3>5. Knows(r)'
      BY <1>3, <2>4 DEF Knows, Done, Deployed, Proves
    <3>6. \A X : AsBefore(X) => AsBefore(X)'
      BY <1>1, <3>2 DEF AsBefore, Loaded
    <3>7. \A o \in Run : run'[o].job = run[o].job /\ run'[o].name = run[o].name
      BY <1>3
    <3>8. Kept'
      BY <1>1, <2>1, <3>6, <3>7 DEF Kept
    <3> QED
      BY <2>2, <3>4, <3>5, <3>8
  <2>5. CASE Proves(r)
    <3>1. r \in since /\ Targets(env)' = run[r].want /\ run[r].gone = Targets(env)
      BY <1>1, <2>1, <2>5 DEF Knows, Targets
    <3>2. ASSUME NEW o \in Run, o # r PROVE Knows(o)'
      <4>1. ~Holds(o) /\ run[o].at \notin Deployed \union {"nothing"}
            /\ ~(run[o].at = "put" /\ Proves(o))
        <5>1. ~Holds(o) /\ ~(o \in Open /\ Proves(o))
          BY <2>1, <2>3, <2>5, <3>2 DEF Apart
        <5>2. Outfitted(o)
          BY DEF SecretsInv
        <5> QED
          BY <5>1, <5>2 DEF Outfitted, Open, Deployed
      <4> QED
        BY <1>3, <3>2, <4>1 DEF Knows, Holds, Done, Deployed, Proves
    <3>3. Knows(r)'
      BY <1>1, <1>3, <1>4, <3>1 DEF Knows, Done, Deployed, Proves, Targets
    <3>4. ASSUME NEW s \in Run, since' = {s}, run'[s].job = "rotate"
          PROVE  snapshot' = origin' /\ AsBefore({run[s].name})'
      <4>1. s = r /\ run[r].job = "rotate"
        BY <1>1, <1>3, <3>1, <3>4
      <4>2. snapshot = origin /\ AsBefore({run[r].name})
        BY <1>1, <2>1, <3>4, <4>1 DEF Kept
      <4>3. \A k \in Target \ {run[r].name} : run[r].want[k] = run[r].gone[k]
        BY <1>1, <4>1 DEF Outfitted
      <4>4. \A k \in Target \ {run[r].name} : env'[k] = env[k]
        <5>1. \A k \in Target : Targets(env)'[k] = env'[k] /\ Targets(env)[k] = env[k]
          BY DEF Targets
        <5> QED
          BY <3>1, <4>3, <5>1
      <4> QED
        BY <1>1, <1>3, <4>1, <4>2, <4>4 DEF AsBefore, Loaded
    <3>5. Kept'
      BY <1>1, <1>3, <3>1, <3>4 DEF Kept
    <3> QED
      BY <2>2, <3>2, <3>3, <3>5
  <2> QED
    BY <2>4, <2>5
<1> QED
  BY <1>5, <1>6, <1>7 DEF SecretsInv

LEMMA DeploysKeeps ==
    ASSUME SecretsInv, NEW r \in Run, Deploys(r)
    PROVE  SecretsInv'
<1>1. /\ ScriptsTyped /\ Outfitted(r) /\ run[r].at = "put" /\ deploy' = [by |-> r, env |-> Absent]
      /\ UNCHANGED <<env, service, receiver, deployed, snapshot, fresh, tangled, origin, since>>
  BY DEF SecretsInv, Deploys, keyring, history
<1>2. PICK to \in {"deploying", "done", "failed"} : Becomes(r, to) /\ (to = "deploying" => Proves(r))
  BY DEF Deploys
<1>3. /\ run' \in [Run -> Script]
      /\ run'[r].at = to /\ run'[r].job = run[r].job /\ run'[r].name = run[r].name
      /\ to = "deploying" => run'[r] = [run[r] EXCEPT !.at = to]
      /\ \A o \in Run : o # r => run'[o] = run[o]
  BY <1>1, <1>2, Moves DEF Steps
<1>4. to = "deploying" => /\ run'[r].copy = run[r].copy /\ run'[r].want = run[r].want
                          /\ run'[r].gone = run[r].gone /\ run'[r].left = run[r].left
  BY <1>1, <1>3 DEF ScriptsTyped, Script
<1>5. ScriptsTyped' /\ ~Loaded' /\ deploy'.by = r
  BY <1>1, <1>3 DEF ScriptsTyped, Loaded
<1>6. ASSUME NEW o \in Run PROVE Outfitted(o)'
  <2>1. CASE o # r
    BY <1>1, <1>3, <1>5, <2>1, OutfittedKept DEF SecretsInv
  <2>2. CASE o = r
    BY <1>1, <1>2, <1>3, <1>4, <2>2 DEF Outfitted, Proves, Open, Deployed, Done
  <2> QED
    BY <2>1, <2>2
<1>7. ASSUME ~tangled' PROVE Apart' /\ Kept' /\ \A o \in Run : Knows(o)'
  <2>1. Apart /\ Kept /\ \A o \in Run : Knows(o)
    BY <1>1, <1>7 DEF SecretsInv
  <2>2. Apart'
    <3>1. \A o \in Run : Holds(o)' => Holds(o)
      BY <1>3 DEF Holds
    <3>2. \A o \in Run : o \in Open' /\ Proves(o)' => o \in Open /\ Proves(o)
      BY <1>1, <1>3 DEF Open, Proves
    <3> QED
      BY <2>1, <3>1, <3>2, ApartKept
  <2>3. ASSUME NEW o \in Run PROVE Knows(o)'
    <3>1. CASE o # r
      BY <1>1, <1>3, <1>5, <2>1, <3>1 DEF Knows, Proves, Own, Targets
    <3>2. CASE o = r
      <4>1. Knows(r) /\ deployed # r
        BY <1>1, <2>1 DEF Outfitted
      <4> QED
        BY <1>1, <1>2, <1>3, <1>4, <1>5, <3>2, <4>1 DEF Knows, Done, Deployed, Proves, Targets
    <3> QED
      BY <3>1, <3>2
  <2>4. Kept'
    <3>1. \A X : AsBefore(X) => AsBefore(X)'
      BY <1>1, <1>5 DEF AsBefore
    <3>2. \A o \in Run : run'[o].job = run[o].job /\ run'[o].name = run[o].name
      BY <1>3
    <3> QED
      BY <1>1, <2>1, <3>1, <3>2 DEF Kept
  <2> QED
    BY <2>2, <2>3, <2>4
<1> QED
  BY <1>5, <1>6, <1>7 DEF SecretsInv

\* What Render does with a deploy.
LEMMA RenderKeeps ==
    ASSUME SecretsInv, Loads \/ GoesLive \/ DeployFails
    PROVE  SecretsInv'
<1>1. /\ ScriptsTyped /\ (\A r \in Run : Outfitted(r)) /\ deploy # Absent
      /\ UNCHANGED <<env, receiver, run, snapshot, fresh, tangled, origin, since>>
  BY DEF SecretsInv, Loads, GoesLive, DeployFails, keyring, history
<1>2. Targets(env) \in Values
  BY <1>1, KeyFacts DEF ScriptsTyped
<1>3. \/ /\ deploy.env = Absent /\ deploy' = [deploy EXCEPT !.env = Targets(env)]
         /\ UNCHANGED <<service, deployed>>
      \/ Loaded /\ service' = deploy.env /\ deployed' = deploy.by /\ deploy' = Absent
      \/ deploy' = Absent /\ UNCHANGED <<service, deployed>>
  BY DEF Loads, GoesLive, DeployFails, Loaded
<1>4. /\ ScriptsTyped'
      /\ deploy' # Absent => deploy'.by = deploy.by /\ deploy'.env = Targets(env)
      /\ ~Loaded' \/ UNCHANGED <<service, deployed>>
      /\ UNCHANGED <<service, deployed>> \/ (Loaded /\ service' = deploy.env /\ deployed' = deploy.by)
  <2>1. CASE deploy.env = Absent /\ deploy' = [deploy EXCEPT !.env = Targets(env)] /\ UNCHANGED <<service, deployed>>
    <3>1. DOMAIN deploy' = {"by", "env"} /\ deploy'.by = deploy.by /\ deploy'.env = Targets(env)
      BY <1>1, <2>1 DEF ScriptsTyped
    <3> QED
      BY <1>1, <1>2, <2>1, <3>1 DEF ScriptsTyped
  <2>2. CASE Loaded /\ service' = deploy.env /\ deployed' = deploy.by /\ deploy' = Absent
    <3>1. deploy.env \in Values /\ deploy.by \in Run
      BY <1>1, <2>2 DEF ScriptsTyped, Loaded
    <3> QED
      BY <1>1, <2>2, <3>1 DEF ScriptsTyped, Loaded
  <2>3. CASE deploy' = Absent /\ UNCHANGED <<service, deployed>>
    BY <1>1, <2>3 DEF ScriptsTyped
  <2> QED
    BY <1>3, <2>1, <2>2, <2>3
<1>5. ASSUME NEW o \in Run PROVE Outfitted(o)'
  BY <1>1, <1>4, OutfittedKept
<1>6. ASSUME ~tangled' PROVE Apart' /\ Kept' /\ \A o \in Run : Knows(o)'
  <2>1. Apart /\ Kept /\ \A o \in Run : Knows(o)
    BY <1>1, <1>6 DEF SecretsInv
  <2>2. Apart'
    BY <1>1, <2>1 DEF Apart, Holds, Open, Proves
  <2>3. ASSUME NEW o \in Run PROVE Knows(o)'
    <3>1. Knows(o) /\ Outfitted(o)
      BY <1>1, <2>1
    <3>2. run[o].at \in Deployed => Targets(env) = run[o].want
      BY <3>1 DEF Knows, Outfitted, Done
    <3>3. run[o].at \in Deployed =>
             /\ Loaded' => deploy'.env = run[o].want
             /\ deployed' = o => service' = run[o].want
             /\ run[o].at # "deploying" => service' = run[o].want
      BY <1>4, <3>1, <3>2 DEF Knows, Loaded
    <3> QED
      BY <1>1, <3>1, <3>3 DEF Knows, Done, Deployed, Proves, Own, Targets
  <2>4. Kept'
    <3>1. \A k \in Target : Targets(env)[k] = env[k]
      BY DEF Targets
    <3>2. \A X : AsBefore(X) => AsBefore(X)'
      BY <1>1, <1>4, <3>1 DEF AsBefore, Loaded
    <3> QED
      BY <1>1, <2>1, <3>2 DEF Kept
  <2> QED
    BY <2>2, <2>3, <2>4
<1> QED
  BY <1>4, <1>5, <1>6 DEF SecretsInv

LEMMA ProvingKeeps ==
    ASSUME SecretsInv, NEW r \in Run, NEW k \in Target, Proving(r, k)
    PROVE  SecretsInv'
<1>1. /\ ScriptsTyped /\ Outfitted(r) /\ run[r].at = "proving" /\ k \in run[r].left /\ Proves(r)
      /\ run[r] \in Script /\ run \in [Run -> Script]
      /\ UNCHANGED <<env, service, deploy, deployed, snapshot, fresh, tangled, origin, since>>
      /\ receiver' = [s \in Synced |-> IF s = k THEN run[r].want[s] ELSE receiver[s]]
  BY DEF SecretsInv, Proving, keyring, history, Outfitted, ScriptsTyped, Deployed
<1>2. run[r].want \in Values
  BY <1>1 DEF Outfitted, Done, Deployed
<1>3. receiver' \in [Synced -> Value]
  BY <1>1, <1>2, KeyFacts DEF ScriptsTyped, Values
<1>4. run[r].job = "rotate" => run[r].name = k
  BY <1>1 DEF Outfitted, Done, Deployed
<1>5. /\ run' \in [Run -> Script]
      /\ \A o \in Run : o # r => run'[o] = run[o]
      /\ run'[r].job = run[r].job /\ (run[r].job = "rotate" => run'[r].name = run[r].name)
      /\ \/ run'[r].at = "failed"
         \/ /\ run'[r].at = "old" /\ run'[r].name = k /\ run'[r].left = run[r].left
            /\ run'[r].want = run[r].want /\ run'[r].gone = run[r].gone
  <2>1. CASE run' = [run EXCEPT ![r].at = "old", ![r].name = k]
    <3> DEFINE next == [run[r] EXCEPT !.at = "old", !.name = k]
    <3>1. run' = [run EXCEPT ![r] = next]
      BY <1>1, <2>1
    <3>2. /\ next \in Script /\ next.at = "old" /\ next.name = k /\ next.left = run[r].left
          /\ next.want = run[r].want /\ next.gone = run[r].gone /\ next.job = run[r].job
      BY <1>1 DEF Script, Steps
    <3> HIDE DEF next
    <3> QED
      BY <1>1, <1>4, <3>1, <3>2
  <2>2. CASE Becomes(r, "failed")
    BY <1>1, <2>2, Moves DEF Steps
  <2> QED
    BY <2>1, <2>2 DEF Proving
<1>6. ScriptsTyped'
  BY <1>1, <1>3, <1>5 DEF ScriptsTyped
<1>7. ASSUME NEW o \in Run PROVE Outfitted(o)'
  <2>1. CASE o # r
    BY <1>1, <1>5, <2>1, OutfittedKept DEF SecretsInv
  <2>2. CASE o = r
    BY <1>1, <1>4, <1>5, <2>2 DEF Outfitted, Proves, Open, Deployed, Done
  <2> QED
    BY <2>1, <2>2
<1>8. ASSUME ~tangled' PROVE Apart' /\ Kept' /\ \A o \in Run : Knows(o)'
  <2>1. Apart /\ Kept /\ \A o \in Run : Knows(o)
    BY <1>1, <1>8 DEF SecretsInv
  <2>2. Apart'
    <3>1. \A o \in Run : Holds(o)' => Holds(o)
      BY <1>5 DEF Holds
    <3>2. \A o \in Run : o \in Open' /\ Proves(o)' => o \in Open /\ Proves(o)
      BY <1>1, <1>5 DEF Open, Proves
    <3> QED
      BY <2>1, <3>1, <3>2, ApartKept
  <2>3. Kept'
    BY <1>1, <1>5, <2>1, KeptKept
  <2>4. ASSUME NEW o \in Run, o # r PROVE Knows(o)'
    <3>1. run[o].at \notin Deployed
      <4>1. ~(o \in Open /\ Proves(o))
        BY <1>1, <2>1, <2>4 DEF Apart, Open
      <4>2. Outfitted(o)
        BY DEF SecretsInv
      <4> QED
        BY <4>1, <4>2 DEF Outfitted, Open, Deployed
    <3> QED
      BY <1>1, <1>5, <2>1, <2>4, <3>1 DEF Knows, Done, Deployed, Proves, Own, Targets
  <2>5. Knows(r)'
    <3>1. Knows(r)
      BY <2>1
    <3>2. CASE run'[r].at = "failed"
      BY <3>2 DEF Knows, Done, Deployed
    <3>3. CASE run'[r].at # "failed"
      <4>1. \A s \in Synced : receiver'[s] = IF s = k THEN run[r].want[s] ELSE receiver[s]
        BY <1>1
      <4>2. /\ run'[r].at = "old" /\ run'[r].name = k /\ run'[r].left = run[r].left
            /\ run'[r].want = run[r].want /\ run'[r].gone = run[r].gone
        BY <1>5, <3>3
      <4> QED
        BY <1>1, <1>5, <3>1, <4>1, <4>2 DEF Knows, Done, Deployed, Proves, Loaded, Targets
    <3> QED
      BY <3>2, <3>3
  <2> QED
    BY <2>2, <2>3, <2>4, <2>5
<1> QED
  BY <1>6, <1>7, <1>8 DEF SecretsInv

\* The new value is taken; with the last of them the run has succeeded, and what is served
\* then is where the next one starts from.
LEMMA ProbesNewKeeps ==
    ASSUME SecretsInv, NEW r \in Run, ProbesNew(r)
    PROVE  SecretsInv'
<1> DEFINE k == run[r].name
           last == run[r].left = {k}
           good == Taken(k) = run[r].want[k]
           at == IF last THEN "verified" ELSE "proving"
           next == [run[r] EXCEPT !.at = at, !.left = run[r].left \ {k}]
<1>1. /\ ScriptsTyped /\ Outfitted(r) /\ run[r].at = "new" /\ Proves(r)
      /\ run[r] \in Script /\ run \in [Run -> Script]
      /\ UNCHANGED <<env, service, receiver, deploy, deployed, snapshot, fresh, tangled, production, keyring>>
      /\ origin' = (IF good /\ last THEN service ELSE origin)
      /\ since' = (IF good /\ last THEN {} ELSE since)
  BY DEF SecretsInv, ProbesNew, production, keyring, Outfitted, ScriptsTyped, Deployed
<1>2. CASE ~good
  <2>1. Becomes(r, "failed")
    BY <1>2 DEF ProbesNew
  <2>2. UNCHANGED <<production, keyring, history>>
    BY <1>1, <1>2 DEF history
  <2> QED
    BY <1>1, <2>1, <2>2, RunGoesOn DEF Steps
<1>3. CASE good
  <2>1. run' = [run EXCEPT ![r] = next]
    BY <1>1, <1>3 DEF ProbesNew
  <2>2. /\ next \in Script /\ next.at = at /\ next.left = run[r].left \ {k} /\ next.job = run[r].job
        /\ next.name = k /\ next.want = run[r].want /\ next.gone = run[r].gone
    BY <1>1 DEF Script, Steps
  <2> HIDE DEF next
  <2>3. /\ run' \in [Run -> Script] /\ run'[r] = next
        /\ \A o \in Run : o # r => run'[o] = run[o]
    BY <1>1, <2>1, <2>2
  <2>4. origin' \in Values /\ since' \subseteq Run
    BY <1>1 DEF ScriptsTyped
  <2>5. ScriptsTyped'
    BY <1>1, <2>3, <2>4 DEF ScriptsTyped
  <2>6. ASSUME NEW o \in Run PROVE Outfitted(o)'
    <3>1. CASE o # r
      BY <1>1, <2>3, <3>1, OutfittedKept DEF SecretsInv
    <3>2. CASE o = r
      BY <1>1, <2>2, <2>3, <3>2 DEF Outfitted, Proves, Open, Deployed, Done
    <3> QED
      BY <3>1, <3>2
  <2>7. ASSUME ~tangled' PROVE Apart' /\ Kept' /\ \A o \in Run : Knows(o)'
    <3>1. Apart /\ Kept /\ (\A o \in Run : Knows(o)) /\ Knows(r)
      BY <1>1, <2>7 DEF SecretsInv
    <3>2. Apart'
      <4>1. \A o \in Run : Holds(o)' => Holds(o)
        BY <2>2, <2>3 DEF Holds
      <4>2. \A o \in Run : o \in Open' /\ Proves(o)' => o \in Open /\ Proves(o)
        BY <1>1, <2>2, <2>3 DEF Open, Proves
      <4> QED
        BY <3>1, <4>1, <4>2, ApartKept
    <3>3. /\ Targets(env) = run[r].want /\ service = run[r].want /\ (Loaded => deploy.env = run[r].want)
          /\ r \in since /\ k \in run[r].left
          /\ \A s \in Synced : run[r].gone[s] # run[r].want[s] => s \in run[r].left \/ receiver[s] = run[r].want[s]
          /\ k \in Synced => receiver[k] = run[r].want[k]
      BY <1>1, <3>1 DEF Knows, Done, Deployed
    <3>4. ASSUME NEW o \in Run, o # r PROVE Knows(o)'
      <4>1. ~(o \in Open /\ Proves(o)) /\ Outfitted(o)
        BY <1>1, <3>1, <3>4 DEF Apart, Open, SecretsInv
      <4>2. run[o].at \notin Deployed /\ ~(Proves(o) /\ run[o].at \in Done \union {"putting"})
        BY <4>1 DEF Outfitted, Open, Deployed, Done
      <4> QED
        BY <1>1, <2>3, <3>1, <3>4, <4>2 DEF Knows, Done, Deployed, Proves, Own, Targets
    <3>5. Knows(r)'
      <4>1. \A s \in Synced : run[r].gone[s] # run[r].want[s] =>
               s \in run[r].left \ {k} \/ receiver[s] = run[r].want[s]
        BY <3>3
      <4>2. at = "proving" => since' = since
        BY <1>1
      <4>3. at = "verified" => run[r].left \ {k} = {}
        OBVIOUS
      <4>4. at \in {"proving", "verified"}
        OBVIOUS
      <4> HIDE DEF k
      <4> HIDE DEF at
      <4> QED
        BY <1>1, <2>2, <2>3, <3>3, <4>1, <4>2, <4>3, <4>4 DEF Knows, Done, Deployed, Proves, Loaded, Targets
    <3>6. Kept'
      <4>1. CASE last
        <5>1. origin' = service /\ since' = {}
          BY <1>1, <1>3, <4>1
        <5>2. \A s \in Target : Targets(env)[s] = env[s]
          BY DEF Targets
        <5>3. AsBefore({})'
          BY <1>1, <3>3, <5>1, <5>2 DEF AsBefore, Loaded
        <5> QED
          BY <5>1, <5>3 DEF Kept
      <4>2. CASE ~last
        BY <1>1, <2>2, <2>3, <3>1, <4>2, KeptKept
      <4> QED
        BY <4>1, <4>2
    <3> QED
      BY <3>2, <3>4, <3>5, <3>6
  <2> QED
    BY <2>5, <2>6, <2>7 DEF SecretsInv
<1> QED
  BY <1>2, <1>3

LEMMA SecretsStep == SecretsInv /\ [SecretsNext]_secretsVars => SecretsInv'
<1> SUFFICES ASSUME SecretsInv, [SecretsNext]_secretsVars PROVE SecretsInv'
  OBVIOUS
<1>1. ASSUME NEW r \in Run, NEW k \in Target, Starts(r, "rotate", k) PROVE SecretsInv'
  BY <1>1, StartsKeeps
<1>2. ASSUME NEW r \in Run, Starts(r, "rollback", Absent) \/ Starts(r, "channel", Absent) PROVE SecretsInv'
  BY <1>2, StartsKeeps
<1>3. ASSUME NEW r \in Run, Sets(r, 0) \/ Sets(r, Absent) PROVE SecretsInv'
  BY <1>3, SetsKeeps, KeyFacts
<1>4. ASSUME NEW r \in Run, Polls(r) \/ ReadsBack(r) \/ ProbesOld(r) \/ Ends(r) \/ Fails(r)
      PROVE  SecretsInv'
  <2>1. UNCHANGED <<production, keyring, history>> /\ run[r].at # "unused"
    BY <1>4 DEF Polls, Seen, ReadsBack, ProbesOld, Ends, Fails, Open
  <2>2. \/ \E at \in {"done", "failed"} : Becomes(r, at)
        \/ run[r].at = "deploying" /\ Becomes(r, "live") /\ deployed = r
        \/ run[r].at = "live" /\ Becomes(r, "proving")
        \/ run[r].at = "old" /\ Becomes(r, "new")
    BY <1>4 DEF Polls, Seen, ReadsBack, ProbesOld, Ends, Fails
  <2> QED
    BY <2>1, <2>2, RunGoesOn DEF Steps
<1>5. CASE UNCHANGED secretsVars
  BY <1>5 DEF secretsVars, production, keyring, history, SecretsInv, ScriptsTyped, Outfitted, Apart, Kept, Knows,
              Proves, Holds, Open, Own, Targets, AsBefore, Loaded
<1> QED
  BY <1>1, <1>2, <1>3, <1>4, <1>5, ReadsKeeps, SavesKeeps, ComparesKeeps, PutsKeeps, DeploysKeeps, RenderKeeps,
     ProvingKeeps, ProbesNewKeeps DEF SecretsNext

LEMMA SecretsStart == SecretsInit => SecretsInv
<1> SUFFICES ASSUME SecretsInit PROVE SecretsInv
  OBVIOUS
<1>1. /\ env \in [Key -> Value] /\ service \in Values /\ receiver \in [Synced -> Value]
      /\ \A k \in Target : env[k] = 0 /\ service[k] = 0
  BY KeyFacts, SecretsAssumption DEF SecretsInit, Values
<1>2. Unused \in Script /\ Unused.at = "unused" /\ Unused.job = Absent
  BY DEF Unused, Script, Steps
<1>3. run \in [Run -> Script] /\ \A r \in Run : run[r].at = "unused" /\ run[r].job = Absent
  BY <1>2 DEF SecretsInit
<1>4. deploy = Absent /\ deployed = Absent /\ snapshot = Absent /\ since = {} /\ origin = service
      /\ tangled = FALSE /\ fresh \in 1..(MaxValue + 1)
  BY SecretsAssumption DEF SecretsInit
<1>5. ScriptsTyped
  BY <1>1, <1>3, <1>4 DEF ScriptsTyped
<1>6. ASSUME NEW r \in Run PROVE Outfitted(r) /\ Knows(r) /\ ~Holds(r) /\ r \notin Open
  <2>1. deployed # r
    BY <1>4, SecretsAssumption DEF Run
  <2> QED
    BY <1>3, <1>4, <2>1, SecretsAssumption DEF Outfitted, Knows, Holds, Open, Proves, Done, Deployed
<1>7. Apart
  BY <1>6 DEF Apart, Open
<1>8. Kept
  BY <1>1, <1>4 DEF Kept, AsBefore, Loaded
<1> QED
  BY <1>5, <1>6, <1>7, <1>8 DEF SecretsInv

LEMMA SecretsHold == SecretsSpec => []SecretsInv
BY SecretsStart, SecretsStep, PTL DEF SecretsSpec

\* A run that says VERIFIED has taken effect, unless it was tangled with another.
THEOREM VerifiedServed == SecretsSpec => []VerifiedIsServed
<1>1. SecretsInv => VerifiedIsServed
  BY DEF SecretsInv, VerifiedIsServed, Knows, Done, Deployed, Outfitted
<1> QED
  BY <1>1, SecretsHold, PTL

\* Only a deploy that is loaded changes what serves, only a put what is stored.
LEMMA WhoChangesWhat ==
    ASSUME SecretsInv, SecretsNext
    PROVE  /\ service' # service => Loaded /\ service' = deploy.env
           /\ env' # env => \E r \in Run : Puts(r)
<1>1. ASSUME NEW r \in Run, NEW task, NEW name, Starts(r, task, name) PROVE UNCHANGED <<service, env>>
  BY <1>1 DEF Starts, production
<1>2. ASSUME NEW r \in Run, \/ Reads(r) \/ Saves(r) \/ Compares(r) \/ Sets(r, 0) \/ Sets(r, Absent)
                            \/ Polls(r) \/ ReadsBack(r) \/ ProbesOld(r) \/ ProbesNew(r) \/ Ends(r) \/ Fails(r)
      PROVE  UNCHANGED <<service, env>>
  BY <1>2 DEF Reads, Saves, Saving, Compares, Sets, Polls, Seen, ReadsBack, ProbesOld, ProbesNew, Ends, Fails,
              production
<1>3. ASSUME NEW r \in Run, NEW k \in Target, Proving(r, k) PROVE UNCHANGED <<service, env>>
  BY <1>3 DEF Proving
<1>4. ASSUME NEW r \in Run, Deploys(r) \/ Puts(r) PROVE UNCHANGED service /\ (UNCHANGED env \/ Puts(r))
  BY <1>4 DEF Deploys, Puts
<1>5. CASE Loads \/ GoesLive \/ DeployFails
  BY <1>5 DEF Loads, GoesLive, DeployFails, Loaded
<1> QED
  BY <1>1, <1>2, <1>3, <1>4, <1>5 DEF SecretsNext

\* What served before, and what others have put, outlives every run: for any targets,
\* runs and rotations.
THEOREM Survives == SecretsSpec => ValuesSurvive
<1> DEFINE one == \A r \in Run : ~tangled /\ since = {r} /\ run[r].job = "rotate" =>
                     \A k \in Target : service'[k] # service[k] => k = run[r].name
           others == ~tangled /\ env' # env =>
                        \E r \in Run : Holds(r) /\ \A k \in Key : env'[k] # env[k] => k \in Own(r)
<1>1. SecretsInv => WayBack
  BY DEF SecretsInv, Kept, WayBack
<1>2. SecretsInv /\ [SecretsNext]_secretsVars => [one]_secretsVars
  <2> SUFFICES ASSUME SecretsInv, SecretsNext, NEW r \in Run, ~tangled, since = {r}, run[r].job = "rotate",
                      NEW k \in Target, service'[k] # service[k]
               PROVE  k = run[r].name
    OBVIOUS
  <2>1. Loaded /\ service' = deploy.env
    BY WhoChangesWhat
  <2>2. AsBefore({run[r].name})
    BY DEF SecretsInv, Kept
  <2> QED
    BY <2>1, <2>2 DEF AsBefore
<1>3. SecretsInv /\ [SecretsNext]_secretsVars => [others]_secretsVars
  <2> SUFFICES ASSUME SecretsInv, SecretsNext, ~tangled, env' # env
               PROVE  \E r \in Run : Holds(r) /\ \A k \in Key : env'[k] # env[k] => k \in Own(r)
    OBVIOUS
  <2>1. PICK r \in Run : Puts(r)
    BY WhoChangesWhat
  <2>2. run[r].at = "putting" /\ env' = run[r].copy /\ Knows(r)
    BY <2>1 DEF Puts, SecretsInv
  <2> QED
    BY <2>2 DEF Knows, Holds
<1>4. SecretsSpec => [][one]_secretsVars
  BY <1>2, SecretsHold, PTL DEF SecretsSpec
<1>5. SecretsSpec => [][others]_secretsVars
  BY <1>3, SecretsHold, PTL DEF SecretsSpec
<1>6. SecretsSpec => []WayBack
  BY <1>1, SecretsHold, PTL
<1> QED
  BY <1>4, <1>5, <1>6 DEF ValuesSurvive, OneAtATime, OthersArePreserved

-----------------------------------------------------------------------------
(* PhoneService: what starts the service again. *)

\* A phone that is on and was ever opened has its alarm armed, or a receiver about to arm
\* it, or lost that receiver; the loop and the starts asked for do not even matter.
WillWake == opened /\ power = "on" => alarm # "none" \/ waking \/ cut

LEMMA WillWakeStep == WillWake /\ [PhoneServiceNext]_serviceVars => WillWake'
<1> SUFFICES ASSUME WillWake, [PhoneServiceNext]_serviceVars PROVE WillWake'
  OBVIOUS
<1>1. CASE OpenApp \/ Rearm
  BY <1>1 DEF OpenApp, Rearm, Armed, WillWake
<1>2. CASE AlarmFires
  BY <1>2 DEF AlarmFires, WillWake
<1>3. CASE BootCompleted
  BY <1>3 DEF BootCompleted, WillWake
<1>4. CASE ProcessKilled
  BY <1>4 DEF ProcessKilled, ProcessEnds, WillWake
<1>5. CASE PowerLost \/ PowerOn
  BY <1>5 DEF PowerLost, PowerOn, WillWake
<1>6. CASE UNCHANGED <<opened, power, alarm, waking, cut>>
  BY <1>6 DEF WillWake
<1> QED
  BY <1>1, <1>2, <1>3, <1>4, <1>5, <1>6
     DEF PhoneServiceNext, WorkerRuns, PushReceived, NewToken, OnStartCommand, V5Tick, SignedIn, Attach,
         SignedOut, Hear, HearNobody, SendJob, EntryArrives, EntryAges, SentOk, SentFailed, ReportLost, ErrorWritten,
         SendTimesOut, wakeVars, serviceVars

\* However the process, its receivers and the phone die, something is on its way to start the
\* v5 loop: the alarm that opening the app arms and each receiver arms anew (KeepAliveReceiver.kt:34-37).
THEOREM StartsAgain == PhoneServiceSpec => []SomethingWillStart
<1>1. PhoneServiceInit => WillWake
  BY DEF PhoneServiceInit, WillWake
<1>2. WillWake => SomethingWillStart
  BY DEF WillWake, SomethingWillStart
<1> QED
  BY <1>1, <1>2, WillWakeStep, PTL DEF PhoneServiceSpec

-----------------------------------------------------------------------------
(* PhoneService: the legacy entries. *)

\* What is spoken of: the events, and the texts of the limiter.
Event == [kind : {"added", "changed", "ghost", "removed"}, to : Listener, of : Session]
Text == [by : Listener, of : Session, blank : BOOLEAN]

LegacyTypes ==
    /\ attached \in SUBSET Listener /\ active \in [Listener -> SUBSET Session]
    /\ posted \in Seq(Event) /\ jobs \in Seq(Text)
    /\ entries \in [Session -> {"absent", "fresh", "stale", "ghost"}]
    /\ writing \in SUBSET Session /\ reports \in SUBSET Session /\ unheard \in SUBSET Session

\* Nothing has been said or done yet of a session the phone has not heard of.
Unspoken ==
    \A s \in unheard :
        /\ entries[s] = "absent" /\ s \notin writing /\ s \notin reports
        /\ \A l \in Listener : s \notin active[l]
        /\ \A e \in ToSet(posted) : e.of # s
        /\ \A j \in ToSet(jobs) : j.of # s

\* What was removed does not come back to be sent.
GoneForGood == \A e \in ToSet(posted) : e.kind = "removed" => ~Waiting(e.of)

\* EntryIsPursued, of the events as a set.
Chased(l, s) ==
    \/ s \in active[l] \/ s \in writing
    \/ \E e \in ToSet(posted) : e.to = l /\ e.of = s /\ e.kind # "removed"

Pursued == \A l \in attached, s \in Session : Waiting(s) => Chased(l, s)

LegacyInv == LegacyTypes /\ Unspoken /\ GoneForGood /\ Pursued

\* A finite set is told in a sequence that has all of it, and nothing else.
LEMMA ToldAll ==
    ASSUME NEW S, IsFiniteSet(S)
    PROVE  SetToSeq(S) \in Seq(S) /\ ToSet(SetToSeq(S)) = S
<1> DEFINE n == Cardinality(S)
           q == SetToSeq(S)
<1>1. n \in Nat /\ ExistsBijection(1..n, S)
  BY FS_CardinalityType
<1>2. PICK f \in Bijection(1..n, S) : TRUE
  BY <1>1 DEF ExistsBijection
<1>3. f \in [1..n -> S] /\ IsInjective(f)
  BY <1>2 DEF Bijection, Injection
<1>4. q \in [1..n -> S] /\ IsInjective(q)
  BY <1>3 DEF SetToSeq
<1>5. q \in Injection(1..n, S)
  BY <1>4 DEF Injection
<1>6. Cardinality(1..n) = n
  BY <1>1, FS_Interval
<1> HIDE DEF q, n
<1>7. q \in Surjection(1..n, S)
  BY <1>5, <1>6, FS_Injection DEF n
<1>8. \A x \in S : \E i \in 1..n : q[i] = x
  BY <1>7 DEF Surjection
<1>9. q \in Seq(S)
  BY <1>1, <1>4
<1>10. DOMAIN q = 1..n
  BY <1>4
<1>11. ToSet(q) = S
  BY <1>4, <1>8, <1>10 DEF ToSet
<1> QED
  BY <1>9, <1>11 DEF q

\* What is on its way once the events S were told as well.
With(p, S) == p \o SetToSeq(S)

\* What is told comes on top of what was on its way.
LEMMA ToldMore ==
    ASSUME NEW p \in Seq(Event), NEW S \in SUBSET Event, IsFiniteSet(S)
    PROVE  With(p, S) \in Seq(Event) /\ ToSet(With(p, S)) = ToSet(p) \union S
<1> DEFINE t == SetToSeq(S)
<1>1. t \in Seq(S) /\ ToSet(t) = S
  BY ToldAll
<1>2. t \in Seq(Event)
  BY <1>1
<1> HIDE DEF t
<1>3. p \o t \in Seq(Event)
  BY <1>2
<1>4. ToSet(p \o t) = ToSet(p) \union ToSet(t)
  <2>1. ASSUME NEW e \in ToSet(p \o t) PROVE e \in ToSet(p) \union ToSet(t)
    <3>1. PICK i \in 1..(Len(p) + Len(t)) : e = (p \o t)[i]
      BY <1>2, <2>1 DEF ToSet
    <3>2. CASE i <= Len(p)
      BY <1>2, <3>1, <3>2 DEF ToSet
    <3>3. CASE i > Len(p)
      <4>1. i - Len(p) \in 1..Len(t) /\ e = t[i - Len(p)]
        BY <1>2, <3>1, <3>3
      <4> QED
        BY <1>2, <4>1 DEF ToSet
    <3> QED
      BY <1>2, <3>1, <3>2, <3>3
  <2>2. ASSUME NEW e \in ToSet(p) PROVE e \in ToSet(p \o t)
    <3>1. PICK i \in 1..Len(p) : e = p[i]
      BY <2>2 DEF ToSet
    <3>2. i \in 1..Len(p \o t) /\ (p \o t)[i] = e
      BY <1>2, <3>1
    <3> QED
      BY <1>2, <1>3, <3>2 DEF ToSet
  <2>3. ASSUME NEW e \in ToSet(t) PROVE e \in ToSet(p \o t)
    <3>1. PICK i \in 1..Len(t) : e = t[i]
      BY <1>2, <2>3 DEF ToSet
    <3>2. i + Len(p) \in 1..Len(p \o t) /\ (p \o t)[i + Len(p)] = e
      BY <1>2, <3>1
    <3> QED
      BY <1>2, <1>3, <3>2 DEF ToSet
  <2> QED
    BY <2>1, <2>2, <2>3
<1> QED
  BY <1>1, <1>3, <1>4 DEF t, With

\* A sequence is its head and its tail.
LEMMA HeadAndTail ==
    ASSUME NEW T, NEW p \in Seq(T), p # <<>>
    PROVE  /\ Head(p) \in T /\ Tail(p) \in Seq(T)
           /\ ToSet(p) = ToSet(Tail(p)) \union {Head(p)}
<1>1. Head(p) \in T /\ Tail(p) \in Seq(T)
  OBVIOUS
<1>2. ASSUME NEW e \in ToSet(p) PROVE e \in ToSet(Tail(p)) \union {Head(p)}
  <2>1. PICK i \in 1..Len(p) : e = p[i]
    BY <1>2 DEF ToSet
  <2>2. CASE i = 1
    BY <2>1, <2>2
  <2>3. CASE i # 1
    <3>1. i - 1 \in 1..Len(Tail(p)) /\ Tail(p)[i - 1] = e
      BY <2>1, <2>3
    <3>2. i - 1 \in DOMAIN Tail(p)
      BY <1>1, <3>1
    <3>3. e \in ToSet(Tail(p))
      BY <3>1, <3>2 DEF ToSet
    <3> QED
      BY <3>3
  <2> QED
    BY <2>2, <2>3
<1>3. ASSUME NEW e \in ToSet(Tail(p)) PROVE e \in ToSet(p)
  <2>1. PICK i \in 1..Len(Tail(p)) : e = Tail(p)[i]
    BY <1>1, <1>3 DEF ToSet
  <2>2. i + 1 \in 1..Len(p) /\ p[i + 1] = e
    BY <2>1
  <2> QED
    BY <2>2 DEF ToSet
<1>4. Head(p) \in ToSet(p)
  <2>1. 1 \in 1..Len(p) /\ p[1] = Head(p)
    OBVIOUS
  <2> QED
    BY <2>1 DEF ToSet
<1> QED
  BY <1>1, <1>2, <1>3, <1>4

\* An event of s for each listener attached: a finite set.
LEMMA EventsOf ==
    ASSUME LegacyTypes, NEW s \in Session, NEW kind \in {"added", "changed", "ghost", "removed"}
    PROVE  ToAll(kind, s) \in SUBSET Event /\ IsFiniteSet(ToAll(kind, s))
<1> DEFINE E == ToAll(kind, s)
           f == [l \in attached |-> [kind |-> kind, to |-> l, of |-> s]]
<1>1. E \in SUBSET Event
  BY DEF ToAll, LegacyTypes, Event
<1>2. f \in Surjection(attached, E)
  BY DEF ToAll, Surjection
<1>3. IsFiniteSet(Listener)
  BY PhoneServiceAssumption, FS_Interval DEF Listener
<1>4. IsFiniteSet(attached)
  BY <1>3, FS_Subset DEF LegacyTypes
<1> HIDE DEF f, E
<1>5. IsFiniteSet(E)
  BY <1>2, <1>4, FS_Surjection
<1> QED
  BY <1>1, <1>5 DEF E

\* So are those of all entries, that a new listener is told.
LEMMA EventsOfAdded ==
    ASSUME LegacyTypes, NEW l \in Listener
    PROVE  LET E == {[kind |-> IF Waiting(s) THEN "added" ELSE "ghost", to |-> l, of |-> s]
                     : s \in {r \in Session : entries[r] # "absent"}}
           IN  E \in SUBSET Event /\ IsFiniteSet(E)
<1> DEFINE P == {r \in Session : entries[r] # "absent"}
           E == {[kind |-> IF Waiting(s) THEN "added" ELSE "ghost", to |-> l, of |-> s] : s \in P}
           f == [s \in P |-> [kind |-> IF Waiting(s) THEN "added" ELSE "ghost", to |-> l, of |-> s]]
<1>1. E \in SUBSET Event
  BY DEF Event
<1>2. f \in Surjection(P, E)
  BY DEF Surjection
<1>3. P \in SUBSET Session
  OBVIOUS
<1> HIDE DEF f, E, P
<1>4. IsFiniteSet(P)
  BY <1>3, PhoneServiceAssumption, FS_Subset
<1>5. IsFiniteSet(E)
  BY <1>2, <1>4, FS_Surjection
<1> QED
  BY <1>1, <1>5 DEF E, P

\* What is on its way is an event, of a session.
LEMMA EventsAre == \A p \in Seq(Event) : \A e \in ToSet(p) : e \in Event /\ e.of \in Session
<1> SUFFICES ASSUME NEW p \in Seq(Event), NEW e \in ToSet(p) PROVE e \in Event
  BY DEF Event
<1>1. PICK i \in DOMAIN p : e = p[i]
  BY DEF ToSet
<1> QED
  BY <1>1

\* Of numbers there is a least.
LEMMA LeastOf ==
    ASSUME NEW B, B \subseteq Nat, B # {}
    PROVE  \E m \in B : \A k \in B : m <= k
<1>1. PICK m \in B : \A k \in B : ~(<<k, m>> \in OpToRel(<, Nat))
  BY NatLessThanWellFounded, WFMin
<1>2. ASSUME NEW k \in B PROVE m <= k
  <2>1. ~(k < m)
    BY <1>1 DEF OpToRel
  <2> QED
    BY <2>1
<1> QED
  BY <1>2

\* A told event reaches every listener attached.
LEMMA TellIs ==
    ASSUME LegacyTypes, NEW s \in Session, NEW kind \in {"added", "changed", "ghost"},
           NEW more \in Seq(Event),
           NEW told, told = With(more, ToAll(kind, s))
    PROVE  /\ told \in Seq(Event)
           /\ \A e \in ToSet(more) : e \in ToSet(told)
           /\ \A e \in ToSet(told) : e \notin ToSet(more) => e.kind = kind /\ e.of = s
           /\ \A l \in attached : \E e \in ToSet(told) : e.to = l /\ e.of = s /\ e.kind # "removed"
<1> DEFINE E == ToAll(kind, s)
<1>1. E \in SUBSET Event /\ IsFiniteSet(E)
  BY EventsOf
<1>2. told \in Seq(Event) /\ ToSet(told) = ToSet(more) \union E
  BY <1>1, ToldMore
<1>3. \A e \in E : e.kind = kind /\ e.of = s
  BY DEF ToAll
<1>4. ASSUME NEW l \in attached PROVE \E e \in E : e.to = l /\ e.of = s /\ e.kind # "removed"
  <2>1. [kind |-> kind, to |-> l, of |-> s] \in E
    BY DEF ToAll
  <2> QED
    BY <2>1
<1> HIDE DEF E
<1> QED
  BY <1>2, <1>3, <1>4 DEF E

\* That an entry is gone is told as well.
LEMMA RemovedIs ==
    ASSUME LegacyTypes, NEW s \in Session, NEW more \in Seq(Event),
           NEW told, told = With(more, ToAll("removed", s))
    PROVE  /\ told \in Seq(Event)
           /\ \A e \in ToSet(more) : e \in ToSet(told)
           /\ \A e \in ToSet(told) : e \notin ToSet(more) => e.kind = "removed" /\ e.of = s
<1> DEFINE E == ToAll("removed", s)
<1>1. E \in SUBSET Event /\ IsFiniteSet(E)
  BY EventsOf
<1>2. told \in Seq(Event) /\ ToSet(told) = ToSet(more) \union E
  BY <1>1, ToldMore
<1>3. \A e \in E : e.kind = "removed" /\ e.of = s
  BY DEF ToAll
<1> HIDE DEF E
<1> QED
  BY <1>2, <1>3 DEF E

-----------------------------------------------------------------------------

\* The phone hears of an entry.
LEMMA ArrivalChased == \A s \in Session : LegacyInv /\ EntryArrives(s) => LegacyInv'
<1> SUFFICES ASSUME NEW s \in Session, LegacyInv, EntryArrives(s) PROVE LegacyInv'
  OBVIOUS
<1> USE DEF LegacyInv
<1>0. LegacyTypes /\ posted \in Seq(Event) /\ "added" \in {"added", "changed", "ghost"}
  BY DEF LegacyTypes
<1>1. /\ posted' \in Seq(Event)
      /\ \A e \in ToSet(posted) : e \in ToSet(posted')
      /\ \A e \in ToSet(posted') : e \notin ToSet(posted) => e.kind = "added" /\ e.of = s
      /\ \A l \in attached : \E e \in ToSet(posted') : e.to = l /\ e.of = s /\ e.kind # "removed"
  <2>1. posted' = With(posted, ToAll("added", s))
    BY DEF EntryArrives, Tell, With
  <2> QED
    BY <1>0, <2>1, TellIs
<1>2. /\ s \in unheard /\ unheard' = unheard \ {s} /\ entries' = [entries EXCEPT ![s] = "fresh"]
      /\ UNCHANGED <<attached, active, writing, jobs, reports>>
  BY DEF EntryArrives
<1>3. LegacyTypes'
  BY <1>1, <1>2 DEF LegacyTypes
<1>4. Unspoken'
  BY <1>1, <1>2 DEF Unspoken, LegacyTypes
<1>5. GoneForGood'
  <2> SUFFICES ASSUME NEW e \in ToSet(posted'), e.kind = "removed" PROVE ~Waiting(e.of)'
    BY DEF GoneForGood
  <2>1. e \in ToSet(posted)
    BY <1>1
  <2>2. e.of # s /\ ~Waiting(e.of)
    BY <1>2, <2>1 DEF Unspoken, GoneForGood
  <2> QED
    BY <1>2, <2>2 DEF Waiting, LegacyTypes
<1>6. Pursued'
  <2> SUFFICES ASSUME NEW l \in attached, NEW t \in Session, Waiting(t)' PROVE Chased(l, t)'
    BY <1>2 DEF Pursued
  <2>1. CASE t = s
    BY <1>1, <2>1 DEF Chased
  <2>2. CASE t # s
    <3>1. Chased(l, t)
      BY <1>2, <2>2 DEF Pursued, Waiting, LegacyTypes
    <3> QED
      BY <1>1, <1>2, <3>1 DEF Chased
  <2> QED
    BY <2>1, <2>2
<1> QED
  BY <1>3, <1>4, <1>5, <1>6

\* Time passes for an entry.
LEMMA AgeChased == \A s \in Session : LegacyInv /\ EntryAges(s) => LegacyInv'
<1> SUFFICES ASSUME NEW s \in Session, LegacyInv, EntryAges(s) PROVE LegacyInv'
  OBVIOUS
<1> USE DEF LegacyInv
<1>1. /\ entries[s] = "fresh" /\ entries' = [entries EXCEPT ![s] = "stale"]
      /\ UNCHANGED <<attached, active, posted, writing, jobs, reports, unheard>>
  BY DEF EntryAges
<1>2. LegacyTypes'
  BY <1>1 DEF LegacyTypes
<1>3. \A t \in Session : Waiting(t)' <=> Waiting(t)
  BY <1>1 DEF Waiting, LegacyTypes
<1>4. Unspoken'
  BY <1>1 DEF Unspoken, LegacyTypes
<1>5. GoneForGood'
  <2> SUFFICES ASSUME NEW e \in ToSet(posted), e.kind = "removed" PROVE ~Waiting(e.of)'
    BY <1>1 DEF GoneForGood
  <2>1. e.of \in Session
    BY EventsAre DEF LegacyTypes
  <2> QED
    BY <1>3, <2>1 DEF GoneForGood
<1>6. Pursued'
  BY <1>1, <1>3 DEF Pursued, Chased
<1> QED
  BY <1>2, <1>4, <1>5, <1>6

\* Listeners come, go, and die with the process; kill or stop, no event of theirs is needed.
LEMMA ListenersChased ==
    LegacyInv /\ (SignedIn \/ Attach \/ ProcessKilled \/ PowerLost) => LegacyInv'
<1> USE DEF LegacyInv
<1>1. ASSUME LegacyInv, SignedIn PROVE LegacyInv'
  <2>1. /\ attached' = attached \ {listening}
        /\ active' = [l \in Listener |-> IF l = listening THEN {} ELSE active[l]]
        /\ UNCHANGED <<posted, entries, writing, jobs, reports, unheard>>
    BY <1>1 DEF SignedIn
  <2>2. LegacyTypes'
    BY <1>1, <2>1 DEF LegacyTypes
  <2>3. Unspoken'
    BY <1>1, <2>1 DEF Unspoken
  <2>4. GoneForGood'
    BY <1>1, <2>1 DEF GoneForGood, Waiting
  <2>5. Pursued'
    BY <1>1, <2>1 DEF Pursued, Chased, Waiting, LegacyTypes
  <2> QED
    BY <2>2, <2>3, <2>4, <2>5
<1>2. ASSUME LegacyInv, Attach PROVE LegacyInv'
  <2>1. PICK l \in Free : /\ posted' = posted \o Added(l) /\ attached' = attached \union {l}
                          /\ active' = [active EXCEPT ![l] = {}]
    <3>1. IsFiniteSet(Free) /\ Free \subseteq Nat /\ Free # {}
      <4>1. IsFiniteSet(Listener) /\ Listener \subseteq Nat
        BY PhoneServiceAssumption, FS_Interval DEF Listener
      <4>2. Free \in SUBSET Listener
        BY DEF Free
      <4> QED
        BY <1>2, <4>1, <4>2, FS_Subset DEF Attach
    <3>2. \E l \in Free : \A k \in Free : l <= k
      BY <3>1, LeastOf
    <3>3. (CHOOSE l \in Free : \A k \in Free : l <= k) \in Free
      BY <3>2
    <3> QED
      BY <1>2, <3>3 DEF Attach
  <2>2. UNCHANGED <<entries, writing, jobs, reports, unheard>>
    BY <1>2 DEF Attach
  <2>3. l \in Listener /\ l \notin attached
    BY <2>1 DEF Free
  <2> DEFINE E == {[kind |-> IF Waiting(s) THEN "added" ELSE "ghost", to |-> l, of |-> s]
                   : s \in {r \in Session : entries[r] # "absent"}}
  <2>4. E \in SUBSET Event /\ IsFiniteSet(E)
    BY <1>2, <2>3, EventsOfAdded
  <2>5. Added(l) = SetToSeq(E)
    BY DEF Added
  <2>6. \A e \in E : e.kind # "removed" /\ entries[e.of] # "absent" /\ e.of \in Session
    OBVIOUS
  <2>7. ASSUME NEW s \in Session, Waiting(s)
        PROVE  \E e \in E : e.to = l /\ e.of = s /\ e.kind # "removed"
    <3>1. s \in {r \in Session : entries[r] # "absent"}
      BY <2>7 DEF Waiting
    <3>2. [kind |-> IF Waiting(s) THEN "added" ELSE "ghost", to |-> l, of |-> s] \in E
      BY <3>1
    <3> QED
      BY <3>2
  <2> HIDE DEF E
  <2>8. posted' \in Seq(Event) /\ ToSet(posted') = ToSet(posted) \union E
    <3>1. posted' = With(posted, E)
      BY <2>1, <2>5 DEF With
    <3>2. posted \in Seq(Event)
      BY <1>2 DEF LegacyTypes
    <3> QED
      BY <2>4, <3>1, <3>2, ToldMore
  <2>9. LegacyTypes'
    BY <1>2, <2>1, <2>2, <2>3, <2>8 DEF LegacyTypes
  <2>10. Unspoken'
    BY <1>2, <2>1, <2>2, <2>3, <2>6, <2>8 DEF Unspoken, LegacyTypes
  <2>11. GoneForGood'
    BY <1>2, <2>2, <2>6, <2>8 DEF GoneForGood, Waiting
  <2>12. Pursued'
    <3> SUFFICES ASSUME NEW k \in attached', NEW s \in Session, Waiting(s) PROVE Chased(k, s)'
      BY <2>2 DEF Pursued, Waiting
    <3>1. CASE k = l
      BY <2>7, <2>8, <3>1 DEF Chased
    <3>2. CASE k # l
      <4>1. k \in attached /\ Chased(k, s)
        BY <1>2, <2>1, <3>2 DEF Pursued
      <4>2. active'[k] = active[k]
        BY <1>2, <2>1, <3>2, <4>1 DEF LegacyTypes
      <4> QED
        BY <2>2, <2>8, <4>1, <4>2 DEF Chased
    <3> QED
      BY <3>1, <3>2
  <2> QED
    BY <2>9, <2>10, <2>11, <2>12
<1>3. ASSUME LegacyInv, ProcessKilled \/ PowerLost PROVE LegacyInv'
  <2>1. /\ attached' = {} /\ active' = [l \in Listener |-> {}]
        /\ posted' = <<>> /\ writing' = {} /\ jobs' = <<>> /\ reports' \in {reports, {}}
        /\ UNCHANGED <<entries, unheard>>
    BY <1>3 DEF ProcessKilled, PowerLost, ProcessEnds
  <2>2. ToSet(posted') = {} /\ ToSet(jobs') = {}
    BY <2>1 DEF ToSet
  <2>3. LegacyTypes'
    BY <1>3, <2>1 DEF LegacyTypes
  <2>4. Unspoken'
    BY <1>3, <2>1, <2>2 DEF Unspoken
  <2>5. GoneForGood' /\ Pursued'
    BY <2>1, <2>2 DEF GoneForGood, Pursued
  <2> QED
    BY <2>3, <2>4, <2>5
<1> QED
  BY <1>1, <1>2, <1>3

\* A listener is called: it takes up what waits, and drops what is gone or too old.
LEMMA HearChased == LegacyInv /\ Hear => LegacyInv'
<1> SUFFICES ASSUME LegacyInv, Hear PROVE LegacyInv'
  OBVIOUS
<1> USE DEF LegacyInv
<1> DEFINE e == Head(posted)
<1>1. /\ posted # <<>> /\ e.to \in attached
      /\ \/ e.kind = "added" /\ entries[e.of] = "stale" /\ Discard(e)
         \/ e.kind # "removed" /\ Pursue(e)
         \/ e.kind = "removed" /\ Forget(e)
      /\ UNCHANGED <<attached, writing, reports, unheard>>
  BY DEF Hear
<1>2. posted \in Seq(Event)
  BY DEF LegacyTypes
<1>3. e \in Event /\ Tail(posted) \in Seq(Event) /\ ToSet(posted) = ToSet(Tail(posted)) \union {e}
  BY <1>1, <1>2, HeadAndTail
<1>4. e.to \in Listener /\ e.of \in Session /\ e.of \notin unheard
  <2>1. e \in ToSet(posted)
    BY <1>3
  <2> QED
    BY <1>3, <2>1 DEF Event, Unspoken
<1>5. \A d \in ToSet(posted) : d.of \in Session
  BY <1>2, EventsAre
<1> HIDE DEF e
<1>6. CASE e.kind # "removed" /\ Pursue(e)
  <2>1. /\ active' = [active EXCEPT ![e.to] = @ \union {e.of}]
        /\ jobs' = Append(jobs, [by |-> e.to, of |-> e.of, blank |-> e.kind = "ghost"])
        /\ posted' = Tail(posted) /\ entries' = entries
    BY <1>6 DEF Pursue
  <2>2. [by |-> e.to, of |-> e.of, blank |-> e.kind = "ghost"] \in Text
    BY <1>4 DEF Text
  <2>3. jobs' \in Seq(Text) /\ \A j \in ToSet(jobs') : j \in ToSet(jobs) \/ j.of = e.of
    BY <2>1, <2>2 DEF LegacyTypes, ToSet
  <2>4. LegacyTypes'
    BY <1>1, <1>3, <1>4, <2>1, <2>3 DEF LegacyTypes
  <2>5. \A d \in ToSet(posted') : d \in ToSet(posted)
    BY <1>3, <2>1
  <2>6. Unspoken'
    BY <1>1, <1>4, <2>1, <2>3, <2>5 DEF Unspoken, LegacyTypes
  <2>7. GoneForGood'
    BY <2>1, <2>5 DEF GoneForGood, Waiting
  <2>8. Pursued'
    <3> SUFFICES ASSUME NEW l \in attached, NEW s \in Session, Waiting(s) PROVE Chased(l, s)'
      BY <1>1, <2>1 DEF Pursued, Waiting
    <3>1. CASE l = e.to /\ s = e.of
      <4>1. s \in active'[l]
        BY <1>4, <2>1, <3>1 DEF LegacyTypes
      <4> QED
        BY <4>1 DEF Chased
    <3>2. CASE ~(l = e.to /\ s = e.of)
      <4>1. Chased(l, s)
        BY DEF Pursued
      <4>2. s \in active[l] => s \in active'[l]
        BY <1>4, <2>1 DEF LegacyTypes
      <4> QED
        BY <1>1, <1>3, <2>1, <3>2, <4>1, <4>2 DEF Chased
    <3> QED
      BY <3>1, <3>2
  <2> QED
    BY <2>4, <2>6, <2>7, <2>8
<1>7. CASE e.kind = "removed" /\ Forget(e)
  <2>1. /\ active' = [active EXCEPT ![e.to] = @ \ {e.of}]
        /\ posted' = Tail(posted) /\ entries' = entries /\ jobs' = jobs
    BY <1>7 DEF Forget
  <2>2. ~Waiting(e.of)
    <3>1. e \in ToSet(posted)
      BY <1>3
    <3> QED
      BY <1>7, <3>1 DEF GoneForGood
  <2>3. LegacyTypes'
    BY <1>1, <1>3, <1>4, <2>1 DEF LegacyTypes
  <2>4. \A d \in ToSet(posted') : d \in ToSet(posted)
    BY <1>3, <2>1
  <2>5. Unspoken'
    BY <1>1, <2>1, <2>4 DEF Unspoken, LegacyTypes
  <2>6. GoneForGood'
    BY <2>1, <2>4 DEF GoneForGood, Waiting
  <2>7. Pursued'
    <3> SUFFICES ASSUME NEW l \in attached, NEW s \in Session, Waiting(s) PROVE Chased(l, s)'
      BY <1>1, <2>1 DEF Pursued, Waiting
    <3>1. s # e.of /\ Chased(l, s)
      BY <2>2 DEF Pursued
    <3>2. s \in active[l] => s \in active'[l]
      BY <2>1, <3>1 DEF LegacyTypes
    <3> QED
      BY <1>1, <1>3, <2>1, <3>1, <3>2 DEF Chased
  <2> QED
    BY <2>3, <2>5, <2>6, <2>7
<1>8. CASE e.kind = "added" /\ entries[e.of] = "stale" /\ Discard(e)
  <2>1. /\ entries' = [entries EXCEPT ![e.of] = "absent"]
        /\ posted' = With(Tail(posted), ToAll("removed", e.of))
        /\ active' = active /\ jobs' = jobs
    BY <1>8 DEF Discard, With
  <2>2. /\ posted' \in Seq(Event)
        /\ \A d \in ToSet(Tail(posted)) : d \in ToSet(posted')
        /\ \A d \in ToSet(posted') : d \notin ToSet(Tail(posted)) => d.kind = "removed" /\ d.of = e.of
    <3> DEFINE rest == Tail(posted)
    <3>1. LegacyTypes /\ rest \in Seq(Event) /\ e.of \in Session
      BY <1>3, <1>4
    <3>2. posted' = With(rest, ToAll("removed", e.of))
      BY <2>1
    <3> HIDE DEF rest
    <3>3. /\ posted' \in Seq(Event)
          /\ \A d \in ToSet(rest) : d \in ToSet(posted')
          /\ \A d \in ToSet(posted') : d \notin ToSet(rest) => d.kind = "removed" /\ d.of = e.of
      BY <3>1, <3>2, RemovedIs
    <3> QED
      BY <3>3 DEF rest
  <2>3. LegacyTypes'
    BY <1>1, <1>4, <2>1, <2>2 DEF LegacyTypes
  <2>4. \A d \in ToSet(posted') : d \in ToSet(posted) \/ d.of = e.of
    BY <1>3, <2>2
  <2>5. Unspoken'
    BY <1>1, <1>4, <2>1, <2>4 DEF Unspoken, LegacyTypes
  <2>6. \A s \in Session : Waiting(s)' <=> Waiting(s) /\ s # e.of
    BY <1>4, <2>1 DEF Waiting, LegacyTypes
  <2>7. GoneForGood'
    <3> SUFFICES ASSUME NEW d \in ToSet(posted'), d.kind = "removed" PROVE ~Waiting(d.of)'
      BY DEF GoneForGood
    <3> QED
      BY <1>4, <1>5, <2>4, <2>6 DEF GoneForGood
  <2>8. Pursued'
    <3> SUFFICES ASSUME NEW l \in attached, NEW s \in Session, Waiting(s) , s # e.of PROVE Chased(l, s)'
      BY <1>1, <2>6 DEF Pursued
    <3>1. Chased(l, s)
      BY DEF Pursued
    <3> QED
      BY <1>1, <1>3, <2>1, <2>2, <3>1 DEF Chased
  <2> QED
    BY <2>3, <2>5, <2>7, <2>8
<1> QED
  BY <1>1, <1>6, <1>7, <1>8

\* An event to a listener that was stopped is dropped.
LEMMA NobodyChased == LegacyInv /\ HearNobody => LegacyInv'
<1> SUFFICES ASSUME LegacyInv, HearNobody PROVE LegacyInv'
  OBVIOUS
<1> USE DEF LegacyInv
<1> DEFINE e == Head(posted)
<1>1. /\ posted # <<>> /\ e.to \notin attached /\ posted' = Tail(posted)
      /\ UNCHANGED <<attached, active, entries, writing, jobs, reports, unheard>>
  BY DEF HearNobody
<1>2. posted \in Seq(Event)
  BY DEF LegacyTypes
<1>3. e \in Event /\ Tail(posted) \in Seq(Event) /\ ToSet(posted) = ToSet(Tail(posted)) \union {e}
  BY <1>1, <1>2, HeadAndTail
<1> HIDE DEF e
<1>4. LegacyTypes'
  BY <1>1, <1>3 DEF LegacyTypes
<1>5. \A d \in ToSet(posted') : d \in ToSet(posted)
  BY <1>1, <1>3
<1>6. Unspoken' /\ GoneForGood'
  BY <1>1, <1>5 DEF Unspoken, GoneForGood, Waiting
<1>7. Pursued'
  BY <1>1, <1>3 DEF Pursued, Chased, Waiting
<1> QED
  BY <1>4, <1>6, <1>7

\* A text leaves the limiter, or fails there.
LEMMA JobChased == LegacyInv /\ SendJob => LegacyInv'
<1> SUFFICES ASSUME LegacyInv, SendJob PROVE LegacyInv'
  OBVIOUS
<1> USE DEF LegacyInv
<1> DEFINE j == Head(jobs)
<1>1. /\ jobs # <<>> /\ jobs' = Tail(jobs)
      /\ \/ /\ active' = [active EXCEPT ![j.by] = @ \ {j.of}]
            /\ writing' = writing \union {j.of} /\ reports' = reports
         \/ reports' = reports \union {j.of} /\ active' = active /\ writing' = writing
      /\ UNCHANGED <<attached, posted, entries, unheard>>
  BY DEF SendJob, QueueFailed
<1>2. jobs \in Seq(Text)
  BY DEF LegacyTypes
<1>3. j \in Text /\ Tail(jobs) \in Seq(Text) /\ ToSet(jobs) = ToSet(Tail(jobs)) \union {j}
  BY <1>1, <1>2, HeadAndTail
<1>4. j.by \in Listener /\ j.of \in Session /\ j.of \notin unheard
  <2>1. j \in ToSet(jobs)
    BY <1>3
  <2> QED
    BY <1>3, <2>1 DEF Text, Unspoken
<1> HIDE DEF j
<1>5. LegacyTypes'
  BY <1>1, <1>3, <1>4 DEF LegacyTypes
<1>6. \A i \in ToSet(jobs') : i \in ToSet(jobs)
  BY <1>1, <1>3
<1>7. Unspoken'
  BY <1>1, <1>4, <1>6 DEF Unspoken, LegacyTypes
<1>8. GoneForGood'
  BY <1>1 DEF GoneForGood, Waiting
<1>9. Pursued'
  <2> SUFFICES ASSUME NEW l \in attached, NEW s \in Session, Waiting(s) PROVE Chased(l, s)'
    BY <1>1 DEF Pursued, Waiting
  <2>1. Chased(l, s)
    BY DEF Pursued
  <2>2. s \in active[l] => s \in active'[l] \/ s \in writing'
    BY <1>1, <1>4 DEF LegacyTypes
  <2> QED
    BY <1>1, <2>1, <2>2 DEF Chased
<1> QED
  BY <1>5, <1>7, <1>8, <1>9

\* The radio's report, in time, late, or never.
LEMMA ReportChased ==
    \A s \in Session : LegacyInv /\ (SentOk(s) \/ SentFailed(s) \/ ReportLost(s)) => LegacyInv'
<1> SUFFICES ASSUME NEW s \in Session, LegacyInv, SentOk(s) \/ SentFailed(s) \/ ReportLost(s)
             PROVE  LegacyInv'
  OBVIOUS
<1> USE DEF LegacyInv
<1>1. CASE SentOk(s) /\ attached # {}
  <2>1. /\ s \in reports /\ reports' = reports \ {s}
        /\ active' = [l \in Listener |-> IF l \in attached THEN active[l] \ {s} ELSE active[l]]
        /\ entries' = [entries EXCEPT ![s] = "absent"]
        /\ UNCHANGED <<attached, writing, jobs, unheard>>
    BY <1>1 DEF SentOk
  <2>2. /\ posted' \in Seq(Event)
        /\ \A d \in ToSet(posted) : d \in ToSet(posted')
        /\ \A d \in ToSet(posted') : d \notin ToSet(posted) => d.kind = "removed" /\ d.of = s
    <3>1. CASE posted' = posted
      BY <3>1 DEF LegacyTypes
    <3>2. CASE posted' = With(posted, ToAll("removed", s))
      <4>1. posted \in Seq(Event)
        BY DEF LegacyTypes
      <4> QED
        BY <3>2, <4>1, RemovedIs
    <3> QED
      BY <1>1, <3>1, <3>2 DEF SentOk, Tell, With
  <2>3. LegacyTypes'
    BY <2>1, <2>2 DEF LegacyTypes
  <2>4. s \notin unheard
    BY <2>1 DEF Unspoken
  <2>5. Unspoken'
    BY <2>1, <2>2, <2>4 DEF Unspoken, LegacyTypes
  <2>6. \A t \in Session : Waiting(t)' <=> Waiting(t) /\ t # s
    BY <2>1 DEF Waiting, LegacyTypes
  <2>7. \A d \in ToSet(posted) : d.of \in Session
    BY EventsAre DEF LegacyTypes
  <2>8. GoneForGood'
    <3> SUFFICES ASSUME NEW d \in ToSet(posted'), d.kind = "removed" PROVE ~Waiting(d.of)'
      BY DEF GoneForGood
    <3> QED
      BY <2>2, <2>6, <2>7 DEF GoneForGood
  <2>9. Pursued'
    <3> SUFFICES ASSUME NEW l \in attached, NEW t \in Session, Waiting(t), t # s PROVE Chased(l, t)'
      BY <2>1, <2>6 DEF Pursued
    <3>1. Chased(l, t)
      BY DEF Pursued
    <3>2. t \in active[l] => t \in active'[l]
      BY <2>1 DEF LegacyTypes
    <3> QED
      BY <2>1, <2>2, <3>1, <3>2 DEF Chased
  <2> QED
    BY <2>3, <2>5, <2>8, <2>9
<1>2. CASE SentOk(s) /\ attached = {}
  <2>1. reports' = reports \ {s} /\ UNCHANGED <<attached, active, entries, posted, writing, jobs, unheard>>
    BY <1>2 DEF SentOk
  <2> QED
    BY <2>1 DEF LegacyTypes, Unspoken, GoneForGood, Pursued, Chased, Waiting
<1>3. CASE SentFailed(s)
  <2>1. /\ s \in reports /\ reports' = reports \ {s}
        /\ active' = [l \in Listener |-> IF l \in attached THEN active[l] \ {s} ELSE active[l]]
        /\ writing' = IF attached = {} THEN writing ELSE writing \union {s}
        /\ UNCHANGED <<attached, posted, entries, jobs, unheard>>
    BY <1>3 DEF SentFailed
  <2>2. LegacyTypes'
    BY <2>1 DEF LegacyTypes
  <2>3. Unspoken'
    BY <2>1 DEF Unspoken, LegacyTypes
  <2>4. GoneForGood'
    BY <2>1 DEF GoneForGood, Waiting
  <2>5. Pursued'
    <3> SUFFICES ASSUME NEW l \in attached, NEW t \in Session, Waiting(t) PROVE Chased(l, t)'
      BY <2>1 DEF Pursued, Waiting
    <3>1. Chased(l, t)
      BY DEF Pursued
    <3>2. t \in active[l] => t \in active'[l] \/ t \in writing'
      BY <2>1 DEF LegacyTypes
    <3> QED
      BY <2>1, <3>1, <3>2 DEF Chased
  <2> QED
    BY <2>2, <2>3, <2>4, <2>5
<1>4. CASE ReportLost(s)
  <2>1. reports' = reports \ {s} /\ UNCHANGED <<attached, active, entries, posted, writing, jobs, unheard>>
    BY <1>4 DEF ReportLost
  <2> QED
    BY <2>1 DEF LegacyTypes, Unspoken, GoneForGood, Pursued, Chased, Waiting
<1> QED
  BY <1>1, <1>2, <1>3, <1>4

\* A minute is over, or an error reaches the database and comes back as a change.
LEMMA ErrorChased ==
    \A s \in Session :
        LegacyInv /\ ((\E l \in attached : SendTimesOut(l, s)) \/ ErrorWritten(s)) => LegacyInv'
<1> SUFFICES ASSUME NEW s \in Session, LegacyInv,
                    (\E l \in attached : SendTimesOut(l, s)) \/ ErrorWritten(s)
             PROVE  LegacyInv'
  OBVIOUS
<1> USE DEF LegacyInv
<1>1. ASSUME NEW k \in attached, SendTimesOut(k, s) PROVE LegacyInv'
  <2>1. /\ s \in active[k] /\ active' = [active EXCEPT ![k] = @ \ {s}] /\ writing' = writing \union {s}
        /\ UNCHANGED <<attached, posted, entries, jobs, reports, unheard>>
    BY <1>1 DEF SendTimesOut
  <2>2. k \in Listener
    BY DEF LegacyTypes
  <2>3. LegacyTypes'
    BY <2>1, <2>2 DEF LegacyTypes
  <2>4. Unspoken'
    BY <2>1, <2>2 DEF Unspoken, LegacyTypes
  <2>5. GoneForGood'
    BY <2>1 DEF GoneForGood, Waiting
  <2>6. Pursued'
    <3> SUFFICES ASSUME NEW l \in attached, NEW t \in Session, Waiting(t) PROVE Chased(l, t)'
      BY <2>1 DEF Pursued, Waiting
    <3>1. Chased(l, t)
      BY DEF Pursued
    <3>2. t \in active[l] => t \in active'[l] \/ t \in writing'
      BY <2>1, <2>2 DEF LegacyTypes
    <3> QED
      BY <2>1, <3>1, <3>2 DEF Chased
  <2> QED
    BY <2>3, <2>4, <2>5, <2>6
<1>2. ASSUME ErrorWritten(s) PROVE LegacyInv'
  <2> DEFINE kind == IF Waiting(s) THEN "changed" ELSE "ghost"
  <2>1. /\ s \in writing /\ writing' = writing \ {s}
        /\ entries' = [entries EXCEPT ![s] = IF @ = "absent" THEN "ghost" ELSE @]
        /\ \/ entries[s] = "ghost" /\ posted' = posted
           \/ posted' = With(posted, ToAll(kind, s))
        /\ UNCHANGED <<attached, active, jobs, reports, unheard>>
    BY <1>2 DEF ErrorWritten, Tell, With
  <2>2. kind \in {"added", "changed", "ghost"} /\ posted \in Seq(Event) /\ LegacyTypes
    BY DEF LegacyTypes
  <2> HIDE DEF kind
  <2>3. /\ posted' \in Seq(Event)
        /\ \A d \in ToSet(posted) : d \in ToSet(posted')
        /\ \A d \in ToSet(posted') : d \notin ToSet(posted) => d.kind # "removed" /\ d.of = s
        /\ Waiting(s) =>
              \A l \in attached : \E d \in ToSet(posted') : d.to = l /\ d.of = s /\ d.kind # "removed"
    <3>1. CASE entries[s] = "ghost" /\ posted' = posted
      BY <2>2, <3>1 DEF Waiting
    <3>2. CASE posted' = With(posted, ToAll(kind, s))
      <4>1. /\ posted' \in Seq(Event)
            /\ \A d \in ToSet(posted) : d \in ToSet(posted')
            /\ \A d \in ToSet(posted') : d \notin ToSet(posted) => d.kind = kind /\ d.of = s
            /\ \A l \in attached : \E d \in ToSet(posted') : d.to = l /\ d.of = s /\ d.kind # "removed"
        BY <2>2, <3>2, TellIs
      <4>2. kind # "removed"
        BY <2>2
      <4> QED
        BY <4>1, <4>2
    <3> QED
      BY <2>1, <3>1, <3>2
  <2>4. LegacyTypes'
    BY <2>1, <2>3 DEF LegacyTypes
  <2>5. s \notin unheard
    BY <2>1 DEF Unspoken
  <2>6. Unspoken'
    BY <2>1, <2>3, <2>5 DEF Unspoken, LegacyTypes
  <2>7. \A t \in Session : Waiting(t)' <=> Waiting(t)
    BY <2>1 DEF Waiting, LegacyTypes
  <2>8. \A d \in ToSet(posted) : d.of \in Session
    BY EventsAre DEF LegacyTypes
  <2>9. GoneForGood'
    <3> SUFFICES ASSUME NEW d \in ToSet(posted'), d.kind = "removed" PROVE ~Waiting(d.of)'
      BY DEF GoneForGood
    <3> QED
      BY <2>3, <2>7, <2>8 DEF GoneForGood
  <2>10. Pursued'
    <3> SUFFICES ASSUME NEW l \in attached, NEW t \in Session, Waiting(t) PROVE Chased(l, t)'
      BY <2>1, <2>7 DEF Pursued
    <3>1. Chased(l, t)
      BY DEF Pursued
    <3>2. CASE t = s
      BY <2>3, <3>2 DEF Chased
    <3>3. CASE t # s
      BY <2>1, <2>3, <3>1, <3>3 DEF Chased
    <3> QED
      BY <3>2, <3>3
  <2> QED
    BY <2>4, <2>6, <2>9, <2>10
<1> QED
  BY <1>1, <1>2

\* Every step keeps the invariant; those of the starters do not touch the entries.
LEMMA LegacyStep == LegacyInv /\ [PhoneServiceNext]_serviceVars => LegacyInv'
<1> SUFFICES ASSUME LegacyInv, [PhoneServiceNext]_serviceVars PROVE LegacyInv'
  OBVIOUS
<1>1. CASE UNCHANGED sendVars
  BY <1>1 DEF sendVars, LegacyInv, LegacyTypes, Unspoken, GoneForGood, Pursued, Chased, Waiting
<1>2. CASE SignedIn \/ Attach \/ ProcessKilled \/ PowerLost
  BY <1>2, ListenersChased
<1>3. CASE Hear \/ HearNobody \/ SendJob
  BY <1>3, HearChased, NobodyChased, JobChased
<1>4. ASSUME NEW s \in Session,
             \/ EntryArrives(s) \/ EntryAges(s) \/ SentOk(s) \/ SentFailed(s) \/ ReportLost(s)
             \/ ErrorWritten(s) \/ \E l \in attached : SendTimesOut(l, s)
      PROVE  LegacyInv'
  BY <1>4, ArrivalChased, AgeChased, ReportChased, ErrorChased
<1>5. OpenApp \/ AlarmFires \/ BootCompleted \/ Rearm \/ WorkerRuns \/ PushReceived \/ NewToken
      \/ OnStartCommand \/ V5Tick \/ SignedOut \/ PowerOn => UNCHANGED sendVars
  BY DEF OpenApp, AlarmFires, BootCompleted, Rearm, WorkerRuns, PushReceived, NewToken, OnStartCommand,
         V5Tick, SignedOut, PowerOn
<1> QED
  BY <1>1, <1>2, <1>3, <1>4, <1>5 DEF PhoneServiceNext, serviceVars

\* No attached listener loses sight of an entry that waits, whatever sessions, listeners,
\* re-sends and late reports there are: what it forgets has been sent, or is being written as
\* failed, and that comes back (PendingSmsListener.kt).
THEOREM EntriesStayPursued == PhoneServiceSpec => []EntryIsPursued
<1>1. PhoneServiceInit => LegacyInv
  <2> SUFFICES ASSUME PhoneServiceInit PROVE LegacyInv
    OBVIOUS
  <2>1. ToSet(posted) = {} /\ ToSet(jobs) = {}
    BY DEF PhoneServiceInit, ToSet
  <2> QED
    BY <2>1 DEF PhoneServiceInit, LegacyInv, LegacyTypes, Unspoken, GoneForGood, Pursued
<1>2. LegacyInv => EntryIsPursued
  BY DEF LegacyInv, Pursued, Chased, EntryIsPursued, ToSet
<1> QED
  BY <1>1, <1>2, LegacyStep, PTL DEF PhoneServiceSpec

-----------------------------------------------------------------------------
(* Fleet: enrolment and numbers. *)

\* Rows are taken in order.
Filled == \E n \in 0..MaxRow : \A d \in Row : device[d] # Nobody <=> d <= n

Made(d, p) == d \in Row /\ device[d] # Nobody /\ device[d].by = p

\* The rows of a phone that have a number.
NamedRows(p) == {d \in Row : Made(d, p) /\ device[d].number # Nobody}

\* What a request is about, whatever has become of its phone.
Founded(c) ==
    LET q == call[c]
    IN  q # Nobody =>
        /\ q.kind = "number" => Made(q.row, q.phone) /\ q.number # Nobody
        /\ q.kind = "wizard" => q.number # Nobody
        /\ q.kind \in {"wizard", "heal"} /\ q.reply = "ok" => Made(q.with, q.phone)
        /\ q.reply = "clash" => q.with \in Row /\ device[q.with] # Nobody
        /\ q.kind # "heal" => q.secret # Global

\* A number the server has taken and the phone has still to hear of.
Awaited(p) == \E c \in Under(p) : call[c].kind = "number" /\ call[c].reply = "ok"

\* A phone that at most has been reset has one request at a time, still waits for it, and
\* shows what is registered unless it is about to hear of the change.
Straight(p) ==
    strays[p] \in {"none", "reset"} =>
        /\ \A c, d \in Under(p) : c = d
        /\ \A c \in Under(p) :
              LET q == call[c]
              IN  /\ q.waits
                  /\ q.kind = "heal" => key[p] = Nobody /\ number[p] = q.number
                  /\ q.kind = "number" => key[p] \in {q.row, Nobody}
                  /\ q.kind \in {"wizard", "heal"} /\ q.reply = "ok" => device[q.with].number = q.number
                  /\ q.kind = "number" /\ q.reply = "ok" => device[q.row].number = q.number
        /\ key[p] # Nobody /\ number[p] # Nobody /\ ~Awaited(p) => device[key[p]].number = number[p]

\* A phone that has not even been reset has given its number to one row at most: the one
\* it has the key of, or is about to be given.
Once(p) ==
    strays[p] = "none" =>
        /\ wizard[p] = "open" => NamedRows(p) = {}
        /\ wizard[p] = "closed" => NamedRows(p) \subseteq {key[p]}
        /\ wizard[p] = "connecting" =>
              \A d \in NamedRows(p) : \E c \in Under(p) :
                 call[c].kind = "wizard" /\ call[c].reply = "ok" /\ call[c].with = d
        /\ number[p] # Nobody => wizard[p] = "closed"
        /\ \A c \in Under(p) :
              LET q == call[c]
              IN  /\ q.kind = "wizard" => wizard[p] = "connecting"
                  /\ q.kind = "number" => wizard[p] = "closed" /\ key[p] = q.row
                  /\ q.reply = "clash" => device[q.with].by # p

Sound(p) ==
    /\ key[p] # Nobody => Made(key[p], p)
    /\ wizard[p] = "closed" => key[p] # Nobody
    /\ Straight(p) /\ Once(p)

FleetInv ==
    /\ FleetTypeOK /\ Filled
    /\ \A c \in Call : Founded(c)
    /\ \A p \in Phone : Sound(p)

-----------------------------------------------------------------------------
LEMMA Asked ==
    ASSUME FleetTypeOK, NEW c \in Call, call[c] # Nobody
    PROVE  call[c] \in Request /\ call[c].phone \in Phone
BY DEF FleetTypeOK, Request

\* What a step may do to the calls of phone p leaves the others' alone.
LEMMA OthersCalls ==
    ASSUME FleetTypeOK, NEW p \in Phone, NEW c \in Call, NEW v,
           call[c] # Nobody => call[c].phone = p,
           v # Nobody => v.phone = p,
           call' = [call EXCEPT ![c] = v]
    PROVE  \A q \in Phone \ {p} : Under(q)' = Under(q) /\ \A e \in Under(q) : call'[e] = call[e]
<1>1. call \in [Call -> Request \union {Nobody}]  BY DEF FleetTypeOK
<1>2. call'[c] = v /\ \A e \in Call \ {c} : call'[e] = call[e]  BY <1>1
<1> QED  BY <1>1, <1>2 DEF Under

\* Rows never go, and stay with the phone that made them.
RowsStay == \A d \in Row : device[d] # Nobody => device'[d] # Nobody /\ device'[d].by = device[d].by

\* An answer that rests on a row still does when rows stay.
LEMMA StillFounded ==
    ASSUME RowsStay, NEW c \in Call, Founded(c), call'[c] = call[c],
           call[c] # Nobody => call[c] \in Request
    PROVE  Founded(c)'
<1>1. CASE call[c] = Nobody  BY <1>1 DEF Founded
<1>2. CASE call[c] # Nobody
  <2> DEFINE q == call[c]
  <2>1. \A d : Made(d, q.phone) => Made(d, q.phone)'  BY DEF Made, RowsStay
  <2>2. q.kind = "number" => Made(q.row, q.phone)' /\ q.number # Nobody  BY <1>2, <2>1 DEF Founded
  <2>3. q.kind = "wizard" => q.number # Nobody  BY <1>2 DEF Founded
  <2>4. q.kind \in {"wizard", "heal"} /\ q.reply = "ok" => Made(q.with, q.phone)'  BY <1>2, <2>1 DEF Founded
  <2>5. q.reply = "clash" => q.with \in Row /\ device'[q.with] # Nobody  BY <1>2 DEF Founded, RowsStay
  <2>6. q.kind # "heal" => q.secret # Global  BY <1>2 DEF Founded
  <2> QED  BY <2>2, <2>3, <2>4, <2>5, <2>6 DEF Founded, Made
<1> QED  BY <1>1, <1>2

\* A step elsewhere: phone q keeps what it has, its requests and the numbers of its rows.
LEMMA Elsewhere ==
    ASSUME NEW q \in Phone, Sound(q), RowsStay, \A c \in Call : Founded(c),
           key'[q] = key[q], number'[q] = number[q], wizard'[q] = wizard[q], strays'[q] = strays[q],
           Under(q)' = Under(q), \A c \in Under(q) : call'[c] = call[c],
           \A d \in Row : Made(d, q)' => Made(d, q),
           \A d \in Row : Made(d, q) => device'[d].number = device[d].number
    PROVE  Sound(q)'
<1>1. \A d : Made(d, q)' <=> Made(d, q)  BY DEF Made, RowsStay
<1>2. \A d : Made(d, q) => device'[d].number = device[d].number  BY DEF Made
<1>3. NamedRows(q)' = NamedRows(q)
  <2>1. \A d \in Row : Made(d, q)' /\ device'[d].number # Nobody <=> Made(d, q) /\ device[d].number # Nobody  BY <1>1, <1>2
  <2> QED  BY <2>1 DEF NamedRows
<1>4. Awaited(q)' = Awaited(q)  BY DEF Awaited
<1>5. \A c \in Under(q) : c \in Call /\ call[c] # Nobody /\ call[c].phone = q  BY DEF Under
<1>6. \A c \in Under(q) :
        /\ call[c].kind = "number" => Made(call[c].row, q)
        /\ call[c].kind \in {"wizard", "heal"} /\ call[c].reply = "ok" => Made(call[c].with, q)
        /\ call[c].reply = "clash" => device'[call[c].with].by = device[call[c].with].by
  BY <1>5 DEF Founded, RowsStay
<1>7. Straight(q)'
  <2> SUFFICES ASSUME strays[q] \in {"none", "reset"}  PROVE Straight(q)'  BY DEF Straight
  <2>0. Straight(q)  BY DEF Sound
  <2>1. \A c, d \in Under(q) : c = d  BY <2>0 DEF Straight
  <2>2. ASSUME NEW c \in Under(q)
        PROVE  LET r == call[c]
               IN  /\ r.waits
                   /\ r.kind = "heal" => key[q] = Nobody /\ number[q] = r.number
                   /\ r.kind = "number" => key[q] \in {r.row, Nobody}
                   /\ r.kind \in {"wizard", "heal"} /\ r.reply = "ok" => device'[r.with].number = r.number
                   /\ r.kind = "number" /\ r.reply = "ok" => device'[r.row].number = r.number
    <3>1. call[c].waits  BY <2>0, <2>2 DEF Straight
    <3>2. /\ call[c].kind = "heal" => key[q] = Nobody /\ number[q] = call[c].number
          /\ call[c].kind = "number" => key[q] \in {call[c].row, Nobody}
      BY <2>0, <2>2 DEF Straight
    <3>3. ASSUME call[c].kind \in {"wizard", "heal"}, call[c].reply = "ok"
          PROVE  device'[call[c].with].number = call[c].number
      <4>1. device[call[c].with].number = call[c].number  BY <2>0, <2>2, <3>3 DEF Straight
      <4> QED  BY <4>1, <2>2, <3>3, <1>6, <1>2
    <3>4. ASSUME call[c].kind = "number", call[c].reply = "ok"
          PROVE  device'[call[c].row].number = call[c].number
      <4>1. device[call[c].row].number = call[c].number  BY <2>0, <2>2, <3>4 DEF Straight
      <4> QED  BY <4>1, <2>2, <3>4, <1>6, <1>2
    <3> QED  BY <3>1, <3>2, <3>3, <3>4
  <2>3. key[q] # Nobody /\ number[q] # Nobody /\ ~Awaited(q) => device'[key[q]].number = number[q]
    <3>1. key[q] # Nobody => Made(key[q], q)  BY DEF Sound
    <3> QED  BY <3>1, <2>0, <1>2 DEF Straight
  <2> QED  BY <2>1, <2>2, <2>3, <1>4 DEF Straight
<1>8. Once(q)'
  <2> SUFFICES ASSUME strays[q] = "none"  PROVE Once(q)'  BY DEF Once
  <2>0. Once(q)  BY DEF Sound
  <2>1. /\ wizard[q] = "open" => NamedRows(q) = {}
        /\ wizard[q] = "closed" => NamedRows(q) \subseteq {key[q]}
        /\ number[q] # Nobody => wizard[q] = "closed"
    BY <2>0 DEF Once
  <2>2. wizard[q] = "connecting" =>
              \A d \in NamedRows(q) : \E c \in Under(q) :
                 call[c].kind = "wizard" /\ call[c].reply = "ok" /\ call[c].with = d
    BY <2>0 DEF Once
  <2>3. \A c \in Under(q) :
          /\ call[c].kind = "wizard" => wizard[q] = "connecting"
          /\ call[c].kind = "number" => wizard[q] = "closed" /\ key[q] = call[c].row
          /\ call[c].reply = "clash" => device'[call[c].with].by # q
    <3> SUFFICES ASSUME NEW c \in Under(q)
                 PROVE  /\ call[c].kind = "wizard" => wizard[q] = "connecting"
                        /\ call[c].kind = "number" => wizard[q] = "closed" /\ key[q] = call[c].row
                        /\ call[c].reply = "clash" => device'[call[c].with].by # q
      OBVIOUS
    <3>1. /\ call[c].kind = "wizard" => wizard[q] = "connecting"
          /\ call[c].kind = "number" => wizard[q] = "closed" /\ key[q] = call[c].row
          /\ call[c].reply = "clash" => device[call[c].with].by # q
      BY <2>0 DEF Once
    <3>2. call[c].reply = "clash" => device'[call[c].with].by = device[call[c].with].by  BY <1>6
    <3> QED  BY <3>1, <3>2
  <2> QED  BY <2>1, <2>2, <2>3, <1>3 DEF Once
<1> QED  BY <1>1, <1>7, <1>8 DEF Sound

-----------------------------------------------------------------------------
(* Types. *)

LEMMA SendsTyped ==
    ASSUME FleetTypeOK, NEW p \in Phone, NEW c \in Call, NEW kind \in {"wizard", "heal", "number"},
           NEW s \in 0..MaxSecret \union {Nobody}, NEW n \in Number \union {Nobody}, Sends(c, p, kind, s, n)
    PROVE  /\ call' \in [Call -> Request \union {Nobody}] /\ step' \in 0..MaxStep
           /\ strays' \in [Phone -> {"none", "dropped", "reset", "lost"}]
<1>1. [phone |-> p, kind |-> kind, secret |-> s, number |-> n, row |-> key[p],
       waits |-> TRUE, reply |-> Nobody, with |-> Nobody] \in Request
  BY DEF Request, FleetTypeOK
<1>2. call' \in [Call -> Request \union {Nobody}]  BY <1>1 DEF Sends, FleetTypeOK
<1>3. step' \in 0..MaxStep  BY FleetAssumption DEF Sends, FleetTypeOK
<1>4. strays' \in [Phone -> {"none", "dropped", "reset", "lost"}]  BY DEF Sends, Stray, FleetTypeOK
<1> QED  BY <1>2, <1>3, <1>4

LEMMA RepliesTyped ==
    ASSUME FleetTypeOK, NEW c \in Call, call[c] # Nobody, NEW reply \in {"ok", "clash", "refused"},
           NEW d \in Row \union {Nobody}, Replies(c, reply, d)
    PROVE  call' \in [Call -> Request \union {Nobody}]
<1>1. call[c] \in Request  BY DEF FleetTypeOK
<1>2. [call[c] EXCEPT !.reply = reply, !.with = d] \in Request  BY <1>1 DEF Request
<1> QED  BY <1>2 DEF Replies, FleetTypeOK

LEMMA TypeStep ==
    ASSUME FleetTypeOK, \A c \in Call : Founded(c), FleetNext
    PROVE  FleetTypeOK'
<1> USE DEF serverVars, prefs
<1>1. ASSUME NEW p \in Phone, ResetEnrollment(p)  PROVE FleetTypeOK'
  BY <1>1 DEF ResetEnrollment, Stray, FleetTypeOK
<1>2. ASSUME NEW p \in Phone, OnCreate(p)  PROVE FleetTypeOK'
  <2> DEFINE its == {c \in Under(p) : call[c].kind # "heal" /\ call[c].waits}
  <2>1. \A c \in its : [call[c] EXCEPT !.waits = FALSE] \in Request
    <3> SUFFICES ASSUME NEW c \in its  PROVE [call[c] EXCEPT !.waits = FALSE] \in Request  OBVIOUS
    <3>1. call[c] \in Request  BY DEF Under, FleetTypeOK
    <3> QED  BY <3>1 DEF Request
  <2>2. call' = [c \in Call |-> IF c \in its THEN [call[c] EXCEPT !.waits = FALSE] ELSE call[c]]  BY <1>2 DEF OnCreate
  <2>3. strays' = strays \/ Stray(p, "dropped")  BY <1>2 DEF OnCreate
  <2> HIDE DEF its
  <2>4. call' \in [Call -> Request \union {Nobody}]  BY <2>1, <2>2 DEF FleetTypeOK
  <2>5. strays' \in [Phone -> {"none", "dropped", "reset", "lost"}]  BY <2>3 DEF Stray, FleetTypeOK
  <2>6. wizard' \in [Phone -> {"closed", "open", "connecting"}]  BY <1>2 DEF OnCreate, FleetTypeOK
  <2> QED  BY <1>2, <2>4, <2>5, <2>6 DEF OnCreate, FleetTypeOK
<1>3. ASSUME NEW p \in Phone, NEW c \in Call, EnrollIfNeeded(p, c)  PROVE FleetTypeOK'
  <2>1. Bearer(p) \in 0..MaxSecret \union {Nobody} /\ number[p] \in Number \union {Nobody}
    BY FleetAssumption DEF FleetTypeOK, Bearer, Global
  <2> QED  BY <1>3, <2>1, SendsTyped DEF EnrollIfNeeded, FleetTypeOK
<1>4. ASSUME NEW p \in Phone, NEW c \in Call, NEW n \in Number, NEW s \in 1..current, ConnectGateway(p, c, n, s)
      PROVE  FleetTypeOK'
  <2>1. s \in 0..MaxSecret \union {Nobody}  BY FleetAssumption DEF FleetTypeOK
  <2>2. wizard' \in [Phone -> {"closed", "open", "connecting"}]  BY <1>4 DEF ConnectGateway, FleetTypeOK
  <2>3. Sends(c, p, "wizard", s, n)  BY <1>4 DEF ConnectGateway
  <2>4. /\ call' \in [Call -> Request \union {Nobody}] /\ step' \in 0..MaxStep
        /\ strays' \in [Phone -> {"none", "dropped", "reset", "lost"}]
    BY <2>1, <2>3, SendsTyped
  <2> QED  BY <1>4, <2>2, <2>4 DEF ConnectGateway, FleetTypeOK
<1>5. ASSUME NEW p \in Phone, NEW c \in Call, NEW n \in Number \union {Nobody}, NEW s \in {secret[p], Nobody},
             SaveSettings(p, c, n, s)
      PROVE  FleetTypeOK'
  <2>1. s \in 1..MaxSecret \union {Nobody}  BY DEF FleetTypeOK
  <2>2. CASE Sends(c, p, "number", s, n) /\ UNCHANGED prefs
    <3>1. s \in 0..MaxSecret \union {Nobody}  BY <2>1, FleetAssumption
    <3>2. /\ call' \in [Call -> Request \union {Nobody}] /\ step' \in 0..MaxStep
          /\ strays' \in [Phone -> {"none", "dropped", "reset", "lost"}]
      BY <2>2, <3>1, SendsTyped
    <3> QED  BY <1>5, <2>2, <3>2 DEF SaveSettings, FleetTypeOK
  <2>3. CASE Persist(p, n, s) /\ UNCHANGED <<call, step, strays>>
    BY <1>5, <2>1, <2>3 DEF SaveSettings, Persist, FleetTypeOK
  <2> QED  BY <1>5, <2>2, <2>3 DEF SaveSettings
<1>6. ASSUME NEW c \in Call, NEW d \in Row, Clashes(c, d)  PROVE FleetTypeOK'
  BY <1>6, RepliesTyped DEF Clashes, Pending, FleetTypeOK
<1>7. ASSUME NEW c \in Call, Enrolls(c)  PROVE FleetTypeOK'
  <2> DEFINE d == Cardinality({r \in Row : device[r] # Nobody}) + 1
  <2>1. d \in Row /\ Replies(c, "ok", d) /\ call[c] # Nobody
        /\ device' = [device EXCEPT ![d] = [number |-> call[c].number, revoked |-> FALSE, by |-> call[c].phone]]
    BY <1>7 DEF Enrolls, Pending
  <2> HIDE DEF d
  <2>2. call' \in [Call -> Request \union {Nobody}]  BY <2>1, RepliesTyped
  <2>3. call[c] \in Request  BY <2>1 DEF FleetTypeOK
  <2>4. [number |-> call[c].number, revoked |-> FALSE, by |-> call[c].phone] \in Enrolled  BY <2>3 DEF Request, Enrolled
  <2>5. device' \in [Row -> Enrolled \union {Nobody}]  BY <2>1, <2>4 DEF FleetTypeOK
  <2> QED  BY <1>7, <2>2, <2>5 DEF Enrolls, FleetTypeOK
<1>8. ASSUME NEW c \in Call, SetsNumber(c)  PROVE FleetTypeOK'
  <2> DEFINE d == call[c].row
  <2>1. call[c] \in Request  BY <1>8 DEF SetsNumber, Pending, FleetTypeOK
  <2>2. d \in Row \union {Nobody} /\ call[c].number \in Number \union {Nobody}  BY <2>1 DEF Request
  <2>3. call' \in [Call -> Request \union {Nobody}]  BY <1>8, <2>2, RepliesTyped DEF SetsNumber, Pending
  <2>4. \A r \in Enrolled : [r EXCEPT !.number = call[c].number] \in Enrolled  BY <2>2 DEF Enrolled
  <2>5. device' = [device EXCEPT ![d].number = call[c].number]  BY <1>8 DEF SetsNumber
  <2>6. d \in Row /\ device[d] \in Enrolled  BY <1>8 DEF SetsNumber, Pending, Founded, Made, FleetTypeOK
  <2>7. device' \in [Row -> Enrolled \union {Nobody}]  BY <2>4, <2>5, <2>6 DEF FleetTypeOK
  <2> QED  BY <1>8, <2>3, <2>7 DEF SetsNumber, FleetTypeOK
<1>9. ASSUME NEW c \in Call, Refuses(c)  PROVE FleetTypeOK'
  BY <1>9, RepliesTyped DEF Refuses, Pending, FleetTypeOK
<1>10. ASSUME NEW d \in Row, DeleteDevice(d)  PROVE FleetTypeOK'
  <2>1. device[d] \in Enrolled  BY <1>10 DEF DeleteDevice, FleetTypeOK
  <2>2. [device[d] EXCEPT !.revoked = TRUE] \in Enrolled  BY <2>1 DEF Enrolled
  <2>3. device' \in [Row -> Enrolled \union {Nobody}]  BY <1>10, <2>2 DEF DeleteDevice, FleetTypeOK
  <2> QED  BY <1>10, <2>3 DEF DeleteDevice, FleetTypeOK
<1>11. ASSUME RotateDeviceSecret  PROVE FleetTypeOK'
  BY <1>11, FleetAssumption DEF RotateDeviceSecret, FleetTypeOK
<1>12. ASSUME NEW c \in Call, Over(c), call[c] # Nobody
       PROVE  /\ call' \in [Call -> Request \union {Nobody}] /\ step' \in 0..MaxStep
              /\ call[c] \in Request
  BY <1>12 DEF Over, FleetTypeOK
<1>13. ASSUME NEW c \in Call, Connected(c)  PROVE FleetTypeOK'
  <2> DEFINE q == call[c]
  <2>1. q \in Request /\ q.kind = "wizard" /\ q.reply = "ok" /\ q # Nobody /\ Over(c)
    BY <1>12, <1>13 DEF Connected, Returns
  <2>2. q.with \in Row \union {Nobody} /\ q.number \in Number \union {Nobody}  BY <2>1 DEF Request
  <2>3. q.secret \in 1..MaxSecret \union {Nobody}
    <3>1. q.secret \in 0..MaxSecret \union {Nobody}  BY <2>1 DEF Request
    <3>2. q.secret # 0  BY <2>1 DEF Founded, Global
    <3> QED  BY <3>1, <3>2, FleetAssumption
  <2> QED  BY <1>12, <1>13, <2>1, <2>2, <2>3 DEF Connected, FleetTypeOK
<1>14. ASSUME NEW c \in Call, NotConnected(c)  PROVE FleetTypeOK'
  BY <1>12, <1>14 DEF NotConnected, Returns, FleetTypeOK
<1>15. ASSUME NEW c \in Call, Healed(c)  PROVE FleetTypeOK'
  <2>1. call[c].with \in Row \union {Nobody}  BY <1>12, <1>15 DEF Healed, Returns, Request
  <2> QED  BY <1>12, <1>15, <2>1 DEF Healed, Returns, FleetTypeOK
<1>16. ASSUME NEW c \in Call, Verified(c)  PROVE FleetTypeOK'
  <2>1. call[c].number \in Number \union {Nobody} /\ call[c].secret \in 1..MaxSecret \union {Nobody}
    <3>1. call[c].number \in Number \union {Nobody} /\ call[c].secret \in 0..MaxSecret \union {Nobody}
      BY <1>12, <1>16 DEF Verified, Returns, Request
    <3>2. call[c].secret # 0  BY <1>16 DEF Verified, Returns, Founded, Global
    <3> QED  BY <3>1, <3>2, FleetAssumption
  <2> QED  BY <1>12, <1>16, <2>1 DEF Verified, Persist, Returns, FleetTypeOK
<1>17. ASSUME NEW c \in Call, NotVerified(c)  PROVE FleetTypeOK'
  BY <1>12, <1>17 DEF NotVerified, Returns, FleetTypeOK
<1>18. ASSUME NEW c \in Call, Unreachable(c)  PROVE FleetTypeOK'
  BY <1>12, <1>18 DEF Unreachable, Stray, FleetTypeOK
<1>19. ASSUME NEW c \in Call, Dropped(c)  PROVE FleetTypeOK'
  BY <1>12, <1>19 DEF Dropped, FleetTypeOK
<1> QED  BY <1>1, <1>2, <1>3, <1>4, <1>5, <1>6, <1>7, <1>8, <1>9, <1>10, <1>11, <1>13, <1>14, <1>15, <1>16,
            <1>17, <1>18, <1>19 DEF FleetNext

-----------------------------------------------------------------------------
(* The invariant. *)

\* A step of phone p, or of the server for it, leaves the other phones as they are.
Leaves(p) ==
    \A q \in Phone \ {p} :
        /\ key'[q] = key[q] /\ number'[q] = number[q] /\ wizard'[q] = wizard[q] /\ strays'[q] = strays[q]
        /\ Under(q)' = Under(q)
        /\ \A c \in Under(q) : call'[c] = call[c]
        /\ \A d \in Row : Made(d, q)' => Made(d, q)
        /\ \A d \in Row : Made(d, q) => device'[d].number = device[d].number

\* A step of one phone disturbs no other's agreement with its row.
LEMMA OnePhone ==
    ASSUME FleetInv, FleetTypeOK', Filled', RowsStay, NEW p \in Phone, Leaves(p), Sound(p)',
           \A c \in Call : call'[c] = call[c] \/ Founded(c)'
    PROVE  FleetInv'
<1>1. ASSUME NEW q \in Phone, q # p  PROVE Sound(q)'
  <2>1. Sound(q) /\ \A e \in Call : Founded(e)  BY DEF FleetInv
  <2>2. /\ key'[q] = key[q] /\ number'[q] = number[q] /\ wizard'[q] = wizard[q] /\ strays'[q] = strays[q]
        /\ Under(q)' = Under(q)
        /\ \A e \in Under(q) : call'[e] = call[e]
        /\ \A d \in Row : Made(d, q)' => Made(d, q)
        /\ \A d \in Row : Made(d, q) => device'[d].number = device[d].number
    BY <1>1 DEF Leaves
  <2> QED  BY <2>1, <2>2, Elsewhere
<1>2. ASSUME NEW c \in Call, call'[c] = call[c]  PROVE Founded(c)'
  <2>1. Founded(c)  BY DEF FleetInv
  <2>2. call[c] # Nobody => call[c] \in Request  BY DEF FleetInv, FleetTypeOK
  <2> QED  BY <1>2, <2>1, <2>2, StillFounded
<1> QED  BY <1>1, <1>2 DEF FleetInv

\* Where the rows do not change.
LEMMA SameRows ==
    ASSUME device' = device
    PROVE  RowsStay /\ Filled' = Filled /\ \A p : NamedRows(p)' = NamedRows(p) /\ \A d : Made(d, p)' = Made(d, p)
BY DEF RowsStay, Filled, NamedRows, Made

\* A request that is sent is one phone's.
LEMMA SendsOne ==
    ASSUME FleetTypeOK, NEW p \in Phone, NEW c \in Call, NEW kind \in {"wizard", "heal", "number"},
           NEW s \in 0..MaxSecret \union {Nobody}, NEW n \in Number \union {Nobody}, Sends(c, p, kind, s, n)
    PROVE  /\ call'[c] = [phone |-> p, kind |-> kind, secret |-> s, number |-> n, row |-> key[p],
                          waits |-> TRUE, reply |-> Nobody, with |-> Nobody]
           /\ call'[c] # Nobody /\ \A e \in Call \ {c} : call'[e] = call[e]
           /\ \A q \in Phone \ {p} : /\ strays'[q] = strays[q] /\ Under(q)' = Under(q)
                                     /\ \A e \in Under(q) : call'[e] = call[e]
           /\ strays'[p] \in {"none", "reset"} => strays'[p] = strays[p] /\ Under(p) = {} /\ Under(p)' = {c}
<1> DEFINE new == [phone |-> p, kind |-> kind, secret |-> s, number |-> n, row |-> key[p],
                   waits |-> TRUE, reply |-> Nobody, with |-> Nobody]
<1>1. call[c] = Nobody /\ call' = [call EXCEPT ![c] = new]  BY DEF Sends
<1>2. call'[c] = new /\ \A e \in Call \ {c} : call'[e] = call[e]  BY <1>1 DEF FleetTypeOK
<1>3. new.phone = p  OBVIOUS
<1>4. IF Under(p) = {} THEN strays' = strays ELSE Stray(p, "lost")  BY DEF Sends
<1>5. new # Nobody
  <2>1. new \in Request  BY DEF Request, FleetTypeOK
  <2> QED  BY <2>1, FleetAssumption
<1> HIDE DEF new
<1>6. \A q \in Phone \ {p} : Under(q)' = Under(q) /\ \A e \in Under(q) : call'[e] = call[e]
  BY <1>1, <1>3, OthersCalls
<1>7. \A q \in Phone \ {p} : strays'[q] = strays[q]  BY <1>4 DEF Stray, FleetTypeOK
<1>8. strays'[p] \in {"none", "reset"} => strays'[p] = strays[p] /\ Under(p) = {}
  BY <1>4 DEF Stray, FleetTypeOK
<1>9. Under(p) = {} => Under(p)' = {c}
  <2>1. \A e \in Call : call'[e] # Nobody /\ call'[e].phone = p <=> e = c \/ e \in Under(p)
    BY <1>1, <1>2, <1>3, <1>5 DEF Under
  <2> QED  BY <2>1 DEF Under
<1>10. call'[c] = [phone |-> p, kind |-> kind, secret |-> s, number |-> n, row |-> key[p],
                   waits |-> TRUE, reply |-> Nobody, with |-> Nobody]  BY <1>2 DEF new
<1> QED  BY <1>2, <1>5, <1>6, <1>7, <1>8, <1>9, <1>10

\* A request starts out: the wizard's from an open wizard, the service's without a key, and
\* the settings' beside a closed wizard.
LEMMA Sending ==
    ASSUME FleetInv, FleetTypeOK', NEW p \in Phone, NEW c \in Call, NEW kind \in {"wizard", "heal", "number"},
           NEW s \in 0..MaxSecret \union {Nobody}, NEW n \in Number \union {Nobody}, Sends(c, p, kind, s, n),
           device' = device, key' = key, number' = number,
           NEW w \in {"open", "closed", "connecting"}, wizard' = [wizard EXCEPT ![p] = w],
           kind = "wizard" => n # Nobody /\ s # Global /\ w = "connecting" /\ wizard[p] = "open",
           kind = "heal" => key[p] = Nobody /\ n = number[p] /\ w = wizard[p],
           kind = "number" => key[p] # Nobody /\ n # Nobody /\ s # Global /\ w = "closed" /\ wizard[p] = "closed"
    PROVE  FleetInv'
<1>t. FleetTypeOK /\ Filled /\ Sound(p)  BY DEF FleetInv
<1>1. /\ call'[c] = [phone |-> p, kind |-> kind, secret |-> s, number |-> n, row |-> key[p],
                     waits |-> TRUE, reply |-> Nobody, with |-> Nobody]
      /\ call'[c] # Nobody /\ \A e \in Call \ {c} : call'[e] = call[e]
      /\ \A q \in Phone \ {p} : /\ strays'[q] = strays[q] /\ Under(q)' = Under(q)
                                /\ \A e \in Under(q) : call'[e] = call[e]
      /\ strays'[p] \in {"none", "reset"} => strays'[p] = strays[p] /\ Under(p) = {} /\ Under(p)' = {c}
  BY <1>t, SendsOne
<1> DEFINE q == call'[c]
<1>2. /\ q.phone = p /\ q.kind = kind /\ q.secret = s /\ q.number = n /\ q.row = key[p]
      /\ q.waits /\ q.reply = Nobody
  BY <1>1
<1>3. Nobody \notin {"ok", "clash", "refused"}  BY FleetAssumption
<1>4. wizard'[p] = w /\ \A r \in Phone \ {p} : wizard'[r] = wizard[r]  BY <1>t DEF FleetTypeOK
<1>5. RowsStay /\ Filled' /\ \A r : NamedRows(r)' = NamedRows(r) /\ \A d : Made(d, r)' = Made(d, r)
  BY <1>t, SameRows
<1>6. Leaves(p)  BY <1>1, <1>4, <1>5 DEF Leaves
<1> HIDE DEF q
<1>7. Founded(c)'
  <2>1. kind = "number" => Made(key[p], p)  BY <1>t DEF Sound
  <2>2. q.reply # "ok" /\ q.reply # "clash"  BY <1>2, <1>3
  <2>3. q.kind = "number" => /\ q.row \in Row /\ device'[q.row] # Nobody /\ device'[q.row].by = q.phone
                             /\ q.number # Nobody
    BY <1>2, <2>1 DEF Made
  <2>4. q.kind = "wizard" => q.number # Nobody  BY <1>2
  <2>5. q.kind # "heal" => q.secret # Global  BY <1>2
  <2> QED  BY <2>2, <2>3, <2>4, <2>5 DEF Founded, Made, q
<1>8. Straight(p)'
  <2> SUFFICES ASSUME strays'[p] \in {"none", "reset"}  PROVE Straight(p)'  BY DEF Straight
  <2>1. Under(p) = {} /\ Under(p)' = {c} /\ strays[p] \in {"none", "reset"}  BY <1>1
  <2>2. key'[p] # Nobody /\ number'[p] # Nobody => device'[key'[p]].number = number'[p]
    BY <1>t, <2>1 DEF Sound, Straight, Awaited
  <2>3. q.kind = "heal" => key'[p] = Nobody /\ number'[p] = q.number  BY <1>2
  <2>4. q.kind = "number" => key'[p] \in {q.row, Nobody}  BY <1>2
  <2>5. q.waits /\ q.reply # "ok"  BY <1>2, <1>3
  <2> QED  BY <2>1, <2>2, <2>3, <2>4, <2>5 DEF Straight, q
<1>9. Once(p)'
  <2> SUFFICES ASSUME strays'[p] = "none"  PROVE Once(p)'  BY DEF Once
  <2>1. Under(p) = {} /\ Under(p)' = {c} /\ strays[p] = "none"  BY <1>1
  <2>2. /\ wizard[p] = "open" => NamedRows(p) = {}
        /\ wizard[p] = "closed" => NamedRows(p) \subseteq {key[p]}
        /\ number[p] # Nobody => wizard[p] = "closed"
    BY <1>t, <2>1 DEF Sound, Once
  <2>3. wizard[p] = "connecting" => NamedRows(p) = {}  BY <1>t, <2>1 DEF Sound, Once
  <2>4. wizard[p] \in {"open", "closed", "connecting"}  BY <1>t DEF FleetTypeOK
  <2>5. /\ w = "open" => NamedRows(p) = {}
        /\ w = "closed" => NamedRows(p) \subseteq {key[p]}
        /\ w = "connecting" => NamedRows(p) = {}
        /\ number[p] # Nobody => w = "closed"
    BY <2>2, <2>3, <2>4
  <2>6. /\ q.kind = "wizard" => w = "connecting"
        /\ q.kind = "number" => w = "closed" /\ key'[p] = q.row
        /\ q.reply # "clash"
    BY <1>2, <1>3
  <2> QED  BY <1>4, <1>5, <2>1, <2>5, <2>6 DEF Once, q
<1>10. Sound(p)'
  <2>1. w = "closed" => key[p] # Nobody
    <3>1. w = "closed" => wizard[p] = "closed"  OBVIOUS
    <3> QED  BY <3>1, <1>t DEF Sound
  <2>2. key'[p] # Nobody => key'[p] \in Row /\ device'[key'[p]] # Nobody /\ device'[key'[p]].by = p
    BY <1>t DEF Sound, Made
  <2>3. wizard'[p] = "closed" => key'[p] # Nobody  BY <2>1, <1>4
  <2> QED  BY <2>2, <2>3, <1>8, <1>9 DEF Sound, Made
<1> QED  BY <1>1, <1>5, <1>6, <1>7, <1>10, OnePhone

\* A reply changes one request and the phone of none.
LEMMA RepliesOne ==
    ASSUME FleetTypeOK, NEW c \in Call, call[c] # Nobody, NEW reply \in {"ok", "clash", "refused"},
           NEW d \in Row \union {Nobody}, Replies(c, reply, d)
    PROVE  /\ call'[c].phone = call[c].phone /\ call'[c].kind = call[c].kind /\ call'[c].secret = call[c].secret
           /\ call'[c].number = call[c].number /\ call'[c].row = call[c].row /\ call'[c].waits = call[c].waits
           /\ call'[c].reply = reply /\ call'[c].with = d
           /\ call'[c] # Nobody /\ \A e \in Call \ {c} : call'[e] = call[e]
           /\ \A q : Under(q)' = Under(q)
           /\ \A q \in Phone \ {call[c].phone} : \A e \in Under(q) : call'[e] = call[e]
<1> DEFINE new == [call[c] EXCEPT !.reply = reply, !.with = d]
<1>1. call[c] \in Request  BY DEF FleetTypeOK
<1>2. new \in Request  BY <1>1 DEF Request
<1>3. call'[c] = new /\ \A e \in Call \ {c} : call'[e] = call[e]  BY DEF Replies, FleetTypeOK
<1>4. /\ new.phone = call[c].phone /\ new.kind = call[c].kind /\ new.secret = call[c].secret
      /\ new.number = call[c].number /\ new.row = call[c].row /\ new.waits = call[c].waits
      /\ new.reply = reply /\ new.with = d
  BY <1>1 DEF Request
<1> HIDE DEF new
<1>5. call'[c] # Nobody  BY <1>2, <1>3, FleetAssumption
<1>6. \A e \in Call : (call'[e] # Nobody <=> call[e] # Nobody) /\ (call[e] # Nobody => call'[e].phone = call[e].phone)
  BY <1>3, <1>4, <1>5
<1>7. \A q : Under(q)' = Under(q)
  <2> SUFFICES ASSUME NEW q  PROVE Under(q)' = Under(q)  OBVIOUS
  <2> QED  BY <1>6 DEF Under
<1>8. \A q \in Phone \ {call[c].phone} : \A e \in Under(q) : call'[e] = call[e]  BY <1>3 DEF Under
<1> QED  BY <1>3, <1>4, <1>5, <1>7, <1>8

\* What a phone that was never interrupted has while its request waits for the server.
LEMMA Unanswered ==
    ASSUME FleetInv, NEW c \in Call, Pending(c, {"wizard", "heal", "number"}), NEW p, p = call[c].phone,
           strays[p] = "none"
    PROVE  /\ wizard[p] # "closed" => NamedRows(p) = {}
           /\ wizard[p] = "closed" => NamedRows(p) \subseteq {key[p]} /\ key[p] # Nobody
           /\ call[c].kind = "wizard" => wizard[p] = "connecting"
           /\ call[c].kind = "number" => wizard[p] = "closed" /\ key[p] = call[c].row
           /\ call[c].kind = "heal" => wizard[p] # "closed" /\ call[c].number = Nobody
<1>t. FleetTypeOK  BY DEF FleetInv
<1>1. call[c] # Nobody /\ call[c].reply = Nobody  BY DEF Pending
<1>2. p \in Phone  BY <1>1, <1>t, Asked
<1>3. Sound(p) /\ Straight(p) /\ Once(p) /\ c \in Under(p)  BY <1>1, <1>2 DEF FleetInv, Sound, Under
<1>4. wizard[p] = "connecting" => NamedRows(p) = {}
  <2>1. \A e \in Under(p) : e = c  BY <1>3 DEF Straight
  <2>2. wizard[p] = "connecting" =>
           \A d \in NamedRows(p) : \E e \in Under(p) : call[e].reply = "ok"  BY <1>3 DEF Once
  <2>3. call[c].reply # "ok"  BY <1>1, FleetAssumption
  <2> QED  BY <2>1, <2>2, <2>3
<1>5. wizard[p] = "open" => NamedRows(p) = {}  BY <1>3 DEF Once
<1>6. wizard[p] \in {"open", "closed", "connecting"}  BY <1>2, <1>t DEF FleetTypeOK
<1>7. wizard[p] = "closed" => NamedRows(p) \subseteq {key[p]}  BY <1>3 DEF Once
<1>8. wizard[p] = "closed" => key[p] # Nobody  BY <1>3 DEF Sound
<1>9. call[c].kind = "wizard" => wizard[p] = "connecting"  BY <1>3 DEF Once
<1>10. call[c].kind = "number" => wizard[p] = "closed" /\ key[p] = call[c].row  BY <1>3 DEF Once
<1>11. ASSUME call[c].kind = "heal"  PROVE wizard[p] # "closed" /\ call[c].number = Nobody
  <2>1. key[p] = Nobody /\ number[p] = call[c].number  BY <1>3, <1>11 DEF Straight
  <2>2. number[p] # Nobody => wizard[p] = "closed"  BY <1>3 DEF Once
  <2> QED  BY <2>1, <2>2, <1>8
<1> QED  BY <1>4, <1>5, <1>6, <1>7, <1>8, <1>9, <1>10, <1>11

\* The server replies.  What it does to the rows it does to those of the phone that asks, and
\* to their numbers only if the request is granted.
LEMMA Answering ==
    ASSUME FleetInv, FleetTypeOK', Filled', RowsStay, NEW c \in Call,
           Pending(c, {"wizard", "heal", "number"}), NEW reply \in {"ok", "clash", "refused"},
           NEW d \in Row \union {Nobody}, Replies(c, reply, d), UNCHANGED <<prefs, wizard, strays>>,
           NEW p, p = call[c].phone,
           \A q \in Phone \ {p} : \A r \in Row : /\ Made(r, q)' => Made(r, q)
                                                 /\ Made(r, q) => device'[r].number = device[r].number,
           ~(call[c].kind = "number" /\ reply = "ok") =>
              \A r \in Row : Made(r, p) => device'[r].number = device[r].number,
           call[c].kind \in {"wizard", "heal"} /\ reply = "ok" =>
              /\ d \in Row /\ device'[d] # Nobody /\ device'[d].by = p /\ device'[d].number = call[c].number
              /\ ~Made(d, p),
           call[c].kind = "number" /\ reply = "ok" => device'[call[c].row].number = call[c].number,
           reply = "clash" => d \in Row /\ device[d] # Nobody,
           strays[p] = "none" =>
              /\ wizard[p] = "open" => NamedRows(p)' = {}
              /\ wizard[p] = "closed" => NamedRows(p)' \subseteq {key[p]}
              /\ wizard[p] = "connecting" =>
                    NamedRows(p)' \subseteq {d} /\ (NamedRows(p)' # {} => call[c].kind = "wizard" /\ reply = "ok")
              /\ reply = "clash" => device'[d].by # p
    PROVE  FleetInv'
<1>t. FleetTypeOK /\ call[c] # Nobody /\ call[c].reply = Nobody  BY DEF FleetInv, Pending
<1>p. p \in Phone  BY <1>t, Asked
<1>s. Sound(p) /\ Straight(p) /\ Once(p) /\ c \in Under(p)  BY <1>t, <1>p DEF FleetInv, Sound, Under
<1>1. /\ call'[c].phone = call[c].phone /\ call'[c].kind = call[c].kind /\ call'[c].secret = call[c].secret
      /\ call'[c].number = call[c].number /\ call'[c].row = call[c].row /\ call'[c].waits = call[c].waits
      /\ call'[c].reply = reply /\ call'[c].with = d
      /\ call'[c] # Nobody /\ \A e \in Call \ {c} : call'[e] = call[e]
      /\ \A q : Under(q)' = Under(q)
      /\ \A q \in Phone \ {call[c].phone} : \A e \in Under(q) : call'[e] = call[e]
  BY <1>t, RepliesOne
<1>2. key' = key /\ number' = number /\ wizard' = wizard /\ strays' = strays  BY DEF prefs
<1>3. Leaves(p)  BY <1>1, <1>2 DEF Leaves
<1>4. Founded(c)'
  <2>0. Founded(c)  BY DEF FleetInv
  <2>1. call[c].kind = "number" => /\ call[c].row \in Row /\ device'[call[c].row] # Nobody
                                   /\ device'[call[c].row].by = p /\ call[c].number # Nobody
    BY <2>0, <1>t DEF Founded, Made, RowsStay
  <2>2. call[c].kind = "wizard" => call[c].number # Nobody  BY <2>0, <1>t DEF Founded
  <2>3. call[c].kind # "heal" => call[c].secret # Global  BY <2>0, <1>t DEF Founded
  <2>4. reply = "clash" => d \in Row /\ device'[d] # Nobody  BY DEF RowsStay
  <2> QED  BY <1>1, <2>1, <2>2, <2>3, <2>4 DEF Founded, Made
<1>5. key[p] # Nobody => key[p] \in Row /\ Made(key[p], p)  BY <1>s DEF Sound, Made
<1>6. Straight(p)'
  <2> SUFFICES ASSUME strays[p] \in {"none", "reset"}  PROVE Straight(p)'  BY <1>2 DEF Straight
  <2>1. \A e \in Under(p) : e = c  BY <1>s DEF Straight
  <2>2. Under(p)' = {c}  BY <2>1, <1>1, <1>s
  <2>3. call'[c].waits  BY <1>1, <1>s DEF Straight
  <2>4. call'[c].kind = "heal" => key'[p] = Nobody /\ number'[p] = call'[c].number  BY <1>1, <1>2, <1>s DEF Straight
  <2>5. call'[c].kind = "number" => key'[p] \in {call'[c].row, Nobody}
    <3>1. call[c].kind = "number" => key[p] \in {call[c].row, Nobody}  BY <1>s DEF Straight
    <3> QED  BY <1>1, <1>2, <3>1
  <2>6. call'[c].kind \in {"wizard", "heal"} /\ call'[c].reply = "ok" => device'[call'[c].with].number = call'[c].number
    BY <1>1
  <2>7. call'[c].kind = "number" /\ call'[c].reply = "ok" => device'[call'[c].row].number = call'[c].number
    BY <1>1
  <2>8. ~(call'[c].kind = "number" /\ call'[c].reply = "ok") =>
           (key'[p] # Nobody /\ number'[p] # Nobody => device'[key'[p]].number = number'[p])
    <3>1. ~Awaited(p)
      <4>1. call[c].reply # "ok"  BY <1>t, FleetAssumption
      <4> QED  BY <4>1, <2>1 DEF Awaited
    <3>2. key[p] # Nobody /\ number[p] # Nobody => device[key[p]].number = number[p]  BY <1>s, <3>1 DEF Straight
    <3> QED  BY <1>1, <1>2, <1>5, <3>2
  <2>9. ~Awaited(p)' => ~(call'[c].kind = "number" /\ call'[c].reply = "ok")  BY <2>2 DEF Awaited
  <2> QED  BY <2>2, <2>3, <2>4, <2>5, <2>6, <2>7, <2>8, <2>9 DEF Straight
<1>7. Once(p)'
  <2> SUFFICES ASSUME strays[p] = "none"  PROVE Once(p)'  BY <1>2 DEF Once
  <2>1. \A e \in Under(p) : e = c  BY <1>s DEF Straight
  <2>2. Under(p)' = {c}  BY <2>1, <1>1, <1>s
  <2>3. number'[p] # Nobody => wizard'[p] = "closed"  BY <1>2, <1>s DEF Once
  <2>4. /\ call'[c].kind = "wizard" => wizard'[p] = "connecting"
        /\ call'[c].kind = "number" => wizard'[p] = "closed" /\ key'[p] = call'[c].row
    BY <1>1, <1>2, <1>s DEF Once
  <2>5. call'[c].reply = "clash" => device'[call'[c].with].by # p  BY <1>1
  <2>6. wizard'[p] = "connecting" =>
           \A r \in NamedRows(p)' : call'[c].kind = "wizard" /\ call'[c].reply = "ok" /\ call'[c].with = r
    BY <1>1, <1>2
  <2>7. /\ wizard'[p] = "open" => NamedRows(p)' = {}
        /\ wizard'[p] = "closed" => NamedRows(p)' \subseteq {key'[p]}
    BY <1>2
  <2> QED  BY <2>2, <2>3, <2>4, <2>5, <2>6, <2>7 DEF Once
<1>8. Sound(p)'
  <2>1. key'[p] # Nobody => key'[p] \in Row /\ device'[key'[p]] # Nobody /\ device'[key'[p]].by = p
    BY <1>2, <1>5 DEF Made, RowsStay
  <2>2. wizard'[p] = "closed" => key'[p] # Nobody  BY <1>2, <1>s DEF Sound
  <2> QED  BY <2>1, <2>2, <1>6, <1>7 DEF Sound, Made
<1> QED  BY <1>1, <1>3, <1>4, <1>8, <1>p, OnePhone

\* The rows are taken in order, so the next is free.
LEMMA NextIsFree ==
    ASSUME Filled, NEW d, d = Cardinality({r \in Row : device[r] # Nobody}) + 1, d \in Row
    PROVE  /\ device[d] = Nobody
           /\ \A v : v # Nobody /\ device' = [device EXCEPT ![d] = v] /\ DOMAIN device = Row => Filled'
<1>1. PICK n \in 0..MaxRow : \A r \in Row : device[r] # Nobody <=> r <= n  BY DEF Filled
<1>2. {r \in Row : device[r] # Nobody} = 1..n  BY <1>1, FleetAssumption DEF Row
<1>3. Cardinality(1..n) = n  BY FS_Interval, <1>1, FleetAssumption
<1>4. d = n + 1 /\ d \in 1..MaxRow /\ n \in Nat
  <2>1. d = n + 1  BY <1>2, <1>3
  <2>2. n \in Nat  BY FleetAssumption
  <2> QED  BY <2>1, <2>2 DEF Row
<1>5. device[d] = Nobody  BY <1>1, <1>4
<1>6. ASSUME NEW v, v # Nobody, device' = [device EXCEPT ![d] = v], DOMAIN device = Row  PROVE Filled'
  <2>1. n + 1 \in 0..MaxRow  BY <1>4, FleetAssumption
  <2>2. \A r \in Row : r <= n + 1 <=> r = d \/ r <= n  BY <1>4, FleetAssumption DEF Row
  <2>3. \A r \in Row : device'[r] = IF r = d THEN v ELSE device[r]  BY <1>6
  <2>4. \A r \in Row : device'[r] # Nobody <=> r <= n + 1  BY <1>1, <1>6, <2>2, <2>3
  <2> QED  BY <2>1, <2>4 DEF Filled
<1> QED  BY <1>5, <1>6

LEMMA EnrollsStep ==
    ASSUME FleetInv, FleetTypeOK', NEW c \in Call, Enrolls(c)
    PROVE  FleetInv'
<1>0. PICK d, p : d = Cardinality({r \in Row : device[r] # Nobody}) + 1 /\ p = call[c].phone  OBVIOUS
<1> DEFINE new == [number |-> call[c].number, revoked |-> FALSE, by |-> p]
<1>t. FleetTypeOK /\ Filled  BY DEF FleetInv
<1>1. /\ Pending(c, {"wizard", "heal"}) /\ d \in Row /\ Replies(c, "ok", d)
      /\ device' = [device EXCEPT ![d] = new] /\ UNCHANGED <<prefs, wizard, strays>>
  BY <1>0 DEF Enrolls
<1>2. call[c] # Nobody /\ call[c] \in Request /\ call[c].kind \in {"wizard", "heal"} /\ p \in Phone
  BY <1>t, <1>0, <1>1, Asked DEF Pending
<1>3. new \in Enrolled  BY <1>2 DEF Request, Enrolled
<1>4. new # Nobody  BY <1>3, FleetAssumption
<1>5. new.number = call[c].number /\ new.by = p  OBVIOUS
<1> HIDE DEF new
<1>7. device[d] = Nobody /\ Filled'
  <2>1. DOMAIN device = Row  BY <1>t DEF FleetTypeOK
  <2> QED  BY <1>t, <1>1, <1>4, <1>0, <2>1, NextIsFree
<1>8. device'[d] = new /\ \A r \in Row \ {d} : device'[r] = device[r]  BY <1>1, <1>t DEF FleetTypeOK
<1>9. RowsStay  BY <1>7, <1>8 DEF RowsStay
<1>10. ASSUME NEW q \in Phone \ {p}, NEW r \in Row
       PROVE  (Made(r, q)' => Made(r, q)) /\ (Made(r, q) => device'[r].number = device[r].number)
  BY <1>5, <1>7, <1>8 DEF Made
<1>11. \A r \in Row : Made(r, p) => device'[r].number = device[r].number  BY <1>7, <1>8 DEF Made
<1>12. ~Made(d, p)  BY <1>7 DEF Made
<1>13. device'[d] # Nobody /\ device'[d].by = p /\ device'[d].number = call[c].number  BY <1>4, <1>5, <1>8
<1>14. ASSUME strays[p] = "none"
       PROVE  /\ wizard[p] = "open" => NamedRows(p)' = {}
              /\ wizard[p] = "closed" => NamedRows(p)' \subseteq {key[p]}
              /\ wizard[p] = "connecting" =>
                    NamedRows(p)' \subseteq {d} /\ (NamedRows(p)' # {} => call[c].kind = "wizard")
  <2>1. Pending(c, {"wizard", "heal", "number"})  BY <1>1 DEF Pending
  <2>2. /\ wizard[p] # "closed" => NamedRows(p) = {}
        /\ wizard[p] = "closed" => NamedRows(p) \subseteq {key[p]} /\ key[p] # Nobody
        /\ call[c].kind = "wizard" => wizard[p] = "connecting"
        /\ call[c].kind = "heal" => wizard[p] # "closed" /\ call[c].number = Nobody
    BY <2>1, <1>0, <1>14, Unanswered
  <2>3. \A r \in Row \ {d} : r \in NamedRows(p)' => r \in NamedRows(p)  BY <1>8 DEF NamedRows, Made
  <2>4. call[c].number = Nobody => d \notin NamedRows(p)'  BY <1>13 DEF NamedRows
  <2>5. NamedRows(p)' \subseteq Row  BY DEF NamedRows
  <2>6. wizard[p] # "closed"  BY <1>2, <2>2
  <2>7. NamedRows(p)' \subseteq {d}  BY <2>2, <2>3, <2>5, <2>6
  <2> QED  BY <1>2, <2>2, <2>4, <2>6, <2>7
<1>15. Pending(c, {"wizard", "heal", "number"})  BY <1>1 DEF Pending
<1>16. "ok" # "clash" /\ "ok" \in {"ok", "clash", "refused"} /\ call[c].kind # "number"  BY <1>2
<1> QED  BY <1>1, <1>7, <1>9, <1>10, <1>11, <1>12, <1>13, <1>14, <1>0, <1>15, <1>16, Answering

LEMMA SetsNumberStep ==
    ASSUME FleetInv, FleetTypeOK', NEW c \in Call, SetsNumber(c)
    PROVE  FleetInv'
<1>0. PICK d, p : d = call[c].row /\ p = call[c].phone  OBVIOUS
<1>t. FleetTypeOK /\ Filled /\ Founded(c)  BY DEF FleetInv
<1>1. /\ Pending(c, {"number"}) /\ Replies(c, "ok", d)
      /\ device' = [device EXCEPT ![d].number = call[c].number] /\ UNCHANGED <<prefs, wizard, strays>>
  BY <1>0 DEF SetsNumber
<1>2. call[c] # Nobody /\ call[c].kind = "number" /\ p \in Phone  BY <1>t, <1>0, <1>1, Asked DEF Pending
<1>3. d \in Row /\ device[d] # Nobody /\ device[d].by = p /\ Made(d, p)  BY <1>t, <1>0, <1>2 DEF Founded, Made
<1>4. device[d] \in Enrolled  BY <1>t, <1>3 DEF FleetTypeOK
<1>5. /\ device'[d] = [device[d] EXCEPT !.number = call[c].number]
      /\ \A r \in Row \ {d} : device'[r] = device[r]
  BY <1>1, <1>3, <1>t DEF FleetTypeOK
<1>6. device'[d] \in Enrolled \union {Nobody}  BY <1>3 DEF FleetTypeOK
<1>7. device'[d].number = call[c].number /\ device'[d].by = p  BY <1>3, <1>4, <1>5 DEF Enrolled
<1>8. device'[d] # Nobody
  <2>1. [device[d] EXCEPT !.number = call[c].number] \in Enrolled
    <3>1. call[c].number \in Number \union {Nobody}  BY <1>2, <1>t, Asked DEF Request
    <3> QED  BY <1>4, <3>1 DEF Enrolled
  <2> QED  BY <1>5, <2>1, FleetAssumption
<1>9. RowsStay  BY <1>3, <1>5, <1>7, <1>8 DEF RowsStay
<1>10. Filled'
  <2>1. \A r \in Row : device'[r] # Nobody <=> device[r] # Nobody  BY <1>3, <1>5, <1>8
  <2> QED  BY <1>t, <2>1 DEF Filled
<1>11. ASSUME NEW q \in Phone \ {p}, NEW r \in Row
       PROVE  (Made(r, q)' => Made(r, q)) /\ (Made(r, q) => device'[r].number = device[r].number)
  BY <1>3, <1>5, <1>7 DEF Made
<1>12. ASSUME strays[p] = "none"
       PROVE  wizard[p] = "closed" /\ NamedRows(p)' \subseteq {key[p]}
  <2>1. Pending(c, {"wizard", "heal", "number"}) /\ p = call[c].phone  BY <1>0, <1>1 DEF Pending
  <2>2. wizard[p] = "closed" /\ NamedRows(p) \subseteq {key[p]} /\ key[p] = d
    BY <2>1, <1>2, <1>12, <1>0, Unanswered
  <2>3. \A r \in Row \ {d} : r \in NamedRows(p)' => r \in NamedRows(p)  BY <1>5 DEF NamedRows, Made
  <2>4. NamedRows(p)' \subseteq Row  BY DEF NamedRows
  <2> QED  BY <2>2, <2>3, <2>4
<1>13. Pending(c, {"wizard", "heal", "number"})  BY <1>1 DEF Pending
<1>14. "ok" # "clash" /\ "ok" \in {"ok", "clash", "refused"} /\ call[c].kind \notin {"wizard", "heal"}  BY <1>2
<1> QED  BY <1>1, <1>2, <1>3, <1>7, <1>9, <1>10, <1>11, <1>12, <1>13, <1>0, <1>14, Answering

\* A refusal leaves the rows alone.
LEMMA Refusing ==
    ASSUME FleetInv, FleetTypeOK', NEW c \in Call, Pending(c, {"wizard", "heal", "number"}),
           NEW reply \in {"clash", "refused"}, NEW d \in Row \union {Nobody}, Replies(c, reply, d),
           device' = device, UNCHANGED <<prefs, wizard, strays>>, NEW p, p = call[c].phone,
           reply = "clash" => d \in Row /\ device[d] # Nobody,
           reply = "clash" /\ strays[p] = "none" => device[d].by # p
    PROVE  FleetInv'
<1>1. Filled /\ RowsStay /\ Filled' /\ \A r : NamedRows(r)' = NamedRows(r) /\ \A e : Made(e, r)' = Made(e, r)
  BY SameRows DEF FleetInv
<1>2. ASSUME strays[p] = "none"
      PROVE  /\ wizard[p] = "open" => NamedRows(p)' = {}
             /\ wizard[p] = "closed" => NamedRows(p)' \subseteq {key[p]}
             /\ wizard[p] = "connecting" => NamedRows(p)' = {}
  BY <1>1, <1>2, Unanswered
<1>3. reply # "ok" /\ reply \in {"ok", "clash", "refused"}  OBVIOUS
<1> QED  BY <1>1, <1>2, <1>3, Answering

LEMMA ClashesStep ==
    ASSUME FleetInv, FleetTypeOK', NEW c \in Call, NEW d \in Row, Clashes(c, d)
    PROVE  FleetInv'
<1>0. PICK p : p = call[c].phone  OBVIOUS
<1>1. /\ Pending(c, {"wizard", "heal", "number"}) /\ d \in Having(call[c].number) /\ Replies(c, "clash", d)
      /\ device' = device /\ UNCHANGED <<prefs, wizard, strays>>
      /\ call[c].kind = "number" => d # call[c].row
  BY DEF Clashes, serverVars
<1>2. device[d] # Nobody /\ call[c].number # Nobody /\ device[d].number = call[c].number  BY <1>1 DEF Having
<1>3. ASSUME strays[p] = "none"  PROVE device[d].by # p
  <2> SUFFICES ASSUME device[d].by = p  PROVE FALSE  OBVIOUS
  <2>1. d \in NamedRows(p)  BY <1>2 DEF NamedRows, Made
  <2>2. /\ wizard[p] # "closed" => NamedRows(p) = {}
        /\ wizard[p] = "closed" => NamedRows(p) \subseteq {key[p]}
        /\ call[c].kind = "wizard" => wizard[p] = "connecting"
        /\ call[c].kind = "number" => key[p] = call[c].row
        /\ call[c].kind = "heal" => wizard[p] # "closed"
    BY <1>0, <1>1, <1>3, Unanswered
  <2>3. call[c].kind \in {"wizard", "heal", "number"}  BY <1>1 DEF Pending
  <2> QED  BY <1>1, <2>1, <2>2, <2>3
<1> QED  BY <1>0, <1>1, <1>2, <1>3, Refusing

LEMMA RefusesStep ==
    ASSUME FleetInv, FleetTypeOK', NEW c \in Call, Refuses(c)
    PROVE  FleetInv'
BY Refusing DEF Refuses, serverVars

\* A request is over.  If nothing was lost it was the only one, and the phone has what the
\* reply tells it to have.
LEMMA Ending ==
    ASSUME FleetInv, FleetTypeOK', NEW c \in Call, call[c] # Nobody, Over(c), device' = device,
           NEW p, p = call[c].phone,
           \A q \in Phone \ {p} : /\ key'[q] = key[q] /\ number'[q] = number[q]
                                  /\ wizard'[q] = wizard[q] /\ strays'[q] = strays[q],
           strays'[p] \in {"none", "reset"} => strays'[p] = strays[p],
           key'[p] # Nobody => Made(key'[p], p),
           wizard'[p] = "closed" => key'[p] # Nobody,
           strays'[p] \in {"none", "reset"} /\ key'[p] # Nobody /\ number'[p] # Nobody =>
              device[key'[p]].number = number'[p],
           strays'[p] = "none" =>
              /\ wizard'[p] # "closed" => NamedRows(p) = {} /\ number'[p] = Nobody
              /\ wizard'[p] = "closed" => NamedRows(p) \subseteq {key'[p]}
    PROVE  FleetInv'
<1>t. FleetTypeOK /\ Filled  BY DEF FleetInv
<1>p. p \in Phone  BY <1>t, Asked
<1>s. Sound(p) /\ Straight(p)  BY <1>p DEF FleetInv, Sound
<1>1. /\ call' = [call EXCEPT ![c] = Nobody] /\ call'[c] = Nobody
      /\ \A e \in Call \ {c} : call'[e] = call[e]
  BY <1>t DEF Over, FleetTypeOK
<1>2. \A q \in Phone \ {p} : Under(q)' = Under(q) /\ \A e \in Under(q) : call'[e] = call[e]
  BY <1>1, <1>p, <1>t, OthersCalls
<1>3. RowsStay /\ Filled' /\ \A r : NamedRows(r)' = NamedRows(r) /\ \A d : Made(d, r)' = Made(d, r)
  BY <1>t, SameRows
<1>4. Leaves(p)  BY <1>2, <1>3 DEF Leaves
<1>5. Founded(c)'  BY <1>1 DEF Founded
<1>6. strays'[p] \in {"none", "reset"} => Under(p)' = {}
  <2> SUFFICES ASSUME strays'[p] \in {"none", "reset"}  PROVE Under(p)' = {}  OBVIOUS
  <2>1. \A e, d \in Under(p) : e = d  BY <1>s DEF Straight
  <2>2. c \in Under(p)  BY DEF Under
  <2>3. \A e \in Call : call'[e] = Nobody \/ call'[e].phone # p  BY <1>1, <2>1, <2>2 DEF Under
  <2> QED  BY <2>3 DEF Under
<1>7. Straight(p)'  BY <1>6 DEF Straight
<1>8. Once(p)'
  <2> SUFFICES ASSUME strays'[p] = "none"  PROVE Once(p)'  BY DEF Once
  <2>1. Under(p)' = {}  BY <1>6
  <2>2. /\ wizard'[p] = "open" => NamedRows(p)' = {}
        /\ wizard'[p] = "closed" => NamedRows(p)' \subseteq {key'[p]}
        /\ wizard'[p] = "connecting" => NamedRows(p)' = {}
        /\ number'[p] # Nobody => wizard'[p] = "closed"
    BY <1>3
  <2> QED  BY <2>1, <2>2 DEF Once
<1>9. Sound(p)'
  <2>1. key'[p] # Nobody => key'[p] \in Row /\ device'[key'[p]] # Nobody /\ device'[key'[p]].by = p  BY DEF Made
  <2> QED  BY <2>1, <1>7, <1>8 DEF Sound, Made
<1> QED  BY <1>1, <1>3, <1>4, <1>5, <1>9, <1>p, OnePhone

\* What a phone has when the reply it waits for comes.
LEMMA Answered ==
    ASSUME FleetInv, NEW c \in Call, call[c] # Nobody, NEW p, p = call[c].phone
    PROVE  /\ FleetTypeOK /\ call[c] \in Request /\ p \in Phone /\ Founded(c)
           /\ Sound(p) /\ Straight(p) /\ Once(p) /\ c \in Under(p)
           /\ strays[p] \in {"none", "reset"} => \A e \in Under(p) : e = c
           /\ strays[p] \in {"none", "reset"} /\ ~(call[c].kind = "number" /\ call[c].reply = "ok") =>
                 (key[p] # Nobody /\ number[p] # Nobody => device[key[p]].number = number[p])
           /\ strays[p] = "none" /\ ~(call[c].kind = "wizard" /\ call[c].reply = "ok") =>
                 (wizard[p] # "closed" => NamedRows(p) = {} /\ number[p] = Nobody)
           /\ strays[p] = "none" /\ call[c].kind = "wizard" =>
                 NamedRows(p) \subseteq {call[c].with} /\ number[p] = Nobody
           /\ strays[p] = "none" /\ wizard[p] = "closed" => NamedRows(p) \subseteq {key[p]}
<1>1. FleetTypeOK /\ call[c] \in Request /\ p \in Phone /\ Founded(c)  BY Asked DEF FleetInv
<1>2. Sound(p) /\ Straight(p) /\ Once(p) /\ c \in Under(p)  BY <1>1 DEF FleetInv, Sound, Under
<1>3. strays[p] \in {"none", "reset"} => \A e \in Under(p) : e = c  BY <1>2 DEF Straight
<1>4. strays[p] \in {"none", "reset"} /\ ~(call[c].kind = "number" /\ call[c].reply = "ok") =>
         (key[p] # Nobody /\ number[p] # Nobody => device[key[p]].number = number[p])
  BY <1>2, <1>3 DEF Straight, Awaited
<1>5. wizard[p] \in {"open", "closed", "connecting"}  BY <1>1 DEF FleetTypeOK
<1>6. ASSUME strays[p] = "none"
      PROVE  /\ wizard[p] = "open" => NamedRows(p) = {}
             /\ wizard[p] = "closed" => NamedRows(p) \subseteq {key[p]}
             /\ wizard[p] # "closed" => number[p] = Nobody
             /\ call[c].kind = "wizard" => wizard[p] = "connecting"
             /\ wizard[p] = "connecting" =>
                   \A d \in NamedRows(p) : call[c].kind = "wizard" /\ call[c].reply = "ok" /\ call[c].with = d
  <2>1. wizard[p] = "open" => NamedRows(p) = {}  BY <1>2, <1>6 DEF Once
  <2>2. wizard[p] = "closed" => NamedRows(p) \subseteq {key[p]}  BY <1>2, <1>6 DEF Once
  <2>3. wizard[p] # "closed" => number[p] = Nobody  BY <1>2, <1>6 DEF Once
  <2>4. call[c].kind = "wizard" => wizard[p] = "connecting"  BY <1>2, <1>6 DEF Once
  <2>5. wizard[p] = "connecting" =>
           \A d \in NamedRows(p) : \E e \in Under(p) :
              call[e].kind = "wizard" /\ call[e].reply = "ok" /\ call[e].with = d
    BY <1>2, <1>6 DEF Once
  <2>6. \A e \in Under(p) : e = c  BY <1>3, <1>6
  <2> QED  BY <2>1, <2>2, <2>3, <2>4, <2>5, <2>6
<1>7. strays[p] = "none" /\ ~(call[c].kind = "wizard" /\ call[c].reply = "ok") =>
         (wizard[p] # "closed" => NamedRows(p) = {} /\ number[p] = Nobody)
  BY <1>5, <1>6
<1>8. strays[p] = "none" /\ call[c].kind = "wizard" =>
         NamedRows(p) \subseteq {call[c].with} /\ number[p] = Nobody
  BY <1>6
<1> QED  BY <1>1, <1>2, <1>3, <1>4, <1>6, <1>7, <1>8

LEMMA ConnectedStep ==
    ASSUME FleetInv, FleetTypeOK', NEW c \in Call, Connected(c)
    PROVE  FleetInv'
<1>0. PICK p : p = call[c].phone  OBVIOUS
<1>1. /\ call[c] # Nobody /\ call[c].kind = "wizard" /\ call[c].reply = "ok" /\ call[c].waits /\ Over(c)
      /\ key' = [key EXCEPT ![p] = call[c].with] /\ number' = [number EXCEPT ![p] = call[c].number]
      /\ wizard' = [wizard EXCEPT ![p] = "closed"] /\ device' = device /\ strays' = strays
  BY <1>0 DEF Connected, Returns, serverVars
<1>2. FleetTypeOK /\ p \in Phone /\ Founded(c) /\ Straight(p) /\ c \in Under(p)  BY <1>0, <1>1, Answered
<1>3. /\ key'[p] = call[c].with /\ number'[p] = call[c].number /\ wizard'[p] = "closed"
      /\ \A q \in Phone \ {p} : key'[q] = key[q] /\ number'[q] = number[q] /\ wizard'[q] = wizard[q]
  BY <1>1, <1>2 DEF FleetTypeOK
<1>4. Made(call[c].with, p)  BY <1>0, <1>1, <1>2 DEF Founded
<1>5. call[c].with # Nobody  BY <1>4, FleetAssumption DEF Made, Row
<1>6. strays[p] \in {"none", "reset"} => device[call[c].with].number = call[c].number  BY <1>1, <1>2 DEF Straight
<1>7. strays[p] = "none" => NamedRows(p) \subseteq {call[c].with}  BY <1>0, <1>1, Answered
<1> QED  BY <1>0, <1>1, <1>3, <1>4, <1>5, <1>6, <1>7, Ending

LEMMA NotConnectedStep ==
    ASSUME FleetInv, FleetTypeOK', NEW c \in Call, NotConnected(c)
    PROVE  FleetInv'
<1>0. PICK p : p = call[c].phone  OBVIOUS
<1>1. /\ call[c] # Nobody /\ call[c].kind = "wizard" /\ call[c].reply # "ok" /\ Over(c)
      /\ wizard' = [wizard EXCEPT ![p] = "open"] /\ device' = device /\ strays' = strays
      /\ key' = key /\ number' = number
  BY <1>0 DEF NotConnected, Returns, serverVars, prefs
<1>2. FleetTypeOK /\ p \in Phone /\ Sound(p) /\ Once(p) /\ c \in Under(p)  BY <1>0, <1>1, Answered
<1>3. wizard'[p] = "open" /\ \A q \in Phone \ {p} : wizard'[q] = wizard[q]  BY <1>1, <1>2 DEF FleetTypeOK
<1>4. key[p] # Nobody => Made(key[p], p)  BY <1>2 DEF Sound
<1>5. strays[p] \in {"none", "reset"} =>
         (key[p] # Nobody /\ number[p] # Nobody => device[key[p]].number = number[p])
  BY <1>0, <1>1, Answered
<1>6. strays[p] = "none" => NamedRows(p) = {} /\ number[p] = Nobody
  <2>1. strays[p] = "none" => wizard[p] = "connecting"  BY <1>1, <1>2 DEF Once
  <2>2. strays[p] = "none" => (wizard[p] # "closed" => NamedRows(p) = {} /\ number[p] = Nobody)
    BY <1>0, <1>1, Answered
  <2> QED  BY <2>1, <2>2
<1> QED  BY <1>0, <1>1, <1>3, <1>4, <1>5, <1>6, Ending

LEMMA HealedStep ==
    ASSUME FleetInv, FleetTypeOK', NEW c \in Call, Healed(c)
    PROVE  FleetInv'
<1>0. PICK p : p = call[c].phone  OBVIOUS
<1>1. /\ call[c] # Nobody /\ call[c].kind = "heal" /\ call[c].reply = "ok" /\ Over(c)
      /\ key' = [key EXCEPT ![p] = call[c].with] /\ device' = device /\ strays' = strays
      /\ number' = number /\ wizard' = wizard
  BY <1>0 DEF Healed, Returns, serverVars
<1>2. FleetTypeOK /\ p \in Phone /\ Founded(c) /\ Sound(p) /\ Straight(p) /\ c \in Under(p)  BY <1>0, <1>1, Answered
<1>3. key'[p] = call[c].with /\ \A q \in Phone \ {p} : key'[q] = key[q]  BY <1>1, <1>2 DEF FleetTypeOK
<1>4. Made(call[c].with, p)  BY <1>0, <1>1, <1>2 DEF Founded
<1>5. call[c].with # Nobody  BY <1>4, FleetAssumption DEF Made, Row
<1>6. strays[p] \in {"none", "reset"} => device[call[c].with].number = number[p] /\ key[p] = Nobody
  BY <1>1, <1>2 DEF Straight
<1>7. strays[p] = "none" => wizard[p] # "closed"  BY <1>2, <1>6 DEF Sound
<1>8. strays[p] = "none" => NamedRows(p) = {} /\ number[p] = Nobody
  <2>1. strays[p] = "none" => (wizard[p] # "closed" => NamedRows(p) = {} /\ number[p] = Nobody)
    BY <1>0, <1>1, Answered
  <2> QED  BY <2>1, <1>7
<1> QED  BY <1>0, <1>1, <1>3, <1>4, <1>5, <1>6, <1>7, <1>8, Ending

LEMMA VerifiedStep ==
    ASSUME FleetInv, FleetTypeOK', NEW c \in Call, Verified(c)
    PROVE  FleetInv'
<1>0. PICK p : p = call[c].phone  OBVIOUS
<1>1. /\ call[c] # Nobody /\ call[c].kind = "number" /\ call[c].reply = "ok" /\ Over(c)
      /\ number' = [number EXCEPT ![p] = call[c].number] /\ device' = device /\ strays' = strays
      /\ key' = key /\ wizard' = wizard
  BY <1>0 DEF Verified, Persist, Returns, serverVars
<1>2. FleetTypeOK /\ p \in Phone /\ Sound(p) /\ Straight(p) /\ Once(p) /\ c \in Under(p)  BY <1>0, <1>1, Answered
<1>3. number'[p] = call[c].number /\ \A q \in Phone \ {p} : number'[q] = number[q]  BY <1>1, <1>2 DEF FleetTypeOK
<1>4. key[p] # Nobody => Made(key[p], p)  BY <1>2 DEF Sound
<1>5. strays[p] \in {"none", "reset"} /\ key[p] # Nobody => device[key[p]].number = call[c].number
  <2>1. strays[p] \in {"none", "reset"} => key[p] \in {call[c].row, Nobody}  BY <1>1, <1>2 DEF Straight
  <2>2. strays[p] \in {"none", "reset"} => device[call[c].row].number = call[c].number  BY <1>1, <1>2 DEF Straight
  <2> QED  BY <2>1, <2>2
<1>6. strays[p] = "none" => wizard[p] = "closed"  BY <1>1, <1>2 DEF Once
<1>7. wizard[p] = "closed" => key[p] # Nobody  BY <1>2 DEF Sound
<1>8. strays[p] = "none" /\ wizard[p] = "closed" => NamedRows(p) \subseteq {key[p]}  BY <1>0, <1>1, Answered
<1> QED  BY <1>0, <1>1, <1>3, <1>4, <1>5, <1>6, <1>7, <1>8, Ending

LEMMA NotVerifiedStep ==
    ASSUME FleetInv, FleetTypeOK', NEW c \in Call, NotVerified(c)
    PROVE  FleetInv'
<1>0. PICK p : p = call[c].phone  OBVIOUS
<1>1. /\ call[c] # Nobody /\ call[c].kind # "wizard" /\ call[c].reply # "ok" /\ Over(c)
      /\ device' = device /\ strays' = strays /\ key' = key /\ number' = number /\ wizard' = wizard
  BY <1>0 DEF NotVerified, Returns, serverVars, prefs
<1>2. Sound(p)  BY <1>0, <1>1, Answered
<1>3. (key[p] # Nobody => Made(key[p], p)) /\ (wizard[p] = "closed" => key[p] # Nobody)  BY <1>2 DEF Sound
<1>4. strays[p] \in {"none", "reset"} =>
         (key[p] # Nobody /\ number[p] # Nobody => device[key[p]].number = number[p])
  BY <1>0, <1>1, Answered
<1>5. strays[p] = "none" => (wizard[p] # "closed" => NamedRows(p) = {} /\ number[p] = Nobody)
  BY <1>0, <1>1, Answered
<1>6. strays[p] = "none" /\ wizard[p] = "closed" => NamedRows(p) \subseteq {key[p]}  BY <1>0, <1>1, Answered
<1> QED  BY <1>0, <1>1, <1>3, <1>4, <1>5, <1>6, Ending

LEMMA UnreachableStep ==
    ASSUME FleetInv, FleetTypeOK', NEW c \in Call, Unreachable(c)
    PROVE  FleetInv'
<1>0. PICK p : p = call[c].phone  OBVIOUS
<1>1. /\ call[c] # Nobody /\ Over(c) /\ device' = device /\ key' = key /\ number' = number
      /\ wizard' = (IF call[c].kind = "wizard" THEN [wizard EXCEPT ![p] = "open"] ELSE wizard)
      /\ Stray(p, "lost")
  BY <1>0 DEF Unreachable, serverVars, prefs
<1>2. FleetTypeOK /\ p \in Phone /\ Sound(p)  BY <1>0, <1>1, Answered
<1>3. strays'[p] = "lost" /\ \A q \in Phone \ {p} : strays'[q] = strays[q]  BY <1>1, <1>2 DEF Stray, FleetTypeOK
<1>4. /\ \A q \in Phone \ {p} : wizard'[q] = wizard[q]
      /\ wizard'[p] = "closed" => wizard[p] = "closed"
  BY <1>1, <1>2 DEF FleetTypeOK
<1>5. (key[p] # Nobody => Made(key[p], p)) /\ (wizard[p] = "closed" => key[p] # Nobody)  BY <1>2 DEF Sound
<1> QED  BY <1>0, <1>1, <1>3, <1>4, <1>5, Ending

LEMMA DroppedStep ==
    ASSUME FleetInv, FleetTypeOK', NEW c \in Call, Dropped(c)
    PROVE  FleetInv'
<1>0. PICK p : p = call[c].phone  OBVIOUS
<1>1. /\ call[c] # Nobody /\ ~call[c].waits /\ Over(c)
      /\ device' = device /\ strays' = strays /\ key' = key /\ number' = number /\ wizard' = wizard
  BY <1>0 DEF Dropped, serverVars, prefs
<1>2. Sound(p) /\ Straight(p) /\ c \in Under(p)  BY <1>0, <1>1, Answered
<1>3. strays[p] \notin {"none", "reset"}  BY <1>1, <1>2 DEF Straight
<1>4. (key[p] # Nobody => Made(key[p], p)) /\ (wizard[p] = "closed" => key[p] # Nobody)  BY <1>2 DEF Sound
<1> QED  BY <1>0, <1>1, <1>3, <1>4, Ending

LEMMA ResetStep ==
    ASSUME FleetInv, FleetTypeOK', NEW p \in Phone, ResetEnrollment(p)
    PROVE  FleetInv'
<1>t. FleetTypeOK /\ Filled /\ Sound(p) /\ Straight(p)  BY DEF FleetInv, Sound
<1>1. /\ wizard[p] = "closed" /\ wizard' = [wizard EXCEPT ![p] = "open"] /\ key' = [key EXCEPT ![p] = Nobody]
      /\ Stray(p, "reset") /\ device' = device /\ number' = number /\ call' = call
  BY DEF ResetEnrollment, serverVars
<1>2. /\ wizard'[p] = "open" /\ key'[p] = Nobody
      /\ \A q \in Phone \ {p} : key'[q] = key[q] /\ wizard'[q] = wizard[q] /\ strays'[q] = strays[q]
  BY <1>1, <1>t DEF Stray, FleetTypeOK
<1>3. strays'[p] \in {"reset", "lost"} /\ (strays'[p] = "reset" => strays[p] \in {"none", "reset"})
  BY <1>1, <1>t DEF Stray, FleetTypeOK
<1>4. RowsStay /\ Filled' /\ \A r : NamedRows(r)' = NamedRows(r) /\ \A d : Made(d, r)' = Made(d, r)
  BY <1>1, <1>t, SameRows
<1>5. \A q : Under(q)' = Under(q)  BY <1>1 DEF Under
<1>6. Leaves(p)  BY <1>1, <1>2, <1>4, <1>5 DEF Leaves
<1>7. Straight(p)'
  <2> SUFFICES ASSUME strays'[p] \in {"none", "reset"}  PROVE Straight(p)'  BY DEF Straight
  <2>0. strays[p] \in {"none", "reset"}  BY <1>3
  <2>1. key[p] # Nobody  BY <1>1, <1>t DEF Sound
  <2>2. \A c, d \in Under(p)' : c = d  BY <2>0, <1>t, <1>5 DEF Straight
  <2>3. ASSUME NEW c \in Under(p)
        PROVE  /\ call[c].waits /\ call[c].kind # "heal"
               /\ call[c].kind \in {"wizard", "heal"} /\ call[c].reply = "ok" => device[call[c].with].number = call[c].number
               /\ call[c].kind = "number" /\ call[c].reply = "ok" => device[call[c].row].number = call[c].number
    <3>1. call[c].waits  BY <2>0, <2>3, <1>t DEF Straight
    <3>2. call[c].kind # "heal"  BY <2>0, <2>1, <2>3, <1>t DEF Straight
    <3>3. call[c].kind \in {"wizard", "heal"} /\ call[c].reply = "ok" => device[call[c].with].number = call[c].number
      BY <2>0, <2>3, <1>t DEF Straight
    <3>4. call[c].kind = "number" /\ call[c].reply = "ok" => device[call[c].row].number = call[c].number
      BY <2>0, <2>3, <1>t DEF Straight
    <3> QED  BY <3>1, <3>2, <3>3, <3>4
  <2> QED  BY <1>1, <1>2, <1>5, <2>2, <2>3 DEF Straight
<1>8. Once(p)'  BY <1>3 DEF Once
<1>9. Sound(p)'  BY <1>2, <1>7, <1>8 DEF Sound
<1> QED  BY <1>1, <1>4, <1>6, <1>9, OnePhone

LEMMA OnCreateStep ==
    ASSUME FleetInv, FleetTypeOK', NEW p \in Phone, OnCreate(p)
    PROVE  FleetInv'
<1> DEFINE its == {c \in Under(p) : call[c].kind # "heal" /\ call[c].waits}
<1>t. FleetTypeOK /\ Filled /\ Sound(p) /\ Straight(p) /\ Once(p)  BY DEF FleetInv, Sound
<1>1. /\ wizard' = [wizard EXCEPT ![p] = IF key[p] = Nobody THEN "open" ELSE "closed"]
      /\ call' = [c \in Call |-> IF c \in its THEN [call[c] EXCEPT !.waits = FALSE] ELSE call[c]]
      /\ IF its = {} THEN strays' = strays ELSE Stray(p, "dropped")
      /\ device' = device /\ key' = key /\ number' = number
  BY DEF OnCreate, serverVars, prefs
<1>2. /\ wizard'[p] = (IF key[p] = Nobody THEN "open" ELSE "closed")
      /\ \A q \in Phone \ {p} : wizard'[q] = wizard[q] /\ strays'[q] = strays[q]
  BY <1>1, <1>t DEF Stray, FleetTypeOK
<1>3. strays'[p] \in {"none", "reset"} => its = {} /\ strays'[p] = strays[p]
  BY <1>1, <1>t DEF Stray, FleetTypeOK
<1>4. RowsStay /\ Filled' /\ \A r : NamedRows(r)' = NamedRows(r) /\ \A d : Made(d, r)' = Made(d, r)
  BY <1>1, <1>t, SameRows
<1>5. ASSUME NEW c \in its
      PROVE  /\ c \in Call /\ call[c] # Nobody /\ call[c].phone = p /\ call'[c] # Nobody
             /\ call'[c].phone = call[c].phone /\ call'[c].kind = call[c].kind /\ call'[c].secret = call[c].secret
             /\ call'[c].number = call[c].number /\ call'[c].row = call[c].row
             /\ call'[c].reply = call[c].reply /\ call'[c].with = call[c].with
  <2>1. c \in Call /\ call[c] # Nobody /\ call[c].phone = p  BY DEF Under
  <2>2. call[c] \in Request  BY <2>1, <1>t DEF FleetTypeOK
  <2>3. call'[c] = [call[c] EXCEPT !.waits = FALSE]  BY <1>1, <2>1
  <2>4. [call[c] EXCEPT !.waits = FALSE] \in Request  BY <2>2 DEF Request
  <2>5. call'[c] # Nobody  BY <2>3, <2>4, FleetAssumption
  <2> QED  BY <2>1, <2>2, <2>3, <2>5 DEF Request
<1>6. \A c \in Call \ its : call'[c] = call[c]  BY <1>1
<1>7. ASSUME NEW q  PROVE Under(q)' = Under(q)
  <2> HIDE DEF its
  <2> QED  BY <1>5, <1>6 DEF Under
<1>8. \A q \in Phone \ {p} : \A c \in Under(q) : call'[c] = call[c]
  <2>1. \A q \in Phone \ {p} : \A c \in Under(q) : c \in Call \ its  BY DEF Under
  <2> QED  BY <2>1, <1>6
<1>9. ASSUME NEW c \in its  PROVE Founded(c)'
  <2>1. Founded(c) /\ call[c] # Nobody  BY <1>5 DEF FleetInv
  <2> HIDE DEF its
  <2>2. call[c].kind = "number" =>
           /\ call[c].row \in Row /\ device[call[c].row] # Nobody /\ device[call[c].row].by = call[c].phone
           /\ call[c].number # Nobody
    BY <2>1 DEF Founded, Made
  <2>3. (call[c].kind = "wizard" => call[c].number # Nobody) /\ (call[c].kind # "heal" => call[c].secret # Global)
    BY <2>1 DEF Founded
  <2>4. call[c].kind \in {"wizard", "heal"} /\ call[c].reply = "ok" =>
           /\ call[c].with \in Row /\ device[call[c].with] # Nobody /\ device[call[c].with].by = call[c].phone
    BY <2>1 DEF Founded, Made
  <2>5. call[c].reply = "clash" => call[c].with \in Row /\ device[call[c].with] # Nobody  BY <2>1 DEF Founded
  <2> QED  BY <1>1, <1>5, <2>2, <2>3, <2>4, <2>5 DEF Founded, Made
<1> HIDE DEF its
<1>10. Leaves(p)  BY <1>1, <1>2, <1>4, <1>7, <1>8 DEF Leaves
<1>11. its = {} => \A c \in Call : call'[c] = call[c]  BY <1>6
<1>12. Under(p) \subseteq Call  BY DEF Under
<1>13. Straight(p)'
  <2> SUFFICES ASSUME strays'[p] \in {"none", "reset"}  PROVE Straight(p)'  BY DEF Straight
  <2>0. strays[p] \in {"none", "reset"} /\ \A c \in Under(p) : call'[c] = call[c]  BY <1>3, <1>11, <1>12
  <2>1. \A c, d \in Under(p)' : c = d  BY <2>0, <1>t, <1>7 DEF Straight
  <2>2. Awaited(p)' = Awaited(p)  BY <2>0, <1>7 DEF Awaited
  <2>3. ASSUME NEW c \in Under(p)
        PROVE  /\ call[c].waits
               /\ call[c].kind = "heal" => key[p] = Nobody /\ number[p] = call[c].number
               /\ call[c].kind = "number" => key[p] \in {call[c].row, Nobody}
               /\ call[c].kind \in {"wizard", "heal"} /\ call[c].reply = "ok" => device[call[c].with].number = call[c].number
               /\ call[c].kind = "number" /\ call[c].reply = "ok" => device[call[c].row].number = call[c].number
    <3>1. call[c].waits  BY <2>0, <2>3, <1>t DEF Straight
    <3>2. call[c].kind = "heal" => key[p] = Nobody /\ number[p] = call[c].number  BY <2>0, <2>3, <1>t DEF Straight
    <3>3. call[c].kind \in {"wizard", "heal"} /\ call[c].reply = "ok" => device[call[c].with].number = call[c].number
      BY <2>0, <2>3, <1>t DEF Straight
    <3>4. call[c].kind = "number" /\ call[c].reply = "ok" => device[call[c].row].number = call[c].number
      BY <2>0, <2>3, <1>t DEF Straight
    <3>5. call[c].kind = "number" => key[p] \in {call[c].row, Nobody}  BY <2>0, <2>3, <1>t DEF Straight
    <3> QED  BY <3>1, <3>2, <3>3, <3>4, <3>5
  <2>4. key[p] # Nobody /\ number[p] # Nobody /\ ~Awaited(p) => device[key[p]].number = number[p]
    BY <2>0, <1>t DEF Straight
  <2>5. ASSUME NEW c \in Under(p)'
        PROVE  /\ call'[c].waits
               /\ call'[c].kind = "heal" => key'[p] = Nobody /\ number'[p] = call'[c].number
               /\ call'[c].kind = "number" => key'[p] \in {call'[c].row, Nobody}
               /\ call'[c].kind \in {"wizard", "heal"} /\ call'[c].reply = "ok" =>
                     device'[call'[c].with].number = call'[c].number
               /\ call'[c].kind = "number" /\ call'[c].reply = "ok" =>
                     device'[call'[c].row].number = call'[c].number
    <3>1. c \in Under(p) /\ call'[c] = call[c]  BY <1>7, <2>0, <2>5
    <3> QED  BY <1>1, <2>3, <3>1
  <2>6. key'[p] # Nobody /\ number'[p] # Nobody /\ ~Awaited(p)' => device'[key'[p]].number = number'[p]
    BY <1>1, <2>2, <2>4
  <2> QED  BY <2>1, <2>5, <2>6 DEF Straight
<1>14. Once(p)'
  <2> SUFFICES ASSUME strays'[p] = "none"  PROVE Once(p)'  BY DEF Once
  <2>0. strays[p] = "none" /\ its = {} /\ \A c \in Under(p) : call'[c] = call[c]  BY <1>3, <1>11, <1>12
  <2>1. \A c \in Under(p) : call[c].kind # "wizard"
    <3>1. \A c \in Under(p) : call[c].waits  BY <2>0, <1>t DEF Straight
    <3> QED  BY <2>0, <3>1 DEF its
  <2>2. wizard[p] = "open" => NamedRows(p) = {}  BY <2>0, <1>t DEF Once
  <2>3. wizard[p] = "closed" => NamedRows(p) \subseteq {key[p]} /\ key[p] # Nobody  BY <2>0, <1>t DEF Once, Sound
  <2>4. wizard[p] = "connecting" => NamedRows(p) = {}
    <3>1. wizard[p] = "connecting" => \A d \in NamedRows(p) : \E c \in Under(p) : call[c].kind = "wizard"
      BY <2>0, <1>t DEF Once
    <3> QED  BY <2>1, <3>1
  <2>5. wizard[p] \in {"open", "closed", "connecting"}  BY <1>t DEF FleetTypeOK
  <2>6. /\ key[p] = Nobody => NamedRows(p) = {}
        /\ key[p] # Nobody => NamedRows(p) \subseteq {key[p]}
    BY <2>2, <2>3, <2>4, <2>5
  <2>7. number[p] # Nobody => key[p] # Nobody  BY <2>0, <2>3, <1>t DEF Once
  <2>8. ASSUME NEW c \in Under(p)
        PROVE  /\ call[c].kind = "number" => key[p] # Nobody /\ key[p] = call[c].row
               /\ call[c].reply = "clash" => device[call[c].with].by # p
    <3>1. call[c].kind = "number" => wizard[p] = "closed" /\ key[p] = call[c].row  BY <2>0, <2>8, <1>t DEF Once
    <3>2. call[c].reply = "clash" => device[call[c].with].by # p  BY <2>0, <2>8, <1>t DEF Once
    <3> QED  BY <3>1, <3>2, <2>3
  <2>9. /\ wizard'[p] = "open" => NamedRows(p)' = {}
        /\ wizard'[p] = "closed" => NamedRows(p)' \subseteq {key'[p]}
        /\ wizard'[p] # "connecting"
        /\ number'[p] # Nobody => wizard'[p] = "closed"
    BY <1>1, <1>2, <1>4, <2>6, <2>7
  <2>10. \A c \in Under(p)' :
            /\ call'[c].kind # "wizard"
            /\ call'[c].kind = "number" => wizard'[p] = "closed" /\ key'[p] = call'[c].row
            /\ call'[c].reply = "clash" => device'[call'[c].with].by # p
    BY <1>1, <1>2, <1>7, <2>0, <2>1, <2>8
  <2> QED  BY <2>9, <2>10 DEF Once
<1>15. Sound(p)'
  <2>1. key'[p] # Nobody => key'[p] \in Row /\ device'[key'[p]] # Nobody /\ device'[key'[p]].by = p
    BY <1>1, <1>t DEF Sound, Made
  <2>2. wizard'[p] = "closed" => key'[p] # Nobody  BY <1>1, <1>2
  <2> QED  BY <2>1, <2>2, <1>13, <1>14 DEF Sound, Made
<1>16. \A c \in Call : call'[c] = call[c] \/ Founded(c)'  BY <1>6, <1>9
<1> QED  BY <1>4, <1>10, <1>15, <1>16, OnePhone

\* The settings are saved at once: the number is kept, or taken off.
LEMMA SavedStep ==
    ASSUME FleetInv, FleetTypeOK', NEW p \in Phone, NEW n, NEW s,
           n = Nobody \/ n = number[p] \/ key[p] = Nobody, wizard[p] = "closed",
           Persist(p, n, s), UNCHANGED <<call, step, strays>>, UNCHANGED <<serverVars, wizard>>
    PROVE  FleetInv'
<1>t. FleetTypeOK /\ Filled /\ Sound(p) /\ Straight(p) /\ Once(p)  BY DEF FleetInv, Sound
<1>1. /\ number' = [number EXCEPT ![p] = n] /\ key' = key /\ wizard' = wizard
      /\ device' = device /\ call' = call /\ strays' = strays
  BY DEF Persist, serverVars
<1>2. key[p] # Nobody  BY <1>t DEF Sound
<1>3. /\ number'[p] = n /\ n \in {Nobody, number[p]}
      /\ \A q \in Phone \ {p} : number'[q] = number[q]
  BY <1>1, <1>2, <1>t DEF FleetTypeOK
<1>4. RowsStay /\ Filled' /\ \A r : NamedRows(r)' = NamedRows(r) /\ \A d : Made(d, r)' = Made(d, r)
  BY <1>1, <1>t, SameRows
<1>5. ASSUME NEW q  PROVE Under(q)' = Under(q) /\ Awaited(q)' = Awaited(q)  BY <1>1 DEF Under, Awaited
<1>6. Leaves(p)  BY <1>1, <1>3, <1>4, <1>5 DEF Leaves
<1>7. Straight(p)'
  <2> SUFFICES ASSUME strays[p] \in {"none", "reset"}  PROVE Straight(p)'  BY <1>1 DEF Straight
  <2>1. \A c, d \in Under(p) : c = d  BY <1>t DEF Straight
  <2>2. ASSUME NEW c \in Under(p)
        PROVE  /\ call[c].waits /\ call[c].kind # "heal"
               /\ call[c].kind = "number" => key[p] \in {call[c].row, Nobody}
               /\ call[c].kind \in {"wizard", "heal"} /\ call[c].reply = "ok" => device[call[c].with].number = call[c].number
               /\ call[c].kind = "number" /\ call[c].reply = "ok" => device[call[c].row].number = call[c].number
    <3>1. call[c].waits  BY <2>2, <1>t DEF Straight
    <3>2. call[c].kind # "heal"  BY <2>2, <1>2, <1>t DEF Straight
    <3>3. call[c].kind = "number" => key[p] \in {call[c].row, Nobody}  BY <2>2, <1>t DEF Straight
    <3>4. call[c].kind \in {"wizard", "heal"} /\ call[c].reply = "ok" => device[call[c].with].number = call[c].number
      BY <2>2, <1>t DEF Straight
    <3>5. call[c].kind = "number" /\ call[c].reply = "ok" => device[call[c].row].number = call[c].number
      BY <2>2, <1>t DEF Straight
    <3> QED  BY <3>1, <3>2, <3>3, <3>4, <3>5
  <2>3. n # Nobody /\ ~Awaited(p) => device[key[p]].number = n  BY <1>2, <1>3, <1>t DEF Straight
  <2> QED  BY <1>1, <1>3, <1>5, <2>1, <2>2, <2>3 DEF Straight
<1>8. Once(p)'
  <2> SUFFICES ASSUME strays[p] = "none"  PROVE Once(p)'  BY <1>1 DEF Once
  <2>1. NamedRows(p) \subseteq {key[p]}  BY <1>t DEF Once
  <2>2. \A c \in Under(p) : /\ call[c].kind # "wizard"
                            /\ call[c].kind = "number" => key[p] = call[c].row
                            /\ call[c].reply = "clash" => device[call[c].with].by # p
    BY <1>t DEF Once
  <2>3. wizard'[p] = "closed"  BY <1>1
  <2> QED  BY <1>1, <1>4, <1>5, <2>1, <2>2, <2>3 DEF Once
<1>9. Sound(p)'
  <2>1. key'[p] # Nobody => key'[p] \in Row /\ device'[key'[p]] # Nobody /\ device'[key'[p]].by = p
    BY <1>1, <1>t DEF Sound, Made
  <2> QED  BY <2>1, <1>1, <1>2, <1>7, <1>8 DEF Sound, Made
<1> QED  BY <1>1, <1>4, <1>6, <1>9, OnePhone

\* A step that leaves every phone's numbers, keys and requests as they are.
LEMMA NoPhone ==
    ASSUME FleetInv, FleetTypeOK', UNCHANGED <<prefs, wizard, call, strays>>, RowsStay, Filled',
           \A d \in Row : /\ device[d] = Nobody => device'[d] = Nobody
                          /\ device[d] # Nobody => device'[d].number = device[d].number
    PROVE  FleetInv'
<1>1. key' = key /\ number' = number /\ wizard' = wizard /\ call' = call /\ strays' = strays  BY DEF prefs
<1>2. ASSUME NEW q \in Phone  PROVE Sound(q)'
  <2>1. Sound(q) /\ \A c \in Call : Founded(c)  BY DEF FleetInv
  <2>2. Under(q)' = Under(q)  BY <1>1 DEF Under
  <2>3. \A d \in Row : Made(d, q)' => Made(d, q)  BY DEF Made, RowsStay
  <2>4. \A d \in Row : Made(d, q) => device'[d].number = device[d].number  BY DEF Made
  <2> QED  BY <1>1, <2>1, <2>2, <2>3, <2>4, Elsewhere
<1>3. ASSUME NEW c \in Call  PROVE Founded(c)'
  <2>1. Founded(c)  BY DEF FleetInv
  <2>2. call[c] # Nobody => call[c] \in Request  BY DEF FleetInv, FleetTypeOK
  <2> QED  BY <1>1, <2>1, <2>2, StillFounded
<1> QED  BY <1>2, <1>3 DEF FleetInv

LEMMA DeleteDeviceStep ==
    ASSUME FleetInv, FleetTypeOK', NEW d \in Row, DeleteDevice(d)
    PROVE  FleetInv'
<1>1. FleetTypeOK /\ Filled  BY DEF FleetInv
<1>2. device[d] \in Enrolled /\ device[d] # Nobody  BY <1>1 DEF DeleteDevice, FleetTypeOK
<1>3. device'[d] = [device[d] EXCEPT !.revoked = TRUE] /\ \A e \in Row \ {d} : device'[e] = device[e]
  BY <1>1 DEF DeleteDevice, FleetTypeOK
<1>4. device'[d] \in Enrolled /\ device'[d].by = device[d].by /\ device'[d].number = device[d].number
  BY <1>2, <1>3 DEF Enrolled
<1>5. device'[d] # Nobody  BY <1>4, FleetAssumption
<1>6. RowsStay  BY <1>3, <1>4, <1>5 DEF RowsStay
<1>7. Filled'
  <2>1. \A e \in Row : device'[e] # Nobody <=> device[e] # Nobody  BY <1>2, <1>3, <1>5
  <2> QED  BY <1>1, <2>1 DEF Filled
<1>8. UNCHANGED <<prefs, wizard, call, strays>>  BY DEF DeleteDevice
<1> QED  BY <1>2, <1>3, <1>4, <1>6, <1>7, <1>8, NoPhone

-----------------------------------------------------------------------------
(* The invariant holds, and with it the two agree. *)

LEMMA FleetStarts ==
    ASSUME FleetInit
    PROVE  FleetInv
<1>1. FleetTypeOK
  <2>1. 0 \in 0..MaxStep /\ 1 \in 1..MaxSecret  BY FleetAssumption
  <2> QED  BY <2>1 DEF FleetInit, FleetTypeOK
<1>2. \A d \in Row : device[d] = Nobody  BY DEF FleetInit
<1>3. Filled
  <2>1. 0 \in 0..MaxRow  BY FleetAssumption
  <2>2. \A d \in Row : ~(d <= 0)  BY FleetAssumption DEF Row
  <2> QED  BY <1>2, <2>1, <2>2 DEF Filled
<1>4. \A c \in Call : call[c] = Nobody  BY DEF FleetInit
<1>5. \A c \in Call : Founded(c)  BY <1>4 DEF Founded
<1>6. ASSUME NEW p \in Phone  PROVE Sound(p)
  <2>1. key[p] = Nobody /\ number[p] = Nobody /\ wizard[p] = "open"  BY DEF FleetInit
  <2>2. Under(p) = {}  BY <1>4 DEF Under
  <2>3. NamedRows(p) = {}  BY <1>2 DEF NamedRows, Made
  <2>4. Straight(p)  BY <2>1, <2>2 DEF Straight
  <2>5. Once(p)  BY <2>1, <2>2, <2>3 DEF Once
  <2> QED  BY <2>1, <2>4, <2>5 DEF Sound
<1> QED  BY <1>1, <1>3, <1>5, <1>6 DEF FleetInv

LEMMA FleetStep ==
    ASSUME FleetInv, [FleetNext]_fleetVars
    PROVE  FleetInv'
<1>t. FleetTypeOK /\ \A c \in Call : Founded(c)  BY DEF FleetInv
<1>1. CASE UNCHANGED fleetVars
  <2>1. UNCHANGED <<device, current, key, number, secret, legacy, wizard, call, step, strays>>
    BY <1>1 DEF fleetVars, serverVars, prefs
  <2>2. FleetTypeOK'  BY <1>t, <2>1 DEF FleetTypeOK
  <2>3. RowsStay /\ Filled'  BY <2>1 DEF FleetInv, RowsStay, Filled
  <2>4. UNCHANGED <<prefs, wizard, call, strays>>  BY <2>1 DEF prefs
  <2> QED  BY <2>1, <2>2, <2>3, <2>4, NoPhone
<1>2. CASE FleetNext
  <2>t. FleetTypeOK'  BY <1>t, <1>2, TypeStep
  <2>1. ASSUME NEW p \in Phone, NEW c \in Call, EnrollIfNeeded(p, c)  PROVE FleetInv'
    <3>1. Bearer(p) \in 0..MaxSecret \union {Nobody} /\ number[p] \in Number \union {Nobody}
      BY <1>t, FleetAssumption DEF FleetTypeOK, Bearer, Global
    <3>2. wizard[p] \in {"open", "closed", "connecting"} /\ wizard' = [wizard EXCEPT ![p] = wizard[p]]
      BY <1>t, <2>1 DEF EnrollIfNeeded, FleetTypeOK
    <3>3. /\ Sends(c, p, "heal", Bearer(p), number[p]) /\ key[p] = Nobody
          /\ device' = device /\ key' = key /\ number' = number
      BY <2>1 DEF EnrollIfNeeded, serverVars, prefs
    <3>4. "heal" \in {"wizard", "heal", "number"} /\ "heal" # "wizard" /\ "heal" # "number"  OBVIOUS
    <3> QED  BY <2>t, <3>1, <3>2, <3>3, <3>4, Sending
  <2>2. ASSUME NEW p \in Phone, NEW c \in Call, NEW n \in Number, NEW s \in 1..current, ConnectGateway(p, c, n, s)
        PROVE  FleetInv'
    <3>1. s \in 0..MaxSecret \union {Nobody} /\ s # Global /\ n \in Number \union {Nobody} /\ n # Nobody
      BY <1>t, FleetAssumption DEF FleetTypeOK, Global
    <3>2. /\ Sends(c, p, "wizard", s, n) /\ wizard[p] = "open" /\ wizard' = [wizard EXCEPT ![p] = "connecting"]
          /\ device' = device /\ key' = key /\ number' = number
      BY <2>2 DEF ConnectGateway, serverVars, prefs
    <3>3. /\ "wizard" \in {"wizard", "heal", "number"} /\ "heal" # "wizard" /\ "wizard" # "number"
          /\ "connecting" \in {"open", "closed", "connecting"}
      OBVIOUS
    <3>4. n \in Number \union {Nobody} /\ n # Nobody /\ s # Global  BY <3>1
    <3>5. s \in 0..MaxSecret \union {Nobody}  BY <3>1
    <3> QED  BY <2>t, <3>2, <3>3, <3>4, <3>5, Sending
  <2>3. ASSUME NEW p \in Phone, NEW c \in Call, NEW n \in Number \union {Nobody}, NEW s \in {secret[p], Nobody},
               SaveSettings(p, c, n, s)
        PROVE  FleetInv'
    <3>1. wizard[p] = "closed" /\ UNCHANGED <<serverVars, wizard>>  BY <2>3 DEF SaveSettings
    <3>2. CASE n # Nobody /\ n # number[p] /\ key[p] # Nobody /\ Sends(c, p, "number", s, n) /\ UNCHANGED prefs
      <4>1. s \in 0..MaxSecret \union {Nobody} /\ s # Global
        BY <1>t, FleetAssumption DEF FleetTypeOK, Global
      <4>2. wizard' = [wizard EXCEPT ![p] = "closed"]  BY <1>t, <3>1 DEF FleetTypeOK
      <4>3. device' = device /\ key' = key /\ number' = number  BY <3>1, <3>2 DEF serverVars, prefs
      <4>4. "number" \in {"wizard", "heal", "number"} /\ "heal" # "number" /\ "wizard" # "number"  OBVIOUS
      <4> QED  BY <2>t, <3>1, <3>2, <4>1, <4>2, <4>3, <4>4, Sending
    <3>3. CASE /\ n = Nobody \/ n = number[p] \/ key[p] = Nobody
               /\ Persist(p, n, s) /\ UNCHANGED <<call, step, strays>>
      BY <2>t, <3>1, <3>3, SavedStep
    <3> QED  BY <2>3, <3>2, <3>3 DEF SaveSettings
  <2>4. ASSUME RotateDeviceSecret  PROVE FleetInv'
    <3>1. device' = device /\ UNCHANGED <<prefs, wizard, call, strays>>  BY <2>4 DEF RotateDeviceSecret
    <3>2. RowsStay /\ Filled'  BY <3>1 DEF FleetInv, RowsStay, Filled
    <3> QED  BY <2>t, <3>1, <3>2, NoPhone
  <2> QED  BY <1>2, <2>t, <2>1, <2>2, <2>3, <2>4, ResetStep, OnCreateStep, EnrollsStep, SetsNumberStep, ClashesStep,
              RefusesStep, ConnectedStep, NotConnectedStep, HealedStep, VerifiedStep, NotVerifiedStep,
              UnreachableStep, DroppedStep, DeleteDeviceStep DEF FleetNext
<1> QED  BY <1>1, <1>2

LEMMA FleetInvGives ==
    ASSUME FleetInv
    PROVE  NumbersAgree
<1>1. ASSUME NEW p \in Phone, strays[p] \in {"none", "reset"}, Under(p) = {}, key[p] # Nobody, number[p] # Nobody
      PROVE  device[key[p]].number = number[p]
  <2>1. Straight(p) /\ ~Awaited(p)  BY <1>1 DEF FleetInv, Sound, Awaited
  <2> QED  BY <1>1, <2>1 DEF Straight
<1>2. ASSUME NEW c \in Call, call[c] # Nobody, call[c].reply = "clash", strays[call[c].phone] = "none"
      PROVE  device[call[c].with].by # call[c].phone
  <2>1. call[c].phone \in Phone  BY <1>2, Asked DEF FleetInv
  <2>2. Once(call[c].phone) /\ c \in Under(call[c].phone)  BY <1>2, <2>1 DEF FleetInv, Sound, Under
  <2> QED  BY <1>2, <2>2 DEF Once
<1> QED  BY <1>1, <1>2 DEF NumbersAgree, ShownIsRegistered, ClashIsAnothers

\* The number a phone shows is the one the server has for it, and a number refused as taken
\* is another phone's, whatever screens, services and operators do in between.
THEOREM NumbersStayAgreed == FleetSpec => []NumbersAgree
<1>1. FleetInit => FleetInv  BY FleetStarts
<1>2. FleetInv /\ [FleetNext]_fleetVars => FleetInv'  BY FleetStep
<1>3. FleetInv => NumbersAgree  BY FleetInvGives
<1> QED  BY <1>1, <1>2, <1>3, PTL DEF FleetSpec
=============================================================================
