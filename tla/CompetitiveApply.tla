-------------------------- MODULE CompetitiveApply --------------------------
(***************************************************************************)
(* The application boundary of the competitive coding mode: a human        *)
(* approves a candidate patch (hitl.py), a process prepares a transaction  *)
(* that binds the repository as it is (..._application_transaction.py),    *)
(* consumes the approval (..._consumption.py), writes its intent, applies  *)
(* the patch and records the outcome (..._application.py).  Everything     *)
(* durable - files, ledgers, approval queue - survives a crash; a process  *)
(* and the repository flock it holds do not.                               *)
(*                                                                         *)
(* A file's bytes and mode are one of a few texts.  "torn" is any state    *)
(* between the two images: git apply replaces a file by unlinking and      *)
(* rewriting it, and its mode is only set afterwards.  HEAD, the index and *)
(* every file no patch names are one more member of File.                  *)
(***************************************************************************)
EXTENDS Naturals, FiniteSets

CONSTANTS
    Proc,        \* processes that call apply or recover
    Request,     \* approval requests of one repository
    File,        \* its files
    Paths,       \* Paths[r]: changed_paths of r's candidate
    Patch,       \* Patch[r]: text its candidate leaves in each of them
    None,        \* no transaction, no lock holder
    EditsAnytime, \* does the user also edit while a call holds the lock?
    MaxEdits,    \* bound: edits by the user
    MaxCrashes   \* bound: crashes

Images == {Patch[r] : r \in Request}
Text == {"base", "torn", "edit"} \cup Images

ASSUME ApplyAssumption ==
    /\ Paths \in [Request -> (SUBSET File) \ {{}}]
    /\ Images \cap {"base", "torn", "edit"} = {}
    /\ EditsAnytime \in BOOLEAN
    /\ MaxEdits \in Nat /\ MaxCrashes \in Nat

ASSUME NoneAssumption ==
    /\ None \notin Proc
    /\ None \notin [content : [File -> Text], stray : Nat]

VARIABLES
    content,   \* what each file of the repository holds
    stray,     \* .rollback-*.tmp files lying in the repository
    hitl,      \* status of each request in the approval queue
    tx,        \* transactions.json: what the repository was when r was prepared
    claim,     \* claims.json: requests whose approval is consumed
    rec,       \* applications.json: state of each application record
    lock,      \* holder of the repository flock
    proc,      \* program counter and locals of each process
    approved,  \* history: requests the human ever approved
    edits, crashes

ledgers == <<hitl, tx, claim, rec, approved>>
vars == <<content, stray, hitl, tx, claim, rec, lock, proc, approved, edits, crashes>>

Local == [pc    : {"idle", "prepared", "claim", "record", "finish", "write",
                   "verify", "commit", "undo", "temp"},
          req   : Request \cup {None},
          todo  : SUBSET File,
          tries : 0 .. 2]

Quiet == [pc |-> "idle", req |-> None, todo |-> {}, tries |-> 0]

Init ==
    /\ content = [f \in File |-> "base"]
    /\ stray = 0
    /\ hitl = [r \in Request |-> "pending"]
    /\ tx = [r \in Request |-> None]
    /\ claim = {}
    /\ rec = [r \in Request |-> "none"]
    /\ lock = None
    /\ proc = [p \in Proc |-> Quiet]
    /\ approved = {}
    /\ edits = 0
    /\ crashes = 0

-----------------------------------------------------------------------------
(* The proofs the code takes of the repository *)

Snapshot == [content |-> content, stray |-> stray]

\* git apply --check of r's patch (no two patches apply over each other).
Applicable(r) == \A f \in Paths[r] : content[f] = "base"

\* _unaffected: all but r's paths is as it was when r was prepared.
Unaffected(r) ==
    /\ stray = tx[r].stray
    /\ \A f \in File \ Paths[r] : content[f] = tx[r].content[f]

IsPreImage(r) == \A f \in Paths[r] : content[f] = tx[r].content[f]
IsPostImage(r) == \A f \in Paths[r] : content[f] = Patch[r]

\* _pre and _post
IsPre(r) == Unaffected(r) /\ IsPreImage(r)
IsPost(r) == Unaffected(r) /\ IsPostImage(r)

Goto(p, pc) == proc' = [proc EXCEPT ![p].pc = pc]
Leave(p) == proc' = [proc EXCEPT ![p] = Quiet] /\ lock' = None

\* The exception handler starts a rollback of all of r's files.
BeginUndo(p, tries) ==
    proc' = [proc EXCEPT ![p].pc = "undo", ![p].todo = Paths[proc[p].req],
                         ![p].tries = tries]

-----------------------------------------------------------------------------
(* The human and the user *)

\* hitl.resolve answers a request, also one that is answered already.  Of the
\* statuses only "approved" opens anything: an answer lost to another writer of
\* the queue reads like a later answer that takes it back.
Resolve(r, status) ==
    /\ hitl' = [hitl EXCEPT ![r] = status]
    /\ approved' = IF status = "approved" THEN approved \cup {r} ELSE approved
    /\ UNCHANGED <<content, stray, tx, claim, rec, lock, proc, edits, crashes>>

\* The user edits a file or puts it back.  The flock does not stop an editor.
Edit(f, text) ==
    /\ EditsAnytime \/ lock = None
    /\ edits < MaxEdits /\ content[f] # text
    /\ content' = [content EXCEPT ![f] = text]
    /\ edits' = edits + 1
    /\ UNCHANGED <<stray, ledgers, lock, proc, crashes>>

-----------------------------------------------------------------------------
(* apply_competitive_application.  A call that raises before it changed    *)
(* anything is no step.                                                    *)

\* Mutant of Prepare: the transaction of an earlier call is replaced.
PrepareAnew(p, r) ==
    /\ proc[p].pc = "idle" /\ lock = None
    /\ hitl[r] = "approved" /\ Applicable(r)
    /\ tx' = [tx EXCEPT ![r] = Snapshot]
    /\ proc' = [proc EXCEPT ![p].pc = "prepared", ![p].req = r]
    /\ UNCHANGED <<content, stray, hitl, claim, rec, lock, approved, edits, crashes>>

\* prepare_competitive_application_transaction, under the repository lock.  An
\* equal transaction is found again, a different one is a conflict.
Prepare(p, r) ==
    /\ proc[p].pc = "idle" /\ lock = None
    /\ hitl[r] = "approved" /\ Applicable(r)
    /\ tx[r] \in {None, Snapshot}
    /\ tx' = [tx EXCEPT ![r] = Snapshot]
    /\ proc' = [proc EXCEPT ![p].pc = "prepared", ![p].req = r]
    /\ UNCHANGED <<content, stray, hitl, claim, rec, lock, approved, edits, crashes>>

\* The lock is taken anew, and preflight and pre-image are checked anew.
Enter(p) ==
    LET r == proc[p].req IN
    /\ proc[p].pc = "prepared" /\ lock = None
    /\ IF hitl[r] = "approved" /\ Applicable(r) /\ IsPre(r)
       THEN lock' = p /\ Goto(p, "claim")
       ELSE Leave(p)
    /\ UNCHANGED <<content, stray, ledgers, edits, crashes>>

\* claim_competitive_approval verifies the approval once more.
Claim(p) ==
    LET r == proc[p].req IN
    /\ proc[p].pc = "claim"
    /\ IF r \in claim \/ hitl[r] = "approved"
       THEN claim' = claim \cup {r} /\ Goto(p, "record") /\ UNCHANGED lock
       ELSE Leave(p) /\ UNCHANGED claim
    /\ UNCHANGED <<content, stray, hitl, tx, rec, approved, edits, crashes>>

\* Mutant of RecordIntent: the intent is left to the end of the call.
RecordIntentLate(p) ==
    LET r == proc[p].req IN
    /\ proc[p].pc = "record"
    /\ IF rec[r] \in {"none", "applying"}
       THEN Goto(p, "finish") /\ UNCHANGED lock
       ELSE Leave(p)
    /\ UNCHANGED <<content, stray, ledgers, edits, crashes>>

\* The intent, unless there is one; a terminal record ends the call.
RecordIntent(p) ==
    LET r == proc[p].req IN
    /\ proc[p].pc = "record"
    /\ IF rec[r] \in {"none", "applying"}
       THEN /\ rec' = [rec EXCEPT ![r] = "applying"]
            /\ Goto(p, "finish") /\ UNCHANGED lock
       ELSE Leave(p) /\ UNCHANGED rec
    /\ UNCHANGED <<content, stray, hitl, tx, claim, approved, edits, crashes>>

-----------------------------------------------------------------------------
(* recover_competitive_application, up to _finish *)

\* Mutant of Recover: the transaction alone is enough.
RecoverUnclaimed(p, r) ==
    /\ proc[p].pc = "idle" /\ lock = None
    /\ tx[r] # None /\ Unaffected(r)
    /\ \/ rec[r] = "none" /\ IsPreImage(r)
       \/ rec[r] = "applying"
    /\ rec' = [rec EXCEPT ![r] = "applying"]
    /\ lock' = p
    /\ proc' = [proc EXCEPT ![p].pc = "finish", ![p].req = r]
    /\ UNCHANGED <<content, stray, hitl, tx, claim, approved, edits, crashes>>

Recover(p, r) ==
    /\ proc[p].pc = "idle" /\ lock = None
    /\ tx[r] # None /\ r \in claim /\ Unaffected(r)
    /\ \/ rec[r] = "none" /\ IsPreImage(r)
       \/ rec[r] = "applying"
    /\ rec' = [rec EXCEPT ![r] = "applying"]
    /\ lock' = p
    /\ proc' = [proc EXCEPT ![p].pc = "finish", ![p].req = r]
    /\ UNCHANGED <<content, stray, hitl, tx, claim, approved, edits, crashes>>

-----------------------------------------------------------------------------
(* _finish, and the handler around it *)

\* Pre-image: apply.  Post-image: only verify.  A mixture of both, or anything
\* else: roll back, and if that fails the handler tries once more.
Finish(p) ==
    LET r == proc[p].req IN
    /\ proc[p].pc = "finish"
    /\ \/ IsPreImage(r) /\ Goto(p, "write")
       \/ IsPostImage(r) /\ Goto(p, "verify")
       \/ ~IsPreImage(r) /\ ~IsPostImage(r) /\ BeginUndo(p, 2)
    /\ UNCHANGED <<content, stray, ledgers, lock, edits, crashes>>

\* git apply and chmod, one file at a time: from base to torn to the new text.
Write(p, f) ==
    LET r == proc[p].req IN
    /\ proc[p].pc = "write" /\ f \in Paths[r] /\ content[f] # Patch[r]
    /\ content' = [content EXCEPT ![f] = IF @ = "torn" THEN Patch[r] ELSE "torn"]
    /\ UNCHANGED <<stray, ledgers, lock, proc, edits, crashes>>

Verify(p) ==
    LET r == proc[p].req IN
    /\ proc[p].pc = "verify" \/ (proc[p].pc = "write" /\ IsPostImage(r))
    /\ IF IsPost(r) THEN Goto(p, "commit") ELSE BeginUndo(p, 1)
    /\ UNCHANGED <<content, stray, ledgers, lock, edits, crashes>>

\* _put lets a record leave "applying" only.
Commit(p) ==
    /\ proc[p].pc = "commit" /\ rec[proc[p].req] = "applying"
    /\ rec' = [rec EXCEPT ![proc[p].req] = "applied"]
    /\ Leave(p)
    /\ UNCHANGED <<content, stray, hitl, tx, claim, approved, edits, crashes>>

\* git, the file system or the ledger raises.
Fail(p) ==
    /\ proc[p].pc \in {"write", "verify", "commit"}
    /\ BeginUndo(p, 1)
    /\ UNCHANGED <<content, stray, ledgers, lock, edits, crashes>>

\* _rollback: every file, whatever it holds now, is replaced through a
\* temporary file that is created beside it, inside the repository.
UndoTemp(p) ==
    /\ proc[p].pc = "undo" /\ proc[p].todo # {}
    /\ stray' = stray + 1
    /\ Goto(p, "temp")
    /\ UNCHANGED <<content, ledgers, lock, edits, crashes>>

UndoReplace(p, f) ==
    /\ proc[p].pc = "temp" /\ f \in proc[p].todo
    /\ content' = [content EXCEPT ![f] = tx[proc[p].req].content[f]]
    /\ stray' = stray - 1
    /\ proc' = [proc EXCEPT ![p].pc = "undo", ![p].todo = @ \ {f}]
    /\ UNCHANGED <<ledgers, lock, edits, crashes>>

\* Mutant of UndoDone: recorded before it is done, and unproven.
UndoDoneEarly(p) ==
    LET r == proc[p].req IN
    /\ proc[p].pc = "undo"
    /\ rec' = [rec EXCEPT ![r] = "rolled_back"]
    /\ Leave(p)
    /\ UNCHANGED <<content, stray, hitl, tx, claim, approved, edits, crashes>>

\* The rollback is proven by _pre and recorded.
UndoDone(p) ==
    LET r == proc[p].req IN
    /\ proc[p].pc = "undo" /\ proc[p].todo = {} /\ IsPre(r)
    /\ rec[r] = "applying"
    /\ rec' = [rec EXCEPT ![r] = "rolled_back"]
    /\ Leave(p)
    /\ UNCHANGED <<content, stray, hitl, tx, claim, approved, edits, crashes>>

\* Mutant of UndoFail: a rollback that raised is recorded as one that worked.
UndoFailRecords(p) ==
    /\ proc[p].pc \in {"undo", "temp"}
    /\ stray' = IF proc[p].pc = "temp" THEN stray - 1 ELSE stray
    /\ rec' = [rec EXCEPT ![proc[p].req] = "rolled_back"]
    /\ Leave(p)
    /\ UNCHANGED <<content, hitl, tx, claim, approved, edits, crashes>>

\* Mutant of UndoFail: the handler never gives up.
UndoFailForever(p) ==
    /\ proc[p].pc \in {"undo", "temp"}
    /\ stray' = IF proc[p].pc = "temp" THEN stray - 1 ELSE stray
    /\ BeginUndo(p, proc[p].tries)
    /\ UNCHANGED <<content, ledgers, lock, edits, crashes>>

\* The rollback raises, or its proof fails: its temporary file is removed; the
\* handler rolls back again or gives up with "CRITICAL", the intent left standing.
UndoFail(p) ==
    /\ proc[p].pc \in {"undo", "temp"}
    /\ stray' = IF proc[p].pc = "temp" THEN stray - 1 ELSE stray
    /\ IF proc[p].tries > 1 THEN BeginUndo(p, 1) /\ UNCHANGED lock ELSE Leave(p)
    /\ UNCHANGED <<content, ledgers, edits, crashes>>

\* The process is killed: the kernel drops its lock, no finally clause runs.
Crash(p) ==
    /\ proc[p].pc # "idle" /\ crashes < MaxCrashes
    /\ crashes' = crashes + 1
    /\ proc' = [proc EXCEPT ![p] = Quiet]
    /\ lock' = IF lock = p THEN None ELSE lock
    /\ UNCHANGED <<content, stray, ledgers, edits>>

\* What a process does while it holds the repository lock.
Locked(p) ==
    \/ Claim(p) \/ RecordIntent(p) \/ Finish(p) \/ Verify(p) \/ Commit(p) \/ Fail(p)
    \/ UndoTemp(p) \/ UndoDone(p) \/ UndoFail(p)
    \/ \E f \in File : Write(p, f) \/ UndoReplace(p, f)

Next ==
    \/ \E r \in Request, s \in {"approved", "denied"} : Resolve(r, s)
    \/ \E f \in File, text \in {"base", "edit"} : Edit(f, text)
    \/ \E p \in Proc :
         \/ \E r \in Request : Prepare(p, r) \/ Recover(p, r)
         \/ Enter(p) \/ Locked(p) \/ Crash(p)

Spec == Init /\ [][Next]_vars

\* A process that holds the lock is scheduled, and the system calls it makes return.
FairSpec == Spec /\ \A p \in Proc : WF_vars(Locked(p))

-----------------------------------------------------------------------------
(* Properties *)

\* Every ledger, file and local keeps its type; only a call that is inside the
\* lock holds it.
TypeOK ==
    /\ content \in [File -> Text]
    /\ stray \in Nat
    /\ hitl \in [Request -> {"pending", "approved", "denied"}]
    /\ tx \in [Request -> {None} \cup [content : [File -> Text], stray : Nat]]
    /\ claim \subseteq Request
    /\ rec \in [Request -> {"none", "applying", "applied", "rolled_back"}]
    /\ lock \in Proc \cup {None}
    /\ proc \in [Proc -> Local]
    /\ approved \subseteq Request
    /\ edits \in 0 .. MaxEdits
    /\ crashes \in 0 .. MaxCrashes
    /\ \A p \in Proc : lock = p <=> proc[p].pc \notin {"idle", "prepared"}

\* A half written file is never orphaned: whatever crashed or failed, the
\* ledger still holds the intent of a request that writes it, so a recovery
\* knows that the file is torn and what it was.
TornMeansIntent ==
    \A f \in File : content[f] = "torn" =>
        \E r \in Request : f \in Paths[r] /\ rec[r] = "applying"

\* A patch is applied whole or not at all, and the ledger says which: an applied
\* request has its text in all of its files, one that was not begun or was rolled
\* back in none.  Requests whose patches share a file do not keep this: the
\* recovery of one that a crash interrupted before it wrote anything takes the
\* other's applied patch for a foreign state and rolls it back, while the code
\* that replays the other calls a missing patch "applied state drift".
LedgerIsTrue ==
    \A r \in Request : edits = 0 =>
        /\ rec[r] = "applied" => IsPostImage(r)
        /\ rec[r] \in {"none", "rolled_back"} => \A f \in Paths[r] : content[f] # Patch[r]

\* The outcome in the ledger is the outcome on disk when it is recorded:
\* "applied" with all the new files and everything else untouched since the
\* transaction was prepared, "rolled_back" with the very same repository.
TerminalMeansImage ==
    [][\A r \in Request : rec'[r] # rec[r] =>
          /\ rec'[r] = "applied" => IsPost(r)
          /\ rec'[r] = "rolled_back" => IsPre(r)]_vars

\* Only the user changes files freely.  A process changes them only for a
\* request that was approved, whose approval is consumed and whose intent is
\* on disk, and then only the files its patch names.
WritesNeedIntent ==
    [][edits' = edits => \A f \in File : content'[f] # content[f] =>
          \E r \in approved \cap claim : f \in Paths[r] /\ rec[r] = "applying"]_vars

\* No replay: what a ledger says is never unsaid.  A transaction keeps its
\* images, a claim is not given back, and a request that was applied or rolled
\* back is over.
LedgersOnlyGrow ==
    [][/\ claim \subseteq claim'
       /\ \A r \in Request :
            /\ tx[r] # None => tx'[r] = tx[r]
            /\ rec[r] \in {"applied", "rolled_back"} => rec'[r] = rec[r]]_vars

\* A process that takes the repository lock releases it, whichever call it
\* made and whatever raised in it.
LockIsReleased == \A p \in Proc : lock = p ~> lock # p

\* The module docstring: the boundary is "crash-recoverable".  While nobody
\* edited the repository, a request that a crash left "applying" can still be
\* recovered: the check that opens its recovery does not refuse it.
RecoveryPossible ==
    \A r \in Request :
        rec[r] = "applying" /\ lock = None /\ edits = 0 => Unaffected(r)

\* What is behind RecoveryPossible's violation, and nothing else is: while nobody
\* edited, the recovery of a request is refused only for a temporary file that a
\* rollback left when it was killed, or for a file of another request.
WhatBarsRecovery ==
    \A r \in Request :
        rec[r] = "applying" /\ edits = 0 /\ ~Unaffected(r) =>
            \/ stray > tx[r].stray
            \/ \E s \in Request \ {r} : \E f \in Paths[s] \ Paths[r] :
                   content[f] # tx[r].content[f]

\* The files as the ledger has them: those of a request that is under way are
\* still what they were, however far they are written.
Committed ==
    [f \in File |-> IF \E r \in Request : f \in Paths[r] /\ rec[r] = "applying"
                   THEN "base" ELSE content[f]]

Atomic == INSTANCE AtomicPatch WITH file <- Committed, state <- rec

\* The boundary is atomic.  Seen through the ledger, its calls, crashes, failed
\* rollbacks and recoveries only begin an approved patch, change all of its files
\* at once or none, and never touch another file, whatever users edit between
\* the calls; an edit to a file of an unfinished application is lost.
ImplementsAtomicPatch == Atomic!Spec

=============================================================================
