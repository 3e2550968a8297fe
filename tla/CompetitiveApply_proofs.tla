----------------------- MODULE CompetitiveApply_proofs -----------------------
(***************************************************************************)
(* Proofs about CompetitiveApply, for any number of processes, requests    *)
(* and files, and any patches, whether they share files or not.            *)
(***************************************************************************)
EXTENDS CompetitiveApply, Descent, TLAPS

Outside == {"idle", "prepared"}

\* How far a call is tells what the ledgers hold for its request.
CallOK(p) ==
    /\ proc[p].pc # "idle" => proc[p].req \in approved /\ tx[proc[p].req] # None
    /\ proc[p].pc \notin Outside \cup {"claim"} => proc[p].req \in claim
    /\ proc[p].pc \notin Outside \cup {"claim", "record"} => rec[proc[p].req] = "applying"
    /\ proc[p].pc \in {"undo", "temp"} => proc[p].todo \subseteq Paths[proc[p].req]
    /\ proc[p].pc = "temp" => stray > 0

\* Nothing is prepared or claimed that nobody approved.
Consent ==
    \A r \in Request :
        hitl[r] = "approved" \/ tx[r] # None \/ r \in claim => r \in approved

TypeInv == TypeOK /\ Consent /\ \A p \in Proc : CallOK(p)

-----------------------------------------------------------------------------
(* Type correctness *)

LEMMA TextType ==
    /\ {"base", "torn", "edit"} \subseteq Text
    /\ \A r \in Request : Patch[r] \in Text
  BY DEF Text, Images

LEMMA LocalType ==
    ASSUME NEW l \in Local, NEW pc \in {"prepared", "finish", "undo"},
           NEW r \in Request, NEW f
    PROVE  /\ [l EXCEPT !.pc = pc, !.req = r] \in Local
           /\ [l EXCEPT !.pc = pc, !.todo = l.todo \ {f}] \in Local
  BY DEF Local

LEMMA QuietType == Quiet \in Local
  BY DEF Quiet, Local

LEMMA SnapshotType ==
    ASSUME TypeOK
    PROVE  Snapshot \in [content : [File -> Text], stray : Nat] /\ Snapshot # None
  BY NoneAssumption DEF Snapshot, TypeOK

\* The other processes are untouched by a step of one.
LEMMA ProcUpdate ==
    ASSUME NEW p \in Proc, NEW c \in Local, proc \in [Proc -> Local],
           proc' = [proc EXCEPT ![p] = c]
    PROVE  /\ proc' \in [Proc -> Local]
           /\ proc'[p] = c
           /\ \A q \in Proc \ {p} : proc'[q] = proc[q]
  OBVIOUS

\* Only one process is past the flock.
LEMMA Exclusive ==
    ASSUME TypeOK, NEW p \in Proc, lock = p, NEW q \in Proc \ {p}
    PROVE  proc[q].pc \in Outside
  BY DEF TypeOK, Outside

LEMMA GotoType ==
    ASSUME TypeOK, NEW p \in Proc,
           NEW pc \in {"claim", "record", "finish", "write", "verify", "commit", "temp"},
           Goto(p, pc)
    PROVE  /\ proc' \in [Proc -> Local]
           /\ proc'[p].pc = pc /\ proc'[p].req = proc[p].req /\ proc'[p].todo = proc[p].todo
           /\ \A q \in Proc \ {p} : proc'[q] = proc[q]
  <1> DEFINE d == [proc[p] EXCEPT !.pc = pc]
  <1>1. d \in Local /\ d.pc = pc /\ d.req = proc[p].req /\ d.todo = proc[p].todo
    BY DEF TypeOK, Local
  <1>2. proc' = [proc EXCEPT ![p] = d]
    BY DEF Goto, TypeOK
  <1> QED BY <1>1, <1>2, ProcUpdate DEF TypeOK

LEMMA LeaveType ==
    ASSUME TypeOK, NEW p \in Proc, Leave(p)
    PROVE  /\ proc' \in [Proc -> Local]
           /\ proc'[p] = Quiet
           /\ \A q \in Proc \ {p} : proc'[q] = proc[q]
           /\ lock' = None
  BY ProcUpdate, QuietType DEF Leave, TypeOK

LEMMA UndoType ==
    ASSUME TypeInv, NEW p \in Proc, proc[p].pc # "idle", NEW n \in 0 .. 2, BeginUndo(p, n)
    PROVE  /\ proc' \in [Proc -> Local]
           /\ proc'[p].pc = "undo" /\ proc'[p].req = proc[p].req
           /\ proc'[p].todo = Paths[proc[p].req]
           /\ \A q \in Proc \ {p} : proc'[q] = proc[q]
  <1> DEFINE d == [proc[p] EXCEPT !.pc = "undo", !.todo = Paths[proc[p].req], !.tries = n]
  <1>1. proc[p] \in Local /\ proc[p].req \in Request
    BY DEF TypeInv, TypeOK, CallOK
  <1>2. Paths[proc[p].req] \in SUBSET File
    BY <1>1, ApplyAssumption
  <1>3. d \in Local
    BY <1>1, <1>2 DEF Local
  <1>4. proc' = [proc EXCEPT ![p] = d]
    BY DEF BeginUndo, TypeInv, TypeOK
  <1> QED BY <1>1, <1>3, <1>4, ProcUpdate DEF TypeInv, TypeOK, Local

LEMMA InitType == Init => TypeInv
  BY QuietType, TextType, ApplyAssumption, NoneAssumption
     DEF Init, TypeInv, TypeOK, Consent, CallOK, Quiet, Outside


LEMMA StepType == TypeInv /\ [Next]_vars => TypeInv'
  <1> SUFFICES ASSUME TypeInv, [Next]_vars PROVE TypeInv'
    OBVIOUS
  <1> USE DEF TypeInv, TypeOK, ledgers
  <1>1. ASSUME NEW r \in Request, NEW s \in {"approved", "denied"}, Resolve(r, s)
        PROVE  TypeInv'
    BY <1>1 DEF Resolve, Consent, CallOK
  <1>2. ASSUME NEW f \in File, NEW text \in {"base", "edit"}, Edit(f, text) PROVE TypeInv'
    BY <1>2, TextType, ApplyAssumption DEF Edit, Consent, CallOK
  <1>3. ASSUME NEW p \in Proc, NEW r \in Request, Prepare(p, r) PROVE TypeInv'
    <2> DEFINE d == [proc[p] EXCEPT !.pc = "prepared", !.req = r]
    <2>1. d \in Local
      BY LocalType
    <2>2. proc' = [proc EXCEPT ![p] = d]
      BY <1>3 DEF Prepare
    <2>3. proc' \in [Proc -> Local] /\ proc'[p] = d /\ \A q \in Proc \ {p} : proc'[q] = proc[q]
      BY <2>1, <2>2, ProcUpdate
    <2>4. Snapshot \in [content : [File -> Text], stray : Nat] /\ Snapshot # None
      BY SnapshotType
    <2>5. r \in approved
      BY <1>3 DEF Prepare, Consent
    <2> QED BY <1>3, <2>3, <2>4, <2>5, NoneAssumption DEF Prepare, Consent, CallOK, Outside
  <1>4. ASSUME NEW p \in Proc, NEW r \in Request, Recover(p, r) PROVE TypeInv'
    <2> DEFINE d == [proc[p] EXCEPT !.pc = "finish", !.req = r]
    <2>1. d \in Local
      BY LocalType
    <2>2. proc' = [proc EXCEPT ![p] = d]
      BY <1>4 DEF Recover
    <2>3. proc' \in [Proc -> Local] /\ proc'[p] = d /\ \A q \in Proc \ {p} : proc'[q] = proc[q]
      BY <2>1, <2>2, ProcUpdate
    <2>4. \A q \in Proc : proc[q].pc \in Outside
      BY <1>4, NoneAssumption DEF Recover, Outside
    <2> QED BY <1>4, <2>3, <2>4, NoneAssumption DEF Recover, Consent, CallOK, Outside
  <1>5. ASSUME NEW p \in Proc, Enter(p) PROVE TypeInv'
    <2>1. CASE Leave(p)
      BY <1>5, <2>1, LeaveType, NoneAssumption DEF Enter, Consent, CallOK, Outside, Quiet
    <2>2. CASE lock' = p /\ Goto(p, "claim")
      BY <1>5, <2>2, GotoType, NoneAssumption DEF Enter, Consent, CallOK, Outside
    <2> QED BY <1>5, <2>1, <2>2 DEF Enter
  <1>6. ASSUME NEW p \in Proc, Claim(p) PROVE TypeInv'
    <2>0. proc[p].req \in Request
          /\ proc[p].req \in approved /\ tx[proc[p].req] # None
      BY <1>6 DEF Claim, CallOK
    <2>1. lock = p /\ \A q \in Proc \ {p} : proc[q].pc \in Outside
      BY <1>6 DEF Claim, Outside
    <2>2. CASE Leave(p)
      BY <1>6, <2>0, <2>1, <2>2, LeaveType, NoneAssumption DEF Claim, Consent, CallOK, Outside, Quiet
    <2>3. CASE lock' = lock /\ Goto(p, "record") /\ claim' = claim \cup {proc[p].req}
      BY <1>6, <2>0, <2>1, <2>3, GotoType, NoneAssumption DEF Claim, Consent, CallOK, Outside
    <2> QED BY <1>6, <2>2, <2>3 DEF Claim
  <1>7. ASSUME NEW p \in Proc, RecordIntent(p) PROVE TypeInv'
    <2>0. proc[p].req \in Request
          /\ proc[p].req \in approved /\ tx[proc[p].req] # None
      BY <1>7 DEF RecordIntent, CallOK
    <2>1. lock = p /\ \A q \in Proc \ {p} : proc[q].pc \in Outside
      BY <1>7 DEF RecordIntent, Outside
    <2>2. CASE Leave(p) /\ UNCHANGED rec
      BY <1>7, <2>0, <2>1, <2>2, LeaveType, NoneAssumption
         DEF RecordIntent, Consent, CallOK, Outside, Quiet
    <2>3. CASE lock' = lock /\ Goto(p, "finish") /\ rec' = [rec EXCEPT ![proc[p].req] = "applying"]
      BY <1>7, <2>0, <2>1, <2>3, GotoType, NoneAssumption
         DEF RecordIntent, Consent, CallOK, Outside
    <2> QED BY <1>7, <2>2, <2>3 DEF RecordIntent
  <1>8. ASSUME NEW p \in Proc, Finish(p) PROVE TypeInv'
    <2>1. lock = p /\ \A q \in Proc \ {p} : proc[q].pc \in Outside
      BY <1>8 DEF Finish, Outside
    <2>2. ASSUME NEW pc \in {"write", "verify"}, Goto(p, pc) PROVE TypeInv'
      BY <1>8, <2>1, <2>2, GotoType DEF Finish, Consent, CallOK, Outside
    <2>3. CASE BeginUndo(p, 2)
      BY <1>8, <2>1, <2>3, UndoType DEF Finish, Consent, CallOK, Outside
    <2> QED BY <1>8, <2>2, <2>3 DEF Finish
  <1>9. ASSUME NEW p \in Proc, NEW f \in File, Write(p, f) PROVE TypeInv'
    <2>1. Patch[proc[p].req] \in Text
      BY <1>9, TextType DEF Write, CallOK
    <2> QED BY <1>9, <2>1, TextType DEF Write, Consent, CallOK
  <1>10. ASSUME NEW p \in Proc, Verify(p) PROVE TypeInv'
    <2>1. lock = p /\ \A q \in Proc \ {p} : proc[q].pc \in Outside
      BY <1>10 DEF Verify, Outside
    <2>2. CASE Goto(p, "commit")
      BY <1>10, <2>1, <2>2, GotoType DEF Verify, Consent, CallOK, Outside
    <2>3. CASE BeginUndo(p, 1)
      BY <1>10, <2>1, <2>3, UndoType DEF Verify, Consent, CallOK, Outside
    <2> QED BY <1>10, <2>2, <2>3 DEF Verify
  <1>11. ASSUME NEW p \in Proc, Commit(p) PROVE TypeInv'
    <2>1. lock = p /\ \A q \in Proc \ {p} : proc[q].pc \in Outside
      BY <1>11 DEF Commit, Outside
    <2> QED BY <1>11, <2>1, LeaveType, NoneAssumption DEF Commit, Consent, CallOK, Outside, Quiet
  <1>12. ASSUME NEW p \in Proc, Fail(p) PROVE TypeInv'
    BY <1>12, UndoType DEF Fail, Consent, CallOK, Outside
  <1>13. ASSUME NEW p \in Proc, UndoTemp(p) PROVE TypeInv'
    <2>1. lock = p /\ \A q \in Proc \ {p} : proc[q].pc \in Outside
      BY <1>13 DEF UndoTemp, Outside
    <2> QED BY <1>13, <2>1, GotoType DEF UndoTemp, Consent, CallOK, Outside
  <1>14. ASSUME NEW p \in Proc, NEW f \in File, UndoReplace(p, f) PROVE TypeInv'
    <2> DEFINE d == [proc[p] EXCEPT !.pc = "undo", !.todo = proc[p].todo \ {f}]
    <2>1. lock = p /\ (\A q \in Proc \ {p} : proc[q].pc \in Outside) /\ stray \in Nat \ {0}
      BY <1>14 DEF UndoReplace, Outside, CallOK
    <2>2. tx[proc[p].req].content[f] \in Text
      BY <1>14 DEF UndoReplace, CallOK
    <2>3. d \in Local
      <3>1. proc[p] \in Local
        OBVIOUS
      <3>2. proc[p].req \in Request
        BY <1>14 DEF UndoReplace, CallOK
      <3> QED BY <3>1, <3>2, LocalType
    <2>4. proc' = [proc EXCEPT ![p] = d]
      BY <1>14 DEF UndoReplace
    <2>5. proc' \in [Proc -> Local] /\ proc'[p] = d /\ \A q \in Proc \ {p} : proc'[q] = proc[q]
      BY <2>3, <2>4, ProcUpdate
    <2>6. content' \in [File -> Text]
      BY <1>14, <2>2 DEF UndoReplace
    <2>8. stray' \in Nat
      <3>1. stray - 1 \in Nat
        BY <2>1
      <3> QED BY <1>14, <3>1 DEF UndoReplace
    <2>7. d.pc = "undo" /\ d.req = proc[p].req /\ d.todo \subseteq proc[p].todo
      BY DEF Local
    <2> HIDE DEF d
    <2> QED BY <1>14, <2>1, <2>5, <2>6, <2>7, <2>8 DEF UndoReplace, Consent, CallOK, Outside
  <1>15. ASSUME NEW p \in Proc, UndoDone(p) PROVE TypeInv'
    <2>1. lock = p /\ \A q \in Proc \ {p} : proc[q].pc \in Outside
      BY <1>15 DEF UndoDone, Outside
    <2> QED BY <1>15, <2>1, LeaveType, NoneAssumption DEF UndoDone, Consent, CallOK, Outside, Quiet
  <1>16. ASSUME NEW p \in Proc, UndoFail(p) PROVE TypeInv'
    <2>1. lock = p /\ (\A q \in Proc \ {p} : proc[q].pc \in Outside)
      BY <1>16 DEF UndoFail, Outside
    <2>2. stray' \in Nat
      BY <1>16 DEF UndoFail, CallOK, Outside
    <2>3. CASE BeginUndo(p, 1) /\ UNCHANGED lock
      BY <1>16, <2>1, <2>2, <2>3, UndoType DEF UndoFail, Consent, CallOK, Outside
    <2>4. CASE Leave(p)
      BY <1>16, <2>1, <2>2, <2>4, LeaveType, NoneAssumption
         DEF UndoFail, Consent, CallOK, Outside, Quiet
    <2> QED BY <1>16, <2>3, <2>4 DEF UndoFail
  <1>17. ASSUME NEW p \in Proc, Crash(p) PROVE TypeInv'
    <2>1. proc' \in [Proc -> Local] /\ proc'[p] = Quiet /\ \A q \in Proc \ {p} : proc'[q] = proc[q]
      BY <1>17, QuietType, ProcUpdate DEF Crash
    <2>2. crashes' \in 0 .. MaxCrashes
      BY <1>17, ApplyAssumption DEF Crash
    <2> QED BY <1>17, <2>1, <2>2, NoneAssumption DEF Crash, Consent, CallOK, Outside, Quiet
  <1>18. CASE UNCHANGED vars
    BY <1>18 DEF vars, Consent, CallOK
  <1> QED
    BY <1>1, <1>2, <1>3, <1>4, <1>5, <1>6, <1>7, <1>8, <1>9, <1>10, <1>11, <1>12,
       <1>13, <1>14, <1>15, <1>16, <1>17, <1>18 DEF Next, Locked

\* Every ledger, file and local keeps its type, and the flock is held exactly by
\* the process that is past it.
THEOREM TypeCorrect == Spec => []TypeOK
  <1>1. TypeInv => TypeOK
    BY DEF TypeInv
  <1> QED BY <1>1, InitType, StepType, PTL DEF Spec

-----------------------------------------------------------------------------
(* What a step may never do *)

\* No replay: transactions, claims and terminal records are never taken back.
THEOREM LedgersCorrect == Spec => LedgersOnlyGrow
  <1> DEFINE Grows == /\ claim \subseteq claim'
                     /\ \A r \in Request :
                          /\ tx[r] # None => tx'[r] = tx[r]
                          /\ rec[r] \in {"applied", "rolled_back"} => rec'[r] = rec[r]
  <1>1. TypeInv /\ [Next]_vars => Grows
    <2> SUFFICES ASSUME TypeInv, [Next]_vars PROVE Grows
      OBVIOUS
    <2> USE DEF TypeInv, TypeOK, ledgers
    <2>1. ASSUME NEW p \in Proc, NEW r \in Request, Prepare(p, r) PROVE Grows
      BY <2>1 DEF Prepare
    <2>2. ASSUME NEW p \in Proc, NEW r \in Request, Recover(p, r) PROVE Grows
      BY <2>2 DEF Recover
    <2>3. ASSUME NEW p \in Proc, Claim(p) \/ RecordIntent(p) \/ Commit(p) \/ UndoDone(p)
          PROVE  Grows
      BY <2>3 DEF Claim, RecordIntent, Commit, UndoDone
    <2>4. CASE UNCHANGED <<tx, claim, rec>>
      BY <2>4
    <2>5. ASSUME NEW p \in Proc, NEW f \in File,
                 \/ Enter(p) \/ Finish(p) \/ Verify(p) \/ Fail(p) \/ UndoTemp(p)
                 \/ UndoFail(p) \/ Crash(p) \/ Write(p, f) \/ UndoReplace(p, f)
          PROVE  UNCHANGED <<tx, claim, rec>>
      BY <2>5 DEF Enter, Finish, Verify, Fail, UndoTemp, UndoFail, Crash, Write, UndoReplace
    <2>6. ASSUME NEW p \in Proc,
                 \/ Enter(p) \/ Finish(p) \/ Verify(p) \/ Fail(p) \/ UndoTemp(p)
                 \/ UndoFail(p) \/ Crash(p)
          PROVE  UNCHANGED <<tx, claim, rec>>
      BY <2>6 DEF Enter, Finish, Verify, Fail, UndoTemp, UndoFail, Crash
    <2>7. ASSUME NEW r \in Request, NEW s, Resolve(r, s) PROVE UNCHANGED <<tx, claim, rec>>
      BY <2>7 DEF Resolve
    <2>8. ASSUME NEW f \in File, NEW text, Edit(f, text) PROVE UNCHANGED <<tx, claim, rec>>
      BY <2>8 DEF Edit
    <2> QED BY <2>1, <2>2, <2>3, <2>4, <2>5, <2>6, <2>7, <2>8 DEF Next, Locked, vars
  <1> QED BY <1>1, InitType, StepType, PTL DEF Spec, LedgersOnlyGrow

\* The other steps leave every file alone.
LEMMA Untouched ==
    ASSUME NEW p \in Proc,
           \/ Enter(p) \/ Claim(p) \/ RecordIntent(p) \/ Finish(p) \/ Verify(p) \/ Commit(p)
           \/ Fail(p) \/ UndoTemp(p) \/ UndoDone(p) \/ UndoFail(p) \/ Crash(p)
    PROVE  content' = content /\ edits' = edits
  BY DEF Enter, Claim, RecordIntent, Finish, Verify, Commit, Fail, UndoTemp, UndoDone,
         UndoFail, Crash

\* A process changes files only for an approved, consumed request whose intent
\* is on disk, and only the files its patch names.
THEOREM WritesCorrect == Spec => WritesNeedIntent
  <1> DEFINE Guarded == edits' = edits => \A f \in File : content'[f] # content[f] =>
               \E r \in approved \cap claim : f \in Paths[r] /\ rec[r] = "applying"
  <1>1. TypeInv /\ [Next]_vars => Guarded
    <2> SUFFICES ASSUME TypeInv, [Next]_vars PROVE Guarded
      OBVIOUS
    <2> USE DEF TypeInv, TypeOK
    <2>1. ASSUME NEW p \in Proc, NEW f \in File, Write(p, f) PROVE Guarded
      <3>1. proc[p].req \in approved \cap claim /\ rec[proc[p].req] = "applying"
        BY <2>1 DEF Write, CallOK, Outside
      <3> QED BY <2>1, <3>1 DEF Write
    <2>2. ASSUME NEW p \in Proc, NEW f \in File, UndoReplace(p, f) PROVE Guarded
      <3>1. proc[p].req \in approved \cap claim /\ rec[proc[p].req] = "applying"
            /\ f \in Paths[proc[p].req]
        BY <2>2 DEF UndoReplace, CallOK, Outside
      <3>2. \A g \in File \ {f} : content'[g] = content[g]
        BY <2>2 DEF UndoReplace
      <3> QED BY <3>1, <3>2
    <2>3. CASE content' = content
      BY <2>3
    <2>4. ASSUME NEW p \in Proc, NEW r \in Request, Prepare(p, r) \/ Recover(p, r)
          PROVE  content' = content
      BY <2>4 DEF Prepare, Recover
    <2>5. ASSUME NEW r \in Request, NEW s, Resolve(r, s) PROVE content' = content
      BY <2>5 DEF Resolve
    <2>6. ASSUME NEW f \in File, NEW text, Edit(f, text) PROVE Guarded
      BY <2>6 DEF Edit
    <2> QED BY <2>1, <2>2, <2>3, <2>4, <2>5, <2>6, Untouched DEF Next, Locked, vars
  <1> QED BY <1>1, InitType, StepType, PTL DEF Spec, WritesNeedIntent

-----------------------------------------------------------------------------
(* Torn files *)

\* No transaction binds a torn file as one to restore, and a call that is about
\* to record "applied" has left none.
TornInv ==
    /\ TornMeansIntent
    /\ \A r \in Request : tx[r] # None => \A f \in Paths[r] : tx[r].content[f] # "torn"
    /\ \A p \in Proc : proc[p].pc = "commit" =>
          \A f \in Paths[proc[p].req] : content[f] # "torn"

LEMMA InitTorn == Init => TornInv
  BY DEF Init, TornInv, TornMeansIntent, Quiet

LEMMA StepTorn == TypeInv /\ TornInv /\ [Next]_vars => TornInv'
  <1> SUFFICES ASSUME TypeInv, TornInv, [Next]_vars PROVE TornInv'
    OBVIOUS
  <1> USE DEF TypeInv, TypeOK, TornInv, TornMeansIntent, ledgers
  <1>1. \A r \in Request : Paths[r] \subseteq File /\ Patch[r] # "torn"
    BY ApplyAssumption DEF Images
  <1>2. ASSUME NEW r \in Request, NEW s, Resolve(r, s) PROVE TornInv'
    BY <1>2 DEF Resolve
  <1>3. ASSUME NEW f \in File, NEW text \in {"base", "edit"}, Edit(f, text) PROVE TornInv'
    BY <1>1, <1>3 DEF Edit, CallOK
  <1>4. ASSUME NEW p \in Proc, NEW r \in Request, Prepare(p, r) PROVE TornInv'
    <2>1. \A f \in Paths[r] : Snapshot.content[f] # "torn"
      BY <1>4 DEF Prepare, Applicable, Snapshot
    <2>2. \A q \in Proc : proc'[q].pc = "commit" => proc'[q] = proc[q]
      BY <1>4 DEF Prepare, Local
    <2>3. tx' = [tx EXCEPT ![r] = Snapshot] /\ UNCHANGED <<content, rec>>
      BY <1>4 DEF Prepare
    <2> HIDE DEF Local
    <2> QED BY <2>1, <2>2, <2>3
  <1>5. ASSUME NEW p \in Proc, NEW r \in Request, Recover(p, r) PROVE TornInv'
    <2>1. \A q \in Proc : proc'[q].pc = "commit" => proc'[q] = proc[q]
      BY <1>5 DEF Recover, Local
    <2>2. rec' = [rec EXCEPT ![r] = "applying"] /\ UNCHANGED <<content, tx>>
      BY <1>5 DEF Recover
    <2> QED BY <2>1, <2>2
  <1>6. ASSUME NEW p \in Proc, Enter(p) \/ Claim(p) PROVE TornInv'
    <2>1. Goto(p, "claim") \/ Goto(p, "record") \/ Leave(p)
      BY <1>6 DEF Enter, Claim
    <2>2. \A q \in Proc : proc'[q].pc = "commit" => proc'[q] = proc[q]
      BY <2>1, GotoType, LeaveType DEF Quiet
    <2>3. UNCHANGED <<content, tx, rec>>
      BY <1>6 DEF Enter, Claim
    <2> QED BY <2>2, <2>3
  <1>7. ASSUME NEW p \in Proc, RecordIntent(p) PROVE TornInv'
    <2>1. Goto(p, "finish") \/ Leave(p)
      BY <1>7 DEF RecordIntent
    <2>2. \A q \in Proc : proc'[q].pc = "commit" => proc'[q] = proc[q]
      BY <2>1, GotoType, LeaveType DEF Quiet
    <2>3. UNCHANGED <<content, tx>> /\ (rec' = rec \/ rec' = [rec EXCEPT ![proc[p].req] = "applying"])
      BY <1>7 DEF RecordIntent
    <2> QED BY <2>2, <2>3
  <1>8. ASSUME NEW p \in Proc, Finish(p) \/ Fail(p) PROVE TornInv'
    <2>1. Goto(p, "write") \/ Goto(p, "verify") \/ BeginUndo(p, 1) \/ BeginUndo(p, 2)
      BY <1>8 DEF Finish, Fail
    <2>2. proc[p].pc # "idle"
      BY <1>8 DEF Finish, Fail
    <2>3. \A q \in Proc : proc'[q].pc = "commit" => proc'[q] = proc[q]
      BY <2>1, <2>2, GotoType, UndoType
    <2>4. UNCHANGED <<content, tx, rec>>
      BY <1>8 DEF Finish, Fail
    <2> QED BY <2>3, <2>4
  <1>9. ASSUME NEW p \in Proc, NEW f \in File, Write(p, f) PROVE TornInv'
    <2>1. proc[p].req \in Request /\ rec[proc[p].req] = "applying"
      BY <1>9 DEF Write, CallOK, Outside
    <2>2. \A q \in Proc : proc[q].pc # "commit"
      BY <1>9 DEF Write
    <2> QED BY <1>9, <2>1, <2>2 DEF Write
  <1>10. ASSUME NEW p \in Proc, Verify(p) PROVE TornInv'
    <2>1. UNCHANGED <<content, tx, rec>> /\ proc[p].req \in Request /\ proc[p].pc # "idle"
      BY <1>10 DEF Verify, CallOK
    <2>2. CASE Goto(p, "commit") /\ IsPost(proc[p].req)
      BY <1>1, <2>1, <2>2, GotoType DEF IsPost, IsPostImage
    <2>3. CASE BeginUndo(p, 1)
      BY <2>1, <2>3, UndoType
    <2> QED BY <1>10, <2>2, <2>3 DEF Verify
  <1>11. ASSUME NEW p \in Proc, Commit(p) PROVE TornInv'
    <2>1. \A q \in Proc : proc'[q].pc # "commit"
      BY <1>11, LeaveType DEF Commit, Quiet
    <2>2. \A f \in Paths[proc[p].req] : content[f] # "torn"
      BY <1>11 DEF Commit
    <2> QED BY <1>11, <2>1, <2>2 DEF Commit
  <1>12. ASSUME NEW p \in Proc, UndoTemp(p) PROVE TornInv'
    BY <1>12, GotoType DEF UndoTemp
  <1>13. ASSUME NEW p \in Proc, NEW f \in File, UndoReplace(p, f) PROVE TornInv'
    <2>1. \A q \in Proc : proc'[q].pc # "commit"
      BY <1>13 DEF UndoReplace, Local
    <2>2. tx[proc[p].req].content[f] # "torn"
      BY <1>13 DEF UndoReplace, CallOK
    <2>3. UNCHANGED <<tx, rec>> /\ content' = [content EXCEPT ![f] = tx[proc[p].req].content[f]]
      BY <1>13 DEF UndoReplace
    <2> QED BY <2>1, <2>2, <2>3
  <1>14. ASSUME NEW p \in Proc, UndoDone(p) PROVE TornInv'
    <2>1. \A q \in Proc : proc'[q].pc # "commit"
      BY <1>14, LeaveType DEF UndoDone, Quiet
    <2>2. \A f \in Paths[proc[p].req] : content[f] # "torn"
      BY <1>14 DEF UndoDone, IsPre, IsPreImage, CallOK
    <2> QED BY <1>14, <2>1, <2>2 DEF UndoDone
  <1>15. ASSUME NEW p \in Proc, UndoFail(p) PROVE TornInv'
    <2>1. \A q \in Proc : proc'[q].pc # "commit"
      BY <1>15, LeaveType, UndoType DEF UndoFail, Quiet
    <2> QED BY <1>15, <2>1 DEF UndoFail
  <1>16. ASSUME NEW p \in Proc, Crash(p) PROVE TornInv'
    BY <1>16 DEF Crash, Quiet
  <1>17. CASE UNCHANGED vars
    BY <1>17 DEF vars
  <1> QED
    BY <1>2, <1>3, <1>4, <1>5, <1>6, <1>7, <1>8, <1>9, <1>10, <1>11, <1>12, <1>13,
       <1>14, <1>15, <1>16, <1>17 DEF Next, Locked

\* However calls crash and fail, and whatever the user edits meanwhile, a torn
\* file belongs to a request whose intent is still in the ledger.
THEOREM TornCorrect == Spec => []TornMeansIntent
  <1>1. (TypeInv /\ TornInv) /\ [Next]_vars => (TypeInv /\ TornInv)'
    BY StepType, StepTorn
  <1>2. TornInv => TornMeansIntent
    BY DEF TornInv
  <1> QED BY <1>1, <1>2, InitType, InitTorn, PTL DEF Spec

-----------------------------------------------------------------------------
(* The outcome *)

\* A call that is about to record "applied" has just proven it.
ImageInv == \A p \in Proc : proc[p].pc = "commit" => IsPost(proc[p].req)

\* Steps that leave files, transactions and the calls at "commit" alone.
LEMMA ImageKept ==
    ASSUME ImageInv, UNCHANGED <<content, stray>>,
           \A p \in Proc : proc'[p].pc = "commit" =>
              proc'[p] = proc[p] /\ tx'[proc[p].req] = tx[proc[p].req]
    PROVE  ImageInv'
  BY DEF ImageInv, IsPost, Unaffected, IsPostImage

LEMMA StepImage == ~EditsAnytime /\ TypeInv /\ ImageInv /\ [Next]_vars => ImageInv'
  <1> SUFFICES ASSUME ~EditsAnytime, TypeInv, ImageInv, [Next]_vars PROVE ImageInv'
    OBVIOUS
  <1> USE DEF TypeInv, TypeOK, ledgers
  <1>1. ASSUME NEW r \in Request, NEW s, Resolve(r, s) PROVE ImageInv'
    BY <1>1, ImageKept DEF Resolve
  <1>2. ASSUME NEW f \in File, NEW text, Edit(f, text) PROVE ImageInv'
    BY <1>2, NoneAssumption DEF Edit, ImageInv
  <1>3. ASSUME NEW p \in Proc, NEW r \in Request, Prepare(p, r) PROVE ImageInv'
    <2>1. \A q \in Proc : proc'[q].pc # "commit"
      BY <1>3, NoneAssumption DEF Prepare, Local
    <2> QED BY <2>1 DEF ImageInv
  <1>4. ASSUME NEW p \in Proc, NEW r \in Request, Recover(p, r) PROVE ImageInv'
    <2>1. \A q \in Proc : proc'[q].pc # "commit"
      BY <1>4, NoneAssumption DEF Recover, Local
    <2> QED BY <2>1 DEF ImageInv
  <1>5. ASSUME NEW p \in Proc, Enter(p) \/ Claim(p) \/ RecordIntent(p) PROVE ImageInv'
    <2>1. Goto(p, "claim") \/ Goto(p, "record") \/ Goto(p, "finish") \/ Leave(p)
      BY <1>5 DEF Enter, Claim, RecordIntent
    <2>2. \A q \in Proc : proc'[q].pc = "commit" => proc'[q] = proc[q]
      BY <2>1, GotoType, LeaveType DEF Quiet
    <2>3. UNCHANGED <<content, stray, tx>>
      BY <1>5 DEF Enter, Claim, RecordIntent
    <2> QED BY <2>2, <2>3, ImageKept
  <1>6. ASSUME NEW p \in Proc, Finish(p) \/ Fail(p) PROVE ImageInv'
    <2>1. Goto(p, "write") \/ Goto(p, "verify") \/ BeginUndo(p, 1) \/ BeginUndo(p, 2)
      BY <1>6 DEF Finish, Fail
    <2>2. proc[p].pc # "idle"
      BY <1>6 DEF Finish, Fail
    <2>3. \A q \in Proc : proc'[q].pc = "commit" => proc'[q] = proc[q]
      BY <2>1, <2>2, GotoType, UndoType
    <2>4. UNCHANGED <<content, stray, tx>>
      BY <1>6 DEF Finish, Fail
    <2> QED BY <2>3, <2>4, ImageKept
  <1>7. ASSUME NEW p \in Proc, NEW f \in File, Write(p, f) \/ UndoReplace(p, f) PROVE ImageInv'
    <2>1. \A q \in Proc : proc'[q].pc # "commit"
      BY <1>7 DEF Write, UndoReplace, Local
    <2> QED BY <2>1 DEF ImageInv
  <1>8. ASSUME NEW p \in Proc, Verify(p) PROVE ImageInv'
    <2>1. UNCHANGED <<content, stray, tx>> /\ proc[p].pc # "idle"
      BY <1>8 DEF Verify
    <2>2. CASE Goto(p, "commit") /\ IsPost(proc[p].req)
      BY <2>1, <2>2, GotoType DEF ImageInv, IsPost, IsPostImage, Unaffected
    <2>3. CASE BeginUndo(p, 1)
      BY <2>1, <2>3, UndoType, ImageKept
    <2> QED BY <1>8, <2>2, <2>3 DEF Verify
  <1>9. ASSUME NEW p \in Proc,
               Commit(p) \/ UndoTemp(p) \/ UndoDone(p) \/ UndoFail(p)
        PROVE  ImageInv'
    <2>1. Goto(p, "temp") \/ Leave(p) \/ BeginUndo(p, 1)
      BY <1>9 DEF Commit, UndoTemp, UndoDone, UndoFail
    <2>2. lock = p /\ proc[p].pc # "idle"
      BY <1>9 DEF Commit, UndoTemp, UndoDone, UndoFail
    <2>3. \A q \in Proc : proc'[q].pc # "commit"
      BY <2>1, <2>2, GotoType, LeaveType, UndoType DEF Quiet
    <2> QED BY <2>3 DEF ImageInv
  <1>10. ASSUME NEW p \in Proc, Crash(p) PROVE ImageInv'
    <2>1. \A q \in Proc : proc'[q].pc = "commit" => proc'[q] = proc[q]
      BY <1>10 DEF Crash, Quiet
    <2> QED BY <1>10, <2>1, ImageKept DEF Crash
  <1>11. CASE UNCHANGED vars
    BY <1>11, ImageKept DEF vars
  <1> QED
    BY <1>1, <1>2, <1>3, <1>4, <1>5, <1>6, <1>7, <1>8, <1>9, <1>10, <1>11 DEF Next, Locked

\* As long as editors respect the lock, the outcome a call records is the outcome
\* on disk: all new files or all old ones, and the rest as it was prepared.
THEOREM ImageCorrect ==
    ASSUME ~EditsAnytime PROVE Spec => TerminalMeansImage
  <1> DEFINE Proven == \A r \in Request : rec'[r] # rec[r] =>
                 /\ rec'[r] = "applied" => IsPost(r)
                 /\ rec'[r] = "rolled_back" => IsPre(r)
  <1>1. Init => ImageInv
    BY DEF Init, ImageInv, Quiet
  <1>2. (TypeInv /\ ImageInv) /\ [Next]_vars => (TypeInv /\ ImageInv)'
    BY StepType, StepImage
  <1>3. TypeInv /\ ImageInv /\ [Next]_vars => Proven
    <2> SUFFICES ASSUME TypeInv, ImageInv, [Next]_vars PROVE Proven
      OBVIOUS
    <2> USE DEF TypeInv, TypeOK, ledgers
    <2>1. ASSUME NEW p \in Proc, Commit(p) PROVE Proven
      BY <2>1 DEF Commit, ImageInv, CallOK
    <2>2. ASSUME NEW p \in Proc, UndoDone(p) PROVE Proven
      BY <2>2 DEF UndoDone
    <2>3. ASSUME NEW p \in Proc, NEW r \in Request, Recover(p, r) PROVE Proven
      BY <2>3 DEF Recover
    <2>4. ASSUME NEW p \in Proc, RecordIntent(p) PROVE Proven
      BY <2>4 DEF RecordIntent
    <2>5. CASE rec' = rec
      BY <2>5
    <2>6. ASSUME NEW p \in Proc,
                 \/ Enter(p) \/ Claim(p) \/ Finish(p) \/ Verify(p) \/ Fail(p) \/ UndoTemp(p)
                 \/ UndoFail(p) \/ Crash(p)
          PROVE  rec' = rec
      BY <2>6 DEF Enter, Claim, Finish, Verify, Fail, UndoTemp, UndoFail, Crash
    <2>7. ASSUME NEW p \in Proc, NEW f \in File, Write(p, f) \/ UndoReplace(p, f)
          PROVE  rec' = rec
      BY <2>7 DEF Write, UndoReplace
    <2>8. ASSUME NEW p \in Proc, NEW r \in Request, Prepare(p, r) PROVE rec' = rec
      BY <2>8 DEF Prepare
    <2>9. ASSUME NEW r \in Request, NEW s, Resolve(r, s) PROVE rec' = rec
      BY <2>9 DEF Resolve
    <2>10. ASSUME NEW f \in File, NEW text, Edit(f, text) PROVE rec' = rec
      BY <2>10 DEF Edit
    <2> QED BY <2>1, <2>2, <2>3, <2>4, <2>5, <2>6, <2>7, <2>8, <2>9, <2>10
            DEF Next, Locked, vars
  <1> QED BY <1>1, <1>2, <1>3, InitType, PTL DEF Spec, TerminalMeansImage

-----------------------------------------------------------------------------
(* The ledger and the files *)

\* No two requests name a common file.
Disjoint == \A r, s \in Request : r # s => Paths[r] \cap Paths[s] = {}

\* Until the user edits, r's files are written for r only: before its intent and
\* after its rollback they are what they were at the start, which is also what
\* its transaction restores; a call about to record "applied" has all of them.
LedgerInv ==
    edits = 0 =>
        /\ \A r \in Request :
              /\ tx[r] # None => \A f \in Paths[r] : tx[r].content[f] = "base"
              /\ rec[r] = "applied" => IsPostImage(r)
              /\ rec[r] \in {"none", "rolled_back"} => \A f \in Paths[r] : content[f] = "base"
        /\ \A p \in Proc : proc[p].pc = "commit" => IsPostImage(proc[p].req)

LEMMA InitLedger == Init => LedgerInv
  BY ApplyAssumption DEF Init, LedgerInv, Quiet

\* Steps that leave files and transactions alone, bring no call to "commit" and
\* change a record at most to "applying".
LEMMA LedgerKept ==
    ASSUME LedgerInv, UNCHANGED <<content, tx, edits>>,
           \A r \in Request : rec'[r] \in {rec[r], "applying"},
           \A p \in Proc : proc'[p].pc = "commit" => proc'[p] = proc[p]
    PROVE  LedgerInv'
  <1> SUFFICES ASSUME edits = 0 PROVE LedgerInv'
    BY DEF LedgerInv
  <1>1. \A r \in Request : IsPostImage(r)' = IsPostImage(r)
    BY DEF IsPostImage
  <1>2. \A p \in Proc : proc'[p].pc = "commit" => IsPostImage(proc[p].req)'
    BY DEF LedgerInv, IsPostImage
  <1> QED BY <1>1, <1>2 DEF LedgerInv

\* A step of the call that holds the lock changes one file of its request.
LEMMA LedgerFile ==
    ASSUME Disjoint, TypeInv, LedgerInv, NEW p \in Proc, NEW f \in File,
           f \in Paths[proc[p].req], proc[p].pc \in {"write", "temp"},
           \A g \in File \ {f} : content'[g] = content[g], UNCHANGED <<tx, rec, edits>>,
           \A q \in Proc : proc'[q].pc # "commit"
    PROVE  LedgerInv'
  <1> DEFINE r == proc[p].req
  <1> SUFFICES ASSUME edits = 0 PROVE LedgerInv'
    BY DEF LedgerInv
  <1>1. r \in Request /\ rec[r] = "applying"
    BY DEF TypeInv, TypeOK, Consent, CallOK, Outside
  <1>2. \A s \in Request \ {r} : \A g \in Paths[s] : content'[g] = content[g]
    BY <1>1, ApplyAssumption DEF Disjoint, TypeInv, TypeOK
  <1>3. \A s \in Request \ {r} : IsPostImage(s)' = IsPostImage(s)
    BY <1>2 DEF IsPostImage
  <1> QED BY <1>1, <1>2, <1>3 DEF LedgerInv

LEMMA StepLedger == Disjoint /\ TypeInv /\ LedgerInv /\ [Next]_vars => LedgerInv'
  <1> SUFFICES ASSUME Disjoint, TypeInv, LedgerInv, [Next]_vars PROVE LedgerInv'
    OBVIOUS
  <1> USE DEF TypeInv, TypeOK, ledgers
  <1>1. ASSUME NEW r \in Request, NEW s, Resolve(r, s) PROVE LedgerInv'
    BY <1>1, LedgerKept DEF Resolve
  <1>2. ASSUME NEW f \in File, NEW text, Edit(f, text) PROVE LedgerInv'
    BY <1>2, ApplyAssumption DEF Edit, LedgerInv
  <1>3. ASSUME NEW p \in Proc, NEW r \in Request, Prepare(p, r) PROVE LedgerInv'
    <2>1. \A q \in Proc : proc'[q].pc # "commit"
      BY <1>3, NoneAssumption DEF Prepare, Local
    <2>2. \A f \in Paths[r] : Snapshot.content[f] = "base"
      BY <1>3 DEF Prepare, Applicable, Snapshot
    <2>3. tx' = [tx EXCEPT ![r] = Snapshot] /\ UNCHANGED <<content, rec, edits>>
      BY <1>3 DEF Prepare
    <2>4. \A s \in Request : IsPostImage(s)' = IsPostImage(s)
      BY <2>3 DEF IsPostImage
    <2> HIDE DEF Local
    <2> QED BY <2>1, <2>2, <2>3, <2>4 DEF LedgerInv
  <1>4. ASSUME NEW p \in Proc, NEW r \in Request, Recover(p, r) PROVE LedgerInv'
    <2>1. \A q \in Proc : proc'[q].pc = "commit" => proc'[q] = proc[q]
      BY <1>4 DEF Recover, Local
    <2>2. rec' = [rec EXCEPT ![r] = "applying"] /\ UNCHANGED <<content, tx, edits>>
      BY <1>4 DEF Recover
    <2> QED BY <2>1, <2>2, LedgerKept
  <1>5. ASSUME NEW p \in Proc, Enter(p) \/ Claim(p) \/ RecordIntent(p) PROVE LedgerInv'
    <2>1. Goto(p, "claim") \/ Goto(p, "record") \/ Goto(p, "finish") \/ Leave(p)
      BY <1>5 DEF Enter, Claim, RecordIntent
    <2>2. \A q \in Proc : proc'[q].pc = "commit" => proc'[q] = proc[q]
      BY <2>1, GotoType, LeaveType DEF Quiet
    <2>3. UNCHANGED <<content, tx, edits>>
          /\ (rec' = rec \/ rec' = [rec EXCEPT ![proc[p].req] = "applying"])
      BY <1>5 DEF Enter, Claim, RecordIntent
    <2> QED BY <2>2, <2>3, LedgerKept
  <1>6. ASSUME NEW p \in Proc, Finish(p) \/ Fail(p) PROVE LedgerInv'
    <2>1. Goto(p, "write") \/ Goto(p, "verify") \/ BeginUndo(p, 1) \/ BeginUndo(p, 2)
      BY <1>6 DEF Finish, Fail
    <2>2. proc[p].pc # "idle"
      BY <1>6 DEF Finish, Fail
    <2>3. \A q \in Proc : proc'[q].pc = "commit" => proc'[q] = proc[q]
      BY <2>1, <2>2, GotoType, UndoType
    <2>4. UNCHANGED <<content, tx, rec, edits>>
      BY <1>6 DEF Finish, Fail
    <2> QED BY <2>3, <2>4, LedgerKept
  <1>7. ASSUME NEW p \in Proc, NEW f \in File, Write(p, f) PROVE LedgerInv'
    <2>1. \A q \in Proc : proc'[q].pc # "commit"
      BY <1>7 DEF Write
    <2>2. \A g \in File \ {f} : content'[g] = content[g]
      BY <1>7 DEF Write
    <2>3. f \in Paths[proc[p].req] /\ proc[p].pc = "write" /\ UNCHANGED <<tx, rec, edits>>
      BY <1>7 DEF Write
    <2> HIDE DEF TypeInv, TypeOK
    <2> QED BY <2>1, <2>2, <2>3, LedgerFile
  <1>8. ASSUME NEW p \in Proc, NEW f \in File, UndoReplace(p, f) PROVE LedgerInv'
    <2>1. \A q \in Proc : proc'[q].pc # "commit"
      BY <1>8 DEF UndoReplace, Local
    <2>2. f \in Paths[proc[p].req]
      BY <1>8 DEF UndoReplace, CallOK
    <2>3. proc[p].pc = "temp" /\ UNCHANGED <<tx, rec, edits>>
          /\ \A g \in File \ {f} : content'[g] = content[g]
      BY <1>8 DEF UndoReplace
    <2> HIDE DEF TypeInv, TypeOK
    <2> QED BY <2>1, <2>2, <2>3, LedgerFile
  <1>9. ASSUME NEW p \in Proc, Verify(p) PROVE LedgerInv'
    <2>1. UNCHANGED <<content, tx, rec, edits>> /\ proc[p].pc # "idle"
      BY <1>9 DEF Verify
    <2>2. CASE Goto(p, "commit") /\ IsPost(proc[p].req)
      <3>1. \A r \in Request : IsPostImage(r)' = IsPostImage(r)
        BY <2>1 DEF IsPostImage
      <3>2. ASSUME NEW q \in Proc, proc'[q].pc = "commit", edits = 0
            PROVE  IsPostImage(proc[q].req) /\ proc'[q].req = proc[q].req
        BY <2>2, <3>2, GotoType DEF IsPost, LedgerInv
      <3>3. ASSUME NEW q \in Proc, proc'[q].pc = "commit", edits = 0
            PROVE  IsPostImage(proc[q].req)'
        BY <2>1, <3>2, <3>3 DEF IsPostImage
      <3> QED BY <2>1, <3>1, <3>3 DEF LedgerInv
    <2>3. CASE BeginUndo(p, 1)
      BY <2>1, <2>3, UndoType, LedgerKept
    <2> QED BY <1>9, <2>2, <2>3 DEF Verify
  <1>10. ASSUME NEW p \in Proc, Commit(p) \/ UndoDone(p) PROVE LedgerInv'
    <2> DEFINE r == proc[p].req
    <2>1. \A q \in Proc : proc'[q].pc # "commit"
      <3>1. lock = p /\ Leave(p)
        BY <1>10 DEF Commit, UndoDone
      <3> QED BY <3>1, LeaveType DEF Quiet
    <2>2. UNCHANGED <<content, tx, edits>> /\ r \in Request /\ tx[r] # None
      BY <1>10 DEF Commit, UndoDone, CallOK
    <2>3. \A s \in Request : IsPostImage(s)' = IsPostImage(s)
      BY <2>2 DEF IsPostImage
    <2>4. CASE rec' = [rec EXCEPT ![r] = "applied"] /\ (edits = 0 => IsPostImage(r))
      BY <2>1, <2>2, <2>3, <2>4 DEF LedgerInv
    <2>5. CASE rec' = [rec EXCEPT ![r] = "rolled_back"] /\ IsPreImage(r)
      BY <2>1, <2>2, <2>3, <2>5 DEF LedgerInv, IsPreImage
    <2> QED BY <1>10, <2>4, <2>5 DEF Commit, UndoDone, IsPre, LedgerInv
  <1>11. ASSUME NEW p \in Proc, UndoTemp(p) \/ UndoFail(p) PROVE LedgerInv'
    <2>1. Goto(p, "temp") \/ Leave(p) \/ BeginUndo(p, 1)
      BY <1>11 DEF UndoTemp, UndoFail
    <2>2. proc[p].pc # "idle" /\ UNCHANGED <<content, tx, rec, edits>>
      BY <1>11 DEF UndoTemp, UndoFail
    <2>3. \A q \in Proc : proc'[q].pc = "commit" => proc'[q] = proc[q]
      BY <2>1, <2>2, GotoType, LeaveType, UndoType DEF Quiet
    <2> QED BY <2>2, <2>3, LedgerKept
  <1>12. ASSUME NEW p \in Proc, Crash(p) PROVE LedgerInv'
    <2>1. \A q \in Proc : proc'[q].pc = "commit" => proc'[q] = proc[q]
      BY <1>12 DEF Crash, Quiet
    <2> QED BY <1>12, <2>1, LedgerKept DEF Crash
  <1>13. CASE UNCHANGED vars
    BY <1>13, LedgerKept DEF vars
  <1> QED
    BY <1>1, <1>2, <1>3, <1>4, <1>5, <1>6, <1>7, <1>8, <1>9, <1>10, <1>11, <1>12, <1>13
       DEF Next, Locked

\* While nobody edits, a patch is applied whole or not at all and the ledger says
\* which, whatever calls crash or fail, if no two requests name a common file.
THEOREM LedgerCorrect ==
    ASSUME Disjoint PROVE Spec => []LedgerIsTrue
  <1>1. (TypeInv /\ LedgerInv) /\ [Next]_vars => (TypeInv /\ LedgerInv)'
    BY StepType, StepLedger
  <1>2. LedgerInv => LedgerIsTrue
    <2> SUFFICES ASSUME LedgerInv, NEW r \in Request, edits = 0
                 PROVE  /\ rec[r] = "applied" => IsPostImage(r)
                        /\ rec[r] \in {"none", "rolled_back"} =>
                              \A f \in Paths[r] : content[f] # Patch[r]
      BY DEF LedgerIsTrue
    <2>1. Patch[r] # "base"
      BY ApplyAssumption DEF Images
    <2> QED BY <2>1 DEF LedgerInv
  <1> QED BY <1>1, <1>2, InitType, InitLedger, PTL DEF Spec

-----------------------------------------------------------------------------
(* The atomic patch *)

\* A transaction restores what a patch is begun over, and from the check of the
\* pre-image to the intent nobody writes the files.
PatchInv ==
    /\ \A r \in Request : tx[r] # None => \A f \in Paths[r] : tx[r].content[f] = "base"
    /\ \A p \in Proc : proc[p].pc \in {"claim", "record"} => IsPreImage(proc[p].req)

\* Steps that leave files and transactions alone and take no call to "claim".
LEMMA PatchKept ==
    ASSUME PatchInv, UNCHANGED <<content, tx>>,
           \A p \in Proc : proc'[p].pc \in {"claim", "record"} =>
              proc[p].pc \in {"claim", "record"} /\ proc'[p].req = proc[p].req
    PROVE  PatchInv'
  BY DEF PatchInv, IsPreImage

LEMMA StepPatch == ~EditsAnytime /\ TypeInv /\ PatchInv /\ [Next]_vars => PatchInv'
  <1> SUFFICES ASSUME ~EditsAnytime, TypeInv, PatchInv, [Next]_vars PROVE PatchInv'
    OBVIOUS
  <1> USE DEF TypeInv, TypeOK, ledgers
  <1>1. ASSUME NEW r \in Request, NEW s, Resolve(r, s) PROVE PatchInv'
    BY <1>1, PatchKept DEF Resolve
  <1>2. ASSUME NEW f \in File, NEW text, Edit(f, text) PROVE PatchInv'
    <2>1. \A p \in Proc : proc'[p].pc \notin {"claim", "record"}
      BY <1>2, NoneAssumption DEF Edit
    <2> QED BY <1>2, <2>1 DEF Edit, PatchInv
  <1>3. ASSUME NEW p \in Proc, NEW r \in Request, Prepare(p, r) PROVE PatchInv'
    <2>1. \A q \in Proc : proc'[q].pc \notin {"claim", "record"}
      BY <1>3, NoneAssumption DEF Prepare, Local
    <2>2. \A f \in Paths[r] : Snapshot.content[f] = "base"
      BY <1>3 DEF Prepare, Applicable, Snapshot
    <2>3. tx' = [tx EXCEPT ![r] = Snapshot]
      BY <1>3 DEF Prepare
    <2> HIDE DEF Local
    <2> QED BY <2>1, <2>2, <2>3 DEF PatchInv
  <1>4. ASSUME NEW p \in Proc, NEW r \in Request, Recover(p, r) PROVE PatchInv'
    <2>1. \A q \in Proc : proc'[q].pc \notin {"claim", "record"}
      BY <1>4, NoneAssumption DEF Recover, Local
    <2>2. UNCHANGED <<content, tx>>
      BY <1>4 DEF Recover
    <2> QED BY <2>1, <2>2, PatchKept
  <1>5. ASSUME NEW p \in Proc, Enter(p) PROVE PatchInv'
    <2>1. UNCHANGED <<content, tx>>
      BY <1>5 DEF Enter
    <2>2. CASE Goto(p, "claim") /\ IsPre(proc[p].req)
      <3>1. \A q \in Proc : proc'[q].pc \in {"claim", "record"} =>
               IsPreImage(proc[q].req) /\ proc'[q].req = proc[q].req
        BY <2>2, GotoType DEF IsPre, PatchInv
      <3>2. \A q \in Proc : proc'[q].pc \in {"claim", "record"} => IsPreImage(proc[q].req)'
        BY <2>1, <3>1 DEF IsPreImage
      <3> QED BY <2>1, <3>2 DEF PatchInv
    <2>3. CASE Leave(p)
      BY <2>1, <2>3, LeaveType, PatchKept DEF Quiet
    <2> QED BY <1>5, <2>2, <2>3 DEF Enter
  <1>6. ASSUME NEW p \in Proc, Claim(p) \/ RecordIntent(p) PROVE PatchInv'
    <2>1. proc[p].pc \in {"claim", "record"}
          /\ (Goto(p, "record") \/ Goto(p, "finish") \/ Leave(p))
      BY <1>6 DEF Claim, RecordIntent
    <2>2. UNCHANGED <<content, tx>>
      BY <1>6 DEF Claim, RecordIntent
    <2> QED BY <2>1, <2>2, GotoType, LeaveType, PatchKept DEF Quiet
  <1>7. ASSUME NEW p \in Proc, NEW f \in File, Write(p, f) \/ UndoReplace(p, f) PROVE PatchInv'
    <2>1. lock = p /\ proc[p].pc \in {"write", "temp"}
      BY <1>7 DEF Write, UndoReplace, Outside
    <2>2. \A q \in Proc : proc'[q].pc \notin {"claim", "record"}
      BY <1>7, <2>1 DEF Write, UndoReplace, Local
    <2>3. tx' = tx
      BY <1>7 DEF Write, UndoReplace
    <2> QED BY <2>2, <2>3 DEF PatchInv
  <1>8. ASSUME NEW p \in Proc,
               \/ Finish(p) \/ Verify(p) \/ Commit(p) \/ Fail(p) \/ UndoTemp(p)
               \/ UndoDone(p) \/ UndoFail(p)
        PROVE  PatchInv'
    <2>1. /\ proc[p].pc # "idle" /\ UNCHANGED <<content, tx>>
          /\ \/ Goto(p, "write") \/ Goto(p, "verify") \/ Goto(p, "commit") \/ Goto(p, "temp")
             \/ Leave(p) \/ BeginUndo(p, 1) \/ BeginUndo(p, 2)
      BY <1>8 DEF Finish, Verify, Commit, Fail, UndoTemp, UndoDone, UndoFail
    <2>2. \A q \in Proc \ {p} : proc'[q] = proc[q]
      BY <2>1, GotoType, LeaveType, UndoType
    <2>3. proc'[p].pc \notin {"claim", "record"}
      BY <2>1, GotoType, LeaveType, UndoType DEF Quiet
    <2> QED BY <2>1, <2>2, <2>3, PatchKept
  <1>9. ASSUME NEW p \in Proc, Crash(p) PROVE PatchInv'
    BY <1>9, PatchKept DEF Crash, Quiet
  <1>10. CASE UNCHANGED vars
    BY <1>10, PatchKept DEF vars
  <1> QED BY <1>1, <1>2, <1>3, <1>4, <1>5, <1>6, <1>7, <1>8, <1>9, <1>10 DEF Next, Locked

\* The ledger shows nothing of what happens to the files of a request under way.
LEMMA CommittedKept ==
    ASSUME rec' = rec,
           \A f \in File : content'[f] = content[f]
                           \/ \E r \in Request : f \in Paths[r] /\ rec[r] = "applying"
    PROVE  Committed' = Committed
  BY DEF Committed

\* A request becomes, or ceases to be, the one under way for its files: nothing
\* changes in the ledger's view if its files are "base" then.
LEMMA CommittedSwitch ==
    ASSUME Disjoint, content' = content, NEW r \in Request, NEW s,
           rec \in [Request -> {"none", "applying", "applied", "rolled_back"}],
           rec' = [rec EXCEPT ![r] = s], \A f \in Paths[r] : content[f] = "base"
    PROVE  Committed' = Committed
  <1>1. ASSUME NEW f \in File, f \notin Paths[r]
        PROVE  (\E q \in Request : f \in Paths[q] /\ rec'[q] = "applying")
                  <=> (\E q \in Request : f \in Paths[q] /\ rec[q] = "applying")
    BY <1>1
  <1>2. \A f \in File : Committed'[f] = Committed[f]
    BY <1>1 DEF Committed
  <1> QED BY <1>2 DEF Committed

LEMMA StepAtomic ==
    ASSUME ~EditsAnytime, Disjoint, TypeInv, ImageInv, PatchInv, [Next]_vars
    PROVE  [Atomic!Next]_(Atomic!vars)
  <1> USE DEF TypeInv, TypeOK, ledgers
  <1>1. ASSUME NEW r \in Request, NEW s, Resolve(r, s) PROVE [Atomic!Next]_(Atomic!vars)
    <2>1. Committed' = Committed /\ rec' = rec
      BY <1>1, CommittedKept DEF Resolve
    <2>2. approved' = approved \/ approved' = approved \cup {r}
      BY <1>1 DEF Resolve
    <2> QED BY <2>1, <2>2 DEF Atomic!Next, Atomic!Approve, Atomic!vars
  <1>2. ASSUME NEW f \in File, NEW text \in {"base", "edit"}, Edit(f, text)
        PROVE  [Atomic!Next]_(Atomic!vars)
    <2>1. rec' = rec /\ approved' = approved /\ content' = [content EXCEPT ![f] = text]
      BY <1>2 DEF Edit
    <2>2. CASE \E r \in Request : f \in Paths[r] /\ rec[r] = "applying"
      <3>1. Committed' = Committed
        BY <2>1, <2>2, CommittedKept
      <3> QED BY <2>1, <3>1 DEF Atomic!vars
    <2>3. CASE \A r \in Request : rec[r] = "applying" => f \notin Paths[r]
      <3>1. Committed' = [Committed EXCEPT ![f] = text]
        BY <2>1, <2>3 DEF Committed
      <3>2. text \in Text
        BY TextType
      <3>3. Atomic!Edit(f, text)
        BY <2>1, <2>3, <3>1 DEF Atomic!Edit
      <3> QED BY <3>2, <3>3 DEF Atomic!Next
    <2> QED BY <2>2, <2>3
  \* The steps a reader of the ledger does not see.
  <1>3. ASSUME NEW p \in Proc, NEW r \in Request, Prepare(p, r) PROVE UNCHANGED Atomic!vars
    BY <1>3, CommittedKept DEF Prepare, Atomic!vars
  <1>4. ASSUME NEW p \in Proc,
               \/ Enter(p) \/ Claim(p) \/ Finish(p) \/ Verify(p) \/ Fail(p)
               \/ UndoTemp(p) \/ UndoFail(p) \/ Crash(p)
        PROVE  UNCHANGED Atomic!vars
    <2>1. rec' = rec /\ content' = content /\ approved' = approved
      BY <1>4 DEF Enter, Claim, Finish, Verify, Fail, UndoTemp, UndoFail, Crash
    <2> QED BY <2>1, CommittedKept DEF Atomic!vars
  <1>5. ASSUME NEW p \in Proc, NEW f \in File, Write(p, f) \/ UndoReplace(p, f)
        PROVE  UNCHANGED Atomic!vars
    <2>1. proc[p].req \in Request /\ rec[proc[p].req] = "applying" /\ f \in Paths[proc[p].req]
      BY <1>5 DEF Write, UndoReplace, CallOK, Outside
    <2>2. rec' = rec /\ approved' = approved /\ \A g \in File \ {f} : content'[g] = content[g]
      BY <1>5 DEF Write, UndoReplace
    <2>3. Committed' = Committed
      BY <2>1, <2>2, CommittedKept
    <2> QED BY <2>2, <2>3 DEF Atomic!vars
  \* The three steps it does see.
  <1>6. ASSUME NEW r \in Request, rec[r] \in {"none", "applying"}, IsPreImage(r), tx[r] # None,
               r \in approved, rec' = [rec EXCEPT ![r] = "applying"],
               UNCHANGED <<content, approved>>
        PROVE  [Atomic!Next]_(Atomic!vars)
    <2>1. \A f \in Paths[r] : content[f] = "base"
      BY <1>6 DEF PatchInv, IsPreImage
    <2>2. Committed' = Committed
      BY <1>6, <2>1, CommittedSwitch
    <2>3. CASE rec[r] = "applying"
      BY <1>6, <2>2, <2>3 DEF Atomic!vars
    <2>4. CASE rec[r] = "none"
      <3>1. \A f \in Paths[r] : Committed[f] = "base"
        BY <2>1, ApplyAssumption DEF Committed
      <3>2. Atomic!Begin(r)
        BY <1>6, <2>2, <2>4, <3>1 DEF Atomic!Begin
      <3> QED BY <3>2 DEF Atomic!Next
    <2> QED BY <1>6, <2>3, <2>4
  <1>7. ASSUME NEW p \in Proc, RecordIntent(p) PROVE [Atomic!Next]_(Atomic!vars)
    <2>1. CASE UNCHANGED rec
      BY <1>7, <2>1, CommittedKept DEF RecordIntent, Atomic!vars
    <2>2. CASE rec' = [rec EXCEPT ![proc[p].req] = "applying"]
               /\ rec[proc[p].req] \in {"none", "applying"}
      <3>1. proc[p].req \in Request /\ proc[p].req \in approved /\ tx[proc[p].req] # None
            /\ IsPreImage(proc[p].req)
        BY <1>7 DEF RecordIntent, CallOK, PatchInv
      <3> QED BY <1>6, <1>7, <2>2, <3>1 DEF RecordIntent
    <2> QED BY <1>7, <2>1, <2>2 DEF RecordIntent
  <1>8. ASSUME NEW p \in Proc, NEW r \in Request, Recover(p, r) PROVE [Atomic!Next]_(Atomic!vars)
    <2>1. UNCHANGED <<content, approved>> /\ rec' = [rec EXCEPT ![r] = "applying"]
      BY <1>8 DEF Recover
    <2>2. CASE rec[r] = "applying"
      <3>1. rec' = rec
        BY <2>1, <2>2
      <3> QED BY <2>1, <3>1, CommittedKept DEF Atomic!vars
    <2>3. CASE rec[r] = "none" /\ IsPreImage(r)
      <3>1. r \in approved /\ tx[r] # None
        BY <1>8 DEF Recover, Consent
      <3> QED BY <1>6, <2>1, <2>3, <3>1
    <2> QED BY <1>8, <2>2, <2>3 DEF Recover
  <1>9. ASSUME NEW p \in Proc, Commit(p) PROVE [Atomic!Next]_(Atomic!vars)
    <2> DEFINE r == proc[p].req
    <2>1. /\ r \in Request /\ rec[r] = "applying" /\ rec' = [rec EXCEPT ![r] = "applied"]
          /\ UNCHANGED <<content, approved>>
      BY <1>9 DEF Commit, CallOK
    <2>2. \A f \in Paths[r] : content[f] = Patch[r]
      BY <1>9 DEF Commit, ImageInv, IsPost, IsPostImage
    <2>3. ASSUME NEW f \in File
          PROVE  Committed'[f] = IF f \in Paths[r] THEN Patch[r] ELSE Committed[f]
      <3>1. CASE f \in Paths[r]
        <4>1. ~ \E q \in Request : f \in Paths[q] /\ rec'[q] = "applying"
          BY <2>1, <3>1 DEF Disjoint
        <4> QED BY <2>1, <2>2, <3>1, <4>1 DEF Committed
      <3>2. CASE f \notin Paths[r]
        <4>1. (\E q \in Request : f \in Paths[q] /\ rec'[q] = "applying")
                 <=> (\E q \in Request : f \in Paths[q] /\ rec[q] = "applying")
          BY <2>1, <3>2
        <4> QED BY <2>1, <3>2, <4>1 DEF Committed
      <3> QED BY <3>1, <3>2
    <2>4. Committed' = [f \in File |-> IF f \in Paths[r] THEN Patch[r] ELSE Committed[f]]
      BY <2>3 DEF Committed
    <2>5. Atomic!Apply(r)
      BY <2>1, <2>4 DEF Atomic!Apply
    <2> QED BY <2>1, <2>5 DEF Atomic!Next
  <1>10. ASSUME NEW p \in Proc, UndoDone(p) PROVE [Atomic!Next]_(Atomic!vars)
    <2> DEFINE r == proc[p].req
    <2>1. /\ r \in Request /\ rec[r] = "applying" /\ rec' = [rec EXCEPT ![r] = "rolled_back"]
          /\ UNCHANGED <<content, approved>> /\ tx[r] # None
      BY <1>10 DEF UndoDone, CallOK
    <2>2. \A f \in Paths[r] : content[f] = "base"
      BY <1>10, <2>1 DEF UndoDone, IsPre, IsPreImage, PatchInv
    <2>3. Committed' = Committed
      BY <2>1, <2>2, CommittedSwitch
    <2>4. Atomic!RollBack(r)
      BY <2>1, <2>3 DEF Atomic!RollBack
    <2> QED BY <2>1, <2>4 DEF Atomic!Next
  <1>11. CASE UNCHANGED vars
    BY <1>11, CommittedKept DEF vars, Atomic!vars
  <1> QED BY <1>1, <1>2, <1>3, <1>4, <1>5, <1>7, <1>8, <1>9, <1>10, <1>11 DEF Next, Locked

\* While editors respect the lock and no two requests name a common file, the
\* boundary implements the atomic patch: however calls crash, fail, overlap and
\* are recovered, a patch changes all of its files at once or none of them.
THEOREM AtomicRefined ==
    ASSUME ~EditsAnytime, Disjoint PROVE Spec => ImplementsAtomicPatch
  <1>1. Init => TypeInv /\ ImageInv /\ PatchInv
    BY InitType DEF Init, ImageInv, PatchInv, Quiet
  <1>2. (TypeInv /\ ImageInv /\ PatchInv) /\ [Next]_vars => (TypeInv /\ ImageInv /\ PatchInv)'
    BY StepType, StepImage, StepPatch
  <1>3. Init => Atomic!Init
    <2> SUFFICES ASSUME Init PROVE Atomic!Init
      OBVIOUS
    <2> QED BY DEF Init, Atomic!Init, Committed
  <1>4. (TypeInv /\ ImageInv /\ PatchInv) /\ [Next]_vars => [Atomic!Next]_(Atomic!vars)
    <2> SUFFICES ASSUME TypeInv, ImageInv, PatchInv, [Next]_vars
                 PROVE  [Atomic!Next]_(Atomic!vars)
      OBVIOUS
    <2> QED BY StepAtomic
  <1> QED BY <1>1, <1>2, <1>3, <1>4, PTL DEF Spec, ImplementsAtomicPatch, Atomic!Spec

-----------------------------------------------------------------------------
(* What bars a recovery *)

\* Temporary files are left, never taken away, while a transaction binds how many
\* there were; and a file no patch names is what it was until the user edits.
BarInv ==
    /\ \A r \in Request : tx[r] # None =>
          /\ stray >= tx[r].stray
          /\ \A p \in Proc : proc[p].pc = "temp" => stray > tx[r].stray
    /\ edits = 0 => \A f \in File : (\A r \in Request : f \notin Paths[r]) =>
          /\ content[f] = "base"
          /\ \A r \in Request : tx[r] # None => tx[r].content[f] = "base"

\* Steps that leave temporary files, files and transactions alone.
LEMMA BarKept ==
    ASSUME BarInv, UNCHANGED <<content, stray, tx, edits>>,
           \A p \in Proc : proc'[p].pc # "temp" \/ proc[p].pc = "temp"
    PROVE  BarInv'
  BY DEF BarInv

LEMMA StepBar == TypeInv /\ BarInv /\ [Next]_vars => BarInv'
  <1> SUFFICES ASSUME TypeInv, BarInv, [Next]_vars PROVE BarInv'
    OBVIOUS
  <1> USE DEF TypeInv, TypeOK, ledgers
  <1>1. ASSUME NEW r \in Request, NEW s, Resolve(r, s) PROVE BarInv'
    BY <1>1, BarKept DEF Resolve
  <1>2. ASSUME NEW f \in File, NEW text, Edit(f, text) PROVE BarInv'
    <2>1. edits' # 0 /\ UNCHANGED <<stray, tx, proc>>
      BY <1>2, ApplyAssumption DEF Edit
    <2> QED BY <2>1 DEF BarInv
  <1>3. ASSUME NEW p \in Proc, NEW r \in Request, Prepare(p, r) PROVE BarInv'
    <2>1. \A q \in Proc : proc'[q].pc # "temp"
      BY <1>3, NoneAssumption DEF Prepare, Local
    <2>2. tx' = [tx EXCEPT ![r] = Snapshot] /\ UNCHANGED <<content, stray, edits>>
      BY <1>3 DEF Prepare
    <2>3. Snapshot.stray = stray /\ Snapshot.content = content
      BY DEF Snapshot
    <2> HIDE DEF Local
    <2> QED BY <2>1, <2>2, <2>3 DEF BarInv
  <1>4. ASSUME NEW p \in Proc, NEW r \in Request, Recover(p, r) PROVE BarInv'
    <2>1. \A q \in Proc : proc'[q].pc # "temp"
      BY <1>4, NoneAssumption DEF Recover, Local
    <2> QED BY <1>4, <2>1, BarKept DEF Recover
  <1>5. ASSUME NEW p \in Proc,
               \/ Enter(p) \/ Claim(p) \/ RecordIntent(p) \/ Finish(p) \/ Verify(p)
               \/ Commit(p) \/ Fail(p) \/ UndoDone(p)
        PROVE  BarInv'
    <2>1. /\ proc[p].pc # "idle" /\ UNCHANGED <<content, stray, tx, edits>>
          /\ \/ Goto(p, "claim") \/ Goto(p, "record") \/ Goto(p, "finish") \/ Goto(p, "write")
             \/ Goto(p, "verify") \/ Goto(p, "commit")
             \/ Leave(p) \/ BeginUndo(p, 1) \/ BeginUndo(p, 2)
      BY <1>5 DEF Enter, Claim, RecordIntent, Finish, Verify, Commit, Fail, UndoDone
    <2>2. \A q \in Proc : proc'[q].pc # "temp" \/ proc[q].pc = "temp"
      BY <2>1, GotoType, LeaveType, UndoType DEF Quiet
    <2> QED BY <2>1, <2>2, BarKept
  <1>6. ASSUME NEW p \in Proc, NEW f \in File, Write(p, f) PROVE BarInv'
    <2>1. f \in Paths[proc[p].req] /\ proc[p].req \in Request
      BY <1>6 DEF Write, CallOK
    <2>2. UNCHANGED <<stray, tx, proc, edits>> /\ \A g \in File \ {f} : content'[g] = content[g]
      BY <1>6 DEF Write
    <2> QED BY <2>1, <2>2 DEF BarInv
  <1>7. ASSUME NEW p \in Proc, UndoTemp(p) PROVE BarInv'
    <2>1. stray' = stray + 1 /\ UNCHANGED <<content, tx, edits>>
      BY <1>7 DEF UndoTemp
    <2>2. ASSUME NEW r \in Request, tx[r] # None PROVE stray + 1 > tx[r].stray
      <3>1. stray \in Nat /\ tx[r].stray \in Nat /\ stray >= tx[r].stray
        BY <2>2 DEF BarInv
      <3> QED BY <3>1
    <2>3. ASSUME NEW r \in Request, tx[r] # None PROVE stray + 1 >= tx[r].stray
      <3>1. stray \in Nat /\ tx[r].stray \in Nat /\ stray >= tx[r].stray
        BY <2>3 DEF BarInv
      <3> QED BY <3>1
    <2> QED BY <2>1, <2>2, <2>3 DEF BarInv
  <1>8. ASSUME NEW p \in Proc, stray' = stray - 1, proc[p].pc = "temp",
               \A q \in Proc : proc'[q].pc # "temp", UNCHANGED <<tx, edits>>,
               \A f \in File : content'[f] # content[f] => \E r \in Request : f \in Paths[r]
        PROVE  BarInv'
    <2>1. ASSUME NEW r \in Request, tx[r] # None PROVE stray - 1 >= tx[r].stray
      <3>1. stray \in Nat /\ tx[r].stray \in Nat /\ stray > tx[r].stray
        BY <1>8, <2>1 DEF BarInv
      <3> QED BY <3>1
    <2> QED BY <1>8, <2>1 DEF BarInv
  <1>9. ASSUME NEW p \in Proc, NEW f \in File, UndoReplace(p, f) PROVE BarInv'
    <2>1. /\ proc[p].pc = "temp" /\ f \in Paths[proc[p].req] /\ proc[p].req \in Request
          /\ lock = p /\ stray' = stray - 1
      BY <1>9 DEF UndoReplace, CallOK
    <2>2. \A q \in Proc : proc'[q].pc # "temp"
      BY <1>9, <2>1 DEF UndoReplace, Local
    <2>3. UNCHANGED <<tx, edits>> /\ \A g \in File \ {f} : content'[g] = content[g]
      BY <1>9 DEF UndoReplace
    <2> QED BY <1>8, <2>1, <2>2, <2>3
  <1>10. ASSUME NEW p \in Proc, UndoFail(p) PROVE BarInv'
    <2>1. /\ lock = p /\ proc[p].pc # "idle" /\ UNCHANGED <<content, tx, edits>>
          /\ Leave(p) \/ BeginUndo(p, 1)
      BY <1>10 DEF UndoFail
    <2>2. \A q \in Proc : proc'[q].pc # "temp"
      BY <2>1, LeaveType, UndoType DEF Quiet
    <2>3. CASE proc[p].pc = "temp"
      BY <1>8, <1>10, <2>1, <2>2, <2>3 DEF UndoFail
    <2>4. CASE proc[p].pc # "temp"
      BY <1>10, <2>1, <2>2, <2>4, BarKept DEF UndoFail
    <2> QED BY <2>3, <2>4
  <1>11. ASSUME NEW p \in Proc, Crash(p) PROVE BarInv'
    BY <1>11, BarKept DEF Crash, Quiet
  <1>12. CASE UNCHANGED vars
    BY <1>12, BarKept DEF vars
  <1> QED BY <1>1, <1>2, <1>3, <1>4, <1>5, <1>6, <1>7, <1>9, <1>10, <1>11, <1>12
          DEF Next, Locked

\* A record is of a request with a transaction.
BoundInv == \A r \in Request : rec[r] # "none" => tx[r] # None

LEMMA StepBound == TypeInv /\ BoundInv /\ [Next]_vars => BoundInv'
  <1> SUFFICES ASSUME TypeInv, BoundInv, [Next]_vars PROVE BoundInv'
    OBVIOUS
  <1> USE DEF TypeInv, TypeOK, BoundInv, ledgers
  <1>1. ASSUME NEW p \in Proc, NEW r \in Request, Prepare(p, r) PROVE BoundInv'
    <2>1. Snapshot # None
      BY SnapshotType
    <2> QED BY <1>1, <2>1 DEF Prepare
  <1>2. ASSUME NEW p \in Proc, NEW r \in Request, Recover(p, r) PROVE BoundInv'
    BY <1>2 DEF Recover
  <1>3. ASSUME NEW p \in Proc, RecordIntent(p) \/ Commit(p) \/ UndoDone(p) PROVE BoundInv'
    BY <1>3 DEF RecordIntent, Commit, UndoDone, CallOK
  <1>4. CASE UNCHANGED <<tx, rec>>
    BY <1>4
  <1>5. ASSUME NEW p \in Proc, NEW f \in File, Write(p, f) \/ UndoReplace(p, f)
        PROVE  UNCHANGED <<tx, rec>>
    BY <1>5 DEF Write, UndoReplace
  <1>6. ASSUME NEW p \in Proc,
               \/ Enter(p) \/ Claim(p) \/ Finish(p) \/ Verify(p) \/ Fail(p) \/ UndoTemp(p)
               \/ UndoFail(p) \/ Crash(p)
        PROVE  UNCHANGED <<tx, rec>>
    BY <1>6 DEF Enter, Claim, Finish, Verify, Fail, UndoTemp, UndoFail, Crash
  <1>7. ASSUME NEW r \in Request, NEW s, Resolve(r, s) PROVE UNCHANGED <<tx, rec>>
    BY <1>7 DEF Resolve
  <1>8. ASSUME NEW f \in File, NEW text, Edit(f, text) PROVE UNCHANGED <<tx, rec>>
    BY <1>8 DEF Edit
  <1> QED BY <1>1, <1>2, <1>3, <1>4, <1>5, <1>6, <1>7, <1>8 DEF Next, Locked, vars

\* While nobody edits, the recovery of an unfinished request is refused only for
\* what a killed rollback left lying, or for another request's file: of a single
\* candidate, nothing else that a crash can leave behind bars it.
THEOREM RecoveryCorrect == Spec => []WhatBarsRecovery
  <1>1. Init => BarInv /\ BoundInv
    BY DEF Init, BarInv, BoundInv, Quiet
  <1>2. (TypeInv /\ BarInv /\ BoundInv) /\ [Next]_vars => (TypeInv /\ BarInv /\ BoundInv)'
    BY StepType, StepBar, StepBound
  <1>3. TypeInv /\ BarInv /\ BoundInv => WhatBarsRecovery
    <2> SUFFICES ASSUME TypeInv, BarInv, BoundInv, NEW r \in Request, rec[r] = "applying",
                        edits = 0, ~Unaffected(r), ~(stray > tx[r].stray)
                 PROVE  \E s \in Request \ {r} : \E f \in Paths[s] \ Paths[r] :
                           content[f] # tx[r].content[f]
      BY DEF WhatBarsRecovery
    <2>1. tx[r] # None /\ stray \in Nat /\ tx[r].stray \in Nat
      BY DEF BoundInv, TypeInv, TypeOK
    <2>2. stray = tx[r].stray
      BY <2>1 DEF BarInv
    <2>3. PICK f \in File \ Paths[r] : content[f] # tx[r].content[f]
      BY <2>2 DEF Unaffected
    <2>4. PICK s \in Request : f \in Paths[s]
      BY <2>1, <2>3 DEF BarInv
    <2> QED BY <2>3, <2>4
  <1> QED BY <1>1, <1>2, <1>3, InitType, PTL DEF Spec

-----------------------------------------------------------------------------
(* Every call that holds the lock shrinks *)

\* How far the call of p has come.
Stage(p) ==
    CASE proc[p].pc = "claim" -> 7
      [] proc[p].pc = "record" -> 6
      [] proc[p].pc = "finish" -> 5
      [] proc[p].pc = "write" -> 4
      [] proc[p].pc = "verify" -> 3
      [] proc[p].pc = "commit" -> 2
      [] proc[p].pc \in {"undo", "temp"} -> 1
      [] OTHER -> 0

\* The files p has yet to write, and of them those it has not begun.
Unwritten(p) ==
    IF proc[p].pc = "write"
    THEN {f \in Paths[proc[p].req] : content[f] # Patch[proc[p].req]} ELSE {}
Unbegun(p) == {f \in Unwritten(p) : content[f] # "torn"}

BeforeTemp(p) == IF proc[p].pc = "undo" THEN 1 ELSE 0

\* What is left of the call: edits that may disturb it first, then its stages,
\* files to write, rollbacks to try, and files to roll back.
Left(p) ==
    << MaxEdits - edits, Stage(p), Cardinality(Unwritten(p)), Cardinality(Unbegun(p)),
       proc[p].tries, Cardinality(proc[p].todo), BeforeTemp(p) >>

\* While p holds the lock its own steps leave less of its call, or give the
\* lock back, and no step of anybody else leaves more of it.
LockShrinks ==
    [][ \A p \in Proc : lock = p =>
            \/ lock' # p
            \/ Below(7, Left(p)', Left(p))
            \/ ~Locked(p) /\ Left(p)' = Left(p) ]_vars

LEMMA LeftFinite ==
    ASSUME IsFiniteSet(File), TypeInv, NEW p \in Proc, lock = p
    PROVE  /\ IsFiniteSet(Unwritten(p)) /\ IsFiniteSet(Unbegun(p))
           /\ IsFiniteSet(proc[p].todo)
           /\ Left(p) \in Tuples(7)
  <1>1. proc[p] \in Local /\ proc[p].pc # "idle"
    BY DEF TypeInv, TypeOK
  <1>2. proc[p].req \in Request
    BY <1>1 DEF TypeInv, CallOK, TypeOK
  <1>3. Unwritten(p) \subseteq File /\ Unbegun(p) \subseteq File
    BY <1>2, ApplyAssumption DEF Unwritten, Unbegun
  <1>4. proc[p].todo \subseteq File /\ proc[p].tries \in Nat
    BY <1>1 DEF Local
  <1>5. IsFiniteSet(Unwritten(p)) /\ IsFiniteSet(Unbegun(p)) /\ IsFiniteSet(proc[p].todo)
    BY <1>3, <1>4, FS_Subset
  <1>6. /\ Cardinality(Unwritten(p)) \in Nat /\ Cardinality(Unbegun(p)) \in Nat
        /\ Cardinality(proc[p].todo) \in Nat
    BY <1>5, FS_CardinalityType
  <1>7. edits \in 0 .. MaxEdits
    BY DEF TypeInv, TypeOK
  <1>8. MaxEdits - edits \in Nat
    BY <1>7, ApplyAssumption
  <1>9. Stage(p) \in Nat /\ BeforeTemp(p) \in Nat
    BY DEF Stage, BeforeTemp
  <1> QED BY <1>4, <1>5, <1>6, <1>8, <1>9 DEF Left, Tuples

\* One part falls and those before it stay.
LEMMA LeftFalls ==
    ASSUME NEW p \in Proc,
           \/ (MaxEdits - edits)' < MaxEdits - edits
           \/ edits' = edits /\ Stage(p)' < Stage(p)
           \/ /\ UNCHANGED <<edits, Stage(p)>>
              /\ \/ Cardinality(Unwritten(p))' < Cardinality(Unwritten(p))
                 \/ /\ Unwritten(p)' = Unwritten(p)
                    /\ \/ Cardinality(Unbegun(p))' < Cardinality(Unbegun(p))
                       \/ /\ Unbegun(p)' = Unbegun(p)
                          /\ \/ proc'[p].tries < proc[p].tries
                             \/ /\ proc'[p].tries = proc[p].tries
                                /\ \/ Cardinality(proc[p].todo)' < Cardinality(proc[p].todo)
                                   \/ /\ proc'[p].todo = proc[p].todo
                                      /\ BeforeTemp(p)' < BeforeTemp(p)
    PROVE  Below(7, Left(p)', Left(p))
  BY DEF Below, Left

LEMMA LockFalls ==
    ASSUME IsFiniteSet(File), TypeInv, NEW p \in Proc, lock = p, Locked(p), lock' = p
    PROVE  Below(7, Left(p)', Left(p))
  <1>1. proc \in [Proc -> Local] /\ proc[p] \in Local /\ edits' = edits
    BY DEF TypeInv, TypeOK, Locked, Claim, RecordIntent, Finish, Verify, Commit, Fail,
           UndoTemp, UndoDone, UndoFail, Write, UndoReplace
  <1>2. lock' # None
    BY NoneAssumption
  <1>3. CASE Claim(p) \/ RecordIntent(p) \/ Finish(p) \/ Verify(p) \/ Commit(p) \/ Fail(p)
             \/ UndoDone(p)
    <2>1. \/ proc[p].pc = "claim" /\ proc'[p].pc = "record"
          \/ proc[p].pc = "record" /\ proc'[p].pc = "finish"
          \/ proc[p].pc = "finish" /\ proc'[p].pc \in {"write", "verify", "undo"}
          \/ proc[p].pc \in {"write", "verify"} /\ proc'[p].pc \in {"commit", "undo"}
          \/ proc[p].pc = "commit" /\ proc'[p].pc = "undo"
      BY <1>1, <1>2, <1>3 DEF Claim, RecordIntent, Finish, Verify, Commit, Fail, UndoDone,
                              Goto, Leave, BeginUndo, Local
    <2>2. Stage(p)' < Stage(p)
      BY <2>1 DEF Stage
    <2> QED BY <1>1, <2>2, LeftFalls
  <1>4. CASE UndoTemp(p)
    <2>1. /\ proc[p].pc = "undo" /\ proc'[p].pc = "temp"
          /\ proc'[p].tries = proc[p].tries /\ proc'[p].todo = proc[p].todo
      BY <1>1, <1>4 DEF UndoTemp, Goto, Local
    <2>2. /\ UNCHANGED <<Stage(p), Unwritten(p), Unbegun(p)>>
          /\ BeforeTemp(p)' < BeforeTemp(p)
      BY <2>1 DEF Stage, Unwritten, Unbegun, BeforeTemp
    <2> QED BY <1>1, <2>1, <2>2, LeftFalls
  <1>5. CASE UndoFail(p)
    <2>1. /\ proc[p].pc \in {"undo", "temp"} /\ proc'[p].pc = "undo"
          /\ proc[p].tries > 1 /\ proc'[p].tries = 1
      BY <1>1, <1>2, <1>5 DEF UndoFail, BeginUndo, Leave, Local
    <2>2. UNCHANGED <<Stage(p), Unwritten(p), Unbegun(p)>>
      BY <2>1 DEF Stage, Unwritten, Unbegun
    <2> QED BY <1>1, <2>1, <2>2, LeftFalls
  <1>6. ASSUME NEW f \in File, UndoReplace(p, f)
        PROVE  Below(7, Left(p)', Left(p))
    <2>1. /\ proc[p].pc = "temp" /\ proc'[p].pc = "undo" /\ proc'[p].tries = proc[p].tries
          /\ f \in proc[p].todo /\ proc'[p].todo = proc[p].todo \ {f}
      BY <1>1, <1>6 DEF UndoReplace, Local
    <2>2. UNCHANGED <<Stage(p), Unwritten(p), Unbegun(p)>>
      BY <2>1 DEF Stage, Unwritten, Unbegun
    <2>3. Cardinality(proc'[p].todo) < Cardinality(proc[p].todo)
      BY <2>1, LeftFinite, FewerElements
    <2> QED BY <1>1, <2>1, <2>2, <2>3, LeftFalls
  <1>7. ASSUME NEW f \in File, Write(p, f)
        PROVE  Below(7, Left(p)', Left(p))
    <2> DEFINE r == proc[p].req
    <2>1. /\ proc[p].pc = "write" /\ proc' = proc /\ f \in Paths[r] /\ content[f] # Patch[r]
          /\ content' = [content EXCEPT ![f] = IF @ = "torn" THEN Patch[r] ELSE "torn"]
      BY <1>7 DEF Write
    <2>2. /\ r \in Request /\ Paths[r] \subseteq File /\ Patch[r] # "torn"
          /\ content \in [File -> Text]
      BY <2>1, ApplyAssumption DEF TypeInv, CallOK, TypeOK, Images
    <2>3. Stage(p)' = Stage(p)
      BY <2>1 DEF Stage
    <2>4. CASE content[f] = "torn"
      <3>1. Unwritten(p)' = Unwritten(p) \ {f} /\ f \in Unwritten(p)
        BY <2>1, <2>2, <2>4 DEF Unwritten
      <3>2. Cardinality(Unwritten(p)') < Cardinality(Unwritten(p))
        BY <3>1, LeftFinite, FewerElements
      <3> QED BY <1>1, <2>3, <3>2, LeftFalls
    <2>5. CASE content[f] # "torn"
      <3>1. Unwritten(p)' = Unwritten(p) /\ f \in Unwritten(p)
        BY <2>1, <2>2, <2>5 DEF Unwritten
      <3>2. Unbegun(p)' = Unbegun(p) \ {f} /\ f \in Unbegun(p)
        BY <2>1, <2>2, <2>5, <3>1 DEF Unbegun
      <3>3. Cardinality(Unbegun(p)') < Cardinality(Unbegun(p))
        BY <3>2, LeftFinite, FewerElements
      <3> QED BY <1>1, <2>3, <3>1, <3>3, LeftFalls
    <2> QED BY <2>4, <2>5
  <1> QED BY <1>3, <1>4, <1>5, <1>6, <1>7 DEF Locked

LEMMA OthersKeep ==
    ASSUME TypeInv, NEW p \in Proc, lock = p, Next, ~Locked(p), lock' = p
    PROVE  Below(7, Left(p)', Left(p)) \/ Left(p)' = Left(p)
  <1>1. ASSUME UNCHANGED <<content, edits>>, proc'[p] = proc[p]
        PROVE  Left(p)' = Left(p)
    BY <1>1 DEF Left, Stage, Unwritten, Unbegun, BeforeTemp
  <1>2. ASSUME NEW f \in File, NEW text, Edit(f, text)
        PROVE  Below(7, Left(p)', Left(p))
    <2>1. edits \in 0 .. MaxEdits
      BY DEF TypeInv, TypeOK
    <2>2. (MaxEdits - edits)' < MaxEdits - edits
      BY <1>2, <2>1, ApplyAssumption DEF Edit
    <2> QED BY <2>2, LeftFalls
  <1>3. ASSUME NEW r \in Request, NEW s, Resolve(r, s) PROVE Left(p)' = Left(p)
    BY <1>1, <1>3 DEF Resolve
  <1>4. lock # None
    BY NoneAssumption
  <1>5. ASSUME NEW q \in Proc, Locked(q) PROVE FALSE
    <2>1. q # p
      BY <1>5
    <2>2. proc[q].pc \in Outside
      BY <2>1, Exclusive DEF TypeInv
    <2> QED BY <1>5, <2>2 DEF Outside, Locked, Claim, RecordIntent, Finish, Verify, Commit, Fail,
                              UndoTemp, UndoDone, UndoFail, Write, UndoReplace
  <1>6. ASSUME NEW q \in Proc, Crash(q) PROVE Left(p)' = Left(p)
    <2>1. q # p
      BY <1>4, <1>6 DEF Crash
    <2>2. UNCHANGED <<content, edits>> /\ proc'[p] = proc[p]
      BY <1>6, <2>1 DEF Crash, ledgers, TypeInv, TypeOK
    <2> QED BY <1>1, <2>2
  <1>7. ASSUME NEW q \in Proc, Enter(q) \/ \E r \in Request : Prepare(q, r) \/ Recover(q, r)
        PROVE  FALSE
    BY <1>4, <1>7 DEF Enter, Prepare, Recover
  <1> QED BY <1>2, <1>3, <1>5, <1>6, <1>7 DEF Next

\* Whatever raises, whoever edits and whatever others do: a process that has
\* the repository lock comes nearer to giving it back with each of its steps, in
\* a well-founded order, and nobody sets it back.
THEOREM LockHoldersShrink ==
    ASSUME IsFiniteSet(File)
    PROVE  Spec => [](\A p \in Proc : lock = p => Left(p) \in Tuples(7)) /\ LockShrinks
  <1>1. TypeInv => \A p \in Proc : lock = p => Left(p) \in Tuples(7)
    BY LeftFinite
  <1>2. TypeInv /\ [Next]_vars =>
            [ \A p \in Proc : lock = p =>
                  \/ lock' # p
                  \/ Below(7, Left(p)', Left(p))
                  \/ ~Locked(p) /\ Left(p)' = Left(p) ]_vars
    <2> SUFFICES ASSUME TypeInv, Next, NEW p \in Proc, lock = p, lock' = p
                 PROVE  \/ Below(7, Left(p)', Left(p))
                        \/ ~Locked(p) /\ Left(p)' = Left(p)
      OBVIOUS
    <2> QED BY LockFalls, OthersKeep
  <1> QED BY <1>1, <1>2, InitType, StepType, PTL DEF Spec, LockShrinks

=============================================================================
