------------------------- MODULE SendAction_proofs -------------------------
(***************************************************************************)
(* Proofs about SendAction, for any set of sender invocations, any clock   *)
(* and any bounds.                                                         *)
(***************************************************************************)
EXTENDS SendAction, TLAPS

(* Every action leaves every variable in its type. *)
LEMMA TypeInvariance == ASSUME IInv, [Next]_vars PROVE TypeOK'
<1> USE NoneAssumption, TimeAssumption DEF IInv, TypeOK, States, Outcomes, CaseStates, Steps, Execution, Moved, CaseIn,
        ApprovedVersion, durable, worker
<1>1. ASSUME NEW w \in Workers, SenderStep(w) PROVE TypeOK'
  <2>1. CASE Load(w) BY <2>1 DEF Load, At, Goto
  <2>2. CASE Verify(w) BY <2>2 DEF Verify, At, Goto, Settle
  <2>3. CASE Claim(w) BY <2>3 DEF Claim, At, Goto, Now
  <2>4. CASE ClaimRefused(w) BY <2>4 DEF ClaimRefused, At, Goto
  <2>5. CASE Reload(w) BY <2>5 DEF Reload, At, Goto
  <2>6. CASE RequestFence(w) BY <2>6 DEF RequestFence, FenceExpiry, Goto, Settle
  <2>7. CASE AcquireFence(w) BY <2>7 DEF AcquireFence, Goto
  <2>8. CASE Validate(w) BY <2>8 DEF Validate, Deny, Goto, Settle
  <2>9. CASE CheckGrant(w) BY <2>9 DEF CheckGrant, At, Goto, Settle
  <2>10. CASE Resolve(w) BY <2>10 DEF Resolve, At, Goto, Settle
  <2>11. CASE SendOnce(w) BY <2>11 DEF SendOnce, Answers, At, Goto, Settle
  <2>12. CASE PersistOutcome(w) BY <2>12 DEF OwnerInv, PersistOutcome, AfterPersist, At, Goto
  <2>13. CASE PersistRefused(w) BY <2>13 DEF PersistRefused, AfterPersist, At, Goto
  <2>14. CASE Release(w) BY <2>14 DEF Release, At, Goto
  <2> QED BY <1>1, <2>1, <2>2, <2>3, <2>4, <2>5, <2>6, <2>7, <2>8, <2>9, <2>10, <2>11, <2>12,
             <2>13, <2>14 DEF SenderStep
<1>2. ASSUME NEW w \in Workers, Crash(w) PROVE TypeOK'
  BY <1>2 DEF Crash
<1>3. CASE QuarantineCheck BY <1>3 DEF QuarantineCheck
<1>4. CASE QuarantineCommit BY <1>4 DEF QuarantineCommit
<1>5. CASE ResolveUnknown BY <1>5 DEF ResolveUnknown
<1>6. ASSUME NEW withdraws \in BOOLEAN, NEW relied \in BOOLEAN, DecideMandate(withdraws, relied)
      PROVE TypeOK'
  BY <1>6 DEF DecideMandate
<1>7. CASE CompileView BY <1>7 DEF CompileView
<1>8. CASE LinkReport BY <1>8 DEF LinkReport
<1>9. CASE InvalidateAction BY <1>9 DEF InvalidateAction
<1>10. CASE ProjectActionOutcome BY <1>10 DEF ProjectActionOutcome
<1>11. CASE MoveConfiguration BY <1>11 DEF MoveConfiguration
<1>12. CASE Tick BY <1>12 DEF Tick
<1>13. CASE UNCHANGED vars BY <1>13 DEF vars
<1> QED BY <1>1, <1>2, <1>3, <1>4, <1>5, <1>6, <1>7, <1>8, <1>9, <1>10, <1>11, <1>12, <1>13
        DEF Next, Reconcile

-----------------------------------------------------------------------------
(* The version counts writes and only the approved row has the version a    *)
(* claim expects.                                                           *)
LEMMA VersionInvariance == ASSUME IInv, [Next]_vars PROVE VersionInv'
<1> USE NoneAssumption DEF IInv, TypeOK, VersionInv, OwnerInv, States, Outcomes, Steps,
        Execution, Moved, ApprovedVersion, BeforeClaim, BeforeCall, durable, worker
<1>1. ASSUME NEW w \in Workers, SenderStep(w) PROVE VersionInv'
  <2>1. CASE Load(w) BY <2>1 DEF Load, At, Goto
  <2>2. CASE Verify(w) BY <2>2 DEF Verify, At, Goto, Settle
  <2>3. CASE Claim(w) BY <2>3 DEF Claim, At, Goto
  <2>4. CASE ClaimRefused(w) BY <2>4 DEF ClaimRefused, At, Goto
  <2>5. CASE Reload(w) BY <2>5 DEF Reload, Owns, At, Goto
  <2>6. CASE RequestFence(w) BY <2>6 DEF RequestFence, Goto, Settle
  <2>7. CASE AcquireFence(w) BY <2>7 DEF AcquireFence, Goto
  <2>8. CASE Validate(w) BY <2>8 DEF Validate, Deny, Goto, Settle
  <2>9. CASE CheckGrant(w) BY <2>9 DEF CheckGrant, At, Goto, Settle
  <2>10. CASE Resolve(w) BY <2>10 DEF Resolve, At, Goto, Settle
  <2>11. CASE SendOnce(w) BY <2>11 DEF SendOnce, At, Goto, Settle
  <2>12. CASE PersistOutcome(w) BY <2>12 DEF PersistOutcome, AfterPersist, At, Goto
  <2>13. CASE PersistRefused(w) BY <2>13 DEF PersistRefused, AfterPersist, At, Goto
  <2>14. CASE Release(w) BY <2>14 DEF Release, At, Goto
  <2> QED BY <1>1, <2>1, <2>2, <2>3, <2>4, <2>5, <2>6, <2>7, <2>8, <2>9, <2>10, <2>11, <2>12,
             <2>13, <2>14 DEF SenderStep
<1>2. ASSUME NEW w \in Workers, Crash(w) PROVE VersionInv'
  BY <1>2 DEF Crash
<1>3. CASE QuarantineCheck BY <1>3 DEF QuarantineCheck
<1>4. CASE QuarantineCommit BY <1>4 DEF QuarantineCommit
<1>5. CASE ResolveUnknown BY <1>5 DEF ResolveUnknown
<1>6. ASSUME NEW withdraws \in BOOLEAN, NEW relied \in BOOLEAN, DecideMandate(withdraws, relied)
      PROVE VersionInv'
  BY <1>6 DEF DecideMandate
<1>7. CASE CompileView BY <1>7 DEF CompileView
<1>8. CASE LinkReport BY <1>8 DEF LinkReport
<1>9. CASE InvalidateAction BY <1>9 DEF InvalidateAction
<1>10. CASE ProjectActionOutcome BY <1>10 DEF ProjectActionOutcome
<1>11. CASE MoveConfiguration BY <1>11 DEF MoveConfiguration
<1>12. CASE Tick BY <1>12 DEF Tick
<1>13. CASE UNCHANGED vars BY <1>13 DEF vars
<1> QED BY <1>1, <1>2, <1>3, <1>4, <1>5, <1>6, <1>7, <1>8, <1>9, <1>10, <1>11, <1>12, <1>13
        DEF Next, Reconcile

-----------------------------------------------------------------------------
(* The stretch between claim and call belongs to the owner, and the owner   *)
(* makes the only call when it leaves it.                                   *)
LEMMA OwnerInvariance == ASSUME IInv, [Next]_vars PROVE OwnerInv'
<1> USE NoneAssumption DEF IInv, TypeOK, VersionInv, OwnerInv, States, Outcomes, Steps,
        Execution, Moved, ApprovedVersion, BeforeClaim, BeforeCall, durable, worker
<1>1. ASSUME NEW w \in Workers, SenderStep(w) PROVE OwnerInv'
  <2>1. CASE Load(w) BY <2>1 DEF Load, At, Goto
  <2>2. CASE Verify(w) BY <2>2 DEF Verify, At, Goto, Settle
  <2>3. CASE Claim(w) BY <2>3 DEF Claim, At, Goto
  <2>4. CASE ClaimRefused(w) BY <2>4 DEF ClaimRefused, At, Goto
  <2>5. CASE Reload(w) BY <2>5 DEF Reload, Owns, At, Goto
  <2>6. CASE RequestFence(w) BY <2>6 DEF RequestFence, Goto, Settle
  <2>7. CASE AcquireFence(w) BY <2>7 DEF AcquireFence, Goto
  <2>8. CASE Validate(w) BY <2>8 DEF Validate, Deny, Goto, Settle
  <2>9. CASE CheckGrant(w) BY <2>9 DEF CheckGrant, At, Goto, Settle
  <2>10. CASE Resolve(w) BY <2>10 DEF Resolve, At, Goto, Settle
  <2>11. CASE SendOnce(w) BY <2>11 DEF SendOnce, Answers, At, Goto, Settle
  <2>12. CASE PersistOutcome(w) BY <2>12 DEF PersistOutcome, AfterPersist, At, Goto
  <2>13. CASE PersistRefused(w) BY <2>13 DEF PersistRefused, AfterPersist, At, Goto
  <2>14. CASE Release(w) BY <2>14 DEF Release, At, Goto
  <2> QED BY <1>1, <2>1, <2>2, <2>3, <2>4, <2>5, <2>6, <2>7, <2>8, <2>9, <2>10, <2>11, <2>12,
             <2>13, <2>14 DEF SenderStep
<1>2. ASSUME NEW w \in Workers, Crash(w) PROVE OwnerInv'
  BY <1>2 DEF Crash
<1>3. CASE QuarantineCheck BY <1>3 DEF QuarantineCheck
<1>4. CASE QuarantineCommit BY <1>4 DEF QuarantineCommit
<1>5. CASE ResolveUnknown BY <1>5 DEF ResolveUnknown
<1>6. ASSUME NEW withdraws \in BOOLEAN, NEW relied \in BOOLEAN, DecideMandate(withdraws, relied)
      PROVE OwnerInv'
  BY <1>6 DEF DecideMandate
<1>7. CASE CompileView BY <1>7 DEF CompileView
<1>8. CASE LinkReport BY <1>8 DEF LinkReport
<1>9. CASE InvalidateAction BY <1>9 DEF InvalidateAction
<1>10. CASE ProjectActionOutcome BY <1>10 DEF ProjectActionOutcome
<1>11. CASE MoveConfiguration BY <1>11 DEF MoveConfiguration
<1>12. CASE Tick BY <1>12 DEF Tick
<1>13. CASE UNCHANGED vars BY <1>13 DEF vars
<1> QED BY <1>1, <1>2, <1>3, <1>4, <1>5, <1>6, <1>7, <1>8, <1>9, <1>10, <1>11, <1>12, <1>13
        DEF Next, Reconcile

(* The strengthening that AtMostOneSesCall needs holds in every reachable   *)
(* state.                                                                   *)
THEOREM Inductive == Spec => []IInv
<1>1. Init => IInv
  BY NoneAssumption, TimeAssumption DEF Init, IInv, TypeOK, VersionInv, OwnerInv, States, Outcomes,
     CaseStates, Steps, Execution, CaseIn, ApprovedVersion, BeforeClaim, BeforeCall
<1>2. IInv /\ [Next]_vars => IInv'
  BY TypeInvariance, VersionInvariance, OwnerInvariance DEF IInv
<1> QED BY <1>1, <1>2, PTL DEF Spec

THEOREM TypeCorrect == Spec => []TypeOK
BY Inductive, PTL DEF IInv

(* However many invocations deliver one approved execution, and whatever    *)
(* each is told about its claim, SES is called at most once.                *)
THEOREM OneSesCall == Spec => []AtMostOneSesCall
<1>1. IInv => AtMostOneSesCall
  BY DEF IInv, OwnerInv, AtMostOneSesCall
<1> QED BY Inductive, <1>1, PTL

-----------------------------------------------------------------------------
(* Only what SES did is recorded, given that nobody attests without knowing. *)
LEMMA TruthInvariance == ASSUME ~OperatorAttestation, IInv, TruthInv, [Next]_vars PROVE TruthInv'
<1> USE NoneAssumption, TimeAssumption DEF IInv, TypeOK, VersionInv, OwnerInv, TruthInv, States, Outcomes, Steps,
        Execution, Moved, CaseIn, ApprovedVersion, BeforeClaim, BeforeCall, durable, worker
<1>1. ASSUME NEW w \in Workers, SenderStep(w) PROVE TruthInv'
  <2>1. CASE Load(w) BY <2>1 DEF Load, At, Goto
  <2>2. CASE Verify(w) BY <2>2 DEF Verify, At, Goto, Settle
  <2>3. CASE Claim(w) BY <2>3 DEF Claim, At, Goto
  <2>4. CASE ClaimRefused(w) BY <2>4 DEF ClaimRefused, At, Goto
  <2>5. CASE Reload(w) BY <2>5 DEF Reload, Owns, At, Goto
  <2>6. CASE RequestFence(w) BY <2>6 DEF RequestFence, Goto, Settle
  <2>7. CASE AcquireFence(w) BY <2>7 DEF AcquireFence, Goto
  <2>8. CASE Validate(w) BY <2>8 DEF Validate, Deny, Goto, Settle
  <2>9. CASE CheckGrant(w) BY <2>9 DEF CheckGrant, At, Goto, Settle
  <2>10. CASE Resolve(w) BY <2>10 DEF Resolve, At, Goto, Settle
  <2>11. CASE SendOnce(w) BY <2>11 DEF SendOnce, Answers, At, Goto, Settle
  <2>12. CASE PersistOutcome(w) BY <2>12 DEF PersistOutcome, AfterPersist, At, Goto
  <2>13. CASE PersistRefused(w) BY <2>13 DEF PersistRefused, AfterPersist, At, Goto
  <2>14. CASE Release(w) BY <2>14 DEF Release, At, Goto
  <2> QED BY <1>1, <2>1, <2>2, <2>3, <2>4, <2>5, <2>6, <2>7, <2>8, <2>9, <2>10, <2>11, <2>12, <2>13, <2>14 DEF SenderStep
<1>2. ASSUME NEW w \in Workers, Crash(w) PROVE TruthInv'
  BY <1>2 DEF Crash
<1>3. CASE QuarantineCheck BY <1>3 DEF QuarantineCheck
<1>4. CASE QuarantineCommit BY <1>4 DEF QuarantineCommit
<1>5. CASE ResolveUnknown BY <1>5 DEF ResolveUnknown, Classify
<1>6. ASSUME NEW withdraws \in BOOLEAN, NEW relied \in BOOLEAN, DecideMandate(withdraws, relied)
      PROVE TruthInv'
  BY <1>6 DEF DecideMandate, NoLiveFence
<1>7. CASE CompileView BY <1>7 DEF CompileView, NoLiveFence
<1>8. CASE LinkReport BY <1>8 DEF LinkReport
<1>9. CASE InvalidateAction BY <1>9 DEF InvalidateAction, Invalidatable
<1>10. CASE ProjectActionOutcome BY <1>10 DEF ProjectActionOutcome, Projectable
<1>11. CASE MoveConfiguration BY <1>11 DEF MoveConfiguration
<1>12. CASE Tick BY <1>12 DEF Tick
<1>13. CASE UNCHANGED vars BY <1>13 DEF vars
<1> QED BY <1>1, <1>2, <1>3, <1>4, <1>5, <1>6, <1>7, <1>8, <1>9, <1>10, <1>11, <1>12, <1>13
        DEF Next, Reconcile

-----------------------------------------------------------------------------
(* Between acquisition and call the fence keeps every authority in place.  *)
LEMMA FenceInvariance == ASSUME IInv, TruthInv, FenceInv, [Next]_vars PROVE FenceInv'
<1> USE NoneAssumption, TimeAssumption DEF IInv, TypeOK, VersionInv, OwnerInv, TruthInv, FenceInv, Fenced, Granted, States, Outcomes, Steps,
        Execution, Moved, CaseIn, ApprovedVersion, BeforeClaim, BeforeCall, durable, worker
<1>1. ASSUME NEW w \in Workers, SenderStep(w) PROVE FenceInv'
  <2>1. CASE Load(w) BY <2>1 DEF Load, At, Goto
  <2>2. CASE Verify(w) BY <2>2 DEF Verify, At, Goto, Settle
  <2>3. CASE Claim(w) BY <2>3 DEF Claim, At, Goto
  <2>4. CASE ClaimRefused(w) BY <2>4 DEF ClaimRefused, At, Goto
  <2>5. CASE Reload(w) BY <2>5 DEF Reload, Owns, At, Goto
  <2>6. CASE RequestFence(w) BY <2>6 DEF RequestFence, FenceExpiry, Goto, Settle
  <2>7. CASE AcquireFence(w) BY <2>7 DEF AcquireFence, Goto
  <2>8. CASE Validate(w) BY <2>8 DEF Validate, CaseSideStands, Deny, Goto, Settle
  <2>9. CASE CheckGrant(w) BY <2>9 DEF CheckGrant, At, Goto, Settle
  <2>10. CASE Resolve(w) BY <2>10 DEF Resolve, At, Goto, Settle
  <2>11. CASE SendOnce(w) BY <2>11 DEF SendOnce, Answers, At, Goto, Settle
  <2>12. CASE PersistOutcome(w) BY <2>12 DEF PersistOutcome, AfterPersist, At, Goto
  <2>13. CASE PersistRefused(w) BY <2>13 DEF PersistRefused, AfterPersist, At, Goto
  <2>14. CASE Release(w) BY <2>14 DEF Release, At, Goto
  <2> QED BY <1>1, <2>1, <2>2, <2>3, <2>4, <2>5, <2>6, <2>7, <2>8, <2>9, <2>10, <2>11, <2>12, <2>13, <2>14 DEF SenderStep
<1>2. ASSUME NEW w \in Workers, Crash(w) PROVE FenceInv'
  BY <1>2 DEF Crash
<1>3. CASE QuarantineCheck BY <1>3 DEF QuarantineCheck
<1>4. CASE QuarantineCommit BY <1>4 DEF QuarantineCommit
<1>5. CASE ResolveUnknown BY <1>5 DEF ResolveUnknown, Classify
<1>6. ASSUME NEW withdraws \in BOOLEAN, NEW relied \in BOOLEAN, DecideMandate(withdraws, relied)
      PROVE FenceInv'
  BY <1>6 DEF DecideMandate, NoLiveFence
<1>7. CASE CompileView BY <1>7 DEF CompileView, NoLiveFence
<1>8. CASE LinkReport BY <1>8 DEF LinkReport
<1>9. CASE InvalidateAction BY <1>9 DEF InvalidateAction, Invalidatable
<1>10. CASE ProjectActionOutcome BY <1>10 DEF ProjectActionOutcome, Projectable
<1>11. CASE MoveConfiguration BY <1>11 DEF MoveConfiguration
<1>12. CASE Tick BY <1>12 DEF Tick
<1>13. CASE UNCHANGED vars BY <1>13 DEF vars
<1> QED BY <1>1, <1>2, <1>3, <1>4, <1>5, <1>6, <1>7, <1>8, <1>9, <1>10, <1>11, <1>12, <1>13
        DEF Next, Reconcile

-----------------------------------------------------------------------------
(* SENT and FAILED are final, so what was built on them stands.             *)
LEMMA SettledInvariance == ASSUME IInv, SettledInv, [Next]_vars PROVE SettledInv'
<1> USE NoneAssumption, TimeAssumption DEF IInv, TypeOK, VersionInv, OwnerInv, SettledInv, States, Outcomes, Steps,
        Execution, Moved, CaseIn, ApprovedVersion, BeforeClaim, BeforeCall, durable, worker
<1>1. ASSUME NEW w \in Workers, SenderStep(w) PROVE SettledInv'
  <2>1. CASE Load(w) BY <2>1 DEF Load, At, Goto
  <2>2. CASE Verify(w) BY <2>2 DEF Verify, At, Goto, Settle
  <2>3. CASE Claim(w) BY <2>3 DEF Claim, At, Goto
  <2>4. CASE ClaimRefused(w) BY <2>4 DEF ClaimRefused, At, Goto
  <2>5. CASE Reload(w) BY <2>5 DEF Reload, Owns, At, Goto
  <2>6. CASE RequestFence(w) BY <2>6 DEF RequestFence, FenceExpiry, Goto, Settle
  <2>7. CASE AcquireFence(w) BY <2>7 DEF AcquireFence, Goto
  <2>8. CASE Validate(w) BY <2>8 DEF Validate, CaseSideStands, Deny, Goto, Settle
  <2>9. CASE CheckGrant(w) BY <2>9 DEF CheckGrant, At, Goto, Settle
  <2>10. CASE Resolve(w) BY <2>10 DEF Resolve, At, Goto, Settle
  <2>11. CASE SendOnce(w) BY <2>11 DEF SendOnce, Answers, At, Goto, Settle
  <2>12. CASE PersistOutcome(w) BY <2>12 DEF PersistOutcome, AfterPersist, At, Goto
  <2>13. CASE PersistRefused(w) BY <2>13 DEF PersistRefused, AfterPersist, At, Goto
  <2>14. CASE Release(w) BY <2>14 DEF Release, At, Goto
  <2> QED BY <1>1, <2>1, <2>2, <2>3, <2>4, <2>5, <2>6, <2>7, <2>8, <2>9, <2>10, <2>11, <2>12, <2>13, <2>14 DEF SenderStep
<1>2. ASSUME NEW w \in Workers, Crash(w) PROVE SettledInv'
  BY <1>2 DEF Crash
<1>3. CASE QuarantineCheck BY <1>3 DEF QuarantineCheck
<1>4. CASE QuarantineCommit BY <1>4 DEF QuarantineCommit
<1>5. CASE ResolveUnknown BY <1>5 DEF ResolveUnknown, Classify
<1>6. ASSUME NEW withdraws \in BOOLEAN, NEW relied \in BOOLEAN, DecideMandate(withdraws, relied)
      PROVE SettledInv'
  BY <1>6 DEF DecideMandate, NoLiveFence
<1>7. CASE CompileView BY <1>7 DEF CompileView, NoLiveFence
<1>8. CASE LinkReport BY <1>8 DEF LinkReport
<1>9. CASE InvalidateAction BY <1>9 DEF InvalidateAction, Invalidatable
<1>10. CASE ProjectActionOutcome BY <1>10 DEF ProjectActionOutcome, Projectable
<1>11. CASE MoveConfiguration BY <1>11 DEF MoveConfiguration
<1>12. CASE Tick BY <1>12 DEF Tick
<1>13. CASE UNCHANGED vars BY <1>13 DEF vars
<1> QED BY <1>1, <1>2, <1>3, <1>4, <1>5, <1>6, <1>7, <1>8, <1>9, <1>10, <1>11, <1>12, <1>13
        DEF Next, Reconcile

-----------------------------------------------------------------------------
(* A stored fence has a holder.                                             *)
LEMMA HolderInvariance == ASSUME IInv, FenceHasHolder, [Next]_vars PROVE FenceHasHolder'
<1> USE NoneAssumption, TimeAssumption DEF IInv, TypeOK, VersionInv, OwnerInv, FenceHasHolder, States, Outcomes, Steps,
        Execution, Moved, CaseIn, ApprovedVersion, BeforeClaim, BeforeCall, durable, worker
<1>1. ASSUME NEW w \in Workers, SenderStep(w) PROVE FenceHasHolder'
  <2>1. CASE Load(w) BY <2>1 DEF Load, At, Goto
  <2>2. CASE Verify(w) BY <2>2 DEF Verify, At, Goto, Settle
  <2>3. CASE Claim(w) BY <2>3 DEF Claim, At, Goto
  <2>4. CASE ClaimRefused(w) BY <2>4 DEF ClaimRefused, At, Goto
  <2>5. CASE Reload(w) BY <2>5 DEF Reload, Owns, At, Goto
  <2>6. CASE RequestFence(w) BY <2>6 DEF RequestFence, FenceExpiry, Goto, Settle
  <2>7. CASE AcquireFence(w) BY <2>7 DEF AcquireFence, Goto
  <2>8. CASE Validate(w) BY <2>8 DEF Validate, CaseSideStands, Deny, Goto, Settle
  <2>9. CASE CheckGrant(w) BY <2>9 DEF CheckGrant, At, Goto, Settle
  <2>10. CASE Resolve(w) BY <2>10 DEF Resolve, At, Goto, Settle
  <2>11. CASE SendOnce(w) BY <2>11 DEF SendOnce, Answers, At, Goto, Settle
  <2>12. CASE PersistOutcome(w) BY <2>12 DEF PersistOutcome, AfterPersist, At, Goto
  <2>13. CASE PersistRefused(w) BY <2>13 DEF PersistRefused, AfterPersist, At, Goto
  <2>14. CASE Release(w) BY <2>14 DEF Release, At, Goto
  <2> QED BY <1>1, <2>1, <2>2, <2>3, <2>4, <2>5, <2>6, <2>7, <2>8, <2>9, <2>10, <2>11, <2>12, <2>13, <2>14 DEF SenderStep
<1>2. ASSUME NEW w \in Workers, Crash(w) PROVE FenceHasHolder'
  BY <1>2 DEF Crash
<1>3. CASE QuarantineCheck BY <1>3 DEF QuarantineCheck
<1>4. CASE QuarantineCommit BY <1>4 DEF QuarantineCommit
<1>5. CASE ResolveUnknown BY <1>5 DEF ResolveUnknown, Classify
<1>6. ASSUME NEW withdraws \in BOOLEAN, NEW relied \in BOOLEAN, DecideMandate(withdraws, relied)
      PROVE FenceHasHolder'
  BY <1>6 DEF DecideMandate, NoLiveFence
<1>7. CASE CompileView BY <1>7 DEF CompileView, NoLiveFence
<1>8. CASE LinkReport BY <1>8 DEF LinkReport
<1>9. CASE InvalidateAction BY <1>9 DEF InvalidateAction, Invalidatable
<1>10. CASE ProjectActionOutcome BY <1>10 DEF ProjectActionOutcome, Projectable
<1>11. CASE MoveConfiguration BY <1>11 DEF MoveConfiguration
<1>12. CASE Tick BY <1>12 DEF Tick
<1>13. CASE UNCHANGED vars BY <1>13 DEF vars
<1> QED BY <1>1, <1>2, <1>3, <1>4, <1>5, <1>6, <1>7, <1>8, <1>9, <1>10, <1>11, <1>12, <1>13
        DEF Next, Reconcile

(* The authority invariant holds in every reachable state of the composed   *)
(* system, which passes no attestation.                                     *)
THEOREM AuthorityInductive == ASSUME ~OperatorAttestation PROVE Spec => []AuthorityInv
<1>1. Init => TruthInv /\ FenceInv /\ SettledInv
  BY NoneAssumption DEF Init, TruthInv, FenceInv, SettledInv, Execution, CaseIn, BeforeCall, Fenced,
     Granted
<1>2. /\ TruthInv /\ FenceInv /\ SettledInv /\ IInv /\ [Next]_vars
      => TruthInv' /\ FenceInv' /\ SettledInv'
  BY TruthInvariance, FenceInvariance, SettledInvariance
<1> QED BY Inductive, <1>1, <1>2, PTL DEF Spec, AuthorityInv

(* The row never lies about the message.                                    *)
THEOREM Truthful == ASSUME ~OperatorAttestation PROVE Spec => []OutcomeIsTruthful
<1>1. AuthorityInv => OutcomeIsTruthful
  BY DEF AuthorityInv, TruthInv, OutcomeIsTruthful
<1> QED BY AuthorityInductive, <1>1, PTL

(* A proposal a human cleared never goes out.                               *)
THEOREM Cleared == ASSUME ~OperatorAttestation PROVE Spec => []ClearedNeverGoesOut
<1>1. AuthorityInv => ClearedNeverGoesOut
  BY DEF AuthorityInv, TruthInv, SettledInv, ClearedNeverGoesOut
<1> QED BY AuthorityInductive, <1>1, PTL

(* The case says a message was sent only if SES accepted one.               *)
THEOREM Actioned == ASSUME ~OperatorAttestation PROVE Spec => []ActionedMeansAccepted
<1>1. AuthorityInv => ActionedMeansAccepted
  BY DEF AuthorityInv, TruthInv, SettledInv, ActionedMeansAccepted
<1> QED BY AuthorityInductive, <1>1, PTL

(* No fence stands without a worker on its way to release it or lost on it. *)
THEOREM Holder == Spec => []FenceHasHolder
<1>1. Init => FenceHasHolder
  BY DEF Init, FenceHasHolder
<1>2. IInv /\ FenceHasHolder /\ [Next]_vars => FenceHasHolder'
  BY HolderInvariance
<1> QED BY Inductive, <1>1, <1>2, PTL DEF Spec

(* Before the fence expires SES is called only under standing authority.    *)
THEOREM CallWithinFence == ASSUME ~OperatorAttestation PROVE Spec => FenceKeepsAuthority
<1>1. AuthorityInv /\ [Next]_vars
        => [ses.calls' > ses.calls =>
              \A w \in Workers : execution.owner = w /\ clock < grant[w] => AuthorityStands]_vars
  <2> SUFFICES ASSUME AuthorityInv, [Next]_vars, ses.calls' > ses.calls,
                      NEW w \in Workers, execution.owner = w, clock < grant[w]
               PROVE  AuthorityStands
    OBVIOUS
  <2>1. PICK v \in Workers : SendOnce(v) /\ ~Expired(v)
    BY DEF AuthorityInv, IInv, TypeOK, Next, SenderStep, Reconcile, Load, Verify, Claim,
       ClaimRefused, Reload, RequestFence, AcquireFence, Validate, CheckGrant, Resolve, SendOnce,
       PersistOutcome, PersistRefused, Release, Crash, QuarantineCheck, QuarantineCommit,
       ResolveUnknown, DecideMandate, LinkReport, CompileView, InvalidateAction,
       ProjectActionOutcome, MoveConfiguration, Tick, vars
  <2>2. v = w /\ pc[w] = "call"
    BY <2>1 DEF SendOnce, At, AuthorityInv, IInv, OwnerInv, BeforeCall
  <2>3. grant[w] \in Nat /\ grant[w] <= ApprovalExpiry
    BY <2>2 DEF AuthorityInv, FenceInv, Fenced, IInv, TypeOK
  <2> QED
    BY <2>2, <2>3, TimeAssumption DEF AuthorityInv, FenceInv, Granted, AuthorityStands, IInv, TypeOK
<1> QED BY AuthorityInductive, <1>1, PTL DEF Spec, FenceKeepsAuthority

-----------------------------------------------------------------------------
(* A step that leaves the row and SES alone is a stutter of the attempt.    *)
LEMMA Stutters ==
    ASSUME UNCHANGED <<execution, ses>> PROVE UNCHANGED Attempt!vars
BY DEF Attempt!vars

(* Every step of the detailed system is a step of the abstract attempt.     *)
LEMMA StepRefines ==
    ASSUME ~OperatorAttestation, AuthorityInv, [Next]_vars
    PROVE  [Attempt!Next]_(Attempt!vars)
<1> USE NoneAssumption DEF AuthorityInv, IInv, TypeOK, VersionInv, OwnerInv, TruthInv, States,
        Outcomes, Steps, Execution, Moved, ApprovedVersion, BeforeClaim, BeforeCall, durable, worker
<1>1. ASSUME NEW w \in Workers, Claim(w) PROVE Attempt!Start
  BY <1>1 DEF Claim, At, Attempt!Start
<1>2. ASSUME NEW w \in Workers, SendOnce(w)
      PROVE  Attempt!Call \/ UNCHANGED Attempt!vars
  <2>1. CASE Expired(w)
    BY <1>2, <2>1, Stutters DEF SendOnce
  <2>2. CASE ~Expired(w)
    BY <1>2, <2>2 DEF SendOnce, At, Attempt!Call
  <2> QED BY <2>1, <2>2
<1>3. ASSUME NEW w \in Workers, PersistOutcome(w)
      PROVE  Attempt!RecordSent \/ Attempt!RecordFailed \/ Attempt!Quarantine
  BY <1>3 DEF PersistOutcome, At, Attempt!RecordSent, Attempt!RecordFailed, Attempt!Quarantine
<1>4. ASSUME NEW w \in Workers, SenderStep(w)
      PROVE  [Attempt!Next]_(Attempt!vars)
  <2>1. CASE Claim(w) \/ SendOnce(w) \/ PersistOutcome(w)
    BY <1>1, <1>2, <1>3, <2>1 DEF Attempt!Next
  <2>2. CASE ~(Claim(w) \/ SendOnce(w) \/ PersistOutcome(w))
    BY <1>4, <2>2, Stutters DEF SenderStep, Load, Verify, ClaimRefused, Reload, RequestFence,
       AcquireFence, Validate, CheckGrant, Resolve, PersistRefused, Release
  <2> QED BY <2>1, <2>2
<1>5. ASSUME QuarantineCommit PROVE Attempt!Quarantine \/ UNCHANGED Attempt!vars
  BY <1>5 DEF QuarantineCommit, Attempt!Quarantine, Attempt!vars
<1>6. ASSUME ResolveUnknown PROVE Attempt!RecordSent \/ Attempt!RecordFailed
  BY <1>6 DEF ResolveUnknown, Classify, Attempt!RecordSent, Attempt!RecordFailed
<1>7. ASSUME InvalidateAction PROVE Attempt!RecordFailed \/ UNCHANGED Attempt!vars
  BY <1>7 DEF InvalidateAction, Invalidatable, Attempt!RecordFailed, Attempt!vars
<1>8. CASE \/ QuarantineCheck \/ CompileView \/ ProjectActionOutcome \/ MoveConfiguration \/ Tick
           \/ LinkReport \/ UNCHANGED vars
           \/ \E w \in Workers : Crash(w)
           \/ \E withdraws, relied \in BOOLEAN : DecideMandate(withdraws, relied)
  BY <1>8, Stutters DEF QuarantineCheck, CompileView, ProjectActionOutcome, MoveConfiguration, Tick,
     Crash, DecideMandate, LinkReport, vars
<1> QED BY <1>4, <1>5, <1>6, <1>7, <1>8 DEF Next, Reconcile, Attempt!Next

(* The execution row keeps the abstract attempt's promise.                  *)
THEOREM Refinement == ASSUME ~OperatorAttestation PROVE Spec => ImplementsAttempt
<1>1. Init => Attempt!Init
  BY NoneAssumption DEF Init, Attempt!Init, Execution
<1>2. AuthorityInv /\ [Next]_vars => [Attempt!Next]_(Attempt!vars)
  BY StepRefines
<1> QED BY AuthorityInductive, <1>1, <1>2, PTL DEF Spec, ImplementsAttempt, Attempt!Spec
=============================================================================
