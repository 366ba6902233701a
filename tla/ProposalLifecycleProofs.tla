---------------------- MODULE ProposalLifecycleProofs ----------------------
(***************************************************************************)
(* The lifecycle keeps its promise.  With PathImplementsLifecycle            *)
(* (ExecuteConfirmedProofs) this is what the money path promises.           *)
(***************************************************************************)
EXTENDS ProposalLifecycle, TLAPS

\* An effect is committed to before it happens, happens once, and is called
\* "done" only when it has happened.
THEOREM LifecycleKeepsPromise == LifecycleSpec => [](LifecycleTypeOK /\ LifecyclePromise)
<1> USE DEF LifecycleTypeOK, LifecyclePromise, Stage
<1>1. LifecycleInit => LifecycleTypeOK /\ LifecyclePromise
  BY DEF LifecycleInit
<1>2. LifecycleTypeOK /\ LifecyclePromise /\ [LifecycleNext]_lifecycleVars
      => LifecycleTypeOK' /\ LifecyclePromise'
  <2> SUFFICES ASSUME LifecycleTypeOK, LifecyclePromise, [LifecycleNext]_lifecycleVars
               PROVE  LifecycleTypeOK' /\ LifecyclePromise'
    OBVIOUS
  <2>1. ASSUME NEW p \in Proposals,
               \/ Propose(p) \/ Consent(p) \/ HandBack(p) \/ Commit(p) \/ Abandon(p)
               \/ Question(p)
        PROVE  LifecycleTypeOK' /\ LifecyclePromise'
    BY <2>1 DEF Propose, Consent, HandBack, Commit, Abandon, Question, Move
  <2>2. ASSUME NEW p \in Proposals, TakeEffect(p)
        PROVE  LifecycleTypeOK' /\ LifecyclePromise'
    BY <2>2 DEF TakeEffect
  <2>3. ASSUME NEW p \in Proposals, Acknowledge(p) \/ Withdraw(p)
        PROVE  LifecycleTypeOK' /\ LifecyclePromise'
    BY <2>3 DEF Acknowledge, Withdraw, Move
  <2>4. CASE UNCHANGED lifecycleVars
    BY <2>4 DEF lifecycleVars
  <2> QED
    BY <2>1, <2>2, <2>3, <2>4 DEF LifecycleNext
<1> QED
  BY <1>1, <1>2, PTL DEF LifecycleSpec
=============================================================================
