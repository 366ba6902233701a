------------------------- MODULE WizardDraftsProofs -------------------------
(***************************************************************************)
(* The drafts of the wizard, for any number of drafts, calls, stages and    *)
(* edits.                                                                   *)
(***************************************************************************)
EXTENDS WizardDrafts, TLAPS

-----------------------------------------------------------------------------
(* The inductive invariant.                                                 *)

\* A call that writes holds the lock of its row, and the row is as it read it.
LockHeld ==
    \A k \in Calls : pc[k] = "write" =>
        /\ lock[on[k]] = k
        /\ view[k] = state[on[k]]
        /\ status[on[k]] = "active"

\* A warning in progress writes back what is there, unless it was raced.
WarningIsFresh ==
    \A d \in Sessions : plan[d] = "warn" /\ ~raced[d] => seen[d] = state[d]

\* Rows that somebody is about to abandon, or was told of, are rows; the id of
\* one to be created is nobody else's.
RowsExist ==
    /\ \A d \in Sessions : plan[d] # "keep" => status[d] # "absent"
    /\ \A d, e \in Sessions : e \in elder[d] => status[e] # "absent"
    /\ \A k \in Calls : \A d \in prev[k] : status[d] # "absent"
    /\ \A k \in Calls : pc[k] = "create" =>
          /\ status[on[k]] = "absent"
          /\ \A j \in Calls : on[j] = on[k] => j = k

\* A creation will abandon every elder draft that is still active.
EldersSeen ==
    \A k \in Calls : pc[k] = "create" =>
        \A e \in elder[on[k]] : status[e] = "active" => e \in prev[k]

\* The stages up to the step of a draft are told, and so are those before a
\* stage that is edited and all of those of a draft that is finalized.
StagesTold ==
    /\ \A d \in Sessions, s \in Stages : s <= step[d] => told[d][s] # 0
    /\ \A k \in Calls, s \in Stages :
          \/ pc[k] \in {"patch", "write", "step"} /\ s < stage[k]
          \/ pc[k] = "step" /\ s = stage[k]
          \/ pc[k] \in {"mint", "last"}
          => told[on[k]][s] # 0

\* What is about to be proposed has all stages.
ViewIsWhole ==
    \A k \in Calls : pc[k] = "mint" /\ ~raced[on[k]] =>
        \A s \in Stages : view[k][s] # 0

WizardInv ==
    /\ TypeOK
    /\ LockHeld
    /\ WarningIsFresh
    /\ PatchesSurvive
    /\ RowsExist
    /\ EldersSeen
    /\ OneDraftAtATime
    /\ StagesTold
    /\ ViewIsWhole
    /\ MintIsWhole

-----------------------------------------------------------------------------
(* One lemma for each conjunct: its steps.                                  *)

\* Every step keeps the type.
LEMMA TypeStep == TypeOK /\ [Next]_vars => TypeOK'
<1> SUFFICES ASSUME TypeOK, [Next]_vars PROVE TypeOK'
  OBVIOUS
<1> USE WizardAssumption DEF rowVars, callVars, jobVars, pastVars
<1>t. /\ status \in [Sessions -> {"absent", "active", "abandoned"}]
      /\ step \in [Sessions -> 0..LAST + 1]
      /\ state \in [Sessions -> States]
      /\ idle \in [Sessions -> 0..TTL + 1]
      /\ warned \in [Sessions -> BOOLEAN]
      /\ lock \in [Sessions -> Calls \cup {NoCall}]
      /\ pc \in [Calls -> {"idle", "create", "patch", "write", "step", "mint", "last"}]
      /\ on \in [Calls -> Sessions \cup {NoSession}]
      /\ stage \in [Calls -> 0..LAST]
      /\ view \in [Calls -> States]
      /\ prev \in [Calls -> SUBSET Sessions]
      /\ plan \in [Sessions -> {"keep", "warn", "abandon"}]
      /\ seen \in [Sessions -> States]
      /\ edits \in Nat
      /\ told \in [Sessions -> States]
      /\ raced \in [Sessions -> BOOLEAN]
      /\ elder \in [Sessions -> SUBSET Sessions]
      /\ minted \in [Sessions -> SUBSET States]
      /\ \A k \in Calls : pc[k] # "idle" => on[k] \in Sessions
      /\ \A k \in Calls : pc[k] \in {"patch", "write", "step"} => stage[k] \in Stages
  BY DEF TypeOK
<1>e. /\ Empty \in States
      /\ \A f \in States, s \in Stages, n \in Nat : [f EXCEPT ![s] = n] \in States
      /\ 0 \in 0..LAST /\ Stages \subseteq 0..LAST /\ Stages \subseteq 0..LAST + 1 /\ LAST + 1 \in 0..LAST + 1
      /\ 0 \in 0..TTL + 1
  BY DEF Empty, States, Stages
<1>0. ASSUME NEW k \in Calls, Call(k) PROVE TypeOK'
  <2>1. CASE CreateReads(k)
    <3>1. /\ status' \in [Sessions -> {"absent", "active", "abandoned"}]
          /\ step' \in [Sessions -> 0..LAST + 1]
          /\ state' \in [Sessions -> States]
          /\ idle' \in [Sessions -> 0..TTL + 1]
          /\ warned' \in [Sessions -> BOOLEAN]
      BY <2>1, <1>t, <1>e DEF CreateReads, Active, Goto
    <3>2. /\ lock' \in [Sessions -> Calls \cup {NoCall}]
          /\ pc' \in [Calls -> {"idle", "create", "patch", "write", "step", "mint", "last"}]
          /\ on' \in [Calls -> Sessions \cup {NoSession}]
          /\ stage' \in [Calls -> 0..LAST]
          /\ view' \in [Calls -> States]
          /\ prev' \in [Calls -> SUBSET Sessions]
      BY <2>1, <1>t, <1>e DEF CreateReads, Active, Goto
    <3>3. /\ plan' \in [Sessions -> {"keep", "warn", "abandon"}]
          /\ seen' \in [Sessions -> States]
          /\ edits' \in Nat
          /\ told' \in [Sessions -> States]
          /\ raced' \in [Sessions -> BOOLEAN]
          /\ elder' \in [Sessions -> SUBSET Sessions]
          /\ minted' \in [Sessions -> SUBSET States]
      BY <2>1, <1>t, <1>e DEF CreateReads, Active, Goto
    <3>4. /\ \A j \in Calls : pc'[j] # "idle" => on'[j] \in Sessions
          /\ \A j \in Calls : pc'[j] \in {"patch", "write", "step"} => stage'[j] \in Stages
      BY <2>1, <1>t, <1>e DEF CreateReads, Active, Goto
    <3> QED
      BY <3>1, <3>2, <3>3, <3>4 DEF TypeOK
  <2>2. CASE CreateWrites(k)
    <3>1. /\ status' \in [Sessions -> {"absent", "active", "abandoned"}]
          /\ step' \in [Sessions -> 0..LAST + 1]
          /\ state' \in [Sessions -> States]
          /\ idle' \in [Sessions -> 0..TTL + 1]
          /\ warned' \in [Sessions -> BOOLEAN]
      BY <2>2, <1>t, <1>e DEF CreateWrites, Returns, Touch, Replaced, Goto, Unlocked
    <3>2. /\ lock' \in [Sessions -> Calls \cup {NoCall}]
          /\ pc' \in [Calls -> {"idle", "create", "patch", "write", "step", "mint", "last"}]
          /\ on' \in [Calls -> Sessions \cup {NoSession}]
          /\ stage' \in [Calls -> 0..LAST]
          /\ view' \in [Calls -> States]
          /\ prev' \in [Calls -> SUBSET Sessions]
      BY <2>2, <1>t, <1>e DEF CreateWrites, Returns, Touch, Replaced, Goto, Unlocked
    <3>3. /\ plan' \in [Sessions -> {"keep", "warn", "abandon"}]
          /\ seen' \in [Sessions -> States]
          /\ edits' \in Nat
          /\ told' \in [Sessions -> States]
          /\ raced' \in [Sessions -> BOOLEAN]
          /\ elder' \in [Sessions -> SUBSET Sessions]
          /\ minted' \in [Sessions -> SUBSET States]
      BY <2>2, <1>t, <1>e DEF CreateWrites, Returns, Touch, Replaced, Goto, Unlocked
    <3>4. /\ \A j \in Calls : pc'[j] # "idle" => on'[j] \in Sessions
          /\ \A j \in Calls : pc'[j] \in {"patch", "write", "step"} => stage'[j] \in Stages
      BY <2>2, <1>t, <1>e DEF CreateWrites, Returns, Touch, Replaced, Goto, Unlocked
    <3> QED
      BY <3>1, <3>2, <3>3, <3>4 DEF TypeOK
  <2>3. CASE UpdateReads(k)
    <3>1. /\ status' \in [Sessions -> {"absent", "active", "abandoned"}]
          /\ step' \in [Sessions -> 0..LAST + 1]
          /\ state' \in [Sessions -> States]
          /\ idle' \in [Sessions -> 0..TTL + 1]
          /\ warned' \in [Sessions -> BOOLEAN]
      BY <2>3, <1>t, <1>e DEF UpdateReads, Active, InTurn, Goto
    <3>2. /\ lock' \in [Sessions -> Calls \cup {NoCall}]
          /\ pc' \in [Calls -> {"idle", "create", "patch", "write", "step", "mint", "last"}]
          /\ on' \in [Calls -> Sessions \cup {NoSession}]
          /\ stage' \in [Calls -> 0..LAST]
          /\ view' \in [Calls -> States]
          /\ prev' \in [Calls -> SUBSET Sessions]
      BY <2>3, <1>t, <1>e DEF UpdateReads, Active, InTurn, Goto
    <3>3. /\ plan' \in [Sessions -> {"keep", "warn", "abandon"}]
          /\ seen' \in [Sessions -> States]
          /\ edits' \in Nat
          /\ told' \in [Sessions -> States]
          /\ raced' \in [Sessions -> BOOLEAN]
          /\ elder' \in [Sessions -> SUBSET Sessions]
          /\ minted' \in [Sessions -> SUBSET States]
      BY <2>3, <1>t, <1>e DEF UpdateReads, Active, InTurn, Goto
    <3>4. /\ \A j \in Calls : pc'[j] # "idle" => on'[j] \in Sessions
          /\ \A j \in Calls : pc'[j] \in {"patch", "write", "step"} => stage'[j] \in Stages
      BY <2>3, <1>t, <1>e DEF UpdateReads, Active, InTurn, Goto
    <3> QED
      BY <3>1, <3>2, <3>3, <3>4 DEF TypeOK
  <2>4. CASE PatchReads(k)
    <3>1. /\ status' \in [Sessions -> {"absent", "active", "abandoned"}]
          /\ step' \in [Sessions -> 0..LAST + 1]
          /\ state' \in [Sessions -> States]
          /\ idle' \in [Sessions -> 0..TTL + 1]
          /\ warned' \in [Sessions -> BOOLEAN]
      BY <2>4, <1>t, <1>e DEF PatchReads, Returns, Editable, Locks, Goto
    <3>2. /\ lock' \in [Sessions -> Calls \cup {NoCall}]
          /\ pc' \in [Calls -> {"idle", "create", "patch", "write", "step", "mint", "last"}]
          /\ on' \in [Calls -> Sessions \cup {NoSession}]
          /\ stage' \in [Calls -> 0..LAST]
          /\ view' \in [Calls -> States]
          /\ prev' \in [Calls -> SUBSET Sessions]
      <4>1. CASE Editable(on[k])
        <5>0. /\ view' = [view EXCEPT ![k] = state[on[k]]] /\ pc' = [pc EXCEPT ![k] = "write"]
            /\ on' = on /\ stage' = stage /\ prev' = prev /\ lock' = [lock EXCEPT ![on[k]] = k]
            /\ on[k] \in Sessions /\ stage[k] \in Stages
          BY <4>1, <2>4, <1>t DEF PatchReads, Locks, Goto
        <5>1. lock' \in [Sessions -> Calls \cup {NoCall}]
          BY <4>1, <5>0, <1>t, <1>e
        <5>2. pc' \in [Calls -> {"idle", "create", "patch", "write", "step", "mint", "last"}]
          BY <4>1, <5>0, <1>t, <1>e
        <5>3. on' \in [Calls -> Sessions \cup {NoSession}]
          BY <4>1, <5>0, <1>t, <1>e
        <5>4. stage' \in [Calls -> 0..LAST]
          BY <4>1, <5>0, <1>t, <1>e
        <5>5. view' \in [Calls -> States]
          BY <4>1, <5>0, <1>t, <1>e
        <5>6. prev' \in [Calls -> SUBSET Sessions]
          BY <4>1, <5>0, <1>t, <1>e
        <5> QED
          BY <5>1, <5>2, <5>3, <5>4, <5>5, <5>6
      <4>2. CASE ~Editable(on[k])
        <5>0. Returns(k)
          BY <4>2, <2>4, <1>t DEF PatchReads
        <5>1. lock' \in [Sessions -> Calls \cup {NoCall}]
          BY <4>2, <5>0, <1>t, <1>e DEF Returns, Goto
        <5>2. pc' \in [Calls -> {"idle", "create", "patch", "write", "step", "mint", "last"}]
          BY <4>2, <5>0, <1>t, <1>e DEF Returns, Goto
        <5>3. on' \in [Calls -> Sessions \cup {NoSession}]
          BY <4>2, <5>0, <1>t, <1>e DEF Returns, Goto
        <5>4. stage' \in [Calls -> 0..LAST]
          BY <4>2, <5>0, <1>t, <1>e DEF Returns, Goto
        <5>5. view' \in [Calls -> States]
          BY <4>2, <5>0, <1>t, <1>e DEF Returns, Goto
        <5>6. prev' \in [Calls -> SUBSET Sessions]
          BY <4>2, <5>0, <1>t, <1>e DEF Returns, Goto
        <5> QED
          BY <5>1, <5>2, <5>3, <5>4, <5>5, <5>6
      <4> QED
        BY <4>1, <4>2
    <3>3. /\ plan' \in [Sessions -> {"keep", "warn", "abandon"}]
          /\ seen' \in [Sessions -> States]
          /\ edits' \in Nat
          /\ told' \in [Sessions -> States]
          /\ raced' \in [Sessions -> BOOLEAN]
          /\ elder' \in [Sessions -> SUBSET Sessions]
          /\ minted' \in [Sessions -> SUBSET States]
      BY <2>4, <1>t, <1>e DEF PatchReads, Returns, Editable, Locks, Goto
    <3>4. /\ \A j \in Calls : pc'[j] # "idle" => on'[j] \in Sessions
          /\ \A j \in Calls : pc'[j] \in {"patch", "write", "step"} => stage'[j] \in Stages
      <4>1. CASE Editable(on[k])
        <5>0. /\ view' = [view EXCEPT ![k] = state[on[k]]] /\ pc' = [pc EXCEPT ![k] = "write"]
            /\ on' = on /\ stage' = stage /\ prev' = prev /\ lock' = [lock EXCEPT ![on[k]] = k]
            /\ on[k] \in Sessions /\ stage[k] \in Stages
          BY <4>1, <2>4, <1>t DEF PatchReads, Locks, Goto
        <5>1. \A j \in Calls : pc'[j] # "idle" => on'[j] \in Sessions
          BY <4>1, <5>0, <1>t, <1>e
        <5>2. \A j \in Calls : pc'[j] \in {"patch", "write", "step"} => stage'[j] \in Stages
          BY <4>1, <5>0, <1>t, <1>e
        <5> QED
          BY <5>1, <5>2
      <4>2. CASE ~Editable(on[k])
        <5>0. Returns(k)
          BY <4>2, <2>4, <1>t DEF PatchReads
        <5>1. \A j \in Calls : pc'[j] # "idle" => on'[j] \in Sessions
          BY <4>2, <5>0, <1>t, <1>e DEF Returns, Goto
        <5>2. \A j \in Calls : pc'[j] \in {"patch", "write", "step"} => stage'[j] \in Stages
          BY <4>2, <5>0, <1>t, <1>e DEF Returns, Goto
        <5> QED
          BY <5>1, <5>2
      <4> QED
        BY <4>1, <4>2
    <3> QED
      BY <3>1, <3>2, <3>3, <3>4 DEF TypeOK
  <2>5. CASE PatchWrites(k)
    <3>1. /\ status' \in [Sessions -> {"absent", "active", "abandoned"}]
          /\ step' \in [Sessions -> 0..LAST + 1]
          /\ state' \in [Sessions -> States]
          /\ idle' \in [Sessions -> 0..TTL + 1]
          /\ warned' \in [Sessions -> BOOLEAN]
      BY <2>5, <1>t, <1>e DEF PatchWrites, Touch, Goto
    <3>2. /\ lock' \in [Sessions -> Calls \cup {NoCall}]
          /\ pc' \in [Calls -> {"idle", "create", "patch", "write", "step", "mint", "last"}]
          /\ on' \in [Calls -> Sessions \cup {NoSession}]
          /\ stage' \in [Calls -> 0..LAST]
          /\ view' \in [Calls -> States]
          /\ prev' \in [Calls -> SUBSET Sessions]
      BY <2>5, <1>t, <1>e DEF PatchWrites, Touch, Goto
    <3>3. /\ plan' \in [Sessions -> {"keep", "warn", "abandon"}]
          /\ seen' \in [Sessions -> States]
          /\ edits' \in Nat
          /\ told' \in [Sessions -> States]
          /\ raced' \in [Sessions -> BOOLEAN]
          /\ elder' \in [Sessions -> SUBSET Sessions]
          /\ minted' \in [Sessions -> SUBSET States]
      BY <2>5, <1>t, <1>e DEF PatchWrites, Touch, Goto
    <3>4. /\ \A j \in Calls : pc'[j] # "idle" => on'[j] \in Sessions
          /\ \A j \in Calls : pc'[j] \in {"patch", "write", "step"} => stage'[j] \in Stages
      BY <2>5, <1>t, <1>e DEF PatchWrites, Touch, Goto
    <3> QED
      BY <3>1, <3>2, <3>3, <3>4 DEF TypeOK
  <2>6. CASE UpdateEnds(k)
    <3>1. /\ status' \in [Sessions -> {"absent", "active", "abandoned"}]
          /\ step' \in [Sessions -> 0..LAST + 1]
          /\ state' \in [Sessions -> States]
          /\ idle' \in [Sessions -> 0..TTL + 1]
          /\ warned' \in [Sessions -> BOOLEAN]
      <4>1. CASE Editable(on[k])
        <5>1. status' \in [Sessions -> {"absent", "active", "abandoned"}]
          BY <4>1, <2>6, <1>t, <1>e DEF UpdateEnds, SetStep, Returns, Editable, Touch, Goto, Unlocked
        <5>2. step' \in [Sessions -> 0..LAST + 1]
          BY <4>1, <2>6, <1>t, <1>e DEF UpdateEnds, SetStep, Returns, Editable, Touch, Goto, Unlocked
        <5>3. state' \in [Sessions -> States]
          BY <4>1, <2>6, <1>t, <1>e DEF UpdateEnds, SetStep, Returns, Editable, Touch, Goto, Unlocked
        <5>4. idle' \in [Sessions -> 0..TTL + 1]
          BY <4>1, <2>6, <1>t, <1>e DEF UpdateEnds, SetStep, Returns, Editable, Touch, Goto, Unlocked
        <5>5. warned' \in [Sessions -> BOOLEAN]
          BY <4>1, <2>6, <1>t, <1>e DEF UpdateEnds, SetStep, Returns, Editable, Touch, Goto, Unlocked
        <5> QED
          BY <5>1, <5>2, <5>3, <5>4, <5>5
      <4>2. CASE ~Editable(on[k])
        <5>1. status' \in [Sessions -> {"absent", "active", "abandoned"}]
          BY <4>2, <2>6, <1>t, <1>e DEF UpdateEnds, SetStep, Returns, Editable, Touch, Goto, Unlocked
        <5>2. step' \in [Sessions -> 0..LAST + 1]
          BY <4>2, <2>6, <1>t, <1>e DEF UpdateEnds, SetStep, Returns, Editable, Touch, Goto, Unlocked
        <5>3. state' \in [Sessions -> States]
          BY <4>2, <2>6, <1>t, <1>e DEF UpdateEnds, SetStep, Returns, Editable, Touch, Goto, Unlocked
        <5>4. idle' \in [Sessions -> 0..TTL + 1]
          BY <4>2, <2>6, <1>t, <1>e DEF UpdateEnds, SetStep, Returns, Editable, Touch, Goto, Unlocked
        <5>5. warned' \in [Sessions -> BOOLEAN]
          BY <4>2, <2>6, <1>t, <1>e DEF UpdateEnds, SetStep, Returns, Editable, Touch, Goto, Unlocked
        <5> QED
          BY <5>1, <5>2, <5>3, <5>4, <5>5
      <4> QED
        BY <4>1, <4>2
    <3>2. /\ lock' \in [Sessions -> Calls \cup {NoCall}]
          /\ pc' \in [Calls -> {"idle", "create", "patch", "write", "step", "mint", "last"}]
          /\ on' \in [Calls -> Sessions \cup {NoSession}]
          /\ stage' \in [Calls -> 0..LAST]
          /\ view' \in [Calls -> States]
          /\ prev' \in [Calls -> SUBSET Sessions]
      BY <2>6, <1>t, <1>e DEF UpdateEnds, SetStep, Returns, Editable, Touch, Goto, Unlocked
    <3>3. /\ plan' \in [Sessions -> {"keep", "warn", "abandon"}]
          /\ seen' \in [Sessions -> States]
          /\ edits' \in Nat
          /\ told' \in [Sessions -> States]
          /\ raced' \in [Sessions -> BOOLEAN]
          /\ elder' \in [Sessions -> SUBSET Sessions]
          /\ minted' \in [Sessions -> SUBSET States]
      BY <2>6, <1>t, <1>e DEF UpdateEnds, SetStep, Returns, Editable, Touch, Goto, Unlocked
    <3>4. /\ \A j \in Calls : pc'[j] # "idle" => on'[j] \in Sessions
          /\ \A j \in Calls : pc'[j] \in {"patch", "write", "step"} => stage'[j] \in Stages
      BY <2>6, <1>t, <1>e DEF UpdateEnds, SetStep, Returns, Editable, Touch, Goto, Unlocked
    <3> QED
      BY <3>1, <3>2, <3>3, <3>4 DEF TypeOK
  <2>7. CASE FinalizeReads(k)
    <3>1. /\ status' \in [Sessions -> {"absent", "active", "abandoned"}]
          /\ step' \in [Sessions -> 0..LAST + 1]
          /\ state' \in [Sessions -> States]
          /\ idle' \in [Sessions -> 0..TTL + 1]
          /\ warned' \in [Sessions -> BOOLEAN]
      BY <2>7, <1>t, <1>e DEF FinalizeReads, Active, Finished, Goto
    <3>2. /\ lock' \in [Sessions -> Calls \cup {NoCall}]
          /\ pc' \in [Calls -> {"idle", "create", "patch", "write", "step", "mint", "last"}]
          /\ on' \in [Calls -> Sessions \cup {NoSession}]
          /\ stage' \in [Calls -> 0..LAST]
          /\ view' \in [Calls -> States]
          /\ prev' \in [Calls -> SUBSET Sessions]
      BY <2>7, <1>t, <1>e DEF FinalizeReads, Active, Finished, Goto
    <3>3. /\ plan' \in [Sessions -> {"keep", "warn", "abandon"}]
          /\ seen' \in [Sessions -> States]
          /\ edits' \in Nat
          /\ told' \in [Sessions -> States]
          /\ raced' \in [Sessions -> BOOLEAN]
          /\ elder' \in [Sessions -> SUBSET Sessions]
          /\ minted' \in [Sessions -> SUBSET States]
      BY <2>7, <1>t, <1>e DEF FinalizeReads, Active, Finished, Goto
    <3>4. /\ \A j \in Calls : pc'[j] # "idle" => on'[j] \in Sessions
          /\ \A j \in Calls : pc'[j] \in {"patch", "write", "step"} => stage'[j] \in Stages
      BY <2>7, <1>t, <1>e DEF FinalizeReads, Active, Finished, Goto
    <3> QED
      BY <3>1, <3>2, <3>3, <3>4 DEF TypeOK
  <2>8. CASE Mint(k)
    <3>1. /\ status' \in [Sessions -> {"absent", "active", "abandoned"}]
          /\ step' \in [Sessions -> 0..LAST + 1]
          /\ state' \in [Sessions -> States]
          /\ idle' \in [Sessions -> 0..TTL + 1]
          /\ warned' \in [Sessions -> BOOLEAN]
      BY <2>8, <1>t, <1>e DEF Mint, Goto
    <3>2. /\ lock' \in [Sessions -> Calls \cup {NoCall}]
          /\ pc' \in [Calls -> {"idle", "create", "patch", "write", "step", "mint", "last"}]
          /\ on' \in [Calls -> Sessions \cup {NoSession}]
          /\ stage' \in [Calls -> 0..LAST]
          /\ view' \in [Calls -> States]
          /\ prev' \in [Calls -> SUBSET Sessions]
      BY <2>8, <1>t, <1>e DEF Mint, Goto
    <3>3. /\ plan' \in [Sessions -> {"keep", "warn", "abandon"}]
          /\ seen' \in [Sessions -> States]
          /\ edits' \in Nat
          /\ told' \in [Sessions -> States]
          /\ raced' \in [Sessions -> BOOLEAN]
          /\ elder' \in [Sessions -> SUBSET Sessions]
          /\ minted' \in [Sessions -> SUBSET States]
      BY <2>8, <1>t, <1>e DEF Mint, Goto
    <3>4. /\ \A j \in Calls : pc'[j] # "idle" => on'[j] \in Sessions
          /\ \A j \in Calls : pc'[j] \in {"patch", "write", "step"} => stage'[j] \in Stages
      BY <2>8, <1>t, <1>e DEF Mint, Goto
    <3> QED
      BY <3>1, <3>2, <3>3, <3>4 DEF TypeOK
  <2>9. CASE FinalizeEnds(k)
    <3>1. /\ status' \in [Sessions -> {"absent", "active", "abandoned"}]
          /\ step' \in [Sessions -> 0..LAST + 1]
          /\ state' \in [Sessions -> States]
          /\ idle' \in [Sessions -> 0..TTL + 1]
          /\ warned' \in [Sessions -> BOOLEAN]
      <4>1. CASE Editable(on[k])
        <5>1. status' \in [Sessions -> {"absent", "active", "abandoned"}]
          BY <4>1, <2>9, <1>t, <1>e DEF FinalizeEnds, SetStep, Returns, Editable, Touch, Goto, Unlocked
        <5>2. step' \in [Sessions -> 0..LAST + 1]
          BY <4>1, <2>9, <1>t, <1>e DEF FinalizeEnds, SetStep, Returns, Editable, Touch, Goto, Unlocked
        <5>3. state' \in [Sessions -> States]
          BY <4>1, <2>9, <1>t, <1>e DEF FinalizeEnds, SetStep, Returns, Editable, Touch, Goto, Unlocked
        <5>4. idle' \in [Sessions -> 0..TTL + 1]
          BY <4>1, <2>9, <1>t, <1>e DEF FinalizeEnds, SetStep, Returns, Editable, Touch, Goto, Unlocked
        <5>5. warned' \in [Sessions -> BOOLEAN]
          BY <4>1, <2>9, <1>t, <1>e DEF FinalizeEnds, SetStep, Returns, Editable, Touch, Goto, Unlocked
        <5> QED
          BY <5>1, <5>2, <5>3, <5>4, <5>5
      <4>2. CASE ~Editable(on[k])
        <5>1. status' \in [Sessions -> {"absent", "active", "abandoned"}]
          BY <4>2, <2>9, <1>t, <1>e DEF FinalizeEnds, SetStep, Returns, Editable, Touch, Goto, Unlocked
        <5>2. step' \in [Sessions -> 0..LAST + 1]
          BY <4>2, <2>9, <1>t, <1>e DEF FinalizeEnds, SetStep, Returns, Editable, Touch, Goto, Unlocked
        <5>3. state' \in [Sessions -> States]
          BY <4>2, <2>9, <1>t, <1>e DEF FinalizeEnds, SetStep, Returns, Editable, Touch, Goto, Unlocked
        <5>4. idle' \in [Sessions -> 0..TTL + 1]
          BY <4>2, <2>9, <1>t, <1>e DEF FinalizeEnds, SetStep, Returns, Editable, Touch, Goto, Unlocked
        <5>5. warned' \in [Sessions -> BOOLEAN]
          BY <4>2, <2>9, <1>t, <1>e DEF FinalizeEnds, SetStep, Returns, Editable, Touch, Goto, Unlocked
        <5> QED
          BY <5>1, <5>2, <5>3, <5>4, <5>5
      <4> QED
        BY <4>1, <4>2
    <3>2. /\ lock' \in [Sessions -> Calls \cup {NoCall}]
          /\ pc' \in [Calls -> {"idle", "create", "patch", "write", "step", "mint", "last"}]
          /\ on' \in [Calls -> Sessions \cup {NoSession}]
          /\ stage' \in [Calls -> 0..LAST]
          /\ view' \in [Calls -> States]
          /\ prev' \in [Calls -> SUBSET Sessions]
      BY <2>9, <1>t, <1>e DEF FinalizeEnds, SetStep, Returns, Editable, Touch, Goto, Unlocked
    <3>3. /\ plan' \in [Sessions -> {"keep", "warn", "abandon"}]
          /\ seen' \in [Sessions -> States]
          /\ edits' \in Nat
          /\ told' \in [Sessions -> States]
          /\ raced' \in [Sessions -> BOOLEAN]
          /\ elder' \in [Sessions -> SUBSET Sessions]
          /\ minted' \in [Sessions -> SUBSET States]
      BY <2>9, <1>t, <1>e DEF FinalizeEnds, SetStep, Returns, Editable, Touch, Goto, Unlocked
    <3>4. /\ \A j \in Calls : pc'[j] # "idle" => on'[j] \in Sessions
          /\ \A j \in Calls : pc'[j] \in {"patch", "write", "step"} => stage'[j] \in Stages
      BY <2>9, <1>t, <1>e DEF FinalizeEnds, SetStep, Returns, Editable, Touch, Goto, Unlocked
    <3> QED
      BY <3>1, <3>2, <3>3, <3>4 DEF TypeOK
  <2>10. CASE CallFails(k)
    <3>1. /\ status' \in [Sessions -> {"absent", "active", "abandoned"}]
          /\ step' \in [Sessions -> 0..LAST + 1]
          /\ state' \in [Sessions -> States]
          /\ idle' \in [Sessions -> 0..TTL + 1]
          /\ warned' \in [Sessions -> BOOLEAN]
      BY <2>10, <1>t, <1>e DEF CallFails, Returns, Goto
    <3>2. /\ lock' \in [Sessions -> Calls \cup {NoCall}]
          /\ pc' \in [Calls -> {"idle", "create", "patch", "write", "step", "mint", "last"}]
          /\ on' \in [Calls -> Sessions \cup {NoSession}]
          /\ stage' \in [Calls -> 0..LAST]
          /\ view' \in [Calls -> States]
          /\ prev' \in [Calls -> SUBSET Sessions]
      BY <2>10, <1>t, <1>e DEF CallFails, Returns, Goto
    <3>3. /\ plan' \in [Sessions -> {"keep", "warn", "abandon"}]
          /\ seen' \in [Sessions -> States]
          /\ edits' \in Nat
          /\ told' \in [Sessions -> States]
          /\ raced' \in [Sessions -> BOOLEAN]
          /\ elder' \in [Sessions -> SUBSET Sessions]
          /\ minted' \in [Sessions -> SUBSET States]
      BY <2>10, <1>t, <1>e DEF CallFails, Returns, Goto
    <3>4. /\ \A j \in Calls : pc'[j] # "idle" => on'[j] \in Sessions
          /\ \A j \in Calls : pc'[j] \in {"patch", "write", "step"} => stage'[j] \in Stages
      BY <2>10, <1>t, <1>e DEF CallFails, Returns, Goto
    <3> QED
      BY <3>1, <3>2, <3>3, <3>4 DEF TypeOK
  <2> QED
    BY <1>0, <2>1, <2>2, <2>3, <2>4, <2>5, <2>6, <2>7, <2>8, <2>9, <2>10 DEF Call
<1>1. CASE SweepReads
  <2>1. /\ status' \in [Sessions -> {"absent", "active", "abandoned"}]
        /\ step' \in [Sessions -> 0..LAST + 1]
        /\ state' \in [Sessions -> States]
        /\ idle' \in [Sessions -> 0..TTL + 1]
        /\ warned' \in [Sessions -> BOOLEAN]
    BY <1>1, <1>t, <1>e DEF SweepReads, Verdict
  <2>2. /\ lock' \in [Sessions -> Calls \cup {NoCall}]
        /\ pc' \in [Calls -> {"idle", "create", "patch", "write", "step", "mint", "last"}]
        /\ on' \in [Calls -> Sessions \cup {NoSession}]
        /\ stage' \in [Calls -> 0..LAST]
        /\ view' \in [Calls -> States]
        /\ prev' \in [Calls -> SUBSET Sessions]
    BY <1>1, <1>t, <1>e DEF SweepReads, Verdict
  <2>3. /\ plan' \in [Sessions -> {"keep", "warn", "abandon"}]
        /\ seen' \in [Sessions -> States]
        /\ edits' \in Nat
        /\ told' \in [Sessions -> States]
        /\ raced' \in [Sessions -> BOOLEAN]
        /\ elder' \in [Sessions -> SUBSET Sessions]
        /\ minted' \in [Sessions -> SUBSET States]
    BY <1>1, <1>t, <1>e DEF SweepReads, Verdict
  <2>4. /\ \A j \in Calls : pc'[j] # "idle" => on'[j] \in Sessions
        /\ \A j \in Calls : pc'[j] \in {"patch", "write", "step"} => stage'[j] \in Stages
    BY <1>1, <1>t, <1>e DEF SweepReads, Verdict
  <2> QED
    BY <2>1, <2>2, <2>3, <2>4 DEF TypeOK
<1>2. CASE SweepWrites
  <2>1. /\ status' \in [Sessions -> {"absent", "active", "abandoned"}]
        /\ step' \in [Sessions -> 0..LAST + 1]
        /\ state' \in [Sessions -> States]
        /\ idle' \in [Sessions -> 0..TTL + 1]
        /\ warned' \in [Sessions -> BOOLEAN]
    BY <1>2, <1>t, <1>e DEF SweepWrites, SweepDone, Planned, Unlocked
  <2>2. /\ lock' \in [Sessions -> Calls \cup {NoCall}]
        /\ pc' \in [Calls -> {"idle", "create", "patch", "write", "step", "mint", "last"}]
        /\ on' \in [Calls -> Sessions \cup {NoSession}]
        /\ stage' \in [Calls -> 0..LAST]
        /\ view' \in [Calls -> States]
        /\ prev' \in [Calls -> SUBSET Sessions]
    BY <1>2, <1>t, <1>e DEF SweepWrites, SweepDone, Planned, Unlocked
  <2>3. /\ plan' \in [Sessions -> {"keep", "warn", "abandon"}]
        /\ seen' \in [Sessions -> States]
        /\ edits' \in Nat
        /\ told' \in [Sessions -> States]
        /\ raced' \in [Sessions -> BOOLEAN]
        /\ elder' \in [Sessions -> SUBSET Sessions]
        /\ minted' \in [Sessions -> SUBSET States]
    BY <1>2, <1>t, <1>e DEF SweepWrites, SweepDone, Planned, Unlocked
  <2>4. /\ \A j \in Calls : pc'[j] # "idle" => on'[j] \in Sessions
        /\ \A j \in Calls : pc'[j] \in {"patch", "write", "step"} => stage'[j] \in Stages
    BY <1>2, <1>t, <1>e DEF SweepWrites, SweepDone, Planned, Unlocked
  <2> QED
    BY <2>1, <2>2, <2>3, <2>4 DEF TypeOK
<1>3. CASE SweepFails
  <2>1. /\ status' \in [Sessions -> {"absent", "active", "abandoned"}]
        /\ step' \in [Sessions -> 0..LAST + 1]
        /\ state' \in [Sessions -> States]
        /\ idle' \in [Sessions -> 0..TTL + 1]
        /\ warned' \in [Sessions -> BOOLEAN]
    BY <1>3, <1>t, <1>e DEF SweepFails, SweepDone
  <2>2. /\ lock' \in [Sessions -> Calls \cup {NoCall}]
        /\ pc' \in [Calls -> {"idle", "create", "patch", "write", "step", "mint", "last"}]
        /\ on' \in [Calls -> Sessions \cup {NoSession}]
        /\ stage' \in [Calls -> 0..LAST]
        /\ view' \in [Calls -> States]
        /\ prev' \in [Calls -> SUBSET Sessions]
    BY <1>3, <1>t, <1>e DEF SweepFails, SweepDone
  <2>3. /\ plan' \in [Sessions -> {"keep", "warn", "abandon"}]
        /\ seen' \in [Sessions -> States]
        /\ edits' \in Nat
        /\ told' \in [Sessions -> States]
        /\ raced' \in [Sessions -> BOOLEAN]
        /\ elder' \in [Sessions -> SUBSET Sessions]
        /\ minted' \in [Sessions -> SUBSET States]
    BY <1>3, <1>t, <1>e DEF SweepFails, SweepDone
  <2>4. /\ \A j \in Calls : pc'[j] # "idle" => on'[j] \in Sessions
        /\ \A j \in Calls : pc'[j] \in {"patch", "write", "step"} => stage'[j] \in Stages
    BY <1>3, <1>t, <1>e DEF SweepFails, SweepDone
  <2> QED
    BY <2>1, <2>2, <2>3, <2>4 DEF TypeOK
<1>4. CASE Tick
  <2>1. /\ status' \in [Sessions -> {"absent", "active", "abandoned"}]
        /\ step' \in [Sessions -> 0..LAST + 1]
        /\ state' \in [Sessions -> States]
        /\ idle' \in [Sessions -> 0..TTL + 1]
        /\ warned' \in [Sessions -> BOOLEAN]
    BY <1>4, <1>t, <1>e DEF Tick, Active
  <2>2. /\ lock' \in [Sessions -> Calls \cup {NoCall}]
        /\ pc' \in [Calls -> {"idle", "create", "patch", "write", "step", "mint", "last"}]
        /\ on' \in [Calls -> Sessions \cup {NoSession}]
        /\ stage' \in [Calls -> 0..LAST]
        /\ view' \in [Calls -> States]
        /\ prev' \in [Calls -> SUBSET Sessions]
    BY <1>4, <1>t, <1>e DEF Tick, Active
  <2>3. /\ plan' \in [Sessions -> {"keep", "warn", "abandon"}]
        /\ seen' \in [Sessions -> States]
        /\ edits' \in Nat
        /\ told' \in [Sessions -> States]
        /\ raced' \in [Sessions -> BOOLEAN]
        /\ elder' \in [Sessions -> SUBSET Sessions]
        /\ minted' \in [Sessions -> SUBSET States]
    BY <1>4, <1>t, <1>e DEF Tick, Active
  <2>4. /\ \A j \in Calls : pc'[j] # "idle" => on'[j] \in Sessions
        /\ \A j \in Calls : pc'[j] \in {"patch", "write", "step"} => stage'[j] \in Stages
    BY <1>4, <1>t, <1>e DEF Tick, Active
  <2> QED
    BY <2>1, <2>2, <2>3, <2>4 DEF TypeOK
<1>5. CASE UNCHANGED vars
  <2>1. /\ status' \in [Sessions -> {"absent", "active", "abandoned"}]
        /\ step' \in [Sessions -> 0..LAST + 1]
        /\ state' \in [Sessions -> States]
        /\ idle' \in [Sessions -> 0..TTL + 1]
        /\ warned' \in [Sessions -> BOOLEAN]
    BY <1>5, <1>t, <1>e DEF vars
  <2>2. /\ lock' \in [Sessions -> Calls \cup {NoCall}]
        /\ pc' \in [Calls -> {"idle", "create", "patch", "write", "step", "mint", "last"}]
        /\ on' \in [Calls -> Sessions \cup {NoSession}]
        /\ stage' \in [Calls -> 0..LAST]
        /\ view' \in [Calls -> States]
        /\ prev' \in [Calls -> SUBSET Sessions]
    BY <1>5, <1>t, <1>e DEF vars
  <2>3. /\ plan' \in [Sessions -> {"keep", "warn", "abandon"}]
        /\ seen' \in [Sessions -> States]
        /\ edits' \in Nat
        /\ told' \in [Sessions -> States]
        /\ raced' \in [Sessions -> BOOLEAN]
        /\ elder' \in [Sessions -> SUBSET Sessions]
        /\ minted' \in [Sessions -> SUBSET States]
    BY <1>5, <1>t, <1>e DEF vars
  <2>4. /\ \A j \in Calls : pc'[j] # "idle" => on'[j] \in Sessions
        /\ \A j \in Calls : pc'[j] \in {"patch", "write", "step"} => stage'[j] \in Stages
    BY <1>5, <1>t, <1>e DEF vars
  <2> QED
    BY <2>1, <2>2, <2>3, <2>4 DEF TypeOK
<1> QED
  BY <1>0, <1>1, <1>2, <1>3, <1>4, <1>5 DEF Next

\* Nobody writes a locked row but the call that holds the lock.
LEMMA LockStep == TypeOK /\ LockHeld /\ [Next]_vars => LockHeld'
<1> SUFFICES ASSUME TypeOK /\ LockHeld, [Next]_vars PROVE LockHeld'
  OBVIOUS
<1> USE WizardAssumption DEF rowVars, callVars, jobVars, pastVars
<1>t. /\ status \in [Sessions -> {"absent", "active", "abandoned"}]
      /\ state \in [Sessions -> States]
      /\ lock \in [Sessions -> Calls \cup {NoCall}]
      /\ pc \in [Calls -> {"idle", "create", "patch", "write", "step", "mint", "last"}]
      /\ on \in [Calls -> Sessions \cup {NoSession}]
      /\ view \in [Calls -> States]
      /\ plan \in [Sessions -> {"keep", "warn", "abandon"}]
      /\ \A k \in Calls : pc[k] # "idle" => on[k] \in Sessions
  BY DEF TypeOK
<1>0. ASSUME NEW k \in Calls, Call(k) PROVE LockHeld'
  <2>1. CASE CreateReads(k)
    BY <2>1, <1>t DEF CreateReads, Active, Goto, LockHeld
  <2>2. CASE CreateWrites(k)
    BY <2>2, <1>t DEF CreateWrites, Returns, Touch, Replaced, Goto, Unlocked, LockHeld
  <2>3. CASE UpdateReads(k)
    BY <2>3, <1>t DEF UpdateReads, Active, InTurn, Goto, LockHeld
  <2>4. CASE PatchReads(k)
    BY <2>4, <1>t DEF PatchReads, Returns, Editable, Locks, Goto, LockHeld
  <2>5. CASE PatchWrites(k)
    BY <2>5, <1>t DEF PatchWrites, Touch, Goto, LockHeld
  <2>6. CASE UpdateEnds(k)
    BY <2>6, <1>t DEF UpdateEnds, SetStep, Returns, Editable, Touch, Goto, Unlocked, LockHeld
  <2>7. CASE FinalizeReads(k)
    BY <2>7, <1>t DEF FinalizeReads, Active, Finished, Goto, LockHeld
  <2>8. CASE Mint(k)
    BY <2>8, <1>t DEF Mint, Goto, LockHeld
  <2>9. CASE FinalizeEnds(k)
    BY <2>9, <1>t DEF FinalizeEnds, SetStep, Returns, Editable, Touch, Goto, Unlocked, LockHeld
  <2>10. CASE CallFails(k)
    BY <2>10, <1>t DEF CallFails, Returns, Goto, LockHeld
  <2> QED
    BY <1>0, <2>1, <2>2, <2>3, <2>4, <2>5, <2>6, <2>7, <2>8, <2>9, <2>10 DEF Call
<1>1. CASE SweepReads
  BY <1>1, <1>t DEF SweepReads, Verdict, LockHeld
<1>2. CASE SweepWrites
  BY <1>2, <1>t DEF SweepWrites, SweepDone, Planned, Unlocked, LockHeld
<1>3. CASE SweepFails
  BY <1>3, <1>t DEF SweepFails, SweepDone, LockHeld
<1>4. CASE Tick
  BY <1>4, <1>t DEF Tick, Active, LockHeld
<1>5. CASE UNCHANGED vars
  BY <1>5, <1>t DEF vars, LockHeld
<1> QED
  BY <1>0, <1>1, <1>2, <1>3, <1>4, <1>5 DEF Next

\* Only an edit changes a state, and an edit in the middle is a race.
LEMMA WarningStep == TypeOK /\ LockHeld /\ WarningIsFresh /\ [Next]_vars => WarningIsFresh'
<1> SUFFICES ASSUME TypeOK /\ LockHeld /\ WarningIsFresh, [Next]_vars PROVE WarningIsFresh'
  OBVIOUS
<1> USE WizardAssumption DEF rowVars, callVars, jobVars, pastVars
<1>t. /\ state \in [Sessions -> States]
      /\ pc \in [Calls -> {"idle", "create", "patch", "write", "step", "mint", "last"}]
      /\ on \in [Calls -> Sessions \cup {NoSession}]
      /\ plan \in [Sessions -> {"keep", "warn", "abandon"}]
      /\ seen \in [Sessions -> States]
      /\ raced \in [Sessions -> BOOLEAN]
      /\ \A k \in Calls : pc[k] # "idle" => on[k] \in Sessions
  BY DEF TypeOK
<1>0. ASSUME NEW k \in Calls, Call(k) PROVE WarningIsFresh'
  <2>1. CASE CreateReads(k)
    BY <2>1, <1>t DEF CreateReads, Active, Goto, LockHeld, WarningIsFresh
  <2>2. CASE CreateWrites(k)
    BY <2>2, <1>t DEF CreateWrites, Returns, Touch, Replaced, Goto, Unlocked, LockHeld, WarningIsFresh
  <2>3. CASE UpdateReads(k)
    BY <2>3, <1>t DEF UpdateReads, Active, InTurn, Goto, LockHeld, WarningIsFresh
  <2>4. CASE PatchReads(k)
    BY <2>4, <1>t DEF PatchReads, Returns, Editable, Locks, Goto, LockHeld, WarningIsFresh
  <2>5. CASE PatchWrites(k)
    BY <2>5, <1>t DEF PatchWrites, Touch, Goto, LockHeld, WarningIsFresh
  <2>6. CASE UpdateEnds(k)
    BY <2>6, <1>t DEF UpdateEnds, SetStep, Returns, Editable, Touch, Goto, Unlocked, LockHeld, WarningIsFresh
  <2>7. CASE FinalizeReads(k)
    BY <2>7, <1>t DEF FinalizeReads, Active, Finished, Goto, LockHeld, WarningIsFresh
  <2>8. CASE Mint(k)
    BY <2>8, <1>t DEF Mint, Goto, LockHeld, WarningIsFresh
  <2>9. CASE FinalizeEnds(k)
    BY <2>9, <1>t DEF FinalizeEnds, SetStep, Returns, Editable, Touch, Goto, Unlocked, LockHeld, WarningIsFresh
  <2>10. CASE CallFails(k)
    BY <2>10, <1>t DEF CallFails, Returns, Goto, LockHeld, WarningIsFresh
  <2> QED
    BY <1>0, <2>1, <2>2, <2>3, <2>4, <2>5, <2>6, <2>7, <2>8, <2>9, <2>10 DEF Call
<1>1. CASE SweepReads
  BY <1>1, <1>t DEF SweepReads, Verdict, LockHeld, WarningIsFresh
<1>2. CASE SweepWrites
  BY <1>2, <1>t DEF SweepWrites, SweepDone, Planned, Unlocked, LockHeld, WarningIsFresh
<1>3. CASE SweepFails
  BY <1>3, <1>t DEF SweepFails, SweepDone, LockHeld, WarningIsFresh
<1>4. CASE Tick
  BY <1>4, <1>t DEF Tick, Active, LockHeld, WarningIsFresh
<1>5. CASE UNCHANGED vars
  BY <1>5, <1>t DEF vars, LockHeld, WarningIsFresh
<1> QED
  BY <1>0, <1>1, <1>2, <1>3, <1>4, <1>5 DEF Next

\* An edit adds to the state it is told of.
LEMMA PatchStep == TypeOK /\ LockHeld /\ WarningIsFresh /\ PatchesSurvive /\ [Next]_vars => PatchesSurvive'
<1> SUFFICES ASSUME TypeOK /\ LockHeld /\ WarningIsFresh /\ PatchesSurvive, [Next]_vars PROVE PatchesSurvive'
  OBVIOUS
<1> USE WizardAssumption DEF rowVars, callVars, jobVars, pastVars
<1>t. /\ state \in [Sessions -> States]
      /\ pc \in [Calls -> {"idle", "create", "patch", "write", "step", "mint", "last"}]
      /\ on \in [Calls -> Sessions \cup {NoSession}]
      /\ stage \in [Calls -> 0..LAST]
      /\ view \in [Calls -> States]
      /\ plan \in [Sessions -> {"keep", "warn", "abandon"}]
      /\ seen \in [Sessions -> States]
      /\ told \in [Sessions -> States]
      /\ raced \in [Sessions -> BOOLEAN]
      /\ \A k \in Calls : pc[k] # "idle" => on[k] \in Sessions
      /\ \A k \in Calls : pc[k] \in {"patch", "write", "step"} => stage[k] \in Stages
  BY DEF TypeOK
<1>0. ASSUME NEW k \in Calls, Call(k) PROVE PatchesSurvive'
  <2>1. CASE CreateReads(k)
    BY <2>1, <1>t DEF CreateReads, Active, Goto, LockHeld, WarningIsFresh, PatchesSurvive
  <2>2. CASE CreateWrites(k)
    BY <2>2, <1>t DEF CreateWrites, Returns, Touch, Replaced, Goto, Unlocked, LockHeld, WarningIsFresh, PatchesSurvive
  <2>3. CASE UpdateReads(k)
    BY <2>3, <1>t DEF UpdateReads, Active, InTurn, Goto, LockHeld, WarningIsFresh, PatchesSurvive
  <2>4. CASE PatchReads(k)
    BY <2>4, <1>t DEF PatchReads, Returns, Editable, Locks, Goto, LockHeld, WarningIsFresh, PatchesSurvive
  <2>5. CASE PatchWrites(k)
    BY <2>5, <1>t DEF PatchWrites, Touch, Goto, LockHeld, WarningIsFresh, PatchesSurvive
  <2>6. CASE UpdateEnds(k)
    BY <2>6, <1>t DEF UpdateEnds, SetStep, Returns, Editable, Touch, Goto, Unlocked, LockHeld, WarningIsFresh, PatchesSurvive
  <2>7. CASE FinalizeReads(k)
    BY <2>7, <1>t DEF FinalizeReads, Active, Finished, Goto, LockHeld, WarningIsFresh, PatchesSurvive
  <2>8. CASE Mint(k)
    BY <2>8, <1>t DEF Mint, Goto, LockHeld, WarningIsFresh, PatchesSurvive
  <2>9. CASE FinalizeEnds(k)
    BY <2>9, <1>t DEF FinalizeEnds, SetStep, Returns, Editable, Touch, Goto, Unlocked, LockHeld, WarningIsFresh, PatchesSurvive
  <2>10. CASE CallFails(k)
    BY <2>10, <1>t DEF CallFails, Returns, Goto, LockHeld, WarningIsFresh, PatchesSurvive
  <2> QED
    BY <1>0, <2>1, <2>2, <2>3, <2>4, <2>5, <2>6, <2>7, <2>8, <2>9, <2>10 DEF Call
<1>1. CASE SweepReads
  BY <1>1, <1>t DEF SweepReads, Verdict, LockHeld, WarningIsFresh, PatchesSurvive
<1>2. CASE SweepWrites
  BY <1>2, <1>t DEF SweepWrites, SweepDone, Planned, Unlocked, LockHeld, WarningIsFresh, PatchesSurvive
<1>3. CASE SweepFails
  BY <1>3, <1>t DEF SweepFails, SweepDone, LockHeld, WarningIsFresh, PatchesSurvive
<1>4. CASE Tick
  BY <1>4, <1>t DEF Tick, Active, LockHeld, WarningIsFresh, PatchesSurvive
<1>5. CASE UNCHANGED vars
  BY <1>5, <1>t DEF vars, LockHeld, WarningIsFresh, PatchesSurvive
<1> QED
  BY <1>0, <1>1, <1>2, <1>3, <1>4, <1>5 DEF Next

\* Rows do not disappear, and a session id is used once.
LEMMA RowsStep == TypeOK /\ RowsExist /\ [Next]_vars => RowsExist'
<1> SUFFICES ASSUME TypeOK /\ RowsExist, [Next]_vars PROVE RowsExist'
  OBVIOUS
<1> USE WizardAssumption DEF rowVars, callVars, jobVars, pastVars
<1>t. /\ status \in [Sessions -> {"absent", "active", "abandoned"}]
      /\ pc \in [Calls -> {"idle", "create", "patch", "write", "step", "mint", "last"}]
      /\ on \in [Calls -> Sessions \cup {NoSession}]
      /\ prev \in [Calls -> SUBSET Sessions]
      /\ plan \in [Sessions -> {"keep", "warn", "abandon"}]
      /\ elder \in [Sessions -> SUBSET Sessions]
      /\ \A k \in Calls : pc[k] # "idle" => on[k] \in Sessions
  BY DEF TypeOK
<1>0. ASSUME NEW k \in Calls, Call(k) PROVE RowsExist'
  <2>1. CASE CreateReads(k)
    BY <2>1, <1>t DEF CreateReads, Active, Goto, RowsExist
  <2>2. CASE CreateWrites(k)
    BY <2>2, <1>t DEF CreateWrites, Returns, Touch, Replaced, Goto, Unlocked, RowsExist
  <2>3. CASE UpdateReads(k)
    BY <2>3, <1>t DEF UpdateReads, Active, InTurn, Goto, RowsExist
  <2>4. CASE PatchReads(k)
    BY <2>4, <1>t DEF PatchReads, Returns, Editable, Locks, Goto, RowsExist
  <2>5. CASE PatchWrites(k)
    BY <2>5, <1>t DEF PatchWrites, Touch, Goto, RowsExist
  <2>6. CASE UpdateEnds(k)
    BY <2>6, <1>t DEF UpdateEnds, SetStep, Returns, Editable, Touch, Goto, Unlocked, RowsExist
  <2>7. CASE FinalizeReads(k)
    BY <2>7, <1>t DEF FinalizeReads, Active, Finished, Goto, RowsExist
  <2>8. CASE Mint(k)
    BY <2>8, <1>t DEF Mint, Goto, RowsExist
  <2>9. CASE FinalizeEnds(k)
    BY <2>9, <1>t DEF FinalizeEnds, SetStep, Returns, Editable, Touch, Goto, Unlocked, RowsExist
  <2>10. CASE CallFails(k)
    BY <2>10, <1>t DEF CallFails, Returns, Goto, RowsExist
  <2> QED
    BY <1>0, <2>1, <2>2, <2>3, <2>4, <2>5, <2>6, <2>7, <2>8, <2>9, <2>10 DEF Call
<1>1. CASE SweepReads
  BY <1>1, <1>t DEF SweepReads, Verdict, RowsExist
<1>2. CASE SweepWrites
  BY <1>2, <1>t DEF SweepWrites, SweepDone, Planned, Unlocked, RowsExist
<1>3. CASE SweepFails
  BY <1>3, <1>t DEF SweepFails, SweepDone, RowsExist
<1>4. CASE Tick
  BY <1>4, <1>t DEF Tick, Active, RowsExist
<1>5. CASE UNCHANGED vars
  BY <1>5, <1>t DEF vars, RowsExist
<1> QED
  BY <1>0, <1>1, <1>2, <1>3, <1>4, <1>5 DEF Next

\* No draft that was there becomes active again.
LEMMA EldersStep == TypeOK /\ RowsExist /\ EldersSeen /\ [Next]_vars => EldersSeen'
<1> SUFFICES ASSUME TypeOK /\ RowsExist /\ EldersSeen, [Next]_vars PROVE EldersSeen'
  OBVIOUS
<1> USE WizardAssumption DEF rowVars, callVars, jobVars, pastVars
<1>t. /\ status \in [Sessions -> {"absent", "active", "abandoned"}]
      /\ pc \in [Calls -> {"idle", "create", "patch", "write", "step", "mint", "last"}]
      /\ on \in [Calls -> Sessions \cup {NoSession}]
      /\ prev \in [Calls -> SUBSET Sessions]
      /\ plan \in [Sessions -> {"keep", "warn", "abandon"}]
      /\ elder \in [Sessions -> SUBSET Sessions]
      /\ \A k \in Calls : pc[k] # "idle" => on[k] \in Sessions
  BY DEF TypeOK
<1>0. ASSUME NEW k \in Calls, Call(k) PROVE EldersSeen'
  <2>1. CASE CreateReads(k)
    BY <2>1, <1>t DEF CreateReads, Active, Goto, RowsExist, EldersSeen
  <2>2. CASE CreateWrites(k)
    BY <2>2, <1>t DEF CreateWrites, Returns, Touch, Replaced, Goto, Unlocked, RowsExist, EldersSeen
  <2>3. CASE UpdateReads(k)
    BY <2>3, <1>t DEF UpdateReads, Active, InTurn, Goto, RowsExist, EldersSeen
  <2>4. CASE PatchReads(k)
    BY <2>4, <1>t DEF PatchReads, Returns, Editable, Locks, Goto, RowsExist, EldersSeen
  <2>5. CASE PatchWrites(k)
    BY <2>5, <1>t DEF PatchWrites, Touch, Goto, RowsExist, EldersSeen
  <2>6. CASE UpdateEnds(k)
    BY <2>6, <1>t DEF UpdateEnds, SetStep, Returns, Editable, Touch, Goto, Unlocked, RowsExist, EldersSeen
  <2>7. CASE FinalizeReads(k)
    BY <2>7, <1>t DEF FinalizeReads, Active, Finished, Goto, RowsExist, EldersSeen
  <2>8. CASE Mint(k)
    BY <2>8, <1>t DEF Mint, Goto, RowsExist, EldersSeen
  <2>9. CASE FinalizeEnds(k)
    BY <2>9, <1>t DEF FinalizeEnds, SetStep, Returns, Editable, Touch, Goto, Unlocked, RowsExist, EldersSeen
  <2>10. CASE CallFails(k)
    BY <2>10, <1>t DEF CallFails, Returns, Goto, RowsExist, EldersSeen
  <2> QED
    BY <1>0, <2>1, <2>2, <2>3, <2>4, <2>5, <2>6, <2>7, <2>8, <2>9, <2>10 DEF Call
<1>1. CASE SweepReads
  BY <1>1, <1>t DEF SweepReads, Verdict, RowsExist, EldersSeen
<1>2. CASE SweepWrites
  BY <1>2, <1>t DEF SweepWrites, SweepDone, Planned, Unlocked, RowsExist, EldersSeen
<1>3. CASE SweepFails
  BY <1>3, <1>t DEF SweepFails, SweepDone, RowsExist, EldersSeen
<1>4. CASE Tick
  BY <1>4, <1>t DEF Tick, Active, RowsExist, EldersSeen
<1>5. CASE UNCHANGED vars
  BY <1>5, <1>t DEF vars, RowsExist, EldersSeen
<1> QED
  BY <1>0, <1>1, <1>2, <1>3, <1>4, <1>5 DEF Next

\* A new draft takes the place of its elders.
LEMMA OneDraftStep == TypeOK /\ RowsExist /\ EldersSeen /\ OneDraftAtATime /\ [Next]_vars => OneDraftAtATime'
<1> SUFFICES ASSUME TypeOK /\ RowsExist /\ EldersSeen /\ OneDraftAtATime, [Next]_vars PROVE OneDraftAtATime'
  OBVIOUS
<1> USE WizardAssumption DEF rowVars, callVars, jobVars, pastVars
<1>t. /\ status \in [Sessions -> {"absent", "active", "abandoned"}]
      /\ pc \in [Calls -> {"idle", "create", "patch", "write", "step", "mint", "last"}]
      /\ on \in [Calls -> Sessions \cup {NoSession}]
      /\ prev \in [Calls -> SUBSET Sessions]
      /\ plan \in [Sessions -> {"keep", "warn", "abandon"}]
      /\ elder \in [Sessions -> SUBSET Sessions]
      /\ \A k \in Calls : pc[k] # "idle" => on[k] \in Sessions
  BY DEF TypeOK
<1>0. ASSUME NEW k \in Calls, Call(k) PROVE OneDraftAtATime'
  <2>1. CASE CreateReads(k)
    BY <2>1, <1>t DEF CreateReads, Active, Goto, RowsExist, EldersSeen, OneDraftAtATime, Active
  <2>2. CASE CreateWrites(k)
    BY <2>2, <1>t DEF CreateWrites, Returns, Touch, Replaced, Goto, Unlocked, RowsExist, EldersSeen, OneDraftAtATime, Active
  <2>3. CASE UpdateReads(k)
    BY <2>3, <1>t DEF UpdateReads, Active, InTurn, Goto, RowsExist, EldersSeen, OneDraftAtATime, Active
  <2>4. CASE PatchReads(k)
    BY <2>4, <1>t DEF PatchReads, Returns, Editable, Locks, Goto, RowsExist, EldersSeen, OneDraftAtATime, Active
  <2>5. CASE PatchWrites(k)
    BY <2>5, <1>t DEF PatchWrites, Touch, Goto, RowsExist, EldersSeen, OneDraftAtATime, Active
  <2>6. CASE UpdateEnds(k)
    BY <2>6, <1>t DEF UpdateEnds, SetStep, Returns, Editable, Touch, Goto, Unlocked, RowsExist, EldersSeen, OneDraftAtATime, Active
  <2>7. CASE FinalizeReads(k)
    BY <2>7, <1>t DEF FinalizeReads, Active, Finished, Goto, RowsExist, EldersSeen, OneDraftAtATime, Active
  <2>8. CASE Mint(k)
    BY <2>8, <1>t DEF Mint, Goto, RowsExist, EldersSeen, OneDraftAtATime, Active
  <2>9. CASE FinalizeEnds(k)
    BY <2>9, <1>t DEF FinalizeEnds, SetStep, Returns, Editable, Touch, Goto, Unlocked, RowsExist, EldersSeen, OneDraftAtATime, Active
  <2>10. CASE CallFails(k)
    BY <2>10, <1>t DEF CallFails, Returns, Goto, RowsExist, EldersSeen, OneDraftAtATime, Active
  <2> QED
    BY <1>0, <2>1, <2>2, <2>3, <2>4, <2>5, <2>6, <2>7, <2>8, <2>9, <2>10 DEF Call
<1>1. CASE SweepReads
  BY <1>1, <1>t DEF SweepReads, Verdict, RowsExist, EldersSeen, OneDraftAtATime, Active
<1>2. CASE SweepWrites
  BY <1>2, <1>t DEF SweepWrites, SweepDone, Planned, Unlocked, RowsExist, EldersSeen, OneDraftAtATime, Active
<1>3. CASE SweepFails
  BY <1>3, <1>t DEF SweepFails, SweepDone, RowsExist, EldersSeen, OneDraftAtATime, Active
<1>4. CASE Tick
  BY <1>4, <1>t DEF Tick, Active, RowsExist, EldersSeen, OneDraftAtATime, Active
<1>5. CASE UNCHANGED vars
  BY <1>5, <1>t DEF vars, RowsExist, EldersSeen, OneDraftAtATime, Active
<1> QED
  BY <1>0, <1>1, <1>2, <1>3, <1>4, <1>5 DEF Next

\* An edit never takes a stage back.
LEMMA StagesStep == TypeOK /\ StagesTold /\ [Next]_vars => StagesTold'
<1> SUFFICES ASSUME TypeOK /\ StagesTold, [Next]_vars PROVE StagesTold'
  OBVIOUS
<1> USE WizardAssumption DEF rowVars, callVars, jobVars, pastVars
<1>t. /\ step \in [Sessions -> 0..LAST + 1]
      /\ pc \in [Calls -> {"idle", "create", "patch", "write", "step", "mint", "last"}]
      /\ on \in [Calls -> Sessions \cup {NoSession}]
      /\ stage \in [Calls -> 0..LAST]
      /\ told \in [Sessions -> States]
      /\ edits \in Nat
      /\ \A k \in Calls : pc[k] # "idle" => on[k] \in Sessions
      /\ \A k \in Calls : pc[k] \in {"patch", "write", "step"} => stage[k] \in Stages
  BY DEF TypeOK
<1>0. ASSUME NEW k \in Calls, Call(k) PROVE StagesTold'
  <2>1. CASE CreateReads(k)
    BY <2>1, <1>t DEF CreateReads, Active, Goto, StagesTold, Stages, States
  <2>2. CASE CreateWrites(k)
    BY <2>2, <1>t DEF CreateWrites, Returns, Touch, Replaced, Goto, Unlocked, StagesTold, Stages, States
  <2>3. CASE UpdateReads(k)
    BY <2>3, <1>t DEF UpdateReads, Active, InTurn, Goto, StagesTold, Stages, States
  <2>4. CASE PatchReads(k)
    BY <2>4, <1>t, SMTT(20) DEF PatchReads, Returns, Editable, Locks, Goto, StagesTold, Stages, States
  <2>5. CASE PatchWrites(k)
    BY <2>5, <1>t DEF PatchWrites, Touch, Goto, StagesTold, Stages, States
  <2>6. CASE UpdateEnds(k)
    <3>1. /\ step' = step \/ step' = [step EXCEPT ![on[k]] = stage[k]]
          /\ UNCHANGED told
          /\ pc' = [pc EXCEPT ![k] = "idle"]
          /\ \A j \in Calls : j # k => on'[j] = on[j] /\ stage'[j] = stage[j]
      BY <2>6, <1>t DEF UpdateEnds, SetStep, Returns, Goto
    <3>2. \A s \in Stages : s <= stage[k] => told[on[k]][s] # 0
      BY <2>6, <1>t DEF UpdateEnds, StagesTold, Stages
    <3> QED
      BY <3>1, <3>2, <1>t DEF StagesTold, Stages
  <2>7. CASE FinalizeReads(k)
    BY <2>7, <1>t DEF FinalizeReads, Active, Finished, Goto, StagesTold, Stages, States
  <2>8. CASE Mint(k)
    BY <2>8, <1>t DEF Mint, Goto, StagesTold, Stages, States
  <2>9. CASE FinalizeEnds(k)
    BY <2>9, <1>t DEF FinalizeEnds, SetStep, Returns, Editable, Touch, Goto, Unlocked, StagesTold, Stages, States
  <2>10. CASE CallFails(k)
    BY <2>10, <1>t DEF CallFails, Returns, Goto, StagesTold, Stages, States
  <2> QED
    BY <1>0, <2>1, <2>2, <2>3, <2>4, <2>5, <2>6, <2>7, <2>8, <2>9, <2>10 DEF Call
<1>1. CASE SweepReads
  BY <1>1, <1>t DEF SweepReads, Verdict, StagesTold, Stages, States
<1>2. CASE SweepWrites
  BY <1>2, <1>t DEF SweepWrites, SweepDone, Planned, Unlocked, StagesTold, Stages, States
<1>3. CASE SweepFails
  BY <1>3, <1>t DEF SweepFails, SweepDone, StagesTold, Stages, States
<1>4. CASE Tick
  BY <1>4, <1>t DEF Tick, Active, StagesTold, Stages, States
<1>5. CASE UNCHANGED vars
  BY <1>5, <1>t DEF vars, StagesTold, Stages, States
<1> QED
  BY <1>0, <1>1, <1>2, <1>3, <1>4, <1>5 DEF Next

\* What finalize reads has been told, stage by stage.
LEMMA ViewStep == TypeOK /\ PatchesSurvive /\ StagesTold /\ ViewIsWhole /\ [Next]_vars => ViewIsWhole'
<1> SUFFICES ASSUME TypeOK /\ PatchesSurvive /\ StagesTold /\ ViewIsWhole, [Next]_vars PROVE ViewIsWhole'
  OBVIOUS
<1> USE WizardAssumption DEF rowVars, callVars, jobVars, pastVars
<1>t. /\ pc \in [Calls -> {"idle", "create", "patch", "write", "step", "mint", "last"}]
      /\ on \in [Calls -> Sessions \cup {NoSession}]
      /\ step \in [Sessions -> 0..LAST + 1]
      /\ view \in [Calls -> States]
      /\ state \in [Sessions -> States]
      /\ told \in [Sessions -> States]
      /\ raced \in [Sessions -> BOOLEAN]
      /\ \A k \in Calls : pc[k] # "idle" => on[k] \in Sessions
  BY DEF TypeOK
<1>0. ASSUME NEW k \in Calls, Call(k) PROVE ViewIsWhole'
  <2>1. CASE CreateReads(k)
    BY <2>1, <1>t DEF CreateReads, Active, Goto, PatchesSurvive, StagesTold, ViewIsWhole, Stages
  <2>2. CASE CreateWrites(k)
    BY <2>2, <1>t DEF CreateWrites, Returns, Touch, Replaced, Goto, Unlocked, PatchesSurvive, StagesTold, ViewIsWhole, Stages
  <2>3. CASE UpdateReads(k)
    BY <2>3, <1>t DEF UpdateReads, Active, InTurn, Goto, PatchesSurvive, StagesTold, ViewIsWhole, Stages
  <2>4. CASE PatchReads(k)
    BY <2>4, <1>t DEF PatchReads, Returns, Editable, Locks, Goto, PatchesSurvive, StagesTold, ViewIsWhole, Stages
  <2>5. CASE PatchWrites(k)
    BY <2>5, <1>t DEF PatchWrites, Touch, Goto, PatchesSurvive, StagesTold, ViewIsWhole, Stages
  <2>6. CASE UpdateEnds(k)
    BY <2>6, <1>t DEF UpdateEnds, SetStep, Returns, Editable, Touch, Goto, Unlocked, PatchesSurvive, StagesTold, ViewIsWhole, Stages
  <2>7. CASE FinalizeReads(k)
    BY <2>7, <1>t DEF FinalizeReads, Active, Finished, Goto, PatchesSurvive, StagesTold, ViewIsWhole, Stages
  <2>8. CASE Mint(k)
    BY <2>8, <1>t DEF Mint, Goto, PatchesSurvive, StagesTold, ViewIsWhole, Stages
  <2>9. CASE FinalizeEnds(k)
    BY <2>9, <1>t DEF FinalizeEnds, SetStep, Returns, Editable, Touch, Goto, Unlocked, PatchesSurvive, StagesTold, ViewIsWhole, Stages
  <2>10. CASE CallFails(k)
    BY <2>10, <1>t DEF CallFails, Returns, Goto, PatchesSurvive, StagesTold, ViewIsWhole, Stages
  <2> QED
    BY <1>0, <2>1, <2>2, <2>3, <2>4, <2>5, <2>6, <2>7, <2>8, <2>9, <2>10 DEF Call
<1>1. CASE SweepReads
  BY <1>1, <1>t DEF SweepReads, Verdict, PatchesSurvive, StagesTold, ViewIsWhole, Stages
<1>2. CASE SweepWrites
  BY <1>2, <1>t DEF SweepWrites, SweepDone, Planned, Unlocked, PatchesSurvive, StagesTold, ViewIsWhole, Stages
<1>3. CASE SweepFails
  BY <1>3, <1>t DEF SweepFails, SweepDone, PatchesSurvive, StagesTold, ViewIsWhole, Stages
<1>4. CASE Tick
  BY <1>4, <1>t DEF Tick, Active, PatchesSurvive, StagesTold, ViewIsWhole, Stages
<1>5. CASE UNCHANGED vars
  BY <1>5, <1>t DEF vars, PatchesSurvive, StagesTold, ViewIsWhole, Stages
<1> QED
  BY <1>0, <1>1, <1>2, <1>3, <1>4, <1>5 DEF Next

\* A proposal is made of what finalize has read.
LEMMA MintStep == TypeOK /\ ViewIsWhole /\ MintIsWhole /\ [Next]_vars => MintIsWhole'
<1> SUFFICES ASSUME TypeOK /\ ViewIsWhole /\ MintIsWhole, [Next]_vars PROVE MintIsWhole'
  OBVIOUS
<1> USE WizardAssumption DEF rowVars, callVars, jobVars, pastVars
<1>t. /\ pc \in [Calls -> {"idle", "create", "patch", "write", "step", "mint", "last"}]
      /\ on \in [Calls -> Sessions \cup {NoSession}]
      /\ view \in [Calls -> States]
      /\ raced \in [Sessions -> BOOLEAN]
      /\ minted \in [Sessions -> SUBSET States]
      /\ \A k \in Calls : pc[k] # "idle" => on[k] \in Sessions
  BY DEF TypeOK
<1>0. ASSUME NEW k \in Calls, Call(k) PROVE MintIsWhole'
  <2>1. CASE CreateReads(k)
    BY <2>1, <1>t DEF CreateReads, Active, Goto, ViewIsWhole, MintIsWhole
  <2>2. CASE CreateWrites(k)
    BY <2>2, <1>t DEF CreateWrites, Returns, Touch, Replaced, Goto, Unlocked, ViewIsWhole, MintIsWhole
  <2>3. CASE UpdateReads(k)
    BY <2>3, <1>t DEF UpdateReads, Active, InTurn, Goto, ViewIsWhole, MintIsWhole
  <2>4. CASE PatchReads(k)
    BY <2>4, <1>t DEF PatchReads, Returns, Editable, Locks, Goto, ViewIsWhole, MintIsWhole
  <2>5. CASE PatchWrites(k)
    BY <2>5, <1>t DEF PatchWrites, Touch, Goto, ViewIsWhole, MintIsWhole
  <2>6. CASE UpdateEnds(k)
    BY <2>6, <1>t DEF UpdateEnds, SetStep, Returns, Editable, Touch, Goto, Unlocked, ViewIsWhole, MintIsWhole
  <2>7. CASE FinalizeReads(k)
    BY <2>7, <1>t DEF FinalizeReads, Active, Finished, Goto, ViewIsWhole, MintIsWhole
  <2>8. CASE Mint(k)
    BY <2>8, <1>t DEF Mint, Goto, ViewIsWhole, MintIsWhole
  <2>9. CASE FinalizeEnds(k)
    BY <2>9, <1>t DEF FinalizeEnds, SetStep, Returns, Editable, Touch, Goto, Unlocked, ViewIsWhole, MintIsWhole
  <2>10. CASE CallFails(k)
    BY <2>10, <1>t DEF CallFails, Returns, Goto, ViewIsWhole, MintIsWhole
  <2> QED
    BY <1>0, <2>1, <2>2, <2>3, <2>4, <2>5, <2>6, <2>7, <2>8, <2>9, <2>10 DEF Call
<1>1. CASE SweepReads
  BY <1>1, <1>t DEF SweepReads, Verdict, ViewIsWhole, MintIsWhole
<1>2. CASE SweepWrites
  BY <1>2, <1>t DEF SweepWrites, SweepDone, Planned, Unlocked, ViewIsWhole, MintIsWhole
<1>3. CASE SweepFails
  BY <1>3, <1>t DEF SweepFails, SweepDone, ViewIsWhole, MintIsWhole
<1>4. CASE Tick
  BY <1>4, <1>t DEF Tick, Active, ViewIsWhole, MintIsWhole
<1>5. CASE UNCHANGED vars
  BY <1>5, <1>t DEF vars, ViewIsWhole, MintIsWhole
<1> QED
  BY <1>0, <1>1, <1>2, <1>3, <1>4, <1>5 DEF Next

-----------------------------------------------------------------------------
(* The theorems.                                                            *)

LEMMA WizardInit == Init => WizardInv
<1> USE WizardAssumption DEF Init, Stages, States, Empty
<1>1. Init => TypeOK
  BY DEF TypeOK
<1>2. Init => LockHeld /\ WarningIsFresh /\ PatchesSurvive /\ RowsExist /\ EldersSeen
  BY DEF LockHeld, WarningIsFresh, PatchesSurvive, RowsExist, EldersSeen
<1>3. Init => OneDraftAtATime /\ StagesTold /\ ViewIsWhole /\ MintIsWhole
  BY DEF OneDraftAtATime, Active, StagesTold, ViewIsWhole, MintIsWhole
<1> QED
  BY <1>1, <1>2, <1>3 DEF WizardInv

LEMMA WizardStep == WizardInv /\ [Next]_vars => WizardInv'
  BY TypeStep, LockStep, WarningStep, PatchStep, RowsStep, EldersStep, OneDraftStep,
     StagesStep, ViewStep, MintStep DEF WizardInv

\* The inductive invariant holds.
THEOREM WizardInvariant == Spec => []WizardInv
  BY WizardInit, WizardStep, PTL DEF Spec

\* The drafts keep their type.
THEOREM WizardTypeCorrect == Spec => []TypeOK
<1>1. WizardInv => TypeOK
  BY DEF WizardInv
<1> QED
  BY <1>1, WizardInvariant, PTL

\* No committed edit of any number of concurrent calls is lost, but to a warning.
THEOREM EditsSurvive == Spec => []PatchesSurvive
<1>1. WizardInv => PatchesSurvive
  BY DEF WizardInv
<1> QED
  BY <1>1, WizardInvariant, PTL

\* However many stages there are, a proposal is made of all of them.
THEOREM ProposalsAreWhole == Spec => []MintIsWhole
<1>1. WizardInv => MintIsWhole
  BY DEF WizardInv
<1> QED
  BY <1>1, WizardInvariant, PTL

\* However many drafts are asked for, each replaces those that were there.
THEOREM DraftsReplace == Spec => []OneDraftAtATime
<1>1. WizardInv => OneDraftAtATime
  BY DEF WizardInv
<1> QED
  BY <1>1, WizardInvariant, PTL

\* No step wakes an abandoned draft.
LEMMA RestStep == TypeOK /\ LockHeld /\ WarningIsFresh /\ RowsExist /\ [Next]_vars => AbandonedRests
<1> SUFFICES ASSUME TypeOK /\ LockHeld /\ WarningIsFresh /\ RowsExist, [Next]_vars PROVE AbandonedRests
  OBVIOUS
<1> USE WizardAssumption DEF rowVars, callVars, jobVars, pastVars
<1>t. /\ status \in [Sessions -> {"absent", "active", "abandoned"}]
      /\ step \in [Sessions -> 0..LAST + 1]
      /\ state \in [Sessions -> States]
      /\ pc \in [Calls -> {"idle", "create", "patch", "write", "step", "mint", "last"}]
      /\ on \in [Calls -> Sessions \cup {NoSession}]
      /\ view \in [Calls -> States]
      /\ plan \in [Sessions -> {"keep", "warn", "abandon"}]
      /\ seen \in [Sessions -> States]
      /\ raced \in [Sessions -> BOOLEAN]
      /\ \A k \in Calls : pc[k] # "idle" => on[k] \in Sessions
  BY DEF TypeOK
<1>0. ASSUME NEW k \in Calls, Call(k) PROVE AbandonedRests
  <2>1. CASE CreateReads(k)
    BY <2>1, <1>t DEF CreateReads, Active, Goto, LockHeld, WarningIsFresh, RowsExist, AbandonedRests
  <2>2. CASE CreateWrites(k)
    BY <2>2, <1>t DEF CreateWrites, Returns, Touch, Replaced, Goto, Unlocked, LockHeld, WarningIsFresh, RowsExist, AbandonedRests
  <2>3. CASE UpdateReads(k)
    BY <2>3, <1>t DEF UpdateReads, Active, InTurn, Goto, LockHeld, WarningIsFresh, RowsExist, AbandonedRests
  <2>4. CASE PatchReads(k)
    BY <2>4, <1>t DEF PatchReads, Returns, Editable, Locks, Goto, LockHeld, WarningIsFresh, RowsExist, AbandonedRests
  <2>5. CASE PatchWrites(k)
    BY <2>5, <1>t DEF PatchWrites, Touch, Goto, LockHeld, WarningIsFresh, RowsExist, AbandonedRests
  <2>6. CASE UpdateEnds(k)
    BY <2>6, <1>t DEF UpdateEnds, SetStep, Returns, Editable, Touch, Goto, Unlocked, LockHeld, WarningIsFresh, RowsExist, AbandonedRests
  <2>7. CASE FinalizeReads(k)
    BY <2>7, <1>t DEF FinalizeReads, Active, Finished, Goto, LockHeld, WarningIsFresh, RowsExist, AbandonedRests
  <2>8. CASE Mint(k)
    BY <2>8, <1>t DEF Mint, Goto, LockHeld, WarningIsFresh, RowsExist, AbandonedRests
  <2>9. CASE FinalizeEnds(k)
    BY <2>9, <1>t DEF FinalizeEnds, SetStep, Returns, Editable, Touch, Goto, Unlocked, LockHeld, WarningIsFresh, RowsExist, AbandonedRests
  <2>10. CASE CallFails(k)
    BY <2>10, <1>t DEF CallFails, Returns, Goto, LockHeld, WarningIsFresh, RowsExist, AbandonedRests
  <2> QED
    BY <1>0, <2>1, <2>2, <2>3, <2>4, <2>5, <2>6, <2>7, <2>8, <2>9, <2>10 DEF Call
<1>1. CASE SweepReads
  BY <1>1, <1>t DEF SweepReads, Verdict, LockHeld, WarningIsFresh, RowsExist, AbandonedRests
<1>2. CASE SweepWrites
  BY <1>2, <1>t DEF SweepWrites, SweepDone, Planned, Unlocked, LockHeld, WarningIsFresh, RowsExist, AbandonedRests
<1>3. CASE SweepFails
  BY <1>3, <1>t DEF SweepFails, SweepDone, LockHeld, WarningIsFresh, RowsExist, AbandonedRests
<1>4. CASE Tick
  BY <1>4, <1>t DEF Tick, Active, LockHeld, WarningIsFresh, RowsExist, AbandonedRests
<1>5. CASE UNCHANGED vars
  BY <1>5, <1>t DEF vars, LockHeld, WarningIsFresh, RowsExist, AbandonedRests
<1> QED
  BY <1>0, <1>1, <1>2, <1>3, <1>4, <1>5 DEF Next

\* Calls that found a draft active do nothing to it once it is abandoned.
THEOREM AbandonedStays == Spec => AbandonedIsFinal
<1>1. WizardInv /\ WizardInv' /\ [Next]_vars => [AbandonedRests]_vars
  BY RestStep DEF WizardInv
<1> QED
  BY <1>1, WizardInvariant, PTL DEF Spec, AbandonedIsFinal
=============================================================================
